----------------------------- MODULE MCPrograms -----------------------------
(***************************************************************************)
(* Model checking of the two programs on W5500 TCP sockets, each by        *)
(* itself: the download of a file of three packets, the first and the      *)
(* second alike, and the web server.                                       *)
(***************************************************************************)
EXTENDS SpiDownload, WebServer, TLC

VARIABLE program
mcVars == <<downloadVars, serverVars, program>>

CONSTANTS a, b
MCFile == <<a, a, b>>

MCInit ==
    /\ DownloadInit /\ ServerInit
    /\ program \in {"spidl", "spiws"}
    /\ program = "spiws" => buf.num = 0 /\ buf.total = 0
MCDownload ==
    program = "spidl" /\ DownloadNext /\ UNCHANGED <<serverVars, program>>
MCServer ==
    program = "spiws" /\ ServerNext /\ UNCHANGED <<downloadVars, program>>
MCSpec == MCInit /\ [][MCDownload \/ MCServer]_mcVars

Runs(p, A) == program = p /\ A
MCFairSpec ==
    /\ MCSpec
    /\ WF_downloadVars(Runs("spidl", Client))
    /\ WF_downloadVars(Runs("spidl", Host))
    /\ WF_downloadVars(Runs("spidl", HostStops))
    /\ SF_downloadVars(Runs("spidl", ReadWell))
    /\ WF_serverVars(Runs("spiws", Server))
=============================================================================
