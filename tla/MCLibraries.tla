---------------------------- MODULE MCLibraries ----------------------------
(***************************************************************************)
(* Model checking of the libraries under the network code, each by itself: *)
(* the ring buffer with messages of length 0 to 3 in elements of 2 bytes,  *)
(* the list, and the SPI bus with calls that run past the end of a block.  *)
(***************************************************************************)
EXTENDS TsRingBuf, TsList, W5500Bus, TLC

VARIABLE part
mcVars == <<ringVars, listVars, busVars, part>>

CONSTANTS a, b
MCMessage == { <<>>, <<a>>, <<b>>, <<a, b>>, <<a, a, a>> }
MCVolatile == { <<"socket", 1>> }

MCInit ==
    /\ RingInit /\ TsListInit /\ BusInit
    /\ part \in {"ring", "list", "bus"}
    /\ part # "list" => chunkSize = 1 /\ array = <<>>
MCRing == part = "ring" /\ RingNext /\ UNCHANGED <<listVars, busVars, part>>
MCList == part = "list" /\ TsListNext /\ UNCHANGED <<ringVars, busVars, part>>
MCBus == part = "bus" /\ BusNext /\ UNCHANGED <<ringVars, listVars, part>>
MCSpec == MCInit /\ [][MCRing \/ MCList \/ MCBus]_mcVars
=============================================================================
