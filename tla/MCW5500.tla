------------------------------ MODULE MCW5500 ------------------------------
(***************************************************************************)
(* Model checking of the W5500's sockets: which of them a program is       *)
(* given, and reception and sending, which use different registers and     *)
(* memories of the chip.  Each is run by itself, the others at rest.       *)
(*                                                                         *)
(* The payloads received hold small numbers, so that a driver that has     *)
(* lost its place reads plausible lengths from them; one frame is longer   *)
(* than the longest allowed.  The bytes sent are all different; a buffer   *)
(* is shorter than the transmit memory, two do not fit in it together, and *)
(* one does not fit at all.                                                *)
(***************************************************************************)
EXTENDS W5500Driver, W5500Send, W5500Sockets, TLC

VARIABLE part
mcVars == <<driverVars, sendVars, socketVars, part>>

MCFrames == { <<3>>, <<0, 4>>, <<9, 0, 3>>, <<7>>, <<0, 3, 5, 5>> }
MCBuffers == { <<1>>, <<2, 3>>, <<4, 5, 6, 7, 8>> }

MCInit ==
    /\ DriverInit /\ SendInit /\ SocketsInit
    /\ part \in {"receive", "send", "sockets"}
    /\ part # "send" => protocol = "MACRAW" /\ wr = 0
MCReceive ==
    /\ part = "receive" /\ DriverNext
    /\ UNCHANGED <<sendVars, socketVars, part>>
MCSend ==
    /\ part = "send" /\ SendNext
    /\ UNCHANGED <<driverVars, socketVars, part>>
MCSockets ==
    /\ part = "sockets" /\ SocketsNext
    /\ UNCHANGED <<driverVars, sendVars, part>>
MCSpec == MCInit /\ [][MCReceive \/ MCSend \/ MCSockets]_mcVars

Receiving(A) == part = "receive" /\ A
Sending(A) == part = "send" /\ A
MCPollingSpec ==
    /\ MCSpec
    /\ WF_driverVars(Receiving(RecvFromRing))
    /\ WF_driverVars(Receiving(RecvFromChip))
    /\ WF_driverVars(Receiving(ReadSize \/ ReadChunk \/ Refresh \/ CutFrame
                               \/ PushFails \/ StopCutting))
    /\ WF_sendVars(Sending(Loop)) /\ WF_sendVars(Sending(Chip))
=============================================================================
