-------------------------------- MODULE Fifo --------------------------------
(***************************************************************************)
(* What a tsringbuf promises its users: a bounded queue of messages that   *)
(* hands each one out once, whole up to the reader's space, in the order   *)
(* they were accepted.                                                     *)
(***************************************************************************)
EXTENDS Integers, Sequences

CONSTANTS Message,    \* the messages that may be queued: non-empty sequences
          Capacity,   \* the most messages queued at once
          Rooms,      \* the sizes of the buffers readers bring
          NoResult    \* what a failed read returns

VARIABLES queue, result

FifoVars == <<queue, result>>

(* The part of a message that fits in room units, and its full length; a   *)
(* reader without a buffer gets the length alone.                          *)
Prefix(m, room) == SubSeq(m, 1, IF room < Len(m) THEN room ELSE Len(m))
Report(m, room) == [data |-> Prefix(m, room), len |-> Len(m)]

FifoInit == queue = <<>> /\ result = NoResult

Put(m) ==
    /\ Len(queue) < Capacity
    /\ queue' = Append(queue, m) /\ result' = NoResult

Get(room) ==
    /\ queue # <<>>
    /\ result' = Report(Head(queue), room) /\ queue' = Tail(queue)

Look(room) ==
    /\ queue # <<>>
    /\ result' = Report(Head(queue), room) /\ UNCHANGED queue

Empty == queue' = <<>> /\ result' = NoResult

(* A call that is refused changes nothing but the result.                  *)
Refuse == result' = NoResult /\ UNCHANGED queue

FifoNext ==
    \/ \E m \in Message : Put(m)
    \/ \E room \in Rooms : Get(room) \/ Look(room)
    \/ Empty \/ Refuse

FifoSpec == FifoInit /\ [][FifoNext]_FifoVars
=============================================================================
