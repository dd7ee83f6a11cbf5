----------------------------- MODULE TsRingBuf -----------------------------
(***************************************************************************)
(* The ring buffer of tslib (src/tslib/src/tsringbuf.c), which holds the   *)
(* frames the W5500 driver has read and not yet handed out.  Each element  *)
(* owns a heap block that is kept, with its old bytes, when the element is *)
(* popped or the ring cleared, and grown only when a longer message comes. *)
(*                                                                         *)
(* A block is the sequence of its bytes, so its allocated size (capacity)  *)
(* is its length; NULL is the empty block.  A byte of fresh heap memory is *)
(* Junk.                                                                   *)
(*                                                                         *)
(* A definition marked "Slip" is a plausible mistake in the one after it;  *)
(* no action uses it.  The properties are tried against these.             *)
(***************************************************************************)
EXTENDS Integers, Sequences, FiniteSets

CONSTANTS
    Message,           \* what callers push: sequences of bytes
    Junk,              \* an uninitialised byte
    capacity,          \* elements in the ring
    max_element_size,
    Rooms,             \* max_len arguments; 0 also stands for a NULL buffer
    NoResult           \* what a failed call returns

ASSUME CapacityAssumption == capacity \in Nat \ {0}
ASSUME SizeAssumption == max_element_size \in Nat \ {0}
ASSUME RoomAssumption == Rooms \subseteq Nat
ASSUME MessageAssumption ==
    Message \subseteq Seq(UNION { { m[k] : k \in DOMAIN m } : m \in Message })

VARIABLES
    elements,    \* data, len and valid of each element
    write_idx, read_idx, count,
    result       \* what the last pop or peek copied out, and the length it
                 \* reported; NoResult after any other call

ringVars == <<elements, write_idx, read_idx, count, result>>
-----------------------------------------------------------------------------
Index == 0 .. capacity - 1
Unused == [data |-> <<>>, len |-> 0, valid |-> FALSE]

is_full == count >= capacity
is_empty == count = 0
Next1(i) == (i + 1) % capacity

(* realloc to exactly n bytes when the block is missing or smaller.        *)
Grown(block, n) ==
    IF Len(block) < n
    THEN [k \in 1 .. n |-> IF k <= Len(block) THEN block[k] ELSE Junk]
    ELSE block
(* memcpy of the message over the start of the block.                      *)
Overwrite(block, m) ==
    [k \in 1 .. Len(block) |-> IF k <= Len(m) THEN m[k] ELSE block[k]]

Accepts(m) == Len(m) # 0 /\ ~is_full /\ Len(m) <= max_element_size
-----------------------------------------------------------------------------
(* tsringbuf_create.                                                       *)
RingInit ==
    /\ elements = [i \in Index |-> Unused]
    /\ write_idx = 0 /\ read_idx = 0 /\ count = 0
    /\ result = NoResult

tsringbuf_push(m) ==
    /\ Accepts(m)
    /\ elements' = [elements EXCEPT ![write_idx] =
          [data |-> Overwrite(Grown(@.data, Len(m)), m),
           len |-> Len(m), valid |-> TRUE]]
    /\ write_idx' = Next1(write_idx) /\ count' = count + 1
    /\ result' = NoResult
    /\ UNCHANGED read_idx

(* Refused, or out of memory when the block has to grow.                   *)
PushFails(m) ==
    /\ ~Accepts(m) \/ Len(elements[write_idx].data) < Len(m)
    /\ result' = NoResult
    /\ UNCHANGED <<elements, write_idx, read_idx, count>>

(* What pop and peek copy out and report: the bytes that fit, but the full *)
(* length.                                                                 *)
Readable == ~is_empty /\ elements[read_idx].valid
CopyLen(e, max_len) == IF e.len > max_len THEN max_len ELSE e.len
(* Slip: the reported length of a message is taken from its block.         *)
ContentsOfBlock(e, max_len) ==
    [data |-> SubSeq(e.data, 1, IF Len(e.data) > max_len THEN max_len
                                ELSE Len(e.data)),
     len |-> e.len]

Contents(e, max_len) ==
    [data |-> SubSeq(e.data, 1, CopyLen(e, max_len)), len |-> e.len]

(* Slip: popping leaves the element's length.                              *)
PopKeepsLen(max_len) ==
    /\ Readable
    /\ result' = Contents(elements[read_idx], max_len)
    /\ elements' = [elements EXCEPT ![read_idx].valid = FALSE]
    /\ read_idx' = Next1(read_idx) /\ count' = count - 1
    /\ UNCHANGED write_idx

tsringbuf_pop(max_len) ==
    /\ Readable
    /\ result' = Contents(elements[read_idx], max_len)
    /\ elements' = [elements EXCEPT ![read_idx].valid = FALSE,
                                    ![read_idx].len = 0]
    /\ read_idx' = Next1(read_idx) /\ count' = count - 1
    /\ UNCHANGED write_idx

tsringbuf_peek(max_len) ==
    /\ Readable
    /\ result' = Contents(elements[read_idx], max_len)
    /\ UNCHANGED <<elements, write_idx, read_idx, count>>

ReadFails ==
    /\ ~Readable
    /\ result' = NoResult
    /\ UNCHANGED <<elements, write_idx, read_idx, count>>

(* tsringbuf_clear is tsringbuf_init_buffer; blocks stay.                  *)
tsringbuf_init_buffer ==
    /\ elements' = [i \in Index |->
          [elements[i] EXCEPT !.valid = FALSE, !.len = 0]]
    /\ write_idx' = 0 /\ read_idx' = 0 /\ count' = 0
    /\ result' = NoResult

RingNext ==
    \/ \E m \in Message : tsringbuf_push(m) \/ PushFails(m)
    \/ \E max_len \in Rooms : tsringbuf_pop(max_len) \/ tsringbuf_peek(max_len)
    \/ ReadFails
    \/ tsringbuf_init_buffer

RingSpec == RingInit /\ [][RingNext]_ringVars
-----------------------------------------------------------------------------
(* The element that holds the k-th oldest message.                         *)
Nth(k) == (read_idx + k - 1) % capacity
Pending == { Nth(k) : k \in 1 .. count }

RingTypeOK ==
    /\ \A i \in Index : /\ elements[i].valid \in BOOLEAN
                        /\ elements[i].len \in 0 .. max_element_size
                        /\ Len(elements[i].data) \in 0 .. max_element_size
    /\ write_idx \in Index /\ read_idx \in Index /\ count \in 0 .. capacity

(* The three indices, the valid flags and the lengths tell one story: the  *)
(* valid elements are the count ones from read_idx on, the next push goes  *)
(* right behind them, and only they have a length, which their block has   *)
(* room for.                                                               *)
WindowIsValid ==
    /\ write_idx = (read_idx + count) % capacity
    /\ \A i \in Index :
          /\ elements[i].valid = (i \in Pending)
          /\ elements[i].valid = (elements[i].len # 0)
          /\ elements[i].len <= Len(elements[i].data)

(* The ring is a FIFO of whole messages: no byte of an earlier occupant of *)
(* a block, and none that was never written, reaches a reader.             *)
Queue == INSTANCE Fifo WITH
    Message <- Message, Capacity <- capacity, Rooms <- Rooms, NoResult <- NoResult,
    result <- result,
    queue <- [k \in 1 .. count |->
                 SubSeq(elements[Nth(k)].data, 1, elements[Nth(k)].len)]
ImplementsFifo == Queue!FifoSpec
=============================================================================
