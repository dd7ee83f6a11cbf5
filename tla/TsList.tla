------------------------------- MODULE TsList -------------------------------
(***************************************************************************)
(* The list of tslib (src/tslib/src/tslist.c) over its array               *)
(* (src/tslib/src/tsarray.c), which tsstring's split returns.  The array   *)
(* is one heap block.  The list asks it for another size in nearly every   *)
(* call: more than it needs when it has to grow, and otherwise exactly     *)
(* what it needs, so that it shrinks on every second addition.  A resize   *)
(* without memory does nothing, and nobody is told.                        *)
(*                                                                         *)
(* The array lets an index through that is one past its end.  The list is  *)
(* never asked to remove from an empty list.                               *)
(*                                                                         *)
(* A definition marked "Slip" is a plausible mistake in the one after it;  *)
(* no action uses it.  The properties are tried against these.             *)
(***************************************************************************)
EXTENDS Integers, Sequences

CONSTANTS
    Item,
    Stray,           \* what the heap holds: not an item
    Chunks,          \* chunk sizes lists are made with
    MAX_ITEMS        \* bound: the items of a list

ASSUME ListAssumption ==
    Stray \notin Item /\ Chunks \subseteq Nat \ {0} /\ MAX_ITEMS \in Nat

VARIABLES
    array,           \* the array's block; its length is the array's count
    size,            \* the list's count
    chunkSize,
    starved,         \* history: there was no memory when it had to grow
    overrun          \* history: a write past the end of the block

listVars == <<array, size, chunkSize, starved, overrun>>
-----------------------------------------------------------------------------
(* tsarray_resize: what a longer block holds at its end nobody chose.      *)
Resize(d, n) == [k \in 1 .. n |-> IF k <= Len(d) THEN d[k] ELSE Stray]

(* Slip: the array is made long enough for what the list holds already.    *)
NewSizeShort(n) == IF n > Len(array) THEN n - 1 ELSE n

(* tslist_check_resize.                                                    *)
NewSize(n) ==
    IF n > Len(array) THEN ((size \div chunkSize) + 1) * chunkSize ELSE n

(* Room for n items, if there is memory.                                   *)
CheckResize(n, memory) == IF memory THEN Resize(array, NewSize(n)) ELSE array
Starved(n, memory) == starved' = (starved \/ (~memory /\ n > Len(array)))

(* tsarray_set and tsarray_get at an index counted from 0, and whether a   *)
(* set of one of these indices is a write past the end.                    *)
ArrayGet(d, i) == IF i < Len(d) THEN d[i + 1] ELSE Stray
Overrun(d, indices) == overrun' = (overrun \/ Len(d) \in indices)
-----------------------------------------------------------------------------
TsListInit ==
    /\ chunkSize \in Chunks /\ size = 0
    /\ array \in { Resize(<<>>, chunkSize), <<>> }
    /\ starved = FALSE /\ overrun = FALSE

tslist_add(item) ==
    \E memory \in BOOLEAN :
        LET d == CheckResize(size + 1, memory) IN
        /\ size < MAX_ITEMS
        /\ array' = [k \in 1 .. Len(d) |-> IF k = size + 1 THEN item ELSE d[k]]
        /\ size' = size + 1
        /\ Starved(size + 1, memory) /\ Overrun(d, {size})
        /\ UNCHANGED chunkSize

(* Slip: items are moved from the front.                                   *)
InsertedForward(d, index, item) ==
    [k \in 1 .. Len(d) |->
        IF k - 1 = index THEN item
        ELSE IF k - 1 \in index + 1 .. size THEN ArrayGet(d, index) ELSE d[k]]

Inserted(d, index, item) ==
    [k \in 1 .. Len(d) |->
        IF k - 1 = index THEN item
        ELSE IF k - 1 \in index + 1 .. size THEN ArrayGet(d, k - 2) ELSE d[k]]

tslist_insertAt(index, item) ==
    \E memory \in BOOLEAN :
        LET d == CheckResize(size + 1, memory) IN
        /\ index < size /\ size < MAX_ITEMS
        /\ array' = Inserted(d, index, item)
        /\ size' = size + 1
        /\ Starved(size + 1, memory) /\ Overrun(d, index .. size)
        /\ UNCHANGED chunkSize

(* The items behind move down; an index beyond the last moves none.        *)
Removed(index) ==
    [k \in 1 .. Len(array) |->
        IF k - 1 \in index .. size - 2 THEN ArrayGet(array, k) ELSE array[k]]

tslist_removeAt(index) ==
    \E n \in {Len(array), NewSize(size - 1)} :
        /\ size > 0
        /\ array' = Resize(Removed(index), n)
        /\ size' = size - 1
        /\ Overrun(array, index .. size - 2)
        /\ UNCHANGED <<chunkSize, starved>>

tslist_set(index, item) ==
    /\ index < size
    /\ array' = [k \in 1 .. Len(array) |->
                    IF k = index + 1 THEN item ELSE array[k]]
    /\ Overrun(array, {index})
    /\ UNCHANGED <<size, chunkSize, starved>>

(* tsarray_clear, and a block of the first size if there is memory.        *)
tslist_clear ==
    /\ \E n \in {Len(array), chunkSize} :
          array' = Resize([k \in 1 .. Len(array) |-> Stray], n)
    /\ size' = 0
    /\ UNCHANGED <<chunkSize, starved, overrun>>

TsListNext ==
    \/ \E index \in 0 .. MAX_ITEMS :
          \/ tslist_removeAt(index)
          \/ \E item \in Item : tslist_insertAt(index, item) \/ tslist_set(index, item)
    \/ \E item \in Item : tslist_add(item)
    \/ tslist_clear

TsListSpec == TsListInit /\ [][TsListNext]_listVars
-----------------------------------------------------------------------------
(* As long as the block grew whenever it had to, every item has a place in *)
(* it and nothing is written past its end: the array's guard, off by one,  *)
(* is never needed.  A resize that fails to shrink does no harm.           *)
InBlock == ~starved => size <= Len(array) /\ ~overrun

(* The list is the sequence its calls describe, and nothing the heap held  *)
(* before shows in it, until it cannot grow.                               *)
Listed == INSTANCE ItemList WITH
    items <- IF starved THEN <<>> ELSE SubSeq(array, 1, size), lost <- starved
ImplementsList == Listed!ListSpec
=============================================================================
