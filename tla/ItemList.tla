------------------------------ MODULE ItemList ------------------------------
(***************************************************************************)
(* What a tslist promises its users: a sequence of items to which they     *)
(* add, insert, remove and assign by position, as long as there is memory  *)
(* for it to grow.                                                         *)
(***************************************************************************)
EXTENDS Integers, Sequences, SequencesExt

CONSTANTS Item

VARIABLES
    items,       \* the list
    lost         \* it could not grow: nothing is promised any more

itemListVars == <<items, lost>>

ListInit == items = <<>> /\ lost = FALSE

Add(item) == items' = Append(items, item)
Insert(k, item) == items' = InsertAt(items, k, item)
(* A position that is not there stands for the last.                       *)
Drop(k) == items' = RemoveAt(items, IF k <= Len(items) THEN k ELSE Len(items))
Assign(k, item) == items' = [items EXCEPT ![k] = item]
Empty == items' = <<>>

ListStep ==
    \/ \E item \in Item :
          \/ Add(item)
          \/ \E k \in 1 .. Len(items) : Insert(k, item) \/ Assign(k, item)
    \/ items # <<>> /\ \E k \in 1 .. Len(items) + 1 : Drop(k)
    \/ Empty

ListNext == lost' \/ (~lost' /\ ListStep)

ListSpec == ListInit /\ [][ListNext]_itemListVars
=============================================================================
