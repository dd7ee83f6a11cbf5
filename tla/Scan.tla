-------------------------------- MODULE Scan --------------------------------
(***************************************************************************)
(* The scan of a table every module of tsiplib makes, from index 0 up to   *)
(* the first entry that meets a condition.                                 *)
(***************************************************************************)
EXTENDS Integers

First(S) == CHOOSE s \in S : \A t \in S : s <= t
=============================================================================
