-------------------------- MODULE MCSortMergeJoin --------------------------
(* Three primary and two foreign rows of one key, one of each of another,  *)
(* two rows to a block: enough for a group of two blocks of which one is   *)
(* not full, for a group handed on that is not needed, for two boundaries  *)
(* that are equal foreign rows, and for tables of which either side is     *)
(* empty.                                                                  *)
EXTENDS SortMergeJoin

MCRows == 1 .. 7
MCJoinKey == <<1, 1, 1, 1, 1, 2, 2>>
MCTag     == <<0, 0, 0, 1, 1, 0, 1>>
MCKey     == [x \in MCRows |-> sortForJoin(x)]
=============================================================================
