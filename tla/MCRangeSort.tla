---------------------------- MODULE MCRangeSort ----------------------------
(* Up to four rows, two of them with equal keys, anywhere in the           *)
(* partitions, so that partitions are empty or hold only equal keys. Every *)
(* subset may be sampled: none, fewer rows than partitions, and two equal  *)
(* rows that become one boundary twice.                                    *)
EXTENDS RangeSort

MCRows == 1 .. 4
MCKey == <<1, 2, 2, 3>>

(* One partition takes a path of its own. *)
MCPartitionCounts == 1 .. 3

(* SortedEnumerations leaves no sorted enumeration out. *)
ASSUME \A S \in SUBSET Rows :
  SortedEnumerations(S) =
    {s \in [1 .. Cardinality(S) -> S] : IsEnumerationOf(s, S) /\ InOrder(s)}
=============================================================================
