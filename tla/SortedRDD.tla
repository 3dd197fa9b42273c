----------------------------- MODULE SortedRDD -----------------------------
(***************************************************************************)
(* What QEncryptedSortExec.sort leaves for the operators above it: a       *)
(* sorted enumeration of the rows, cut at range boundaries that some       *)
(* sample of the rows gave. RangeSort is checked to end in such an RDD;    *)
(* the sort-merge join and the aggregation start from one.                 *)
(***************************************************************************)
EXTENDS RowOrder, Ranges, FiniteSetsExt

(* The partitions of an RDD of n.                                          *)
PartsOf(n) == 0 .. n - 1

SortKeys(s) == [i \in 1 .. Len(s) |-> Key[s[i]]]

(* The sort of a single partition needs no boundaries.                     *)
BoundariesOf(sample, n) ==
  IF n <= 1
    THEN {<<>>}
    ELSE {Boundaries(SortKeys(s), n) : s \in SortedEnumerations(sample)}

(* The places of the rows of range p in s. They are next to each other     *)
(* when s is in order.                                                     *)
PlacesOf(p, s, bs) == {i \in 1 .. Len(s) : InRange(Key[s[i]], p, bs)}

CutAt(s, bs, n) ==
  [p \in PartsOf(n) |->
     LET places == PlacesOf(p, s, bs)
     IN  IF places = {} THEN <<>> ELSE SubSeq(s, Min(places), Max(places))]

(* Every RDD of n partitions the sort of the rows S may leave.             *)
SortedRDDs(S, n) ==
  {CutAt(s, bs, n) : s \in SortedEnumerations(S),
                     bs \in UNION {BoundariesOf(sample, n) : sample \in SUBSET S}}
=============================================================================
