------------------------------ MODULE Ranges ------------------------------
(***************************************************************************)
(* Range boundaries and the ranges they make, shared by the module that    *)
(* models the loops of the two enclave calls (RangePartition) and the one  *)
(* that uses their results (RangeSort). All operators are over sort keys.  *)
(***************************************************************************)
EXTENDS Integers, Sequences

Nondecreasing(s) == \A i \in 1 .. Len(s) : \A j \in i .. Len(s) : s[i] <= s[j]

(* The boundaries qfind_range_bounds returns for the sorted sample s and n *)
(* partitions: one row of every num_rows_per_part + 1.                     *)
Stride(s, n) == Len(s) \div n + 1

Boundaries(s, n) ==
  [i \in 1 .. Len(s) \div Stride(s, n) |-> s[i * Stride(s, n)]]

(* Key k belongs to range i of the boundaries bs, ranges being counted     *)
(* from 0: it is not below the first i boundaries and below all others.    *)
InRange(k, i, bs) ==
  /\ i \in 0 .. Len(bs)
  /\ \A j \in 1 .. Len(bs) : j <= i => bs[j] <= k
  /\ \A j \in 1 .. Len(bs) : i < j => k < bs[j]

(* rows is the stretch of the first n elements of s that holds all of them *)
(* that are in range i, and no others.                                     *)
IsRangeOf(rows, s, n, i, bs) ==
  \E a, b \in 0 .. n :
    /\ rows = SubSeq(s, a + 1, b)
    /\ \A j \in 1 .. n : InRange(s[j], i, bs) <=> j \in a + 1 .. b
=============================================================================
