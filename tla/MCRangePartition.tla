------------------------- MODULE MCRangePartition -------------------------
(* Samples of up to six rows cut into two to four ranges, so that the      *)
(* sample is empty, smaller than, a multiple of and not a multiple of the  *)
(* number of partitions, with and without duplicate keys.                  *)
EXTENDS RangePartition

MCKeys == 1 .. 3
MCRangeCounts == 2 .. 4
=============================================================================
