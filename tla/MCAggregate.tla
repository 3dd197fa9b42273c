---------------------------- MODULE MCAggregate ----------------------------
(* Up to six rows in three groups: a group larger than a partition's share *)
(* makes equal boundaries and an empty partition between two groups, and a *)
(* subset of the rows makes a single group or no rows at all.              *)
EXTENDS Aggregate

MCRows == 1 .. 6
MCKey == <<1, 1, 2, 2, 2, 3>>
=============================================================================
