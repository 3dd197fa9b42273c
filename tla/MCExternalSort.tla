-------------------------- MODULE MCExternalSort --------------------------
(* Five rows with two pairs of equal keys in up to four blocks, merged two *)
(* runs at a time into blocks of two rows: no merge, one pass, and two     *)
(* passes whose last group is full or holds a single run all occur, and    *)
(* runs of one, two and three blocks.                                      *)
EXTENDS ExternalSort

MCRows == 1 .. 5
MCKey == [x \in MCRows |-> x \div 2]
=============================================================================
