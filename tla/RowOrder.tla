----------------------------- MODULE RowOrder -----------------------------
(***************************************************************************)
(* Rows and the order the sort operators put them in. Every row has an     *)
(* identity, so that a lost or a duplicated row shows even among rows with *)
(* equal sort keys; Key gives its place in the order that                  *)
(* FlatbuffersSortOrderEvaluator::less_than induces. Rows with equal keys  *)
(* are unordered: less_than is false both ways, and the sort is unstable.  *)
(***************************************************************************)
EXTENDS Integers, Sequences, FiniteSets

CONSTANTS
  Rows,   \* every row there may be
  Key     \* the sort key of each row

ASSUME RowsAssumption == Key \in [Rows -> Int]

(* Keys are not null: the code's comparison gives false if either key is,  *)
(* and then is no order.                                                   *)
less_than(a, b) == Key[a] < Key[b]

InOrder(s) == \A i, j \in 1 .. Len(s) : i < j => ~ less_than(s[j], s[i])

IsEnumerationOf(s, S) ==
  /\ \A r \in S : \E i \in 1 .. Len(s) : s[i] = r
  /\ \A i \in 1 .. Len(s) : s[i] \in S
  /\ \A i, j \in 1 .. Len(s) : s[i] = s[j] => i = j

(* The sequences got from S by taking a least remaining row, one by one.   *)
Selections(S) ==
  LET Least(T) == {x \in T : \A y \in T : ~ less_than(y, x)}
      sel[T \in SUBSET S] ==
        IF T = {} THEN {<<>>}
        ELSE UNION {{<<x>> \o s : s \in sel[T \ {x}]} : x \in Least(T)}
  IN  sel[S]

(* What std::sort, called with less_than, may return for the rows of S:    *)
(* any sorted enumeration. (Selections only spares TLC the other ones.)    *)
SortedEnumerations(S) ==
  {s \in Selections(S) : s \in Seq(S) /\ IsEnumerationOf(s, S) /\ InOrder(s)}
=============================================================================
