----------------------------- MODULE SortSpec -----------------------------
(***************************************************************************)
(* What a sort operator promises: it returns, once, and what it returns is *)
(* every row it was given, once each, in the order of the sort keys.       *)
(***************************************************************************)
EXTENDS RowOrder

VARIABLES
  rows,      \* the rows to sort
  result,
  returned

sortVars == <<rows, result, returned>>

Init ==
  /\ rows \subseteq Rows
  /\ result = <<>>
  /\ returned = FALSE

Return ==
  /\ ~ returned
  /\ returned' = TRUE
  /\ IsEnumerationOf(result', rows)
  /\ InOrder(result')
  /\ UNCHANGED rows

Returns == <>returned

Spec == Init /\ [][Return]_sortVars /\ Returns
=============================================================================
