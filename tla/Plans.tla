------------------------------- MODULE Plans -------------------------------
(***************************************************************************)
(* Query plans and their expressions.                                      *)
(*                                                                         *)
(* A plan is a tree of records: "op" names the operator, "in" holds its    *)
(* children, "height" says how far the lowest leaf is below, and the other *)
(* fields are its arguments. An expression is a tree of records too, with  *)
(* "op" and "args"; a column is an attribute, known by its id wherever it  *)
(* appears.                                                                *)
(***************************************************************************)
EXTENDS Integers, Sequences, SequencesExt, TLC

Above(in) == 1 + Max({-1} \cup {in[i].height : i \in DOMAIN in})

WithChildren(p, in) == [p EXCEPT !.in = in, !.height = Above(in)]

(* p and everything below it, one level after the other.                   *)
Subtrees(p) ==
  LET level[n \in Nat] == IF n = 0 THEN {p} ELSE UNION {ToSet(t.in) : t \in level[n - 1]}
  IN  UNION {level[n] : n \in 0 .. p.height}

---------------------------------------------------------------------------
AttributeReference(name, id, type) ==
  [op |-> "AttributeReference", name |-> name, id |-> id, type |-> type, args |-> <<>>]
Alias(e, name, id) == [op |-> "Alias", name |-> name, id |-> id, args |-> <<e>>]
Literal(value, type) ==
  [op |-> "Literal", is_null |-> FALSE, value |-> value, type |-> type, args |-> <<>>]
NullLiteral(type) ==
  [op |-> "Literal", is_null |-> TRUE, value |-> 0, type |-> type, args |-> <<>>]
CastTo(e, type) == [op |-> "Cast", type |-> type, args |-> <<e>>]
AggregateExpression(function, e, id) ==
  [op |-> "AggregateExpression", function |-> function, id |-> id, args |-> <<e>>]
Unary(op, e)      == [op |-> op, args |-> <<e>>]
Binary(op, e, f)  == [op |-> op, args |-> <<e, f>>]
IfElse(op, p, e, f) == [op |-> op, args |-> <<p, e, f>>]
=============================================================================
