---------------------------- MODULE PlanMeaning ----------------------------
(***************************************************************************)
(* What a statement means, given its plan. A row is a sequence of values   *)
(* in the order of the columns. No value is null, as the rules assume      *)
(* (opaque/logical/rules.scala:102-103). Partitions are left out:          *)
(* SortMergeJoin and Aggregate are about those.                            *)
(***************************************************************************)
EXTENDS Plans

RECURSIVE dataType(_)
dataType(e) ==
  CASE e.op \in {"AttributeReference", "Literal", "Cast"} -> e.type
    [] e.op \in {"Alias", "Add", "Subtract", "Multiply", "UnaryMinus"} -> dataType(e.args[1])
    [] e.op \in {"If", "CaseWhen"} -> dataType(e.args[2])
    [] e.op = "AggregateExpression" ->
         IF e.function \in {"Sum", "Count"} THEN "LongType" ELSE dataType(e.args[1])
    [] OTHER -> "BooleanType"

toAttribute(e) == AttributeReference(e.name, e.id, dataType(e))
toAttributes(exprs) == [i \in DOMAIN exprs |-> toAttribute(exprs[i])]

(* The columns of an operator's rows, in their order.                      *)
RECURSIVE Output(_)
Output(p) ==
  CASE p.op \in {"Project", "EncryptedProject", "QEncryptedProjectExec"} ->
         toAttributes(p.projectList)
    [] p.op \in {"Aggregate", "EncryptedAggregate", "QEncryptedAggregateExec"} ->
         toAttributes(p.aggs)
    [] p.op \in {"Join", "EncryptedJoin"} -> Output(p.in[1]) \o Output(p.in[2])
    [] p.op = "QEncryptedSortMergeJoinExec" -> p.leftSchema \o p.rightSchema
    [] p.in = <<>> -> p.output
    [] OTHER -> Output(p.in[1])

---------------------------------------------------------------------------
(* What SQL makes of an expression on a group of rows of columns cols; on  *)
(* a row, it is that of the group of this row. An attribute that is not    *)
(* aggregated has one value in the group.                                  *)
Value(row, cols, attribute) == row[CHOOSE i \in DOMAIN cols : cols[i].id = attribute.id]

Combine(function, values) ==
  CASE function = "Sum"   -> FoldLeft(LAMBDA n, v : n + v, 0, values)
    [] function = "Count" -> Len(values)
    [] function = "Max"   -> CHOOSE m \in ToSet(values) : \A v \in ToSet(values) : v <= m
    [] function = "Min"   -> CHOOSE m \in ToSet(values) : \A v \in ToSet(values) : m <= v

RECURSIVE SQL(_, _, _)
SQL(e, group, cols) ==
  LET arg(i) == SQL(e.args[i], group, cols)
  IN  CASE e.op = "AttributeReference"    -> Value(group[1], cols, e)
        [] e.op = "AggregateExpression"   ->
             Combine(e.function, [i \in DOMAIN group |-> SQL(e.args[1], <<group[i]>>, cols)])
        [] e.op = "Literal"               -> e.value
        [] e.op \in {"Alias", "Cast"}     -> arg(1)
        [] e.op = "Add"                   -> arg(1) + arg(2)
        [] e.op = "Subtract"              -> arg(1) - arg(2)
        [] e.op = "Multiply"              -> arg(1) * arg(2)
        [] e.op = "UnaryMinus"            -> 0 - arg(1)
        [] e.op = "And"                   -> arg(1) /\ arg(2)
        [] e.op = "Or"                    -> arg(1) \/ arg(2)
        [] e.op = "Not"                   -> ~ arg(1)
        [] e.op = "EqualTo"               -> arg(1) = arg(2)
        [] e.op = "LessThan"              -> arg(1) < arg(2)
        [] e.op = "LessThanOrEqual"       -> arg(1) <= arg(2)
        [] e.op = "GreaterThan"           -> arg(1) > arg(2)
        [] e.op = "GreaterThanOrEqual"    -> arg(1) >= arg(2)
        [] e.op = "IsNull"                -> FALSE
        [] e.op = "IsNotNull"             -> TRUE
        [] e.op \in {"If", "CaseWhen"}    -> IF arg(1) THEN arg(2) ELSE arg(3)

SQLRow(exprs, group, cols) == [i \in DOMAIN exprs |-> SQL(exprs[i], group, cols)]

---------------------------------------------------------------------------
(* What a statement means, as rows in no order: that of SQL, save that any *)
(* join is an inner join and that an aggregation of no rows without groups *)
(* gives no row.                                                           *)
RECURSIVE Meaning(_, _)
Meaning(p, tables) ==
  LET rows == [i \in DOMAIN p.in |-> Meaning(p.in[i], tables)]
      cols == Output(p.in[1])
  IN  CASE p.op \in {"LogicalRelation", "InMemoryRelation"} -> tables[p.table]
        [] p.op \in {"ACPolicyApply", "ResPrepared", "Sort"} -> rows[1]
        [] p.op = "Filter"  -> SelectSeq(rows[1], LAMBDA r : SQL(p.condition, <<r>>, cols))
        [] p.op = "Project" -> [i \in DOMAIN rows[1] |-> SQLRow(p.projectList, <<rows[1][i]>>, cols)]
        [] p.op = "Union"   -> FlattenSeq(rows)
        [] p.op = "Join" ->
             LET pairs == FlattenSeq([i \in DOMAIN rows[1] |->
                                        [j \in DOMAIN rows[2] |-> rows[1][i] \o rows[2][j]]])
                 Match(r) == /\ SQLRow(p.leftKeys, <<r>>, Output(p))
                                  = SQLRow(p.rightKeys, <<r>>, Output(p))
                             /\ \A i \in DOMAIN p.condition : SQL(p.condition[i], <<r>>, Output(p))
             IN  SelectSeq(pairs, Match)
        [] p.op = "Aggregate" ->
             LET Key(r) == SQLRow(p.grouping, <<r>>, cols)
                 keys == SetToSeq({Key(r) : r \in ToSet(rows[1])})
                 Group(key) == SelectSeq(rows[1], LAMBDA r : Key(r) = key)
             IN  [k \in DOMAIN keys |-> SQLRow(p.aggs, Group(keys[k]), cols)]

SameRows(s, t) == ToBag(s) = ToBag(t)

(* The rows are in the order that ORDER BY asks for.                       *)
InOrder(rows, cols, order) ==
  LET Key(r, i) == SQL(order[i].child, <<r>>, cols)
      Before(a, b, i) == IF order[i].asc THEN Key(a, i) < Key(b, i) ELSE Key(b, i) < Key(a, i)
  IN  \A m, n \in DOMAIN rows :
        m < n => ~ \E i \in DOMAIN order :
                     /\ Before(rows[n], rows[m], i)
                     /\ \A j \in 1 .. i - 1 : Key(rows[n], j) = Key(rows[m], j)
=============================================================================
