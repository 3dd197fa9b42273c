---------------------------- MODULE PhysicalPlan ----------------------------
(***************************************************************************)
(* What the operators that run in the enclave make of rows, for one        *)
(* partition: their loops over rows of fields, with the expressions they   *)
(* are given evaluated by Expression. Run is the composition of operators  *)
(* that a physical plan is.                                                *)
(***************************************************************************)
EXTENDS Serialization

(* eval_helper. The first argument that throws ends the evaluation.        *)
RECURSIVE eval(_, _)
eval(e, row) ==
  LET args   == [i \in DOMAIN e.args |-> eval(e.args[i], row)]
      thrown == SelectSeq(args, LAMBDA f : f.type = "throws")
  IN  CASE e.op = "MatchError" -> E!Throws("MatchError")
        [] e.op # "MatchError" /\ thrown # <<>> -> thrown[1]
        [] OTHER -> E!EvalNode(e, row, args)

evalAll(exprs, row) == [i \in DOMAIN exprs |-> eval(exprs[i], row)]

(* An operator gives rows, or an exception if a field of them throws.      *)
Fails == [throws |-> TRUE, rows |-> <<>>]
Gives(rows) ==
  [throws |-> \E i \in DOMAIN rows : \E j \in DOMAIN rows[i] : rows[i][j].type = "throws",
   rows   |-> rows]

Comparable(x, y) == E!Comparison(x, y, TRUE).type # "throws"
less(x, y)  == E!Comparison(x, y, E!Less(x, y)).value
equal(x, y) == E!Comparison(x, y, E!Equal(x, y)).value

(* Keys of rows, any two of which can be compared.                         *)
AllComparable(keys) ==
  \A i, j \in DOMAIN keys : \A k \in DOMAIN keys[i] : Comparable(keys[i][k], keys[j][k])

qfilter(condition, rows) ==
  LET result(row) == eval(condition, row)
  IN  IF \E i \in DOMAIN rows :
           result(rows[i]).type # "BooleanField" \/ result(rows[i]).is_null
        THEN Fails
        ELSE Gives(SelectSeq(rows, LAMBDA row : result(row).value))

qproject(project_list, rows) == Gives([i \in DOMAIN rows |-> evalAll(project_list, rows[i])])

(* The sort leaves rows that are equal in its order in either order        *)
(* (turned). How it sorts is the subject of ExternalSort and RangeSort.    *)
less_than(row1, row2, sort_order) ==
  LET x(i) == eval(sort_order[i].child, IF sort_order[i].asc THEN row1 ELSE row2)
      y(i) == eval(sort_order[i].child, IF sort_order[i].asc THEN row2 ELSE row1)
  IN  \E i \in DOMAIN sort_order :
        /\ less(x(i), y(i))
        /\ \A j \in 1 .. i - 1 : ~ less(x(j), y(j)) /\ ~ less(y(j), x(j))

qsort(sort_order, rows, turned) ==
  LET keys == [r \in DOMAIN rows |->
                 [i \in DOMAIN sort_order |-> eval(sort_order[i].child, rows[r])]]
  IN  IF ~ AllComparable(keys) THEN Fails
      ELSE Gives(SortSeq(IF turned THEN Reverse(rows) ELSE rows,
                         LAMBDA a, b : less_than(a, b, sort_order)))

(* Rows with tag 0 are collected as long as their keys are equal, and      *)
(* joined with every row with tag 1 and the same keys that follows.        *)
is_primary(row) == row[1].value = 0

qsort_merge_join(join_expr, rows) ==
  LET key(row) == evalAll(IF is_primary(row) THEN join_expr.left_keys ELSE join_expr.right_keys, row)
      is_same_group(row1, row2) == \A k \in DOMAIN key(row1) : equal(key(row1)[k], key(row2)[k])
      InGroup(st, row) == st.group # <<>> /\ is_same_group(Last(st.group), row)
      NextRow(st, row) ==
        CASE is_primary(row) ->
               [st EXCEPT !.group = IF InGroup(st, row) THEN Append(st.group, row) ELSE <<row>>]
          [] ~ is_primary(row) /\ InGroup(st, row) ->
               [st EXCEPT !.out = st.out \o [i \in DOMAIN st.group |-> st.group[i] \o row]]
          [] OTHER -> st
  IN  IF ~ AllComparable([r \in DOMAIN rows |-> key(rows[r])]) THEN Fails
      ELSE Gives(FoldLeft(NextRow, [group |-> <<>>, out |-> <<>>], rows).out)

(* FlatbuffersAggOpEvaluator: a is the aggregate's own row.                *)
reset_group(agg_op) ==
  FlattenSeq([i \in DOMAIN agg_op |-> evalAll(agg_op[i].initial_values, <<>>)])
aggregate(agg_op, a, row) ==
  FlattenSeq([i \in DOMAIN agg_op |-> evalAll(agg_op[i].update_exprs, a \o row)])
evaluate(agg_op, a) == [i \in DOMAIN agg_op |-> eval(agg_op[i].evaluate_expr, a)]

qaggregate(op, rows) ==
  LET agg_op   == op.aggregate_expressions
      key(row) == evalAll(op.grouping_expressions, row)
      keys     == [r \in DOMAIN rows |-> key(rows[r])]
      is_same_group(r, s) == \A k \in DOMAIN keys[r] : equal(keys[r][k], keys[s][k])
      NextRow(st, r) ==
        LET start == IF r > 1 /\ ~ is_same_group(r - 1, r) THEN reset_group(agg_op) ELSE st.a
            a     == aggregate(agg_op, start, rows[r])
        IN  [a |-> a, out |-> IF r = Len(rows) \/ ~ is_same_group(r, r + 1)
                                THEN Append(st.out, evaluate(agg_op, a)) ELSE st.out]
  IN  IF ~ AllComparable(keys) THEN Fails
      ELSE Gives(FoldLeft(NextRow, [a |-> reset_group(agg_op), out |-> <<>>],
                          [r \in DOMAIN rows |-> r]).out)

(* The rows a physical plan gives for the contents of the tables.          *)
RECURSIVE Run(_, _, _)
Run(p, tables, turned) ==
  LET child == [i \in DOMAIN p.in |-> Run(p.in[i], tables, turned)]
      rows  == child[1].rows
      input == Output(p.in[1])
  IN  CASE p.op \in {"ACPolicyAppliedEncryptedBlockRDDExec", "QEncryptedBlockRDDScanExec"} ->
             Gives([r \in DOMAIN tables[p.table] |->
                      [i \in DOMAIN p.output |->
                         flatbuffersCreateField(tables[p.table][r][i], p.output[i].type, FALSE)]])
        [] p.in # <<>> /\ \E i \in DOMAIN child : child[i].throws -> Fails
        [] OTHER ->
      CASE p.op = "ResPreparedEncryptedBlockRDDExec" -> Gives(rows)
        [] p.op = "QEncryptedFilterExec" ->
             qfilter(serializeFilterExpression(p.condition, input), rows)
        [] p.op = "QEncryptedProjectExec" ->
             qproject(serializeProjectList(p.projectList, input), rows)
        [] p.op = "QEncryptedUnionExec" -> Gives(rows \o child[2].rows)
        [] p.op = "QEncryptedSortExec" ->
             qsort(serializeSortOrder(p.order, input), rows, turned)
        [] p.op = "QEncryptedSortMergeJoinExec" ->
             qsort_merge_join(serializeJoinExpression(p.leftKeys, p.rightKeys,
                                                      p.leftSchema, p.rightSchema), rows)
        [] p.op = "QEncryptedAggregateExec" ->
             qaggregate(serializeAggOp(p.grouping, p.aggs, input), rows)
=============================================================================
