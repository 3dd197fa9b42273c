---------------------------- MODULE PlannedQuery ----------------------------
(***************************************************************************)
(* The rows that the plan of a statement gives in the enclave, and those   *)
(* that the statement means. What plans mean is in PlanMeaning; what the   *)
(* enclave does with them in PhysicalPlan. Here too are the columns that   *)
(* the planner gives to the operators under a join and the projection that *)
(* it separates from an aggregation                                        *)
(* (org/apache/spark/sql/UndoCollapseProject.scala).                       *)
(***************************************************************************)
EXTENDS Planner, PhysicalPlan

CONSTANT Tables  \* contents of the tables: for each, a sequence of rows

(* e as the projection computes it, and the sequence pure of what the      *)
(* aggregation computes for it: every aggregate in e is named and replaced *)
(* by its name, and every column of e is copied.                           *)
RECURSIVE Separated(_, _)
Separated(e, pure) ==
  LET tmp == Alias(e, "_tmp", <<"_tmp", ToString(Len(pure))>>)
      NextArg(st, arg) ==
        LET sep == Separated(arg, st.pure)
        IN  [args |-> Append(st.args, sep.expr), pure |-> sep.pure]
      args == FoldLeft(NextArg, [args |-> <<>>, pure |-> pure], e.args)
  IN  CASE e.op = "AggregateExpression" -> [expr |-> toAttribute(tmp), pure |-> Append(pure, tmp)]
        [] e.op = "AttributeReference"  -> [expr |-> e, pure |-> Append(pure, e)]
        [] OTHER -> [expr |-> [e EXCEPT !.args = args.args], pure |-> args.pure]

separateProjectAndAgg(aggs) ==
  FoldLeft(LAMBDA st, e : LET sep == Separated(e, st.pure)
                          IN  [project |-> Append(st.project, sep.expr), pure |-> sep.pure],
           [project |-> <<>>, pure |-> <<>>], aggs)

---------------------------------------------------------------------------
(* The values of the enclave's rows, and whether they are of the types of  *)
(* the statement's columns.                                                *)
Values(rows) == [i \in DOMAIN rows |-> [j \in DOMAIN rows[i] |-> rows[i][j].value]]
WellTyped(rows, cols) ==
  \A i \in DOMAIN rows :
    /\ Len(rows[i]) = Len(cols)
    /\ \A j \in DOMAIN cols : /\ rows[i][j].type = FieldType[cols[j].type]
                              /\ ~ rows[i][j].is_null

(* A statement is answered as written: whatever operators it is composed   *)
(* of, the plan gives the rows that the statement means, of its types and  *)
(* in its order, and no expression throws.                                 *)
AnsweredAsWritten ==
  outcome = "planned" =>
    \A tables \in Tables, turned \in BOOLEAN :
      LET result == Run(physical, tables, turned)
          rows   == Values(result.rows)
      IN  /\ ~ result.throws
          /\ WellTyped(result.rows, Output(query))
          /\ SameRows(rows, Meaning(query, tables))
          /\ query.in[1].op = "Sort" => InOrder(rows, Output(query), query.in[1].order)
=============================================================================
