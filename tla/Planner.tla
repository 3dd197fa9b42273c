------------------------------ MODULE Planner ------------------------------
(***************************************************************************)
(* From the plan of a statement to the operators that run in the enclave:  *)
(* the rules ACPolicyApplyEncryptedBlockRDD, ConvertToOpaqueOperators and  *)
(* ConvertToQShieldOperators, which Spark's optimizer applies in this      *)
(* order until the plan no longer changes, and the strategy                *)
(* QShieldOperators, which puts the tag, the union and the sort under a    *)
(* join (core/src/main/scala/edu/xjtu/cs/cyx/qshield/logical/rules.scala   *)
(* and strategies.scala; .../edu/berkeley/cs/rise/opaque/logical).         *)
(*                                                                         *)
(* What the columns of a plan are and how a projection is separated from   *)
(* an aggregation are parameters: no rule looks at them. PlannedQuery     *)
(* gives them their values, and says what the operators make of rows.      *)
(***************************************************************************)
EXTENDS Plans

CONSTANTS
  Queries,       \* the plans that Spark's optimizer hands to the rules
  output(_),     \* the columns of a plan
  attribute(_),  \* the column that a named expression gives
  separated(_)   \* UndoCollapseProject.separateProjectAndAgg

VARIABLES
  query,     \* the plan that was asked for
  plan,      \* what the rules have made of it
  before,    \* the plan when the current round of rules began
  rule,      \* the rule to apply next
  physical,  \* what the strategies have made of the plan
  outcome    \* "planning", "planned" or "exception"

vars == <<query, plan, before, rule, physical, outcome>>

---------------------------------------------------------------------------
(* An operator that cannot be built is a tree of its own.                  *)
Leaf(op)  == [op |-> op, in |-> <<>>, height |-> 0]
ClassCast == Leaf("ClassCastException")
NoPlan    == Leaf("AssertionError")

Exceptions == {"ClassCastException", "AssertionError"}
Throws(p)  == \E t \in Subtrees(p) : t.op \in Exceptions

Relations == {"LogicalRelation", "InMemoryRelation"}

(* The operators that the rules make.                                      *)
EncryptedOperator ==
  {"ACPolicyAppliedEncryptedBlockRDD", "ResPreparedEncryptedBlockRDD", "EncryptedBlockRDD",
   "EncryptedProject", "EncryptedFilter", "EncryptedSort", "EncryptedAggregate",
   "EncryptedJoin", "EncryptedUnion"}

OpaqueOperator == EncryptedOperator \cup {"ACPolicyApply", "ResPrepared"}

isEncrypted(p) == \E t \in Subtrees(p) : t.op \in OpaqueOperator

(* Fault: the child is taken as it is.                                     *)
uncast(p) == p

asOpaqueOperator(p) == IF p.op \in OpaqueOperator THEN p ELSE ClassCast

(* The operator op with p's arguments, over p's children.                  *)
Encrypted(p, op) ==
  [WithChildren(p, [i \in DOMAIN p.in |-> asOpaqueOperator(p.in[i])]) EXCEPT !.op = op]

---------------------------------------------------------------------------
(* Plans as Spark builds them: of each operator the children and the       *)
(* arguments that its class has.                                           *)
Arguments(op) ==
  CASE op \in Relations \cup {"EncryptedBlockRDD", "ACPolicyAppliedEncryptedBlockRDD"} -> {"table"}
    [] op = "Filter"                    -> {"condition"}
    [] op = "Sort"                      -> {"global"}
    [] op \in {"Join", "EncryptedJoin"} -> {"leftKeys"}
    [] OTHER -> {}

WithOneChild ==
  {"ACPolicyApply", "ResPrepared", "Project", "Filter", "Sort", "Aggregate",
   "ResPreparedEncryptedBlockRDD", "EncryptedProject", "EncryptedFilter", "EncryptedSort",
   "EncryptedAggregate"}

IsPlan(p) ==
  /\ p.height \in Nat
  /\ \A t \in Subtrees(p) :
       /\ t = [argument \in DOMAIN t |-> t[argument]]
       /\ {"op", "in", "height"} \cup Arguments(t.op) \subseteq DOMAIN t
       /\ t.in \in Seq(Subtrees(p))
       /\ t.height \in Nat
       /\ \A i \in DOMAIN t.in : t.in[i].height < t.height
       /\ "table" \in Arguments(t.op) => t.in = <<>>
       /\ t.op \in WithOneChild => Len(t.in) = 1
       /\ t.op \in {"Join", "EncryptedJoin"} => Len(t.in) = 2

(* A statement is prepared for its user, and is of Spark's operators, with *)
(* tokens.                                                                 *)
IsStatement(p) ==
  /\ IsPlan(p)
  /\ p.op = "ResPrepared"
  /\ \A t \in Subtrees(p) : t.op \notin EncryptedOperator \cup Exceptions

ASSUME QueriesAssumption == \A q \in Queries : IsStatement(q)

---------------------------------------------------------------------------
(* The rules, for a node whose children are done.                          *)

(* Fault: the rows of the table, without the check of the token.           *)
ForgetPolicy(p) ==
  IF p.op = "ACPolicyApply" /\ p.in[1].op = "EncryptedBlockRDD" THEN p.in[1] ELSE p

ApplyPolicy(p) ==
  IF p.op = "ACPolicyApply" /\ p.in[1].op = "EncryptedBlockRDD"
    THEN [p.in[1] EXCEPT !.op = "ACPolicyAppliedEncryptedBlockRDD"]
    ELSE p

(* UndoCollapseProject: an output that does more than aggregate or copy a  *)
(* column is computed by a projection above the aggregation.               *)
IsPure(e) ==
  \/ e.op = "AttributeReference"
  \/ e.op = "Alias" /\ e.args[1].op \in {"AggregateExpression", "AttributeReference"}

needsSeparation(aggs) == \E i \in DOMAIN aggs : ~ IsPure(aggs[i])

Ascending(exprs) == [i \in DOMAIN exprs |-> [child |-> exprs[i], asc |-> TRUE]]

ConvertAggregate(p) ==
  LET input  == <<asOpaqueOperator(p.in[1])>>
      sorted == [op |-> "EncryptedSort", order |-> Ascending(p.grouping), global |-> TRUE,
                 in |-> input, height |-> Above(input)]
      agg(aggs) == [op |-> "EncryptedAggregate", grouping |-> p.grouping, aggs |-> aggs,
                    in |-> <<sorted>>, height |-> Above(<<sorted>>)]
      pure == agg(separated(p.aggs).pure)
  IN  IF needsSeparation(p.aggs)
        THEN [op |-> "EncryptedProject", projectList |-> separated(p.aggs).project,
              in |-> <<pure>>, height |-> Above(<<pure>>)]
        ELSE agg(p.aggs)

(* A filter that Spark adds because an operator above has no use for null. *)
IsNullCheck(e) ==
  \/ e.op = "IsNotNull"
  \/ e.op = "And" /\ e.args[1].op = "IsNotNull" /\ e.args[2].op = "IsNotNull"

(* Of the operators over encrypted ones, those that have an encrypted one. *)
ConvertEncrypted(p) ==
  CASE p.op = "Project"                           -> Encrypted(p, "EncryptedProject")
    [] p.op = "Filter" /\ IsNullCheck(p.condition)   -> p.in[1]
    [] p.op = "Filter" /\ ~ IsNullCheck(p.condition) -> Encrypted(p, "EncryptedFilter")
    [] p.op = "Sort" /\ p.global                 -> Encrypted(p, "EncryptedSort")
    [] p.op = "Join"                              -> Encrypted(p, "EncryptedJoin")
    [] p.op = "Aggregate"                         -> ConvertAggregate(p)
    [] p.op = "Union" /\ Len(p.in) = 2            -> Encrypted(p, "EncryptedUnion")
    [] OTHER                                      -> p

ConvertToOpaque(p) ==
  IF p.op \in Relations THEN [p EXCEPT !.op = "EncryptedBlockRDD"]
  ELSE IF isEncrypted(p) THEN ConvertEncrypted(p)
  ELSE p

ConvertToQShield(p) ==
  IF p.op = "ResPrepared" /\ isEncrypted(p.in[1])
    THEN Encrypted(p, "ResPreparedEncryptedBlockRDD")
    ELSE p

---------------------------------------------------------------------------
(* The strategy. *)

(* The columns of side s (1 left, 2 right) of a join: its tag, its keys,   *)
(* and what it had.                                                        *)
TagFor(s) ==
  Alias(Literal(s - 1, "IntegerType"), "_tag", <<"_tag", ToString(s)>>)
keysProj(keys, s) ==
  [k \in DOMAIN keys |->
     Alias(keys[k], "_" \o ToString(k - 1), <<"_key", ToString(k), ToString(s)>>)]

tagForJoin(keys, input, s) == <<TagFor(s)>> \o keysProj(keys, s) \o input

(* Fault: the tag is not part of the order.                                *)
sortForJoinByKeys(leftKeys, tag) == Ascending(leftKeys)

sortForJoin(leftKeys, tag) == Ascending(leftKeys) \o Ascending(<<tag>>)

dropTags(leftOutput, rightOutput) == leftOutput \o rightOutput

attributes(exprs) == [i \in DOMAIN exprs |-> attribute(exprs[i])]

(* The plan of a join p, in being what is planned for its children. Its    *)
(* type is passed on, and the enclave does not look at it.                 *)
PlanJoin(p, in) ==
  LET sideKeys(s) == <<p.leftKeys, p.rightKeys>>[s]
      keys(s) == attributes(keysProj(sideKeys(s), s))
      columns(s) == tagForJoin(sideKeys(s), output(p.in[s]), s)
      Proj(s) == [op |-> "QEncryptedProjectExec", projectList |-> columns(s),
                  in |-> <<in[s]>>, height |-> Above(<<in[s]>>)]
      unioned == [op |-> "QEncryptedUnionExec", in |-> <<Proj(1), Proj(2)>>,
                  height |-> Above(<<Proj(1), Proj(2)>>)]
      sorted == [op |-> "QEncryptedSortExec", in |-> <<unioned>>, height |-> Above(<<unioned>>),
                 order |-> sortForJoin(keys(1), attribute(TagFor(1)))]
      joined == [op |-> "QEncryptedSortMergeJoinExec", in |-> <<sorted>>,
                 height |-> Above(<<sorted>>), leftKeys |-> keys(1), rightKeys |-> keys(2),
                 leftSchema |-> attributes(columns(1)),
                 rightSchema |-> attributes(columns(2))]
      tagsDropped == [op |-> "QEncryptedProjectExec", in |-> <<joined>>,
                      height |-> Above(<<joined>>),
                      projectList |-> dropTags(output(p.in[1]), output(p.in[2]))]
  IN  IF p.condition = <<>>
        THEN tagsDropped
        ELSE [op |-> "QEncryptedFilterExec", condition |-> p.condition[1],
              in |-> <<tagsDropped>>, height |-> Above(<<tagsDropped>>)]

Execs ==
  [ACPolicyAppliedEncryptedBlockRDD |-> "ACPolicyAppliedEncryptedBlockRDDExec",
   ResPreparedEncryptedBlockRDD     |-> "ResPreparedEncryptedBlockRDDExec",
   EncryptedBlockRDD                |-> "QEncryptedBlockRDDScanExec",
   EncryptedProject                 |-> "QEncryptedProjectExec",
   EncryptedFilter                  |-> "QEncryptedFilterExec",
   EncryptedAggregate               |-> "QEncryptedAggregateExec",
   EncryptedSort                    |-> "QEncryptedSortExec",
   EncryptedUnion                   |-> "QEncryptedUnionExec"]

(* ExtractEquiJoinKeys gives no keys for a join without equalities, and no *)
(* strategy plans that join, nor a token or a preparation of the result    *)
(* that the rules left as it was. Spark has strategies for its operators.  *)
PlanOperator(p, in) ==
  CASE p.op \in DOMAIN Execs -> [WithChildren(p, in) EXCEPT !.op = Execs[p.op]]
    [] p.op = "EncryptedJoin" /\ p.leftKeys # <<>> -> PlanJoin(p, in)
    [] p.op = "EncryptedJoin" /\ p.leftKeys = <<>> -> NoPlan
    [] p.op \in {"ACPolicyApply", "ResPrepared"} -> NoPlan
    [] OTHER -> WithChildren(p, in)

---------------------------------------------------------------------------
Rules == <<"ACPolicyApplyEncryptedBlockRDD", "ConvertToOpaqueOperators",
           "ConvertToQShieldOperators">>

(* What a rule or a strategy makes of p, in being its children's results.  *)
Convert(step, p, in) ==
  CASE step = "ACPolicyApplyEncryptedBlockRDD" -> ApplyPolicy(WithChildren(p, in))
    [] step = "ConvertToOpaqueOperators"       -> ConvertToOpaque(WithChildren(p, in))
    [] step = "ConvertToQShieldOperators"      -> ConvertToQShield(WithChildren(p, in))
    [] step = "QShieldOperators"               -> PlanOperator(p, in)

(* The first rule goes through the tree from the top, the others from the  *)
(* leaves; for the first, which rewrites a leaf and its parent to a leaf,  *)
(* this makes no difference. Nor does it for the strategies, which plan a  *)
(* child by itself.                                                        *)
transformUp(step, p) ==
  LET up[t \in Subtrees(p)] == Convert(step, t, [i \in DOMAIN t.in |-> up[t.in[i]]])
  IN  up[p]

(* The optimizer's rounds, and the planner.                                *)
Init ==
  /\ query \in Queries
  /\ plan = query
  /\ before = query
  /\ rule = 1
  /\ physical = NoPlan
  /\ outcome = "planning"

ApplyRule ==
  /\ outcome = "planning"
  /\ rule <= Len(Rules)
  /\ plan' = transformUp(Rules[rule], plan)
  /\ rule' = rule + 1
  /\ outcome' = IF Throws(plan') THEN "exception" ELSE "planning"
  /\ UNCHANGED <<query, before, physical>>

NextRound ==
  /\ outcome = "planning"
  /\ rule > Len(Rules)
  /\ plan # before
  /\ before' = plan
  /\ rule' = 1
  /\ UNCHANGED <<query, plan, physical, outcome>>

PlanQuery ==
  /\ outcome = "planning"
  /\ rule > Len(Rules)
  /\ plan = before
  /\ physical' = transformUp("QShieldOperators", plan)
  /\ outcome' = IF Throws(physical') THEN "exception" ELSE "planned"
  /\ UNCHANGED <<query, plan, before, rule>>

Next == ApplyRule \/ NextRound \/ PlanQuery

Spec == Init /\ [][Next]_vars

---------------------------------------------------------------------------
(* The statements there is a plan for: each token is applied to a table,   *)
(* with nothing but null checks between, joins have equalities, sorts are  *)
(* global, unions are of two, and there is no operator but those.          *)
IsNullFilter(t) == t.op = "Filter" /\ IsNullCheck(t.condition)

Supported(p) ==
  \A t \in Subtrees(p) :
    CASE t.op = "ACPolicyApply" ->
           \A u \in Subtrees(t.in[1]) : u.op \in Relations \/ IsNullFilter(u)
      [] t.op = "Join"          -> t.leftKeys # <<>>
      [] t.op = "Sort"          -> t.global
      [] t.op = "Union"         -> Len(t.in) = 2
      [] OTHER -> t.op \in Relations \cup {"Project", "Filter", "Aggregate", "ResPrepared"}

EnclaveOperator ==
  {Execs[op] : op \in DOMAIN Execs} \cup {"QEncryptedSortMergeJoinExec"}

(* Whatever operators a statement is composed of, the rules and the        *)
(* strategies either find a plan of which every operator runs in the       *)
(* enclave, or planning throws, which it does for the statements that are  *)
(* not supported and for no other. One of Spark's operators over encrypted *)
(* ones would find no rows (doExecute).                                    *)
PlannedExactlyIfSupported ==
  /\ outcome = "planned" =>
       /\ Supported(query)
       /\ \A t \in Subtrees(physical) : t.op \in EnclaveOperator
  /\ outcome = "exception" => ~ Supported(query)

(* The tables that a plan reads, from left to right, each with whether its *)
(* token is checked. It is for those below a token, and for those that a   *)
(* rule or a strategy has put in the place of a token and a table.         *)
Unchecked == Relations \cup {"EncryptedBlockRDD", "QEncryptedBlockRDDScanExec"}
Checked   == {"ACPolicyAppliedEncryptedBlockRDD", "ACPolicyAppliedEncryptedBlockRDDExec"}

ReadsOf(p, below) ==
  LET all == FlattenSeq(below)
  IN  CASE p.op \in Unchecked -> <<[table |-> p.table, checked |-> FALSE]>>
        [] p.op \in Checked   -> <<[table |-> p.table, checked |-> TRUE]>>
        [] p.op = "ACPolicyApply" ->
             [i \in DOMAIN all |-> [table |-> all[i].table, checked |-> TRUE]]
        [] OTHER -> all

Reads(p) ==
  LET reads[t \in Subtrees(p)] == ReadsOf(t, [i \in DOMAIN t.in |-> reads[t.in[i]]])
  IN  reads[p]

(* No rule and no strategy loses a token, moves it to another table or     *)
(* takes one for two: a plan reads what the statement reads, with the      *)
(* checks at the same places, also of a table that the statement reads     *)
(* both with its token and without.                                        *)
PolicyChecksKept == outcome = "planned" => Reads(physical) = Reads(query)
=============================================================================
