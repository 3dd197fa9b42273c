----------------------------- MODULE Aggregate -----------------------------
(***************************************************************************)
(* Aggregation (QEncryptedAggregateExec in core/src/main/scala/edu/xjtu/cs *)
(* /cyx/qshield/execution/operators.scala, with the enclave calls of       *)
(* core/src/native/Enclave/QAggregate.cpp). The rows have been sorted by   *)
(* their grouping expressions. A first job takes from every partition its  *)
(* first row, its last row and the partial aggregate of its last group;    *)
(* the driver shifts them to the neighbours; a second job aggregates every *)
(* partition between what it was handed from both sides.                   *)
(*                                                                         *)
(* A partial aggregate is the sequence of the rows aggregated since the    *)
(* last reset_group: sums, counts and the rest are functions of it.        *)
(***************************************************************************)
EXTENDS SortedRDD, SequencesExt

CONSTANT numPartitions   \* partitions of the RDD

ASSUME NumPartitionsAssumption == numPartitions \in Nat \ {0}

VARIABLES
  childRDD,    \* the RDD sorted by the grouping expressions
  stage,       \* "step1", "step2" or "done"
  firstRows,   \* per partition: the first row, if any
  lastGroups,  \* per partition: the partial aggregate of the last group
  lastRows,    \* per partition: the last row, if any
  step1Done,
  output,      \* per partition: the aggregates of the finished groups
  step2Done

vars == <<childRDD, stage, firstRows, lastGroups, lastRows, step1Done, output, step2Done>>

Parts == PartsOf(numPartitions)

InputRows == UNION {ToSet(childRDD[p]) : p \in Parts}

(* Of keys that are not null; a null key is in no group.                   *)
is_same_group(x, y) == Key[x] = Key[y]

Init ==
  /\ \E S \in SUBSET Rows : childRDD \in SortedRDDs(S, numPartitions)
  /\ stage = "step1"
  /\ firstRows = [p \in Parts |-> <<>>]
  /\ lastGroups = [p \in Parts |-> <<>>]
  /\ lastRows = [p \in Parts |-> <<>>]
  /\ step1Done = {}
  /\ output = [p \in Parts |-> <<>>]
  /\ step2Done = {}

(* The partial aggregates after each row, when before is the row before    *)
(* the first and a0 the partial aggregate to start from. The aggregate is  *)
(* reset between two rows of different groups.                             *)
PartialAggs(rows, before, a0) ==
  LET prev == before \o rows
      a[i \in 0 .. Len(rows)] ==
        IF i = 0 THEN a0
        ELSE LET p == i - 1 + Len(before)
             IN  IF p > 0 /\ ~ is_same_group(prev[p], rows[i])
                   THEN <<rows[i]>>
                   ELSE Append(a[i - 1], rows[i])
  IN  a

(* last_group_writer: one partial aggregate, the initial one for no rows.  *)
LastGroup(rows) == <<PartialAggs(rows, <<>>, <<>>)[Len(rows)]>>

Step1Task(p) ==
  /\ stage = "step1"
  /\ p \notin step1Done
  /\ LET rows == childRDD[p]
     IN  /\ firstRows' = [firstRows EXCEPT ![p] = SubSeq(rows, 1, IF rows = <<>> THEN 0 ELSE 1)]
         /\ lastGroups' = [lastGroups EXCEPT ![p] = LastGroup(rows)]
         /\ lastRows' = [lastRows EXCEPT ![p] = IF rows = <<>> THEN <<>> ELSE <<Last(rows)>>]
  /\ step1Done' = step1Done \cup {p}
  /\ UNCHANGED <<childRDD, stage, output, step2Done>>

Collect ==
  /\ stage = "step1"
  /\ step1Done = Parts
  /\ stage' = "step2"
  /\ UNCHANGED <<childRDD, firstRows, lastGroups, lastRows, step1Done, output, step2Done>>

ShiftedFirstRow(p)  == IF p = numPartitions - 1 THEN <<>> ELSE firstRows[p + 1]
ShiftedLastGroup(p) == IF p = 0 THEN <<>> ELSE lastGroups[p - 1]

(* Fault: the last rows are not sent along with the last groups.           *)
ShiftedLastRowMissing(p) == <<>>

ShiftedLastRow(p)   == IF p = 0 THEN <<>> ELSE lastRows[p - 1]

(* qaggregate_step2: an aggregate is written after the last row of a run   *)
(* of rows of one group.                                                   *)
Aggregates(rows, nextFirst, prevGroup, prevLast) ==
  LET a == PartialAggs(rows, prevLast, IF prevGroup = <<>> THEN <<>> ELSE prevGroup[1])
      next == rows \o nextFirst
      EndsRun(i) == i = Len(next) \/ ~ is_same_group(next[i], next[i + 1])
      w[i \in 0 .. Len(rows)] ==
        IF i = 0 THEN <<>>
        ELSE IF EndsRun(i) THEN Append(w[i - 1], a[i]) ELSE w[i - 1]
  IN  w[Len(rows)]

Step2Task(p) ==
  /\ stage = "step2"
  /\ p \notin step2Done
  /\ output' = [output EXCEPT ![p] =
       Aggregates(childRDD[p], ShiftedFirstRow(p), ShiftedLastGroup(p), ShiftedLastRow(p))]
  /\ step2Done' = step2Done \cup {p}
  /\ UNCHANGED <<childRDD, stage, firstRows, lastGroups, lastRows, step1Done>>

(* A cached partition is lost with its executor and computed again (Spark, *)
(* external); rows with equal keys may come in another order.              *)
Recompute(p) ==
  /\ stage # "done"
  /\ \E s \in SortedEnumerations(ToSet(childRDD[p])) :
       childRDD' = [childRDD EXCEPT ![p] = s]
  /\ UNCHANGED <<stage, firstRows, lastGroups, lastRows, step1Done, output, step2Done>>

Finish ==
  /\ stage = "step2"
  /\ step2Done = Parts
  /\ stage' = "done"
  /\ UNCHANGED <<childRDD, firstRows, lastGroups, lastRows, step1Done, output, step2Done>>

Next ==
  \/ \E p \in Parts : Step1Task(p)
  \/ Collect
  \/ \E p \in Parts : Step2Task(p)
  \/ \E p \in Parts : Recompute(p)
  \/ Finish

Spec == Init /\ [][Next]_vars

---------------------------------------------------------------------------
(* The aggregates written so far, each with its place. *)
WrittenAt == UNION {{<<p, i>> : i \in 1 .. Len(output[p])} : p \in Parts}

(* Grouped aggregation is exact although every partition is aggregated on  *)
(* its own: each group gives one output row, which aggregated every row of *)
(* the group once and no other row, wherever the boundaries fell, with     *)
(* empty partitions in between and after a partition was recomputed.       *)
AggregateExact ==
  stage = "done" =>
    /\ \A x \in InputRows :
         Cardinality({pi \in WrittenAt : x \in ToSet(output[pi[1]][pi[2]])}) = 1
    /\ \A pi \in WrittenAt :
         LET group == output[pi[1]][pi[2]]
         IN  \E x \in InputRows :
               IsEnumerationOf(group, {y \in InputRows : is_same_group(x, y)})
=============================================================================
