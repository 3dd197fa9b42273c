----------------------------- MODULE RangeSort -----------------------------
(***************************************************************************)
(* The distributed sort (object QEncryptedSortExec, method sort, in        *)
(* core/src/main/scala/edu/xjtu/cs/cyx/qshield/execution/operators.scala). *)
(* The driver runs one Spark job after another: sample every partition,    *)
(* find the range boundaries on one worker, cut every partition at them,   *)
(* shuffle the pieces by range and sort every range. The tasks of a job    *)
(* run in any order, and the output of a finished map task may be lost     *)
(* with its executor and is then computed again.                           *)
(*                                                                         *)
(* The enclave calls are the operators that the modules RangePartition and *)
(* ExternalSort show their loops to compute.                               *)
(***************************************************************************)
EXTENDS SortedRDD

CONSTANTS
  PartitionCounts,   \* how many partitions the table may have
  MaxLosses          \* bound on map outputs lost with their executor

ASSUME PartitionCountsAssumption == PartitionCounts \subseteq Nat \ {0}

ASSUME MaxLossesAssumption == MaxLosses \in Nat

VARIABLES
  numPartitions,   \* of the RDD to sort, and of the result
  childRDD,     \* the rows of each partition: one cached block
  stage,        \* the job the driver is running
  sampled,      \* what the QSample tasks of the job returned so far
  sampleTasks,  \* the partitions whose QSample task has finished
  boundaries,   \* sort keys of the boundary rows, broadcast to the tasks
  pieces,       \* map outputs: for each partition, its cut into ranges
  mapTasks,     \* the partitions whose map output is available
  result,       \* the blocks of each partition of the sorted RDD
  losses

vars == <<numPartitions, childRDD, stage, sampled, sampleTasks, boundaries,
          pieces, mapTasks, result, losses>>

Parts == PartsOf(numPartitions)

InputRows == UNION {childRDD[p] : p \in Parts}

(* The rows of the table, spread over n partitions.                        *)
ChildRDDs(n) ==
  {[p \in PartsOf(n) |-> {x \in Rows : place[x] = p}] : place \in [Rows -> 0 .. n]}

Init ==
  /\ numPartitions \in PartitionCounts
  /\ childRDD \in ChildRDDs(numPartitions)
  /\ stage = IF numPartitions <= 1 THEN "sort" ELSE "sample"
  /\ sampled = {}
  /\ sampleTasks = {}
  /\ boundaries = <<>>
  /\ pieces = [p \in Parts |-> <<>>]
  /\ mapTasks = {}
  /\ result = [p \in Parts |-> <<>>]
  /\ losses = 0

(* Fault: the only partition is passed on as it is.                        *)
SortOnlyPartitionUnsorted(p) ==
  /\ stage = "sort"
  /\ result[p] = <<>>
  /\ \E s \in [1 .. Cardinality(childRDD[p]) -> childRDD[p]] :
       IsEnumerationOf(s, childRDD[p]) /\ result' = [result EXCEPT ![p] = <<s>>]
  /\ UNCHANGED <<numPartitions, childRDD, stage, sampled, sampleTasks, boundaries, pieces,
                 mapTasks, losses>>

(* One partition needs no shuffle: it is sorted where it is.               *)
SortOnlyPartition(p) ==
  /\ stage = "sort"
  /\ result[p] = <<>>
  /\ \E s \in SortedEnumerations(childRDD[p]) :
       result' = [result EXCEPT ![p] = <<s>>]
  /\ UNCHANGED <<numPartitions, childRDD, stage, sampled, sampleTasks, boundaries, pieces,
                 mapTasks, losses>>

(* QSample keeps each row or not by a random number of its own, so that    *)
(* any subset of the partition may be returned.                            *)
SampleTask(p) ==
  /\ stage = "sample"
  /\ p \notin sampleTasks
  /\ \E S \in SUBSET childRDD[p] : sampled' = sampled \cup S
  /\ sampleTasks' = sampleTasks \cup {p}
  /\ UNCHANGED <<numPartitions, childRDD, stage, boundaries, pieces, mapTasks, result, losses>>

(* Fault: the boundaries of an empty sample are an error.                  *)
FindRangeBoundsOfRows ==
  /\ stage = "sample"
  /\ sampleTasks = Parts
  /\ sampled # {}
  /\ \E s \in SortedEnumerations(sampled) :
       boundaries' = Boundaries(SortKeys(s), numPartitions)
  /\ stage' = "shuffle"
  /\ sampled' = {}
  /\ UNCHANGED <<numPartitions, childRDD, sampleTasks, pieces, mapTasks, result, losses>>

(* The samples are collected and concatenated; one worker sorts them and   *)
(* picks the boundaries. The sample is not used again.                     *)
FindRangeBounds ==
  /\ stage = "sample"
  /\ sampleTasks = Parts
  /\ \E s \in SortedEnumerations(sampled) :
       boundaries' = Boundaries(SortKeys(s), numPartitions)
  /\ stage' = "shuffle"
  /\ sampled' = {}
  /\ UNCHANGED <<numPartitions, childRDD, sampleTasks, pieces, mapTasks, result, losses>>

(* Fault: no padding with empty partitions after the last range.           *)
PartitionUnpadded(S, bs) ==
  [i \in {j \in Parts : j <= Len(bs)} |-> {x \in S : InRange(Key[x], i, bs)}]

(* QPartitionForSort: one piece per partition of the result, the pieces    *)
(* after the last range being empty.                                       *)
PartitionForSort(S, bs) ==
  [i \in Parts |-> {x \in S : InRange(Key[x], i, bs)}]

(* Fault: every partition is cut at boundaries of its own.                 *)
MapTaskOwnBounds(p) ==
  /\ stage = "shuffle"
  /\ p \notin mapTasks
  /\ \E s \in SortedEnumerations(childRDD[p]) :
       pieces' = [pieces EXCEPT ![p] = PartitionForSort(childRDD[p],
                    Boundaries(SortKeys(s), numPartitions))]
  /\ mapTasks' = mapTasks \cup {p}
  /\ UNCHANGED <<numPartitions, childRDD, stage, sampled, sampleTasks, boundaries, result, losses>>

MapTask(p) ==
  /\ stage = "shuffle"
  /\ p \notin mapTasks
  /\ pieces' = [pieces EXCEPT ![p] = PartitionForSort(childRDD[p], boundaries)]
  /\ mapTasks' = mapTasks \cup {p}
  /\ UNCHANGED <<numPartitions, childRDD, stage, sampled, sampleTasks, boundaries, result, losses>>

(* A map output is lost with the executor that held it (Spark, external).  *)
LoseMapOutput(p) ==
  /\ stage = "shuffle"
  /\ losses < MaxLosses
  /\ p \in mapTasks
  /\ pieces' = [pieces EXCEPT ![p] = <<>>]
  /\ mapTasks' = mapTasks \ {p}
  /\ losses' = losses + 1
  /\ UNCHANGED <<numPartitions, childRDD, stage, sampled, sampleTasks, boundaries, result>>

(* Fault: starts when one map output is missing.                           *)
MapOutputsAvailableEarly ==
  Cardinality(mapTasks) >= numPartitions - 1

MapOutputsAvailable == mapTasks = Parts

(* groupByKey hashes key i to partition i, so that a partition holds the   *)
(* one group of its own range, or none if no map task wrote a piece for    *)
(* it; QExternalSort sorts the concatenation of the group.                 *)
ReduceTask(i) ==
  /\ stage = "shuffle"
  /\ MapOutputsAvailable
  /\ result[i] = <<>>
  /\ \E p \in Parts : i \in DOMAIN pieces[p]
  /\ LET group == UNION {pieces[p][i] : p \in {q \in Parts : i \in DOMAIN pieces[q]}}
     IN  \E s \in SortedEnumerations(group) :
           result' = [result EXCEPT ![i] = <<s>>]
  /\ UNCHANGED <<numPartitions, childRDD, stage, sampled, sampleTasks, boundaries, pieces,
                 mapTasks, losses>>

(* result.count() returns when every partition has been computed. A        *)
(* partition without a group is computed too: it has no block.             *)
Finish ==
  /\ \/ stage = "sort"
     \/ stage = "shuffle" /\ MapOutputsAvailable
  /\ \A i \in Parts : result[i] = <<>> =>
        stage = "shuffle" /\ \A p \in Parts : i \notin DOMAIN pieces[p]
  /\ stage' = "done"
  /\ UNCHANGED <<numPartitions, childRDD, sampled, sampleTasks, boundaries, pieces, mapTasks,
                 result, losses>>

Progress ==
  \/ \E p \in Parts : SortOnlyPartition(p)
  \/ \E p \in Parts : SampleTask(p)
  \/ FindRangeBounds
  \/ \E p \in Parts : MapTask(p)
  \/ \E i \in Parts : ReduceTask(i)
  \/ Finish

Next == Progress \/ \E p \in Parts : LoseMapOutput(p)

Spec     == Init /\ [][Next]_vars
FairSpec == Spec /\ WF_vars(Progress)

---------------------------------------------------------------------------
(* The type invariant. *)
TypeOK ==
  /\ numPartitions \in Nat \ {0}
  /\ childRDD \in [Parts -> SUBSET Rows]
  /\ stage \in {"sort", "sample", "shuffle", "done"}
  /\ sampled \subseteq Rows
  /\ sampleTasks \subseteq Parts
  /\ boundaries \in Seq(Int)
  /\ mapTasks \subseteq Parts
  /\ \A p \in mapTasks : pieces[p] \in [Parts -> SUBSET Rows]
  /\ result \in [Parts -> Seq(Seq(Rows))]
  /\ losses \in 0 .. MaxLosses

(* Row x is in a block of partition p of the sorted RDD. *)
IsIn(x, p) ==
  \E b \in 1 .. Len(result[p]) : \E i \in 1 .. Len(result[p][b]) : result[p][b][i] = x

(* The partitions of the result are ranges: a row of an earlier partition  *)
(* is strictly below a row of a later one, whichever tasks have run and    *)
(* whichever were run again. In particular rows with equal sort keys are   *)
(* never spread over two partitions, which aggregation relies on.          *)
RangesOrdered ==
  \A p, q \in Parts : p < q =>
    \A x, y \in Rows : IsIn(x, p) /\ IsIn(y, q) => less_than(x, y)

(* Every partition of the result is one block: the join and the            *)
(* aggregation zip partitions and match exactly one block of each.         *)
OneBlockPerPartition ==
  stage = "done" => \A p \in Parts : Len(result[p]) = 1

(* No row is lost or put into two partitions, although a task that runs    *)
(* again reads the cached partition and the broadcast boundaries anew.     *)
NothingLost ==
  stage = "done" =>
    \A x \in InputRows : \E p \in Parts : IsIn(x, p) /\ \A q \in Parts \ {p} : ~ IsIn(x, q)

(* What the operators above the sort rely on: each partition is one block, *)
(* and together they are the rows in order, cut at the boundaries of some  *)
(* sample, whatever map tasks were run again.                              *)
ResultIsSortedRDD ==
  stage = "done" =>
    \E rdd \in SortedRDDs(InputRows, numPartitions) : result = [p \in Parts |-> <<rdd[p]>>]

(* The sorted RDD read partition by partition. *)
Collected ==
  LET upTo[n \in 0 .. numPartitions] ==
        IF n = 0 THEN <<>>
        ELSE upTo[n - 1] \o (IF result[n - 1] = <<>> THEN <<>> ELSE result[n - 1][1])
  IN  upTo[numPartitions]

(* The distributed sort does what a sort promises: it is done at some time *)
(* however many map outputs are lost, up to the bound, and what is         *)
(* collected then is every row once, in order.                             *)
Sort == INSTANCE SortSpec WITH
  rows <- InputRows,
  result <- IF stage = "done" THEN Collected ELSE <<>>,
  returned <- (stage = "done")

ImplementsSort == Sort!Spec
=============================================================================
