--------------------------- MODULE SortMergeJoin ---------------------------
(***************************************************************************)
(* The sort-merge join (QEncryptedSortMergeJoinExec in core/src/main/scala *)
(* /edu/xjtu/cs/cyx/qshield/execution/operators.scala, with the enclave    *)
(* calls of core/src/native/Enclave/QJoin.cpp). Both tables are tagged,    *)
(* united and sorted by join key, then by tag, so that the primary rows of *)
(* a key come before its foreign rows. A first job scans every partition   *)
(* for the primary rows that may have to wait for foreign rows further on; *)
(* each of these groups is handed to the next partition; a second job      *)
(* joins every partition with what it was handed.                          *)
(***************************************************************************)
EXTENDS SortedRDD, SequencesExt, RowIO

CONSTANTS
  JoinKey,        \* the value of each row's join keys
  Tag,            \* the field _tag: 0 in the primary table, 1 in the foreign
  numPartitions   \* partitions of the sorted RDD

(* The join keys ascending, then the tag ascending.                        *)
sortForJoin(x) == 2 * JoinKey[x] + Tag[x]

ASSUME JoinRowsAssumption ==
  /\ JoinKey \in [Rows -> Int]
  /\ Tag \in [Rows -> {0, 1}]
  /\ numPartitions \in Nat \ {0}
  /\ \A x \in Rows : Key[x] = sortForJoin(x)

Parts == PartsOf(numPartitions)

is_primary(x) == Tag[x] = 0
(* Of keys that are not null; a null key is in no group.                   *)
is_same_group(x, y) == JoinKey[x] = JoinKey[y]

VARIABLES
  childRDD,          \* the sorted RDD: the rows of each partition
  stage,             \* "scan", "join" or "done"
  lastPrimaryRows,   \* the blocks QScanCollectLastPrimary returned for each partition
  scanned,           \* the partitions it has returned for
  joined,            \* the joined rows of each partition
  tasksDone,         \* the partitions whose join has returned
  violated           \* the partitions whose join threw "Invariant violation"

vars == <<childRDD, stage, lastPrimaryRows, scanned, joined, tasksDone, violated>>

InputRows == UNION {ToSet(childRDD[p]) : p \in Parts}

Init ==
  /\ \E S \in SUBSET Rows : childRDD \in SortedRDDs(S, numPartitions)
  /\ stage = "scan"
  /\ lastPrimaryRows = [p \in Parts |-> <<>>]
  /\ scanned = {}
  /\ joined = [p \in Parts |-> <<>>]
  /\ tasksDone = {}
  /\ violated = {}

(* last_primary, or last_primary_of_group, is set and of the row's group.  *)
InGroup(st, row) == \E x \in st.last : is_same_group(x, row)

(* The state of qscan_collect_last_primary: its writer, and last_primary,  *)
(* the first row of the group that the writer holds.                       *)
ScanState == [w |-> QRowWriter, last |-> {}]

ScanRow(st, row) ==
  IF ~ is_primary(row) THEN ScanState
  ELSE IF InGroup(st, row) THEN [st EXCEPT !.w = append(@, row)]
  ELSE [w |-> append(QRowWriter, row), last |-> {row}]

LastPrimary(rows) ==
  LET st[i \in 0 .. Len(rows)] == IF i = 0 THEN ScanState ELSE ScanRow(st[i - 1], rows[i])
  IN  output_buffer(st[Len(rows)].w).root

ScanTask(p) ==
  /\ stage = "scan"
  /\ p \notin scanned
  /\ lastPrimaryRows' = [lastPrimaryRows EXCEPT ![p] = LastPrimary(childRDD[p])]
  /\ scanned' = scanned \cup {p}
  /\ UNCHANGED <<childRDD, stage, joined, tasksDone, violated>>

(* The driver has collected the groups of all partitions.                  *)
Collect ==
  /\ stage = "scan"
  /\ scanned = Parts
  /\ stage' = "join"
  /\ UNCHANGED <<childRDD, lastPrimaryRows, scanned, joined, tasksDone, violated>>

(* shifted: emptyBlock +: lastPrimaryRows.dropRight(1).                    *)
JoinRow(p) == IF p = 0 THEN <<>> ELSE lastPrimaryRows[p - 1]

(* The state of qsort_merge_join between two rows: the writer              *)
(* primary_group, into which the rows handed on are copied first, and      *)
(* last_primary_of_group; the writer of the joined rows.                   *)
JoinState(handed) ==
  LET rows == rows_read(handed)
  IN  [group |-> append_all(QRowWriter, rows),
       last |-> IF rows = <<>> THEN {} ELSE {rows[Len(rows)]},
       w |-> QRowWriter, violated |-> FALSE]

(* Fault: a new group is appended to the rows of the old one.              *)
JoinPrimaryUncleared(st, row) ==
  [st EXCEPT !.group = append(@, row), !.last = {row}]

(* A primary row joins the group, or clears the writer and starts one.     *)
JoinPrimary(st, row) ==
  [st EXCEPT !.group = append(IF InGroup(st, row) THEN @ ELSE QRowWriter, row),
             !.last = {row}]

(* A foreign row of the group is joined with every primary row that the    *)
(* writer's buffer shows. A primary row of another key among them is an    *)
(* error, thrown before it is joined.                                      *)
JoinForeign(st, row) ==
  LET group == output_buffer(st.group)
      rows  == rows_read(group.root)
  IN  IF ~ InGroup(st, row) THEN st
      ELSE IF \E i \in 1 .. Len(rows) : ~ is_same_group(rows[i], row)
        THEN [st EXCEPT !.group = group, !.violated = TRUE]
      ELSE [st EXCEPT !.group = group,
                      !.w = append_all(@, [i \in 1 .. Len(rows) |-> <<rows[i], row>>])]

NextRow(st, row) ==
  IF st.violated THEN st
  ELSE IF is_primary(row) THEN JoinPrimary(st, row)
  ELSE JoinForeign(st, row)

Join(rows, handed) ==
  LET st[i \in 0 .. Len(rows)] ==
        IF i = 0 THEN JoinState(handed) ELSE NextRow(st[i - 1], rows[i])
  IN  st[Len(rows)]

(* A cached partition is lost with its executor and computed again (Spark, *)
(* external): the boundaries are still the same, but rows with equal sort  *)
(* keys may come in another order than the one already scanned.            *)
Recompute(p) ==
  /\ stage # "done"
  /\ \E s \in SortedEnumerations(ToSet(childRDD[p])) :
       childRDD' = [childRDD EXCEPT ![p] = s]
  /\ UNCHANGED <<stage, lastPrimaryRows, scanned, joined, tasksDone, violated>>

(* A task that throws is run again by Spark and throws again: the job      *)
(* fails and the partition never has rows.                                 *)
JoinTask(p) ==
  /\ stage = "join"
  /\ p \notin tasksDone \cup violated
  /\ LET st == Join(childRDD[p], JoinRow(p))
     IN  IF st.violated
           THEN /\ violated' = violated \cup {p}
                /\ UNCHANGED <<joined, tasksDone>>
           ELSE /\ joined' = [joined EXCEPT ![p] = FlattenSeq(output_buffer(st.w).root)]
                /\ tasksDone' = tasksDone \cup {p}
                /\ UNCHANGED violated
  /\ UNCHANGED <<childRDD, stage, lastPrimaryRows, scanned>>

Finish ==
  /\ stage = "join"
  /\ tasksDone = Parts
  /\ stage' = "done"
  /\ UNCHANGED <<childRDD, lastPrimaryRows, scanned, joined, tasksDone, violated>>

Next ==
  \/ \E p \in Parts : ScanTask(p)
  \/ Collect
  \/ \E p \in Parts : JoinTask(p)
  \/ Finish
  \/ \E p \in Parts : Recompute(p)

Spec == Init /\ [][Next]_vars

---------------------------------------------------------------------------
Primary == {x \in Rows : is_primary(x)}
Foreign == Rows \ Primary

(* How often a pair of rows was joined, over all partitions. *)
TimesJoined(x, y) ==
  Cardinality(UNION {{p} \X {i \in DOMAIN joined[p] : joined[p][i] = <<x, y>>} : p \in Parts})

(* The partition of a row of the input. *)
PartitionOf(x) == CHOOSE p \in Parts : x \in ToSet(childRDD[p])

Matches == {xy \in (InputRows \cap Primary) \X (InputRows \cap Foreign) :
              is_same_group(xy[1], xy[2])}

(* What is joined matches, the primary row first as the output schema has  *)
(* it, and is joined once: although a group is handed on without looking   *)
(* at the next partition, no pair of rows is joined in two partitions, and *)
(* none with a stale row of an earlier group. The exception "rows of       *)
(* primary_group are not of the same group" is never thrown.               *)
JoinSound ==
  /\ violated = {}
  /\ \A p \in Parts : ToSet(joined[p]) \subseteq Matches
  /\ \A xy \in Matches : TimesJoined(xy[1], xy[2]) <= 1

(* Foreign rows in the partition of their primary rows, or in the next     *)
(* one, are all joined.                                                    *)
JoinCompleteWithinReach ==
  stage = "done" =>
    \A xy \in Matches :
      PartitionOf(xy[2]) <= PartitionOf(xy[1]) + 1 => TimesJoined(xy[1], xy[2]) = 1

(* "Therefore it is sufficient to send primary rows at most one partition  *)
(* forward" (Join.cpp, the code QJoin.cpp repeats): every match is joined. *)
JoinComplete ==
  stage = "done" => \A xy \in Matches : TimesJoined(xy[1], xy[2]) = 1
=============================================================================
