# TLA+ models of QShield

QShield runs Spark SQL over encrypted tables. Every operator that has to see
rows hands its partition, one encrypted block per partition, to an SGX enclave
on the executor; the driver sees only ciphertext and the sizes of things. The
owner of the data outsources the tables and attests the enclaves; users send
queries to a REST service, with a token that lets the enclave reconstruct the key
of the tables.

What is hard in this system is not one function but what the tasks of several
Spark jobs, and the enclave calls they make, do together: a sort is five jobs, a
join reads the sorted partitions twice and hands rows from one partition to the
next, the attestation keeps state in three places between four jobs and is
retried, a query's tables may be outsourced anew under it and its enclave may
be lost between two of its jobs. The models are about that. Cryptography is
modelled by what it binds; a row by its sort key where only order matters, by
its fields where expressions are evaluated.

Paths below are relative to `src/`. `E/` stands for `core/src/native/Enclave/`,
`Q/` for `core/src/main/scala/edu/xjtu/cs/cyx/qshield/` and `O/` for
`core/src/main/scala/edu/berkeley/cs/rise/opaque/`.

## Inventory

| Component | State | Operations | Interacts with |
|---|---|---|---|
| Distributed sort: `Q/execution/operators.scala` (`QEncryptedSortExec.sort`), `E/QSort.cpp` | the cached partitions, the collected sample, the broadcast boundaries, shuffle outputs, the sorted partitions | `QSample`, `QFindRangeBounds`, `QPartitionForSort`, `QExternalSort` | Spark's scheduler and shuffle; join and aggregation read its result |
| External merge sort: `E/QSort.cpp` | blocks, sorted runs, run readers, a priority queue, a row writer | sort one block, merge a group of runs, go on to the next pass | row readers and writers |
| Sort-merge join: `operators.scala`, `E/QJoin.cpp` | last primary group per partition; in the enclave the current primary group | `QScanCollectLastPrimary`, shift by one partition, `QSortMergeJoin` | the sorted RDD, row readers and writers |
| Grouped aggregation: `operators.scala`, `E/QAggregate.cpp` | first row, last row, last partial aggregate per partition | `QAggregateStep1`, shift both ways, `QAggregateStep2` | the sorted RDD |
| Attestation and key agreement: `Q/QOwnerStuber.scala`, `owner/src/native/*ServiceProvider*`, `core/src/native/App/App.cpp`, `E/QCrypto.cpp` | the owner's key pair, one exchange (`sp_db`), one session per executor, the enclave's keys | `QInit`, messages 0 to 4, `InitPairing`, `Utils.retry` | Spark tasks, the attestation service |
| Access control and result: `E/ACPolicyApplied.cpp`, `E/ResPrepared.cpp`, `E/Crypto.cpp` | the enclave's global key schedules | reconstruct the key, decrypt a table with it, encrypt for the user | all tasks of one enclave |
| Enclave calls: `core/src/native/App/App.cpp`, `E/Enclave.cpp` | the enclave, its threads, a pending Java exception | enter, leave in one of three ways, return an array | every operator's tasks |
| Expression evaluation: `E/ExpressionEvaluation.h`, `E/QFilter.cpp`, `E/QProject.cpp` | none that survives a row | evaluate; and the loops of filter and project | the serialised expressions |
| Row I/O: `E/QFlatbuffersWriters.cpp`, `E/QFlatbuffersReaders.cpp` | buffers, open block, finished flag | append, clear, finish, output, next | every enclave call |
| Planner: `Q/logical/rules.scala`, `Q/strategies.scala`, `O/logical/` | none | rewrite a logical plan, put tag, union and sort under a join | Spark Catalyst |
| Serialisation: `O/Utils.scala`, `Q/QShieldUtils.scala` | none | expressions, orders, joins and aggregates as trees for the enclave | planner, expression evaluation |
| Outsourcing: `owner/src/main/scala/.../QSP.scala` (`QOutsource`) | a directory with part files and a schema per table | slice, encrypt, delete, write data, write schema | Hadoop file system; queries read the files |
| REST service: `rest/` | one event loop, one Spark session, its temporary views | query, filter, select, sort, join | users; all of the above |
| Query execution: `Q/execution/operators.scala`, `O/execution/operators.scala` | cached blocks per operator | `timeOperator`, `executeBlocked`, `executeCollect` | the stored tables, the enclave, the REST service |
| Trust proof: the files of the enclave calls, under `QSHIELD_TP` | budget and trace in a block's meta data | copy, update, merge | every enclave call; off in the build |
| Opaque's operators (`O/`, `E/Sort.cpp`, `E/Join.cpp`, `E/Aggregate.cpp`) | as QShield's | as QShield's | the code QShield derives from |
| User client, `tpl/`, benchmarks, `exp/`, `data/`, build files | | | libraries, measurements |

What makes each correct, and what makes that hard:

- **Sort.** The result is the rows in order, cut into one block per partition.
  The number of boundaries depends on the size of a random sample, the pieces
  are written through arrays of fixed length, tasks run in any order, and a map
  task runs again when its output is lost.
- **External sort.** No row lost, no row twice, order. Groups of runs, the last
  of them short, and several passes; a run must not be read when it is empty.
- **Join.** Every matching pair, once. A group of primary rows may end in one
  partition and its foreign rows begin in another.
- **Aggregation.** One row per group that saw each row of the group once. The
  sort leaves a group in one partition, but each partition is also given its
  neighbours' first row, last row and last partial aggregate, and must see that
  they are of another group.
- **Attestation.** It ends, and when it returns owner and enclave agree on the
  key. Each step is a task that may land on another executor, `sp_db` and the
  session are overwritten by whoever comes, anything may throw and be retried.
- **Access control and result.** A block is decrypted and encrypted with the key.
  Each task of a scan replaces the key schedule of the enclave while the others
  use it.
- **Enclave calls.** A right block or an exception. An exception of a class
  the ecall does not catch costs the enclave and all it knows, other calls are
  inside at the time, and the bridge returns an array in every case.
- **Expressions.** What Spark gives: nulls, three-valued logic, types that do not
  fit, windows of a substring that lie outside the string, years before 1970.
- **Row I/O.** What is read is what was written since the writer was cleared: a
  writer that is finished ignores what is appended to it.
- **Planner and serialisation.** The operators that run compute what the
  statement means. Rules rewrite trees whose children they have rewritten, an
  attribute is bound by position, and the tag of a join shifts the positions.
- **Outsourcing.** When it returns, files and schema are those of its table, all
  of it. It replaces them one after the other and may crash at any step.
- **REST service.** A query reads what its own user may read. Handlers share one
  session, whose views have the names of tables and not of users.
- **Query execution.** The answer is the whole answer, computed where the keys
  are, or an error; and there is an answer. Partitions are computed by tasks that
  are retried, from files that may go, in an enclave that may be another one.

`PROJECT.json` lists the places where these go wrong, with the properties that
would notice.

## Modules

```
Ranges ----------------+--> RangePartition -----------+
  (boundaries, ranges) |                              |
                       |                              v
RowOrder --+-----------+--> SortedRDD --+--> RangeSort --> RangeSortProofs
 (rows,    |                            +--> Aggregate --> AggregateProofs
  order)   +--> ExternalSort            +--> SortMergeJoin <--+
                  |    ^                            |         |
                  |    +--------------------------- | - RowIO-+
                  +--> ExternalSortProofs           +--> SortMergeJoinProofs
SortSpec: implemented by ExternalSort and by RangeSort

Attestation --+--> EnclaveKeysProofs
KeySchedule --+

TableStore --+
RestService -+--> QueryService --> QueryServiceProofs
EnclaveCall -+
Expression --+--> EnclaveCall
             +--> Serialization <-- PlanMeaning <-- Plans --> Planner --> PlannerProofs
                      |                                          |
                      +--> PhysicalPlan --> PlannedQuery <-------+
```

Sorting, joining, aggregating:

- `Ranges`: what `qfind_range_bounds` and `qpartition_for_sort` compute, as
  operators: every so-many-th row of the sorted sample is a boundary, and a key
  belongs to the range that the boundaries not above it say.
- `RowOrder`: rows with a key each; `less_than` compares keys only, so equal rows
  may come in any order, as after `std::sort`.
- `RangePartition`: the two enclave loops step by step. `EmitBoundary` and
  `SkipSampledRow` are the loop over the sample; `AdvanceBoundary`, `AppendRow`
  and `PadPartitions` the loop over the input with its inner loop and the one
  after it; `output` is the array of output pointers in the order written.
- `RowIO`: row writers and readers as values. `append` finishes a block when it is
  full, `output_buffer` finishes once, `clear` starts over; a reader goes through
  the blocks of a buffer, and of a run.
- `ExternalSort`: `qexternal_sort`. `r` and `w` are the runs of the reader and of
  the writer, `queue` the heap (at most one row per run of the group). `MergeRow`
  is one turn of `qexternal_merge`'s loop. It reads and writes through `RowIO`.
- `SortSpec`: what a sort promises: it returns (`Returns`), once, an ordered
  arrangement of exactly its rows.
- `RangeSort`: the driver's jobs and their tasks, for the number of partitions
  chosen at the start. `MapTask` and `ReduceTask` use the operators of `Ranges`
  for what the enclave calls compute: `RangePartition` and `ExternalSort` show
  that the loops compute that. `LoseMapOutput` is a lost executor.
- `SortedRDD`: the RDDs a sort may leave, for every sample and every order of
  equal rows: the input of the operators above it. `RangeSort` shows
  (`ResultIsSortedRDD`) that the sort leaves nothing else.
- `SortMergeJoin`, `Aggregate`: the two jobs of each operator. A task is one
  action; the enclave's loop over the rows is a recursive function whose step is
  a named operator (`ScanRow`, `NextRow`). The join keeps its primary group in a
  row writer of `RowIO`. `Recompute` is a cached partition that is computed again
  between the jobs, with equal rows in another order.

Keys:

- `Attestation`: `initRA`, the service provider and the executors. A driver step
  ends a job and starts the next (`ProcMsg0`, `ProcMsg1`, `ProcMsg3`,
  `AllAttested`), a task step makes one JNI call (`RemoteAttestation0` to `3`,
  the last with `InitPairing`). What may throw does so in `QInitThrows`,
  `ProcMsg1Throws`, `ProcMsg3Throws`, `InitPairingThrows` and `TaskFault`, and
  where a guard of the code fails. The key pair is a number: PBC's generator is
  seeded with 0 (`tpl/sgx-pbc/arith/init_random.c:23`), so the n-th pair drawn is
  the same in the owner and in every enclave.
- `KeySchedule`: the tasks of a scan, and of the job that prepares the result, in
  the one enclave of an executor that has been attested. `Reconstruct`, `ReadOld`,
  `StoreNew` and `DeleteOld` are `initKeySchedule` with its `unique_ptr::reset`
  taken apart, since other threads of the enclave may run between; `OpenBlock` is
  the check and `ks.get()` of `encrypt` and `decrypt`, and the block is finished
  in a step of its own (`DecryptBlock`, `EncryptBlock`). What an access to freed
  memory does is a choice: the block comes out right, or it does not
  (`DecryptsGarbled`, `garbled`), and a double free is noticed or not. `Prepare`
  is the barrier that `timeOperator` puts between the jobs by forcing each; a
  cached partition that was evicted is scanned again (`Start`). The operators
  between work with another key (`E/QCrypto.cpp`) and are left out.

A query from the request to the answer:

- `TableStore`: the stored tables and `QOutsource`, the only one to write them.
  `StartCall` slices the rows as Spark's `parallelize` does; `DeletePart` and
  `DeleteDataDir` are the recursive delete, `CreateDataDir`, `CommitPart` and
  `JobCommitted` the job that writes the data, whose files are moved into place
  one by one; `DeleteSchema`, `CreateSchema` and `WriteSchema` follow, then
  `Return`. `Crash` ends the call anywhere, and nothing undoes what was done.
- `RestService`: a request is refused before its handler has the arguments
  (`Refuse`) or gets the loop (`Handle`), registers its views one by one
  (`RegisterView`), has Spark analyse the statement (`Analyse`, `AnalysisFails`)
  and gives the loop away while it awaits the result (`Respond`). `views` is the
  session's catalogue: per table, under whose token its view was registered.
- `Expression`: the operators of `ExpressionEvaluation.h` on fields with a type, a
  null flag and a value, that a null field carries too; and next to them what
  Spark's operators give. A tree is a sequence of nodes, each after its
  arguments, so that evaluation is a recursive function.
- `EnclaveCall`: a call enters if a thread of the enclave is free (`Enter`,
  `TurnedAway`) or its input array is missing (`NoInputArray`), and leaves well,
  with the exception that the ecall catches, with one that it does not
  (`LeaveCrashing`: the enclave is given up), or because the enclave has been
  given up under it (`LeaveCrashed`). `JniReturn` is what the bridge makes of that:
  an array of what was output, and perhaps an exception. `QPartitionForSort` then
  makes its arrays of lengths that nothing wrote, of which the process may die
  (`ReturnNothing`).
  `LoseExecutor` is a new JVM, with an enclave that nobody has attested.
- `QueryService` puts the three together by the jobs of a query. `Serve` is a step
  of a handler, `OwnerStep` one of the owner. `ListFiles` is the scan's first
  job, `NextJob` the barrier of `timeOperator`, `Answer` and `JobFailed` the end;
  per partition `ReadPart` opens a file (which may have gone since it was listed),
  `MakeCall`, `CallEnds` and `TakeResult` are a task's call. `ExecutorLost` takes
  the cached blocks of the queries in progress with it.

From the statement to the operators:

- `Plans`: trees of operators with trees of expressions. A node carries the height
  of its tree, which the code does not have: `Subtrees` and `transformUp` are
  functions that count down from it, where Spark's methods call themselves, and so
  can be proved about.
- `Planner`: the three rules in the rounds of Spark's optimizer (`ApplyRule`,
  `NextRound`) and the strategies (`PlanQuery`): `QShieldOperators` for the
  operators of the enclave, Spark's own for the others. A cast that fails and a node
  without a plan are trees of their own, which end the planning. What the columns
  of a plan are (`output`, `attribute`), and how a projection is separated from
  an aggregation (`separated`), are parameters: no rule and no strategy looks at them.
- `PlanMeaning`: what a statement means: a bag of rows, or a sequence under a sort.
- `Serialization`: `flatbuffersSerializeExpression` and the functions for orders,
  joins and aggregates: attributes bound by position, casts and literals rewritten,
  `MatchError` where the code has no case.
- `PhysicalPlan`: what the enclave's loops make of the rows of one partition
  (`qfilter`, `qproject`, `qsort`, `qsort_merge_join`, `qaggregate`), with the
  serialised expressions evaluated by `Expression`; `Run` composes them.
- `PlannedQuery`: `Planner` with its parameters given (`Output`, `toAttribute`,
  `separateProjectAndAgg`), and the rows of its plans next to those of the statements.

Operators marked "Fault" are plausible mistakes, kept beside the definition they
would replace: each property is known to notice one of them.

## Runs

| Run | Module | Bounds | Shows |
|---|---|---|---|
| `range_partition` | `RangePartition` | samples of up to 6 rows, inputs of up to 3, 3 keys, 2 to 4 partitions | fewer boundaries than partitions, and the right ones; every output pointer written once and in bounds; each row in its range and none lost; termination |
| `external_sort` | `ExternalSort` | 5 rows in up to 4 blocks of up to 2, 2 streams | rows conserved in every state, merge order, no read of an empty run or block, passes shrink, implements `SortSpec` |
| `range_sort` | `RangeSort` | 4 rows with a duplicate key, 1 to 3 partitions, 2 lost outputs | ranges ordered, one block per partition, nothing lost, the result is a `SortedRDD`, implements `SortSpec` |
| `sort_merge_join` | `SortMergeJoin` | 3 primary and 2 foreign rows of one key, one of each of another, 3 partitions, blocks of 2 | no false and no double match, all matches within reach |
| `join_reach` | `SortMergeJoin` | the same | violated: matches further than one partition are lost |
| `aggregate` | `Aggregate` | 6 rows, 3 groups, 3 partitions | one result per group, of each of its rows once |
| `attestation` | `Attestation` | 1 partition, 2 executors, 3 attempts, 2 tries per task, 2 faults, 1 restart | ends; the attested enclave holds two halves of one pair; without a retry it is the owner's |
| `attestation_retry` | `Attestation` | 1 partition, 3 attempts, 1 fault | violated: after a retry owner and enclave hold different pairs |
| `key_schedule` | `KeySchedule` | 2 tasks, 1 or 2 cores, 2 blocks, 2 tries | a block is never opened through a deleted schedule, the query ends; on one core a schedule lasts as long as its block, results are under the key, nothing leaks |
| `key_schedule_race` | `KeySchedule` | 2 tasks on 2 cores | violated: a reset deletes the schedule of a block in progress |
| `query_service` | `QueryService` | 2 requests, 2 tables of 3 rows in up to 2 part files, 2 outsourcings, an enclave of 2 threads, 3 cores, 2 tries per task, 1 restart, 1 fault | tables are whole when outsourcing returns and no schema is ahead of its data; a call brings a right block or an exception; queries read under their own token; answers come from the attested enclave only and are exact; every request is answered |
| `planner` | `PlannedQuery` | 2,413 statements over 2 or 3 tables, three sets of contents | 1,152 are planned, for the enclave alone and with a check of the token where the statement has one and nowhere else, and give what they mean, on every set of contents and in either order of equal rows; the others are refused, and nothing that is supported is |

Why these bounds are enough. The boundary loop distinguishes a sample that is
empty, shorter than, a multiple of and not a multiple of the number of
partitions, and equal neighbours: six rows over three keys with two to four
partitions have all of these. The external sort distinguishes no merge, one
pass, several passes, a short last group, and a run of one or of several blocks:
five rows in four blocks merged two at a time. Join and aggregation look one
partition around: three partitions have a first, a last and one between, which
may be empty; a primary group of three rows spans two blocks. Two tasks are a reset
and a block in progress, or two resets, the races of `KeySchedule`; with a retry
and an eviction each may start over. In `query_service` two requests are enough
for one to register a view under the other, two part files for one to be replaced
under a scan or lost from an answer, three cores for a call that finds both
threads of the enclave taken, and three rows for one without nulls, one with
nulls, and one whose string is no number. The scenarios keep apart what does not
touch: two requests that share the session, a table outsourced under a query (once,
twice with crashes), and a query whose rows fail in the enclave together with a
lost executor and a call without memory. The statements of `planner` put an
operator or two over each table, a join or a union over them, and an operator,
join or union over that, with the expressions that the rules and the serialisation
treat differently; what has no plan (a table whose token comes too late,
a limit, a local sort, a union of three) stands at each of the places, and null
checks, which the rules drop, also between a token and its table. Twenty-one of the
statements that are planned read one table both with its token and without.

Constants that only bound the exploration are `MaxSample`, `MaxInput`,
`MaxBlocks`, `MaxLosses`, `MaxFaults`, `MaxRestarts`, `MaxOutsourcings`,
`MaxSlices`, `PartitionCounts`, `RangeCounts`, `Scenarios`, `Queries`, `Tables`,
`Content` and `Exprs`. The code's own, made small, are `MAX_NUM_STREAMS`,
`RowsPerBlock` (a block is full after so many bytes), `MaxAttempts`,
`MaxTaskFailures`, `TCSNum` (ten in `E/Enclave.config.xml`), `MaxCores` and `Cores`, and the largest values of
the integer types, `IntegerMax` and `LongMax`.

The runs say `CHECK_DEADLOCK FALSE` because each of these programs returns: the
last state has no step, and `Termination`, `QueryEnds` of `KeySchedule`,
`Returns` of `SortSpec` or `EveryRequestAnswered` say that it is reached.

**Fairness.** Enclave calls are sequential code, so a step that can be taken is:
`WF_vars(Next)`. In `RangeSort` the driver's steps and the tasks are fair
together (`Progress`), the loss of an output is not. In `Attestation` the driver
is one thread and each task of a job is run somewhere by the scheduler, so
`DriverStep` and every partition's `TaskStep` are weakly fair; faults and restarts
are not. No fairness makes a task land on the executor that holds the session,
and none is needed: `initRA` returns or throws. In `KeySchedule` every task is
weakly fair, `Start` included, since the scheduler gives a free core to a waiting
task and a thread in the enclave runs on; so is the driver's `Prepare`. Evictions
and what freed memory holds are not. In `QueryService` it is enough that the event
loop, the driver or some task goes on as long as one of them can
(`WF_vars(ServiceStep)`), since none of them can go on forever; the owner may stop
for good anywhere, and losses and faults need not happen.

## Findings

- **Foreign rows beyond the next partition are not joined** (`join_reach`).
  `E/Join.cpp:20-24`, whose algorithm `E/QJoin.cpp` keeps, argues that the
  foreign rows of a primary group are in the same or in the next partition. Two
  boundaries may be foreign rows with one key; the partition between them is
  empty, and nothing is handed on through it. Within reach the join is complete
  (`JoinCompleteWithinReach`).
- **A retried attestation succeeds with the wrong key** (`attestation_retry`).
  `Utils.retry` runs `QInit` again, which draws the owner's second pair, while the
  enclave draws its first. The `sk_a` that message 4 carried is replaced by
  `InitPairing`, so nothing notices until a table decrypts to noise. Without a
  retry the keys agree (`KeysAgreeIfNotRetried`, proved).
- **A task decrypts through a deleted key schedule** (`key_schedule_race`). With
  two cores one task's `initKeySchedule` deletes what another's `decrypt` is
  going through. `E/Crypto.h:34-35` promises AES-GCM with the key; a wrong MAC is
  only printed. A block that is opened later finds a live schedule whatever
  happens (`OpensLiveSchedule`, proved), and on one core, as in the tests'
  `local[1]`, nothing goes wrong (`OneCoreUsesLiveSchedule`,
  `OneCoreResultsUnderKey` and `OneCoreLeaksNothing`, proved).

What else the models brought to light. They are in the models as the code does
them; the properties speak of the rest, and no run is made of them.

- The theorem `OnePartitionOnly` answers the "(why?)" of `QOwnerStuber.scala:44`:
  there is one `sp_db`, so with several partitions only the exchange of the last
  message 1 can be answered, and no attempt succeeds.
- An exception that is not a `std::runtime_error`, such as the `logic_error` a
  table's bad number raises, leaves the ecall uncaught: the enclave is given up,
  with its keys, and every later call on it fails. The executor that follows has
  not been attested, and the query ends in an error (`EveryRequestAnswered`).
- Three expressions give another value than Spark's (`Departs`): an `If` whose
  predicate is null is null and not its second branch; a cast of a string that has
  spaces before a number or anything after it, or of a number too large, gives a
  number where Spark gives null; nothing contains the empty string (a `TODO` at
  `ExpressionEvaluation.h:653`).
- A date is outsourced in milliseconds (`QSP.scala:158`) and read in days in the
  enclave. `Expression` starts from days.
- A statement with `JOIN` registers a view for its first table only, since
  `extract_tables` ends at a keyword. The others resolve to whatever view the
  session has, another user's too; `ExtractedTablesUnderOwnToken` speaks of those
  that are extracted.
- The enclave's join ignores the join type: every join is an inner join. A filter
  that only asks for values not to be null is dropped from the plan. A join without
  equalities is refused; `core/src/flatbuffers/operators.fbs:53` lists cross joins
  as supported. A union of three tables is refused, and a Spark operator left above encrypted ones
  ends in a `ClassCastException`.
- An aggregation without groups of no rows gives no row, where SQL gives one.

## Proofs

The theorems hold for every value of the constants that satisfies the named
assumptions of the modules: keys are integers, the counts are natural numbers
(the number of partitions, attempts, slices and threads positive).

- `RangeSortProofs`, the enclave's loops. `BoundInv` relates the number of
  boundaries to the rows read (`Counting`) and each boundary to the sample row it was taken from
  (`Spacing`): without `Counting` the bound on the number of boundaries is not
  inductive, and from `Spacing` follows that boundaries do not decrease.
  `CutInv` then says where the scan is: `output_partition_idx` boundaries are at
  or below every row read. From these: `TypeCorrect`, `FewerBounds`,
  `NoPointerOverrun`, `KeysGoToTheirRange`. That nothing is left out needs more:
  no boundary was skipped (`AllCounted`) and every slot finished is exactly its
  range's part of the rows read (`ExactInv`), from which `LoopFindsBoundaries` and
  `SlotsAreRanges`: the operators that `RangeSort` uses are what the loops compute.
- `CommonLemmas`. Arithmetic of products and rounded quotients, a least and a
  greatest number of a set, induction over a set of numbers, and the recursive
  functions that it applies to; ranges and their boundaries; enumerations of sets
  of rows. Of an RDD that a sort leaves: each partition is an enumeration of its
  rows in order (`SortedParts`), the keys of a partition are below those of the
  next (`Apart`), and both outlive a partition that is computed again
  (`SortedRDDFits`, `ComputedAgain`). The readers and
  writers of `RowIO` as sequences of rows: a writer holds what was appended
  since it was finished, however it is cut into blocks, and a reader what it has
  not read. Cited by most of the other proof modules.
- `ExternalSortProofs`. For any rows, blocks and streams. The strengthened
  invariant is `SortInv`. A row is in one of the sequences at one position
  (`Conserved`), and the merge keeps its order (`MergeOrder`); for neither to be
  lost when a run or a pass ends, every run before the group has been read to its
  end and none after it begun (`ReadSoFar`), each group merged so far is one run
  (`Passes`), and no block and no run is empty (`Filled`). From it
  `RowsAreConserved`, `MergeIsOrdered`, `UnreadRunsAreNotEmpty`, `PassesDoShrink`,
  and `ReturnsSorted`: every step is a step of `SortSpec` or stutters there.
- `RangeSortProofs`, the jobs. For any number of partitions, chosen at the start.
  `SortInv`: an available map output is always the cut of its partition at the broadcast
  boundaries, also when computed a second time (`Pieces`), and a finished partition
  holds exactly the rows of its range (`Results`). `RangesOrdered`,
  `OneBlockPerPartition` and `NothingLost` are not inductive themselves, since they
  say nothing about the map outputs the reduce tasks read. On top of it, the
  boundaries are those of some sample (`Cuts`) and a finished partition is a sorted
  enumeration of its range (`Blocks`). Blocks of rising ranges concatenate to a
  sorted enumeration of all rows, and cutting that at the boundaries gives the
  blocks back (`ConcatSorts`, `CutOfConcat`): hence `LeavesSortedRDD`, and
  `DistributedSortReturnsSorted`: every step is a step of `SortSpec` or stutters
  there. `SortedEnumerationsAll` justifies how `RowOrder` enumerates what
  `std::sort` may return: no sorted arrangement of a finite set is left out.
- `SortMergeJoinProofs`. For any tables and join keys, number of partitions and
  rows to a block. Each enclave call is proved first, as an induction over the rows
  of its partition: when `LastPrimary` returns, its blocks enumerate the primary
  rows of the greatest key, if that is the key of primary rows (`LastGroup`,
  `LastPrimaryHolds`); the writer of `Join` holds the primary rows of one key, and
  every pair written was of rows of the partition or handed on (`JoinHolds`,
  `JoinReturns`). The delicate place is the writer of the group: once a foreign row
  has read it, it is finished, and would ignore a primary row; none comes, because
  the primary rows of a key come before the foreign ones. What both return is said
  of the sets of rows of the partitions (`HandedOn`, `MatchesIn`), not of their
  order, and so `JoinInv` survives `Recompute`: a partition lost and computed again
  in another order was scanned in one order and is joined in another. That no row
  is in two partitions (`Apart`) comes from the sort. From it `JoinIsSound`, and
  `JoinReachesNextPartition`; the claim that one partition forward always suffices
  is refuted by a run.
- `AggregateProofs`. For any rows, grouping keys and number of partitions. The
  calls again are loops, proved as inductions over the rows: after each row the
  partial aggregate enumerates the rows of its group so far (`PartialAggsHold`),
  and what has been written are the groups that have ended (`IsGroups`, `Ended`,
  `AggregatesHold`). What comes from the neighbours must fit: a first row after
  the partition has a greater key, a last row before it a smaller one, and then
  the aggregate that came with it is reset (`FitsAfter`, `FitsBefore`). So a
  group begun in another partition would be lost, but there is none: `Apart`.
  `AggregateInv` says this of the sets of rows of the partitions, hence outlives
  `Recompute`, and `AggregateIsExact` follows: a group of a partition is a group of
  the input (`GroupOfInput`).
- `EnclaveKeysProofs`, the attestation. `TypeInv` carries `OneDrawPerAttempt`:
  the owner's pair is the number of the attempt. `OneExchange`: the `g_a` of two
  messages 1 differ and `sp_db` is the exchange of the last one, hence several
  partitions never succeed. `KeyInv` rests on both: no enclave draws a second
  pair in one attempt, or one before the task that attests it
  (`OneDrawPerAttestation`), and what a task of the last step returned names an
  enclave that, unless it has been restarted, has both halves of one pair drawn
  so far (`AttestedHoldsPair`). From it `AttestedEnclaveHasKeys`, and, since
  only one pair has been drawn in a first attempt, `FirstAttemptKeysAgree`.
- `EnclaveKeysProofs`, the key schedule. `OpensLiveSchedule` says nothing of a
  reset that is under way. `ScheduleInv` does: a schedule that is not yet in
  `ks` is known to its task alone and no reset will delete it (`Fresh`), what is
  going to be deleted is no longer in `ks` (`OldGone`), and from the first reset
  on `ks` is not null (`KsSet`). For one core `SerialInv` adds that a single
  task runs (`Alone`), that it uses what is in `ks` (`InUse`), and who is
  responsible for each live schedule (`Owned`).
- `QueryServiceProofs`, first the parts of the service. Of the table store,
  `StoreInv`: the part files of a table are of one version (`OneVersion`), what is
  on disk is what the call has done so far (`Progress`), and a table is whole if
  the last call returned (`CompleteIsLatest`). That the slices are all the rows,
  and disjoint, is arithmetic of rounded quotients (`SlicesCover`,
  `SlicesDisjoint`). Of the REST service, `RestInv`: the one whose handler
  registers views has the loop, so those it has registered are still its own.
  A step of the whole is one of the table store and one of the REST service, or
  stutters there (`StepOfParts`); so the service implements both
  (`ImplementsStore`, `ImplementsRest`) and inherits what is proved of them.
- `QueryServiceProofs`, the whole. Its invariant has four parts, each resting on
  those before.
  `ServiceInv`: a call that will end well is in an enclave that is attested
  (`GoodCallsAttested`); with it every block behind the access control is of the
  first JVM (`JobsInv`), hence `AttestedAnswers`, which is not inductive by itself
  since a call outlives the state in which it was made.
  `CallsCompute`: a call that ends well holds what its ecall computed of its input,
  whoever brings the enclave down meanwhile, and there are no more threads inside
  than it takes. What an ecall computes is Spark's result row by row
  (`ComputedRowByRow`, `RowByRowIsSparks`), hence `NoResultOrSparks`.
  `WithinBounds` completes `TypesInService`.
  `JobExact`, of one request: a version that is complete no more will not be
  complete again (`VersionPast`); a call is for the operator that is next for its
  partition, on the block cached for it (`CallOfNext`); and as long as nobody
  outsources a table anew, the files listed are those it has, and a cached block
  is what its stage makes of its part file (`FilesListed`, `BlockOfPart`). Losing
  the blocks, the calls or both keeps all of this, and so does trying again.
  The part files of a whole table are disjoint and are all of it
  (`PartsTileTable`), and an operator works on a row without regard to the block
  that it is in (`RowsKept`): so what is collected is the whole
  (`CollectedIsExact`), which is `ExactAnswers`.
- `QueryServiceProofs`, the expressions. `LogicIsThreeValued`: And, Or and Not are those of three
  truth values, whatever a null field carries. `NodesAgreeWithSpark`: for fields of
  any types and values an operator throws, or is one of the departures named above,
  or gives what Spark gives, casts of strings included: a string that is a number
  for Spark, perhaps with a sign, has no whitespace for `std::stol` to skip
  (`CleanHasNoWhitespace`), and the digits it reads, and the number they are, exist
  and are the same. Two fields agree that
  differ only in what a null carries along, so that `ExpressionsAgreeWithSpark`
  follows by induction over the nodes: what nulls carry never gets out, however
  deep the expression. `SubstringIsTheWindow` and `YearIsTheCalendars` are
  about arithmetic that tests reach at a few points: negative positions, and leap
  years in cycles of 4, 100 and 400 years before and after 1970.

- `PlannerProofs`. For any set of statements, of any operators in any order and of
  any depth, and whatever columns and projections are. Trees first:
  what `transformUp` makes of a plan is what the rule makes of the root over what it
  has made of the children (`TransformUpIs`), so that a fact about the result is
  shown for one node and follows for the tree (`TreeInduction`). Every rule then has a
  lemma of the same shape (`ApplyPolicyRule`, `ConvertToOpaqueRule`,
  `ConvertToQShieldRule`). What it makes of a plan is a plan, is `Plannable` if and
  only if that was, and reads the same tables in the same order, with a check of the
  token at the same places (`Kept`, `Reads`); `Plannable` is
  `Supported` said of plans that are half converted, so that a token over an encrypted
  operator or a cast that failed is as far from a plan as what it came from. And
  each rule leaves its work done: a table, with the null checks over it, is a block
  RDD, and what is plannable is encrypted (`Settled`); no token over a
  block RDD (`Applied`); no preparation over encrypted operators (`Prepared`).
  Neither property is inductive, since they speak of the end only: `PlannerInv` says of
  every state what of the statement the plan keeps (`PlanSound`) and how far the rules
  have come in their round (`RoundSound`). A round that changed nothing was through all
  three, unless it was the first; but a statement that is supported reads a table, so
  its first round changes it (`StatementUnsettled`). Of what is left the strategies
  plan every node if it is plannable, and throw if it is not (`StrategyPlans`). Hence
  `PlannedExactlyIfSupportedHolds` and `PolicyChecksKeptHolds`.

The last of these proofs changed the model twice. A statement whose token stands over
a null check over a table had been called unsupported; the rules drop the
check first and plan the statement, so `Supported` allows it. And of two arms of
a `CASE` that both apply TLA+ may choose either, which TLC, taking the first, does not
show: the first form of `ConvertToOpaque` had two such arms where the code has the
first that matches.

What is assumed. Besides the ranges of numbers: that the rows stored have fields
of their types, and an expression's nodes the number of arguments, literals and
columns that `Expr.fbs` has for them (`ContentAssumption`, `WellFormed`); types that
do not go together are not excluded. That a statement's operator is one of those of
`QueryService`, with an expression if it needs one, and the tables it names are
tables (`ServiceAssumption`). That a statement is a finite tree whose nodes have the
children and arguments of their classes, prepared for its user and without operators
that only the rules make (`QueriesAssumption`).

Only model-checked: liveness (`Termination`, `QueryEnds`, `EveryRequestAnswered`,
the liveness of `SortSpec`), and `AnsweredAsWritten`: what a statement means, the
columns of an operator and the serialisation of an expression are declared
`RECURSIVE`, of which the provers know nothing. Recursive functions, over digits,
nodes, runs, rows or the levels of a tree, are no obstacle: an induction over them is one
over the set of numbers for which the claim holds (`SetInduction`).

## Plan

In order of importance.

1. Sort: `Ranges`, `RowOrder`, `RangePartition`, `ExternalSort`, `SortSpec`,
   `SortedRDD`, `RangeSort`, with proofs. *Done.*
2. Join and aggregation over every sorted RDD. *Done.*
3. Attestation and key agreement, with proofs. *Done.*
4. Findings as runs of their own. *Done.*
5. `KeySchedule`, with proofs. *Done.*
6. `RowIO` under the external sort and the join. *Done.*
7. Outsourcing with crashes (`TableStore`), the REST service and the calls into
   the enclave, and their composition in `QueryService`, with proofs. *Done.*
8. Expressions against Spark's, with proofs. *Done.*
9. Planner and serialisation against the meaning of statements. *Done.*
10. How `QEncryptedUnionExec` pairs the partitions of its tables and
    coalesces them; `executeTake`, which runs jobs over more and more partitions.
11. Averages, doubles and casts of dates in `Expression`.
12. Proofs of `ExternalSort`, of `RangeSort` as a whole, of the join, of the
    aggregation, of expressions, of whole queries and of the planner's rules and
    strategies. *Done.* Next: `AnsweredAsWritten`, whose operators on
    expressions would first have to be functions that count down, as those of
    `Planner` do.

## Not modelled

- The trust proof: compiled only with `QSHIELD_TP`, which `E/CMakeLists.txt:6`
  sets to 0.
- The content of quotes and the attestation service's protocol: an answer or an
  exception.
- The token: a request stands for its own.
- Opaque's operators: the same algorithms over another block type. What QShield's
  operators inherit from them is in `QueryService`.
- Expressions over floating point, arrays and maps, division, casts of dates and
  to strings, `Average`, `Last`, vector sums.
- Join types other than inner: the code passes them on and does not look at them.
- Null keys of sorts, joins and groups. The code's comparisons give false when either
  key is null (`E/ExpressionEvaluation.h:122-124`): a null would be neither before nor
  after any key and in no group, not even its own, and the order the algorithms rely
  on would be none. The repository says that it does not support null values yet
  (`O/logical/rules.scala:102-103`). `Key` and `JoinKey` are of keys that are not null;
  nulls are in `Expression` and in the rows of `QueryService`.
- The formats of rows and blocks, JNI buffers, the pairing arithmetic.
- The user client, which posts a few requests and prints the answers.
- Vendored libraries, benchmarks, experiments, data.

Of the repository's lines of implementation about half are vendored arithmetic
(`tpl/`), copies of `jni.h` and headers of libraries. Of the rest, much is what the
list above leaves out: formats, an HTTP client, one bridge per enclave call with
the same body, and Opaque's operators beside those derived from them. The models
stand for about a tenth of the whole.
