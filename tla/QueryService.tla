---------------------------- MODULE QueryService ----------------------------
(***************************************************************************)
(* A query from the request to the answer: the REST service, the stored    *)
(* tables, which their owner may outsource anew meanwhile, and the calls   *)
(* into the enclave, put together by the Spark jobs that a query consists  *)
(* of (timeOperator and executeCollect of opaque/execution/operators.scala *)
(* and the operators of qshield/execution/operators.scala).                *)
(*                                                                         *)
(* Every operator runs a job that computes and caches its result, after    *)
(* the jobs of its children. The first job of a scan lists the part files; *)
(* its tasks open them later. The tasks of the jobs in progress share the  *)
(* cores of one executor. A task that fails is tried again up to           *)
(* MaxTaskFailures times; cached blocks are lost with the executor and     *)
(* computed again from the files.                                          *)
(*                                                                         *)
(* The operators above a join or a sort are those of the modules           *)
(* RangeSort, SortMergeJoin and Aggregate; here a query has one operator   *)
(* between the access control and the preparation of the result.           *)
(***************************************************************************)
EXTENDS TableStore, RestService, EnclaveCall

CONSTANTS
  Cores,             \* tasks that run at a time
  MaxTaskFailures,   \* spark.task.maxFailures
  Scenarios          \* bounds: which requests are sent, and how much may
                     \*   happen to the tables and the executor meanwhile

ASSUME ServiceAssumption ==
  /\ Models \subseteq Tables
  /\ Callers = Requests \X Models \X Slices
  /\ NumRows .. NumRows * (MaxOutsourcings + 1) - 1 \subseteq DOMAIN Content
  /\ \A s \in Statements :
       /\ s.op.name \in {"QFilter", "QProject", "QPartitionForSort"}
       /\ s.op.name \in {"QFilter", "QProject"} => s.op.expr \in DOMAIN Exprs
  /\ Cores \in Nat \ {0}
  /\ MaxTaskFailures \in Nat \ {0}
  /\ \A s \in Scenarios :
       /\ s.requests \subseteq Requests
       /\ s.statements \subseteq Statements
       /\ s.outsourced \subseteq Tables

VARIABLES
  jobs,       \* per request: its stage, its files and its cached blocks
  scenario

vars == <<storeVars, restVars, callVars, jobs, scenario>>

Scan            == [name |-> "Scan"]
ACPolicyApplied == [name |-> "ACPolicyApplied"]
ResPrepared     == [name |-> "ResPrepared"]

(* The jobs in the order in which executeBlocked runs them: the scan and   *)
(* the access control of each table, the operator, the preparation of the  *)
(* result. Which operator the k-th runs, and the tables under it.          *)
Scans(r)     == 2 * Len(requests[r].statement.tables)
LastStage(r) == Scans(r) + 2

OpOf(r, k) ==
  IF k <= Scans(r) THEN IF k % 2 = 1 THEN Scan ELSE ACPolicyApplied
  ELSE IF k < LastStage(r) THEN requests[r].statement.op ELSE ResPrepared

Under(r, k) ==
  IF k <= Scans(r) THEN {requests[r].statement.tables[(k + 1) \div 2]}
                   ELSE Mentioned(requests[r].statement)

(* The block of a part file. The rows of one version after the other are   *)
(* numbered; what they hold does not depend on the table.                  *)
BlockOf(part) ==
  [x \in {part.version * NumRows + row : row \in RowsOf(part)} |-> Content[x]]

NotCached == [stage |-> 0, block |-> NoBlock, jvm |-> 0]
NotListed == {0}

NoJob ==
  [stage |-> 0, failed |-> FALSE, undisturbed |-> FALSE,
   files |-> [t \in Models |-> NotListed],
   cached |-> [tp \in Models \X Slices |-> NotCached],
   failures |-> [tp \in Models \X Slices |-> 0],
   version |-> [t \in Models |-> 0]]

(* version: of the tables that no call of QOutsource is at work on or has  *)
(* left unfinished.                                                        *)
Submitted ==
  [NoJob EXCEPT !.stage = 1, !.version = [t \in Models |-> complete[t]]]

Init ==
  /\ scenario \in Scenarios
  /\ StoreInit
  /\ {t \in Tables : outsourcings[t] # 0} = scenario.outsourced
  /\ \A t \in Tables : Present(t) \subseteq 1 .. scenario.slices
  /\ RestInit
  /\ \A r \in Requests : requests[r].statement \in scenario.statements
  /\ CallInit
  /\ jobs = [r \in Requests |-> NoJob]

Running(r) == requests[r].pc = "awaiting" /\ ~ jobs[r].failed

(* The partitions of a table.                                              *)
Partitions(r, t) == jobs[r].files[t] \ NotListed

(* Job k has the partition go through its operator next.                   *)
IsNext(r, t, p, k) ==
  LET stage == jobs[r].cached[<<t, p>>].stage
  IN  /\ stage < k
      /\ t \in Under(r, k)
      /\ \A j \in stage + 1 .. k - 1 : t \notin Under(r, j)

(* A partition that the job in progress asks for.                          *)
Wanted(r, t, p, k) ==
  /\ Running(r)
  /\ p \in Partitions(r, t)
  /\ k <= jobs[r].stage
  /\ IsNext(r, t, p, k)

---------------------------------------------------------------------------
(* The owner and the REST service. *)

WithinScenario ==
  /\ executor.jvm <= scenario.restarts
  /\ faults <= scenario.faults
  /\ \A t \in Tables : outsourcings[t] <= scenario.outsourcings[t]
  /\ owner.slices <= scenario.slices

OwnerStep ==
  /\ StoreNext
  /\ UNCHANGED <<restVars, callVars, jobs, scenario>>
  /\ WithinScenario'

(* A request whose statement has been analysed starts its first job.       *)
Serve(r) ==
  /\ r \in scenario.requests
  /\ HandlerStep(r)
  /\ jobs' = IF requests'[r].pc = "awaiting" THEN [jobs EXCEPT ![r] = Submitted] ELSE jobs
  /\ UNCHANGED <<storeVars, callVars, scenario>>

---------------------------------------------------------------------------
(* Jobs. *)

ListFiles(r) ==
  \E t \in Models :
    /\ Running(r)
    /\ jobs[r].stage <= LastStage(r)
    /\ OpOf(r, jobs[r].stage) = Scan
    /\ t \in Under(r, jobs[r].stage)
    /\ jobs[r].files[t] = NotListed
    /\ \/ /\ data[t].exists
          /\ jobs' = [jobs EXCEPT ![r].files[t] = Present(t)]
       \/ /\ ~ data[t].exists     \* input path does not exist
          /\ jobs' = [jobs EXCEPT ![r].failed = TRUE]
    /\ UNCHANGED <<storeVars, restVars, callVars, scenario>>

(* Every partition under the operator has been through it.                 *)
StageComplete(r, k) ==
  \A t \in Under(r, k) :
    /\ jobs[r].files[t] # NotListed
    /\ \A p \in Partitions(r, t) : k <= jobs[r].cached[<<t, p>>].stage

NextJob(r) ==
  /\ Running(r)
  /\ jobs[r].stage <= LastStage(r)
  /\ StageComplete(r, jobs[r].stage)
  /\ jobs' = [jobs EXCEPT ![r].stage = @ + 1,
                ![r].failures = [tp \in Models \X Slices |-> 0]]
  /\ UNCHANGED <<storeVars, restVars, callVars, scenario>>

(* collect brings the blocks of every partition to the driver.             *)
Answer(r) ==
  /\ Running(r)
  /\ jobs[r].stage = LastStage(r) + 1
  /\ StageComplete(r, LastStage(r))
  /\ Respond(r, 200)
  /\ jobs' = [jobs EXCEPT ![r].undisturbed =
                \A t \in Under(r, LastStage(r)) :
                  complete[t] # 0 /\ complete[t] = jobs[r].version[t]]
  /\ UNCHANGED <<storeVars, callVars, scenario>>

JobFailed(r) ==
  /\ requests[r].pc = "awaiting"
  /\ jobs[r].failed
  /\ Respond(r, 500)
  /\ UNCHANGED <<storeVars, callVars, jobs, scenario>>

---------------------------------------------------------------------------
(* Tasks. *)

(* Fault: a task that fails is tried again and again.                      *)
AfterFailureForever(r, t, p) == jobs[r]

AfterFailure(r, t, p) ==
  IF jobs[r].failures[<<t, p>>] + 1 >= MaxTaskFailures
    THEN [jobs[r] EXCEPT !.failed = TRUE]
    ELSE [jobs[r] EXCEPT !.failures[<<t, p>>] = @ + 1]

(* The blocks cached by requests in progress go with their executor.       *)
AfterLoss ==
  [r \in Requests |->
     IF requests[r].pc = "answered" THEN jobs[r]
     ELSE [jobs[r] EXCEPT !.cached = [tp \in Models \X Slices |-> NotCached]]]

WithLoss == jobs' = IF executor'.jvm = executor.jvm THEN jobs ELSE AfterLoss

Cache(r, t, p, k, block) ==
  jobs' = [jobs EXCEPT ![r].cached[<<t, p>>] =
             [stage |-> k, jvm |-> executor.jvm, block |-> block]]

ReadPart(r, t, p, k) ==
  /\ Wanted(r, t, p, k)
  /\ OpOf(r, k) = Scan
  /\ \/ /\ data[t].parts[p] # NoPart
        /\ Cache(r, t, p, k, BlockOf(data[t].parts[p]))
     \/ /\ data[t].parts[p] = NoPart     \* the file has gone since
        /\ jobs' = [jobs EXCEPT ![r] = AfterFailure(r, t, p)]
  /\ UNCHANGED <<storeVars, restVars, callVars, scenario>>

Busy == {c \in Callers : calls[c].pc # "none"}

MakeCall(r, t, p, k) ==
  /\ Wanted(r, t, p, k)
  /\ OpOf(r, k) # Scan
  /\ Cardinality(Busy) < Cores
  /\ Call(<<r, t, p>>, OpOf(r, k), jobs[r].cached[<<t, p>>].block)
  /\ WithLoss
  /\ UNCHANGED <<storeVars, restVars, scenario>>
  /\ WithinScenario'

CallEnds(c) ==
  /\ Leave(c)
  /\ WithLoss
  /\ UNCHANGED <<storeVars, restVars, scenario>>
  /\ WithinScenario'

(* Nobody waits any more for a task of a job that has failed.              *)
TakeResult(r, t, p) ==
  /\ Take(<<r, t, p>>)
  /\ \/ ~ Running(r) /\ UNCHANGED jobs
     \/ /\ Running(r)
        /\ calls[<<r, t, p>>].exception
        /\ jobs' = [jobs EXCEPT ![r] = AfterFailure(r, t, p)]
     \/ /\ ~ calls[<<r, t, p>>].exception
        /\ \E k \in 1 .. LastStage(r) :
             Wanted(r, t, p, k) /\ Cache(r, t, p, k, calls[<<r, t, p>>].output)
  /\ UNCHANGED <<storeVars, restVars, scenario>>

ExecutorLost ==
  /\ LoseExecutor
  /\ WithLoss
  /\ UNCHANGED <<storeVars, restVars, scenario>>
  /\ WithinScenario'

---------------------------------------------------------------------------
RequestStep(r) ==
  Serve(r) \/ ListFiles(r) \/ NextJob(r) \/ Answer(r) \/ JobFailed(r)

TaskStep(r, t, p) ==
  \/ CallEnds(<<r, t, p>>)
  \/ TakeResult(r, t, p)
  \/ \E k \in 1 .. LastStage(r) : ReadPart(r, t, p, k) \/ MakeCall(r, t, p, k)

ServiceStep ==
  \/ \E r \in Requests : RequestStep(r)
  \/ \E r \in Requests, t \in Models, p \in Slices : TaskStep(r, t, p)

Next == OwnerStep \/ ExecutorLost \/ ServiceStep

Spec == Init /\ [][Next]_vars

(* The loop, the driver or a task goes on as long as one of them can. More *)
(* is not needed, as none of them can go on forever.                       *)
FairSpec == Spec /\ WF_vars(ServiceStep)

---------------------------------------------------------------------------
TypeOK ==
  /\ scenario \in Scenarios
  /\ loop \in Requests \cup {Nobody}
  /\ views \in [Models -> Requests \cup {Nobody}]
  /\ \A r \in Requests :
       /\ requests[r].pc \in Pcs
       /\ requests[r].status \in {0, 200, 400, 500}
       /\ requests[r].sources \in [Models -> Requests \cup {Nobody}]
       /\ jobs[r].stage \in 0 .. LastStage(r) + 1
       /\ \A t \in Models : jobs[r].files[t] \subseteq Slices \cup NotListed
  /\ owner.table \in Tables \cup {NoTable}
  /\ complete \in [Tables -> 0 .. MaxOutsourcings]
  /\ schema \in [Tables -> Versions \cup {NoSchema, EmptySchema}]
  /\ executor.enclave \in {"none", "running", "crashed"}
  /\ Cardinality(Inside) <= TCSNum

Answered200(r) == requests[r].pc = "answered" /\ requests[r].status = 200

(* Access control was applied, and everything after it computed, in the    *)
(* enclave that had been attested: an executor that comes back without     *)
(* keys answers nothing, and nothing that it computed is mixed in with     *)
(* what was cached before.                                                 *)
AnswersOnlyFromAttestedEnclave ==
  \A r \in Requests : Answered200(r) =>
    \A t \in Mentioned(requests[r].statement) : \A p \in Partitions(r, t) :
      jobs[r].cached[<<t, p>>].jvm = 0

(* All rows of a version of a table as one block.                          *)
WholeTable(version) == BlockOf(Part(version, 0, NumRows))

(* What Spark makes of the plan after the scan.                            *)
SparkAnswer(r, t) == SparkResult(requests[r].statement.op, WholeTable(jobs[r].version[t]))

(* The blocks of the answer as one.                                        *)
BlockAt(r, t, p) == jobs[r].cached[<<t, p>>].block
AnswerOf(r, t) ==
  [x \in UNION {DOMAIN BlockAt(r, t, p) : p \in Partitions(r, t)} |->
     BlockAt(r, t, CHOOSE p \in Partitions(r, t) : x \in DOMAIN BlockAt(r, t, p))[x]]

(* A request that is answered with a result, and whose tables nobody       *)
(* outsourced anew meanwhile, is answered with all of it: no partition is  *)
(* missing because its task failed, was tried again or ran on another      *)
(* executor, no row is in two, and every row is what Spark makes of the    *)
(* row outsourced.                                                         *)
AnswersAreExact ==
  \A r \in Requests : Answered200(r) /\ jobs[r].undisturbed =>
    \A t \in Mentioned(requests[r].statement) :
      /\ \A p, q \in Partitions(r, t) :
           p # q => DOMAIN BlockAt(r, t, p) \cap DOMAIN BlockAt(r, t, q) = {}
      /\ BlockInAgreement(requests[r].statement.op, WholeTable(jobs[r].version[t]))
           => SameBlock(AnswerOf(r, t), SparkAnswer(r, t))

(* Every request that is sent is answered, with its result or an error:    *)
(* a query whose enclave crashed, whose files disappeared or whose tasks   *)
(* fail again and again does not hang.                                     *)
EveryRequestAnswered ==
  \A r \in Requests :
    (r \in scenario.requests) ~> (requests[r].pc = "answered")
=============================================================================
