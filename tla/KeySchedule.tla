---------------------------- MODULE KeySchedule ----------------------------
(***************************************************************************)
(* The tasks of a query in the one enclave of their executor. A job of its *)
(* own decrypts the partitions of a table (ac_policy_applied), a later one *)
(* encrypts the result for the user (res_prepared); a partition that the   *)
(* cache has lost in between is scanned again in the task of the second.   *)
(* Both go through the global key schedule ks, and ac_policy_applied       *)
(* replaces it each time: initKeySchedule allocates a schedule and calls   *)
(* std::unique_ptr::reset, which reads the old pointer, stores the new one *)
(* and deletes the old. Nothing locks it, and the enclave has a thread for *)
(* every core.                                                             *)
(*                                                                         *)
(* The enclave has been attested, so that erec gives every task the same   *)
(* key. A schedule is the number of its allocation, 0 the null pointer.    *)
(* The operators between the two jobs use another key and are left out.    *)
(***************************************************************************)
EXTENDS Naturals, FiniteSets

CONSTANTS
  Tasks,
  MaxCores,         \* at most TCSNum
  Blocks,           \* encrypted blocks of a partition, and of its result
  TaskMaxFailures   \* spark.task.maxFailures

ASSUME KeyScheduleAssumption ==
  /\ IsFiniteSet(Tasks)
  /\ MaxCores \in Nat \ {0}
  /\ Blocks \in Nat \ {0}
  /\ TaskMaxFailures \in Nat \ {0}

VARIABLES
  cores,        \* tasks the executor runs at a time
  ks,           \* the unique_ptr
  allocated,    \* key schedules allocated so far
  live,         \* those not deleted
  enclaveState, \* "up", or "lost" after a double free
  job,          \* "scan", then "prepare"
  taskPc,       \* where each task is
  new,          \* the schedule a task has allocated last
  old,          \* the pointer its reset has read
  used,         \* the pointer its decryption or encryption has got
  block,        \* blocks it has finished in the call
  taskFailures,
  garbled       \* tasks with a result block encrypted through another key

scheduleVars == <<cores, ks, allocated, live, enclaveState, job, taskPc, new, old, used, block,
                  taskFailures, garbled>>

Resetting  == {"reconstruct", "read_old", "store_new", "delete_old"}
Decrypting == {"next_block", "decrypt"}
Encrypting == {"next_result", "encrypt"}
Ended      == {"returned", "failed"}

Aborted == \E t \in Tasks : taskPc[t] = "failed"

Running == {t \in Tasks : taskPc[t] \in Resetting \cup Decrypting \cup Encrypting}

ScheduleInit ==
  /\ cores \in 1 .. MaxCores
  /\ ks = 0
  /\ allocated = 0
  /\ live = {}
  /\ enclaveState = "up"
  /\ job = "scan"
  /\ taskPc = [t \in Tasks |-> "waiting"]
  /\ new = [t \in Tasks |-> 0]
  /\ old = [t \in Tasks |-> 0]
  /\ used = [t \in Tasks |-> 0]
  /\ block = [t \in Tasks |-> 0]
  /\ taskFailures = [t \in Tasks |-> 0]
  /\ garbled = {}

---------------------------------------------------------------------------
Goto(t, label) == taskPc' = [taskPc EXCEPT ![t] = label]

(* The call throws; the scheduler runs the task again, or aborts the job.  *)
Throws(t) ==
  /\ taskFailures' = [taskFailures EXCEPT ![t] = @ + 1]
  /\ Goto(t, IF taskFailures[t] + 1 < TaskMaxFailures THEN "waiting" ELSE "failed")

(* A core is free for the task. The second job finds the scanned partition *)
(* in the cache, or scans it again.                                        *)
Start(t) ==
  /\ ~ Aborted
  /\ taskPc[t] = "waiting"
  /\ Cardinality(Running) < cores
  /\ \/ Goto(t, "reconstruct")
     \/ (job = "prepare" /\ Goto(t, "next_result"))
  /\ block' = [block EXCEPT ![t] = 0]
  /\ garbled' = garbled \ {t}
  /\ UNCHANGED <<cores, ks, allocated, live, enclaveState, job, new, old, used, taskFailures>>

(* The scan has been forced; the result is prepared. *)
Prepare ==
  /\ job = "scan"
  /\ \A t \in Tasks : taskPc[t] = "returned"
  /\ job' = "prepare"
  /\ taskPc' = [t \in Tasks |-> "waiting"]
  /\ taskFailures' = [t \in Tasks |-> 0]
  /\ UNCHANGED <<cores, ks, allocated, live, enclaveState, new, old, used, block, garbled>>

(* No call into a lost enclave returns. *)
EnclaveLost(t) ==
  /\ enclaveState = "lost"
  /\ t \in Running
  /\ Throws(t)
  /\ UNCHANGED <<cores, ks, allocated, live, enclaveState, job, new, old, used, block, garbled>>

At(t, label) == taskPc[t] = label /\ enclaveState = "up"

(* erec, the copy to shared_key, and new KeySchedule. *)
Reconstruct(t) ==
  /\ At(t, "reconstruct")
  /\ allocated' = allocated + 1
  /\ live' = live \cup {allocated'}
  /\ new' = [new EXCEPT ![t] = allocated']
  /\ Goto(t, "read_old")
  /\ UNCHANGED <<cores, ks, enclaveState, job, old, used, block, taskFailures, garbled>>

(* Fault: the old schedule is deleted before the new one is in its place.  *)
ReadOldAndDelete(t) ==
  /\ At(t, "read_old")
  /\ live' = live \ {ks}
  /\ old' = [old EXCEPT ![t] = 0]
  /\ Goto(t, "store_new")
  /\ UNCHANGED <<cores, ks, allocated, enclaveState, job, new, used, block, taskFailures, garbled>>

ReadOld(t) ==
  /\ At(t, "read_old")
  /\ old' = [old EXCEPT ![t] = ks]
  /\ Goto(t, "store_new")
  /\ UNCHANGED <<cores, ks, allocated, live, enclaveState, job, new, used, block, taskFailures, garbled>>

StoreNew(t) ==
  /\ At(t, "store_new")
  /\ ks' = new[t]
  /\ Goto(t, "delete_old")
  /\ UNCHANGED <<cores, allocated, live, enclaveState, job, new, old, used, block, taskFailures, garbled>>

(* Fault: ks.release() in the place of ks.reset().                         *)
LeakOld(t) ==
  /\ At(t, "delete_old")
  /\ Goto(t, "next_block")
  /\ UNCHANGED <<cores, ks, allocated, live, enclaveState, job, new, old, used, block, taskFailures, garbled>>

(* Two resets that read the same old pointer delete it twice: the          *)
(* allocator finds out and aborts the enclave, or it does not.             *)
DeleteOld(t) ==
  /\ At(t, "delete_old")
  /\ live' = live \ {old[t]}
  /\ Goto(t, "next_block")
  /\ \/ UNCHANGED enclaveState
     \/ old[t] \notin live \cup {0} /\ enclaveState' = "lost"
  /\ UNCHANGED <<cores, ks, allocated, job, new, old, used, block, taskFailures, garbled>>

Opened(label) == IF label = "next_block" THEN "decrypt" ELSE "encrypt"

(* Fault: goes through the pointer that was there before the call.         *)
OpenBlockStale(t, label) ==
  /\ At(t, label)
  /\ used' = [used EXCEPT ![t] = old[t]]
  /\ Goto(t, Opened(label))
  /\ UNCHANGED <<cores, ks, allocated, live, enclaveState, job, new, old, block, taskFailures, garbled>>

(* encrypt and decrypt: throw if there is no schedule, take the pointer.   *)
OpenBlock(t, label) ==
  /\ At(t, label)
  /\ IF ks = 0
       THEN Throws(t) /\ UNCHANGED used
       ELSE used' = [used EXCEPT ![t] = ks] /\ Goto(t, Opened(label)) /\ UNCHANGED taskFailures
  /\ UNCHANGED <<cores, ks, allocated, live, enclaveState, job, new, old, block, garbled>>

(* Fault: stays at the block.                                              *)
BlockFinishedUncounted(t, again, after) ==
  /\ Goto(t, again)
  /\ UNCHANGED block

(* The next block of the call, or what comes after its last.               *)
BlockFinished(t, again, after) ==
  IF block[t] + 1 < Blocks
    THEN Goto(t, again) /\ block' = [block EXCEPT ![t] = @ + 1]
    ELSE Goto(t, after) /\ block' = [block EXCEPT ![t] = 0]

(* Through a deleted schedule the block may still come out right, if the   *)
(* memory has not been used again.                                         *)
DecryptBlock(t) ==
  /\ At(t, "decrypt")
  /\ BlockFinished(t, "next_block", IF job = "scan" THEN "returned" ELSE "next_result")
  /\ UNCHANGED <<cores, ks, allocated, live, enclaveState, job, new, old, used, taskFailures, garbled>>

(* Otherwise the MAC is wrong, which is only printed, and the bytes are no *)
(* rows, which is found out.                                               *)
DecryptsGarbled(t) ==
  /\ At(t, "decrypt")
  /\ used[t] \notin live
  /\ Throws(t)
  /\ UNCHANGED <<cores, ks, allocated, live, enclaveState, job, new, old, used, block, garbled>>

EncryptBlock(t) ==
  /\ At(t, "encrypt")
  /\ BlockFinished(t, "next_result", "returned")
  /\ garbled' \in {garbled} \cup (IF used[t] \in live THEN {} ELSE {garbled \cup {t}})
  /\ UNCHANGED <<cores, ks, allocated, live, enclaveState, job, new, old, used, taskFailures>>

EnclaveTaskStep(t) ==
  \/ Start(t) \/ EnclaveLost(t)
  \/ Reconstruct(t) \/ ReadOld(t) \/ StoreNew(t) \/ DeleteOld(t)
  \/ \E label \in {"next_block", "next_result"} : OpenBlock(t, label)
  \/ DecryptBlock(t) \/ DecryptsGarbled(t) \/ EncryptBlock(t)

ScheduleNext == Prepare \/ \E t \in Tasks : EnclaveTaskStep(t)

ScheduleSpec == ScheduleInit /\ [][ScheduleNext]_scheduleVars

(* The threads of the enclave run on, a waiting task gets a core, and the  *)
(* driver goes on to its next job.                                         *)
ScheduleFairSpec ==
  /\ ScheduleSpec
  /\ WF_scheduleVars(Prepare)
  /\ \A t \in Tasks : WF_scheduleVars(EnclaveTaskStep(t))

---------------------------------------------------------------------------
Schedules == 0 .. allocated

(* The type invariant. *)
ScheduleTypeOK ==
  /\ cores \in 1 .. MaxCores
  /\ allocated \in Nat
  /\ ks \in Schedules
  /\ live \subseteq Schedules \ {0}
  /\ enclaveState \in {"up", "lost"}
  /\ job \in {"scan", "prepare"}
  /\ taskPc \in [Tasks -> {"waiting"} \cup Resetting \cup Decrypting \cup Encrypting \cup Ended]
  /\ new \in [Tasks -> Schedules]
  /\ old \in [Tasks -> Schedules]
  /\ used \in [Tasks -> Schedules]
  /\ block \in [Tasks -> 0 .. Blocks - 1]
  /\ taskFailures \in [Tasks -> 0 .. TaskMaxFailures]
  /\ garbled \subseteq Tasks

(* However resets interleave, a task that opens a block finds a schedule,  *)
(* and one that has not been deleted.                                      *)
OpensLiveSchedule ==
  \A t \in Tasks : taskPc[t] \in {"next_block", "next_result"} => ks \in live

(* The promise of Crypto.h that decrypt decrypts with the key, and encrypt *)
(* encrypts with it: the schedule they go through is there until the block *)
(* is finished.                                                            *)
UsesLiveSchedule ==
  \A t \in Tasks : taskPc[t] \in {"decrypt", "encrypt"} => used[t] \in live

(* It is kept if one task runs at a time.                                  *)
OneCoreUsesLiveSchedule == cores = 1 => UsesLiveSchedule

(* Then every result a task has returned is encrypted with the key.        *)
OneCoreResultsUnderKey == cores = 1 => \A t \in garbled : taskPc[t] # "returned"

(* And when no task runs the enclave holds one schedule at most.           *)
OneCoreLeaksNothing == cores = 1 /\ Running = {} => live \subseteq {ks}

(* The query returns or is aborted, and leaves no thread in the enclave.   *)
QueryEnds ==
  <>(/\ Running = {}
     /\ \/ Aborted
        \/ job = "prepare" /\ (\A t \in Tasks : taskPc[t] = "returned"))
=============================================================================
