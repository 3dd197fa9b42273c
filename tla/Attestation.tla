---------------------------- MODULE Attestation ----------------------------
(***************************************************************************)
(* The remote attestation that QOwnerStuber.initRA runs when the SQL       *)
(* context is set up, and the key agreement it ends in.                    *)
(*                                                                         *)
(* The driver holds the service provider (QServiceProvider), with one      *)
(* sp_db for the exchange in progress. Every step that needs an enclave is *)
(* a Spark job over NumPartitions partitions, whose tasks run on whatever  *)
(* executor the scheduler picks; the attestation session is a global of    *)
(* the executor's JVM. Utils.retry repeats the whole exchange when any     *)
(* step throws.                                                            *)
(*                                                                         *)
(* The key pair is not transported: InitPairing draws it inside the        *)
(* enclave, the owner has drawn its own in QInit, and both use PBC's       *)
(* generator seeded with 0, so that the n-th pair drawn is the same pair   *)
(* everywhere. A key pair is therefore the number of its draw, 0 if none.  *)
(* ECDH keys are numbers never used before. Quotes, MACs and signatures    *)
(* are modelled by what they bind: g_a and g_b.                            *)
(***************************************************************************)
EXTENDS Naturals

CONSTANTS
  Executors,
  NumPartitions,     \* partitions of the attestation jobs: 1 in the code
  MaxAttempts,       \* Utils.retry(3)
  MaxTaskFailures,   \* spark.task.maxFailures
  MaxFaults,         \* bound on transient failures
  MaxRestarts        \* bound on executor restarts

ASSUME AttestationAssumption ==
  /\ NumPartitions \in Nat \ {0}
  /\ MaxAttempts \in Nat \ {0}
  /\ MaxTaskFailures \in Nat \ {0}
  /\ MaxFaults \in Nat
  /\ MaxRestarts \in Nat

VARIABLES
  pc,         \* what the driver does next
  attempt,    \* runs of the body of Utils.retry, from 1
  g_e_sk,     \* the key pair of the service provider
  sp_db,      \* g_a and g_b of the exchange the service provider is in
  msgs,       \* what the driver sends with the job: msg2s or msg4s
  results,    \* what the tasks of the job have returned, by partition
  failures,   \* failed tries of each task of the job
  enclave,    \* per executor: its session and its keys
  nonce,      \* ECDH keys used so far
  faults,
  restarts

driverVars == <<g_e_sk, sp_db, msgs>>
budgetVars == <<faults, restarts>>
vars == <<pc, attempt, driverVars, results, failures, enclave, nonce, budgetVars>>

Partitions == 1 .. NumPartitions
Jobs == {"RA0", "RA1", "RA2", "RA3"}

NoSession == [state |-> "none", g_a |-> 0, g_b |-> 0]

(* An enclave just started. *)
NewEnclave(incarnation) ==
  [incarnation |-> incarnation, session |-> NoSession,
   keygens |-> 0, sk_a |-> 0, sk_b |-> 0, rdd_ks |-> FALSE]

Init ==
  /\ pc = "QInit"
  /\ attempt = 1
  /\ g_e_sk = 0
  /\ sp_db = NoSession
  /\ msgs = [p \in Partitions |-> NoSession]
  /\ results = <<>>
  /\ failures = [p \in Partitions |-> 0]
  /\ enclave = [e \in Executors |-> NewEnclave(0)]
  /\ nonce = 0
  /\ faults = 0
  /\ restarts = 0

---------------------------------------------------------------------------
(* Jobs and tasks. *)

StartJob(job) ==
  /\ pc' = job
  /\ results' = <<>>
  /\ failures' = [p \in Partitions |-> 0]
  /\ UNCHANGED attempt

Collected(job) == pc = job /\ DOMAIN results = Partitions

(* Fault: tries again without counting.                                    *)
AttemptThrowsUncounted ==
  /\ pc' = "QInit"
  /\ UNCHANGED <<attempt, results, failures>>

(* An exception leaves the body of Utils.retry.                            *)
AttemptThrows ==
  /\ IF attempt < MaxAttempts
       THEN pc' = "QInit" /\ attempt' = attempt + 1
       ELSE pc' = "failed" /\ UNCHANGED attempt
  /\ UNCHANGED <<results, failures>>

ToRun(job, p) == pc = job /\ p \notin DOMAIN results

TaskReturns(p, result) ==
  /\ results' = [q \in DOMAIN results \cup {p} |-> IF q = p THEN result ELSE results[q]]
  /\ UNCHANGED <<pc, attempt, failures>>

(* Fault: a failed task is always tried again.                             *)
TaskThrowsUncounted(p) == UNCHANGED <<pc, attempt, results, failures>>

(* The scheduler tries a failed task again, anywhere, until the job fails. *)
TaskThrows(p) ==
  IF failures[p] + 1 < MaxTaskFailures
    THEN /\ failures' = [failures EXCEPT ![p] = @ + 1]
         /\ UNCHANGED <<pc, attempt, results>>
    ELSE AttemptThrows

SetSession(e, session) == enclave' = [enclave EXCEPT ![e].session = session]

---------------------------------------------------------------------------
(* The driver. *)

(* setup() draws the key pair; sp_db keeps what it holds.                  *)
QInit ==
  /\ pc = "QInit"
  /\ g_e_sk' = g_e_sk + 1
  /\ StartJob("RA0")
  /\ UNCHANGED <<sp_db, msgs, enclave, nonce, budgetVars>>

(* connect_to_ias comes after setup() and may throw.                       *)
QInitThrows ==
  /\ pc = "QInit"
  /\ faults < MaxFaults
  /\ faults' = faults + 1
  /\ g_e_sk' = g_e_sk + 1
  /\ AttemptThrows
  /\ UNCHANGED <<sp_db, msgs, enclave, nonce, restarts>>

ProcMsg0 ==
  /\ Collected("RA0")
  /\ StartJob("RA1")
  /\ UNCHANGED <<driverVars, enclave, nonce, budgetVars>>

(* Every msg1 in turn: a fresh g_b, and sp_db is overwritten.              *)
ProcMsg1 ==
  /\ Collected("RA1")
  /\ msgs' = [p \in Partitions |->
                [state |-> "msg2", g_a |-> results[p].g_a, g_b |-> nonce + p]]
  /\ sp_db' = msgs'[NumPartitions]
  /\ nonce' = nonce + NumPartitions
  /\ StartJob("RA2")
  /\ UNCHANGED <<g_e_sk, enclave, budgetVars>>

(* The SigRL for the p-th msg1 cannot be had: sp_db is overwritten first.  *)
ProcMsg1Throws(p) ==
  /\ Collected("RA1")
  /\ faults < MaxFaults
  /\ faults' = faults + 1
  /\ sp_db' = [state |-> "msg2", g_a |-> results[p].g_a, g_b |-> nonce + p]
  /\ nonce' = nonce + p
  /\ AttemptThrows
  /\ UNCHANGED <<g_e_sk, msgs, enclave, restarts>>

(* g_a, the MAC and the report data of msg3 are checked against sp_db.     *)
AcceptsMsg3(msg3) == msg3.g_a = sp_db.g_a /\ msg3.g_b = sp_db.g_b

(* Every msg3 in turn; the msg4 carries ska under the session's key.       *)
ProcMsg3 ==
  /\ Collected("RA2")
  /\ IF \A p \in Partitions : AcceptsMsg3(results[p])
       THEN /\ msgs' = [p \in Partitions |-> [results[p] EXCEPT !.state = "msg4"]]
            /\ StartJob("RA3")
       ELSE AttemptThrows /\ UNCHANGED msgs
  /\ UNCHANGED <<g_e_sk, sp_db, enclave, nonce, budgetVars>>

(* The attestation service does not answer, or not with OK.                *)
ProcMsg3Throws ==
  /\ Collected("RA2")
  /\ faults < MaxFaults
  /\ faults' = faults + 1
  /\ AttemptThrows
  /\ UNCHANGED <<driverVars, enclave, nonce, restarts>>

AllAttested ==
  /\ Collected("RA3")
  /\ pc' = "done"
  /\ UNCHANGED <<attempt, results, failures, driverVars, enclave, nonce, budgetVars>>

---------------------------------------------------------------------------
(* The tasks, with the JNI call and the enclave call each of them makes.   *)

(* The new context replaces the one the JVM had, whatever its state.       *)
RemoteAttestation0(p, e) ==
  /\ ToRun("RA0", p)
  /\ SetSession(e, [NoSession EXCEPT !.state = "inited"])
  /\ TaskReturns(p, NoSession)
  /\ UNCHANGED <<driverVars, nonce, budgetVars>>

RemoteAttestation1(p, e) ==
  /\ ToRun("RA1", p)
  /\ IF enclave[e].session.state = "inited"
       THEN LET session == [NoSession EXCEPT !.state = "g_a", !.g_a = nonce + 1]
            IN  /\ nonce' = nonce + 1
                /\ SetSession(e, session)
                /\ TaskReturns(p, session)
       ELSE TaskThrows(p) /\ UNCHANGED <<nonce, enclave>>
  /\ UNCHANGED <<driverVars, budgetVars>>

(* msg2 is signed over g_b and the g_a it answers.                         *)
RemoteAttestation2(p, e) ==
  /\ ToRun("RA2", p)
  /\ IF /\ enclave[e].session.state = "g_a"
        /\ enclave[e].session.g_a = msgs[p].g_a
       THEN LET session == [enclave[e].session EXCEPT !.state = "g_b", !.g_b = msgs[p].g_b]
            IN  SetSession(e, session) /\ TaskReturns(p, session)
       ELSE TaskThrows(p) /\ UNCHANGED enclave
  /\ UNCHANGED <<driverVars, nonce, budgetVars>>

(* set_ska: msg4 can be decrypted with the key of the session.             *)
DecryptsMsg4(p, e) == enclave[e].session = [msgs[p] EXCEPT !.state = "g_b"]

SetSka(enc) == [enc EXCEPT !.session = NoSession, !.sk_a = g_e_sk, !.rdd_ks = TRUE]

(* Fault: the enclave draws from a seed of its own.                        *)
DrawnSeeded(enc) == [enc EXCEPT !.keygens = @ + 1,
                                !.sk_a = nonce + MaxAttempts + 1,
                                !.sk_b = nonce + MaxAttempts + 1]

(* InitPairing draws the next key pair and replaces sk_a by its half.      *)
InitPairing(enc) == [enc EXCEPT !.keygens = @ + 1,
                                !.sk_a = enc.keygens + 1,
                                !.sk_b = enc.keygens + 1]

(* Fault: the key pair is drawn before msg4 is processed.                  *)
PairingBeforeSka(enc) == SetSka(InitPairing(enc))

Attested(enc) == InitPairing(SetSka(enc))

(* ra_close is called whether or not msg4 was accepted.                    *)
RemoteAttestation3(p, e) ==
  /\ ToRun("RA3", p)
  /\ IF DecryptsMsg4(p, e)
       THEN /\ enclave' = [enclave EXCEPT ![e] = Attested(@)]
            /\ TaskReturns(p, [executor |-> e, incarnation |-> enclave[e].incarnation])
       ELSE SetSession(e, NoSession) /\ TaskThrows(p)
  /\ UNCHANGED <<driverVars, nonce, budgetVars>>

(* ska is set and InitPairing throws.                                      *)
InitPairingThrows(p, e) ==
  /\ ToRun("RA3", p)
  /\ DecryptsMsg4(p, e)
  /\ faults < MaxFaults
  /\ faults' = faults + 1
  /\ enclave' = [enclave EXCEPT ![e] = SetSka(@)]
  /\ TaskThrows(p)
  /\ UNCHANGED <<driverVars, nonce, restarts>>

---------------------------------------------------------------------------
(* The environment. *)

(* A call into an enclave fails before it changes anything.                *)
TaskFault(p) ==
  /\ \E job \in Jobs : ToRun(job, p)
  /\ faults < MaxFaults
  /\ faults' = faults + 1
  /\ TaskThrows(p)
  /\ UNCHANGED <<driverVars, enclave, nonce, restarts>>

(* An executor comes back with a new enclave.                              *)
RestartExecutor(e) ==
  /\ restarts < MaxRestarts
  /\ restarts' = restarts + 1
  /\ enclave' = [enclave EXCEPT ![e] = NewEnclave(@.incarnation + 1)]
  /\ UNCHANGED <<pc, attempt, driverVars, results, failures, nonce, faults>>

DriverStep == QInit \/ ProcMsg0 \/ ProcMsg1 \/ ProcMsg3 \/ AllAttested

TaskStep(p) ==
  \E e \in Executors :
     \/ RemoteAttestation0(p, e) \/ RemoteAttestation1(p, e)
     \/ RemoteAttestation2(p, e) \/ RemoteAttestation3(p, e)

Next ==
  \/ DriverStep
  \/ QInitThrows
  \/ ProcMsg3Throws
  \/ \E p \in Partitions :
       \/ ProcMsg1Throws(p)
       \/ TaskStep(p)
       \/ TaskFault(p)
       \/ \E e \in Executors : InitPairingThrows(p, e)
  \/ \E e \in Executors : RestartExecutor(e)

Spec == Init /\ [][Next]_vars

(* The driver thread runs on, and the scheduler runs every task somewhere. *)
FairSpec ==
  /\ Spec
  /\ WF_vars(DriverStep)
  /\ \A p \in Partitions : WF_vars(TaskStep(p))

---------------------------------------------------------------------------
SessionType == [state : {"none", "inited", "g_a", "g_b", "msg2", "msg4"},
                g_a : Nat, g_b : Nat]

(* The type invariant. *)
TypeOK ==
  /\ pc \in Jobs \cup {"QInit", "done", "failed"}
  /\ attempt \in 1 .. MaxAttempts
  /\ g_e_sk \in 0 .. attempt
  /\ sp_db \in SessionType
  /\ msgs \in [Partitions -> SessionType]
  /\ DOMAIN results \subseteq Partitions
  /\ failures \in [Partitions -> 0 .. MaxTaskFailures - 1]
  /\ enclave \in [Executors -> [incarnation : Nat, session : SessionType,
                                keygens : Nat, sk_a : Nat, sk_b : Nat,
                                rdd_ks : BOOLEAN]]
  /\ nonce \in Nat
  /\ faults \in 0 .. MaxFaults
  /\ restarts \in 0 .. MaxRestarts

(* The executors whose enclave initRA attested, if it has not restarted.   *)
AttestedExecutors ==
  {e \in Executors : \E p \in Partitions :
     results[p] = [executor |-> e, incarnation |-> enclave[e].incarnation]}

(* What erec reconstructs: the two halves must be of one pair.             *)
Reconstructs(e, key) == enclave[e].sk_a = key /\ enclave[e].sk_b = key

(* With one sp_db the attestation never succeeds for several partitions,   *)
(* wherever their tasks run and however often it is tried: this answers    *)
(* the question of the comment in initRA.                                  *)
SeveralPartitionsNeverSucceed == NumPartitions > 1 => pc \notin {"RA3", "done"}

(* When initRA returns, the enclave it attested holds the RDD key and both *)
(* halves of one key pair: whatever an earlier attempt left behind in it,  *)
(* ac_policy_applied finds the component of its sk_b in sk_a.              *)
AttestedCanReconstruct ==
  pc = "done" => \A e \in AttestedExecutors :
                    enclave[e].rdd_ks /\ \E key \in 1 .. MaxAttempts : Reconstructs(e, key)

(* When initRA returns without having been retried, the enclave it         *)
(* attested reconstructs the key the owner encrypts with, even if tasks of *)
(* its jobs failed and executors restarted on the way.                     *)
KeysAgreeIfNotRetried ==
  pc = "done" /\ attempt = 1 => \A e \in AttestedExecutors : Reconstructs(e, g_e_sk)

(* The claim of Crypto.cpp that the key is shared with an enclave if its   *)
(* attestation succeeds. It fails after a retry: QInit has drawn a second  *)
(* key pair, and InitPairing draws the first.                              *)
KeysAgree ==
  pc = "done" => \A e \in AttestedExecutors : Reconstructs(e, g_e_sk)

(* initRA returns or throws.                                               *)
Termination == <>(pc \in {"done", "failed"})
=============================================================================
