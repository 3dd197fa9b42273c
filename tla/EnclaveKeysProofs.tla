-------------------------- MODULE EnclaveKeysProofs --------------------------
(***************************************************************************)
(* Proofs about the keys of an enclave: how the remote attestation brings  *)
(* them into it, for any number of executors, partitions, attempts,        *)
(* failures and restarts; and how the tasks use the key schedule made from *)
(* them, for any number of tasks, cores, blocks and failures. A task that  *)
(* opens a block finds a schedule that has not been deleted, and on one    *)
(* core it keeps it until the block is finished.                           *)
(***************************************************************************)
EXTENDS Attestation, KeySchedule, FiniteSetTheorems, TLAPS

(* The remote attestation. *)

USE AttestationAssumption

---------------------------------------------------------------------------
(* Types. *)

(* Results are typed by the job that collects them, and the service        *)
(* provider has drawn once for every attempt begun.                        *)
ResultsTyped ==
  pc \in {"RA0", "RA1", "RA2"} => \A p \in DOMAIN results : results[p] \in SessionType

OneDrawPerAttempt == g_e_sk = IF pc = "QInit" THEN attempt - 1 ELSE attempt

TypeInv == TypeOK /\ ResultsTyped /\ OneDrawPerAttempt

(* The type invariant and its strengthening hold initially. *)
LEMMA TypeInit == Init => TypeInv
BY DEF Init, TypeInv, TypeOK, ResultsTyped, OneDrawPerAttempt, NewEnclave, NoSession,
       SessionType, Jobs

(* What an attempt that throws does to the driver's types. *)
LEMMA AttemptThrowsTypes ==
  ASSUME TypeInv, AttemptThrows,
         g_e_sk' = attempt
  PROVE  /\ pc' \in {"QInit", "failed"}
         /\ attempt' \in 1 .. MaxAttempts
         /\ g_e_sk' \in 0 .. attempt'
         /\ DOMAIN results' \subseteq Partitions
         /\ failures' \in [Partitions -> 0 .. MaxTaskFailures - 1]
         /\ ResultsTyped' /\ OneDrawPerAttempt'
BY DEF AttemptThrows, TypeInv, TypeOK, ResultsTyped, OneDrawPerAttempt

(* The same for a task that throws. *)
LEMMA TaskThrowsTypes ==
  ASSUME TypeInv, NEW p \in Partitions, TaskThrows(p), g_e_sk' = g_e_sk,
         pc \in Jobs
  PROVE  /\ pc' \in Jobs \cup {"QInit", "failed"}
         /\ attempt' \in 1 .. MaxAttempts
         /\ g_e_sk' \in 0 .. attempt'
         /\ DOMAIN results' \subseteq Partitions
         /\ failures' \in [Partitions -> 0 .. MaxTaskFailures - 1]
         /\ ResultsTyped' /\ OneDrawPerAttempt'
<1>1. g_e_sk' = attempt
  BY DEF TypeInv, OneDrawPerAttempt, Jobs
<1>2. CASE failures[p] + 1 < MaxTaskFailures
  BY <1>2 DEF TaskThrows, TypeInv, TypeOK, ResultsTyped, OneDrawPerAttempt
<1>3. CASE ~ (failures[p] + 1 < MaxTaskFailures)
  BY <1>1, <1>3, AttemptThrowsTypes DEF TaskThrows
<1> QED
  BY <1>2, <1>3

(* The same for a task that returns. *)
LEMMA TaskReturnsTypes ==
  ASSUME TypeInv, NEW p \in Partitions, NEW result, TaskReturns(p, result),
         g_e_sk' = g_e_sk, pc \in Jobs,
         pc = "RA3" \/ result \in SessionType
  PROVE  /\ pc' \in Jobs
         /\ attempt' \in 1 .. MaxAttempts
         /\ g_e_sk' \in 0 .. attempt'
         /\ DOMAIN results' \subseteq Partitions
         /\ failures' \in [Partitions -> 0 .. MaxTaskFailures - 1]
         /\ ResultsTyped' /\ OneDrawPerAttempt'
BY DEF TaskReturns, TypeInv, TypeOK, ResultsTyped, OneDrawPerAttempt

(* And for a job that starts. *)
LEMMA StartJobTypes ==
  ASSUME TypeInv, NEW ra \in Jobs, StartJob(ra), g_e_sk' = attempt
  PROVE  /\ pc' \in Jobs
         /\ attempt' \in 1 .. MaxAttempts
         /\ g_e_sk' \in 0 .. attempt'
         /\ DOMAIN results' \subseteq Partitions
         /\ failures' \in [Partitions -> 0 .. MaxTaskFailures - 1]
         /\ ResultsTyped' /\ OneDrawPerAttempt'
BY DEF StartJob, TypeInv, TypeOK, ResultsTyped, OneDrawPerAttempt, Jobs

(* Replacing the session of an enclave keeps the type of the enclaves. *)
LEMMA SetSessionTypes ==
  ASSUME TypeInv, NEW e \in Executors, NEW session \in SessionType,
         SetSession(e, session)
  PROVE  enclave' \in [Executors -> [incarnation : Nat, session : SessionType,
                                     keygens : Nat, sk_a : Nat, sk_b : Nat,
                                     rdd_ks : BOOLEAN]]
BY DEF SetSession, TypeInv, TypeOK

EnclaveType == [incarnation : Nat, session : SessionType, keygens : Nat,
                sk_a : Nat, sk_b : Nat, rdd_ks : BOOLEAN]

(* InitPairing on an enclave of the right type. *)
LEMMA InitPairingType ==
  ASSUME NEW enc \in EnclaveType
  PROVE  InitPairing(enc) \in EnclaveType
<1>1. enc.keygens + 1 \in Nat
  BY DEF EnclaveType
<1> QED
  BY <1>1 DEF InitPairing, EnclaveType

(* set_ska on an enclave of the right type. *)
LEMMA SetSkaType ==
  ASSUME NEW enc \in EnclaveType, g_e_sk \in Nat
  PROVE  /\ SetSka(enc) \in EnclaveType
         /\ SetSka(enc).keygens = enc.keygens
         /\ SetSka(enc).incarnation = enc.incarnation
<1>1. NoSession \in SessionType
  BY DEF NoSession, SessionType
<1> QED
  BY <1>1 DEF SetSka, EnclaveType

(* What InitPairing sets: the pair is the next one drawn.                  *)
LEMMA InitPairingDraws ==
  ASSUME NEW enc \in EnclaveType
  PROVE  /\ InitPairing(enc).sk_a = enc.keygens + 1
         /\ InitPairing(enc).sk_b = enc.keygens + 1
         /\ InitPairing(enc).incarnation = enc.incarnation
BY DEF InitPairing, EnclaveType

(* Every step keeps the types. *)
LEMMA TypeStep ==
  ASSUME TypeInv, [Next]_vars
  PROVE  TypeInv'
<1> USE DEF driverVars, budgetVars
<1>1. CASE QInit
  <2>1. g_e_sk' = attempt /\ StartJob("RA0")
    BY <1>1 DEF QInit, TypeInv, TypeOK, OneDrawPerAttempt
  <2> QED
    BY <1>1, <2>1, StartJobTypes DEF QInit, Jobs, TypeInv, TypeOK
<1>2. CASE QInitThrows
  <2>1. g_e_sk' = attempt /\ AttemptThrows
    BY <1>2 DEF QInitThrows, TypeInv, TypeOK, OneDrawPerAttempt
  <2> QED
    BY <1>2, <2>1, AttemptThrowsTypes DEF QInitThrows, TypeInv, TypeOK
<1>3. CASE ProcMsg0
  <2>1. g_e_sk' = attempt /\ StartJob("RA1")
    BY <1>3 DEF ProcMsg0, Collected, TypeInv, OneDrawPerAttempt
  <2> QED
    BY <1>3, <2>1, StartJobTypes DEF ProcMsg0, Jobs, TypeInv, TypeOK
<1>4. CASE ProcMsg1
  <2>1. g_e_sk' = attempt /\ StartJob("RA2")
    BY <1>4 DEF ProcMsg1, Collected, TypeInv, OneDrawPerAttempt
  <2>2. \A p \in Partitions : results[p] \in SessionType
    BY <1>4 DEF ProcMsg1, Collected, TypeInv, ResultsTyped
  <2>3. nonce' \in Nat /\ \A p \in Partitions : nonce + p \in Nat
    BY <1>4 DEF ProcMsg1, TypeInv, TypeOK, Partitions
  <2>4. msgs' \in [Partitions -> SessionType]
    BY <1>4, <2>2, <2>3 DEF ProcMsg1, SessionType
  <2>5. sp_db' \in SessionType
    BY <1>4, <2>4 DEF ProcMsg1, Partitions
  <2> QED
    BY <1>4, <2>1, <2>3, <2>4, <2>5, StartJobTypes DEF ProcMsg1, Jobs, TypeInv, TypeOK
<1>5. CASE ProcMsg3
  <2>0. g_e_sk' = attempt
    BY <1>5 DEF ProcMsg3, Collected, TypeInv, OneDrawPerAttempt
  <2>1. CASE \A p \in Partitions : AcceptsMsg3(results[p])
    <3>1. \A p \in Partitions : results[p] \in SessionType
      BY <1>5 DEF ProcMsg3, Collected, TypeInv, ResultsTyped
    <3>2. msgs' \in [Partitions -> SessionType]
      BY <1>5, <2>1, <3>1 DEF ProcMsg3, SessionType
    <3> QED
      BY <1>5, <2>0, <2>1, <3>2, StartJobTypes DEF ProcMsg3, Jobs, TypeInv, TypeOK
  <2>2. CASE ~ \A p \in Partitions : AcceptsMsg3(results[p])
    BY <1>5, <2>0, <2>2, AttemptThrowsTypes DEF ProcMsg3, TypeInv, TypeOK
  <2> QED
    BY <2>1, <2>2
<1>6. CASE AllAttested
  BY <1>6 DEF AllAttested, Collected, TypeInv, TypeOK, ResultsTyped, OneDrawPerAttempt
<1>7. ASSUME NEW p \in Partitions, NEW e \in Executors, RemoteAttestation0(p, e)
      PROVE  TypeInv'
  <2>1. NoSession \in SessionType /\ [NoSession EXCEPT !.state = "inited"] \in SessionType
    BY DEF NoSession, SessionType
  <2> QED
    BY <1>7, <2>1, TaskReturnsTypes, SetSessionTypes
    DEF RemoteAttestation0, ToRun, Jobs, TypeInv, TypeOK
<1>8. ASSUME NEW p \in Partitions, NEW e \in Executors, RemoteAttestation1(p, e)
      PROVE  TypeInv'
  <2>0. nonce + 1 \in Nat
    BY DEF TypeInv, TypeOK
  <2>1. [NoSession EXCEPT !.state = "g_a", !.g_a = nonce + 1] \in SessionType
    BY <2>0 DEF NoSession, SessionType
  <2>2. CASE enclave[e].session.state = "inited"
    BY <1>8, <2>1, <2>2, TaskReturnsTypes, SetSessionTypes
    DEF RemoteAttestation1, ToRun, Jobs, TypeInv, TypeOK
  <2>3. CASE enclave[e].session.state # "inited"
    BY <1>8, <2>3, TaskThrowsTypes DEF RemoteAttestation1, ToRun, Jobs, TypeInv, TypeOK
  <2> QED
    BY <2>2, <2>3
<1>9. ASSUME NEW p \in Partitions, NEW e \in Executors, RemoteAttestation2(p, e)
      PROVE  TypeInv'
  <2>1. [enclave[e].session EXCEPT !.state = "g_b", !.g_b = msgs[p].g_b] \in SessionType
    BY DEF SessionType, TypeInv, TypeOK
  <2>2. CASE enclave[e].session.state = "g_a" /\ enclave[e].session.g_a = msgs[p].g_a
    BY <1>9, <2>1, <2>2, TaskReturnsTypes, SetSessionTypes
    DEF RemoteAttestation2, ToRun, Jobs, TypeInv, TypeOK
  <2>3. CASE ~ (enclave[e].session.state = "g_a" /\ enclave[e].session.g_a = msgs[p].g_a)
    BY <1>9, <2>3, TaskThrowsTypes DEF RemoteAttestation2, ToRun, Jobs, TypeInv, TypeOK
  <2> QED
    BY <2>2, <2>3
<1>10. ASSUME NEW p \in Partitions, NEW e \in Executors, RemoteAttestation3(p, e)
       PROVE  TypeInv'
  <2>0. NoSession \in SessionType /\ g_e_sk \in Nat
    BY DEF NoSession, SessionType, TypeInv, TypeOK
  <2>1. CASE DecryptsMsg4(p, e)
    <3>1. enclave' \in [Executors -> [incarnation : Nat, session : SessionType,
                                      keygens : Nat, sk_a : Nat, sk_b : Nat,
                                      rdd_ks : BOOLEAN]]
      <4>1. SetSka(enclave[e]) \in EnclaveType
        BY <2>0 DEF SetSka, EnclaveType, TypeInv, TypeOK
      <4>2. Attested(enclave[e]) \in EnclaveType
        BY <4>1, InitPairingType DEF Attested
      <4> QED
        BY <1>10, <2>1, <4>2 DEF RemoteAttestation3, EnclaveType, TypeInv, TypeOK
    <3> QED
      BY <1>10, <2>1, <3>1, TaskReturnsTypes
      DEF RemoteAttestation3, ToRun, Jobs, TypeInv, TypeOK
  <2>2. CASE ~ DecryptsMsg4(p, e)
    BY <1>10, <2>0, <2>2, TaskThrowsTypes, SetSessionTypes
    DEF RemoteAttestation3, ToRun, Jobs, TypeInv, TypeOK
  <2> QED
    BY <2>1, <2>2
<1>11. ASSUME NEW p \in Partitions, NEW e \in Executors, InitPairingThrows(p, e)
       PROVE  TypeInv'
  <2>0. NoSession \in SessionType /\ g_e_sk \in Nat
    BY DEF NoSession, SessionType, TypeInv, TypeOK
  <2>1. enclave' \in [Executors -> [incarnation : Nat, session : SessionType,
                                    keygens : Nat, sk_a : Nat, sk_b : Nat,
                                    rdd_ks : BOOLEAN]]
    BY <1>11, <2>0 DEF InitPairingThrows, SetSka, TypeInv, TypeOK
  <2> QED
    BY <1>11, <2>1, TaskThrowsTypes DEF InitPairingThrows, ToRun, Jobs, TypeInv, TypeOK
<1>12. ASSUME NEW p \in Partitions, TaskFault(p)
       PROVE  TypeInv'
  BY <1>12, TaskThrowsTypes DEF TaskFault, ToRun, Jobs, TypeInv, TypeOK
<1>13. ASSUME NEW e \in Executors, RestartExecutor(e)
       PROVE  TypeInv'
  BY <1>13 DEF RestartExecutor, NewEnclave, NoSession, SessionType, TypeInv, TypeOK,
               ResultsTyped, OneDrawPerAttempt
<1>14. ASSUME NEW p \in Partitions, ProcMsg1Throws(p)
       PROVE  TypeInv'
  <2>1. g_e_sk' = attempt /\ AttemptThrows
    BY <1>14 DEF ProcMsg1Throws, Collected, TypeInv, OneDrawPerAttempt
  <2>2. results[p] \in SessionType
    BY <1>14 DEF ProcMsg1Throws, Collected, TypeInv, ResultsTyped
  <2>3. nonce + p \in Nat
    BY DEF TypeInv, TypeOK, Partitions
  <2>4. sp_db' \in SessionType
    BY <1>14, <2>2, <2>3 DEF ProcMsg1Throws, SessionType
  <2> QED
    BY <1>14, <2>1, <2>3, <2>4, AttemptThrowsTypes DEF ProcMsg1Throws, TypeInv, TypeOK
<1>15. CASE ProcMsg3Throws
  <2>1. g_e_sk' = attempt /\ AttemptThrows
    BY <1>15 DEF ProcMsg3Throws, Collected, TypeInv, OneDrawPerAttempt
  <2> QED
    BY <1>15, <2>1, AttemptThrowsTypes DEF ProcMsg3Throws, TypeInv, TypeOK
<1>16. CASE UNCHANGED vars
  BY <1>16 DEF vars, TypeInv, TypeOK, ResultsTyped, OneDrawPerAttempt
<1> QED
  BY <1>1, <1>2, <1>3, <1>4, <1>5, <1>6, <1>7, <1>8, <1>9, <1>10, <1>11, <1>12,
     <1>13, <1>14, <1>15, <1>16
  DEF Next, DriverStep, TaskStep

(* The type invariant of the attestation, whose part on g_e_sk bounds the  *)
(* key pairs the owner draws by the attempts.                              *)
THEOREM AttestationTypeCorrect == Spec => []TypeOK
<1>1. TypeInv => TypeOK
  BY DEF TypeInv
<1> QED
  BY <1>1, TypeInit, TypeStep, PTL DEF Spec

---------------------------------------------------------------------------
(* One exchange. *)

(* What the exchange with several partitions depends on: the g_a of two    *)
(* msg1 differ, sp_db is the exchange of the last msg1, and a msg3 carries *)
(* the g_a of its own msg1.                                                *)
NonceInv ==
  /\ nonce \in Nat
  /\ pc = "RA1" => /\ DOMAIN results \subseteq Partitions
                   /\ \A p \in DOMAIN results : results[p].g_a \in 1 .. nonce
                   /\ \A p, q \in DOMAIN results :
                         results[p].g_a = results[q].g_a => p = q

ExchangeInv ==
  pc = "RA2" => /\ \A p, q \in Partitions : msgs[p].g_a = msgs[q].g_a => p = q
                /\ sp_db.g_a = msgs[NumPartitions].g_a
                /\ \A p \in DOMAIN results : results[p].g_a = msgs[p].g_a

(* The strengthening of SeveralPartitionsNeverSucceed that is inductive.   *)
OneExchange == NonceInv /\ ExchangeInv /\ SeveralPartitionsNeverSucceed

(* A task that throws leaves the job or changes only its failure count.    *)
LEMMA ThrowsStaysOrLeaves ==
  ASSUME NEW p, TaskThrows(p)
  PROVE  /\ results' = results
         /\ pc' = pc \/ pc' \in {"QInit", "failed"}
BY DEF TaskThrows, AttemptThrows

(* OneExchange holds initially. *)
LEMMA OneExchangeInit == Init => OneExchange
BY DEF Init, OneExchange, NonceInv, ExchangeInv, SeveralPartitionsNeverSucceed

(* A step that keeps the driver's messages, the results and the nonce, and *)
(* stays in the job or goes back to QInit, keeps OneExchange.              *)
LEMMA OneExchangeKept ==
  ASSUME OneExchange, UNCHANGED <<results, sp_db, msgs, nonce>>,
         pc' = pc \/ pc' \in {"QInit", "failed", "RA0"}
  PROVE  OneExchange'
BY DEF OneExchange, NonceInv, ExchangeInv, SeveralPartitionsNeverSucceed, Partitions

(* Every step keeps OneExchange. *)
LEMMA OneExchangeStep ==
  ASSUME TypeInv, OneExchange, [Next]_vars
  PROVE  OneExchange'
<1> USE DEF driverVars, budgetVars
<1>1. CASE QInit
  BY <1>1 DEF QInit, StartJob, OneExchange, NonceInv, ExchangeInv,
              SeveralPartitionsNeverSucceed
<1>2. CASE QInitThrows
  BY <1>2, OneExchangeKept DEF QInitThrows, AttemptThrows
<1>3. CASE ProcMsg0
  BY <1>3 DEF ProcMsg0, StartJob, OneExchange, NonceInv, ExchangeInv,
              SeveralPartitionsNeverSucceed
<1>4. CASE ProcMsg1
  <2>1. /\ pc = "RA1" /\ pc' = "RA2" /\ results' = <<>> /\ nonce' = nonce + NumPartitions
        /\ msgs' = [p \in Partitions |->
                      [state |-> "msg2", g_a |-> results[p].g_a, g_b |-> nonce + p]]
        /\ sp_db' = msgs'[NumPartitions]
        /\ DOMAIN results = Partitions
    BY <1>4 DEF ProcMsg1, StartJob, Collected
  <2>2. \A p \in Partitions : msgs'[p].g_a = results[p].g_a
    BY <2>1
  <2>3. \A p, q \in Partitions : msgs'[p].g_a = msgs'[q].g_a => p = q
    BY <2>1, <2>2 DEF OneExchange, NonceInv
  <2> QED
    BY <2>1, <2>3 DEF OneExchange, NonceInv, ExchangeInv, SeveralPartitionsNeverSucceed
<1>5. CASE ProcMsg3
  <2>1. CASE \A p \in Partitions : AcceptsMsg3(results[p])
    <3>1. /\ pc = "RA2" /\ pc' = "RA3" /\ nonce' = nonce
          /\ DOMAIN results = Partitions
      BY <1>5, <2>1 DEF ProcMsg3, StartJob, Collected
    <3>2. 1 \in Partitions /\ NumPartitions \in Partitions
      BY DEF Partitions
    <3>3. results[1].g_a = sp_db.g_a
      BY <2>1, <3>2 DEF AcceptsMsg3
    <3>4. NumPartitions = 1
      BY <3>1, <3>2, <3>3 DEF OneExchange, ExchangeInv
    <3> QED
      BY <3>1, <3>4 DEF OneExchange, NonceInv, ExchangeInv, SeveralPartitionsNeverSucceed
  <2>2. CASE ~ \A p \in Partitions : AcceptsMsg3(results[p])
    BY <1>5, <2>2, OneExchangeKept DEF ProcMsg3, AttemptThrows
  <2> QED
    BY <2>1, <2>2
<1>6. CASE AllAttested
  BY <1>6 DEF AllAttested, Collected, OneExchange, NonceInv, ExchangeInv,
              SeveralPartitionsNeverSucceed
<1>7. ASSUME NEW p \in Partitions, NEW e \in Executors, RemoteAttestation0(p, e)
      PROVE  OneExchange'
  BY <1>7 DEF RemoteAttestation0, ToRun, TaskReturns, OneExchange, NonceInv,
              ExchangeInv, SeveralPartitionsNeverSucceed
<1>8. ASSUME NEW p \in Partitions, NEW e \in Executors, RemoteAttestation1(p, e)
      PROVE  OneExchange'
  <2>1. CASE enclave[e].session.state = "inited"
    <3> DEFINE session == [NoSession EXCEPT !.state = "g_a", !.g_a = nonce + 1]
    <3>1. session.g_a = nonce + 1
      BY DEF NoSession
    <3>2. /\ pc = "RA1" /\ p \notin DOMAIN results
          /\ nonce' = nonce + 1
          /\ results' = [q \in DOMAIN results \cup {p} |->
                           IF q = p THEN session ELSE results[q]]
          /\ pc' = pc
      BY <1>8, <2>1 DEF RemoteAttestation1, ToRun, TaskReturns
    <3> HIDE DEF session
    <3>3. /\ DOMAIN results' = DOMAIN results \cup {p}
          /\ results'[p].g_a = nonce + 1
          /\ \A q \in DOMAIN results : results'[q] = results[q]
      BY <3>1, <3>2
    <3>4. /\ nonce \in Nat
          /\ DOMAIN results \subseteq Partitions
          /\ \A q \in DOMAIN results : results[q].g_a \in 1 .. nonce
          /\ \A q, s \in DOMAIN results : results[q].g_a = results[s].g_a => q = s
      BY <3>2 DEF OneExchange, NonceInv
    <3>5. \A q \in DOMAIN results' : results'[q].g_a \in 1 .. nonce'
      BY <3>2, <3>3, <3>4
    <3>6. \A q, s \in DOMAIN results' : results'[q].g_a = results'[s].g_a => q = s
      <4>1. \A q \in DOMAIN results : results'[q].g_a # nonce + 1
        BY <3>3, <3>4
      <4> QED
        BY <4>1, <3>3, <3>4
    <3> QED
      BY <3>2, <3>3, <3>4, <3>5, <3>6
      DEF OneExchange, NonceInv, ExchangeInv, SeveralPartitionsNeverSucceed
  <2>2. CASE enclave[e].session.state # "inited"
    BY <1>8, <2>2, ThrowsStaysOrLeaves, OneExchangeKept DEF RemoteAttestation1
  <2> QED
    BY <2>1, <2>2
<1>9. ASSUME NEW p \in Partitions, NEW e \in Executors, RemoteAttestation2(p, e)
      PROVE  OneExchange'
  <2>1. CASE enclave[e].session.state = "g_a" /\ enclave[e].session.g_a = msgs[p].g_a
    <3> DEFINE session == [enclave[e].session EXCEPT !.state = "g_b", !.g_b = msgs[p].g_b]
    <3>1. session.g_a = msgs[p].g_a
      BY <2>1 DEF TypeInv, TypeOK, SessionType
    <3>2. /\ pc = "RA2" /\ p \notin DOMAIN results
          /\ UNCHANGED <<nonce, msgs, sp_db>>
          /\ results' = [q \in DOMAIN results \cup {p} |->
                           IF q = p THEN session ELSE results[q]]
          /\ pc' = pc
      BY <1>9, <2>1 DEF RemoteAttestation2, ToRun, TaskReturns
    <3> HIDE DEF session
    <3> QED
      BY <3>1, <3>2
      DEF OneExchange, NonceInv, ExchangeInv, SeveralPartitionsNeverSucceed
  <2>2. CASE ~ (enclave[e].session.state = "g_a" /\ enclave[e].session.g_a = msgs[p].g_a)
    BY <1>9, <2>2, ThrowsStaysOrLeaves, OneExchangeKept DEF RemoteAttestation2
  <2> QED
    BY <2>1, <2>2
<1>10. ASSUME NEW p \in Partitions, NEW e \in Executors, RemoteAttestation3(p, e)
       PROVE  OneExchange'
  <2>1. CASE DecryptsMsg4(p, e)
    BY <1>10, <2>1 DEF RemoteAttestation3, ToRun, TaskReturns, OneExchange, NonceInv,
                       ExchangeInv, SeveralPartitionsNeverSucceed
  <2>2. CASE ~ DecryptsMsg4(p, e)
    BY <1>10, <2>2, ThrowsStaysOrLeaves, OneExchangeKept DEF RemoteAttestation3
  <2> QED
    BY <2>1, <2>2
<1>11. ASSUME NEW p \in Partitions, NEW e \in Executors, InitPairingThrows(p, e)
       PROVE  OneExchange'
  BY <1>11, ThrowsStaysOrLeaves, OneExchangeKept DEF InitPairingThrows
<1>12. ASSUME NEW p \in Partitions, TaskFault(p)
       PROVE  OneExchange'
  BY <1>12, ThrowsStaysOrLeaves, OneExchangeKept DEF TaskFault
<1>13. ASSUME NEW e \in Executors, RestartExecutor(e)
       PROVE  OneExchange'
  BY <1>13, OneExchangeKept DEF RestartExecutor
<1>14. ASSUME NEW p \in Partitions, ProcMsg1Throws(p)
       PROVE  OneExchange'
  <2>1. pc' \in {"QInit", "failed"}
    BY <1>14 DEF ProcMsg1Throws, AttemptThrows
  <2>2. nonce' \in Nat
    BY <1>14 DEF ProcMsg1Throws, TypeInv, TypeOK, Partitions
  <2> QED
    BY <2>1, <2>2 DEF OneExchange, NonceInv, ExchangeInv, SeveralPartitionsNeverSucceed
<1>15. CASE ProcMsg3Throws
  BY <1>15, OneExchangeKept DEF ProcMsg3Throws, AttemptThrows
<1>16. CASE UNCHANGED vars
  BY <1>16, OneExchangeKept DEF vars
<1> QED
  BY <1>1, <1>2, <1>3, <1>4, <1>5, <1>6, <1>7, <1>8, <1>9, <1>10, <1>11, <1>12,
     <1>13, <1>14, <1>15, <1>16
  DEF Next, DriverStep, TaskStep

(* With more than one partition the attestation never gets as far as a     *)
(* msg4, whatever the tasks, the scheduler and the retries do.             *)
THEOREM OnePartitionOnly == Spec => []SeveralPartitionsNeverSucceed
<1>1. OneExchange => SeveralPartitionsNeverSucceed
  BY DEF OneExchange
<1> QED
  BY <1>1, TypeInit, TypeStep, OneExchangeInit, OneExchangeStep, PTL DEF Spec

---------------------------------------------------------------------------
(* The keys of the attested enclave. *)

(* No enclave draws a second key pair in one attempt, and none draws one   *)
(* before the one task that attests it.                                    *)
OneDrawPerAttestation ==
  (pc \in {"RA3", "done"} => DOMAIN results = {})
    => \A e \in Executors : enclave[e].keygens < attempt

HoldsPair(e, keys) ==
  enclave[e].rdd_ks /\ \E key \in 1 .. keys : Reconstructs(e, key)

(* What a task of the last job returned names an enclave that, unless it   *)
(* has been restarted since, holds the RDD key and both halves of a key    *)
(* pair, which is one of the first if there were few attempts.             *)
AttestedHoldsPair ==
  pc \in {"RA3", "done"} =>
    \A p \in DOMAIN results : \E e \in Executors, i \in Nat :
       /\ results[p] = [executor |-> e, incarnation |-> i]
       /\ i <= enclave[e].incarnation
       /\ i = enclave[e].incarnation => HoldsPair(e, attempt)

(* initRA returns when every task of its last job has returned.            *)
AllReported == pc = "done" => DOMAIN results = Partitions

(* The strengthening of AttestedCanReconstruct and KeysAgreeIfNotRetried   *)
(* that is inductive, together with the invariants above.                  *)
KeyInv == OneDrawPerAttestation /\ AttestedHoldsPair /\ AllReported

(* KeyInv holds initially. *)
LEMMA KeyInvInit == Init => KeyInv
BY DEF Init, KeyInv, OneDrawPerAttestation, AttestedHoldsPair, AllReported, NewEnclave

(* The last job has a single task.                                         *)
LEMMA LastJobHasOneTask ==
  ASSUME TypeInv, OneExchange, NEW p \in Partitions, ToRun("RA3", p)
  PROVE  DOMAIN results = {} /\ Partitions = {p}
<1>1. Partitions = {1}
  BY DEF ToRun, OneExchange, SeveralPartitionsNeverSucceed, Partitions
<1>2. Partitions = {p}
  BY <1>1
<1>3. p \notin DOMAIN results
  BY DEF ToRun
<1>4. DOMAIN results \subseteq Partitions
  BY DEF TypeInv, TypeOK
<1> QED
  BY <1>2, <1>3, <1>4

(* A step that draws no key pair and leaves the last job alone or has no   *)
(* results in it keeps KeyInv.                                          *)
LEMMA KeyInvKept ==
  ASSUME TypeInv, KeyInv,
         attempt' = attempt \/ attempt' = attempt + 1,
         \A e \in Executors : /\ enclave'[e].keygens = enclave[e].keygens
                              /\ enclave'[e].incarnation = enclave[e].incarnation,
         \/ pc \notin {"RA3", "done"} /\ pc' \notin {"RA3", "done"}
         \/ DOMAIN results = {} /\ DOMAIN results' = {} /\ pc' # "done"
  PROVE  KeyInv'
<1>1. \A e \in Executors : enclave[e].keygens < attempt => enclave'[e].keygens < attempt'
  BY DEF TypeInv, TypeOK
<1> QED
  BY <1>1 DEF KeyInv, OneDrawPerAttestation, AttestedHoldsPair, AllReported

(* A throwing attempt counts. *)
LEMMA ThrowsCounts ==
  ASSUME NEW p, TaskThrows(p)
  PROVE  attempt' = attempt \/ attempt' = attempt + 1
BY DEF TaskThrows, AttemptThrows

(* Every step keeps KeyInv. *)
LEMMA KeyInvStep ==
  ASSUME TypeInv, OneExchange, KeyInv, [Next]_vars
  PROVE  KeyInv'
<1> USE DEF driverVars, budgetVars
<1>1. CASE QInit
  BY <1>1, KeyInvKept DEF QInit, StartJob
<1>2. CASE QInitThrows
  BY <1>2, KeyInvKept DEF QInitThrows, AttemptThrows
<1>3. CASE ProcMsg0
  BY <1>3, KeyInvKept DEF ProcMsg0, StartJob, Collected
<1>4. CASE ProcMsg1
  BY <1>4, KeyInvKept DEF ProcMsg1, StartJob, Collected
<1>5. CASE ProcMsg3
  <2>1. CASE \A p \in Partitions : AcceptsMsg3(results[p])
    BY <1>5, <2>1 DEF ProcMsg3, StartJob, Collected, KeyInv, OneDrawPerAttestation,
                      AttestedHoldsPair, AllReported
  <2>2. CASE ~ \A p \in Partitions : AcceptsMsg3(results[p])
    BY <1>5, <2>2, KeyInvKept DEF ProcMsg3, Collected, AttemptThrows
  <2> QED
    BY <2>1, <2>2
<1>6. CASE AllAttested
  BY <1>6 DEF AllAttested, Collected, KeyInv, OneDrawPerAttestation, AttestedHoldsPair,
              AllReported, HoldsPair, Reconstructs
<1>7. ASSUME NEW p \in Partitions, NEW e \in Executors, RemoteAttestation0(p, e)
      PROVE  KeyInv'
  <2>1. \A f \in Executors : /\ enclave'[f].keygens = enclave[f].keygens
                             /\ enclave'[f].incarnation = enclave[f].incarnation
    BY <1>7 DEF RemoteAttestation0, SetSession, TypeInv, TypeOK
  <2> QED
    BY <1>7, <2>1, KeyInvKept DEF RemoteAttestation0, ToRun, TaskReturns
<1>8. ASSUME NEW p \in Partitions, NEW e \in Executors, RemoteAttestation1(p, e)
      PROVE  KeyInv'
  <2>1. \A f \in Executors : /\ enclave'[f].keygens = enclave[f].keygens
                             /\ enclave'[f].incarnation = enclave[f].incarnation
    BY <1>8 DEF RemoteAttestation1, SetSession, TypeInv, TypeOK
  <2> QED
    BY <1>8, <2>1, KeyInvKept, ThrowsCounts, ThrowsStaysOrLeaves
    DEF RemoteAttestation1, ToRun, TaskReturns
<1>9. ASSUME NEW p \in Partitions, NEW e \in Executors, RemoteAttestation2(p, e)
      PROVE  KeyInv'
  <2>1. \A f \in Executors : /\ enclave'[f].keygens = enclave[f].keygens
                             /\ enclave'[f].incarnation = enclave[f].incarnation
    BY <1>9 DEF RemoteAttestation2, SetSession, TypeInv, TypeOK
  <2> QED
    BY <1>9, <2>1, KeyInvKept, ThrowsCounts, ThrowsStaysOrLeaves
    DEF RemoteAttestation2, ToRun, TaskReturns
<1>10. ASSUME NEW p \in Partitions, NEW e \in Executors, RemoteAttestation3(p, e)
       PROVE  KeyInv'
  <2>0. DOMAIN results = {} /\ Partitions = {p}
    BY <1>10, LastJobHasOneTask DEF RemoteAttestation3
  <2>1. CASE DecryptsMsg4(p, e)
    <3>1. /\ pc' = "RA3" /\ pc = "RA3" /\ attempt' = attempt
          /\ enclave' = [enclave EXCEPT ![e] = Attested(@)]
          /\ results' = [q \in {p} |-> [executor |-> e,
                                       incarnation |-> enclave[e].incarnation]]
      BY <1>10, <2>0, <2>1 DEF RemoteAttestation3, ToRun, TaskReturns
    <3>2. enclave[e].keygens < attempt
      BY <2>0 DEF KeyInv, OneDrawPerAttestation
    <3>3. enclave[e] \in EnclaveType
      BY DEF TypeInv, TypeOK, EnclaveType
    <3>4. /\ SetSka(enclave[e]).keygens = enclave[e].keygens
          /\ SetSka(enclave[e]).incarnation = enclave[e].incarnation
          /\ SetSka(enclave[e]) \in EnclaveType
      BY <3>3, SetSkaType DEF TypeInv, TypeOK
    <3>5. /\ Attested(enclave[e]).sk_a = enclave[e].keygens + 1
          /\ Attested(enclave[e]).sk_b = enclave[e].keygens + 1
      BY <3>4, InitPairingDraws DEF Attested
    <3>6. Attested(enclave[e]).incarnation = enclave[e].incarnation
      BY <3>4, InitPairingDraws DEF Attested
    <3>7. enclave'[e] = Attested(enclave[e]) /\ enclave[e].incarnation \in Nat
      BY <3>1, <3>3 DEF TypeInv, TypeOK, EnclaveType
    <3>8. HoldsPair(e, attempt)'
      <4>1. enclave[e].keygens + 1 \in 1 .. attempt'
        BY <3>1, <3>2, <3>3 DEF EnclaveType, TypeInv, TypeOK
      <4>2. SetSka(enclave[e]).rdd_ks
        BY <3>3 DEF SetSka, EnclaveType
      <4>3. Attested(enclave[e]).rdd_ks
        BY <4>2, <3>4 DEF Attested, InitPairing, EnclaveType
      <4> QED
        BY <4>1, <4>3, <3>5, <3>7 DEF HoldsPair, Reconstructs
    <3>9. results'[p] = [executor |-> e, incarnation |-> enclave[e].incarnation]
      BY <3>1
    <3>10. AttestedHoldsPair'
      BY <3>1, <3>6, <3>7, <3>8, <3>9 DEF AttestedHoldsPair
    <3>11. OneDrawPerAttestation'
      BY <3>1 DEF OneDrawPerAttestation
    <3> QED
      BY <3>1, <3>10, <3>11 DEF KeyInv, AllReported
  <2>2. CASE ~ DecryptsMsg4(p, e)
    <3>1. \A f \in Executors : /\ enclave'[f].keygens = enclave[f].keygens
                               /\ enclave'[f].incarnation = enclave[f].incarnation
      BY <1>10, <2>2 DEF RemoteAttestation3, SetSession, TypeInv, TypeOK
    <3> QED
      BY <1>10, <2>0, <2>2, <3>1, KeyInvKept, ThrowsCounts, ThrowsStaysOrLeaves
      DEF RemoteAttestation3, ToRun
  <2> QED
    BY <2>1, <2>2
<1>11. ASSUME NEW p \in Partitions, NEW e \in Executors, InitPairingThrows(p, e)
       PROVE  KeyInv'
  <2>0. DOMAIN results = {} /\ Partitions = {p}
    BY <1>11, LastJobHasOneTask DEF InitPairingThrows
  <2>1. \A f \in Executors : /\ enclave'[f].keygens = enclave[f].keygens
                             /\ enclave'[f].incarnation = enclave[f].incarnation
    BY <1>11 DEF InitPairingThrows, SetSka, TypeInv, TypeOK
  <2> QED
    BY <1>11, <2>0, <2>1, KeyInvKept, ThrowsCounts, ThrowsStaysOrLeaves
    DEF InitPairingThrows, ToRun
<1>12. ASSUME NEW p \in Partitions, TaskFault(p)
       PROVE  KeyInv'
  <2>1. pc = "RA3" => DOMAIN results = {}
    BY <1>12, LastJobHasOneTask DEF TaskFault, ToRun
  <2> QED
    BY <1>12, <2>1, KeyInvKept, ThrowsCounts, ThrowsStaysOrLeaves
    DEF TaskFault, ToRun, Jobs
<1>13. ASSUME NEW e \in Executors, RestartExecutor(e)
       PROVE  KeyInv'
  <2>1. /\ UNCHANGED <<pc, attempt, results>>
        /\ enclave' = [enclave EXCEPT ![e] = NewEnclave(@.incarnation + 1)]
    BY <1>13 DEF RestartExecutor
  <2>2. /\ enclave'[e].incarnation = enclave[e].incarnation + 1
        /\ enclave'[e].keygens = 0
        /\ enclave[e].incarnation \in Nat
    BY <2>1 DEF NewEnclave, TypeInv, TypeOK
  <2>3. \A f \in Executors \ {e} : enclave'[f] = enclave[f]
    BY <2>1 DEF TypeInv, TypeOK
  <2>4. OneDrawPerAttestation'
    BY <2>1, <2>2, <2>3 DEF KeyInv, OneDrawPerAttestation, TypeInv, TypeOK
  <2>5. AttestedHoldsPair'
    BY <2>1, <2>2, <2>3 DEF KeyInv, AttestedHoldsPair, HoldsPair, Reconstructs
  <2> QED
    BY <2>1, <2>4, <2>5 DEF KeyInv, AllReported
<1>14. ASSUME NEW p \in Partitions, ProcMsg1Throws(p)
       PROVE  KeyInv'
  BY <1>14, KeyInvKept DEF ProcMsg1Throws, Collected, AttemptThrows
<1>15. CASE ProcMsg3Throws
  BY <1>15, KeyInvKept DEF ProcMsg3Throws, Collected, AttemptThrows
<1>16. CASE UNCHANGED vars
  BY <1>16 DEF vars, KeyInv, OneDrawPerAttestation, AttestedHoldsPair, AllReported,
               HoldsPair, Reconstructs
<1> QED
  BY <1>1, <1>2, <1>3, <1>4, <1>5, <1>6, <1>7, <1>8, <1>9, <1>10, <1>11, <1>12,
     <1>13, <1>14, <1>15, <1>16
  DEF Next, DriverStep, TaskStep

(* If initRA returns at its first attempt, the enclave it attested         *)
(* reconstructs the owner's key, for any number of executors, task         *)
(* failures and restarts.                                                  *)
THEOREM FirstAttemptKeysAgree == Spec => []KeysAgreeIfNotRetried
<1>1. TypeInv /\ KeyInv => KeysAgreeIfNotRetried
  <2> SUFFICES ASSUME TypeInv, KeyInv, pc = "done", attempt = 1,
                      NEW e \in AttestedExecutors
               PROVE  Reconstructs(e, g_e_sk)
    BY DEF KeysAgreeIfNotRetried
  <2>1. g_e_sk = 1
    BY DEF TypeInv, OneDrawPerAttempt
  <2>2. PICK p \in Partitions :
          results[p] = [executor |-> e, incarnation |-> enclave[e].incarnation]
    BY DEF AttestedExecutors
  <2>3. p \in DOMAIN results
    BY DEF KeyInv, AllReported
  <2> QED
    BY <2>1, <2>2, <2>3 DEF KeyInv, AttestedHoldsPair, AttestedExecutors, HoldsPair,
                              Reconstructs
<1> QED
  BY <1>1, TypeInit, TypeStep, OneExchangeInit, OneExchangeStep, KeyInvInit,
     KeyInvStep, PTL DEF Spec

(* When initRA returns, whatever attempts came before, the enclave it      *)
(* attested holds the RDD key and both halves of one of the pairs that the *)
(* attempts drew, for any number of executors, task failures and restarts. *)
THEOREM AttestedEnclaveHasKeys == Spec => []AttestedCanReconstruct
<1>1. TypeInv /\ KeyInv => AttestedCanReconstruct
  <2> SUFFICES ASSUME TypeInv, KeyInv, pc = "done", NEW e \in AttestedExecutors
               PROVE  HoldsPair(e, MaxAttempts)
    BY DEF AttestedCanReconstruct, HoldsPair
  <2>1. PICK p \in Partitions :
          results[p] = [executor |-> e, incarnation |-> enclave[e].incarnation]
    BY DEF AttestedExecutors
  <2>2. p \in DOMAIN results
    BY DEF KeyInv, AllReported
  <2>3. HoldsPair(e, attempt)
    BY <2>1, <2>2 DEF KeyInv, AttestedHoldsPair, AttestedExecutors
  <2>4. attempt \in 1 .. MaxAttempts
    BY DEF TypeInv, TypeOK
  <2> QED
    BY <2>3, <2>4 DEF HoldsPair
<1> QED
  BY <1>1, TypeInit, TypeStep, OneExchangeInit, OneExchangeStep, KeyInvInit,
     KeyInvStep, PTL DEF Spec

---------------------------------------------------------------------------
(* The key schedule. *)

HIDE AttestationAssumption
USE KeyScheduleAssumption

---------------------------------------------------------------------------
(* A task that has not been given up has failures left. *)
FailuresLeft == \A t \in Tasks : taskPc[t] # "failed" => taskFailures[t] < TaskMaxFailures

ScheduleTypeInv == ScheduleTypeOK /\ FailuresLeft

Labels == {"waiting"} \cup Resetting \cup Decrypting \cup Encrypting \cup Ended

(* The type invariant holds initially. *)
LEMMA ScheduleTypeInit == ScheduleInit => ScheduleTypeInv
BY DEF ScheduleInit, ScheduleTypeInv, ScheduleTypeOK, FailuresLeft, Schedules

(* A running task that throws keeps its types. *)
LEMMA ThrowsTypes ==
  ASSUME ScheduleTypeInv, NEW t \in Tasks, t \in Running, Throws(t)
  PROVE  /\ taskPc' \in [Tasks -> Labels]
         /\ taskFailures' \in [Tasks -> 0 .. TaskMaxFailures]
         /\ FailuresLeft'
<1>1. taskFailures[t] \in Nat /\ taskFailures[t] < TaskMaxFailures
  BY DEF ScheduleTypeInv, ScheduleTypeOK, FailuresLeft, Running, Resetting, Decrypting, Encrypting
<1>2. taskFailures' \in [Tasks -> 0 .. TaskMaxFailures]
  BY <1>1 DEF Throws, ScheduleTypeInv, ScheduleTypeOK
<1>3. taskPc' \in [Tasks -> Labels]
  BY DEF Throws, Goto, ScheduleTypeInv, ScheduleTypeOK, Labels, Ended
<1>4. FailuresLeft'
  BY <1>1 DEF Throws, Goto, ScheduleTypeInv, ScheduleTypeOK, FailuresLeft
<1> QED
  BY <1>2, <1>3, <1>4

(* A task that goes somewhere else than "failed" keeps them, too. *)
LEMMA GotoTypes ==
  ASSUME ScheduleTypeInv, NEW t \in Tasks, NEW label \in Labels \ {"failed"},
         Goto(t, label), taskPc[t] # "failed", UNCHANGED taskFailures
  PROVE  /\ taskPc' \in [Tasks -> Labels]
         /\ taskFailures' \in [Tasks -> 0 .. TaskMaxFailures]
         /\ FailuresLeft'
BY DEF Goto, ScheduleTypeInv, ScheduleTypeOK, FailuresLeft, Labels

(* And one that finishes a block. *)
LEMMA BlockFinishedTypes ==
  ASSUME ScheduleTypeInv, NEW t \in Tasks, NEW again \in Labels \ {"failed"},
         NEW after \in Labels \ {"failed"},
         BlockFinished(t, again, after), taskPc[t] # "failed", UNCHANGED taskFailures
  PROVE  /\ block' \in [Tasks -> 0 .. Blocks - 1]
         /\ taskPc' \in [Tasks -> Labels]
         /\ taskFailures' \in [Tasks -> 0 .. TaskMaxFailures]
         /\ FailuresLeft'
<1>1. CASE block[t] + 1 < Blocks
  BY <1>1, GotoTypes DEF BlockFinished, ScheduleTypeInv, ScheduleTypeOK
<1>2. CASE ~ (block[t] + 1 < Blocks)
  BY <1>2, GotoTypes DEF BlockFinished, ScheduleTypeInv, ScheduleTypeOK
<1> QED
  BY <1>1, <1>2

(* Every step keeps the types. *)
LEMMA ScheduleTypeStep ==
  ASSUME ScheduleTypeInv, [ScheduleNext]_scheduleVars
  PROVE  ScheduleTypeInv'
<1> USE DEF Schedules
<1>0. Labels = {"waiting"} \cup Resetting \cup Decrypting \cup Encrypting \cup Ended
  BY DEF Labels
<1>1. ASSUME NEW t \in Tasks, Start(t)
      PROVE  ScheduleTypeInv'
  BY <1>0, <1>1, GotoTypes DEF Start, ScheduleTypeInv, ScheduleTypeOK, Labels, Resetting, Encrypting
<1>2. ASSUME NEW t \in Tasks, EnclaveLost(t)
      PROVE  ScheduleTypeInv'
  BY <1>0, <1>2, ThrowsTypes DEF EnclaveLost, ScheduleTypeInv, ScheduleTypeOK
<1>3. ASSUME NEW t \in Tasks, Reconstruct(t)
      PROVE  ScheduleTypeInv'
  <2>1. taskPc' \in [Tasks -> Labels] /\ FailuresLeft' /\ taskFailures' \in [Tasks -> 0 .. TaskMaxFailures]
    BY <1>3, GotoTypes DEF Reconstruct, At, Labels, Resetting
  <2>2. /\ allocated' \in Nat /\ allocated' = allocated + 1
        /\ \A i \in 0 .. allocated : i \in 0 .. allocated'
    BY <1>3 DEF Reconstruct, ScheduleTypeInv, ScheduleTypeOK
  <2>3. live' \subseteq 1 .. allocated' /\ new' \in [Tasks -> 0 .. allocated']
    BY <1>3, <2>2 DEF Reconstruct, ScheduleTypeInv, ScheduleTypeOK
  <2> QED
    BY <1>0, <1>3, <2>1, <2>2, <2>3 DEF Reconstruct, ScheduleTypeInv, ScheduleTypeOK
<1>4. ASSUME NEW t \in Tasks, ReadOld(t)
      PROVE  ScheduleTypeInv'
  BY <1>0, <1>4, GotoTypes DEF ReadOld, At, ScheduleTypeInv, ScheduleTypeOK, Labels, Resetting
<1>5. ASSUME NEW t \in Tasks, StoreNew(t)
      PROVE  ScheduleTypeInv'
  BY <1>0, <1>5, GotoTypes DEF StoreNew, At, ScheduleTypeInv, ScheduleTypeOK, Labels, Resetting
<1>6. ASSUME NEW t \in Tasks, DeleteOld(t)
      PROVE  ScheduleTypeInv'
  BY <1>0, <1>6, GotoTypes DEF DeleteOld, At, ScheduleTypeInv, ScheduleTypeOK, Labels, Decrypting
<1>7. ASSUME NEW t \in Tasks, NEW label \in {"next_block", "next_result"},
             OpenBlock(t, label)
      PROVE  ScheduleTypeInv'
  <2>1. CASE ks = 0
    BY <1>0, <1>7, <2>1, ThrowsTypes
    DEF OpenBlock, At, ScheduleTypeInv, ScheduleTypeOK, Running, Decrypting, Encrypting
  <2>2. CASE ks # 0
    BY <1>0, <1>7, <2>2, GotoTypes
    DEF OpenBlock, At, Opened, ScheduleTypeInv, ScheduleTypeOK, Labels, Decrypting, Encrypting
  <2> QED
    BY <2>1, <2>2
<1>8. ASSUME NEW t \in Tasks, DecryptBlock(t)
      PROVE  ScheduleTypeInv'
  <2>1. /\ taskPc[t] # "failed" /\ "next_block" \in Labels \ {"failed"}
        /\ (IF job = "scan" THEN "returned" ELSE "next_result") \in Labels \ {"failed"}
    BY <1>8 DEF DecryptBlock, At, Labels, Decrypting, Encrypting, Ended
  <2> QED
    BY <1>0, <1>8, <2>1, BlockFinishedTypes DEF DecryptBlock, ScheduleTypeInv, ScheduleTypeOK
<1>9. ASSUME NEW t \in Tasks, DecryptsGarbled(t)
      PROVE  ScheduleTypeInv'
  BY <1>0, <1>9, ThrowsTypes DEF DecryptsGarbled, At, ScheduleTypeInv, ScheduleTypeOK, Running, Decrypting
<1>10. ASSUME NEW t \in Tasks, EncryptBlock(t)
       PROVE  ScheduleTypeInv'
  <2>1. garbled' \subseteq Tasks
    BY <1>10 DEF EncryptBlock, ScheduleTypeInv, ScheduleTypeOK
  <2> QED
    BY <1>0, <1>10, <2>1, BlockFinishedTypes
    DEF EncryptBlock, At, ScheduleTypeInv, ScheduleTypeOK, Labels, Encrypting, Ended
<1>11. CASE Prepare
  BY <1>11 DEF Prepare, ScheduleTypeInv, ScheduleTypeOK, FailuresLeft
<1>12. CASE UNCHANGED scheduleVars
  BY <1>12 DEF scheduleVars, ScheduleTypeInv, ScheduleTypeOK, FailuresLeft
<1> QED
  BY <1>1, <1>2, <1>3, <1>4, <1>5, <1>6, <1>7, <1>8, <1>9, <1>10, <1>11, <1>12
  DEF ScheduleNext, EnclaveTaskStep

(* The type invariant of the tasks, with its bound on failures. *)
THEOREM KeyScheduleTypeCorrect == ScheduleSpec => []ScheduleTypeOK
<1>1. ScheduleTypeInv => ScheduleTypeOK
  BY DEF ScheduleTypeInv
<1> QED
  BY <1>1, ScheduleTypeInit, ScheduleTypeStep, PTL DEF ScheduleSpec

---------------------------------------------------------------------------
(* A schedule that is not yet in ks is known to its task alone, and no     *)
(* reset is going to delete it.                                            *)
Pending(t) == taskPc[t] \in {"read_old", "store_new"}

Fresh ==
  \A t \in Tasks : Pending(t) =>
    /\ new[t] \in live
    /\ new[t] # ks
    /\ \A u \in Tasks : old[u] # new[t] /\ (u # t => new[u] # new[t])

(* What a reset is going to delete has been replaced. *)
OldGone == \A t \in Tasks : taskPc[t] = "delete_old" => old[t] # ks

KsLive == ks # 0 => ks \in live

(* From the first reset on there is a schedule. *)
Behind(t) == taskPc[t] \in {"delete_old", "returned"} \cup Decrypting \cup Encrypting

KsSet == \A t \in Tasks : job = "prepare" \/ Behind(t) => ks # 0

ScheduleInv == Fresh /\ OldGone /\ KsLive /\ KsSet

(* The invariant holds initially. *)
LEMMA ScheduleInvInit == ScheduleInit => ScheduleInv
BY DEF ScheduleInit, ScheduleInv, Fresh, Pending, OldGone, KsLive, KsSet, Behind, Decrypting, Encrypting

(* A step that only moves a task where it needs no more than before keeps  *)
(* the invariant.                                                          *)
LEMMA MoveKeeps ==
  ASSUME ScheduleTypeInv, ScheduleInv, NEW t \in Tasks, NEW label \in Labels,
         Goto(t, label), UNCHANGED <<ks, live, new, old, job>>,
         label \notin {"read_old", "store_new", "delete_old"},
         label \in {"returned"} \cup Decrypting \cup Encrypting
           => job = "prepare" \/ Behind(t)
  PROVE  ScheduleInv'
<1>1. /\ taskPc'[t] = label
      /\ \A u \in Tasks : u # t => taskPc'[u] = taskPc[u]
  BY DEF Goto, ScheduleTypeInv, ScheduleTypeOK
<1>2. Fresh'
  BY <1>1 DEF Fresh, Pending, ScheduleInv
<1>3. OldGone'
  BY <1>1 DEF OldGone, ScheduleInv
<1>4. KsLive'
  BY DEF KsLive, ScheduleInv
<1>5. KsSet'
  BY <1>1 DEF KsSet, Behind, ScheduleInv
<1> QED
  BY <1>2, <1>3, <1>4, <1>5 DEF ScheduleInv

(* So does a task that throws. *)
LEMMA ThrowsKeeps ==
  ASSUME ScheduleTypeInv, ScheduleInv, NEW t \in Tasks, Throws(t),
         UNCHANGED <<ks, live, new, old, job>>
  PROVE  ScheduleInv'
<1>1. PICK label \in {"waiting", "failed"} : Goto(t, label)
  BY DEF Throws
<1> QED
  BY <1>1, MoveKeeps DEF Labels, Ended, Decrypting, Encrypting

(* And one that finishes a block, since it is behind its reset. *)
LEMMA FinishKeeps ==
  ASSUME ScheduleTypeInv, ScheduleInv, NEW t \in Tasks, Behind(t),
         NEW again \in Decrypting \cup Encrypting,
         NEW after \in {"returned"} \cup Decrypting \cup Encrypting,
         BlockFinished(t, again, after), UNCHANGED <<ks, live, new, old, job>>
  PROVE  ScheduleInv'
<1>1. PICK label \in {again, after} : Goto(t, label)
  BY DEF BlockFinished
<1> QED
  BY <1>1, MoveKeeps DEF Labels, Ended, Decrypting, Encrypting

(* A new schedule differs from every other. *)
LEMMA ReconstructKeeps ==
  ASSUME ScheduleTypeInv, ScheduleInv, NEW t \in Tasks, Reconstruct(t)
  PROVE  ScheduleInv'
<1>1. /\ taskPc'[t] = "read_old" /\ new'[t] = allocated + 1
      /\ \A u \in Tasks : u # t => taskPc'[u] = taskPc[u] /\ new'[u] = new[u]
  BY DEF Reconstruct, Goto, ScheduleTypeInv, ScheduleTypeOK
<1>2. /\ allocated \in Nat /\ ks \in 0 .. allocated
      /\ \A u \in Tasks : new[u] \in 0 .. allocated /\ old[u] \in 0 .. allocated
  BY DEF ScheduleTypeInv, ScheduleTypeOK, Schedules
<1>3. live' = live \cup {allocated + 1} /\ UNCHANGED <<ks, old, job>>
  BY DEF Reconstruct
<1>4. Fresh'
  <2> SUFFICES ASSUME NEW u \in Tasks, Pending(u)'
               PROVE  /\ new'[u] \in live' /\ new'[u] # ks'
                      /\ \A v \in Tasks : old'[v] # new'[u] /\ (v # u => new'[v] # new'[u])
    BY DEF Fresh
  <2>1. CASE u = t
    BY <1>1, <1>2, <1>3, <2>1
  <2>2. CASE u # t
    <3>1. Pending(u)
      BY <1>1, <2>2 DEF Pending
    <3>2. new[u] # allocated + 1
      BY <1>2
    <3> QED
      BY <1>1, <1>3, <2>2, <3>1, <3>2 DEF ScheduleInv, Fresh
  <2> QED
    BY <2>1, <2>2
<1>5. OldGone'
  BY <1>1, <1>3 DEF OldGone, ScheduleInv
<1>6. KsLive'
  BY <1>3 DEF KsLive, ScheduleInv
<1>7. KsSet'
  BY <1>1, <1>3 DEF KsSet, Behind, ScheduleInv, Decrypting, Encrypting
<1> QED
  BY <1>4, <1>5, <1>6, <1>7 DEF ScheduleInv

(* What a task reads as the old schedule is in ks, and so is not pending. *)
LEMMA ReadOldKeeps ==
  ASSUME ScheduleTypeInv, ScheduleInv, NEW t \in Tasks, ReadOld(t)
  PROVE  ScheduleInv'
<1>1. /\ taskPc[t] = "read_old" /\ taskPc'[t] = "store_new" /\ old'[t] = ks
      /\ \A u \in Tasks : u # t => taskPc'[u] = taskPc[u] /\ old'[u] = old[u]
      /\ UNCHANGED <<ks, live, new, job>>
  BY DEF ReadOld, At, Goto, ScheduleTypeInv, ScheduleTypeOK
<1>2. \A u \in Tasks : Pending(u)' => Pending(u)
  BY <1>1 DEF Pending
<1>3. Fresh'
  BY <1>1, <1>2 DEF Fresh, ScheduleInv
<1>4. OldGone'
  BY <1>1 DEF OldGone, ScheduleInv
<1>5. KsLive'
  BY <1>1 DEF KsLive, ScheduleInv
<1>6. KsSet'
  BY <1>1 DEF KsSet, Behind, ScheduleInv, Decrypting, Encrypting
<1> QED
  BY <1>3, <1>4, <1>5, <1>6 DEF ScheduleInv

(* What a task stores nobody has read yet. *)
LEMMA StoreNewKeeps ==
  ASSUME ScheduleTypeInv, ScheduleInv, NEW t \in Tasks, StoreNew(t)
  PROVE  ScheduleInv'
<1>1. /\ taskPc[t] = "store_new" /\ taskPc'[t] = "delete_old" /\ ks' = new[t]
      /\ \A u \in Tasks : u # t => taskPc'[u] = taskPc[u]
      /\ UNCHANGED <<live, new, old, job>>
  BY DEF StoreNew, At, Goto, ScheduleTypeInv, ScheduleTypeOK
<1>2. /\ new[t] \in live /\ new[t] # 0
      /\ \A u \in Tasks : old[u] # new[t] /\ (u # t => new[u] # new[t])
  BY <1>1 DEF ScheduleInv, Fresh, Pending, ScheduleTypeInv, ScheduleTypeOK
<1>3. Fresh'
  BY <1>1, <1>2 DEF Fresh, Pending, ScheduleInv
<1>4. OldGone'
  BY <1>1, <1>2 DEF OldGone
<1>5. KsLive' /\ KsSet'
  BY <1>1, <1>2 DEF KsLive, KsSet
<1> QED
  BY <1>3, <1>4, <1>5 DEF ScheduleInv

(* What a task deletes is neither in ks nor pending. *)
LEMMA DeleteOldKeeps ==
  ASSUME ScheduleTypeInv, ScheduleInv, NEW t \in Tasks, DeleteOld(t)
  PROVE  ScheduleInv'
<1>1. /\ taskPc[t] = "delete_old" /\ taskPc'[t] = "next_block" /\ live' = live \ {old[t]}
      /\ \A u \in Tasks : u # t => taskPc'[u] = taskPc[u]
      /\ UNCHANGED <<ks, new, old, job>>
  BY DEF DeleteOld, At, Goto, ScheduleTypeInv, ScheduleTypeOK
<1>2. old[t] # ks /\ \A u \in Tasks : Pending(u) => old[t] # new[u]
  BY <1>1 DEF ScheduleInv, OldGone, Fresh
<1>3. Fresh'
  BY <1>1, <1>2 DEF Fresh, Pending, ScheduleInv
<1>4. OldGone'
  BY <1>1 DEF OldGone, ScheduleInv
<1>5. KsLive'
  BY <1>1, <1>2 DEF KsLive, ScheduleInv
<1>6. KsSet'
  BY <1>1 DEF KsSet, Behind, ScheduleInv
<1> QED
  BY <1>3, <1>4, <1>5, <1>6 DEF ScheduleInv

(* Every step keeps the invariant. *)
LEMMA ScheduleInvStep ==
  ASSUME ScheduleTypeInv, ScheduleInv, [ScheduleNext]_scheduleVars
  PROVE  ScheduleInv'
<1>1. ASSUME NEW t \in Tasks, Start(t)
      PROVE  ScheduleInv'
  <2>1. CASE Goto(t, "reconstruct")
    BY <1>1, <2>1, MoveKeeps DEF Start, Labels, Resetting, Decrypting, Encrypting
  <2>2. CASE job = "prepare" /\ Goto(t, "next_result")
    BY <1>1, <2>2, MoveKeeps DEF Start, Labels, Encrypting
  <2> QED
    BY <1>1, <2>1, <2>2 DEF Start
<1>2. ASSUME NEW t \in Tasks, EnclaveLost(t)
      PROVE  ScheduleInv'
  BY <1>2, ThrowsKeeps DEF EnclaveLost
<1>3. ASSUME NEW t \in Tasks, NEW label \in {"next_block", "next_result"},
             OpenBlock(t, label)
      PROVE  ScheduleInv'
  <2>1. CASE ks = 0
    BY <1>3, <2>1, ThrowsKeeps DEF OpenBlock
  <2>2. CASE ks # 0
    BY <1>3, <2>2, MoveKeeps
    DEF OpenBlock, At, Opened, Labels, Behind, Decrypting, Encrypting
  <2> QED
    BY <2>1, <2>2
<1>4. ASSUME NEW t \in Tasks, DecryptBlock(t)
      PROVE  ScheduleInv'
  <2>1. /\ Behind(t) /\ "next_block" \in Decrypting
        /\ (IF job = "scan" THEN "returned" ELSE "next_result")
             \in {"returned"} \cup Decrypting \cup Encrypting
    BY <1>4 DEF DecryptBlock, At, Behind, Decrypting, Encrypting
  <2> QED
    BY <1>4, <2>1, FinishKeeps DEF DecryptBlock
<1>5. ASSUME NEW t \in Tasks, DecryptsGarbled(t)
      PROVE  ScheduleInv'
  BY <1>5, ThrowsKeeps DEF DecryptsGarbled
<1>6. ASSUME NEW t \in Tasks, EncryptBlock(t)
      PROVE  ScheduleInv'
  <2>1. Behind(t) /\ "next_result" \in Encrypting
    BY <1>6 DEF EncryptBlock, At, Behind, Encrypting
  <2> QED
    BY <1>6, <2>1, FinishKeeps DEF EncryptBlock
<1>7. CASE Prepare
  <2>1. \A t \in Tasks : taskPc'[t] = "waiting" /\ ks # 0
    BY <1>7 DEF Prepare, ScheduleInv, KsSet, Behind
  <2> QED
    BY <1>7, <2>1 DEF Prepare, ScheduleInv, Fresh, Pending, OldGone, KsLive, KsSet
<1>8. CASE UNCHANGED scheduleVars
  BY <1>8 DEF scheduleVars, ScheduleInv, Fresh, Pending, OldGone, KsLive, KsSet, Behind
<1> QED
  BY <1>1, <1>2, <1>3, <1>4, <1>5, <1>6, <1>7, <1>8,
     ReconstructKeeps, ReadOldKeeps, StoreNewKeeps, DeleteOldKeeps
  DEF ScheduleNext, EnclaveTaskStep

(* However resets interleave, a task that opens a block finds a schedule   *)
(* that has not been deleted: ks is replaced before what it held is        *)
(* deleted, and by a schedule that only its own task knows.                *)
THEOREM OpenedScheduleIsLive == ScheduleSpec => []OpensLiveSchedule
<1>1. ScheduleInv => OpensLiveSchedule
  BY DEF ScheduleInv, OpensLiveSchedule, KsLive, KsSet, Behind, Decrypting, Encrypting
<1> QED
  BY <1>1, ScheduleTypeInit, ScheduleTypeStep, ScheduleInvInit, ScheduleInvStep, PTL DEF ScheduleSpec

---------------------------------------------------------------------------
(* One task at a time: it uses the schedule in ks, and what it is going to *)
(* delete is what ks held before.                                          *)
Alone == \A t, u \in Running : t = u

InUse == \A t \in Tasks : taskPc[t] \in {"decrypt", "encrypt"} => used[t] = ks

OldIsKs == \A t \in Tasks : taskPc[t] = "store_new" => old[t] = ks

OldIsLive == \A t \in Tasks : taskPc[t] = "delete_old" => old[t] \in live \cup {0}

Owned ==
  \A s \in live :
    \/ s = ks
    \/ \E t \in Tasks : Pending(t) /\ s = new[t]
    \/ \E t \in Tasks : taskPc[t] = "delete_old" /\ s = old[t]

SerialInv ==
  /\ Alone /\ InUse /\ OldIsKs /\ OldIsLive /\ Owned
  /\ enclaveState = "up"
  /\ garbled = {}

Busy == Resetting \cup Decrypting \cup Encrypting

(* The invariant holds initially. *)
LEMMA SerialInit == ScheduleInit => SerialInv
BY DEF ScheduleInit, SerialInv, Alone, InUse, OldIsKs, OldIsLive, Owned, Running,
       Resetting, Decrypting, Encrypting

(* Beside a running task no other one runs, and on one core none starts.   *)
LEMMA OthersIdle ==
  ASSUME cores = 1, ScheduleTypeInv, SerialInv, NEW t \in Tasks, Start(t) \/ t \in Running
  PROVE  \A u \in Tasks \ {t} : taskPc[u] \notin Busy
<1>1. CASE Start(t)
  <2>1. IsFiniteSet(Running)
    BY FS_Subset DEF Running
  <2>2. Cardinality(Running) = 0
    BY <1>1, <2>1, FS_CardinalityType DEF Start
  <2>3. Running = {}
    BY <2>1, <2>2, FS_EmptySet
  <2> QED
    BY <2>3 DEF Running, Busy
<1>2. CASE t \in Running
  BY <1>2 DEF SerialInv, Alone, Running, Busy
<1> QED
  BY <1>1, <1>2

(* A step that only moves the one task, where it owns nothing and uses     *)
(* nothing, keeps the invariant.                                           *)
LEMMA SerialMove ==
  ASSUME ScheduleTypeInv, SerialInv, NEW t \in Tasks, NEW label \in Labels,
         \A u \in Tasks \ {t} : taskPc[u] \notin Busy,
         Goto(t, label), UNCHANGED <<ks, live, enclaveState, garbled, new, old>>,
         taskPc[t] \notin {"read_old", "store_new", "delete_old"},
         label \notin {"read_old", "store_new", "delete_old"},
         \A u \in Tasks \ {t} : used'[u] = used[u],
         label \in {"decrypt", "encrypt"} => used'[t] = ks
  PROVE  SerialInv'
<1>1. /\ taskPc'[t] = label
      /\ \A u \in Tasks : u # t => taskPc'[u] = taskPc[u]
  BY DEF Goto, ScheduleTypeInv, ScheduleTypeOK
<1>2. Alone'
  BY <1>1 DEF Alone, Running, Busy
<1>3. InUse'
  BY <1>1 DEF InUse, SerialInv
<1>4. OldIsKs' /\ OldIsLive'
  BY <1>1 DEF OldIsKs, OldIsLive, SerialInv
<1>5. Owned'
  BY <1>1 DEF Owned, Pending, SerialInv
<1> QED
  BY <1>2, <1>3, <1>4, <1>5 DEF SerialInv

(* The four steps of a reset. *)
LEMMA SerialReset ==
  ASSUME ScheduleTypeInv, ScheduleInv, SerialInv, NEW t \in Tasks,
         \A u \in Tasks \ {t} : taskPc[u] \notin Busy,
         Reconstruct(t) \/ ReadOld(t) \/ StoreNew(t) \/ DeleteOld(t)
  PROVE  SerialInv'
<1>1. /\ taskPc'[t] \in {"read_old", "store_new", "delete_old", "next_block"}
      /\ \A u \in Tasks : u # t => taskPc'[u] = taskPc[u] /\ taskPc'[u] \notin Busy
      /\ garbled' = garbled
  BY DEF Reconstruct, ReadOld, StoreNew, DeleteOld, Goto, ScheduleTypeInv, ScheduleTypeOK
<1>2. Alone'
  BY <1>1 DEF Alone, Running, Busy
<1>3. InUse'
  BY <1>1 DEF InUse, Busy, Decrypting, Encrypting
<1>4. CASE Reconstruct(t)
  <2>1. /\ taskPc[t] = "reconstruct" /\ taskPc'[t] = "read_old" /\ new'[t] = allocated + 1
        /\ live' = live \cup {new'[t]} /\ UNCHANGED <<ks, enclaveState, old>>
    BY <1>4 DEF Reconstruct, At, Goto, ScheduleTypeInv, ScheduleTypeOK
  <2>2. OldIsKs' /\ OldIsLive'
    BY <1>1, <2>1 DEF OldIsKs, OldIsLive, Busy, Resetting
  <2>3. \A u \in Tasks : ~ Pending(u) /\ taskPc[u] # "delete_old"
    BY <2>1 DEF Pending, Busy, Resetting
  <2>4. Owned'
    BY <2>1, <2>3 DEF Owned, Pending, SerialInv
  <2> QED
    BY <1>1, <1>2, <1>3, <2>1, <2>2, <2>4 DEF SerialInv
<1>5. CASE ReadOld(t)
  <2>1. /\ taskPc[t] = "read_old" /\ taskPc'[t] = "store_new" /\ old'[t] = ks
        /\ UNCHANGED <<ks, live, enclaveState, new>>
    BY <1>5 DEF ReadOld, At, Goto, ScheduleTypeInv, ScheduleTypeOK
  <2>2. OldIsKs' /\ OldIsLive'
    BY <1>1, <2>1 DEF OldIsKs, OldIsLive, Busy, Resetting
  <2>3. \A u \in Tasks : taskPc[u] # "delete_old" /\ (Pending(u) => u = t)
    BY <2>1 DEF Pending, Busy, Resetting
  <2>4. Owned'
    BY <2>1, <2>3 DEF Owned, Pending, SerialInv
  <2> QED
    BY <1>1, <1>2, <1>3, <2>1, <2>2, <2>4 DEF SerialInv
<1>6. CASE StoreNew(t)
  <2>1. /\ taskPc[t] = "store_new" /\ taskPc'[t] = "delete_old" /\ ks' = new[t]
        /\ UNCHANGED <<live, enclaveState, new, old>>
    BY <1>6 DEF StoreNew, At, Goto, ScheduleTypeInv, ScheduleTypeOK
  <2>2. old[t] = ks /\ ks \in live \cup {0}
    BY <2>1 DEF SerialInv, OldIsKs, ScheduleInv, KsLive
  <2>3. OldIsKs' /\ OldIsLive'
    BY <1>1, <2>1, <2>2 DEF OldIsKs, OldIsLive, Busy, Resetting
  <2>4. \A u \in Tasks : taskPc[u] # "delete_old" /\ (Pending(u) => u = t)
    BY <2>1 DEF Pending, Busy, Resetting
  <2>5. Owned'
    BY <2>1, <2>2, <2>4 DEF Owned, SerialInv
  <2> QED
    BY <1>1, <1>2, <1>3, <2>1, <2>3, <2>5 DEF SerialInv
<1>7. CASE DeleteOld(t)
  <2>1. /\ taskPc[t] = "delete_old" /\ taskPc'[t] = "next_block" /\ live' = live \ {old[t]}
        /\ UNCHANGED <<ks, new, old>>
    BY <1>7 DEF DeleteOld, At, Goto, ScheduleTypeInv, ScheduleTypeOK
  <2>2. enclaveState' = "up"
    BY <1>7, <2>1 DEF DeleteOld, SerialInv, OldIsLive
  <2>3. OldIsKs' /\ OldIsLive'
    BY <1>1, <2>1 DEF OldIsKs, OldIsLive, Busy, Resetting
  <2>4. \A u \in Tasks : ~ Pending(u) /\ (taskPc[u] = "delete_old" => u = t)
    BY <2>1 DEF Pending, Busy, Resetting
  <2>5. Owned'
    BY <2>1, <2>4 DEF Owned, SerialInv
  <2> QED
    BY <1>1, <1>2, <1>3, <2>2, <2>3, <2>5 DEF SerialInv
<1> QED
  BY <1>4, <1>5, <1>6, <1>7

(* On one core the schedule in use is live. *)
LEMMA SerialUse ==
  ASSUME ScheduleTypeInv, ScheduleInv, SerialInv
  PROVE  UsesLiveSchedule
BY DEF ScheduleInv, SerialInv, UsesLiveSchedule, InUse, KsLive, KsSet, Behind,
       Decrypting, Encrypting

(* Every step on one core keeps the invariant. *)
LEMMA SerialStep ==
  ASSUME cores = 1, ScheduleTypeInv, ScheduleInv, SerialInv, [ScheduleNext]_scheduleVars
  PROVE  SerialInv'
<1>1. ASSUME NEW t \in Tasks, Start(t)
      PROVE  SerialInv'
  <2>1. \A u \in Tasks \ {t} : taskPc[u] \notin Busy
    BY <1>1, OthersIdle
  <2>2. PICK label \in {"reconstruct", "next_result"} : Goto(t, label)
    BY <1>1 DEF Start
  <2>3. label \in Labels /\ garbled' = garbled
    BY <1>1 DEF Labels, Resetting, Encrypting, Start, SerialInv
  <2> QED
    BY <1>1, <2>1, <2>2, <2>3, SerialMove DEF Start
<1>2. ASSUME NEW t \in Tasks, EnclaveLost(t)
      PROVE  FALSE
  BY <1>2 DEF EnclaveLost, SerialInv
<1>3. ASSUME NEW t \in Tasks, Reconstruct(t) \/ ReadOld(t) \/ StoreNew(t) \/ DeleteOld(t)
      PROVE  SerialInv'
  <2>1. t \in Running
    BY <1>3 DEF Reconstruct, ReadOld, StoreNew, DeleteOld, At, Running, Resetting
  <2> QED
    BY <1>3, <2>1, OthersIdle, SerialReset
<1>4. ASSUME NEW t \in Tasks, NEW label \in {"next_block", "next_result"},
             OpenBlock(t, label)
      PROVE  SerialInv'
  <2>1. t \in Running /\ ks # 0
    BY <1>4 DEF OpenBlock, At, Running, Decrypting, Encrypting,
                ScheduleInv, KsSet, Behind
  <2>2. used' = [used EXCEPT ![t] = ks] /\ Goto(t, Opened(label))
    BY <1>4, <2>1 DEF OpenBlock
  <2>3. Opened(label) \in Labels \cap {"decrypt", "encrypt"}
    BY DEF Opened, Labels, Decrypting, Encrypting
  <2>4. used'[t] = ks /\ \A u \in Tasks \ {t} : used'[u] = used[u]
    BY <2>2 DEF ScheduleTypeInv, ScheduleTypeOK
  <2>5. taskPc[t] \in {"next_block", "next_result"}
    BY <1>4 DEF OpenBlock, At
  <2> QED
    BY <1>4, <2>1, <2>2, <2>3, <2>4, <2>5, OthersIdle, SerialMove DEF OpenBlock
<1>5. ASSUME NEW t \in Tasks, DecryptBlock(t)
      PROVE  SerialInv'
  <2>1. t \in Running /\ taskPc[t] = "decrypt"
    BY <1>5 DEF DecryptBlock, At, Running, Decrypting
  <2>2. PICK label \in {"next_block", "returned", "next_result"} : Goto(t, label)
    BY <1>5 DEF DecryptBlock, BlockFinished
  <2>3. label \in Labels
    BY DEF Labels, Ended, Decrypting, Encrypting
  <2> QED
    BY <1>5, <2>1, <2>2, <2>3, OthersIdle, SerialMove DEF DecryptBlock
<1>6. ASSUME NEW t \in Tasks, DecryptsGarbled(t)
      PROVE  FALSE
  BY <1>6, SerialUse DEF DecryptsGarbled, At, UsesLiveSchedule
<1>7. ASSUME NEW t \in Tasks, EncryptBlock(t)
      PROVE  SerialInv'
  <2>1. t \in Running /\ taskPc[t] = "encrypt" /\ used[t] \in live
    BY <1>7, SerialUse DEF EncryptBlock, At, Running, Encrypting, UsesLiveSchedule
  <2>2. garbled' = garbled
    BY <1>7, <2>1 DEF EncryptBlock
  <2>3. PICK label \in {"next_result", "returned"} : Goto(t, label)
    BY <1>7 DEF EncryptBlock, BlockFinished
  <2>4. label \in Labels
    BY DEF Labels, Ended, Encrypting
  <2> QED
    BY <1>7, <2>1, <2>2, <2>3, <2>4, OthersIdle, SerialMove DEF EncryptBlock
<1>8. CASE Prepare
  <2>1. \A t \in Tasks : taskPc[t] = "returned" /\ taskPc'[t] = "waiting"
    BY <1>8 DEF Prepare
  <2>2. UNCHANGED <<ks, live, enclaveState, garbled, new, old, used>>
    BY <1>8 DEF Prepare
  <2>3. Alone' /\ InUse' /\ OldIsKs' /\ OldIsLive'
    BY <2>1 DEF Alone, InUse, OldIsKs, OldIsLive, Running, Resetting, Decrypting, Encrypting
  <2>4. Owned'
    BY <2>1, <2>2 DEF Owned, Pending, SerialInv
  <2> QED
    BY <2>2, <2>3, <2>4 DEF SerialInv
<1>9. CASE UNCHANGED scheduleVars
  BY <1>9 DEF scheduleVars, SerialInv, Alone, InUse, OldIsKs, OldIsLive, Owned, Pending, Running
<1> QED
  BY <1>1, <1>2, <1>3, <1>4, <1>5, <1>6, <1>7, <1>8, <1>9 DEF ScheduleNext, EnclaveTaskStep

(* The number of cores does not change, so the invariant holds with one    *)
(* and says nothing with more.                                             *)
OneCoreInv == cores = 1 => SerialInv

LEMMA OneCoreStep ==
  ASSUME ScheduleTypeInv, ScheduleInv, OneCoreInv, [ScheduleNext]_scheduleVars
  PROVE  OneCoreInv'
<1>1. cores' = cores
  BY DEF ScheduleNext, EnclaveTaskStep, Prepare, Start, EnclaveLost, Reconstruct, ReadOld, StoreNew,
         DeleteOld, OpenBlock, DecryptBlock, DecryptsGarbled, EncryptBlock, scheduleVars
<1> QED
  BY <1>1, SerialStep DEF OneCoreInv

(* Initially and in every step. *)
LEMMA OneCoreInvariant == ScheduleSpec => [](ScheduleTypeInv /\ ScheduleInv /\ OneCoreInv)
<1>1. ScheduleInit => OneCoreInv
  BY SerialInit DEF OneCoreInv
<1> QED
  BY <1>1, ScheduleTypeInit, ScheduleTypeStep, ScheduleInvInit, ScheduleInvStep, OneCoreStep, PTL DEF ScheduleSpec

(* On one core, with any number of tasks, blocks and failures, every block *)
(* is decrypted and encrypted through a schedule that is there until it is *)
(* finished.                                                               *)
THEOREM BlocksKeepTheirSchedule == ScheduleSpec => []OneCoreUsesLiveSchedule
<1>1. ScheduleTypeInv /\ ScheduleInv /\ OneCoreInv => OneCoreUsesLiveSchedule
  BY SerialUse DEF OneCoreInv, OneCoreUsesLiveSchedule
<1> QED
  BY <1>1, OneCoreInvariant, PTL

(* On one core every result is encrypted with the key. *)
THEOREM ResultsAreUnderKey == ScheduleSpec => []OneCoreResultsUnderKey
<1>1. OneCoreInv => OneCoreResultsUnderKey
  BY DEF OneCoreInv, SerialInv, OneCoreResultsUnderKey
<1> QED
  BY <1>1, OneCoreInvariant, PTL

(* On one core no schedule is left behind when the tasks have ended. *)
THEOREM NothingLeaks == ScheduleSpec => []OneCoreLeaksNothing
<1>1. OneCoreInv => OneCoreLeaksNothing
  BY DEF OneCoreInv, SerialInv, OneCoreLeaksNothing, Owned, Pending, Running, Resetting
<1> QED
  BY <1>1, OneCoreInvariant, PTL
=============================================================================
