---------------------------- MODULE EnclaveCall ----------------------------
(***************************************************************************)
(* The calls that the tasks of an executor make into its enclave: the JNI  *)
(* bridges of core/src/native/App/App.cpp, the ecalls of Enclave.cpp, and  *)
(* what qfilter and qproject compute.                                      *)
(*                                                                         *)
(* An ecall ends well, or in a std::runtime_error that its catch clause    *)
(* turns into a pending Java exception, or in an exception of another      *)
(* class or a fault, for which SGX gives up the enclave: it and every      *)
(* later call return an error status. The bridge goes on after each of     *)
(* them and returns an array made of what is in the output buffer;         *)
(* OpaqueException is thrown when it has returned.                         *)
(*                                                                         *)
(* The rows of the tables are numbered; a block is a function from row     *)
(* numbers to sequences of fields. The operator of a query is applied to   *)
(* rows as they are stored. Encryption is abstracted to the keys that the  *)
(* enclave has.                                                            *)
(***************************************************************************)
EXTENDS Expression, FiniteSets

CONSTANTS
  Callers,       \* the tasks that may call
  Content,       \* the fields of each row that is stored
  Exprs,         \* the nodes of the queries' expressions
  TCSNum,        \* threads the enclave takes at a time
  MaxRestarts,   \* bound on the executors lost
  MaxFaults      \* bound on the calls that fail for want of memory

ASSUME CallAssumption ==
  TCSNum \in Nat \ {0} /\ MaxRestarts \in Nat /\ MaxFaults \in Nat

ASSUME ContentAssumption ==
  DOMAIN Content \subseteq Nat /\ \A x \in DOMAIN Content : WellFormed(Exprs, Content[x])

VARIABLES
  executor,   \* its JVM, its enclave and whether that enclave has been attested
  calls,      \* per caller: its call
  faults

callVars == <<executor, calls, faults>>

NoCall == [pc |-> "none"]
NoBlock == <<>>

CallInit ==
  /\ executor = [jvm |-> 0, enclave |-> "running", attested |-> TRUE]
  /\ calls = [c \in Callers |-> NoCall]
  /\ faults = 0

Inside == {c \in Callers : calls[c].pc = "inside"}

---------------------------------------------------------------------------
(* What the ecalls compute. *)

Ok(block) == [outcome |-> "ok", block |-> block]
Fails(outcome) == [outcome |-> outcome, block |-> NoBlock]

(* Each expression on each row.                                            *)
EvalOnRow ==
  [expr \in DOMAIN Exprs |-> [x \in DOMAIN Content |-> Eval(Exprs, Content[x], expr)]]

(* Every row in its order; the first that throws ends the call.            *)
FirstThrown(results) ==
  results[CHOOSE x \in DOMAIN results :
            /\ results[x].type = "throws"
            /\ \A y \in DOMAIN results : results[y].type = "throws" => x <= y].value

(* A condition has to give a Boolean that is not null.                     *)
Condition(f) ==
  IF f.type # "throws" /\ (f.type # "BooleanField" \/ f.is_null)
    THEN Throws("runtime_error") ELSE f

QFilter(expr, block) ==
  LET results  == [x \in DOMAIN block |-> Condition(EvalOnRow[expr][x])]
      keep_row == {x \in DOMAIN block : results[x].value}
  IN  IF \E x \in DOMAIN block : results[x].type = "throws"
        THEN Fails(FirstThrown(results))
        ELSE Ok([x \in keep_row |-> block[x]])

QProject(expr, block) ==
  LET results == [x \in DOMAIN block |-> EvalOnRow[expr][x]]
  IN  IF \E x \in DOMAIN block : results[x].type = "throws"
        THEN Fails(FirstThrown(results))
        ELSE Ok([x \in DOMAIN block |-> <<results[x]>>])

(* Fault: an enclave without keys copies the rows all the same.            *)
EcallWithoutKeys(op, block) ==
  CASE op.name = "QFilter"  -> QFilter(op.expr, block)
    [] op.name = "QProject" -> QProject(op.expr, block)
    [] OTHER                -> Ok(block)

(* ACPolicyApplied and ResPrepared copy the rows; QPartitionForSort parts  *)
(* them. Without attestation there is no pairing to read sk_b with, which  *)
(* is a fault, and no rdd_ks, which the others ask for.                    *)
Ecall(op, block) ==
  IF ~ executor.attested
    THEN Fails(IF op.name = "ACPolicyApplied" THEN "fault" ELSE "runtime_error")
  ELSE CASE op.name = "QFilter"  -> QFilter(op.expr, block)
         [] op.name = "QProject" -> QProject(op.expr, block)
         [] OTHER                -> Ok(block)

---------------------------------------------------------------------------
(* The bridge. *)

(* Fault: the bridge does not look at the status of the call.              *)
JniReturnUnchecked(op, block, status, thrown, output) ==
  [pc |-> "returned", op |-> op, input |-> block, exception |-> thrown, output |-> output]

(* sgx_check throws for a bad status; the array holds what was output.     *)
JniReturn(op, block, status, thrown, output) ==
  [pc |-> "returned", op |-> op, input |-> block,
   exception |-> thrown \/ status # "SGX_SUCCESS", output |-> output]

(* An executor that died comes back with an enclave of its own, started    *)
(* by the first task that asks for it and attested by nobody.              *)
LostExecutor == [jvm |-> executor.jvm + 1, enclave |-> "none", attested |-> FALSE]

LoseExecutor ==
  /\ executor.jvm < MaxRestarts
  /\ executor' = LostExecutor
  /\ calls' = [c \in Callers |-> NoCall]
  /\ UNCHANGED faults

(* The call comes back to its task without a result. After a failed call   *)
(* QPartitionForSort makes arrays of lengths that nothing wrote and frees  *)
(* pointers that nothing wrote, which the process may not survive.         *)
ReturnNothing(c, op, block, status, thrown, enclave) ==
  \/ /\ calls' = [calls EXCEPT ![c] = JniReturn(op, block, status, thrown, NoBlock)]
     /\ executor' = [executor EXCEPT !.enclave = enclave]
  \/ /\ op.name = "QPartitionForSort"
     /\ executor.jvm < MaxRestarts
     /\ executor' = LostExecutor
     /\ calls' = [k \in Callers |-> NoCall]

(* initEnclave: one thread at a time asks for the enclave of the JVM; it   *)
(* is started once, whatever becomes of it.                                *)
initEnclave == IF executor.enclave = "none" THEN "running" ELSE executor.enclave

(* Fault: the enclave takes any number of threads.                         *)
EnterUncounted(c, op, block) ==
  /\ calls[c].pc = "none"
  /\ initEnclave = "running"
  /\ executor' = [executor EXCEPT !.enclave = "running"]
  /\ calls' = [calls EXCEPT ![c] =
                 [pc |-> "inside", op |-> op, input |-> block,
                  result |-> Ecall(op, block)]]
  /\ UNCHANGED faults

Enter(c, op, block) ==
  /\ calls[c].pc = "none"
  /\ initEnclave = "running"
  /\ Cardinality(Inside) < TCSNum
  /\ executor' = [executor EXCEPT !.enclave = "running"]
  /\ calls' = [calls EXCEPT ![c] =
                 [pc |-> "inside", op |-> op, input |-> block,
                  result |-> Ecall(op, block)]]
  /\ UNCHANGED faults

(* A crashed enclave lets nobody in, a full one no more threads.           *)
TurnedAway(c, op, block) ==
  /\ calls[c].pc = "none"
  /\ \/ initEnclave = "crashed"
     \/ Cardinality(Inside) >= TCSNum
  /\ ReturnNothing(c, op, block,
       IF initEnclave = "crashed" THEN "SGX_ERROR_ENCLAVE_CRASHED" ELSE "SGX_ERROR_OUT_OF_TCS",
       FALSE, initEnclave)
  /\ UNCHANGED faults

(* JNI has no byte array of the input: the ecall is not made.              *)
NoInputArray(c, op, block) ==
  /\ calls[c].pc = "none"
  /\ faults < MaxFaults
  /\ faults' = faults + 1
  /\ ReturnNothing(c, op, block, "SGX_SUCCESS", TRUE, initEnclave)

---------------------------------------------------------------------------
(* The end of an ecall. *)

LeaveOk(c) ==
  /\ calls[c].pc = "inside"
  /\ calls[c].result.outcome = "ok"
  /\ calls' = [calls EXCEPT ![c] =
                 JniReturn(@.op, @.input, "SGX_SUCCESS", FALSE, @.result.block)]
  /\ UNCHANGED <<executor, faults>>

(* ocall_throw leaves an exception pending and the ecall returns well.     *)
LeaveThrowing(c) ==
  /\ calls[c].pc = "inside"
  /\ calls[c].result.outcome = "runtime_error"
  /\ ReturnNothing(c, calls[c].op, calls[c].input, "SGX_SUCCESS", TRUE, executor.enclave)
  /\ UNCHANGED faults

(* What nothing catches, and a fault, are the end of the enclave.          *)
LeaveCrashing(c) ==
  /\ calls[c].pc = "inside"
  /\ calls[c].result.outcome \in {"logic_error", "fault"}
  /\ ReturnNothing(c, calls[c].op, calls[c].input, "SGX_ERROR_ENCLAVE_CRASHED", FALSE, "crashed")
  /\ UNCHANGED faults

(* A thread in an enclave that another one brought down.                   *)
LeaveCrashed(c) ==
  /\ calls[c].pc = "inside"
  /\ executor.enclave = "crashed"
  /\ ReturnNothing(c, calls[c].op, calls[c].input, "SGX_ERROR_ENCLAVE_CRASHED", FALSE, "crashed")
  /\ UNCHANGED faults

Leave(c) == LeaveOk(c) \/ LeaveThrowing(c) \/ LeaveCrashing(c) \/ LeaveCrashed(c)

(* The task takes the result, or fails with the exception.                 *)
Take(c) ==
  /\ calls[c].pc = "returned"
  /\ calls' = [calls EXCEPT ![c] = NoCall]
  /\ UNCHANGED <<executor, faults>>

Call(c, op, block) ==
  Enter(c, op, block) \/ TurnedAway(c, op, block) \/ NoInputArray(c, op, block)

---------------------------------------------------------------------------
(* What the tasks rely on. *)

SparkOnRow ==
  [expr \in DOMAIN Exprs |-> [x \in DOMAIN Content |-> SparkEval(Exprs, Content[x], expr)]]

AgreeOnRow ==
  [expr \in DOMAIN Exprs |-> {x \in DOMAIN Content : InAgreement(Exprs, Content[x], expr)}]

(* What Spark makes of the block with the same operator.                   *)
SparkResult(op, block) ==
  CASE op.name = "QFilter" ->
         LET True(f) == ~ f.is_null /\ f.value
         IN  [x \in {y \in DOMAIN block : True(SparkOnRow[op.expr][y])} |-> block[x]]
    [] op.name = "QProject" -> [x \in DOMAIN block |-> <<SparkOnRow[op.expr][x]>>]
    [] OTHER -> block

SameBlock(b1, b2) ==
  /\ DOMAIN b1 = DOMAIN b2
  /\ \A x \in DOMAIN b1 :
       /\ Len(b1[x]) = Len(b2[x])
       /\ \A k \in 1 .. Len(b1[x]) : SameField(b1[x][k], b2[x][k])

(* No row of the block meets one of the departures from Spark.             *)
BlockInAgreement(op, block) ==
  op.name \in {"QFilter", "QProject"} => DOMAIN block \subseteq AgreeOnRow[op.expr]

(* A call that comes back without an exception brings what Spark would     *)
(* have computed, and never the empty or partial output of an ecall that   *)
(* failed, whichever thread brought the enclave down and at what time.     *)
ResultOrException ==
  \A c \in Callers :
    calls[c].pc = "returned" /\ ~ calls[c].exception /\ BlockInAgreement(calls[c].op, calls[c].input)
      => SameBlock(calls[c].output, SparkResult(calls[c].op, calls[c].input))
=============================================================================
