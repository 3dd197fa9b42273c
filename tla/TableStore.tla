----------------------------- MODULE TableStore -----------------------------
(***************************************************************************)
(* The outsourced tables and the data owner's QOutsource (QSP.scala), the  *)
(* one operation that writes them.                                         *)
(*                                                                         *)
(* A table is a directory with a directory data, one part file for each    *)
(* slice of the rows, and a file schema. The files are not replaced at     *)
(* once: QOutsource deletes the old ones, has Spark write the data, whose  *)
(* part files are moved into place one by one when the job commits, and    *)
(* writes the schema last. The owner may crash between any two steps, and  *)
(* nothing undoes what it has done by then; whoever runs it again starts   *)
(* from the beginning.                                                     *)
(*                                                                         *)
(* The n-th call for a table outsources its version n. Rows are numbers    *)
(* from 0; a part file holds an interval of them.                          *)
(***************************************************************************)
EXTENDS Integers

CONSTANTS
  Tables,
  NumRows,          \* rows of a table
  MaxSlices,        \* the largest spark.default.parallelism
  MaxOutsourcings,  \* bound on the calls of QOutsource for a table
  NoTable

ASSUME StoreAssumption ==
  /\ NumRows \in Nat
  /\ MaxSlices \in Nat \ {0}
  /\ MaxOutsourcings \in Nat
  /\ NoTable \notin Tables

VARIABLES
  data,          \* per table: whether data exists, its part files by slice
  schema,        \* per table: the version written, NoSchema or EmptySchema
  owner,         \* the call in progress
  outsourcings,  \* per table: the calls so far
  complete       \* per table: the version of the call that returned last, 0
                 \*   from the start of another on

storeVars == <<data, schema, owner, outsourcings, complete>>

Slices == 1 .. MaxSlices
Versions == 1 .. MaxOutsourcings

(* A part file, a version's rows from start up to but not including end.   *)
Part(version, start, end) == [version |-> version, start |-> start, end |-> end]
NoPart == Part(0, 0, 0)

NoSchema == 0
EmptySchema == -1   \* the file exists and nothing has been written to it

NoData == [exists |-> FALSE, parts |-> [i \in Slices |-> NoPart]]

Present(t) == {i \in Slices : data[t].parts[i] # NoPart}
RowsOf(part) == {row \in 0 .. NumRows - 1 : part.start <= row /\ row < part.end}

(* Fault: the end of a slice is rounded by itself.                         *)
positionsByLength(length, numSlices, i) ==
  [start |-> ((i - 1) * length) \div numSlices,
   end   |-> ((i - 1) * length) \div numSlices + length \div numSlices]

(* positions: where the i-th of the slices starts and ends.                *)
positions(length, numSlices, i) ==
  [start |-> ((i - 1) * length) \div numSlices,
   end   |-> (i * length) \div numSlices]

Slice(version, numSlices, i) ==
  LET pos == positions(NumRows, numSlices, i) IN Part(version, pos.start, pos.end)

WholeData(version, numSlices) ==
  [exists |-> TRUE,
   parts  |-> [i \in Slices |-> IF i <= numSlices THEN Slice(version, numSlices, i) ELSE NoPart]]

Idle == [pc |-> "idle", table |-> NoTable, slices |-> 0]

(* Each table is missing or as one call has left it.                       *)
StoreInit ==
  \E outsourced \in SUBSET {t \in Tables : MaxOutsourcings > 0}, numSlices \in Slices :
    /\ data = [t \in Tables |-> IF t \in outsourced THEN WholeData(1, numSlices) ELSE NoData]
    /\ schema = [t \in Tables |-> IF t \in outsourced THEN 1 ELSE NoSchema]
    /\ owner = Idle
    /\ outsourcings = [t \in Tables |-> IF t \in outsourced THEN 1 ELSE 0]
    /\ complete = outsourcings

At(pc) == owner.pc = pc
Goto(pc) == owner' = [owner EXCEPT !.pc = pc]
TheVersion == outsourcings[owner.table]

StartCall(t) ==
  /\ At("idle")
  /\ outsourcings[t] < MaxOutsourcings
  /\ \E numSlices \in Slices :
       owner' = [pc |-> "deleteData", table |-> t, slices |-> numSlices]
  /\ outsourcings' = [outsourcings EXCEPT ![t] = @ + 1]
  /\ complete' = [complete EXCEPT ![t] = 0]
  /\ UNCHANGED <<data, schema>>

(* The recursive delete takes file after file, the directory last.         *)
DeletePart ==
  /\ At("deleteData")
  /\ \E i \in Present(owner.table) :
       data' = [data EXCEPT ![owner.table].parts[i] = NoPart]
  /\ UNCHANGED <<schema, owner, outsourcings, complete>>

(* Fault: the part files of an earlier call stay.                          *)
DeleteDataDirOnly ==
  /\ At("deleteData")
  /\ data' = [data EXCEPT ![owner.table].exists = FALSE]
  /\ Goto("saveData")
  /\ UNCHANGED <<schema, outsourcings, complete>>

DeleteDataDir ==
  /\ At("deleteData")
  /\ Present(owner.table) = {}
  /\ data' = [data EXCEPT ![owner.table].exists = FALSE]
  /\ Goto("saveData")
  /\ UNCHANGED <<schema, outsourcings, complete>>

(* saveAsSequenceFile: a directory that exists would be an error.          *)
CreateDataDir ==
  /\ At("saveData")
  /\ ~ data[owner.table].exists
  /\ data' = [data EXCEPT ![owner.table].exists = TRUE]
  /\ Goto("commitData")
  /\ UNCHANGED <<schema, outsourcings, complete>>

(* The commit of the job moves the part files into place.                  *)
CommitPart ==
  /\ At("commitData")
  /\ \E i \in (1 .. owner.slices) \ Present(owner.table) :
       data' = [data EXCEPT ![owner.table].parts[i] = Slice(TheVersion, owner.slices, i)]
  /\ UNCHANGED <<schema, owner, outsourcings, complete>>

JobCommitted ==
  /\ At("commitData")
  /\ 1 .. owner.slices \subseteq Present(owner.table)
  /\ Goto("deleteSchema")
  /\ UNCHANGED <<data, schema, outsourcings, complete>>

DeleteSchema ==
  /\ At("deleteSchema")
  /\ schema' = [schema EXCEPT ![owner.table] = NoSchema]
  /\ Goto("createSchema")
  /\ UNCHANGED <<data, outsourcings, complete>>

CreateSchema ==
  /\ At("createSchema")
  /\ schema' = [schema EXCEPT ![owner.table] = EmptySchema]
  /\ Goto("writeSchema")
  /\ UNCHANGED <<data, outsourcings, complete>>

(* writeObject and close.                                                  *)
WriteSchema ==
  /\ At("writeSchema")
  /\ schema' = [schema EXCEPT ![owner.table] = TheVersion]
  /\ Goto("return")
  /\ UNCHANGED <<data, outsourcings, complete>>

Return ==
  /\ At("return")
  /\ complete' = [complete EXCEPT ![owner.table] = TheVersion]
  /\ owner' = Idle
  /\ UNCHANGED <<data, schema, outsourcings>>

(* Any step may be the last, a job that fails included.                    *)
Crash ==
  /\ ~ At("idle")
  /\ owner' = Idle
  /\ UNCHANGED <<data, schema, outsourcings, complete>>

StoreNext ==
  \/ \E t \in Tables : StartCall(t)
  \/ DeletePart \/ DeleteDataDir \/ CreateDataDir \/ CommitPart \/ JobCommitted
  \/ DeleteSchema \/ CreateSchema \/ WriteSchema \/ Return \/ Crash

StoreSpec == StoreInit /\ [][StoreNext]_storeVars

---------------------------------------------------------------------------
(* What whoever reads a table may rely on. *)

(* The table is one version, whole: every row is in one part file and only *)
(* one.                                                                    *)
IsWhole(t, version) ==
  /\ data[t].exists
  /\ \A i \in Present(t) : data[t].parts[i].version = version
  /\ \A row \in 0 .. NumRows - 1 :
       \E i \in Present(t) :
         /\ row \in RowsOf(data[t].parts[i])
         /\ \A j \in Present(t) \ {i} : row \notin RowsOf(data[t].parts[j])

(* When QOutsource has returned, the table is what it was called with,     *)
(* whatever an earlier call, one that crashed or one with more slices, has *)
(* left behind; the slices leave out no row and repeat none.               *)
ReturnedTableIsWhole ==
  \A t \in Tables : complete[t] # 0 => IsWhole(t, complete[t]) /\ schema[t] = complete[t]

(* Versions are never mixed, and a schema that can be read is never one    *)
(* for later data than there is, wherever earlier calls have crashed.      *)
DataNotOlderThanSchema ==
  \A t \in Tables :
    /\ \A i, j \in Present(t) : data[t].parts[i].version = data[t].parts[j].version
    /\ schema[t] \in Versions =>
         \A i \in Present(t) : schema[t] <= data[t].parts[i].version
=============================================================================
