--------------------------- MODULE ExternalSort ---------------------------
(***************************************************************************)
(* The external merge sort one enclave call runs over one partition        *)
(* (qexternal_sort in core/src/native/Enclave/QSort.cpp): every encrypted  *)
(* block is sorted on its own and becomes a run, then passes merge up to   *)
(* MAX_NUM_STREAMS runs at a time through a priority queue that holds one  *)
(* row per run, until one run is left.                                     *)
(*                                                                         *)
(* A block of the input is the set of its rows: the order rows have in a   *)
(* block is forgotten by std::sort. No block is empty, because the row     *)
(* writer only finishes blocks that hold rows. The runs are written and    *)
(* read through the writer and the readers of RowIO.                       *)
(***************************************************************************)
EXTENDS RowOrder, RowIO, SequencesExt

CONSTANTS
  MAX_NUM_STREAMS,   \* runs merged at a time
  MaxBlocks          \* bound on the encrypted blocks of the partition

ASSUME StreamsAssumption == MAX_NUM_STREAMS \in Nat /\ MAX_NUM_STREAMS >= 2
ASSUME BlocksAssumption == MaxBlocks \in Nat

VARIABLES
  blocks,      \* the input: a sequence of blocks
  pc,          \* "sort_blocks", "pass", "merge" or "done"
  sorted,      \* blocks sorted so far
  r,           \* the runs being read: a reader for each
  w,           \* the writer of sorted runs
  run_start,   \* runs of r before the group being merged
  queue,       \* the priority queue: the row it holds for each run of the group
  output       \* the blocks that are returned

vars == <<blocks, pc, sorted, r, w, run_start, queue, output>>

(* Every way to place rows into MaxBlocks blocks or nowhere, without an    *)
(* empty block before a filled one.                                        *)
BlockSequences ==
  LET Filled(place, b) == \E x \in Rows : place[x] = b
      Tight(place) == \A b \in 2 .. MaxBlocks : Filled(place, b) => Filled(place, b - 1)
      Blocks(place) == [b \in {c \in 1 .. MaxBlocks : Filled(place, c)} |->
                          {x \in Rows : place[x] = b}]
  IN  {Blocks(place) : place \in {p \in [Rows -> 0 .. MaxBlocks] : Tight(p)}}

InputRows == UNION {blocks[b] : b \in 1 .. Len(blocks)}

Init ==
  /\ blocks \in BlockSequences
  /\ pc = "sort_blocks"
  /\ sorted = 0
  /\ r = <<>>
  /\ w = QSortedRunsWriter
  /\ run_start = 0
  /\ queue = <<>>
  /\ output = <<>>

(* qsort_single_block: the next block becomes a run of its own, of one or  *)
(* more blocks.                                                            *)
SortBlock ==
  /\ pc = "sort_blocks"
  /\ sorted < Len(blocks)
  /\ \E run \in SortedEnumerations(blocks[sorted + 1]) :
       w' = finish_run(run_append_all(w, run))
  /\ sorted' = sorted + 1
  /\ UNCHANGED <<blocks, pc, r, run_start, queue, output>>

(* QSortedRunsReader::reset: a reader for every run.                       *)
RunReaders(runs) == [i \in 1 .. Len(runs) |-> QRowReader(runs[i])]

(* Fault: keeps the runs of the finished pass in the writer.               *)
ReadRunsBackUncleared ==
  /\ r' = RunReaders(w.runs)
  /\ run_start' = 0
  /\ pc' = "pass"
  /\ UNCHANGED <<w, output>>

(* The written runs become the runs to read, and the writer is cleared.    *)
ReadRunsBack ==
  /\ r' = RunReaders(w.runs)
  /\ w' = QSortedRunsWriter
  /\ run_start' = 0
  /\ pc' = "pass"
  /\ UNCHANGED output

(* as_row_writer()->output_buffer: what the container was finished with,   *)
(* which is the one run there is, or the blocks of no row. as_row_writer   *)
(* throws if there are more runs; it is called only if there are not.      *)
OutputSingleRun ==
  /\ w' = [w EXCEPT !.container = output_buffer(@)]
  /\ output' = w'.container.root
  /\ pc' = "done"
  /\ UNCHANGED <<r, run_start>>

FinishBlocks ==
  /\ pc = "sort_blocks"
  /\ sorted = Len(blocks)
  /\ IF Len(w.runs) <= 1 THEN OutputSingleRun ELSE ReadRunsBack
  /\ UNCHANGED <<blocks, sorted, queue>>

(* The runs run_start .. run_start + num_runs - 1, counted from 1.         *)
Group == {i \in 1 .. Len(r) : run_start < i /\ i <= run_start + MAX_NUM_STREAMS}

(* The queue is filled with the first row of each run of the group.        *)
BeginMerge ==
  /\ pc = "pass"
  /\ run_start < Len(r)
  /\ queue' = [i \in Group |-> next(r[i])]
  /\ r' = [i \in 1 .. Len(r) |-> IF i \in Group THEN after_next(r[i]) ELSE r[i]]
  /\ pc' = "merge"
  /\ UNCHANGED <<blocks, sorted, w, run_start, output>>

(* Fault: the comparator is not reversed, so the queue yields a maximum.   *)
IsTopUnreversed(i) == \A j \in DOMAIN queue : ~ less_than(queue[i], queue[j])

(* The comparator is less_than with its arguments swapped, so the top of   *)
(* the queue is a row that no other row of the queue is less than.         *)
IsTop(i) == \A j \in DOMAIN queue : ~ less_than(queue[j], queue[i])

(* Pop a row, append it to the run, and push its run's next row if any.    *)
MergeRow ==
  /\ pc = "merge"
  /\ \E i \in DOMAIN queue :
       /\ IsTop(i)
       /\ w' = run_append(w, queue[i])
       /\ IF has_next(r[i])
            THEN /\ queue' = [queue EXCEPT ![i] = next(r[i])]
                 /\ r' = [r EXCEPT ![i] = after_next(@)]
            ELSE /\ queue' = [j \in DOMAIN queue \ {i} |-> queue[j]]
                 /\ UNCHANGED r
  /\ UNCHANGED <<blocks, pc, sorted, run_start, output>>

(* The queue is empty: the run is finished, go to the next group.          *)
FinishRun ==
  /\ pc = "merge"
  /\ DOMAIN queue = {}
  /\ w' = finish_run(w)
  /\ run_start' = run_start + MAX_NUM_STREAMS
  /\ pc' = "pass"
  /\ UNCHANGED <<blocks, sorted, r, queue, output>>

(* Fault: reads a single remaining run back for one more pass.             *)
FinishPassAgain ==
  /\ pc = "pass"
  /\ run_start >= Len(r)
  /\ IF Len(w.runs) > 0 THEN ReadRunsBack ELSE OutputSingleRun
  /\ UNCHANGED <<blocks, sorted, queue>>

FinishPass ==
  /\ pc = "pass"
  /\ run_start >= Len(r)
  /\ IF Len(w.runs) > 1 THEN ReadRunsBack ELSE OutputSingleRun
  /\ UNCHANGED <<blocks, sorted, queue>>

Next ==
  SortBlock \/ FinishBlocks \/ BeginMerge \/ MergeRow \/ FinishRun \/ FinishPass

Spec     == Init /\ [][Next]_vars
FairSpec == Spec /\ WF_vars(Next)

---------------------------------------------------------------------------
(* Positions of x in a sequence of rows.                                   *)
At(x, rows) == {k \in 1 .. Len(rows) : rows[k] = x}

(* The rows appended since the last finished run.                          *)
OpenRun == FlattenSeq(w.container.enc_block_vector) \o w.container.rows_vector

(* Where row x is: in a block not sorted yet, in a run being read or       *)
(* written, at the head of the queue or in the run that is open.           *)
Places(x) ==
  UNION {
    {<<"block", b, 0>> : b \in {c \in sorted + 1 .. Len(blocks) : x \in blocks[c]}},
    UNION {{<<"r", i, j>> : j \in At(x, unread(r[i]))} : i \in 1 .. Len(r)},
    UNION {{<<"w", i, j>> : j \in At(x, FlattenSeq(w.runs[i]))} : i \in 1 .. Len(w.runs)},
    {<<"queue", i, 0>> : i \in {j \in DOMAIN queue : queue[j] = x}},
    {<<"open", 0, j>> : j \in At(x, OpenRun)}}

(* At every point of the sort each input row is in exactly one place: no   *)
(* pass drops a run, no refill of the queue and no step from one block to  *)
(* the next skips or repeats a row.                                        *)
RowsConserved ==
  pc # "done" => \A x \in InputRows : Cardinality(Places(x)) = 1

(* What makes the merge correct: every run is sorted across its blocks,    *)
(* and no row still to be merged into the current run is less than a row   *)
(* already appended.                                                       *)
MergeOrder ==
  /\ \A i \in 1 .. Len(r) : InOrder(unread(r[i]))
  /\ \A i \in 1 .. Len(w.runs) : InOrder(FlattenSeq(w.runs[i]))
  /\ InOrder(OpenRun)
  /\ \A i \in DOMAIN queue :
       /\ \A x \in ToSet(unread(r[i])) : ~ less_than(x, queue[i])
       /\ \A x \in ToSet(OpenRun) : ~ less_than(queue[i], x)

(* qexternal_merge reads the first row of every run of its group without   *)
(* asking whether there is one, and a reader goes on to a block without    *)
(* asking whether it holds one: neither the runs of a pass that has not    *)
(* reached them nor any block of a run may be empty.                       *)
UnreadRunsNotEmpty ==
  /\ pc = "pass" => \A i \in 1 .. Len(r) : run_start < i => has_next(r[i])
  /\ \A i \in 1 .. Len(r) : \A b \in ToSet(r[i].blocks) : b # <<>>

(* Every pass over the runs leaves fewer of them.                          *)
PassesShrink == [][pc = "pass" /\ pc' = "pass" => Len(r') < Len(r)]_vars

(* The external sort does what a sort promises: it returns, however many   *)
(* passes that takes, every row once and in order.                         *)
Sort == INSTANCE SortSpec WITH rows <- InputRows, result <- FlattenSeq(output),
                               returned <- (pc = "done")

ImplementsSort == Sort!Spec
=============================================================================
