------------------------------- MODULE RowIO -------------------------------
(***************************************************************************)
(* How the enclave writes and reads rows (core/src/native/Enclave          *)
(* /QFlatbuffersWriters.cpp and QFlatbuffersReaders.cpp): rows are         *)
(* collected until they fill a block, blocks are encrypted and collected   *)
(* until they are finished into one buffer, and a reader goes through the  *)
(* blocks of a buffer one after the other. Writers and readers are values  *)
(* here, which the modules of the operators keep in their variables.       *)
(*                                                                         *)
(* A block is the sequence of its rows, a buffer the sequence of its       *)
(* blocks. Encryption, encoding and the metadata are abstracted, and a     *)
(* block reaches MAX_BLOCK_SIZE after a number of rows instead of bytes.   *)
(***************************************************************************)
EXTENDS Naturals, Sequences

CONSTANT RowsPerBlock

ASSUME RowsPerBlockAssumption == RowsPerBlock \in Nat \ {0}

(* A QRowWriter: the rows of the block being written, the blocks not       *)
(* finished yet, and what enc_block_builder was last finished with.        *)
QRowWriter == [rows_vector |-> <<>>, enc_block_vector |-> <<>>,
               root |-> <<>>, finished |-> FALSE]

finish_block(w) ==
  [w EXCEPT !.enc_block_vector = Append(@, w.rows_vector), !.rows_vector = <<>>]

maybe_finish_block(w) ==
  IF Len(w.rows_vector) >= RowsPerBlock THEN finish_block(w) ELSE w

append(w, row) == maybe_finish_block([w EXCEPT !.rows_vector = Append(@, row)])

(* The writer after a row was appended for every element of rows.          *)
append_all(w, rows) ==
  LET after[i \in 0 .. Len(rows)] ==
        IF i = 0 THEN w ELSE append(after[i - 1], rows[i])
  IN  after[Len(rows)]

(* Fault: finishes a block whether or not it has rows.                     *)
finish_blocks_always(w) ==
  LET all == finish_block(w)
  IN  [all EXCEPT !.root = all.enc_block_vector, !.enc_block_vector = <<>>,
                  !.finished = TRUE]

(* No block is written for no row, so that no block is ever empty.         *)
finish_blocks(w) ==
  LET all == IF w.rows_vector # <<>> THEN finish_block(w) ELSE w
  IN  [all EXCEPT !.root = all.enc_block_vector, !.enc_block_vector = <<>>,
                  !.finished = TRUE]

(* Fault: finishes the blocks although that was done before.               *)
output_buffer_again(w) == finish_blocks(w)

(* The writer after output_buffer, whose result is the root then. A row    *)
(* that is appended to a finished writer is not part of a later buffer,    *)
(* unless clear() comes first.                                             *)
output_buffer(w) == IF w.finished THEN w ELSE finish_blocks(w)

(* A QSortedRunsWriter: a row writer and the buffers it was finished with. *)
QSortedRunsWriter == [container |-> QRowWriter, runs |-> <<>>]

run_append(w, row) == [w EXCEPT !.container = append(@, row)]

run_append_all(w, rows) == [w EXCEPT !.container = append_all(@, rows)]

finish_run(w) ==
  LET done == finish_blocks(w.container)
  IN  [container |-> done, runs |-> Append(w.runs, done.root)]

(* A QRowReader of a buffer stands before a row of a block.                *)
QRowReader(blocks) == [blocks |-> blocks, block_idx |-> 1, row_idx |-> 1]

block_has_next(r) ==
  r.block_idx <= Len(r.blocks) /\ r.row_idx <= Len(r.blocks[r.block_idx])

(* Fault: asks the block that is being read only.                          *)
has_next_in_block(r) == block_has_next(r)

has_next(r) == block_has_next(r) \/ r.block_idx < Len(r.blocks)

(* next() goes on to the next block if this one is read, without asking    *)
(* whether it holds a row.                                                 *)
at_row(r) ==
  IF block_has_next(r) THEN r ELSE [r EXCEPT !.block_idx = @ + 1, !.row_idx = 1]

next(r) == LET a == at_row(r) IN a.blocks[a.block_idx][a.row_idx]

after_next(r) == [at_row(r) EXCEPT !.row_idx = @ + 1]

(* What a reader has not read yet.                                         *)
unread(r) ==
  LET Rest(b) == SubSeq(r.blocks[b], IF b = r.block_idx THEN r.row_idx ELSE 1,
                        Len(r.blocks[b]))
      rest[b \in r.block_idx .. Len(r.blocks) + 1] ==
        IF b > Len(r.blocks) THEN <<>> ELSE Rest(b) \o rest[b + 1]
  IN  rest[r.block_idx]

(* The rows that `while (r.has_next()) r.next()` reads from a buffer.      *)
rows_read(blocks) ==
  LET step[i \in 0 .. Len(unread(QRowReader(blocks)))] ==
        IF i = 0 THEN [r |-> QRowReader(blocks), rows |-> <<>>]
        ELSE IF ~ has_next(step[i - 1].r) THEN step[i - 1]
        ELSE [r    |-> after_next(step[i - 1].r),
              rows |-> Append(step[i - 1].rows, next(step[i - 1].r))]
  IN  step[Len(unread(QRowReader(blocks)))].rows
============================================================================
