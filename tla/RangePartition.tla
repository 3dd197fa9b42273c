-------------------------- MODULE RangePartition --------------------------
(***************************************************************************)
(* The two enclave calls that implement range partitioning, one loop       *)
(* iteration per step (core/src/native/Enclave/QSort.cpp):                 *)
(*                                                                         *)
(*   - qfind_range_bounds scans the sorted sample and keeps every          *)
(*     (num_rows_per_part + 1)-th row as a boundary;                       *)
(*   - qpartition_for_sort scans one sorted input partition and cuts it at *)
(*     the boundaries, writing each finished range through the pointer     *)
(*     array output_partition_ptrs, which the caller allocated with        *)
(*     num_partitions entries.                                             *)
(*                                                                         *)
(* A row is its sort key: an integer standing for its place in the order   *)
(* that FlatbuffersSortOrderEvaluator::less_than induces on rows.          *)
(* Encryption, block cutting and the trust-proof metadata are abstracted.  *)
(***************************************************************************)
EXTENDS Ranges

CONSTANTS
  Keys,             \* the sort keys rows may have
  RangeCounts,      \* the values of num_partitions
  MaxSample,        \* bound on the rows in the collected sample
  MaxInput          \* bound on the rows in the partition being cut

ASSUME KeysAssumption == Keys \subseteq Int
ASSUME RangeCountsAssumption == RangeCounts \subseteq Nat \ {0}
ASSUME MaxAssumption == MaxSample \in Nat /\ MaxInput \in Nat

VARIABLES
  num_partitions,
  pc,                    \* which loop is running
  sample,                \* the sample after qexternal_sort
  read,                  \* rows consumed by the reader r of the running loop
  current_rows_in_part,
  bounds,                \* the boundary rows appended so far
  input,                 \* the partition to cut, after qexternal_sort
  b_read,                \* boundary rows consumed; b_upper is the last of them
  b_open,                \* b_upper is not nullptr
  pending,               \* rows in the writer w, not yet written out
  output_partition_idx,
  output                 \* what was written through output_partition_ptrs

inputVars     == <<num_partitions, sample, input>>
boundVars     == <<current_rows_in_part, bounds>>
cutVars       == <<b_read, b_open, pending, output_partition_idx, output>>
partitionVars == <<inputVars, pc, read, boundVars, cutVars>>

SortedUpTo(n) == {s \in UNION {[1 .. m -> Keys] : m \in 0 .. n} : Nondecreasing(s)}

(* Fault: the remainder of the division gets a boundary too.               *)
RowsPerPartRoundedDown == Len(sample) \div (num_partitions + 1)

num_rows_per_part == Len(sample) \div num_partitions

PartitionInit ==
  /\ num_partitions \in RangeCounts
  /\ sample \in SortedUpTo(MaxSample)
  /\ input \in SortedUpTo(MaxInput)
  /\ pc = "find_range_bounds"
  /\ read = 0
  /\ current_rows_in_part = 0
  /\ bounds = <<>>
  /\ b_read = 0
  /\ b_open = FALSE
  /\ pending = <<>>
  /\ output_partition_idx = 0
  /\ output = <<>>

---------------------------------------------------------------------------
(* qfind_range_bounds *)

(* Fault: counts the boundary row itself as the first row of its range.    *)
RangeFullEarly == current_rows_in_part + 1 >= num_rows_per_part

RangeFull == current_rows_in_part = num_rows_per_part

EmitBoundary ==
  /\ pc = "find_range_bounds"
  /\ read < Len(sample)
  /\ RangeFull
  /\ bounds' = Append(bounds, sample[read + 1])
  /\ current_rows_in_part' = 0
  /\ read' = read + 1
  /\ UNCHANGED <<inputVars, pc, cutVars>>

SkipSampledRow ==
  /\ pc = "find_range_bounds"
  /\ read < Len(sample)
  /\ ~ RangeFull
  /\ current_rows_in_part' = current_rows_in_part + 1
  /\ read' = read + 1
  /\ UNCHANGED <<inputVars, pc, bounds, cutVars>>

(* The boundaries are returned, and the second call reads the first one.   *)
StartCutting ==
  /\ pc = "find_range_bounds"
  /\ read = Len(sample)
  /\ pc' = "cut"
  /\ read' = 0
  /\ b_open' = (bounds # <<>>)
  /\ b_read' = IF bounds # <<>> THEN 1 ELSE 0
  /\ UNCHANGED <<inputVars, boundVars, pending, output_partition_idx, output>>

---------------------------------------------------------------------------
(* qpartition_for_sort *)

b_upper == bounds[b_read]

(* w.output_buffer into the current slot, w.clear, next slot.              *)
WriteOutPartition ==
  /\ output' = Append(output, pending)
  /\ pending' = <<>>
  /\ output_partition_idx' = output_partition_idx + 1

(* Fault: a row equal to the boundary stays in the lower range.            *)
PastUpperBoundaryInclusive == b_open /\ b_upper < input[read + 1]

PastUpperBoundary == b_open /\ ~ (input[read + 1] < b_upper)

(* b_upper.set(b.has_next() ? b.next() : nullptr). *)
NextUpperBoundary ==
  IF b_read < Len(bounds)
    THEN b_read' = b_read + 1 /\ b_open' = TRUE
    ELSE b_read' = b_read /\ b_open' = FALSE

(* The inner loop: the row just read is not below b_upper.                 *)
AdvanceBoundary ==
  /\ pc = "cut"
  /\ read < Len(input)
  /\ PastUpperBoundary
  /\ NextUpperBoundary
  /\ WriteOutPartition
  /\ UNCHANGED <<inputVars, pc, read, boundVars>>

AppendRow ==
  /\ pc = "cut"
  /\ read < Len(input)
  /\ ~ PastUpperBoundary
  /\ pending' = Append(pending, input[read + 1])
  /\ read' = read + 1
  /\ UNCHANGED <<inputVars, pc, boundVars, b_read, b_open,
                 output_partition_idx, output>>

(* Fault: only the empty ranges are padded, the rows left in w are not     *)
(* written out.                                                            *)
PadWithEmptyPartitions ==
  /\ pc = "cut"
  /\ read = Len(input)
  /\ output_partition_idx < num_partitions
  /\ output' = Append(output, <<>>)
  /\ output_partition_idx' = output_partition_idx + 1
  /\ UNCHANGED <<inputVars, pc, read, boundVars, b_read, b_open, pending>>

(* Fault: pads until more than num_partitions slots were written.          *)
PadPartitionsInclusive ==
  /\ pc = "cut"
  /\ read = Len(input)
  /\ output_partition_idx <= num_partitions
  /\ WriteOutPartition
  /\ UNCHANGED <<inputVars, pc, read, boundVars, b_read, b_open>>

(* The rows left in w, then empty partitions until there are enough.       *)
PadPartitions ==
  /\ pc = "cut"
  /\ read = Len(input)
  /\ output_partition_idx < num_partitions
  /\ WriteOutPartition
  /\ UNCHANGED <<inputVars, pc, read, boundVars, b_read, b_open>>

(* Fault: waits for every boundary row to have been passed.                *)
ReturnAfterLastBoundary ==
  /\ pc = "cut"
  /\ read = Len(input)
  /\ output_partition_idx >= num_partitions
  /\ ~ b_open
  /\ pc' = "done"
  /\ UNCHANGED <<inputVars, read, boundVars, cutVars>>

Return ==
  /\ pc = "cut"
  /\ read = Len(input)
  /\ output_partition_idx >= num_partitions
  /\ pc' = "done"
  /\ UNCHANGED <<inputVars, read, boundVars, cutVars>>

PartitionNext ==
  \/ EmitBoundary \/ SkipSampledRow \/ StartCutting
  \/ AdvanceBoundary \/ AppendRow \/ PadPartitions \/ Return

PartitionSpec     == PartitionInit /\ [][PartitionNext]_partitionVars
PartitionFairSpec == PartitionSpec /\ WF_partitionVars(PartitionNext)

---------------------------------------------------------------------------
(* The type invariant. *)
PartitionTypeOK ==
  /\ num_partitions \in RangeCounts
  /\ sample \in Seq(Keys)
  /\ input \in Seq(Keys)
  /\ pc \in {"find_range_bounds", "cut", "done"}
  /\ read \in Nat
  /\ current_rows_in_part \in Nat
  /\ bounds \in Seq(Keys)
  /\ b_read \in 0 .. Len(bounds)
  /\ b_open \in BOOLEAN
  /\ pending \in Seq(Keys)
  /\ output_partition_idx \in Nat
  /\ output \in Seq(Seq(Keys))

(* qfind_range_bounds never returns as many boundaries as there are        *)
(* partitions: however the sample size and the partition count divide, k   *)
(* boundaries make k + 1 ranges and every range has a partition.           *)
FewerBoundsThanPartitions == Len(bounds) < num_partitions

(* qpartition_for_sort never writes output_partition_ptrs beyond its       *)
(* num_partitions entries, and when it returns every entry was written.    *)
WritesInBounds ==
  /\ Len(output) = output_partition_idx
  /\ output_partition_idx <= num_partitions
  /\ pc = "done" => output_partition_idx = num_partitions

(* Every row written out by qpartition_for_sort, or pending in its writer, *)
(* is in the slot of its own range: the same key goes to the same slot in  *)
(* every input partition, whatever rows surround it there.                 *)
RowsInOwnRange ==
  /\ \A i \in 1 .. Len(output) : \A j \in 1 .. Len(output[i]) :
        InRange(output[i][j], i - 1, bounds)
  /\ \A j \in 1 .. Len(pending) :
        InRange(pending[j], output_partition_idx, bounds)

(* When the call returns every slot holds the input rows of its range, all *)
(* of them and in their order: no row is lost at a boundary, in the last   *)
(* range or among the empty ranges.                                        *)
CutIsExact ==
  pc = "done" => \A i \in 1 .. Len(output) :
                    IsRangeOf(output[i], input, Len(input), i - 1, bounds)

(* The boundaries returned are the rows that end every stretch of          *)
(* num_rows_per_part + 1 sampled rows: none is missed at the end of the    *)
(* sample, and the ranges hold even shares of it.                          *)
BoundariesExact ==
  pc # "find_range_bounds" => bounds = Boundaries(sample, num_partitions)

(* Both calls return. *)
Termination == <>(pc = "done")
=============================================================================
