-------------------------- MODULE RangeSortProofs --------------------------
(***************************************************************************)
(* The two enclave calls that cut ranges. For every set of keys, partition *)
(* count, sample and input: the range boundaries are fewer than the        *)
(* partitions and are the ones Ranges names, the cut stays inside the      *)
(* pointer array, every row lands in the slot of its own range, and every  *)
(* slot holds all rows of its range, in order.                             *)
(*                                                                         *)
(* The distributed sort. For every table, order, number of partitions and  *)
(* every loss of map outputs: the partitions of the sorted RDD are ranges, *)
(* each is one block, and no row is lost or put into two partitions.       *)
(* Together they are the rows in order, cut at the boundaries of some      *)
(* sample, and what is collected from them is what a sort promises.        *)
(***************************************************************************)
EXTENDS RangePartition, RangeSort, CommonLemmas, SequenceTheorems, FiniteSetTheorems

---------------------------------------------------------------------------
(* The sorted sequences chosen for sample and input are what their names   *)
(* say, whatever the bounds on their length.                               *)
LEMMA SortedSeqs ==
  ASSUME NEW n \in Nat, NEW s \in SortedUpTo(n)
  PROVE  s \in Seq(Keys) /\ Nondecreasing(s)
<1>1. PICK m \in 0 .. n : s \in [1 .. m -> Keys]
  BY DEF SortedUpTo
<1>2. s \in Seq(Keys)
  BY <1>1
<1>3. QED BY <1>2 DEF SortedUpTo

---------------------------------------------------------------------------
(* The strengthening. Every sampled row read so far is a boundary or lies  *)
(* between two of them, which ties the number of boundaries to the number  *)
(* of rows read; b_upper is the boundary above the range being filled; the *)
(* rows still to be cut are not below that range.                          *)

stride == num_rows_per_part + 1

Counting ==
  /\ Len(bounds) * stride <= Len(sample)
  /\ pc = "find_range_bounds" =>
       /\ read <= Len(sample)
       /\ read = Len(bounds) * stride + current_rows_in_part
       /\ current_rows_in_part <= num_rows_per_part

Spacing ==
  \A i \in 1 .. Len(bounds) : i * stride \in 1 .. Len(sample)
                             /\ bounds[i] = sample[i * stride]

BoundInv ==
  /\ PartitionTypeOK
  /\ Nondecreasing(sample)
  /\ Nondecreasing(input)
  /\ Counting
  /\ Spacing

THEOREM BoundInvariant == PartitionSpec => []BoundInv
<1>1. PartitionInit => BoundInv
  <2> SUFFICES ASSUME PartitionInit PROVE BoundInv
    OBVIOUS
  <2>1. /\ sample \in Seq(Keys) /\ Nondecreasing(sample)
        /\ input \in Seq(Keys) /\ Nondecreasing(input)
    BY SortedSeqs, MaxAssumption DEF PartitionInit
  <2>2. num_rows_per_part \in Nat
    BY DivBound, <2>1, RangeCountsAssumption DEF PartitionInit, num_rows_per_part
  <2>3. PartitionTypeOK
    <3>1. <<>> \in Seq(Keys) /\ <<>> \in Seq(Seq(Keys)) /\ Len(<<>>) = 0
      OBVIOUS
    <3>2. b_read \in 0 .. Len(bounds) /\ bounds \in Seq(Keys)
      BY <3>1 DEF PartitionInit
    <3>3. pending \in Seq(Keys) /\ output \in Seq(Seq(Keys))
      BY <3>1 DEF PartitionInit
    <3>4. QED BY <2>1, <3>2, <3>3 DEF PartitionInit, PartitionTypeOK
  <2>4. Counting /\ Spacing
    BY <2>1, <2>2 DEF PartitionInit, Counting, Spacing, stride
  <2>5. QED
    BY <2>1, <2>3, <2>4 DEF BoundInv
<1>2. BoundInv /\ [PartitionNext]_partitionVars => BoundInv'
  <2> SUFFICES ASSUME BoundInv, [PartitionNext]_partitionVars PROVE BoundInv'
    OBVIOUS
  <2> USE DEF BoundInv, inputVars, boundVars, cutVars
  <2>n. /\ num_rows_per_part \in Nat
        /\ stride = num_rows_per_part + 1
        /\ stride \in Nat
        /\ Len(sample) \in Nat /\ Len(bounds) \in Nat
        /\ Len(bounds) * stride \in Nat
    BY DivBound, RangeCountsAssumption DEF PartitionTypeOK, stride, num_rows_per_part
  <2>1. CASE EmitBoundary
    <3>1. PartitionTypeOK'
      BY <2>1 DEF EmitBoundary, PartitionTypeOK
    <3>2. stride' = stride /\ sample' = sample /\ input' = input
      BY <2>1 DEF EmitBoundary, stride, num_rows_per_part
    <3>3. /\ Len(bounds') = Len(bounds) + 1
          /\ read + 1 = (Len(bounds) + 1) * stride
      <4>1. read + 1 = Len(bounds) * stride + stride
        BY <2>1, <2>n DEF EmitBoundary, RangeFull, Counting, PartitionTypeOK
      <4>2. (Len(bounds) + 1) * stride = Len(bounds) * stride + stride
        BY <2>n
      <4>3. QED BY <4>1, <4>2, <2>1 DEF EmitBoundary, PartitionTypeOK
    <3>4. Counting'
      <4>1. Len(bounds') * stride' = read'
        BY <3>2, <3>3, <2>1, <2>n DEF EmitBoundary
      <4>2. /\ read' \in Nat /\ read' <= Len(sample') /\ current_rows_in_part' = 0
            /\ num_rows_per_part' = num_rows_per_part
        BY <2>1, <2>n, <3>1 DEF EmitBoundary, PartitionTypeOK, num_rows_per_part
      <4>3. QED BY <4>1, <4>2, <2>n DEF Counting
    <3>5. Spacing'
      <4>1. \A i \in 1 .. Len(bounds) : bounds'[i] = bounds[i]
        BY <2>1 DEF EmitBoundary, PartitionTypeOK
      <4>2. bounds'[Len(bounds) + 1] = sample[read + 1]
        BY <2>1 DEF EmitBoundary, PartitionTypeOK
      <4>3. read + 1 \in 1 .. Len(sample)
        BY <2>1 DEF EmitBoundary, PartitionTypeOK
      <4>4. ASSUME NEW i \in 1 .. Len(bounds')
            PROVE  i * stride \in 1 .. Len(sample) /\ bounds'[i] = sample[i * stride]
        <5>1. CASE i \in 1 .. Len(bounds)
          BY <5>1, <4>1 DEF Spacing
        <5>2. CASE i = Len(bounds) + 1
          BY <5>2, <4>2, <4>3, <3>3
        <5>3. QED BY <5>1, <5>2, <3>3, <2>n
      <4>5. QED BY <4>4, <3>2 DEF Spacing
    <3>6. QED BY <3>1, <3>2, <3>4, <3>5 DEF Nondecreasing
  <2>2. CASE SkipSampledRow
    <3>1. PartitionTypeOK'
      BY <2>2 DEF SkipSampledRow, PartitionTypeOK
    <3>0. stride' = stride /\ num_rows_per_part' = num_rows_per_part
      BY <2>2 DEF SkipSampledRow, stride, num_rows_per_part
    <3>2. Counting'
      BY <2>2, <2>n, <3>0 DEF SkipSampledRow, RangeFull, Counting, PartitionTypeOK
    <3>3. Spacing'
      BY <2>2, <2>n, <3>0 DEF SkipSampledRow, Spacing
    <3>4. QED
      BY <2>2, <3>1, <3>2, <3>3 DEF SkipSampledRow, Nondecreasing
  <2>3. CASE StartCutting
    <3>1. PartitionTypeOK'
      BY <2>3 DEF StartCutting, PartitionTypeOK
    <3>2. QED
      BY <2>3, <3>1 DEF StartCutting, Counting, Spacing, stride, num_rows_per_part, Nondecreasing
  <2>4. CASE AdvanceBoundary
    <3>1. PartitionTypeOK'
      <4>1. output' \in Seq(Seq(Keys)) /\ pending' \in Seq(Keys)
        <5>1. output \in Seq(Seq(Keys)) /\ pending \in Seq(Keys)
          BY DEF PartitionTypeOK
        <5>2. Append(output, pending) \in Seq(Seq(Keys)) /\ <<>> \in Seq(Keys)
          BY <5>1
        <5>3. QED BY <5>2, <2>4 DEF AdvanceBoundary, WriteOutPartition
      <4>2. b_read' \in 0 .. Len(bounds) /\ b_open' \in BOOLEAN
        <5>1. /\ b_read \in 0 .. Len(bounds)
              /\ IF b_read < Len(bounds)
                   THEN b_read' = b_read + 1 /\ b_open' = TRUE
                   ELSE b_read' = b_read /\ b_open' = FALSE
          BY <2>4 DEF AdvanceBoundary, NextUpperBoundary, PartitionTypeOK
        <5>2. CASE b_read < Len(bounds)
          BY <5>1, <5>2, <2>n
        <5>3. CASE ~ (b_read < Len(bounds))
          BY <5>1, <5>3, <2>n
        <5>4. QED BY <5>2, <5>3
      <4>3. QED
        <5>1. /\ output_partition_idx' \in Nat
              /\ UNCHANGED <<num_partitions, sample, input, pc, read,
                             current_rows_in_part, bounds>>
          BY <2>4 DEF AdvanceBoundary, WriteOutPartition, PartitionTypeOK
        <5>2. QED BY <4>1, <4>2, <5>1 DEF PartitionTypeOK
    <3>2. QED
      BY <2>4, <3>1 DEF AdvanceBoundary, Counting, Spacing, stride, num_rows_per_part, Nondecreasing
  <2>5. CASE AppendRow
    <3>1. PartitionTypeOK'
      BY <2>5 DEF AppendRow, PartitionTypeOK
    <3>2. QED
      BY <2>5, <3>1 DEF AppendRow, Counting, Spacing, stride, num_rows_per_part, Nondecreasing
  <2>6. CASE PadPartitions
    <3>1. PartitionTypeOK'
      BY <2>6 DEF PadPartitions, WriteOutPartition, PartitionTypeOK
    <3>2. QED
      BY <2>6, <3>1 DEF PadPartitions, Counting, Spacing, stride, num_rows_per_part, Nondecreasing
  <2>7. CASE Return
    <3>1. PartitionTypeOK'
      BY <2>7 DEF Return, PartitionTypeOK
    <3>2. QED
      BY <2>7, <3>1 DEF Return, Counting, Spacing, stride, num_rows_per_part, Nondecreasing
  <2>8. CASE UNCHANGED partitionVars
    BY <2>8 DEF partitionVars, PartitionTypeOK, Counting, Spacing, stride, num_rows_per_part, Nondecreasing
  <2>9. QED
    BY <2>1, <2>2, <2>3, <2>4, <2>5, <2>6, <2>7, <2>8 DEF PartitionNext
<1>3. QED
  BY <1>1, <1>2, PTL DEF PartitionSpec

(* The type invariant, for every instance. *)
THEOREM TypeCorrect == PartitionSpec => []PartitionTypeOK
<1>1. BoundInv => PartitionTypeOK
  BY DEF BoundInv
<1>2. QED
  BY <1>1, BoundInvariant, PTL

(* The boundaries leave a partition for every range they make: the array   *)
(* output_partition_ptrs is long enough for any boundary rows this code    *)
(* computes.                                                               *)
LEMMA BoundsFit == BoundInv => FewerBoundsThanPartitions
<1> SUFFICES ASSUME BoundInv PROVE FewerBoundsThanPartitions
  OBVIOUS
<1>1. /\ num_partitions \in Nat \ {0}
      /\ Len(sample) \in Nat /\ Len(bounds) \in Nat
  BY RangeCountsAssumption DEF BoundInv, PartitionTypeOK
<1>2. stride \in Nat /\ Len(sample) < num_partitions * stride
  BY <1>1, DivBound DEF stride, num_rows_per_part
<1>3. Len(bounds) * stride < num_partitions * stride
  <2>1. Len(bounds) * stride \in Nat /\ num_partitions * stride \in Nat
    BY <1>1, <1>2
  <2>2. QED BY <1>1, <1>2, <2>1 DEF BoundInv, Counting
<1>4. QED
  BY <1>1, <1>2, <1>3, MulCancel DEF FewerBoundsThanPartitions

(* qfind_range_bounds always returns fewer boundaries than there are       *)
(* partitions.                                                             *)
THEOREM FewerBounds == PartitionSpec => []FewerBoundsThanPartitions
  BY BoundInvariant, BoundsFit, PTL

---------------------------------------------------------------------------
(* The boundaries come out in order, because the sample was sorted.        *)
LEMMA SortedBounds == BoundInv => Nondecreasing(bounds)
<1> SUFFICES ASSUME BoundInv, NEW i \in 1 .. Len(bounds), NEW j \in i .. Len(bounds)
             PROVE  bounds[i] <= bounds[j]
  BY DEF Nondecreasing
<1>0. /\ Len(sample) \in Nat /\ Len(bounds) \in Nat /\ num_partitions \in Nat \ {0}
  BY RangeCountsAssumption DEF BoundInv, PartitionTypeOK
<1>1. /\ stride \in Nat /\ j \in 1 .. Len(bounds) /\ i \in Nat /\ j \in Nat /\ i <= j
  BY <1>0, DivBound DEF stride, num_rows_per_part
<1>2. i * stride <= j * stride
  BY <1>1, MulMonotone
<1>3. /\ i * stride \in 1 .. Len(sample) /\ j * stride \in 1 .. Len(sample)
      /\ bounds[i] = sample[i * stride] /\ bounds[j] = sample[j * stride]
  BY <1>1 DEF BoundInv, Spacing
<1>4. j * stride \in (i * stride) .. Len(sample)
  BY <1>0, <1>2, <1>3
<1>5. QED
  BY <1>3, <1>4 DEF BoundInv, Nondecreasing

(* While rows remain to be cut, b_upper is the boundary just above the     *)
(* range being filled and no remaining row is below that range.            *)
ScanPosition ==
  (pc = "cut" /\ read < Len(input)) =>
    /\ b_open => b_read = output_partition_idx + 1 /\ b_read <= Len(bounds)
    /\ ~ b_open => output_partition_idx = Len(bounds)
    /\ \A i \in 1 .. Len(input) : \A j \in 1 .. Len(bounds) :
         (read < i /\ j <= output_partition_idx) => bounds[j] <= input[i]

NothingCutYet ==
  pc = "find_range_bounds" => /\ output = <<>> /\ pending = <<>>
                              /\ output_partition_idx = 0

CutInv == ScanPosition /\ NothingCutYet /\ WritesInBounds /\ RowsInOwnRange

(* Writing out the pending rows keeps both properties of the slots, as     *)
(* long as a slot is left.                                                 *)
LEMMA WriteOutSafe ==
  ASSUME BoundInv, CutInv, WriteOutPartition, pc' = "cut",
         output_partition_idx < num_partitions, UNCHANGED <<bounds, num_partitions>>
  PROVE  WritesInBounds' /\ RowsInOwnRange'
<1>1. /\ output \in Seq(Seq(Keys)) /\ pending \in Seq(Keys)
      /\ output_partition_idx \in Nat /\ num_partitions \in Nat
      /\ Len(output) = output_partition_idx
  BY RangeCountsAssumption DEF BoundInv, PartitionTypeOK, CutInv, WritesInBounds
<1>2. /\ Len(output') = Len(output) + 1
      /\ output'[Len(output) + 1] = pending
      /\ \A i \in 1 .. Len(output) : output'[i] = output[i]
      /\ pending' = <<>> /\ output_partition_idx' = output_partition_idx + 1
  BY <1>1 DEF WriteOutPartition
<1>3. WritesInBounds'
  BY <1>1, <1>2 DEF WritesInBounds
<1>4. ASSUME NEW i \in 1 .. Len(output'), NEW j \in 1 .. Len(output'[i])
      PROVE  InRange(output'[i][j], i - 1, bounds)
  <2>1. CASE i \in 1 .. Len(output)
    <3>1. output'[i] = output[i] /\ j \in 1 .. Len(output[i])
      BY <2>1, <1>2, <1>4
    <3>2. QED BY <2>1, <3>1 DEF CutInv, RowsInOwnRange
  <2>2. CASE i = Len(output) + 1
    <3>1. output'[i] = pending /\ i - 1 = output_partition_idx
      BY <2>2, <1>1, <1>2
    <3>2. QED BY <3>1, <1>4 DEF CutInv, RowsInOwnRange
  <2>3. QED BY <2>1, <2>2, <1>1, <1>2
<1>5. 1 .. Len(pending') = {} /\ bounds' = bounds
  BY <1>2
<1>6. ASSUME NEW k, NEW i
      PROVE  InRange(k, i, bounds)' = InRange(k, i, bounds')
  BY DEF InRange
<1>7. RowsInOwnRange'
  BY <1>4, <1>5 DEF RowsInOwnRange, InRange
<1>8. QED
  BY <1>3, <1>7

THEOREM CutInvariant == PartitionSpec => []CutInv
<1>1. PartitionInit => CutInv
  <2> SUFFICES ASSUME PartitionInit PROVE CutInv
    OBVIOUS
  <2>1. num_partitions \in Nat /\ Len(<<>>) = 0
    BY RangeCountsAssumption DEF PartitionInit
  <2>2. QED
    BY <2>1 DEF PartitionInit, CutInv, ScanPosition, NothingCutYet, WritesInBounds,
                RowsInOwnRange
<1>2. BoundInv /\ CutInv /\ [PartitionNext]_partitionVars => CutInv'
  <2> SUFFICES ASSUME BoundInv, CutInv, [PartitionNext]_partitionVars PROVE CutInv'
    OBVIOUS
  <2> USE DEF inputVars, boundVars, cutVars
  <2>n. /\ Nondecreasing(input) /\ Nondecreasing(bounds) /\ PartitionTypeOK
        /\ ScanPosition /\ NothingCutYet /\ WritesInBounds /\ RowsInOwnRange
        /\ Len(bounds) \in Nat /\ Len(input) \in Nat /\ num_partitions \in Nat
        /\ Len(bounds) < num_partitions
        /\ \A i \in 1 .. Len(bounds) : bounds[i] \in Int
        /\ \A i \in 1 .. Len(input) : input[i] \in Int
    <3>1. /\ Nondecreasing(input) /\ Nondecreasing(bounds) /\ PartitionTypeOK
          /\ Len(bounds) < num_partitions
      BY SortedBounds, BoundsFit DEF BoundInv, FewerBoundsThanPartitions
    <3>2. bounds \in Seq(Keys) /\ input \in Seq(Keys) /\ num_partitions \in Nat
      BY <3>1, RangeCountsAssumption DEF PartitionTypeOK
    <3>3. /\ \A i \in 1 .. Len(bounds) : bounds[i] \in Int
          /\ \A i \in 1 .. Len(input) : input[i] \in Int
      <4>1. ASSUME NEW s \in Seq(Keys), NEW i \in 1 .. Len(s) PROVE s[i] \in Int
        <5>1. s[i] \in Keys
          OBVIOUS
        <5>2. QED BY <5>1, KeysAssumption
      <4>2. QED BY <3>2, <4>1
    <3>4. QED BY <3>1, <3>2, <3>3 DEF CutInv
  <2>1. CASE EmitBoundary
    <3>1. /\ output = <<>> /\ pending = <<>> /\ output_partition_idx = 0
          /\ UNCHANGED <<output, pending, output_partition_idx, pc, num_partitions>>
          /\ pc = "find_range_bounds"
      BY <2>1, <2>n DEF EmitBoundary, NothingCutYet
    <3>2. QED
      BY <3>1, <2>n DEF CutInv, ScanPosition, NothingCutYet, WritesInBounds, RowsInOwnRange
  <2>2. CASE SkipSampledRow
    BY <2>2, <2>n DEF SkipSampledRow, CutInv, ScanPosition, NothingCutYet,
                      WritesInBounds, RowsInOwnRange
  <2>3. CASE StartCutting
    <3>1. WritesInBounds' /\ RowsInOwnRange' /\ NothingCutYet'
      BY <2>3, <2>n DEF StartCutting, NothingCutYet, WritesInBounds, RowsInOwnRange
    <3>2. ScanPosition'
      <4>1. /\ output_partition_idx' = 0 /\ bounds' = bounds
            /\ b_open' = (bounds # <<>>)
            /\ b_read' = IF bounds # <<>> THEN 1 ELSE 0
        BY <2>3, <2>n DEF StartCutting, NothingCutYet
      <4>2. bounds \in Seq(Keys)
        BY <2>n DEF PartitionTypeOK
      <4>3. bounds # <<>> => Len(bounds) >= 1
        BY <4>2
      <4>4. bounds = <<>> => Len(bounds) = 0
        BY <4>2
      <4>5. /\ b_open' => b_read' = 1 /\ 1 <= Len(bounds)
            /\ ~ b_open' => Len(bounds) = 0
        BY <4>1, <4>3, <4>4
      <4>6. \A j \in 1 .. Len(bounds) : ~ (j <= 0)
        BY <2>n
      <4>7. QED
        BY <4>1, <4>5, <4>6 DEF ScanPosition
    <3>3. QED BY <3>1, <3>2 DEF CutInv
  <2>4. CASE AdvanceBoundary
    <3>1. /\ b_open /\ ~ (input[read + 1] < b_upper)
          /\ b_read = output_partition_idx + 1 /\ b_read <= Len(bounds)
          /\ pc = "cut" /\ pc' = "cut" /\ read < Len(input) /\ read' = read
          /\ output_partition_idx' = output_partition_idx + 1
          /\ UNCHANGED <<num_partitions, input, bounds>>
          /\ WriteOutPartition
          /\ IF b_read < Len(bounds)
               THEN b_read' = b_read + 1 /\ b_open' = TRUE
               ELSE b_read' = b_read /\ b_open' = FALSE
      BY <2>4, <2>n DEF AdvanceBoundary, NextUpperBoundary, WriteOutPartition,
                        PastUpperBoundary, ScanPosition
    <3>2. /\ output_partition_idx \in Nat /\ read \in Nat /\ b_read \in Nat
          /\ output_partition_idx < num_partitions
      BY <3>1, <2>n DEF PartitionTypeOK
    <3>3. WritesInBounds' /\ RowsInOwnRange'
      BY <3>1, <3>2, WriteOutSafe
    <3>4. ASSUME NEW i \in 1 .. Len(input), NEW j \in 1 .. Len(bounds),
                 read < i, j <= output_partition_idx + 1
          PROVE  bounds[j] <= input[i]
      <4>1. CASE j <= output_partition_idx
        BY <4>1, <3>1, <3>4, <2>n DEF ScanPosition
      <4>2. CASE j = output_partition_idx + 1
        <5>1. bounds[j] <= input[read + 1]
          <6>1. bounds[j] = b_upper /\ read + 1 \in 1 .. Len(input)
            BY <4>2, <3>1, <3>2, <2>n DEF b_upper
          <6>2. QED BY <6>1, <3>1, <2>n
        <5>2. input[read + 1] <= input[i]
          BY <3>2, <3>4, <2>n DEF Nondecreasing
        <5>3. read + 1 \in 1 .. Len(input)
          BY <3>1, <3>2, <2>n
        <5>4. QED BY <5>1, <5>2, <5>3, <2>n
      <4>3. QED BY <3>4, <4>1, <4>2, <3>2, <2>n
    <3>5. /\ b_open' => b_read' = output_partition_idx' + 1 /\ b_read' <= Len(bounds)
          /\ ~ b_open' => output_partition_idx' = Len(bounds)
      <4>1. CASE b_read < Len(bounds)
        BY <4>1, <3>1, <3>2, <2>n
      <4>2. CASE ~ (b_read < Len(bounds))
        BY <4>2, <3>1, <3>2, <2>n
      <4>3. QED BY <4>1, <4>2
    <3>6. ScanPosition'
      BY <3>1, <3>4, <3>5 DEF ScanPosition
    <3>7. NothingCutYet'
      BY <3>1 DEF NothingCutYet
    <3>8. QED BY <3>3, <3>6, <3>7 DEF CutInv
  <2>5. CASE AppendRow
    <3>1. /\ pc = "cut" /\ pc' = "cut" /\ read < Len(input) /\ read' = read + 1
          /\ ~ PastUpperBoundary /\ pending' = Append(pending, input[read + 1])
          /\ UNCHANGED <<num_partitions, input, bounds, b_read, b_open,
                         output_partition_idx, output>>
      BY <2>5 DEF AppendRow
    <3>2. /\ read \in Nat /\ pending \in Seq(Keys) /\ read + 1 \in 1 .. Len(input)
          /\ output_partition_idx \in Nat
      BY <3>1, <2>n DEF PartitionTypeOK
    <3>3. InRange(input[read + 1], output_partition_idx, bounds)
      <4>0. output_partition_idx \in 0 .. Len(bounds)
        BY <3>1, <3>2, <2>n DEF ScanPosition
      <4>1. ASSUME NEW j \in 1 .. Len(bounds), j <= output_partition_idx
            PROVE  bounds[j] <= input[read + 1]
        BY <4>1, <3>1, <3>2, <2>n DEF ScanPosition
      <4>2. ASSUME NEW j \in 1 .. Len(bounds), output_partition_idx < j
            PROVE  input[read + 1] < bounds[j]
        <5>1. b_open /\ b_read = output_partition_idx + 1 /\ b_read <= Len(bounds)
          BY <4>2, <3>1, <3>2, <2>n DEF ScanPosition
        <5>2. input[read + 1] < bounds[b_read]
          BY <5>1, <3>1 DEF PastUpperBoundary, b_upper
        <5>3. b_read \in 1 .. Len(bounds) /\ j \in b_read .. Len(bounds)
          BY <5>1, <4>2, <3>2, <2>n
        <5>4. bounds[b_read] <= bounds[j]
          BY <5>3, <2>n DEF Nondecreasing
        <5>5. QED BY <5>2, <5>3, <5>4, <3>2, <2>n
      <4>3. QED BY <4>0, <4>1, <4>2 DEF InRange
    <3>4. RowsInOwnRange'
      <4>1. ASSUME NEW j \in 1 .. Len(pending')
            PROVE  InRange(pending'[j], output_partition_idx, bounds)
        <5>1. CASE j \in 1 .. Len(pending)
          <6>1. pending'[j] = pending[j]
            BY <5>1, <3>1, <3>2
          <6>2. QED BY <6>1, <5>1, <2>n DEF RowsInOwnRange
        <5>2. CASE j = Len(pending) + 1
          <6>1. pending'[j] = input[read + 1]
            BY <5>2, <3>1, <3>2
          <6>2. QED BY <6>1, <3>3
        <5>3. QED BY <5>1, <5>2, <3>1, <3>2
      <4>2. QED
        BY <4>1, <3>1, <2>n DEF RowsInOwnRange, InRange
    <3>5. WritesInBounds' /\ NothingCutYet'
      BY <3>1, <2>n DEF WritesInBounds, NothingCutYet
    <3>6. ScanPosition'
      BY <3>1, <3>2, <2>n DEF ScanPosition
    <3>7. QED BY <3>4, <3>5, <3>6 DEF CutInv
  <2>6. CASE PadPartitions
    <3>1. /\ WriteOutPartition /\ pc = "cut" /\ pc' = "cut"
          /\ output_partition_idx < num_partitions
          /\ read = Len(input)
          /\ UNCHANGED <<bounds, num_partitions, read, input>>
      BY <2>6 DEF PadPartitions
    <3>2. WritesInBounds' /\ RowsInOwnRange'
      BY <3>1, WriteOutSafe
    <3>3. ScanPosition' /\ NothingCutYet'
      BY <3>1, <2>n DEF ScanPosition, NothingCutYet
    <3>4. QED BY <3>2, <3>3 DEF CutInv
  <2>7. CASE Return
    BY <2>7, <2>n DEF Return, CutInv, ScanPosition, NothingCutYet, WritesInBounds,
                      RowsInOwnRange, PartitionTypeOK
  <2>8. CASE UNCHANGED partitionVars
    BY <2>8, <2>n DEF partitionVars, CutInv, ScanPosition, NothingCutYet, WritesInBounds,
                      RowsInOwnRange, InRange, b_upper
  <2>9. QED
    BY <2>1, <2>2, <2>3, <2>4, <2>5, <2>6, <2>7, <2>8 DEF PartitionNext
<1>3. QED
  BY <1>1, <1>2, BoundInvariant, PTL DEF PartitionSpec

(* The pointer array is never overrun, and it is completely written when   *)
(* the call returns.                                                       *)
THEOREM NoPointerOverrun == PartitionSpec => []WritesInBounds
<1>1. CutInv => WritesInBounds
  BY DEF CutInv
<1>2. QED
  BY <1>1, CutInvariant, PTL

(* A key always goes to the partition of its own range, in every input     *)
(* partition alike.                                                        *)
THEOREM KeysGoToTheirRange == PartitionSpec => []RowsInOwnRange
<1>1. CutInv => RowsInOwnRange
  BY DEF CutInv
<1>2. QED
  BY <1>1, CutInvariant, PTL
---------------------------------------------------------------------------
(* Every sampled row has been counted when the boundaries are returned.    *)
AllCounted ==
  pc # "find_range_bounds" =>
    /\ Len(sample) = Len(bounds) * stride + current_rows_in_part
    /\ current_rows_in_part \in 0 .. stride - 1

(* A quotient from its remainder. *)
LEMMA DivExact ==
  ASSUME NEW q \in Nat, NEW d \in Nat \ {0}, NEW r \in 0 .. d - 1
  PROVE  (q * d + r) \div d = q
<1> DEFINE n == q * d + r
           k == n \div d
           m == n % d
<1>1. n \in Nat /\ q * d \in Nat
  OBVIOUS
<1>2. k \in Int /\ m \in 0 .. d - 1 /\ n = d * k + m
  BY <1>1
<1>3. k \in Nat /\ d * k = k * d /\ k * d \in Nat
  <2>1. k \in Nat
    BY <1>1, DivBound
  <2> QED BY <2>1
<1> HIDE DEF n, k, m
<1>4. ~ q < k
  <2>1. q + 1 <= k => (q + 1) * d <= k * d
    BY <1>3, MulMonotone
  <2>2. (q + 1) * d = q * d + d
    OBVIOUS
  <2> QED BY <2>1, <2>2, <1>1, <1>2, <1>3 DEF n
<1>5. ~ k < q
  <2>1. k + 1 <= q => (k + 1) * d <= q * d
    BY <1>3, MulMonotone
  <2>2. (k + 1) * d = k * d + d
    BY <1>3
  <2> QED BY <2>1, <2>2, <1>1, <1>2, <1>3 DEF n
<1> QED BY <1>2, <1>3, <1>4, <1>5 DEF n, k

(* The boundaries are those that Ranges names, for any sample and number   *)
(* of partitions: RangeSort may use them in place of the loop.             *)
THEOREM LoopFindsBoundaries == PartitionSpec => []BoundariesExact
<1>1. PartitionInit => AllCounted
  BY DEF PartitionInit, AllCounted
<1>2. BoundInv /\ AllCounted /\ [PartitionNext]_partitionVars => AllCounted'
  <2> SUFFICES ASSUME BoundInv, AllCounted, [PartitionNext]_partitionVars PROVE AllCounted'
    OBVIOUS
  <2> USE DEF inputVars, boundVars, cutVars
  <2>1. num_rows_per_part \in Nat
    BY DivBound, RangeCountsAssumption DEF BoundInv, PartitionTypeOK, num_rows_per_part
  <2>2. CASE StartCutting
    BY <2>1, <2>2 DEF StartCutting, BoundInv, Counting, PartitionTypeOK, AllCounted, stride,
                      num_rows_per_part
  <2>3. CASE EmitBoundary \/ SkipSampledRow
    BY <2>3 DEF EmitBoundary, SkipSampledRow, AllCounted
  <2>4. CASE AdvanceBoundary \/ AppendRow \/ PadPartitions \/ Return \/ UNCHANGED partitionVars
    BY <2>4 DEF AdvanceBoundary, AppendRow, PadPartitions, Return, partitionVars, AllCounted,
                stride, num_rows_per_part
  <2> QED BY <2>2, <2>3, <2>4 DEF PartitionNext
<1>3. BoundInv /\ AllCounted => BoundariesExact
  <2> SUFFICES ASSUME BoundInv, AllCounted, pc # "find_range_bounds"
               PROVE  bounds = Boundaries(sample, num_partitions)
    BY DEF BoundariesExact
  <2>1. /\ stride = Stride(sample, num_partitions)
        /\ stride \in Nat \ {0}
        /\ Len(bounds) \in Nat
    BY DivBound, RangeCountsAssumption
    DEF BoundInv, PartitionTypeOK, stride, Stride, num_rows_per_part
  <2>2. Len(sample) \div stride = Len(bounds)
    <3>1. /\ Len(sample) = Len(bounds) * stride + current_rows_in_part
          /\ current_rows_in_part \in 0 .. stride - 1
      BY DEF AllCounted
    <3>2. (Len(bounds) * stride + current_rows_in_part) \div stride = Len(bounds)
      BY <2>1, <3>1, DivExact
    <3> QED BY <3>1, <3>2
  <2>3. bounds = [i \in 1 .. Len(bounds) |-> bounds[i]]
    BY DEF BoundInv, PartitionTypeOK
  <2>4. \A i \in 1 .. Len(bounds) : bounds[i] = sample[i * stride]
    BY DEF BoundInv, Spacing
  <2> QED BY <2>1, <2>2, <2>3, <2>4 DEF Boundaries
<1> QED BY <1>1, <1>2, <1>3, BoundInvariant, PTL DEF PartitionSpec

---------------------------------------------------------------------------
(* rows is the end of the first n elements of s, from the first of them    *)
(* that is in range i on.                                                  *)
LastOfRange(rows, s, n, i, bs) ==
  \E a \in 0 .. n :
    /\ rows = SubSeq(s, a + 1, n)
    /\ \A j \in 1 .. n : InRange(s[j], i, bs) <=> j \in a + 1 .. n

(* The strengthening of CutIsExact: the rows read so far are in the slots  *)
(* already written and in w, and all are below the next boundary.          *)
ExactInv ==
  /\ pc # "find_range_bounds" =>
       \A i \in 1 .. Len(output) : IsRangeOf(output[i], input, Len(input), i - 1, bounds)
  /\ pc = "cut" =>
       /\ read <= Len(input)
       /\ LastOfRange(pending, input, read, output_partition_idx, bounds)
       /\ output_partition_idx < Len(bounds) =>
            \A j \in 1 .. read : input[j] < bounds[output_partition_idx + 1]

(* Two places of a sequence in order. *)
LEMMA RowsInOrder ==
  ASSUME NEW s, Nondecreasing(s), NEW i \in 1 .. Len(s), NEW j \in i .. Len(s)
  PROVE  s[i] <= s[j]
BY DEF Nondecreasing

(* The facts about the variables that the steps of the cut rest on.        *)
LEMMA CutFacts ==
  ASSUME BoundInv, CutInv
  PROVE  /\ Len(bounds) \in Nat /\ Len(input) \in Nat /\ read \in Nat
         /\ output_partition_idx \in Nat
         /\ Len(output) = output_partition_idx
         /\ output \in Seq(Seq(Keys)) /\ pending \in Seq(Keys) /\ input \in Seq(Keys)
         /\ \A i \in 1 .. Len(bounds) : bounds[i] \in Int
         /\ \A i \in 1 .. Len(input) : input[i] \in Int
         /\ Nondecreasing(input) /\ Nondecreasing(bounds)
<1>1. Nondecreasing(input) /\ Nondecreasing(bounds) /\ PartitionTypeOK
  BY SortedBounds DEF BoundInv
<1>2. bounds \in Seq(Keys) /\ input \in Seq(Keys)
  BY <1>1 DEF PartitionTypeOK
<1>3. ASSUME NEW s \in Seq(Keys), NEW i \in 1 .. Len(s) PROVE s[i] \in Int
  <2>1. s[i] \in Keys
    OBVIOUS
  <2> QED BY <2>1, KeysAssumption
<1> QED BY <1>1, <1>2, <1>3 DEF PartitionTypeOK, CutInv, WritesInBounds

(* When w is written out it holds the whole of its range, whether rows are *)
(* left, which are not below the next boundary then, or not.               *)
LEMMA WriteOutExact ==
  ASSUME BoundInv, CutInv, ExactInv, pc = "cut", WriteOutPartition, pc' = "cut",
         UNCHANGED <<input, bounds, read>>,
         \A j \in read + 1 .. Len(input) :
            ~ InRange(input[j], output_partition_idx, bounds),
         output_partition_idx + 1 < Len(bounds) =>
            \A j \in 1 .. read : input[j] < bounds[output_partition_idx + 2]
  PROVE  ExactInv'
<1> DEFINE idx == output_partition_idx
<1>1. PICK a \in 0 .. read :
        /\ pending = SubSeq(input, a + 1, read)
        /\ \A j \in 1 .. read : InRange(input[j], idx, bounds) <=> j \in a + 1 .. read
  BY DEF ExactInv, LastOfRange
<1>2. read \in 0 .. Len(input) /\ Len(input) \in Nat /\ idx \in Nat
  BY CutFacts DEF ExactInv
<1>3. IsRangeOf(pending, input, Len(input), idx, bounds)
  <2>1. \A j \in 1 .. Len(input) : InRange(input[j], idx, bounds) <=> j \in a + 1 .. read
    BY <1>1, <1>2
  <2>2. a \in 0 .. Len(input) /\ read \in 0 .. Len(input)
    BY <1>2
  <2> QED BY <1>1, <2>1, <2>2 DEF IsRangeOf
<1>4. /\ Len(output') = idx + 1
      /\ output'[idx + 1] = pending
      /\ \A i \in 1 .. idx : output'[i] = output[i]
      /\ pending' = <<>> /\ output_partition_idx' = idx + 1
  BY CutFacts DEF WriteOutPartition
<1>6. ASSUME NEW i \in 1 .. Len(output')
      PROVE  IsRangeOf(output'[i], input, Len(input), i - 1, bounds)
  <2>1. CASE i \in 1 .. idx
    <3>1. IsRangeOf(output[i], input, Len(input), i - 1, bounds) /\ output'[i] = output[i]
      BY <2>1, <1>4, CutFacts DEF ExactInv
    <3> QED BY <3>1
  <2>2. CASE i = idx + 1
    <3>1. output'[i] = pending /\ i - 1 = idx
      BY <2>2, <1>2, <1>4
    <3> QED BY <3>1, <1>3
  <2> QED BY <1>2, <1>4, <1>6, <2>1, <2>2
<1>7. LastOfRange(<<>>, input, read, idx + 1, bounds)
  <2>1. \A j \in 1 .. read : ~ InRange(input[j], idx + 1, bounds)
    <3> SUFFICES ASSUME NEW j \in 1 .. read, InRange(input[j], idx + 1, bounds)
                 PROVE  FALSE
      OBVIOUS
    <3>1. idx + 1 <= Len(bounds) /\ bounds[idx + 1] <= input[j]
      BY <1>2, CutFacts DEF InRange
    <3>2. input[j] < bounds[idx + 1]
      BY <3>1, <1>2, CutFacts DEF ExactInv
    <3>3. bounds[idx + 1] \in Int /\ input[j] \in Int
      BY <3>1, <1>2, CutFacts
    <3> QED BY <3>1, <3>2, <3>3
  <2>2. <<>> = SubSeq(input, read + 1, read)
    BY <1>2, CutFacts
  <2>3. \A j \in 1 .. read : ~ (j \in read + 1 .. read)
    BY <1>2
  <2>4. read \in 0 .. read
    BY <1>2
  <2> QED BY <2>1, <2>2, <2>3, <2>4 DEF LastOfRange
<1>9. (idx + 1 < Len(bounds)) => \A j \in 1 .. read : input[j] < bounds[idx + 1 + 1]
  BY <1>2
<1> QED BY <1>2, <1>4, <1>6, <1>7, <1>9 DEF ExactInv

(* Every row read is in the slot of its range or in w, at every iteration. *)
THEOREM ExactInvariant == PartitionSpec => []ExactInv
<1>1. PartitionInit => ExactInv
  BY DEF PartitionInit, ExactInv
<1>2. BoundInv /\ CutInv /\ ExactInv /\ [PartitionNext]_partitionVars => ExactInv'
  <2> SUFFICES ASSUME BoundInv, CutInv, ExactInv, [PartitionNext]_partitionVars PROVE ExactInv'
    OBVIOUS
  <2> USE DEF inputVars, boundVars, cutVars
  <2>1. CASE EmitBoundary \/ SkipSampledRow
    BY <2>1 DEF EmitBoundary, SkipSampledRow, ExactInv
  <2>2. CASE StartCutting
    <3>1. /\ output = <<>> /\ pending = <<>> /\ read' = 0 /\ pc' = "cut"
          /\ UNCHANGED <<output, pending, output_partition_idx, input, bounds>>
      BY <2>2 DEF StartCutting, CutInv, NothingCutYet
    <3>2. LastOfRange(<<>>, input, 0, output_partition_idx, bounds)
      <4>1. <<>> = SubSeq(input, 0 + 1, 0)
        BY CutFacts
      <4> QED BY <4>1 DEF LastOfRange
    <3> QED BY <3>1, <3>2, CutFacts DEF ExactInv
  <2>3. CASE AdvanceBoundary
    <3> DEFINE idx == output_partition_idx
    <3>1. /\ pc = "cut" /\ pc' = "cut" /\ WriteOutPartition /\ read < Len(input)
          /\ UNCHANGED <<input, bounds, read>>
          /\ b_open /\ ~ (input[read + 1] < bounds[b_read])
      BY <2>3 DEF AdvanceBoundary, PastUpperBoundary, b_upper
    <3>2. b_read = idx + 1 /\ idx + 1 <= Len(bounds) /\ bounds[idx + 1] <= input[read + 1]
      <4>1. b_read = idx + 1 /\ b_read <= Len(bounds)
        BY <3>1 DEF CutInv, ScanPosition
      <4>2. bounds[idx + 1] \in Int /\ input[read + 1] \in Int
        BY <3>1, <4>1, CutFacts
      <4> QED BY <3>1, <4>1, <4>2
    <3>3. ASSUME NEW j \in read + 1 .. Len(input)
          PROVE  ~ InRange(input[j], idx, bounds)
      <4>1. input[read + 1] <= input[j]
        BY <3>1, CutFacts DEF Nondecreasing
      <4>2. /\ j \in 1 .. Len(input) /\ read + 1 \in 1 .. Len(input)
            /\ idx + 1 \in 1 .. Len(bounds)
        BY <3>1, <3>2, CutFacts
      <4>3. input[j] \in Int /\ input[read + 1] \in Int /\ bounds[idx + 1] \in Int
        BY <4>2, CutFacts
      <4>4. ~ (input[j] < bounds[idx + 1])
        BY <4>1, <4>3, <3>2
      <4> QED BY <4>2, <4>4, CutFacts DEF InRange
    <3>4. ASSUME idx + 1 < Len(bounds), NEW j \in 1 .. read
          PROVE  input[j] < bounds[idx + 2]
      <4>1. input[j] < bounds[idx + 1]
        BY <3>1, <3>2, CutFacts DEF ExactInv
      <4>2. bounds[idx + 1] <= bounds[idx + 2]
        <5>1. idx + 1 \in 1 .. Len(bounds) /\ idx + 2 \in idx + 1 .. Len(bounds)
          BY <3>4, CutFacts
        <5> QED BY <5>1, CutFacts, RowsInOrder
      <4>3. input[j] \in Int /\ bounds[idx + 1] \in Int /\ bounds[idx + 2] \in Int
        BY <3>1, <3>4, CutFacts
      <4> QED BY <4>1, <4>2, <4>3
    <3> QED BY <3>1, <3>3, <3>4, WriteOutExact
  <2>4. CASE AppendRow
    <3> DEFINE idx == output_partition_idx
    <3>1. /\ pc = "cut" /\ pc' = "cut" /\ read < Len(input)
          /\ UNCHANGED <<input, bounds, output, output_partition_idx>>
          /\ pending' = Append(pending, input[read + 1]) /\ read' = read + 1
          /\ b_open => input[read + 1] < bounds[b_read]
      BY <2>4 DEF AppendRow, PastUpperBoundary, b_upper
    <3>2. PICK a \in 0 .. read :
            /\ pending = SubSeq(input, a + 1, read)
            /\ \A j \in 1 .. read : InRange(input[j], idx, bounds) <=> j \in a + 1 .. read
      BY <3>1 DEF ExactInv, LastOfRange
    <3>3. idx < Len(bounds) => input[read + 1] < bounds[idx + 1]
      BY <3>1, CutFacts DEF CutInv, ScanPosition
    <3>4. InRange(input[read + 1], idx, bounds)
      <4>1. /\ \A j \in 1 .. Len(bounds) : j <= idx => bounds[j] <= input[read + 1]
            /\ idx <= Len(bounds)
        <5>1. ScanPosition /\ read + 1 \in 1 .. Len(input) /\ read < read + 1
          BY <3>1, CutFacts DEF CutInv
        <5>2. \A j \in 1 .. Len(bounds) : j <= idx => bounds[j] <= input[read + 1]
          BY <3>1, <5>1 DEF ScanPosition
        <5>3. idx <= Len(bounds)
          BY <3>1, <5>1, CutFacts DEF ScanPosition
        <5> QED BY <5>2, <5>3
      <4>2. ASSUME NEW j \in 1 .. Len(bounds), idx < j PROVE input[read + 1] < bounds[j]
        <5>1. input[read + 1] < bounds[idx + 1] /\ bounds[idx + 1] <= bounds[j]
          <6>1. idx + 1 \in 1 .. Len(bounds) /\ j \in idx + 1 .. Len(bounds)
            BY <4>2, CutFacts
          <6>2. bounds[idx + 1] <= bounds[j]
            BY <6>1, CutFacts, RowsInOrder
          <6> QED BY <3>3, <6>1, <6>2, CutFacts
        <5>2. input[read + 1] \in Int /\ bounds[idx + 1] \in Int /\ bounds[j] \in Int
          BY <3>1, <4>2, CutFacts
        <5> QED BY <5>1, <5>2
      <4> QED BY <4>1, <4>2, CutFacts DEF InRange
    <3>5. LastOfRange(pending', input, read + 1, idx, bounds)
      <4>1. read \in Nat /\ read + 1 <= Len(input) /\ a + 1 \in 1 .. read + 1
        BY <3>1, CutFacts
      <4>2. SubSeq(input, a + 1, read + 1) = Append(SubSeq(input, a + 1, read), input[read + 1])
        BY <4>1, CutFacts
      <4>3. ASSUME NEW j \in 1 .. read + 1
            PROVE  InRange(input[j], idx, bounds) <=> j \in a + 1 .. read + 1
        <5>1. CASE j = read + 1
          BY <5>1, <4>1, <3>4
        <5>2. CASE j \in 1 .. read
          BY <5>2, <4>1, <3>2
        <5> QED BY <4>1, <5>1, <5>2
      <4>4. a \in 0 .. read + 1
        BY <4>1
      <4> QED BY <3>1, <3>2, <4>2, <4>3, <4>4 DEF LastOfRange
    <3>6. ASSUME idx < Len(bounds), NEW j \in 1 .. read + 1
          PROVE  input[j] < bounds[idx + 1]
      BY <3>1, <3>3, <3>6, CutFacts DEF ExactInv
    <3> QED BY <3>1, <3>5, <3>6, CutFacts DEF ExactInv
  <2>5. CASE PadPartitions
    <3>1. /\ pc = "cut" /\ pc' = "cut" /\ WriteOutPartition /\ read = Len(input)
          /\ UNCHANGED <<input, bounds, read>>
      BY <2>5 DEF PadPartitions
    <3> DEFINE idx == output_partition_idx
    <3>2. \A j \in read + 1 .. Len(input) : ~ InRange(input[j], idx, bounds)
      BY <3>1, CutFacts
    <3>3. ASSUME idx + 1 < Len(bounds), NEW j \in 1 .. read
          PROVE  input[j] < bounds[idx + 2]
      <4>1. input[j] < bounds[idx + 1]
        BY <3>1, <3>3, CutFacts DEF ExactInv
      <4>2. bounds[idx + 1] <= bounds[idx + 2]
        <5>1. idx + 1 \in 1 .. Len(bounds) /\ idx + 2 \in idx + 1 .. Len(bounds)
          BY <3>3, CutFacts
        <5> QED BY <5>1, CutFacts, RowsInOrder
      <4>3. input[j] \in Int /\ bounds[idx + 1] \in Int /\ bounds[idx + 2] \in Int
        BY <3>1, <3>3, CutFacts
      <4> QED BY <4>1, <4>2, <4>3
    <3> QED BY <3>1, <3>2, <3>3, WriteOutExact
  <2>6. CASE Return
    BY <2>6 DEF Return, ExactInv
  <2>7. CASE UNCHANGED partitionVars
    BY <2>7 DEF partitionVars, ExactInv
  <2> QED BY <2>1, <2>2, <2>3, <2>4, <2>5, <2>6, <2>7 DEF PartitionNext
<1> QED BY <1>1, <1>2, BoundInvariant, CutInvariant, PTL DEF PartitionSpec

(* Every slot is its range's share of the input, whole and in order, for   *)
(* any boundaries the sample gives and any input.                          *)
THEOREM SlotsAreRanges == PartitionSpec => []CutIsExact
<1>1. ExactInv => CutIsExact
  BY DEF ExactInv, CutIsExact
<1> QED BY <1>1, ExactInvariant, PTL

---------------------------------------------------------------------------
(* Sorted enumerations. *)

(* A set that a sequence enumerates is finite.                             *)
LEMMA EnumeratedIsFinite ==
  ASSUME NEW S, NEW s \in Seq(S), IsEnumerationOf(s, S)
  PROVE  IsFiniteSet(S)
<1>1. s \in [1 .. Len(s) -> S] /\ Len(s) \in Nat
  BY LenProperties
<1>2. s \in Surjection(1 .. Len(s), S)
  BY <1>1 DEF IsEnumerationOf, Surjection
<1>3. ExistsSurjection(1 .. Len(s), S)
  BY <1>2 DEF ExistsSurjection
<1>4. QED BY <1>1, <1>3, FS_NatSurjection

(* What is selected from T when f holds what is selected from smaller sets *)
LeastOf(T) == {x \in T : \A y \in T : ~ less_than(y, x)}

Select(f, T) ==
  IF T = {} THEN {<<>>} ELSE UNION {{<<x>> \o s : s \in f[T \ {x}]} : x \in LeastOf(T)}

(* The recursion over the subsets of a finite set has a solution.          *)
LEMMA SelectExists ==
  ASSUME NEW S, IsFiniteSet(S)
  PROVE  \E f : f = [T \in SUBSET S |-> Select(f, T)]
<1> DEFINE Solves(f, n) ==
             \A T \in SUBSET S : Cardinality(T) <= n => f[T] = Select(f, T)
           K == {n \in Nat : \E f : Solves(f, n)}
<1>0. /\ Cardinality(S) \in Nat
      /\ \A T \in SUBSET S : IsFiniteSet(T) /\ Cardinality(T) \in Nat
                             /\ Cardinality(T) <= Cardinality(S)
  BY FS_CardinalityType, FS_Subset
<1>1. 0 \in K
  <2> DEFINE f == [T \in SUBSET S |-> {<<>>}]
  <2>1. ASSUME NEW T \in SUBSET S, Cardinality(T) <= 0 PROVE f[T] = Select(f, T)
    <3>1. T = {}
      BY <1>0, <2>1, FS_EmptySet
    <3>2. QED BY <3>1 DEF Select
  <2>2. Solves(f, 0)
    BY <2>1
  <2>3. QED BY <2>2
<1>2. ASSUME NEW n \in 1 .. Cardinality(S), n - 1 \in K PROVE n \in K
  <2>1. PICK f : Solves(f, n - 1)
    BY <1>2
  <2> DEFINE g == [T \in SUBSET S |-> IF Cardinality(T) = n THEN Select(f, T) ELSE f[T]]
  <2>2. n \in Nat
    BY <1>0
  <2>3. ASSUME NEW T \in SUBSET S, Cardinality(T) <= n
        PROVE  g[T] = Select(f, T) /\ Select(g, T) = Select(f, T)
    <3>1. g[T] = Select(f, T)
      <4>1. CASE Cardinality(T) = n
        BY <4>1
      <4>2. CASE Cardinality(T) # n
        <5>1. Cardinality(T) <= n - 1
          BY <1>0, <2>2, <2>3, <4>2
        <5>2. QED BY <2>1, <4>2, <5>1
      <4>3. QED BY <4>1, <4>2
    <3>2. ASSUME NEW x \in T PROVE g[T \ {x}] = f[T \ {x}]
      <4>1. Cardinality(T \ {x}) = Cardinality(T) - 1
        BY <1>0, FS_RemoveElement
      <4>2. Cardinality(T \ {x}) # n
        BY <1>0, <2>2, <2>3, <4>1
      <4>3. QED BY <4>2
    <3>3. Select(g, T) = Select(f, T)
      <4> HIDE DEF g
      <4>1. \A x \in LeastOf(T) : x \in T
        BY DEF LeastOf
      <4>2. {{<<x>> \o s : s \in g[T \ {x}]} : x \in LeastOf(T)}
              = {{<<x>> \o s : s \in f[T \ {x}]} : x \in LeastOf(T)}
        BY <3>2, <4>1
      <4>3. QED BY <4>2 DEF Select
    <3>4. QED BY <3>1, <3>3
  <2>4. Solves(g, n)
    BY <2>3
  <2>5. QED BY <2>2, <2>4
<1>3. Cardinality(S) \in K
  <2> HIDE DEF K
  <2>1. \A i \in 0 .. Cardinality(S) : i \in K
    BY <1>0, <1>1, <1>2, SetInduction
  <2>2. QED BY <1>0, <2>1
<1>4. PICK f : Solves(f, Cardinality(S))
  BY <1>3
<1> DEFINE g == [T \in SUBSET S |-> Select(f, T)]
<1>5. \A T \in SUBSET S : g[T] = f[T]
  BY <1>0, <1>4
<1>6. ASSUME NEW T \in SUBSET S PROVE Select(g, T) = Select(f, T)
  <2>1. \A x \in LeastOf(T) : g[T \ {x}] = f[T \ {x}]
    <3>1. \A x \in LeastOf(T) : T \ {x} \in SUBSET S
      OBVIOUS
    <3> HIDE DEF g
    <3>2. QED BY <1>5, <3>1
  <2> HIDE DEF g
  <2>2. {{<<x>> \o s : s \in g[T \ {x}]} : x \in LeastOf(T)}
          = {{<<x>> \o s : s \in f[T \ {x}]} : x \in LeastOf(T)}
    BY <2>1
  <2>3. QED BY <2>2 DEF Select
<1>7. g = [T \in SUBSET S |-> Select(g, T)]
  <2>1. \A T \in SUBSET S : Select(f, T) = Select(g, T)
    BY <1>6
  <2>2. QED BY <2>1
<1>8. QED BY <1>7

(* Selections is that solution, at the set itself.                         *)
LEMMA SelectionsIs ==
  ASSUME NEW S, IsFiniteSet(S)
  PROVE  \E f : /\ \A T \in SUBSET S : f[T] = Select(f, T)
                /\ Selections(S) = f[S]
<1> DEFINE sel[T \in SUBSET S] ==
             IF T = {} THEN {<<>>}
             ELSE UNION {{<<x>> \o s : s \in sel[T \ {x}]} : x \in LeastOf(T)}
<1>1. sel = [T \in SUBSET S |->
               IF T = {} THEN {<<>>}
               ELSE UNION {{<<x>> \o s : s \in sel[T \ {x}]} : x \in LeastOf(T)}]
  <2>1. \E f : f = [T \in SUBSET S |->
               IF T = {} THEN {<<>>}
               ELSE UNION {{<<x>> \o s : s \in f[T \ {x}]} : x \in LeastOf(T)}]
    BY SelectExists DEF Select
  <2>2. QED BY <2>1
<1>2. Selections(S) = sel[S]
  BY DEF Selections, LeastOf
<1> HIDE DEF sel
<1>3. \A T \in SUBSET S : sel[T] = Select(sel, T)
  BY <1>1 DEF Select
<1>4. QED BY <1>2, <1>3

(* Keys are integers, so the order is irreflexive and total enough: *)
LEMMA LessThan ==
  ASSUME NEW x \in Rows, NEW y \in Rows, NEW z \in Rows
  PROVE  /\ ~ less_than(x, x)
         /\ less_than(x, y) => ~ less_than(y, x)
BY RowsAssumption DEF less_than

(* The tail of a sorted enumeration enumerates what is left, in order.     *)
LEMMA TailEnumerates ==
  ASSUME NEW T \in SUBSET Rows, NEW s \in Seq(T), IsEnumerationOf(s, T), InOrder(s), s # <<>>
  PROVE  /\ s[1] \in LeastOf(T)
         /\ Tail(s) \in Seq(T \ {s[1]})
         /\ IsEnumerationOf(Tail(s), T \ {s[1]})
         /\ InOrder(Tail(s))
         /\ Len(Tail(s)) = Len(s) - 1
         /\ s = <<s[1]>> \o Tail(s)
<1>1. /\ Len(s) \in Nat /\ Len(s) >= 1
      /\ Tail(s) \in Seq(T) /\ Len(Tail(s)) = Len(s) - 1
      /\ \A i \in 1 .. Len(Tail(s)) : Tail(s)[i] = s[i + 1]
  BY HeadTailProperties, EmptySeq, LenProperties
<1> DEFINE t == Tail(s)
           n == Len(s)
<1>2. \A i \in 1 .. n : s[i] \in T
  BY ElementOfSeq
<1>3. 1 \in 1 .. n /\ \A i \in 1 .. n - 1 : i \in 1 .. n /\ i + 1 \in 1 .. n /\ i + 1 # 1 /\ 1 < i + 1
  BY <1>1
<1>4. s[1] \in LeastOf(T)
  <2>1. ASSUME NEW y \in T PROVE ~ less_than(y, s[1])
    <3>1. PICK i \in 1 .. n : s[i] = y
      BY DEF IsEnumerationOf
    <3>2. CASE i = 1
      BY <1>2, <1>3, <3>1, <3>2, LessThan
    <3>3. CASE i # 1
      <4>1. 1 < i
        BY <3>3
      <4>2. QED BY <1>3, <3>1, <4>1 DEF InOrder
    <3>4. QED BY <3>2, <3>3
  <2>2. QED BY <1>2, <1>3, <2>1 DEF LeastOf
<1>5. \A i \in 1 .. n - 1 : t[i] = s[i + 1] /\ s[i + 1] \in T \ {s[1]}
  BY <1>1, <1>2, <1>3 DEF IsEnumerationOf
<1>6. t \in Seq(T \ {s[1]})
  <2>1. t \in [1 .. n - 1 -> T \ {s[1]}]
    <3>1. t \in [1 .. n - 1 -> T]
      BY <1>1, LenProperties
    <3> HIDE DEF t
    <3>2. QED BY <1>5, <3>1
  <2>2. n - 1 \in Nat
    BY <1>1
  <2> HIDE DEF t, n
  <2>3. QED BY <2>1, <2>2, IsASeq
<1>7. IsEnumerationOf(t, T \ {s[1]})
  <2>1. ASSUME NEW r \in T \ {s[1]} PROVE \E i \in 1 .. n - 1 : t[i] = r
    <3>1. PICK i \in 1 .. n : s[i] = r
      BY DEF IsEnumerationOf
    <3>2. i - 1 \in 1 .. n - 1 /\ (i - 1) + 1 = i
      BY <3>1
    <3>3. QED BY <1>5, <3>1, <3>2
  <2>2. ASSUME NEW i \in 1 .. n - 1, NEW j \in 1 .. n - 1, t[i] = t[j] PROVE i = j
    <3>1. i + 1 \in 1 .. n /\ j + 1 \in 1 .. n /\ s[i + 1] = s[j + 1]
      BY <1>3, <1>5, <2>2
    <3>2. i + 1 = j + 1
      BY <3>1 DEF IsEnumerationOf
    <3>3. QED BY <3>2
  <2>3. Len(t) = n - 1
    BY <1>1
  <2> HIDE DEF t, n
  <2>4. QED BY <1>5, <2>1, <2>2, <2>3 DEF IsEnumerationOf
<1>8. InOrder(t)
  <2>1. ASSUME NEW i \in 1 .. n - 1, NEW j \in 1 .. n - 1, i < j PROVE ~ less_than(t[j], t[i])
    <3>1. i + 1 \in 1 .. n /\ j + 1 \in 1 .. n /\ i + 1 < j + 1
      BY <2>1
    <3>2. ~ less_than(s[j + 1], s[i + 1])
      BY <3>1 DEF InOrder
    <3>3. QED BY <1>5, <3>2
  <2>2. Len(t) = n - 1
    BY <1>1
  <2> HIDE DEF t, n
  <2>3. QED BY <2>1, <2>2 DEF InOrder
<1>9. s = <<s[1]>> \o t
  BY <1>1, <1>3
<1>10. QED BY <1>1, <1>4, <1>6, <1>7, <1>8, <1>9

(* No sorted enumeration of a finite set is left out: Selections only      *)
(* spares the evaluation of the other sequences.                           *)
LEMMA SortedEnumerationsAll ==
  ASSUME NEW S \in SUBSET Rows, NEW s \in Seq(S), IsEnumerationOf(s, S), InOrder(s)
  PROVE  s \in SortedEnumerations(S)
<1>1. IsFiniteSet(S)
  BY EnumeratedIsFinite
<1>2. PICK f : /\ \A T \in SUBSET S : f[T] = Select(f, T)
               /\ Selections(S) = f[S]
  BY <1>1, SelectionsIs
<1> DEFINE Holds(n) ==
             \A T \in SUBSET S : \A t \in Seq(T) :
               Len(t) = n /\ IsEnumerationOf(t, T) /\ InOrder(t) => t \in f[T]
           K == {n \in Nat : Holds(n)}
<1>3. 0 \in K
  <2>1. ASSUME NEW T \in SUBSET S, NEW t \in Seq(T), Len(t) = 0, IsEnumerationOf(t, T)
        PROVE  t \in f[T]
    <3>1. t = <<>> /\ T = {}
      BY <2>1, EmptySeq DEF IsEnumerationOf
    <3>2. QED BY <1>2, <3>1 DEF Select
  <2>2. QED BY <2>1
<1>4. ASSUME NEW n \in 1 .. Len(s), n - 1 \in K PROVE n \in K
  <2>1. ASSUME NEW T \in SUBSET S, NEW t \in Seq(T), Len(t) = n,
               IsEnumerationOf(t, T), InOrder(t)
        PROVE  t \in f[T]
    <3>0. t # <<>>
      BY <2>1, EmptySeq
    <3>1. /\ t[1] \in LeastOf(T)
          /\ Tail(t) \in Seq(T \ {t[1]})
          /\ IsEnumerationOf(Tail(t), T \ {t[1]})
          /\ InOrder(Tail(t))
          /\ Len(Tail(t)) = n - 1
          /\ t = <<t[1]>> \o Tail(t)
      BY <2>1, <3>0, TailEnumerates
    <3>2. Tail(t) \in f[T \ {t[1]}]
      <4>1. T \ {t[1]} \in SUBSET S
        OBVIOUS
      <4>2. QED BY <1>4, <3>1, <4>1
    <3>3. t \in Select(f, T)
      <4>1. T # {}
        BY <3>1 DEF LeastOf
      <4>2. t \in {<<t[1]>> \o u : u \in f[T \ {t[1]}]}
        BY <3>1, <3>2, Zenon
      <4>3. QED BY <3>1, <4>1, <4>2 DEF Select
    <3>4. QED BY <1>2, <3>3
  <2>2. n \in Nat
    OBVIOUS
  <2>3. QED BY <2>1, <2>2
<1>5. Len(s) \in K
  <2>1. Len(s) \in Nat
    BY LenProperties
  <2> HIDE DEF K
  <2>2. \A i \in 0 .. Len(s) : i \in K
    BY <1>3, <1>4, <2>1, SetInduction
  <2>3. QED BY <2>1, <2>2
<1>6. s \in Selections(S)
  BY <1>2, <1>5
<1>7. QED BY <1>6 DEF SortedEnumerations

---------------------------------------------------------------------------
(* Blocks one after the other. *)

(* c concatenates the first blocks of b, m of them at most. *)
Concatenates(c, b, m, S) ==
  /\ c \in [0 .. m -> Seq(S)]
  /\ c[0] = <<>>
  /\ \A i \in 1 .. m : c[i] = c[i - 1] \o b[i - 1]

(* Blocks can be concatenated.                                             *)
LEMMA ConcatExists ==
  ASSUME NEW m \in Nat, NEW S, NEW b \in [0 .. m - 1 -> Seq(S)]
  PROVE  \E c : Concatenates(c, b, m, S)
<1> DEFINE step == [p \in (1 .. m) \X Seq(S) |-> p[2] \o b[p[1] - 1]]
<1>1. <<>> \in Seq(S) /\ \A i \in 1 .. m : i - 1 \in 0 .. m - 1
  OBVIOUS
<1>2. \A i \in 1 .. m, s \in Seq(S) : s \o b[i - 1] \in Seq(S)
  BY <1>1, ConcatProperties
<1>3. step \in [(1 .. m) \X Seq(S) -> Seq(S)]
  BY <1>2
<1>4. ASSUME NEW i \in 1 .. m, NEW s \in Seq(S) PROVE step[<<i, s>>] = s \o b[i - 1]
  <2>1. <<i, s>> \in (1 .. m) \X Seq(S) /\ <<i, s>>[1] = i /\ <<i, s>>[2] = s
    OBVIOUS
  <2>2. QED BY <2>1, Zenon
<1> HIDE DEF step
<1>5. PICK c : Recursion(c, m, Seq(S), <<>>, step)
  BY <1>1, <1>3, RecursionExists
<1>6. \A i \in 1 .. m : c[i] = c[i - 1] \o b[i - 1]
  <2>1. \A i \in 1 .. m : i - 1 \in 0 .. m
    OBVIOUS
  <2>2. \A i \in 1 .. m : c[i - 1] \in Seq(S)
    BY <1>5, <2>1, Zenon DEF Recursion
  <2>3. QED BY <1>4, <1>5, <2>2, Zenon DEF Recursion
<1>7. QED BY <1>5, <1>6 DEF Recursion, Concatenates

(* Row j of block p is at place j after the blocks before it, and every    *)
(* place in the first n blocks is of a row of one of them.                 *)
Placed(c, b, n) ==
  /\ \A p \in 0 .. n - 1 :
       /\ Len(c[p]) + Len(b[p]) <= Len(c[n])
       /\ \A j \in 1 .. Len(b[p]) : c[n][Len(c[p]) + j] = b[p][j]
  /\ \A i \in 1 .. Len(c[n]) :
       \E p \in 0 .. n - 1 : \E j \in 1 .. Len(b[p]) : i = Len(c[p]) + j

(* That is where a concatenation puts the rows.                            *)
LEMMA ConcatPlaces ==
  ASSUME NEW m \in Nat, NEW S, NEW b \in [0 .. m - 1 -> Seq(S)], NEW c,
         Concatenates(c, b, m, S), NEW q \in 0 .. m
  PROVE  Placed(c, b, q)
<1> DEFINE K == {n \in 0 .. m : Placed(c, b, n)}
<1>0. /\ \A p \in 0 .. m : c[p] \in Seq(S) /\ Len(c[p]) \in Nat
      /\ \A p \in 0 .. m - 1 : b[p] \in Seq(S) /\ Len(b[p]) \in Nat
  BY LenProperties DEF Concatenates
<1>1. 0 \in K
  <2>1. Len(c[0]) = 0
    BY DEF Concatenates
  <2>2. 0 .. 0 - 1 = {} /\ 1 .. 0 = {} /\ 0 \in 0 .. m
    OBVIOUS
  <2>3. Placed(c, b, 0)
    BY <2>1, <2>2 DEF Placed
  <2>4. QED BY <2>2, <2>3
<1>2. ASSUME NEW n \in 1 .. m, n - 1 \in K PROVE n \in K
  <2>1. n - 1 \in 0 .. m /\ n - 1 \in 0 .. m - 1 /\ n \in 0 .. m /\ Placed(c, b, n - 1)
    BY <1>2
  <2> DEFINE l == Len(c[n - 1])
             k == Len(b[n - 1])
  <2>2. c[n] = c[n - 1] \o b[n - 1]
    BY DEF Concatenates
  <2>3. /\ l \in Nat /\ k \in Nat /\ Len(c[n]) = l + k
        /\ \A i \in 1 .. l : c[n][i] = c[n - 1][i]
        /\ \A j \in 1 .. k : c[n][l + j] = b[n - 1][j]
    <3>1. c[n - 1] \in Seq(S) /\ b[n - 1] \in Seq(S) /\ l \in Nat /\ k \in Nat
      BY <1>0, <2>1
    <3> DEFINE s == c[n - 1]
               t == b[n - 1]
    <3>2. /\ Len(c[n]) = l + k
          /\ \A i \in 1 .. l + k : c[n][i] = IF i <= l THEN s[i] ELSE t[i - l]
      <4>1. s \in Seq(S) /\ t \in Seq(S) /\ c[n] = s \o t
        BY <2>2, <3>1
      <4>2. l = Len(s) /\ k = Len(t)
        OBVIOUS
      <4> HIDE DEF s, t, l, k
      <4>3. QED BY <4>1, <4>2, ConcatProperties
    <3> HIDE DEF l, k
    <3>3. \A i \in 1 .. l : i \in 1 .. l + k /\ i <= l
      BY <3>1
    <3>4. \A j \in 1 .. k : l + j \in 1 .. l + k /\ ~ (l + j <= l) /\ (l + j) - l = j
      BY <3>1
    <3>5. \A i \in 1 .. l : c[n][i] = c[n - 1][i]
      BY <3>2, <3>3
    <3>6. ASSUME NEW j \in 1 .. k PROVE c[n][l + j] = b[n - 1][j]
      BY <3>2, <3>4
    <3>7. QED BY <3>1, <3>2, <3>5, <3>6
  <2>4. ASSUME NEW p \in 0 .. n - 1
        PROVE  /\ Len(c[p]) + Len(b[p]) <= Len(c[n])
               /\ \A j \in 1 .. Len(b[p]) : c[n][Len(c[p]) + j] = b[p][j]
    <3>1. CASE p = n - 1
      BY <2>3, <3>1
    <3>2. CASE p # n - 1
      <4>1. p \in 0 .. (n - 1) - 1 /\ p \in 0 .. m /\ p \in 0 .. m - 1
        BY <3>2
      <4>2. /\ Len(c[p]) + Len(b[p]) <= l
            /\ \A j \in 1 .. Len(b[p]) : c[n - 1][Len(c[p]) + j] = b[p][j]
        BY <2>1, <4>1, Zenon DEF Placed
      <4>3. Len(c[p]) \in Nat /\ Len(b[p]) \in Nat
        BY <1>0, <4>1
      <4> DEFINE u == Len(c[p])
                 v == Len(b[p])
      <4>4. /\ \A j \in 1 .. v : u + j \in 1 .. l
            /\ u + v <= l + k
        <5>1. u \in Nat /\ v \in Nat /\ l \in Nat /\ k \in Nat /\ u + v <= l
          BY <2>3, <4>2, <4>3
        <5> HIDE DEF u, v, l, k
        <5>2. QED BY <5>1
      <4>5. \A j \in 1 .. v : c[n][u + j] = b[p][j]
        <5>1. \A i \in 1 .. l : c[n][i] = c[n - 1][i]
          BY <2>3
        <5>2. \A j \in 1 .. v : c[n - 1][u + j] = b[p][j]
          BY <4>2
        <5> HIDE DEF u, v, l, k
        <5>3. QED BY <4>4, <5>1, <5>2
      <4>6. Len(c[p]) + Len(b[p]) <= Len(c[n])
        BY <2>3, <4>4
      <4>7. QED BY <4>5, <4>6
    <3>3. QED BY <3>1, <3>2
  <2>5. ASSUME NEW i \in 1 .. Len(c[n])
        PROVE  \E p \in 0 .. n - 1 : \E j \in 1 .. Len(b[p]) : i = Len(c[p]) + j
    <3>1. CASE i <= l
      <4>1. i \in 1 .. l
        BY <3>1
      <4>2. PICK p \in 0 .. (n - 1) - 1 : \E j \in 1 .. Len(b[p]) : i = Len(c[p]) + j
        BY <2>1, <4>1 DEF Placed
      <4>3. p \in 0 .. n - 1
        OBVIOUS
      <4>4. QED BY <4>2, <4>3
    <3>2. CASE ~ (i <= l)
      <4> HIDE DEF l, k
      <4>1. i - l \in 1 .. k /\ i = l + (i - l) /\ n - 1 \in 0 .. n - 1
        BY <2>3, <3>2
      <4>2. QED BY <4>1 DEF l, k
    <3>3. QED BY <3>1, <3>2
  <2>6. Placed(c, b, n)
    BY <2>4, <2>5 DEF Placed
  <2>7. QED BY <2>1, <2>6
<1>3. q \in K
  <2> HIDE DEF K
  <2>1. QED BY <1>1, <1>2, SetInduction
<1>4. QED BY <1>3

(* The blocks of an RDD whose partition p holds the rows of g[p].          *)
AreBlocksOf(b, g, m, S) ==
  /\ g \in [0 .. m - 1 -> SUBSET S]
  /\ \A x \in S : \E p \in 0 .. m - 1 : x \in g[p]
  /\ \A p, q \in 0 .. m - 1 : p < q => \A x \in g[p], y \in g[q] : less_than(x, y)
  /\ b \in [0 .. m - 1 -> Seq(S)]
  /\ \A p \in 0 .. m - 1 : IsEnumerationOf(b[p], g[p]) /\ InOrder(b[p])

(* The rows of the range g make up the block b of s, after the first f.    *)
IsBlockIn(s, f, b, g) ==
  /\ {i \in 1 .. Len(s) : s[i] \in g} = f + 1 .. f + Len(b)
  /\ b = SubSeq(s, f + 1, f + Len(b))

(* Sorted blocks of rising ranges, one after the other, are all the rows   *)
(* in order, and block p is where the rows of its range are.               *)
LEMMA ConcatSorts ==
  ASSUME NEW m \in Nat, NEW S \in SUBSET Rows, NEW g, NEW b, AreBlocksOf(b, g, m, S),
         NEW c, Concatenates(c, b, m, S)
  PROVE  /\ c[m] \in Seq(S)
         /\ IsEnumerationOf(c[m], S)
         /\ InOrder(c[m])
         /\ \A p \in 0 .. m - 1 : IsBlockIn(c[m], Len(c[p]), b[p], g[p])
<1> DEFINE s == c[m]
           from(p) == Len(c[p])
<1>0. /\ b \in [0 .. m - 1 -> Seq(S)] /\ m \in 0 .. m
      /\ s \in Seq(S) /\ Len(s) \in Nat
      /\ \A p \in 0 .. m - 1 : Len(b[p]) \in Nat /\ from(p) \in Nat
      /\ \A p \in 0 .. m - 1 : p \in Nat /\ b[p] \in Seq(S)
  <2>1. b \in [0 .. m - 1 -> Seq(S)] /\ c \in [0 .. m -> Seq(S)]
    BY DEF Concatenates, AreBlocksOf
  <2>2. m \in 0 .. m /\ \A p \in 0 .. m - 1 : p \in Nat /\ p \in 0 .. m
    OBVIOUS
  <2>3. s \in Seq(S) /\ \A p \in 0 .. m - 1 : b[p] \in Seq(S) /\ c[p] \in Seq(S)
    BY <2>1, <2>2
  <2>4. Len(s) \in Nat /\ \A p \in 0 .. m - 1 : Len(b[p]) \in Nat /\ Len(c[p]) \in Nat
    BY <2>3, LenProperties
  <2>5. QED BY <2>1, <2>2, <2>3, <2>4
<1>1. /\ \A p \in 0 .. m - 1 : \A j \in 1 .. Len(b[p]) :
           from(p) + j \in 1 .. Len(s) /\ s[from(p) + j] = b[p][j]
      /\ \A p \in 0 .. m - 1 : from(p) + Len(b[p]) <= Len(s)
      /\ \A i \in 1 .. Len(s) :
           \E p \in 0 .. m - 1 : \E j \in 1 .. Len(b[p]) : i = from(p) + j
  <2>1. /\ \A p \in 0 .. m - 1 :
             /\ from(p) + Len(b[p]) <= Len(s)
             /\ \A j \in 1 .. Len(b[p]) : s[from(p) + j] = b[p][j]
        /\ \A i \in 1 .. Len(s) :
             \E p \in 0 .. m - 1 : \E j \in 1 .. Len(b[p]) : i = from(p) + j
    <3>1. Placed(c, b, m)
      BY <1>0, ConcatPlaces
    <3>2. QED BY <3>1 DEF Placed
  <2> HIDE DEF from, s
  <2>2. ASSUME NEW p \in 0 .. m - 1, NEW j \in 1 .. Len(b[p]) PROVE from(p) + j \in 1 .. Len(s)
    <3> DEFINE u == from(p)
               v == Len(b[p])
               l == Len(s)
    <3>1. u \in Nat /\ v \in Nat /\ l \in Nat /\ u + v <= l /\ j \in 1 .. v
      BY <1>0, <2>1
    <3> HIDE DEF u, v, l
    <3>2. u + j \in 1 .. l
      BY <3>1
    <3>3. QED BY <3>2 DEF u, l
  <2>3. QED BY <2>1, <2>2
<1>2. \A p, q \in 0 .. m - 1 : p < q => from(p) + Len(b[p]) <= from(q)
  <2> SUFFICES ASSUME NEW p \in 0 .. m - 1, NEW q \in 0 .. m - 1, p < q
               PROVE  from(p) + Len(b[p]) <= from(q)
    OBVIOUS
  <2>1. q \in 0 .. m /\ p \in 0 .. q - 1
    OBVIOUS
  <2>2. Placed(c, b, q)
    BY <1>0, <2>1, ConcatPlaces
  <2>3. QED BY <2>1, <2>2 DEF Placed
<1> HIDE DEF from
<1>3. \A p \in 0 .. m - 1 : \A j \in 1 .. Len(b[p]) : b[p][j] \in g[p]
  BY DEF AreBlocksOf, IsEnumerationOf
<1>4. ASSUME NEW p \in 0 .. m - 1, NEW q \in 0 .. m - 1, NEW x \in g[p], x \in g[q]
      PROVE  p = q
  <2>1. x \in Rows
    BY DEF AreBlocksOf
  <2>2. ~ (p < q) /\ ~ (q < p)
    BY <1>4, <2>1, LessThan DEF AreBlocksOf
  <2>3. QED BY <2>2
<1>5. IsEnumerationOf(s, S)
  <2>1. ASSUME NEW x \in S PROVE \E i \in 1 .. Len(s) : s[i] = x
    <3>1. PICK p \in 0 .. m - 1 : x \in g[p]
      BY DEF AreBlocksOf
    <3>2. PICK j \in 1 .. Len(b[p]) : b[p][j] = x
      BY <3>1 DEF AreBlocksOf, IsEnumerationOf
    <3>3. QED BY <1>1, <3>2
  <2>2. ASSUME NEW i \in 1 .. Len(s), NEW j \in 1 .. Len(s), s[i] = s[j] PROVE i = j
    <3>1a. PICK p \in 0 .. m - 1 : \E k \in 1 .. Len(b[p]) : i = from(p) + k
      BY <1>1
    <3>1. PICK k \in 1 .. Len(b[p]) : i = from(p) + k
      BY <3>1a
    <3>2a. PICK q \in 0 .. m - 1 : \E l \in 1 .. Len(b[q]) : j = from(q) + l
      BY <1>1
    <3>2. PICK l \in 1 .. Len(b[q]) : j = from(q) + l
      BY <3>2a
    <3>3. b[p][k] = b[q][l]
      BY <1>1, <2>2, <3>1, <3>2
    <3>4. p = q
      BY <1>3, <1>4, <3>3
    <3>5. k = l
      BY <3>3, <3>4 DEF AreBlocksOf, IsEnumerationOf
    <3>6. QED BY <3>1, <3>2, <3>4, <3>5
  <2>3. \A i \in 1 .. Len(s) : s[i] \in S
    BY <1>0, ElementOfSeq
  <2>4. QED BY <2>1, <2>2, <2>3 DEF IsEnumerationOf
<1>6. InOrder(s)
  <2> SUFFICES ASSUME NEW i \in 1 .. Len(s), NEW j \in 1 .. Len(s), i < j
               PROVE  ~ less_than(s[j], s[i])
    BY DEF InOrder
  <2>1a. PICK p \in 0 .. m - 1 : \E k \in 1 .. Len(b[p]) : i = from(p) + k
    BY <1>1
  <2>1. PICK k \in 1 .. Len(b[p]) : i = from(p) + k
    BY <2>1a
  <2>2a. PICK q \in 0 .. m - 1 : \E l \in 1 .. Len(b[q]) : j = from(q) + l
    BY <1>1
  <2>2. PICK l \in 1 .. Len(b[q]) : j = from(q) + l
    BY <2>2a
  <2>3. s[i] = b[p][k] /\ s[j] = b[q][l]
    BY <1>1, <2>1, <2>2
  <2>4. CASE p = q
    <3>1. k < l
      BY <1>0, <2>1, <2>2, <2>4
    <3>2. QED BY <2>3, <2>4, <3>1 DEF AreBlocksOf, InOrder
  <2>5. CASE p < q
    <3>1. b[p][k] \in g[p] /\ b[q][l] \in g[q]
      BY <1>3
    <3>2. less_than(b[p][k], b[q][l]) /\ b[p][k] \in Rows /\ b[q][l] \in Rows
      BY <2>5, <3>1 DEF AreBlocksOf
    <3>3. QED BY <2>3, <3>2, LessThan
  <2>6. CASE q < p
    <3>1. from(q) + Len(b[q]) <= from(p)
      BY <1>2, <2>6
    <3>2. QED BY <1>0, <2>1, <2>2, <3>1
  <2>7. QED BY <2>4, <2>5, <2>6
<1>7. ASSUME NEW p \in 0 .. m - 1
      PROVE  IsBlockIn(s, from(p), b[p], g[p])
  <2>0. from(p) \in Nat /\ Len(b[p]) \in Nat /\ from(p) + Len(b[p]) <= Len(s)
    BY <1>0, <1>1
  <2>1. ASSUME NEW i \in 1 .. Len(s), s[i] \in g[p]
        PROVE  i \in from(p) + 1 .. from(p) + Len(b[p])
    <3>1a. PICK q \in 0 .. m - 1 : \E j \in 1 .. Len(b[q]) : i = from(q) + j
      BY <1>1
    <3>1. PICK j \in 1 .. Len(b[q]) : i = from(q) + j
      BY <3>1a
    <3>2. p = q
      <4>1. s[i] = b[q][j] /\ b[q][j] \in g[q]
        BY <1>1, <1>3, <3>1
      <4>2. QED BY <1>4, <2>1, <4>1
    <3>3. QED BY <2>0, <3>1, <3>2
  <2>2. ASSUME NEW i \in from(p) + 1 .. from(p) + Len(b[p])
        PROVE  i \in 1 .. Len(s) /\ s[i] \in g[p]
    <3>1. i - from(p) \in 1 .. Len(b[p]) /\ i = from(p) + (i - from(p))
      BY <2>0
    <3>2. QED BY <1>1, <1>3, <3>1
  <2>3. b[p] = SubSeq(s, from(p) + 1, from(p) + Len(b[p]))
    <3> DEFINE f == from(p)
               k == Len(b[p])
               u == SubSeq(s, f + 1, f + k)
    <3>1. \A j \in 1 .. k : b[p][j] = s[f + j]
      BY <1>1
    <3>2. /\ u \in Seq(S) /\ Len(u) = Len(b[p])
          /\ \A j \in 1 .. Len(b[p]) : u[j] = b[p][j]
      <4>1. f \in Nat /\ k \in Nat /\ f + k <= Len(s) /\ s \in Seq(S) /\ Len(s) \in Nat
        BY <1>0, <2>0
      <4>2. \A i \in 1 .. Len(s) : s[i] \in S
        BY <1>0, ElementOfSeq
      <4> HIDE DEF f, k, s
      <4>3. f + 1 \in Int /\ f + k \in Int /\ \A i \in f + 1 .. f + k : i \in 1 .. Len(s)
        BY <4>1
      <4>4. \A i \in f + 1 .. f + k : s[i] \in S
        BY <4>2, <4>3
      <4> DEFINE a == f + 1
                 e == f + k
      <4>5. /\ SubSeq(s, a, e) \in Seq(S)
            /\ Len(SubSeq(s, a, e)) = IF a <= e THEN e - a + 1 ELSE 0
            /\ \A i \in 1 .. e - a + 1 : SubSeq(s, a, e)[i] = s[a + i - 1]
        <5> HIDE DEF a, e
        <5>1. a \in Int /\ e \in Int /\ \A i \in a .. e : s[i] \in S
          BY <4>3, <4>4 DEF a, e
        <5>2. QED BY <5>1, SubSeqProperties
      <4>6. (IF a <= e THEN e - a + 1 ELSE 0) = k /\ e - a + 1 = k
        BY <4>1
      <4>7. \A j \in 1 .. k : a + j - 1 = f + j
        BY <4>1
      <4>8. u = SubSeq(s, a, e)
        OBVIOUS
      <4> HIDE DEF a, e, u
      <4>9. Len(u) = k /\ \A j \in 1 .. k : u[j] = s[f + j]
        BY <4>5, <4>6, <4>7, <4>8
      <4>10. QED BY <3>1, <4>5, <4>8, <4>9 DEF k
    <3>3. b[p] \in Seq(S)
      BY <1>0
    <3> HIDE DEF f, k, u
    <3>4. b[p] = u
      BY <3>2, <3>3, SeqEqual
    <3>5. QED BY <3>4 DEF f, k, u
  <2>4. QED BY <2>1, <2>2, <2>3 DEF IsBlockIn
<1>8. QED BY <1>0, <1>5, <1>6, <1>7 DEF from

---------------------------------------------------------------------------
(* Every key is in a range: the one before the first boundary above it.    *)
LEMMA RangesCover ==
  ASSUME NEW bs \in Seq(Int), Nondecreasing(bs), NEW k \in Int
  PROVE  \E i \in 0 .. Len(bs) : InRange(k, i, bs)
<1>0. Len(bs) \in Nat /\ \A j \in 1 .. Len(bs) : bs[j] \in Int
  OBVIOUS
<1> DEFINE above == {j \in 1 .. Len(bs) : k < bs[j]}
<1>1. CASE above = {}
  <2>1. \A j \in 1 .. Len(bs) : bs[j] <= k
    BY <1>0, <1>1
  <2>2. InRange(k, Len(bs), bs)
    BY <1>0, <2>1 DEF InRange
  <2>3. QED BY <1>0, <2>2
<1>2. CASE above # {}
  <2>1. PICK j \in above : \A i \in above : j <= i
    <3>1. above \subseteq Nat
      BY <1>0
    <3>2. PICK j \in above : \A i \in above : ~ (<<i, j>> \in OpToRel(<, Nat))
      BY <1>2, <3>1, NatLessThanWellFounded, WFMin
    <3>3. \A i, l \in Nat : i < l => <<i, l>> \in OpToRel(<, Nat)
      BY DEF OpToRel
    <3>4. \A i \in above : ~ (i < j)
      BY <3>1, <3>2, <3>3
    <3>5. QED BY <3>1, <3>4
  <2>2. j \in 1 .. Len(bs) /\ j - 1 \in 0 .. Len(bs) /\ k < bs[j]
    BY <1>0
  <2>3. \A i \in 1 .. Len(bs) : i <= j - 1 => bs[i] <= k
    BY <1>0, <2>1, <2>2
  <2>4. \A i \in 1 .. Len(bs) : j - 1 < i => k < bs[i]
    <3> SUFFICES ASSUME NEW i \in 1 .. Len(bs), j - 1 < i PROVE k < bs[i]
      OBVIOUS
    <3>1. i \in j .. Len(bs)
      BY <1>0, <2>2
    <3>2. bs[j] <= bs[i]
      BY <2>2, <3>1 DEF Nondecreasing
    <3>3. QED BY <1>0, <2>2, <3>2
  <2>5. InRange(k, j - 1, bs)
    BY <2>2, <2>3, <2>4 DEF InRange
  <2>6. QED BY <2>2, <2>5
<1>3. QED BY <1>1, <1>2

---------------------------------------------------------------------------
(* The rows that belong into partition i of the result. *)
Belongs(x, i) ==
  IF numPartitions <= 1
    THEN x \in childRDD[i]
    ELSE x \in InputRows /\ InRange(Key[x], i, boundaries)

Types ==
  /\ numPartitions \in Nat \ {0}
  /\ childRDD \in [Parts -> SUBSET Rows]
  /\ stage \in {"sort", "sample", "shuffle", "done"}
  /\ sampled \subseteq Rows
  /\ sampleTasks \subseteq Parts
  /\ boundaries \in Seq(Int)
  /\ mapTasks \subseteq Parts
  /\ DOMAIN pieces = Parts
  /\ result \in [Parts -> Seq(Seq(Rows))]
  /\ losses \in 0 .. MaxLosses

(* A single partition is sorted where it is; otherwise there is nothing    *)
(* before the shuffle.                                                     *)
Stages ==
  /\ stage = "sort" => numPartitions <= 1
  /\ stage = "sample" => numPartitions > 1 /\ \A i \in Parts : result[i] = <<>>
  /\ stage = "shuffle" => numPartitions > 1
  /\ stage \in {"sort", "sample"} => mapTasks = {}

(* The boundaries make numPartitions ranges at most, and cover every key.  *)
Bounded ==
  stage \in {"shuffle", "done"} /\ numPartitions > 1 =>
    Len(boundaries) < numPartitions /\ Nondecreasing(boundaries)

(* An available map output is the partition's cut at the boundaries, also  *)
(* when it has been lost and computed again.                               *)
Pieces ==
  \A p \in mapTasks : pieces[p] = PartitionForSort(childRDD[p], boundaries)

(* A finished partition of the result is one block of the rows that belong *)
(* there.                                                                  *)
Results ==
  \A i \in Parts : result[i] # <<>> =>
    Len(result[i]) = 1 /\ \A x \in Rows : IsIn(x, i) <=> Belongs(x, i)

Complete == stage = "done" => \A i \in Parts : result[i] # <<>>

SortInv == Types /\ Stages /\ Bounded /\ Pieces /\ Results /\ Complete

---------------------------------------------------------------------------
(* Range i of the rows S. *)
RangeRows(S, i, bs) == {x \in S : InRange(Key[x], i, bs)}

(* The pieces of partition i, when all map outputs are available, are the  *)
(* rows of its range.                                                      *)
GroupOf(i) == UNION {pieces[p][i] : p \in {q \in Parts : i \in DOMAIN pieces[q]}}

LEMMA GroupIsRange ==
  ASSUME Pieces, mapTasks = Parts, NEW i \in Parts
  PROVE  GroupOf(i) = RangeRows(InputRows, i, boundaries)
<1>1. ASSUME NEW p \in Parts
      PROVE  /\ i \in DOMAIN pieces[p]
             /\ pieces[p][i] = {x \in childRDD[p] : InRange(Key[x], i, boundaries)}
  <2>1. pieces[p] = [j \in Parts |-> {x \in childRDD[p] : InRange(Key[x], j, boundaries)}]
    BY DEF Pieces, PartitionForSort
  <2>2. QED BY <2>1
<1>2. QED BY <1>1 DEF GroupOf, RangeRows, InputRows

(* What a sort returns is a sequence of exactly the rows it was given.     *)
LEMMA EnumerationFacts ==
  ASSUME NEW S \in SUBSET Rows, NEW s \in SortedEnumerations(S)
  PROVE  /\ s \in Seq(Rows)
         /\ \A x : x \in S <=> \E i \in 1 .. Len(s) : s[i] = x
         /\ InOrder(s)
<1>1. s \in Seq(S) /\ IsEnumerationOf(s, S) /\ InOrder(s)
  BY DEF SortedEnumerations
<1>2. s \in Seq(Rows)
  <2>1. s \in [1 .. Len(s) -> S] /\ Len(s) \in Nat
    BY <1>1
  <2>2. s \in [1 .. Len(s) -> Rows]
    BY <2>1
  <2>3. QED BY <2>1, <2>2
<1>3. QED BY <1>1, <1>2 DEF IsEnumerationOf

(* The sort keys of a sorted sequence are a nondecreasing sequence.        *)
LEMMA SortKeysSorted ==
  ASSUME NEW s \in Seq(Rows), InOrder(s)
  PROVE  SortKeys(s) \in Seq(Int) /\ Nondecreasing(SortKeys(s))
<1>1. Len(s) \in Nat /\ \A i \in 1 .. Len(s) : s[i] \in Rows /\ Key[s[i]] \in Int
  BY RowsAssumption
<1>2. SortKeys(s) \in [1 .. Len(s) -> Int]
  BY <1>1 DEF SortKeys
<1>3. SortKeys(s) \in Seq(Int) /\ Len(SortKeys(s)) = Len(s)
  BY <1>1, <1>2
<1>4. ASSUME NEW i \in 1 .. Len(s), NEW j \in i .. Len(s)
      PROVE  SortKeys(s)[i] <= SortKeys(s)[j]
  <2>1. j \in 1 .. Len(s)
    BY <1>1
  <2>2. SortKeys(s)[i] = Key[s[i]] /\ SortKeys(s)[j] = Key[s[j]]
    BY <2>1 DEF SortKeys
  <2>3. CASE i = j
    BY <2>2, <2>3, <1>1
  <2>4. CASE i < j
    <3>1. ~ less_than(s[j], s[i])
      BY <2>1, <2>4 DEF InOrder
    <3>2. QED BY <3>1, <2>1, <2>2, <1>1 DEF less_than
  <2>5. QED BY <2>1, <2>3, <2>4, <1>1
<1>5. QED BY <1>3, <1>4 DEF Nondecreasing

(* A partition of the result that becomes the block s.                     *)
LEMMA OneBlock ==
  ASSUME NEW i \in Parts, NEW S \in SUBSET Rows, NEW s \in SortedEnumerations(S),
         Types, Results,
         result' = [result EXCEPT ![i] = <<s>>],
         UNCHANGED <<numPartitions, childRDD, boundaries>>,
         \A x \in Rows : x \in S <=> Belongs(x, i)
  PROVE  result' \in [Parts -> Seq(Seq(Rows))] /\ Results'
<1>0. Parts' = Parts
  BY DEF Parts, PartsOf
<1>1. s \in Seq(Rows) /\ \A x : x \in S <=> \E j \in 1 .. Len(s) : s[j] = x
  BY EnumerationFacts
<1>2. <<s>> \in Seq(Seq(Rows)) /\ Len(<<s>>) = 1 /\ <<s>>[1] = s
  BY <1>1
<1>3. result' \in [Parts -> Seq(Seq(Rows))]
  BY <1>2 DEF Types
<1>4. \A x, j : Belongs(x, j)' <=> Belongs(x, j)
  BY <1>0 DEF Belongs, InputRows
<1>5. ASSUME NEW j \in Parts, result'[j] # <<>>
      PROVE  Len(result'[j]) = 1 /\ \A x \in Rows : IsIn(x, j)' <=> Belongs(x, j)'
  <2>1. CASE j = i
    <3>1. result'[j] = <<s>>
      BY <2>1 DEF Types
    <3>2. \A x \in Rows : IsIn(x, j)' <=> \E l \in 1 .. Len(s) : s[l] = x
      <4>1. \A b \in 1 .. Len(result'[j]) : b = 1
        <5>1. Len(result'[j]) = 1
          BY <3>1, <1>2
        <5>2. \A b \in 1 .. 1 : b = 1
          OBVIOUS
        <5>3. QED BY <5>1, <5>2, Zenon
      <4>2. 1 \in 1 .. Len(result'[j]) /\ result'[j][1] = s
        BY <3>1, <1>2
      <4>3. QED BY <4>1, <4>2 DEF IsIn
    <3>3. QED BY <3>1, <3>2, <1>1, <1>2, <1>4, <2>1
  <2>2. CASE j # i
    <3>1. result'[j] = result[j]
      BY <2>2 DEF Types
    <3>2. \A x \in Rows : IsIn(x, j)' <=> IsIn(x, j)
      BY <3>1 DEF IsIn
    <3>3. QED BY <3>1, <3>2, <1>4, <1>5 DEF Results
  <2>3. QED BY <2>1, <2>2
<1>6. QED BY <1>0, <1>3, <1>5 DEF Results

(* A step that touches neither results nor boundaries.                     *)
LEMMA ResultsUnchanged ==
  ASSUME Results, UNCHANGED <<numPartitions, childRDD, boundaries, result>>
  PROVE  Results'
<1>0. Parts' = Parts
  BY DEF Parts, PartsOf
<1>1. \A x, i : Belongs(x, i)' <=> Belongs(x, i)
  BY <1>0 DEF Belongs, InputRows
<1>2. \A x, i : IsIn(x, i)' <=> IsIn(x, i)
  BY DEF IsIn
<1>3. QED BY <1>0, <1>1, <1>2 DEF Results

(* A step that touches neither map outputs nor boundaries.                 *)
LEMMA PiecesUnchanged ==
  ASSUME Pieces, UNCHANGED <<numPartitions, childRDD, boundaries, pieces, mapTasks>>
  PROVE  Pieces'
<1>1. Parts' = Parts
  BY DEF Parts, PartsOf
<1>2. QED BY <1>1 DEF Pieces, PartitionForSort

(* The strengthened invariant holds in every state. *)
THEOREM SortInvariant == Spec => []SortInv
<1>1. Init => SortInv
  <2> SUFFICES ASSUME Init PROVE SortInv
    OBVIOUS
  <2>1. numPartitions \in Nat \ {0} /\ childRDD \in [Parts -> SUBSET Rows]
    BY PartitionCountsAssumption DEF Init, ChildRDDs, Parts, PartsOf
  <2>2. /\ <<>> \in Seq(Int)
        /\ <<>> \in Seq(Seq(Rows))
        /\ 0 \in 0 .. MaxLosses
    BY MaxLossesAssumption
  <2>3. Types
    BY <2>1, <2>2 DEF Init, Types
  <2>4. Stages
    BY <2>1 DEF Init, Stages
  <2>5. Bounded /\ Pieces /\ Results /\ Complete
    BY DEF Init, Bounded, Pieces, Results, Complete
  <2>6. QED BY <2>3, <2>4, <2>5 DEF SortInv
<1>2. SortInv /\ [Next]_vars => SortInv'
  <2> SUFFICES ASSUME SortInv, [Next]_vars PROVE SortInv'
    OBVIOUS
  <2> USE DEF SortInv
  <2>0. numPartitions' = numPartitions /\ Parts' = Parts
    <3>1. UNCHANGED numPartitions
      BY DEF Next, Progress, SortOnlyPartition, SampleTask, FindRangeBounds,
             MapTask, ReduceTask, Finish, LoseMapOutput, vars
    <3>2. QED BY <3>1 DEF Parts, PartsOf
  <2>1. ASSUME NEW p \in Parts, SortOnlyPartition(p) PROVE SortInv'
    <3>1. PICK s \in SortedEnumerations(childRDD[p]) : result' = [result EXCEPT ![p] = <<s>>]
      BY <2>1 DEF SortOnlyPartition
    <3>2. childRDD[p] \in SUBSET Rows /\ \A x \in Rows : x \in childRDD[p] <=> Belongs(x, p)
      BY <2>1 DEF SortOnlyPartition, Stages, Types, Belongs
    <3>3. result' \in [Parts -> Seq(Seq(Rows))] /\ Results'
      BY <2>0, <3>1, <3>2, <2>1, OneBlock DEF SortOnlyPartition
    <3>4. Types' /\ Stages' /\ Bounded' /\ Pieces' /\ Complete'
      BY <2>0, <3>3, <2>1 DEF SortOnlyPartition, Types, Stages, Bounded, Pieces, Complete
    <3>5. QED BY <3>3, <3>4
  <2>2. ASSUME NEW p \in Parts, SampleTask(p) PROVE SortInv'
    <3>1. PICK S \in SUBSET childRDD[p] : sampled' = sampled \cup S
      BY <2>2 DEF SampleTask
    <3>2. sampled' \subseteq Rows
      BY <3>1 DEF Types
    <3>3. Types' /\ Stages' /\ Bounded' /\ Pieces' /\ Complete'
      BY <2>0, <3>2, <2>2 DEF SampleTask, Types, Stages, Bounded, Pieces, Complete
    <3>4. Results'
      BY <2>2, ResultsUnchanged DEF SampleTask
    <3>5. QED BY <3>3, <3>4
  <2>3. ASSUME FindRangeBounds PROVE SortInv'
    <3>1. PICK s \in SortedEnumerations(sampled) :
            boundaries' = Boundaries(SortKeys(s), numPartitions)
      BY <2>3 DEF FindRangeBounds
    <3>2. /\ boundaries' \in Seq(Int)
          /\ Len(boundaries') < numPartitions
          /\ Nondecreasing(boundaries')
      <4>1. SortKeys(s) \in Seq(Int) /\ Nondecreasing(SortKeys(s))
        BY EnumerationFacts, SortKeysSorted DEF Types
      <4>2. QED BY <3>1, <4>1, BoundariesFit DEF Types
    <3>3. Types' /\ Stages' /\ Bounded' /\ Pieces' /\ Complete'
      BY <2>0, <3>2, <2>3 DEF FindRangeBounds, Types, Stages, Bounded, Pieces, Complete
    <3>4. Results'
      BY <2>0, <2>3 DEF FindRangeBounds, Results, Stages
    <3>5. QED BY <3>3, <3>4
  <2>4. ASSUME NEW p \in Parts, MapTask(p) PROVE SortInv'
    <3>1. Types' /\ Stages' /\ Bounded' /\ Complete'
      BY <2>0, <2>4 DEF MapTask, Types, Stages, Bounded, Complete
    <3>2. Pieces'
      <4>1. \A q \in mapTasks' :
              pieces'[q] = PartitionForSort(childRDD[q], boundaries)
        BY <2>0, <2>4 DEF MapTask, Types, Pieces
      <4>2. QED BY <2>0, <4>1, <2>4 DEF MapTask, Pieces, PartitionForSort
    <3>3. Results'
      BY <2>4, ResultsUnchanged DEF MapTask
    <3>4. QED BY <3>1, <3>2, <3>3
  <2>5. ASSUME NEW i \in Parts, ReduceTask(i) PROVE SortInv'
    <3> DEFINE group == GroupOf(i)
    <3>1. PICK s \in SortedEnumerations(group) : result' = [result EXCEPT ![i] = <<s>>]
      BY <2>5 DEF ReduceTask, GroupOf
    <3>2. group = RangeRows(InputRows, i, boundaries)
      BY <2>5, GroupIsRange DEF ReduceTask, MapOutputsAvailable, Types
    <3>3. group \in SUBSET Rows /\ \A x \in Rows : x \in group <=> Belongs(x, i)
      <4>1. InputRows \subseteq Rows
        BY DEF InputRows, Types
      <4>2. ~ (numPartitions <= 1)
        BY <2>5 DEF ReduceTask, Stages, Types
      <4>3. QED BY <3>2, <4>1, <4>2 DEF RangeRows, Belongs
    <3> HIDE DEF group
    <3>5. result' \in [Parts -> Seq(Seq(Rows))] /\ Results'
      BY <2>0, <3>1, <3>3, <2>5, OneBlock DEF ReduceTask
    <3>6. Types' /\ Stages' /\ Bounded' /\ Complete'
      BY <2>0, <3>5, <2>5 DEF ReduceTask, Types, Stages, Bounded, Complete
    <3>7. Pieces'
      BY <2>5, PiecesUnchanged DEF ReduceTask
    <3>8. QED BY <3>5, <3>6, <3>7
  <2>6. ASSUME Finish PROVE SortInv'
    <3>1. Types' /\ Stages' /\ Bounded'
      BY <2>0, <2>6 DEF Finish, Types, Stages, Bounded
    <3>2. Results' /\ Pieces'
      BY <2>6, ResultsUnchanged, PiecesUnchanged DEF Finish
    <3>3. \A i \in Parts : result[i] # <<>>
      <4>1. ASSUME NEW i \in Parts, result[i] = <<>> PROVE FALSE
        <5>1. stage = "shuffle" /\ mapTasks = Parts /\ i \notin DOMAIN pieces[i]
          BY <2>6, <4>1 DEF Finish, MapOutputsAvailable
        <5>2. pieces[i] = PartitionForSort(childRDD[i], boundaries)
          BY <5>1 DEF Pieces
        <5>3. QED BY <5>1, <5>2 DEF PartitionForSort
      <4>2. QED BY <4>1
    <3>4. Complete'
      BY <2>0, <3>3, <2>6 DEF Finish, Complete
    <3>5. QED BY <3>1, <3>2, <3>4
  <2>7. ASSUME NEW p \in Parts, LoseMapOutput(p) PROVE SortInv'
    <3>1. losses' \in 0 .. MaxLosses
      BY <2>0, <2>7, MaxLossesAssumption DEF LoseMapOutput, Types
    <3>2. Types' /\ Stages' /\ Bounded' /\ Complete'
      BY <2>0, <3>1, <2>7 DEF LoseMapOutput, Types, Stages, Bounded, Complete
    <3>3. Pieces'
      <4>1. \A q \in mapTasks' :
              pieces'[q] = PartitionForSort(childRDD[q], boundaries)
        BY <2>0, <2>7 DEF LoseMapOutput, Types, Pieces
      <4>2. QED BY <2>0, <4>1, <2>7 DEF LoseMapOutput, Pieces, PartitionForSort
    <3>4. Results'
      BY <2>7, ResultsUnchanged DEF LoseMapOutput
    <3>5. QED BY <3>2, <3>3, <3>4
  <2>8. CASE UNCHANGED vars
    <3>1. Types' /\ Stages' /\ Bounded' /\ Complete'
      BY <2>0, <2>8 DEF vars, Types, Stages, Bounded, Complete
    <3>2. Pieces' /\ Results'
      BY <2>0, <2>8, PiecesUnchanged, ResultsUnchanged DEF vars
    <3>3. QED BY <3>1, <3>2
  <2>9. QED
    BY <2>1, <2>2, <2>3, <2>4, <2>5, <2>6, <2>7, <2>8 DEF Next, Progress
<1>3. QED
  BY <1>1, <1>2, PTL DEF Spec

(* The type invariant, for every instance. *)
THEOREM SortTypeCorrect == Spec => []TypeOK
<1>1. SortInv => TypeOK
  <2> SUFFICES ASSUME SortInv PROVE TypeOK
    OBVIOUS
  <2>1. ASSUME NEW p \in mapTasks PROVE pieces[p] \in [Parts -> SUBSET Rows]
    <3>1. p \in Parts /\ childRDD[p] \in SUBSET Rows
      BY DEF SortInv, Types
    <3>2. pieces[p] = [j \in Parts |-> {x \in childRDD[p] : InRange(Key[x], j, boundaries)}]
      BY DEF SortInv, Pieces, PartitionForSort
    <3>3. \A j \in Parts : {x \in childRDD[p] : InRange(Key[x], j, boundaries)} \in SUBSET Rows
      BY <3>1
    <3>4. QED BY <3>2, <3>3
  <2>2. QED BY <2>1 DEF SortInv, Types, TypeOK
<1>2. QED BY <1>1, SortInvariant, PTL

(* Rows of an earlier partition are strictly below rows of a later one,    *)
(* whatever tasks have run; so rows with equal keys share a partition.     *)
THEOREM PartitionsAreRanges == Spec => []RangesOrdered
<1>1. SortInv => RangesOrdered
  <2> SUFFICES ASSUME SortInv, NEW p \in Parts, NEW q \in Parts, p < q,
                      NEW x \in Rows, NEW y \in Rows, IsIn(x, p), IsIn(y, q)
               PROVE  less_than(x, y)
    BY DEF RangesOrdered
  <2>1. p \in Nat /\ q \in Nat /\ ~ (numPartitions <= 1)
    BY DEF Parts, PartsOf, SortInv, Types
  <2>2. result[p] # <<>> /\ result[q] # <<>>
    BY DEF IsIn
  <2>3. InRange(Key[x], p, boundaries) /\ InRange(Key[y], q, boundaries)
    BY <2>1, <2>2 DEF SortInv, Results, Belongs
  <2>4. Key[x] \in Int /\ Key[y] \in Int
    BY RowsAssumption
  <2>5. QED BY <2>1, <2>3, <2>4, RangesApart DEF SortInv, Types, less_than
<1>2. QED BY <1>1, SortInvariant, PTL

(* Every partition of the finished sort is exactly one block, which the    *)
(* join and the aggregation match on.                                      *)
THEOREM PartitionsAreBlocks == Spec => []OneBlockPerPartition
<1>1. SortInv => OneBlockPerPartition
  BY DEF SortInv, Results, Complete, OneBlockPerPartition
<1>2. QED BY <1>1, SortInvariant, PTL

(* Every input row is in exactly one partition of the finished sort.       *)
THEOREM NoRowLost == Spec => []NothingLost
<1>1. SortInv => NothingLost
  <2> SUFFICES ASSUME SortInv, stage = "done", NEW x \in InputRows
               PROVE  \E p \in Parts : IsIn(x, p) /\ \A q \in Parts \ {p} : ~ IsIn(x, q)
    BY DEF NothingLost
  <2>1. x \in Rows /\ Key[x] \in Int
    BY RowsAssumption DEF InputRows, SortInv, Types
  <2>2. \A p \in Parts : IsIn(x, p) <=> Belongs(x, p)
    BY <2>1 DEF SortInv, Complete, Results
  <2>3. CASE numPartitions <= 1
    <3>1. Parts = {0}
      BY <2>3 DEF Parts, PartsOf, SortInv, Types
    <3>2. QED BY <2>2, <2>3, <3>1 DEF Belongs, InputRows
  <2>4. CASE ~ (numPartitions <= 1)
    <3>1. /\ boundaries \in Seq(Int)
          /\ Len(boundaries) < numPartitions
          /\ Nondecreasing(boundaries)
      BY <2>4 DEF SortInv, Types, Bounded
    <3>2. PICK i \in 0 .. Len(boundaries) : InRange(Key[x], i, boundaries)
      BY <2>1, <3>1, RangesCover
    <3>3. i \in Parts /\ Parts \subseteq Nat
      BY <3>1 DEF Parts, PartsOf, SortInv, Types
    <3>4. \A q \in Parts : InRange(Key[x], q, boundaries) => q = i
      <4> SUFFICES ASSUME NEW q \in Parts, InRange(Key[x], q, boundaries) PROVE q = i
        OBVIOUS
      <4>1. ~ (q < i)
        BY <2>1, <3>1, <3>2, <3>3, RangesApart
      <4>2. ~ (i < q)
        BY <2>1, <3>1, <3>2, <3>3, RangesApart
      <4>3. QED BY <3>3, <4>1, <4>2
    <3>5. QED BY <2>2, <2>4, <3>2, <3>3, <3>4 DEF Belongs
  <2>5. QED BY <2>3, <2>4
<1>2. QED BY <1>1, SortInvariant, PTL

---------------------------------------------------------------------------
(* The sorted RDD as a whole. *)

(* Cut at the boundaries, the concatenation falls apart into its blocks.   *)
LEMMA CutOfConcat ==
  ASSUME NEW m \in Nat, NEW S \in SUBSET Rows, NEW bs, NEW b, NEW c,
         AreBlocksOf(b, [p \in 0 .. m - 1 |-> RangeRows(S, p, bs)], m, S),
         Concatenates(c, b, m, S)
  PROVE  CutAt(c[m], bs, m) = b
<1> DEFINE g == [p \in 0 .. m - 1 |-> RangeRows(S, p, bs)]
           s == c[m]
<1> HIDE DEF g
<1>0. AreBlocksOf(b, g, m, S)
  BY DEF g
<1>1. /\ s \in Seq(S)
      /\ \A p \in 0 .. m - 1 : IsBlockIn(s, Len(c[p]), b[p], g[p])
  BY <1>0, ConcatSorts
<1>2. \A i \in 1 .. Len(s) : s[i] \in S
  BY <1>1, ElementOfSeq
<1>3. b \in [0 .. m - 1 -> Seq(S)] /\ c \in [0 .. m -> Seq(S)]
  BY <1>0 DEF AreBlocksOf, Concatenates
<1>4. ASSUME NEW p \in 0 .. m - 1 PROVE CutAt(s, bs, m)[p] = b[p]
  <2> DEFINE f == Len(c[p])
             k == Len(b[p])
             places == PlacesOf(p, s, bs)
  <2>1. f \in Nat /\ k \in Nat /\ b[p] \in Seq(S)
    <3>1. p \in 0 .. m
      OBVIOUS
    <3>2. QED BY <1>3, <3>1, LenProperties
  <2>2. places = f + 1 .. f + k
    <3>1. g[p] = RangeRows(S, p, bs)
      BY DEF g
    <3>2. \A i \in 1 .. Len(s) : s[i] \in g[p] <=> InRange(Key[s[i]], p, bs)
      BY <1>2, <3>1 DEF RangeRows
    <3>3. QED BY <1>1, <3>2 DEF PlacesOf, IsBlockIn
  <2>3. CutAt(s, bs, m)[p] = IF places = {} THEN <<>> ELSE SubSeq(s, Min(places), Max(places))
    BY DEF CutAt, PartsOf
  <2>4. b[p] = SubSeq(s, f + 1, f + k)
    BY <1>1 DEF IsBlockIn
  <2> HIDE DEF f, places
  <2>5. CASE k = 0
    <3>1. places = {}
      BY <2>1, <2>2, <2>5
    <3>2. b[p] = <<>>
      BY <2>1, <2>5, EmptySeq
    <3>3. QED BY <2>3, <3>1, <3>2
  <2>6. CASE k # 0
    <3> HIDE DEF k
    <3>1. /\ f + 1 \in places /\ f + k \in places /\ places # {}
          /\ \A i \in places : i \in Int /\ f + 1 <= i /\ i <= f + k
      BY <2>1, <2>2, <2>6
    <3>2. Min(places) = f + 1
      <4>1. \A i \in places : (\A j \in places : i <= j) => i = f + 1
        BY <2>1, <3>1
      <4>2. QED BY <3>1, <4>1 DEF Min
    <3>3. Max(places) = f + k
      <4>1. \A i \in places : (\A j \in places : i >= j) => i = f + k
        BY <2>1, <3>1
      <4>2. \A j \in places : f + k >= j
        BY <2>1, <3>1
      <4>3. QED BY <3>1, <4>1, <4>2 DEF Max
    <3>4. QED BY <2>3, <2>4, <3>1, <3>2, <3>3
  <2>7. QED BY <2>5, <2>6
<1>5. CutAt(s, bs, m) = [p \in 0 .. m - 1 |-> CutAt(s, bs, m)[p]]
  BY DEF CutAt, PartsOf
<1>6. QED BY <1>3, <1>4, <1>5

(* What is collected of the partitions r, n of them.                       *)
CollectedOf(r, n) ==
  LET upTo[i \in 0 .. n] ==
        IF i = 0 THEN <<>>
        ELSE upTo[i - 1] \o (IF r[i - 1] = <<>> THEN <<>> ELSE r[i - 1][1])
  IN  upTo[n]

(* Partitions of one block each are collected one after the other.         *)
LEMMA CollectedConcatenates ==
  ASSUME NEW n \in Nat, NEW S, NEW b, NEW c, Concatenates(c, b, n, S),
         NEW r, \A i \in 0 .. n - 1 : r[i] # <<>> /\ r[i][1] = b[i]
  PROVE  CollectedOf(r, n) = c[n]
<1> DEFINE block(i) == IF r[i] = <<>> THEN <<>> ELSE r[i][1]
           upTo[i \in 0 .. n] == IF i = 0 THEN <<>> ELSE upTo[i - 1] \o block(i - 1)
<1>1. \A i \in 1 .. n : i - 1 \in 0 .. n - 1 /\ block(i - 1) = b[i - 1]
  <2>1. \A i \in 1 .. n : i - 1 \in 0 .. n - 1
    OBVIOUS
  <2>2. QED BY <2>1
<1> HIDE DEF block
<1>2. upTo = [i \in 0 .. n |-> IF i = 0 THEN <<>> ELSE upTo[i - 1] \o block(i - 1)]
  <2>1. c = [i \in 0 .. n |-> IF i = 0 THEN <<>> ELSE c[i - 1] \o block(i - 1)]
    <3>1. ASSUME NEW i \in 0 .. n
          PROVE  c[i] = IF i = 0 THEN <<>> ELSE c[i - 1] \o block(i - 1)
      <4>1. CASE i = 0
        BY <4>1 DEF Concatenates
      <4>2. CASE i # 0
        <5>1. i \in 1 .. n
          BY <4>2
        <5>2. QED BY <1>1, <4>2, <5>1 DEF Concatenates
      <4>3. QED BY <4>1, <4>2
    <3>2. c = [i \in 0 .. n |-> c[i]]
      BY DEF Concatenates
    <3>3. QED BY <3>1, <3>2
  <2>2. \E f : f = [i \in 0 .. n |-> IF i = 0 THEN <<>> ELSE f[i - 1] \o block(i - 1)]
    BY <2>1
  <2>3. QED BY <2>2
<1>3. CollectedOf(r, n) = upTo[n]
  BY DEF CollectedOf, block
<1> HIDE DEF upTo
<1> DEFINE T == {i \in 0 .. n : upTo[i] = c[i]}
<1>4. 0 \in T
  <2>1. 0 \in 0 .. n
    OBVIOUS
  <2>2. QED BY <1>2, <2>1 DEF Concatenates
<1>5. ASSUME NEW i \in 1 .. n, i - 1 \in T PROVE i \in T
  <2>1. i \in 0 .. n /\ i # 0
    OBVIOUS
  <2>2. upTo[i] = upTo[i - 1] \o block(i - 1)
    BY <1>2, <2>1
  <2>3. QED BY <1>1, <1>5, <2>1, <2>2 DEF Concatenates
<1>6. n \in T
  <2>1. n \in 0 .. n
    OBVIOUS
  <2> HIDE DEF T
  <2>2. QED BY <1>4, <1>5, <2>1, SetInduction
<1>7. QED BY <1>3, <1>6

---------------------------------------------------------------------------
(* The boundaries come from a sample of the rows; one partition has none.  *)
Cuts ==
  /\ sampled \subseteq InputRows
  /\ numPartitions <= 1 => boundaries = <<>>
  /\ stage \in {"shuffle", "done"} =>
       \E drawn \in SUBSET InputRows : boundaries \in BoundariesOf(drawn, numPartitions)

(* A finished partition of the result is one block, which is a sorted      *)
(* enumeration of its range.                                               *)
Blocks ==
  \A i \in Parts : result[i] # <<>> =>
    \E s \in SortedEnumerations(RangeRows(InputRows, i, boundaries)) : result[i] = <<s>>

(* A partition becomes the block s.                                        *)
LEMMA OneSortedBlock ==
  ASSUME NEW i \in Parts, NEW s \in SortedEnumerations(RangeRows(InputRows, i, boundaries)),
         Types, Blocks, result' = [result EXCEPT ![i] = <<s>>],
         UNCHANGED <<numPartitions, childRDD, boundaries>>
  PROVE  Blocks'
<1>1. Parts' = Parts /\ InputRows' = InputRows
  BY DEF Parts, PartsOf, InputRows
<1>2. ASSUME NEW j \in Parts, result'[j] # <<>>
      PROVE  \E t \in SortedEnumerations(RangeRows(InputRows, j, boundaries)) :
               result'[j] = <<t>>
  <2>1. CASE j = i
    <3>1. result'[j] = <<s>>
      BY <2>1 DEF Types
    <3>2. QED BY <2>1, <3>1
  <2>2. CASE j # i
    <3>1. result'[j] = result[j]
      BY <2>2 DEF Types
    <3>2. QED BY <1>2, <3>1 DEF Blocks
  <2>3. QED BY <2>1, <2>2
<1>3. QED BY <1>1, <1>2 DEF Blocks

(* A step that touches neither results nor boundaries.                     *)
LEMMA BlocksUnchanged ==
  ASSUME Blocks, UNCHANGED <<numPartitions, childRDD, boundaries, result>>
  PROVE  Blocks'
<1>1. Parts' = Parts /\ InputRows' = InputRows
  BY DEF Parts, PartsOf, InputRows
<1>2. QED BY <1>1 DEF Blocks

(* A step of the driver that leaves the boundaries alone, and is no sample *)
(* task.                                                                   *)
LEMMA CutsKept ==
  ASSUME Cuts, UNCHANGED <<numPartitions, childRDD, boundaries, sampled>>,
         stage' \in {"shuffle", "done"} => stage \in {"shuffle", "done"} \/ numPartitions <= 1
  PROVE  Cuts'
<1>1. InputRows' = InputRows
  BY DEF Parts, PartsOf, InputRows
<1>2. CASE stage \in {"shuffle", "done"} \/ stage' \notin {"shuffle", "done"}
  BY <1>1, <1>2 DEF Cuts
<1>3. CASE numPartitions <= 1
  <2>1. {} \in SUBSET InputRows /\ boundaries \in BoundariesOf({}, numPartitions)
    BY <1>3 DEF Cuts, BoundariesOf
  <2>2. boundaries' \in BoundariesOf({}, numPartitions')
    BY <2>1
  <2>3. \E drawn \in SUBSET InputRows' : boundaries' \in BoundariesOf(drawn, numPartitions')
    BY <1>1, <2>1, <2>2
  <2>4. QED BY <1>1, <2>3 DEF Cuts
<1>4. QED BY <1>2, <1>3

(* The boundaries and the blocks in every state. *)
THEOREM CutsAndBlocks == Spec => [](SortInv /\ Cuts /\ Blocks)
<1>1. Init => Cuts /\ Blocks
  <2> SUFFICES ASSUME Init PROVE Cuts /\ Blocks
    OBVIOUS
  <2>1. stage \notin {"shuffle", "done"} /\ \A i \in Parts : result[i] = <<>>
    BY DEF Init
  <2>2. Cuts
    BY <2>1 DEF Init, Cuts
  <2>3. QED BY <2>1, <2>2 DEF Blocks
<1>2. SortInv /\ SortInv' /\ Cuts /\ Blocks /\ [Next]_vars => Cuts' /\ Blocks'
  <2> SUFFICES ASSUME SortInv, SortInv', Cuts, Blocks, [Next]_vars PROVE Cuts' /\ Blocks'
    OBVIOUS
  <2>0. /\ numPartitions' = numPartitions /\ childRDD' = childRDD
        /\ Parts' = Parts /\ InputRows' = InputRows
        /\ Types /\ InputRows \subseteq Rows
    <3>1. UNCHANGED <<numPartitions, childRDD>>
      BY DEF Next, Progress, SortOnlyPartition, SampleTask, FindRangeBounds,
             MapTask, ReduceTask, Finish, LoseMapOutput, vars
    <3>2. Types
      BY DEF SortInv
    <3>3. QED BY <3>1, <3>2 DEF Parts, PartsOf, InputRows, Types
  <2>1. ASSUME NEW p \in Parts, SortOnlyPartition(p) PROVE Cuts' /\ Blocks'
    <3>1. PICK s \in SortedEnumerations(childRDD[p]) : result' = [result EXCEPT ![p] = <<s>>]
      BY <2>1 DEF SortOnlyPartition
    <3>2. numPartitions = 1 /\ Parts = {0} /\ p = 0
      BY <2>1 DEF SortOnlyPartition, SortInv, Stages, Types, Parts, PartsOf
    <3>3. childRDD[p] = RangeRows(InputRows, p, boundaries)
      <4>1. InputRows = childRDD[p]
        BY <3>2 DEF InputRows
      <4>2. boundaries = <<>>
        BY <3>2 DEF Cuts
      <4>3. \A k : InRange(k, 0, <<>>)
        BY DEF InRange
      <4>4. QED BY <3>2, <4>1, <4>2, <4>3 DEF RangeRows
    <3>4. Blocks'
      BY <2>0, <2>1, <3>1, <3>3, OneSortedBlock DEF SortOnlyPartition
    <3>5. Cuts'
      BY <2>1, CutsKept DEF SortOnlyPartition
    <3>6. QED BY <3>4, <3>5
  <2>2. ASSUME NEW p \in Parts, SampleTask(p) PROVE Cuts' /\ Blocks'
    <3>1. sampled' \subseteq InputRows
      <4>1. childRDD[p] \subseteq InputRows
        BY DEF InputRows
      <4>2. QED BY <2>2, <4>1 DEF SampleTask, Cuts
    <3>2. stage' = "sample" /\ boundaries' = boundaries
      BY <2>2 DEF SampleTask
    <3>3. Cuts'
      BY <2>0, <3>1, <3>2 DEF Cuts
    <3>4. Blocks'
      BY <2>2, BlocksUnchanged DEF SampleTask
    <3>5. QED BY <3>3, <3>4
  <2>3. ASSUME FindRangeBounds PROVE Cuts' /\ Blocks'
    <3>1. PICK s \in SortedEnumerations(sampled) :
            boundaries' = Boundaries(SortKeys(s), numPartitions)
      BY <2>3 DEF FindRangeBounds
    <3>2. ~ (numPartitions <= 1) /\ \A i \in Parts : result[i] = <<>>
      BY <2>3 DEF FindRangeBounds, SortInv, Stages, Types
    <3>3. boundaries' \in BoundariesOf(sampled, numPartitions)
      BY <3>1, <3>2 DEF BoundariesOf
    <3>4. sampled \in SUBSET InputRows
      BY DEF Cuts
    <3>5. sampled' = {} /\ result' = result
      BY <2>3 DEF FindRangeBounds
    <3>6. Cuts'
      BY <2>0, <3>2, <3>3, <3>4, <3>5 DEF Cuts
    <3>7. Blocks'
      BY <2>0, <3>2, <3>5 DEF Blocks
    <3>8. QED BY <3>6, <3>7
  <2>4. ASSUME NEW p \in Parts, MapTask(p) PROVE Cuts' /\ Blocks'
    BY <2>4, CutsKept, BlocksUnchanged DEF MapTask
  <2>5. ASSUME NEW i \in Parts, ReduceTask(i) PROVE Cuts' /\ Blocks'
    <3>1. PICK s : result' = [result EXCEPT ![i] = <<s>>]
                   /\ s \in SortedEnumerations(GroupOf(i))
      BY <2>5 DEF ReduceTask, GroupOf
    <3>2. GroupOf(i) = RangeRows(InputRows, i, boundaries)
      BY <2>5, GroupIsRange DEF SortInv, ReduceTask, MapOutputsAvailable, Types
    <3>3. Blocks'
      BY <2>0, <2>5, <3>1, <3>2, OneSortedBlock DEF ReduceTask
    <3>4. QED BY <2>5, <3>3, CutsKept DEF ReduceTask
  <2>6. ASSUME Finish PROVE Cuts' /\ Blocks'
    <3>1. stage \in {"shuffle", "done"} \/ numPartitions <= 1
      BY <2>6 DEF Finish, SortInv, Stages
    <3>2. Cuts'
      BY <2>6, <3>1, CutsKept DEF Finish
    <3>3. QED BY <2>6, <3>2, BlocksUnchanged DEF Finish
  <2>7. ASSUME NEW p \in Parts, LoseMapOutput(p) PROVE Cuts' /\ Blocks'
    BY <2>7, CutsKept, BlocksUnchanged DEF LoseMapOutput
  <2>8. CASE UNCHANGED vars
    BY <2>8, CutsKept, BlocksUnchanged DEF vars
  <2>9. QED
    BY <2>1, <2>2, <2>3, <2>4, <2>5, <2>6, <2>7, <2>8 DEF Next, Progress
<1>3. QED
  BY <1>1, <1>2, SortInvariant, PTL DEF Spec

(* A finished sort: some boundaries from a sample, and the blocks of the   *)
(* partitions, which concatenate to a sorted enumeration of the rows.      *)
LEMMA FinishedSort ==
  ASSUME SortInv, Cuts, Blocks, stage = "done"
  PROVE  \E b, c :
           /\ result = [p \in Parts |-> <<b[p]>>]
           /\ Concatenates(c, b, numPartitions, InputRows)
           /\ c[numPartitions] \in SortedEnumerations(InputRows)
           /\ CutAt(c[numPartitions], boundaries, numPartitions) = b
<1> DEFINE n == numPartitions
           S == InputRows
           b == [p \in 0 .. n - 1 |-> result[p][1]]
           g == [p \in 0 .. n - 1 |-> RangeRows(S, p, boundaries)]
<1>1. /\ n \in Nat \ {0} /\ Parts = 0 .. n - 1 /\ S \in SUBSET Rows
      /\ boundaries \in Seq(Int) /\ result \in [Parts -> Seq(Seq(Rows))]
  BY DEF SortInv, Types, Parts, PartsOf, InputRows
<1>2. ASSUME NEW p \in Parts
      PROVE  /\ b[p] \in SortedEnumerations(RangeRows(S, p, boundaries))
             /\ result[p] = <<b[p]>>
  <2>1. PICK s \in SortedEnumerations(RangeRows(S, p, boundaries)) : result[p] = <<s>>
    BY DEF SortInv, Complete, Blocks
  <2>2. b[p] = s
    BY <1>1, <2>1
  <2>3. QED BY <2>1, <2>2
<1>3. result = [p \in Parts |-> <<b[p]>>]
  BY <1>1, <1>2
<1>4. ASSUME NEW x \in S PROVE \E p \in Parts : InRange(Key[x], p, boundaries)
  <2>1. Key[x] \in Int
    BY <1>1, RowsAssumption
  <2>2. CASE n <= 1
    <3>1. boundaries = <<>> /\ 0 \in Parts
      BY <1>1, <2>2 DEF Cuts
    <3>2. InRange(Key[x], 0, <<>>)
      BY DEF InRange
    <3>3. QED BY <3>1, <3>2
  <2>3. CASE ~ (n <= 1)
    <3>1. Len(boundaries) < n /\ Nondecreasing(boundaries)
      BY <1>1, <2>3 DEF SortInv, Bounded
    <3>2. PICK i \in 0 .. Len(boundaries) : InRange(Key[x], i, boundaries)
      BY <1>1, <2>1, <3>1, RangesCover
    <3>3. i \in Parts
      BY <1>1, <3>1
    <3>4. QED BY <3>2, <3>3
  <2>4. QED BY <2>2, <2>3
<1>5. ASSUME NEW p \in Parts, NEW q \in Parts, p < q,
             NEW x \in RangeRows(S, p, boundaries), NEW y \in RangeRows(S, q, boundaries)
      PROVE  less_than(x, y)
  <2>1. /\ p \in Nat /\ q \in Nat /\ Key[x] \in Int /\ Key[y] \in Int
        /\ InRange(Key[x], p, boundaries) /\ InRange(Key[y], q, boundaries)
    BY <1>1, RowsAssumption DEF RangeRows
  <2>2. QED BY <1>1, <1>5, <2>1, RangesApart DEF less_than
<1> HIDE DEF b
<1>6. b \in [0 .. n - 1 -> Seq(S)]
  <2>1. ASSUME NEW p \in Parts PROVE b[p] \in Seq(S)
    <3>1. b[p] \in Seq(RangeRows(S, p, boundaries)) /\ RangeRows(S, p, boundaries) \subseteq S
      BY <1>2 DEF SortedEnumerations, RangeRows
    <3>2. QED BY <3>1, SeqMonotonic
  <2>2. QED BY <1>1, <2>1 DEF b
<1>7. AreBlocksOf(b, g, n, S)
  <2>1. \A p \in 0 .. n - 1 : g[p] = RangeRows(S, p, boundaries)
    OBVIOUS
  <2>2. g \in [0 .. n - 1 -> SUBSET S]
    BY DEF RangeRows
  <2> HIDE DEF g
  <2>3. \A x \in S : \E p \in 0 .. n - 1 : x \in g[p]
    BY <1>1, <1>4, <2>1 DEF RangeRows
  <2>4. \A p, q \in 0 .. n - 1 : p < q => \A x \in g[p], y \in g[q] : less_than(x, y)
    BY <1>1, <1>5, <2>1
  <2>5. \A p \in 0 .. n - 1 : IsEnumerationOf(b[p], g[p]) /\ InOrder(b[p])
    BY <1>1, <1>2, <2>1 DEF SortedEnumerations
  <2>6. QED BY <1>6, <2>2, <2>3, <2>4, <2>5 DEF AreBlocksOf
<1>8. PICK c : Concatenates(c, b, n, S)
  BY <1>1, <1>6, ConcatExists
<1>9. c[n] \in SortedEnumerations(S)
  <2> HIDE DEF g
  <2>1. c[n] \in Seq(S) /\ IsEnumerationOf(c[n], S) /\ InOrder(c[n])
    BY <1>1, <1>7, <1>8, ConcatSorts
  <2>2. QED BY <1>1, <2>1, SortedEnumerationsAll
<1>10. CutAt(c[n], boundaries, n) = b
  BY <1>1, <1>7, <1>8, CutOfConcat
<1>11. QED BY <1>3, <1>8, <1>9, <1>10

(* What the join and the aggregation start from: whatever rows were        *)
(* sampled and whatever map tasks were run again, the finished sort leaves *)
(* one block per partition, and together they are the rows in order, cut   *)
(* at the boundaries that some sample gives.                               *)
THEOREM LeavesSortedRDD == Spec => []ResultIsSortedRDD
<1>1. SortInv /\ Cuts /\ Blocks => ResultIsSortedRDD
  <2> SUFFICES ASSUME SortInv, Cuts, Blocks, stage = "done"
               PROVE  \E rdd \in SortedRDDs(InputRows, numPartitions) :
                        result = [p \in Parts |-> <<rdd[p]>>]
    BY DEF ResultIsSortedRDD
  <2>1. PICK b, c :
           /\ result = [p \in Parts |-> <<b[p]>>]
           /\ c[numPartitions] \in SortedEnumerations(InputRows)
           /\ CutAt(c[numPartitions], boundaries, numPartitions) = b
    BY FinishedSort
  <2>2. PICK drawn \in SUBSET InputRows : boundaries \in BoundariesOf(drawn, numPartitions)
    BY DEF Cuts
  <2>3. b \in SortedRDDs(InputRows, numPartitions)
    BY <2>1, <2>2 DEF SortedRDDs
  <2>4. QED BY <2>1, <2>3
<1>2. QED BY <1>1, CutsAndBlocks, PTL

(* When the sort is done, what is collected is what SortSpec promises.     *)
Returned ==
  stage = "done" => IsEnumerationOf(Collected, InputRows) /\ InOrder(Collected)

(* Collecting the blocks gives the sorted enumeration.                     *)
LEMMA CollectedIsSorted ==
  ASSUME SortInv, Cuts, Blocks
  PROVE  Returned
<1> SUFFICES ASSUME stage = "done"
             PROVE  IsEnumerationOf(Collected, InputRows) /\ InOrder(Collected)
  BY DEF Returned
<1>1. PICK b, c :
        /\ result = [p \in Parts |-> <<b[p]>>]
        /\ Concatenates(c, b, numPartitions, InputRows)
        /\ c[numPartitions] \in SortedEnumerations(InputRows)
  BY FinishedSort
<1>2. numPartitions \in Nat /\ Parts = 0 .. numPartitions - 1
  BY DEF SortInv, Types, Parts, PartsOf
<1>3. \A i \in 0 .. numPartitions - 1 : result[i] # <<>> /\ result[i][1] = b[i]
  BY <1>1, <1>2
<1>4. CollectedOf(result, numPartitions) = c[numPartitions]
  BY <1>1, <1>2, <1>3, CollectedConcatenates
<1>5. Collected = CollectedOf(result, numPartitions)
  BY DEF Collected, CollectedOf
<1>6. QED BY <1>1, <1>4, <1>5 DEF SortedEnumerations

(* The safety of SortSpec: the distributed sort returns once, and what is  *)
(* collected from its partitions then is every row of the table, once each *)
(* and in order, for any boundaries and any losses.                        *)
THEOREM DistributedSortReturnsSorted ==
  Spec => Sort!Init /\ [][Sort!Return]_(Sort!sortVars)
<1>1. Init => Sort!Init
  <2> SUFFICES ASSUME Init PROVE Sort!Init
    OBVIOUS
  <2>1. numPartitions \in Nat \ {0} /\ childRDD \in [Parts -> SUBSET Rows]
    BY PartitionCountsAssumption DEF Init, ChildRDDs, Parts, PartsOf
  <2>2. InputRows \subseteq Rows
    BY <2>1 DEF InputRows
  <2>3. stage # "done"
    BY DEF Init
  <2>4. QED BY <2>2, <2>3 DEF Sort!Init
<1>2. Returned' /\ [Next]_vars => [Sort!Return]_(Sort!sortVars)
  <2> SUFFICES ASSUME Returned', [Next]_vars PROVE [Sort!Return]_(Sort!sortVars)
    OBVIOUS
  <2>1. InputRows' = InputRows /\ numPartitions' = numPartitions
    <3>1. UNCHANGED <<numPartitions, childRDD>>
      BY DEF Next, Progress, SortOnlyPartition, SampleTask, FindRangeBounds,
             MapTask, ReduceTask, Finish, LoseMapOutput, vars
    <3>2. QED BY <3>1 DEF Parts, PartsOf, InputRows
  <2>2. CASE stage # "done" /\ stage' = "done"
    <3>1. IsEnumerationOf(Collected', InputRows) /\ InOrder(Collected')
      BY <2>1, <2>2 DEF Returned
    <3>2. QED BY <2>1, <2>2, <3>1
           DEF Sort!Return, Sort!IsEnumerationOf, Sort!InOrder, Sort!less_than,
               IsEnumerationOf, InOrder, less_than
  <2>3. CASE stage # "done" /\ stage' # "done"
    BY <2>1, <2>3 DEF Sort!sortVars
  <2>4. CASE stage = "done"
    <3>1. stage' = "done" /\ result' = result
      BY <2>4 DEF Next, Progress, SortOnlyPartition, SampleTask, FindRangeBounds,
             MapTask, ReduceTask, Finish, LoseMapOutput, vars
    <3>2. /\ Collected = CollectedOf(result, numPartitions)
          /\ Collected' = CollectedOf(result', numPartitions')
      BY DEF Collected, CollectedOf
    <3>3. Collected' = Collected
      BY <2>1, <3>1, <3>2
    <3>4. QED BY <2>1, <2>4, <3>1, <3>3 DEF Sort!sortVars
  <2>5. QED BY <2>2, <2>3, <2>4
<1>3. SortInv /\ Cuts /\ Blocks => Returned
  BY CollectedIsSorted
<1>4. QED BY <1>1, <1>2, <1>3, CutsAndBlocks, PTL DEF Spec
=============================================================================
