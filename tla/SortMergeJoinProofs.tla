------------------------ MODULE SortMergeJoinProofs ------------------------
(***************************************************************************)
(* For all tables, join keys, numbers of partitions and rows to a block,   *)
(* and every loss of cached partitions: no pair of rows is joined that     *)
(* does not match or that is joined elsewhere, no group of primary rows is *)
(* mixed with another, and no match within reach of the partition that its *)
(* primary row is in is missed. Each enclave call is first proved by       *)
(* itself, as a loop over the rows of its partition; what it returns is a  *)
(* function of the sets of rows, so that a partition computed again in     *)
(* another order makes no difference.                                      *)
(***************************************************************************)
EXTENDS SortMergeJoin, CommonLemmas, FiniteSetTheorems

---------------------------------------------------------------------------
(* Sort keys. *)

(* Rows come in order of the join keys, primary rows first.                *)
LEMMA KeyFacts ==
  ASSUME NEW x \in Rows, NEW y \in Rows
  PROVE  /\ Key[x] \in Int
         /\ is_primary(x) /\ is_primary(y) => (is_same_group(x, y) <=> Key[x] = Key[y])
         /\ is_primary(x) /\ ~ is_primary(y) => Key[x] # Key[y]
         /\ is_primary(x) /\ ~ is_primary(y) /\ is_same_group(x, y) => Key[y] = Key[x] + 1
         /\ is_primary(x) /\ ~ is_primary(y) /\ Key[y] = Key[x] + 1 => is_same_group(x, y)
<1>1. /\ JoinKey[x] \in Int /\ JoinKey[y] \in Int
      /\ Tag[x] \in {0, 1} /\ Tag[y] \in {0, 1}
      /\ Key[x] = 2 * JoinKey[x] + Tag[x] /\ Key[y] = 2 * JoinKey[y] + Tag[y]
  BY JoinRowsAssumption DEF sortForJoin
<1> DEFINE j == JoinKey[x]  k == JoinKey[y]  a == Tag[x]  b == Tag[y]
<1>2. j \in Int /\ k \in Int /\ a \in {0, 1} /\ b \in {0, 1}
  BY <1>1
<1> HIDE DEF j, k, a, b
<1>3. /\ 2 * j + a \in Int
      /\ a = 0 /\ b = 0 => (j = k <=> 2 * j + a = 2 * k + b)
      /\ a = 0 /\ b # 0 => 2 * j + a # 2 * k + b
      /\ a = 0 /\ b # 0 /\ j = k => 2 * k + b = (2 * j + a) + 1
      /\ a = 0 /\ b # 0 /\ 2 * k + b = (2 * j + a) + 1 => j = k
  BY <1>2
<1>4. QED BY <1>1, <1>3 DEF j, k, a, b, is_primary, is_same_group

---------------------------------------------------------------------------
(* The last group of a partition. *)

(* The primary rows of T that may have to wait for rows after T: those of  *)
(* its greatest key, if that is the key of primary rows.                   *)
LastGroup(T) == {x \in T : is_primary(x) /\ \A t \in T : Key[t] <= Key[x]}

(* One more row, which is not before any other.                            *)
LEMMA LastGroupGrows ==
  ASSUME NEW T \in SUBSET Rows, NEW x \in Rows, x \notin T, \A t \in T : Key[t] <= Key[x]
  PROVE  /\ ~ is_primary(x) => LastGroup(T \cup {x}) = {}
         /\ is_primary(x) =>
              \A z \in LastGroup(T) :
                is_same_group(z, x) => LastGroup(T \cup {x}) = LastGroup(T) \cup {x}
         /\ is_primary(x) =>
              \/ \E z \in LastGroup(T) : is_same_group(z, x)
              \/ LastGroup(T \cup {x}) = {x}
<1>1. \A t \in T \cup {x} : t \in Rows /\ Key[t] \in Int /\ Key[t] <= Key[x]
  <2>1. \A t \in Rows : Key[t] \in Int
    BY KeyFacts
  <2>2. QED BY <2>1
<1>2. ASSUME ~ is_primary(x) PROVE LastGroup(T \cup {x}) = {}
  <2>1. ASSUME NEW t \in LastGroup(T \cup {x}) PROVE FALSE
    <3>1. t \in T \cup {x} /\ is_primary(t) /\ Key[x] <= Key[t]
      BY DEF LastGroup
    <3>2. Key[t] = Key[x]
      BY <1>1, <3>1
    <3>3. QED BY <1>1, <1>2, <3>1, <3>2, KeyFacts
  <2>2. QED BY <2>1
<1>3. ASSUME is_primary(x), NEW z \in LastGroup(T), is_same_group(z, x)
      PROVE  LastGroup(T \cup {x}) = LastGroup(T) \cup {x}
  <2>1. z \in T /\ is_primary(z) /\ \A t \in T : Key[t] <= Key[z]
    BY DEF LastGroup
  <2>2. Key[z] = Key[x]
    BY <1>1, <1>3, <2>1, KeyFacts
  <2>3. x \in LastGroup(T \cup {x})
    BY <1>1, <1>3 DEF LastGroup
  <2>4. ASSUME NEW t \in LastGroup(T) PROVE t \in LastGroup(T \cup {x})
    <3>1. t \in T /\ is_primary(t) /\ Key[z] <= Key[t] /\ \A u \in T : Key[u] <= Key[t]
      BY <2>1 DEF LastGroup
    <3>2. Key[x] <= Key[t]
      BY <2>2, <3>1
    <3>3. QED BY <3>1, <3>2 DEF LastGroup
  <2>5. ASSUME NEW t \in LastGroup(T \cup {x}), t # x PROVE t \in LastGroup(T)
    BY <2>5 DEF LastGroup
  <2>6. QED BY <2>3, <2>4, <2>5
<1>4. ASSUME is_primary(x), ~ \E z \in LastGroup(T) : is_same_group(z, x)
      PROVE  LastGroup(T \cup {x}) = {x}
  <2>1. x \in LastGroup(T \cup {x})
    BY <1>1, <1>4 DEF LastGroup
  <2>2. ASSUME NEW t \in LastGroup(T \cup {x}), t # x PROVE FALSE
    <3>1. t \in T /\ is_primary(t) /\ Key[x] <= Key[t] /\ t \in LastGroup(T)
      BY <2>2 DEF LastGroup
    <3>2. Key[t] = Key[x]
      BY <1>1, <3>1
    <3>3. is_same_group(t, x)
      BY <1>1, <1>4, <3>1, <3>2, KeyFacts
    <3>4. QED BY <1>4, <3>1, <3>3
  <2>3. QED BY <2>1, <2>2
<1>5. QED BY <1>2, <1>3, <1>4

(* Rows of the last group have one key, and match the same rows.           *)
LEMMA LastGroupIsOne ==
  ASSUME NEW T \in SUBSET Rows, NEW x \in LastGroup(T), NEW z \in LastGroup(T)
  PROVE  x \in Rows /\ is_primary(x) /\ is_same_group(x, z) /\ Key[x] = Key[z]
<1>1. /\ x \in Rows /\ z \in Rows /\ is_primary(x) /\ is_primary(z)
      /\ Key[x] <= Key[z] /\ Key[z] <= Key[x]
  BY DEF LastGroup
<1>2. Key[x] \in Int /\ Key[z] \in Int
  BY <1>1, KeyFacts
<1>3. Key[x] = Key[z]
  BY <1>1, <1>2
<1>4. QED BY <1>1, <1>3, KeyFacts

---------------------------------------------------------------------------
(* The first enclave call of a partition. *)

LEMMA EmptyWriter ==
  ASSUME NEW S
  PROVE  /\ QRowWriter \in Writers(S) /\ Written(QRowWriter) = <<>>
         /\ QRowWriter.finished = FALSE
<1>1. <<>> \in Seq(S) /\ <<>> \in Buffers(S)
  BY DEF Buffers
<1>2. QRowWriter \in Writers(S) /\ QRowWriter.finished = FALSE
  BY <1>1 DEF QRowWriter, Writers
<1>3. FlattenSeq(<<>>) = <<>>
  BY DEF FlattenSeq
<1>4. QED BY <1>2, <1>3 DEF QRowWriter, Written

(* The buffer of a writer that has not been finished holds what is written *)
LEMMA OutputHolds ==
  ASSUME NEW S, NEW c \in Writers(S)
  PROVE  /\ output_buffer(c) \in Writers(S) /\ output_buffer(c).root \in Buffers(S)
         /\ output_buffer(c).finished
         /\ ~ c.finished => FlattenSeq(output_buffer(c).root) = Written(c)
         /\ c.finished => output_buffer(c) = c
<1>1. /\ finish_blocks(c) \in Writers(S)
      /\ FlattenSeq(finish_blocks(c).root) = Written(c)
      /\ finish_blocks(c).finished
  BY FinishBlocksWritten
<1>2. \A d \in Writers(S) : d.root \in Buffers(S)
  BY DEF Writers
<1>3. output_buffer(c) = IF c.finished THEN c ELSE finish_blocks(c)
  BY DEF output_buffer
<1>4. QED BY <1>1, <1>2, <1>3

ScanStates == [w : Writers(Rows), last : SUBSET Rows]

(* What the scan knows after the rows T.                                   *)
ScanHolds(st, T) ==
  /\ st \in ScanStates
  /\ ~ st.w.finished
  /\ IsEnumerationOf(Written(st.w), LastGroup(T))
  /\ st.last \subseteq LastGroup(T)
  /\ LastGroup(T) # {} => st.last # {}

LEMMA ScanStarts == ScanHolds(ScanState, {})
<1>1. ScanState \in ScanStates /\ ScanState.w = QRowWriter /\ ScanState.last = {}
  BY EmptyWriter DEF ScanState, ScanStates
<1>2. LastGroup({}) = {}
  BY DEF LastGroup
<1>3. QED BY <1>1, <1>2, EmptyWriter, EnumeratesNone DEF ScanHolds

LEMMA ScanRowType ==
  ASSUME NEW st \in ScanStates, NEW x \in Rows
  PROVE  ScanRow(st, x) \in ScanStates
<1>1. /\ st.w \in Writers(Rows) /\ st.last \in SUBSET Rows
      /\ st = [w |-> st.w, last |-> st.last]
  BY DEF ScanStates
<1>2. append(st.w, x) \in Writers(Rows) /\ append(QRowWriter, x) \in Writers(Rows)
  BY <1>1, AppendWritten, EmptyWriter
<1>3. [st EXCEPT !.w = append(@, x)] = [w |-> append(st.w, x), last |-> st.last]
  BY <1>1
<1>4. QED BY <1>1, <1>2, <1>3, ScanStarts DEF ScanRow, ScanStates, ScanHolds

LEMMA ScanRowHolds ==
  ASSUME NEW T \in SUBSET Rows, NEW st, ScanHolds(st, T), NEW x \in Rows, x \notin T,
         \A t \in T : Key[t] <= Key[x]
  PROVE  ScanHolds(ScanRow(st, x), T \cup {x})
<1> DEFINE G == LastGroup(T)
           H == LastGroup(T \cup {x})
           new == ScanRow(st, x)
<1>1. /\ st \in ScanStates /\ ~ st.w.finished /\ IsEnumerationOf(Written(st.w), G)
      /\ st.last \subseteq G /\ (G # {} => st.last # {})
  BY DEF ScanHolds
<1>2. /\ st.w \in Writers(Rows) /\ st.last \in SUBSET Rows
      /\ st = [w |-> st.w, last |-> st.last]
  BY <1>1 DEF ScanStates
<1>3. new \in ScanStates
  BY <1>1, ScanRowType
<1>4. x \notin G /\ G \subseteq Rows
  BY DEF LastGroup
<1>5. CASE ~ is_primary(x)
  <2>1. H = {}
    BY <1>5, LastGroupGrows, Zenon
  <2>2. new = ScanState
    BY <1>5 DEF ScanRow
  <2>3. LastGroup({}) = {}
    BY DEF LastGroup
  <2>4. QED BY <2>1, <2>2, <2>3, ScanStarts DEF ScanHolds
<1>6. CASE is_primary(x) /\ InGroup(st, x)
  <2>1. PICK z \in st.last : is_same_group(z, x)
    BY <1>6 DEF InGroup
  <2>2. z \in G
    BY <1>1
  <2>3. H = G \cup {x}
    BY <1>6, <2>1, <2>2, LastGroupGrows, Zenon
  <2>4. new = [w |-> append(st.w, x), last |-> st.last]
    BY <1>2, <1>6 DEF ScanRow
  <2>5. /\ Written(append(st.w, x)) = Append(Written(st.w), x)
        /\ append(st.w, x).finished = st.w.finished
    BY <1>2, AppendWritten, Zenon
  <2>6. Written(st.w) \in Seq(Rows)
    BY <1>2, WrittenRows
  <2>7. IsEnumerationOf(Append(Written(st.w), x), G \cup {x})
    BY <1>1, <1>4, <2>6, AppendEnumerates
  <2>8. new.w = append(st.w, x) /\ new.last = st.last
    BY <2>4
  <2> HIDE DEF new, G, H
  <2>9. ScanHolds(new, T \cup {x})
    BY <1>1, <1>3, <2>1, <2>3, <2>5, <2>7, <2>8 DEF ScanHolds, H
  <2>10. QED BY <2>9 DEF new
<1>7. CASE is_primary(x) /\ ~ InGroup(st, x)
  <2>1. ~ \E z \in G : is_same_group(z, x)
    <3> SUFFICES ASSUME NEW z \in G, is_same_group(z, x) PROVE FALSE
      OBVIOUS
    <3>1. PICK y \in st.last : y \in G
      BY <1>1
    <3>2. is_same_group(y, z)
      BY <3>1, LastGroupIsOne
    <3>3. is_same_group(y, x)
      BY <3>2 DEF is_same_group
    <3>4. QED BY <1>7, <3>3 DEF InGroup
  <2>2. H = {x}
    BY <1>7, <2>1, LastGroupGrows, Zenon
  <2>3. new = [w |-> append(QRowWriter, x), last |-> {x}]
    BY <1>7 DEF ScanRow
  <2>4. /\ Written(append(QRowWriter, x)) = Append(<<>>, x)
        /\ append(QRowWriter, x).finished = FALSE
    BY AppendWritten, EmptyWriter
  <2>5. IsEnumerationOf(Append(<<>>, x), {} \cup {x})
    <3>1. <<>> \in Seq(Rows)
      OBVIOUS
    <3>2. QED BY <3>1, EnumeratesNone, AppendEnumerates
  <2>6. new.w = append(QRowWriter, x) /\ new.last = {x} /\ {} \cup {x} = {x}
    BY <2>3
  <2> HIDE DEF new, G, H
  <2>7. ScanHolds(new, T \cup {x})
    BY <1>3, <2>2, <2>4, <2>5, <2>6 DEF ScanHolds, H
  <2>8. QED BY <2>7 DEF new
<1>8. QED BY <1>5, <1>6, <1>7

(* What a partition hands on is the last group of its rows.                *)
LEMMA LastPrimaryHolds ==
  ASSUME NEW rows \in Seq(Rows), NEW R, IsEnumerationOf(rows, R), InOrder(rows)
  PROVE  /\ LastPrimary(rows) \in Buffers(Rows)
         /\ IsEnumerationOf(FlattenSeq(LastPrimary(rows)), LastGroup(R))
<1> DEFINE n == Len(rows)
           step == [q \in (1 .. n) \X ScanStates |-> ScanRow(q[2], rows[q[1]])]
           st[i \in 0 .. n] == IF i = 0 THEN ScanState ELSE ScanRow(st[i - 1], rows[i])
<1>1. /\ n \in Nat /\ RowsTo(rows, 0) = {} /\ RowsTo(rows, n) = R
      /\ \A i \in 1 .. n :
           /\ rows[i] \in Rows /\ rows[i] \in R
           /\ rows[i] \notin RowsTo(rows, i - 1)
           /\ \A t \in RowsTo(rows, i - 1) : Key[t] <= Key[rows[i]]
           /\ RowsTo(rows, i - 1) \subseteq R
           /\ RowsTo(rows, i) = RowsTo(rows, i - 1) \cup {rows[i]}
  BY NextInOrder
<1>2. R \subseteq Rows
  BY DEF IsEnumerationOf
<1>3. LastPrimary(rows) = output_buffer(st[n].w).root
  BY DEF LastPrimary
<1>4. \A i \in 1 .. n, s \in ScanStates : ScanRow(s, rows[i]) \in ScanStates
  BY <1>1, ScanRowType
<1>5. step \in [(1 .. n) \X ScanStates -> ScanStates]
  BY <1>4
<1>6. ASSUME NEW i \in 1 .. n, NEW s \in ScanStates PROVE step[<<i, s>>] = ScanRow(s, rows[i])
  <2>1. <<i, s>> \in (1 .. n) \X ScanStates /\ <<i, s>>[1] = i /\ <<i, s>>[2] = s
    OBVIOUS
  <2>2. QED BY <2>1, Zenon
<1>7. ScanState \in ScanStates
  BY ScanStarts DEF ScanHolds
<1> HIDE DEF step, n
<1>8. PICK f : Recursion(f, n, ScanStates, ScanState, step)
  BY <1>1, <1>5, <1>7, RecursionExists
<1>9. /\ f \in [0 .. n -> ScanStates] /\ f[0] = ScanState
      /\ \A i \in 1 .. n : f[i] = ScanRow(f[i - 1], rows[i])
  <2>1. \A i \in 1 .. n : i - 1 \in 0 .. n
    BY <1>1
  <2>2. \A i \in 1 .. n : f[i - 1] \in ScanStates
    BY <1>8, <2>1, Zenon DEF Recursion
  <2>3. QED BY <1>6, <1>8, <2>2, Zenon DEF Recursion
<1>10. st = [i \in 0 .. n |-> IF i = 0 THEN ScanState ELSE ScanRow(st[i - 1], rows[i])]
  <2>1. ASSUME NEW i \in 0 .. n
        PROVE  f[i] = IF i = 0 THEN ScanState ELSE ScanRow(f[i - 1], rows[i])
    <3>1. i # 0 => i \in 1 .. n
      BY <1>1
    <3>2. QED BY <1>9, <3>1, Zenon
  <2>2. f = [i \in 0 .. n |-> IF i = 0 THEN ScanState ELSE ScanRow(f[i - 1], rows[i])]
    BY <1>9, <2>1
  <2>3. \E h : h = [i \in 0 .. n |-> IF i = 0 THEN ScanState ELSE ScanRow(h[i - 1], rows[i])]
    BY <2>2
  <2>4. QED BY <2>3
<1> HIDE DEF st
<1> DEFINE K == {i \in 0 .. n : ScanHolds(st[i], RowsTo(rows, i))}
<1>11. 0 \in K
  <2>1. 0 \in 0 .. n
    BY <1>1
  <2>2. st[0] = ScanState
    BY <1>10, <2>1
  <2>3. QED BY <1>1, <2>1, <2>2, ScanStarts
<1>12. ASSUME NEW i \in 1 .. n, i - 1 \in K PROVE i \in K
  <2>1. i \in 0 .. n /\ i # 0
    BY <1>1
  <2>2. st[i] = ScanRow(st[i - 1], rows[i])
    BY <1>10, <2>1
  <2>3. ScanHolds(st[i - 1], RowsTo(rows, i - 1))
    BY <1>12
  <2>4. RowsTo(rows, i - 1) \in SUBSET Rows
    BY <1>1, <1>2
  <2>5. ScanHolds(st[i], RowsTo(rows, i - 1) \cup {rows[i]})
    BY <1>1, <2>2, <2>3, <2>4, ScanRowHolds
  <2>6. QED BY <1>1, <2>1, <2>5
<1>13. n \in K
  <2>1. n \in 0 .. n
    BY <1>1
  <2> HIDE DEF K
  <2>2. QED BY <1>1, <1>11, <1>12, <2>1, SetInduction
<1>14. ScanHolds(st[n], R)
  BY <1>1, <1>13
<1>15. st[n].w \in Writers(Rows) /\ ~ st[n].w.finished
  BY <1>14 DEF ScanHolds, ScanStates
<1>16. /\ output_buffer(st[n].w).root \in Buffers(Rows)
       /\ FlattenSeq(output_buffer(st[n].w).root) = Written(st[n].w)
  BY <1>15, OutputHolds
<1>17. QED BY <1>3, <1>14, <1>16 DEF ScanHolds

---------------------------------------------------------------------------
(* The second enclave call of a partition. *)

Prim(T) == {x \in T : is_primary(x)}

JoinStates == [group : Writers(Rows), last : SUBSET Rows,
               w : Writers(Rows \X Rows), violated : BOOLEAN]

(* The rows that the writer of the group shows when it is read next.       *)
Held(c) == IF c.finished THEN FlattenSeq(c.root) ELSE Written(c)

Pairs(T, F) == {xy \in T \X F : is_same_group(xy[1], xy[2])}

(* What the join knows after the primary rows T, with those handed on, and *)
(* the foreign rows F. The group may have been read, and its writer be     *)
(* finished, but then a foreign row of it has come and no more primary     *)
(* rows of it will.                                                        *)
JoinHolds(st, T, F) ==
  /\ st \in JoinStates
  /\ ~ st.violated
  /\ IsEnumerationOf(Held(st.group), LastGroup(T))
  /\ st.group.finished => \E z \in st.last : \E y \in F : is_same_group(z, y)
  /\ st.last \subseteq LastGroup(T)
  /\ T # {} => st.last # {}
  /\ ~ st.w.finished
  /\ IsEnumerationOf(Written(st.w), Pairs(T, F))

LEMMA JoinStateFacts ==
  ASSUME NEW st \in JoinStates
  PROVE  /\ st.group \in Writers(Rows) /\ st.last \in SUBSET Rows
         /\ st.w \in Writers(Rows \X Rows) /\ st.violated \in BOOLEAN
         /\ st = [group |-> st.group, last |-> st.last, w |-> st.w, violated |-> st.violated]
         /\ output_buffer(st.group) \in Writers(Rows)
         /\ rows_read(output_buffer(st.group).root) = FlattenSeq(output_buffer(st.group).root)
         /\ FlattenSeq(output_buffer(st.group).root) \in Seq(Rows)
<1>1. /\ st.group \in Writers(Rows) /\ st.last \in SUBSET Rows
      /\ st.w \in Writers(Rows \X Rows) /\ st.violated \in BOOLEAN
      /\ st = [group |-> st.group, last |-> st.last, w |-> st.w, violated |-> st.violated]
  BY DEF JoinStates
<1>2. output_buffer(st.group) \in Writers(Rows) /\ output_buffer(st.group).root \in Buffers(Rows)
  BY <1>1, OutputHolds
<1>3. QED BY <1>1, <1>2, RowsRead, BufferRows

(* A foreign row with each row of a group. *)
PairsWith(rows, y) == [i \in 1 .. Len(rows) |-> <<rows[i], y>>]

LEMMA PairsWithRow ==
  ASSUME NEW rows \in Seq(Rows), NEW y \in Rows
  PROVE  /\ PairsWith(rows, y) \in Seq(Rows \X Rows)
         /\ \A G : IsEnumerationOf(rows, G) => IsEnumerationOf(PairsWith(rows, y), G \X {y})
<1> DEFINE n == Len(rows)
           t == PairsWith(rows, y)
<1>1. n \in Nat /\ \A i \in 1 .. n : rows[i] \in Rows /\ t[i] = <<rows[i], y>>
  BY DEF PairsWith
<1>2. t \in [1 .. n -> Rows \X Rows]
  BY <1>1 DEF PairsWith
<1>3. t \in Seq(Rows \X Rows) /\ Len(t) = n
  BY <1>1, <1>2
<1> HIDE DEF t
<1>4. ASSUME NEW G, IsEnumerationOf(rows, G) PROVE IsEnumerationOf(t, G \X {y})
  <2>1. \A r \in G \X {y} : \E i \in 1 .. n : t[i] = r
    BY <1>1, <1>4 DEF IsEnumerationOf
  <2>2. \A i \in 1 .. n : t[i] \in G \X {y}
    <3>1. \A i \in 1 .. n : rows[i] \in G
      BY <1>4 DEF IsEnumerationOf
    <3>2. \A r \in G : <<r, y>> \in G \X {y}
      OBVIOUS
    <3>3. QED BY <1>1, <3>1, <3>2, Zenon
  <2>3. ASSUME NEW i \in 1 .. n, NEW j \in 1 .. n, t[i] = t[j] PROVE i = j
    <3>1. <<rows[i], y>> = <<rows[j], y>>
      BY <1>1, <2>3
    <3>2. rows[i] = rows[j]
      BY <3>1
    <3>3. QED BY <1>4, <3>2 DEF IsEnumerationOf
  <2>4. QED BY <1>3, <2>1, <2>2, <2>3 DEF IsEnumerationOf
<1>5. QED BY <1>3, <1>4 DEF t

LEMMA NextRowType ==
  ASSUME NEW st \in JoinStates, NEW x \in Rows
  PROVE  NextRow(st, x) \in JoinStates
<1> DEFINE group == output_buffer(st.group)
           rows  == rows_read(group.root)
<1>1. /\ st.group \in Writers(Rows) /\ st.last \in SUBSET Rows
      /\ st.w \in Writers(Rows \X Rows) /\ st.violated \in BOOLEAN
      /\ st = [group |-> st.group, last |-> st.last, w |-> st.w, violated |-> st.violated]
      /\ group \in Writers(Rows) /\ rows \in Seq(Rows)
  BY JoinStateFacts
<1>2. JoinPrimary(st, x) \in JoinStates
  <2> DEFINE g == append(IF InGroup(st, x) THEN st.group ELSE QRowWriter, x)
  <2>1. g \in Writers(Rows)
    BY <1>1, AppendWritten, EmptyWriter
  <2>2. JoinPrimary(st, x) = [st EXCEPT !.group = g, !.last = {x}]
    BY <1>1 DEF JoinPrimary
  <2> HIDE DEF g
  <2>3. [st EXCEPT !.group = g, !.last = {x}] \in JoinStates
    BY <2>1 DEF JoinStates
  <2>4. QED BY <2>2, <2>3
<1>3. JoinForeign(st, x) \in JoinStates
  <2> DEFINE v == append_all(st.w, PairsWith(rows, x))
  <2>1. PairsWith(rows, x) \in Seq(Rows \X Rows)
    BY <1>1, PairsWithRow
  <2>2. v \in Writers(Rows \X Rows)
    BY <1>1, <2>1, AppendAllWritten
  <2>3. \/ JoinForeign(st, x) = st
        \/ JoinForeign(st, x) = [st EXCEPT !.group = group, !.violated = TRUE]
        \/ JoinForeign(st, x) = [st EXCEPT !.group = group, !.w = v]
    BY <1>1 DEF JoinForeign, PairsWith
  <2> HIDE DEF v
  <2>4. group \in Writers(Rows)
    BY <1>1
  <2> HIDE DEF group
  <2>5. [st EXCEPT !.group = group, !.violated = TRUE] \in JoinStates
    BY <2>4 DEF JoinStates
  <2>6. [st EXCEPT !.group = group, !.w = v] \in JoinStates
    BY <2>2, <2>4 DEF JoinStates
  <2>7. QED BY <2>3, <2>5, <2>6
<1>4. QED BY <1>2, <1>3 DEF NextRow

(* Before the first row: the rows handed on are one group.                 *)
LEMMA JoinStarts ==
  ASSUME NEW handed \in Buffers(Rows), NEW T \in SUBSET Rows, LastGroup(T) = T,
         IsEnumerationOf(FlattenSeq(handed), T)
  PROVE  JoinHolds(JoinState(handed), T, {})
<1> DEFINE rows == FlattenSeq(handed)
           g == append_all(QRowWriter, rows)
           last == IF rows = <<>> THEN {} ELSE {rows[Len(rows)]}
           st == JoinState(handed)
<1>1. rows \in Seq(Rows) /\ rows_read(handed) = rows
  BY BufferRows, RowsRead
<1>2. /\ g \in Writers(Rows) /\ Written(g) = <<>> \o rows /\ g.finished = FALSE
  BY <1>1, EmptyWriter, AppendAllWritten
<1>3. Written(g) = rows
  BY <1>1, <1>2
<1>4. last \subseteq T /\ (T # {} => last # {})
  <2>1. CASE rows = <<>>
    BY <2>1, EnumeratesNone
  <2>2. CASE rows # <<>>
    <3>1. Len(rows) \in 1 .. Len(rows)
      BY <1>1, <2>2
    <3>2. QED BY <2>2, <3>1 DEF IsEnumerationOf
  <2>3. QED BY <2>1, <2>2
<1>5. st = [group |-> g, last |-> last, w |-> QRowWriter, violated |-> FALSE]
  BY <1>1 DEF JoinState
<1> HIDE DEF rows, g, last, st
<1>6. st.group = g /\ st.last = last /\ st.w = QRowWriter /\ st.violated = FALSE
  BY <1>5
<1>7. st \in JoinStates
  <2>1. last \in SUBSET Rows
    BY <1>4
  <2>2. QRowWriter \in Writers(Rows \X Rows)
    BY EmptyWriter
  <2>3. QED BY <1>2, <1>5, <2>1, <2>2 DEF JoinStates
<1>8. IsEnumerationOf(Held(g), LastGroup(T))
  BY <1>2, <1>3 DEF Held, rows
<1>9. Pairs(T, {}) = {}
  BY DEF Pairs
<1>10. JoinHolds(st, T, {})
  BY <1>2, <1>4, <1>6, <1>7, <1>8, <1>9, EmptyWriter, EnumeratesNone DEF JoinHolds
<1>11. QED BY <1>10 DEF st

(* A primary row, which is not before any other row.                       *)
LEMMA PrimaryHolds ==
  ASSUME NEW T \in SUBSET Rows, NEW F \in SUBSET Rows, Prim(T) = T, Prim(F) = {},
         NEW st, JoinHolds(st, T, F),
         NEW x \in Rows, is_primary(x), x \notin T, \A t \in T \cup F : Key[t] <= Key[x]
  PROVE  JoinHolds(NextRow(st, x), T \cup {x}, F)
<1> DEFINE G == LastGroup(T)
           H == LastGroup(T \cup {x})
           new == NextRow(st, x)
           g == append(IF InGroup(st, x) THEN st.group ELSE QRowWriter, x)
<1>1. /\ st \in JoinStates /\ ~ st.violated
      /\ IsEnumerationOf(Held(st.group), G)
      /\ (st.group.finished => \E z \in st.last : \E y \in F : is_same_group(z, y))
      /\ st.last \subseteq G /\ (T # {} => st.last # {})
      /\ ~ st.w.finished /\ IsEnumerationOf(Written(st.w), Pairs(T, F))
  BY DEF JoinHolds
<1>2. /\ st.group \in Writers(Rows)
      /\ st = [group |-> st.group, last |-> st.last, w |-> st.w, violated |-> st.violated]
  BY <1>1, JoinStateFacts
<1>3. new \in JoinStates
  BY <1>1, NextRowType
<1>4. new = [st EXCEPT !.group = g, !.last = {x}]
  BY <1>1, <1>2 DEF NextRow, JoinPrimary
<1> HIDE DEF g
<1>5. new.group = g /\ new.last = {x} /\ new.w = st.w /\ new.violated = st.violated
  BY <1>2, <1>4
<1> HIDE DEF new
<1>6. \A y \in F : ~ is_same_group(x, y)
  <2> SUFFICES ASSUME NEW y \in F, is_same_group(x, y) PROVE FALSE
    OBVIOUS
  <2>1. y \in Rows /\ ~ is_primary(y) /\ Key[y] <= Key[x]
    BY DEF Prim
  <2>2. Key[y] = Key[x] + 1 /\ Key[x] \in Int
    BY <2>1, KeyFacts
  <2>3. QED BY <2>1, <2>2
<1>7. Pairs(T \cup {x}, F) = Pairs(T, F)
  BY <1>6 DEF Pairs
<1>8. x \notin G /\ \A t \in T : Key[t] <= Key[x]
  BY DEF LastGroup
<1>9. IsEnumerationOf(Held(g), H) /\ ~ g.finished
  <2>1. CASE InGroup(st, x)
    <3>1. PICK z \in st.last : is_same_group(z, x)
      BY <2>1 DEF InGroup
    <3>2. z \in G
      BY <1>1, <3>1
    <3>3. H = G \cup {x}
      BY <1>8, <3>1, <3>2, LastGroupGrows, Zenon
    <3>4. ~ st.group.finished
      <4> SUFFICES ASSUME st.group.finished PROVE FALSE
        OBVIOUS
      <4>1. PICK u \in st.last, y \in F : is_same_group(u, y)
        BY <1>1
      <4>2. is_same_group(u, z)
        BY <1>1, <3>2, <4>1, LastGroupIsOne
      <4>3. is_same_group(x, y)
        BY <3>1, <4>1, <4>2 DEF is_same_group
      <4>4. QED BY <1>6, <4>1, <4>3
    <3>5. g = append(st.group, x)
      BY <2>1 DEF g
    <3>6. Written(g) = Append(Written(st.group), x) /\ g.finished = st.group.finished
      BY <1>2, <3>5, AppendWritten
    <3>7. Written(st.group) \in Seq(Rows)
      BY <1>2, WrittenRows
    <3>8. IsEnumerationOf(Written(st.group), G)
      BY <1>1, <3>4 DEF Held
    <3>9. IsEnumerationOf(Append(Written(st.group), x), G \cup {x})
      BY <1>8, <3>7, <3>8, AppendEnumerates
    <3>10. QED BY <3>3, <3>4, <3>6, <3>9 DEF Held
  <2>2. CASE ~ InGroup(st, x)
    <3>1. ~ \E z \in G : is_same_group(z, x)
      <4> SUFFICES ASSUME NEW z \in G, is_same_group(z, x) PROVE FALSE
        OBVIOUS
      <4>1. z \in T
        BY DEF LastGroup
      <4>2. PICK y \in st.last : y \in G
        BY <1>1, <4>1
      <4>3. is_same_group(y, z)
        BY <4>2, LastGroupIsOne
      <4>4. is_same_group(y, x)
        BY <4>3 DEF is_same_group
      <4>5. QED BY <2>2, <4>4 DEF InGroup
    <3>2. H = {x}
      BY <1>8, <3>1, LastGroupGrows, Zenon
    <3>3. g = append(QRowWriter, x)
      BY <2>2 DEF g
    <3>4. Written(g) = Append(<<>>, x) /\ g.finished = FALSE
      BY <3>3, AppendWritten, EmptyWriter
    <3>5. IsEnumerationOf(Append(<<>>, x), {} \cup {x})
      <4>1. <<>> \in Seq(Rows)
        OBVIOUS
      <4>2. QED BY <4>1, EnumeratesNone, AppendEnumerates
    <3>6. {} \cup {x} = {x}
      OBVIOUS
    <3>7. QED BY <3>2, <3>4, <3>5, <3>6 DEF Held
  <2>3. QED BY <2>1, <2>2
<1>10. x \in H
  <2>1. Key[x] <= Key[x]
    BY KeyFacts
  <2>2. QED BY <1>8, <2>1 DEF LastGroup
<1> HIDE DEF G, H
<1>11. JoinHolds(new, T \cup {x}, F)
  BY <1>1, <1>3, <1>5, <1>7, <1>9, <1>10 DEF JoinHolds, H
<1>12. QED BY <1>11 DEF new

(* A foreign row, which is not before any other row.                       *)
LEMMA ForeignHolds ==
  ASSUME NEW T \in SUBSET Rows, NEW F \in SUBSET Rows, Prim(T) = T, Prim(F) = {},
         NEW st, JoinHolds(st, T, F),
         NEW y \in Rows, ~ is_primary(y), y \notin F, \A t \in T \cup F : Key[t] <= Key[y]
  PROVE  JoinHolds(NextRow(st, y), T, F \cup {y})
<1> DEFINE G == LastGroup(T)
           group == output_buffer(st.group)
           rows == FlattenSeq(group.root)
           new == NextRow(st, y)
<1>1. /\ st \in JoinStates /\ ~ st.violated
      /\ IsEnumerationOf(Held(st.group), G)
      /\ (st.group.finished => \E z \in st.last : \E u \in F : is_same_group(z, u))
      /\ st.last \subseteq G /\ (T # {} => st.last # {})
      /\ ~ st.w.finished /\ IsEnumerationOf(Written(st.w), Pairs(T, F))
  BY DEF JoinHolds
<1>2. /\ st.group \in Writers(Rows) /\ st.w \in Writers(Rows \X Rows)
      /\ st = [group |-> st.group, last |-> st.last, w |-> st.w, violated |-> st.violated]
      /\ group \in Writers(Rows) /\ rows_read(group.root) = rows /\ rows \in Seq(Rows)
  BY <1>1, JoinStateFacts
<1>3. new \in JoinStates
  BY <1>1, NextRowType
<1>4. new = JoinForeign(st, y)
  BY <1>1 DEF NextRow
<1>5. \A x \in T : /\ x \in Rows /\ is_primary(x) /\ Key[x] \in Int /\ Key[y] \in Int
                   /\ Key[x] <= Key[y] /\ Key[x] # Key[y]
                   /\ is_same_group(x, y) <=> Key[y] = Key[x] + 1
  <2>1. \A x \in T : x \in Rows /\ is_primary(x) /\ Key[x] <= Key[y]
    BY DEF Prim
  <2>2. QED BY <2>1, KeyFacts
<1>6. CASE ~ InGroup(st, y)
  <2>1. new = st
    BY <1>4, <1>6 DEF JoinForeign
  <2>2. \A x \in T : ~ is_same_group(x, y)
    <3> SUFFICES ASSUME NEW x \in T, is_same_group(x, y) PROVE FALSE
      OBVIOUS
    <3>1. PICK z \in st.last : z \in G
      BY <1>1
    <3>2. z \in T /\ Key[x] <= Key[z]
      BY <3>1 DEF LastGroup
    <3>3. Key[y] = Key[z] + 1
      BY <1>5, <3>2
    <3>4. is_same_group(z, y)
      BY <1>5, <3>2, <3>3
    <3>5. QED BY <1>6, <3>1, <3>4 DEF InGroup
  <2>3. Pairs(T, F \cup {y}) = Pairs(T, F)
    BY <2>2 DEF Pairs
  <2> HIDE DEF G, new
  <2>4. JoinHolds(st, T, F \cup {y})
    BY <1>1, <2>3 DEF JoinHolds, G
  <2>5. QED BY <2>1, <2>4 DEF new
<1>7. CASE InGroup(st, y)
  <2> DEFINE v == append_all(st.w, PairsWith(rows, y))
  <2>1. PICK z \in st.last : is_same_group(z, y)
    BY <1>7 DEF InGroup
  <2>2. z \in G /\ z \in T
    BY <1>1, <2>1 DEF LastGroup
  <2>3. \A x \in T : is_same_group(x, y) <=> x \in G
    <3>1. ASSUME NEW x \in T, is_same_group(x, y) PROVE x \in G
      <4>1. Key[x] = Key[z]
        BY <1>5, <2>1, <2>2, <3>1
      <4>2. QED BY <1>5, <2>2, <4>1 DEF LastGroup
    <3>2. ASSUME NEW x \in G PROVE is_same_group(x, y)
      <4>1. is_same_group(x, z)
        BY <2>2, LastGroupIsOne
      <4>2. QED BY <2>1, <4>1 DEF is_same_group
    <3>3. QED BY <3>1, <3>2
  <2>4. IsEnumerationOf(rows, G)
    <3>1. CASE st.group.finished
      <4>1. group = st.group
        BY <1>2, <3>1, OutputHolds
      <4>2. QED BY <1>1, <3>1, <4>1 DEF Held
    <3>2. CASE ~ st.group.finished
      <4>1. rows = Written(st.group)
        BY <1>2, <3>2, OutputHolds
      <4>2. QED BY <1>1, <3>2, <4>1 DEF Held
    <3>3. QED BY <3>1, <3>2
  <2>5. group.finished
    BY <1>2, OutputHolds
  <2> HIDE DEF group, rows
  <2>6. \A i \in 1 .. Len(rows) : is_same_group(rows[i], y)
    <3>1. \A i \in 1 .. Len(rows) : rows[i] \in G
      BY <2>4 DEF IsEnumerationOf
    <3>2. \A x \in G : x \in T
      BY DEF LastGroup
    <3>3. QED BY <2>3, <3>1, <3>2
  <2>7. new = [st EXCEPT !.group = group, !.w = v]
    BY <1>2, <1>4, <1>7, <2>6 DEF JoinForeign, PairsWith, group
  <2>8. /\ PairsWith(rows, y) \in Seq(Rows \X Rows)
        /\ IsEnumerationOf(PairsWith(rows, y), G \X {y})
    BY <1>2, <2>4, PairsWithRow
  <2>9. Written(v) = Written(st.w) \o PairsWith(rows, y) /\ v.finished = st.w.finished
    BY <1>2, <2>8, AppendAllWritten
  <2>10. Pairs(T, F \cup {y}) = Pairs(T, F) \cup (G \X {y})
    <3>1. \A x \in G : x \in T
      BY DEF LastGroup
    <3>2. QED BY <2>3, <3>1 DEF Pairs
  <2>11. Pairs(T, F) \cap (G \X {y}) = {}
    BY DEF Pairs
  <2>12. IsEnumerationOf(Written(v), Pairs(T, F \cup {y}))
    <3>1. Written(st.w) \in Seq(Rows \X Rows)
      BY <1>2, WrittenRows
    <3>2. IsEnumerationOf(Written(st.w), Pairs(T, F))
      BY <1>1
    <3>3. IsEnumerationOf(Written(st.w) \o PairsWith(rows, y), Pairs(T, F) \cup (G \X {y}))
      BY <2>8, <2>11, <3>1, <3>2, ConcatEnumerates, Zenon
    <3>4. QED BY <2>9, <2>10, <3>3
  <2> HIDE DEF v, new
  <2>13. /\ new.group = group /\ new.last = st.last /\ new.w = v
         /\ new.violated = st.violated
    BY <1>2, <2>7
  <2>14. IsEnumerationOf(Held(group), G)
    BY <2>4, <2>5 DEF Held, rows
  <2>15. \E x \in st.last : \E u \in F \cup {y} : is_same_group(x, u)
    BY <2>1
  <2> HIDE DEF G
  <2>16. JoinHolds(new, T, F \cup {y})
    BY <1>1, <1>3, <2>9, <2>12, <2>13, <2>14, <2>15 DEF JoinHolds, G
  <2>17. QED BY <2>16 DEF new
<1>8. QED BY <1>6, <1>7

Forn(T) == {x \in T : ~ is_primary(x)}

(* One row of the partition more, after the rows P of it and those handed  *)
(* on.                                                                     *)
LEMMA NextRowHolds ==
  ASSUME NEW H \in SUBSET Rows, LastGroup(H) = H, NEW P \in SUBSET Rows,
         NEW st, JoinHolds(st, H \cup Prim(P), Forn(P)),
         NEW x \in Rows, x \notin P, \A t \in P : Key[t] <= Key[x], \A h \in H : Key[h] < Key[x]
  PROVE  JoinHolds(NextRow(st, x), H \cup Prim(P \cup {x}), Forn(P \cup {x}))
<1> DEFINE T == H \cup Prim(P)
           F == Forn(P)
<1>1. T \in SUBSET Rows /\ F \in SUBSET Rows /\ Prim(F) = {}
  BY DEF Prim, Forn
<1>2. Prim(T) = T
  BY DEF Prim, LastGroup
<1>3. \A t \in T \cup F : Key[t] <= Key[x]
  <2>1. \A h \in H : h \in Rows /\ Key[h] \in Int /\ Key[x] \in Int
    BY KeyFacts
  <2>2. \A h \in H : Key[h] <= Key[x]
    BY <2>1
  <2>3. QED BY <2>2 DEF Prim, Forn
<1>4. x \notin T /\ x \notin F
  <2>1. x \notin H
    <3>1. Key[x] \in Int
      BY KeyFacts
    <3>2. ~ (Key[x] < Key[x])
      BY <3>1
    <3>3. QED BY <3>2
  <2>2. QED BY <2>1 DEF Prim, Forn
<1>5. CASE is_primary(x)
  <2>1. H \cup Prim(P \cup {x}) = T \cup {x} /\ Forn(P \cup {x}) = F
    BY <1>5 DEF Prim, Forn
  <2> HIDE DEF T, F
  <2>2. JoinHolds(st, T, F)
    BY DEF T, F
  <2>3. JoinHolds(NextRow(st, x), T \cup {x}, F)
    BY <1>1, <1>2, <1>3, <1>4, <1>5, <2>2, PrimaryHolds
  <2>4. QED BY <2>1, <2>3
<1>6. CASE ~ is_primary(x)
  <2>1. H \cup Prim(P \cup {x}) = T /\ Forn(P \cup {x}) = F \cup {x}
    BY <1>6 DEF Prim, Forn
  <2> HIDE DEF T, F
  <2>2. JoinHolds(st, T, F)
    BY DEF T, F
  <2>3. JoinHolds(NextRow(st, x), T, F \cup {x})
    BY <1>1, <1>2, <1>3, <1>4, <1>6, <2>2, ForeignHolds
  <2>4. QED BY <2>1, <2>3
<1>7. QED BY <1>5, <1>6

(* The call returns each match once, of the rows handed on and those of    *)
(* the partition with the foreign rows of the partition.                   *)
LEMMA JoinReturns ==
  ASSUME NEW rows \in Seq(Rows), NEW R, IsEnumerationOf(rows, R), InOrder(rows),
         NEW handed \in Buffers(Rows), NEW H \in SUBSET Rows, LastGroup(H) = H,
         IsEnumerationOf(FlattenSeq(handed), H),
         \A h \in H : \A r \in R : Key[h] < Key[r]
  PROVE  /\ ~ Join(rows, handed).violated
         /\ FlattenSeq(output_buffer(Join(rows, handed).w).root) \in Seq(Rows \X Rows)
         /\ IsEnumerationOf(FlattenSeq(output_buffer(Join(rows, handed).w).root),
                            Pairs(H \cup Prim(R), Forn(R)))
<1> DEFINE n == Len(rows)
           Start == JoinState(handed)
           step == [q \in (1 .. n) \X JoinStates |-> NextRow(q[2], rows[q[1]])]
           st[i \in 0 .. n] == IF i = 0 THEN Start ELSE NextRow(st[i - 1], rows[i])
<1>1. /\ n \in Nat /\ RowsTo(rows, 0) = {} /\ RowsTo(rows, n) = R
      /\ \A i \in 1 .. n :
           /\ rows[i] \in Rows /\ rows[i] \in R
           /\ rows[i] \notin RowsTo(rows, i - 1)
           /\ \A t \in RowsTo(rows, i - 1) : Key[t] <= Key[rows[i]]
           /\ RowsTo(rows, i - 1) \subseteq R
           /\ RowsTo(rows, i) = RowsTo(rows, i - 1) \cup {rows[i]}
  BY NextInOrder
<1>2. R \subseteq Rows
  BY DEF IsEnumerationOf
<1>3. Join(rows, handed) = st[n]
  BY DEF Join
<1>4. \A i \in 1 .. n, s \in JoinStates : NextRow(s, rows[i]) \in JoinStates
  BY <1>1, NextRowType
<1>5. step \in [(1 .. n) \X JoinStates -> JoinStates]
  BY <1>4
<1>6. ASSUME NEW i \in 1 .. n, NEW s \in JoinStates PROVE step[<<i, s>>] = NextRow(s, rows[i])
  <2>1. <<i, s>> \in (1 .. n) \X JoinStates /\ <<i, s>>[1] = i /\ <<i, s>>[2] = s
    OBVIOUS
  <2>2. QED BY <2>1, Zenon
<1>7. JoinHolds(Start, H, {})
  BY JoinStarts
<1>8. Start \in JoinStates
  BY <1>7 DEF JoinHolds
<1> HIDE DEF step, n, Start
<1>9. PICK f : Recursion(f, n, JoinStates, Start, step)
  BY <1>1, <1>5, <1>8, RecursionExists
<1>10. /\ f \in [0 .. n -> JoinStates] /\ f[0] = Start
       /\ \A i \in 1 .. n : f[i] = NextRow(f[i - 1], rows[i])
  <2>1. \A i \in 1 .. n : i - 1 \in 0 .. n
    BY <1>1
  <2>2. \A i \in 1 .. n : f[i - 1] \in JoinStates
    BY <1>9, <2>1, Zenon DEF Recursion
  <2>3. QED BY <1>6, <1>9, <2>2, Zenon DEF Recursion
<1>11. st = [i \in 0 .. n |-> IF i = 0 THEN Start ELSE NextRow(st[i - 1], rows[i])]
  <2>1. ASSUME NEW i \in 0 .. n
        PROVE  f[i] = IF i = 0 THEN Start ELSE NextRow(f[i - 1], rows[i])
    <3>1. i # 0 => i \in 1 .. n
      BY <1>1
    <3>2. QED BY <1>10, <3>1, Zenon
  <2>2. f = [i \in 0 .. n |-> IF i = 0 THEN Start ELSE NextRow(f[i - 1], rows[i])]
    BY <1>10, <2>1
  <2>3. \E h : h = [i \in 0 .. n |-> IF i = 0 THEN Start ELSE NextRow(h[i - 1], rows[i])]
    BY <2>2
  <2>4. QED BY <2>3
<1> HIDE DEF st
<1> DEFINE Known(i) == JoinHolds(st[i], H \cup Prim(RowsTo(rows, i)), Forn(RowsTo(rows, i)))
           K == {i \in 0 .. n : Known(i)}
<1>12. 0 \in K
  <2>1. 0 \in 0 .. n
    BY <1>1
  <2>2. st[0] = Start
    BY <1>11, <2>1
  <2>3. H \cup Prim({}) = H /\ Forn({}) = {}
    BY DEF Prim, Forn
  <2>4. Known(0)
    BY <1>1, <1>7, <2>2, <2>3
  <2>5. QED BY <2>1, <2>4
<1>13. ASSUME NEW i \in 1 .. n, i - 1 \in K PROVE i \in K
  <2> DEFINE P == RowsTo(rows, i - 1)
             x == rows[i]
  <2>1. i \in 0 .. n /\ i # 0
    BY <1>1
  <2>2. st[i] = NextRow(st[i - 1], x)
    BY <1>11, <2>1
  <2>3. JoinHolds(st[i - 1], H \cup Prim(P), Forn(P))
    BY <1>13
  <2>4. /\ P \in SUBSET Rows /\ x \in Rows /\ x \notin P /\ x \in R
        /\ \A t \in P : Key[t] <= Key[x]
        /\ RowsTo(rows, i) = P \cup {x}
    BY <1>1, <1>2
  <2>5. \A h \in H : Key[h] < Key[x]
    BY <2>4
  <2> HIDE DEF P, x
  <2>6. JoinHolds(NextRow(st[i - 1], x), H \cup Prim(P \cup {x}), Forn(P \cup {x}))
    BY <2>3, <2>4, <2>5, NextRowHolds
  <2>7. Known(i)
    BY <2>2, <2>4, <2>6
  <2> HIDE DEF Known
  <2>8. QED BY <2>1, <2>7
<1>14. n \in K
  <2>1. n \in 0 .. n
    BY <1>1
  <2> HIDE DEF K
  <2>2. QED BY <1>1, <1>12, <1>13, <2>1, SetInduction
<1>15. JoinHolds(st[n], H \cup Prim(R), Forn(R))
  BY <1>1, <1>14
<1>16. /\ st[n].w \in Writers(Rows \X Rows) /\ ~ st[n].w.finished /\ ~ st[n].violated
       /\ IsEnumerationOf(Written(st[n].w), Pairs(H \cup Prim(R), Forn(R)))
  BY <1>15 DEF JoinHolds, JoinStates
<1>17. /\ FlattenSeq(output_buffer(st[n].w).root) = Written(st[n].w)
       /\ Written(st[n].w) \in Seq(Rows \X Rows)
  BY <1>16, OutputHolds, WrittenRows
<1>18. QED BY <1>3, <1>16, <1>17

---------------------------------------------------------------------------
(* The strengthened invariant. What a partition hands on, and what its     *)
(* join returns, is said of the sets of rows c[p] only, which do not       *)
(* change when a partition is computed again.                              *)
HandedOn(c, p) == IF p = 0 THEN {} ELSE LastGroup(ToSet(c[p - 1]))

MatchesIn(c, p) == Pairs(HandedOn(c, p) \cup Prim(ToSet(c[p])), Forn(ToSet(c[p])))

Stages ==
  /\ stage \in {"scan", "join", "done"}
  /\ scanned \subseteq Parts /\ tasksDone \subseteq Parts
  /\ stage # "scan" => scanned = Parts
  /\ stage = "done" => tasksDone = Parts

Scans ==
  /\ lastPrimaryRows \in [Parts -> Buffers(Rows)]
  /\ \A p \in scanned : IsEnumerationOf(FlattenSeq(lastPrimaryRows[p]), LastGroup(ToSet(childRDD[p])))

Joins ==
  /\ violated = {}
  /\ joined \in [Parts -> Seq(Rows \X Rows)]
  /\ \A p \in tasksDone : IsEnumerationOf(joined[p], MatchesIn(childRDD, p))
  /\ \A p \in Parts \ tasksDone : joined[p] = <<>>

JoinInv ==
  /\ SortedParts(childRDD, numPartitions) /\ Apart(childRDD, numPartitions)
  /\ Stages /\ Scans /\ Joins

LEMMA PartsOfJoin ==
  /\ Parts = PartsOf(numPartitions)
  /\ \A p \in Parts : p \in Nat /\ (p # 0 => p - 1 \in Parts /\ p - 1 < p)
BY JoinRowsAssumption, PartsAreNaturals DEF Parts

LEMMA RowsOfPart ==
  ASSUME JoinInv, NEW p \in Parts
  PROVE  /\ childRDD[p] \in Seq(Rows) /\ InOrder(childRDD[p])
         /\ IsEnumerationOf(childRDD[p], ToSet(childRDD[p]))
         /\ ToSet(childRDD[p]) \in SUBSET Rows
BY RowsOfParts DEF JoinInv, SortedParts, Parts

LEMMA KeysRise ==
  ASSUME JoinInv, NEW p \in Parts, NEW q \in Parts, p < q,
         NEW x \in ToSet(childRDD[p]), NEW y \in ToSet(childRDD[q])
  PROVE  Key[x] < Key[y]
BY DEF JoinInv, Apart, Parts

(* The partitions in another order.                                        *)
LEMMA SameSets ==
  ASSUME NEW c, NEW d, \A p \in Parts : ToSet(d[p]) = ToSet(c[p])
  PROVE  \A p \in Parts : HandedOn(d, p) = HandedOn(c, p) /\ MatchesIn(d, p) = MatchesIn(c, p)
<1>1. ASSUME NEW p \in Parts
      PROVE  HandedOn(d, p) = HandedOn(c, p) /\ MatchesIn(d, p) = MatchesIn(c, p)
  <2>1. HandedOn(d, p) = HandedOn(c, p)
    <3>1. p # 0 => ToSet(d[p - 1]) = ToSet(c[p - 1])
      BY PartsOfJoin
    <3>2. QED BY <3>1 DEF HandedOn
  <2>2. ToSet(d[p]) = ToSet(c[p])
    OBVIOUS
  <2>3. QED BY <2>1, <2>2 DEF MatchesIn
<1>2. QED BY <1>1

LEMMA InitHolds == Init => JoinInv
<1> SUFFICES ASSUME Init PROVE JoinInv
  OBVIOUS
<1>1. SortedParts(childRDD, numPartitions) /\ Apart(childRDD, numPartitions)
  BY SortedRDDFits, JoinRowsAssumption DEF Init
<1>2. Stages
  BY DEF Init, Stages
<1>3. <<>> \in Buffers(Rows) /\ <<>> \in Seq(Rows \X Rows)
  BY DEF Buffers
<1>4. Scans
  BY <1>3 DEF Init, Scans
<1>5. Joins
  BY <1>3 DEF Init, Joins
<1>6. QED BY <1>1, <1>2, <1>4, <1>5 DEF JoinInv

LEMMA ScanTaskHolds ==
  ASSUME JoinInv, NEW p \in Parts, ScanTask(p)
  PROVE  JoinInv'
<1> DEFINE b == LastPrimary(childRDD[p])
<1>1. /\ stage = "scan" /\ lastPrimaryRows' = [lastPrimaryRows EXCEPT ![p] = b]
      /\ scanned' = scanned \cup {p}
      /\ UNCHANGED <<childRDD, stage, joined, tasksDone, violated>>
  BY DEF ScanTask
<1>2. /\ b \in Buffers(Rows)
      /\ IsEnumerationOf(FlattenSeq(b), LastGroup(ToSet(childRDD[p])))
  <2>1. /\ childRDD[p] \in Seq(Rows) /\ InOrder(childRDD[p])
        /\ IsEnumerationOf(childRDD[p], ToSet(childRDD[p]))
    BY RowsOfPart
  <2>2. QED BY <2>1, LastPrimaryHolds
<1> HIDE DEF b
<1>3. lastPrimaryRows \in [Parts -> Buffers(Rows)]
  BY DEF JoinInv, Scans
<1>4. Scans'
  <2>1. lastPrimaryRows' \in [Parts -> Buffers(Rows)]
    BY <1>1, <1>2, <1>3
  <2>2. ASSUME NEW q \in scanned'
        PROVE  IsEnumerationOf(FlattenSeq(lastPrimaryRows'[q]), LastGroup(ToSet(childRDD[q])))
    <3>1. CASE q = p
      BY <1>1, <1>2, <1>3, <3>1
    <3>2. CASE q # p
      <4>1. q \in scanned /\ q \in Parts
        BY <1>1, <3>2 DEF JoinInv, Stages
      <4>2. lastPrimaryRows'[q] = lastPrimaryRows[q]
        BY <1>1, <1>3, <3>2, <4>1
      <4>3. QED BY <4>1, <4>2 DEF JoinInv, Scans
    <3>3. QED BY <3>1, <3>2
  <2>3. QED BY <1>1, <2>1, <2>2 DEF Scans
<1>5. Stages'
  BY <1>1 DEF JoinInv, Stages
<1>6. Joins'
  BY <1>1 DEF JoinInv, Joins
<1>7. QED BY <1>1, <1>4, <1>5, <1>6 DEF JoinInv

LEMMA JoinTaskHolds ==
  ASSUME JoinInv, NEW p \in Parts, JoinTask(p)
  PROVE  JoinInv'
<1> DEFINE st == Join(childRDD[p], JoinRow(p))
           rows == FlattenSeq(output_buffer(st.w).root)
           R == ToSet(childRDD[p])
           H == HandedOn(childRDD, p)
<1>1. stage = "join" /\ scanned = Parts
  BY DEF JoinTask, JoinInv, Stages
<1>2. /\ childRDD[p] \in Seq(Rows) /\ InOrder(childRDD[p])
      /\ IsEnumerationOf(childRDD[p], R)
  BY RowsOfPart
<1>3. /\ JoinRow(p) \in Buffers(Rows) /\ IsEnumerationOf(FlattenSeq(JoinRow(p)), H)
      /\ H \in SUBSET Rows /\ LastGroup(H) = H
      /\ \A h \in H : \A r \in R : Key[h] < Key[r]
  <2>1. CASE p = 0
    <3>1. JoinRow(p) = <<>> /\ H = {}
      BY <2>1 DEF JoinRow, HandedOn
    <3>2. <<>> \in Buffers(Rows) /\ FlattenSeq(<<>>) = <<>>
      BY DEF Buffers, FlattenSeq
    <3>3. LastGroup({}) = {}
      BY DEF LastGroup
    <3> HIDE DEF H
    <3>4. QED BY <3>1, <3>2, <3>3, EnumeratesNone
  <2>2. CASE p # 0
    <3>1. p - 1 \in Parts /\ p - 1 < p
      BY <2>2, PartsOfJoin
    <3> DEFINE L == ToSet(childRDD[p - 1])
    <3>2. JoinRow(p) = lastPrimaryRows[p - 1] /\ H = LastGroup(L)
      BY <2>2 DEF JoinRow, HandedOn
    <3>3. /\ lastPrimaryRows[p - 1] \in Buffers(Rows)
          /\ IsEnumerationOf(FlattenSeq(lastPrimaryRows[p - 1]), LastGroup(L))
      BY <1>1, <3>1 DEF JoinInv, Scans
    <3>4. L \in SUBSET Rows
      BY <3>1, RowsOfPart
    <3>5. \A h \in L : \A r \in R : Key[h] < Key[r]
      BY <3>1, KeysRise
    <3> HIDE DEF H, L, R
    <3>6. LastGroup(L) \subseteq L /\ LastGroup(LastGroup(L)) = LastGroup(L)
      BY DEF LastGroup
    <3>7. QED BY <3>2, <3>3, <3>4, <3>5, <3>6
  <2>3. QED BY <2>1, <2>2
<1> HIDE DEF R, H
<1>4. /\ ~ st.violated /\ rows \in Seq(Rows \X Rows)
      /\ IsEnumerationOf(rows, Pairs(H \cup Prim(R), Forn(R)))
  BY <1>2, <1>3, JoinReturns
<1>5. MatchesIn(childRDD, p) = Pairs(H \cup Prim(R), Forn(R))
  BY DEF MatchesIn, H, R
<1>6. /\ joined' = [joined EXCEPT ![p] = rows]
      /\ tasksDone' = tasksDone \cup {p}
      /\ UNCHANGED <<childRDD, stage, lastPrimaryRows, scanned, violated>>
  BY <1>4 DEF JoinTask
<1> HIDE DEF st, rows
<1>7. joined \in [Parts -> Seq(Rows \X Rows)] /\ tasksDone \subseteq Parts
  BY DEF JoinInv, Joins, Stages
<1>8. Joins'
  <2>1. joined' \in [Parts -> Seq(Rows \X Rows)]
    BY <1>4, <1>6, <1>7
  <2>2. ASSUME NEW q \in tasksDone'
        PROVE  IsEnumerationOf(joined'[q], MatchesIn(childRDD, q))
    <3>1. CASE q = p
      BY <1>4, <1>5, <1>6, <1>7, <3>1
    <3>2. CASE q # p
      <4>1. q \in tasksDone /\ joined'[q] = joined[q]
        BY <1>6, <1>7, <3>2
      <4>2. QED BY <4>1 DEF JoinInv, Joins
    <3>3. QED BY <3>1, <3>2
  <2>3. ASSUME NEW q \in Parts \ tasksDone' PROVE joined'[q] = <<>>
    <3>1. q \in Parts \ tasksDone /\ joined'[q] = joined[q]
      BY <1>6, <1>7
    <3>2. QED BY <3>1 DEF JoinInv, Joins
  <2>4. QED BY <1>6, <2>1, <2>2, <2>3 DEF JoinInv, Joins
<1>9. Stages'
  BY <1>1, <1>6 DEF JoinInv, Stages
<1>10. Scans'
  BY <1>6 DEF JoinInv, Scans
<1>11. QED BY <1>6, <1>8, <1>9, <1>10 DEF JoinInv

LEMMA RecomputeHolds ==
  ASSUME JoinInv, NEW p \in Parts, Recompute(p)
  PROVE  JoinInv'
<1>1. PICK s \in SortedEnumerations(ToSet(childRDD[p])) : childRDD' = [childRDD EXCEPT ![p] = s]
  BY DEF Recompute
<1>2. UNCHANGED <<stage, lastPrimaryRows, scanned, joined, tasksDone, violated>>
  BY DEF Recompute
<1> DEFINE d == childRDD'
<1>3. d = [childRDD EXCEPT ![p] = s]
  BY <1>1
<1> HIDE DEF d
<1>4. /\ SortedParts(d, numPartitions) /\ Apart(d, numPartitions)
      /\ \A q \in Parts : ToSet(d[q]) = ToSet(childRDD[q])
  <2>1. SortedParts(childRDD, numPartitions) /\ Apart(childRDD, numPartitions)
    BY DEF JoinInv
  <2>2. p \in PartsOf(numPartitions)
    BY DEF Parts
  <2>3. childRDD \in [PartsOf(numPartitions) -> Seq(Rows)] /\ s \in Seq(Rows)
    BY <2>1, RowsOfPart, SortedFacts DEF SortedParts
  <2>4. /\ d \in [PartsOf(numPartitions) -> Seq(Rows)]
        /\ \A q \in PartsOf(numPartitions) : d[q] = IF q = p THEN s ELSE childRDD[q]
    BY <1>3, <2>3
  <2>5. s \in SortedEnumerations(ToSet(childRDD[p]))
    OBVIOUS
  <2>6. /\ SortedParts(d, numPartitions) /\ Apart(d, numPartitions)
        /\ \A q \in PartsOf(numPartitions) : ToSet(d[q]) = ToSet(childRDD[q])
    BY <2>1, <2>2, <2>4, <2>5, ComputedAgain
  <2>7. QED BY <2>6 DEF Parts
<1>5. \A q \in Parts : MatchesIn(d, q) = MatchesIn(childRDD, q)
  BY <1>4, SameSets
<1>6. (/\ SortedParts(childRDD, numPartitions) /\ Apart(childRDD, numPartitions))'
  BY <1>4 DEF d
<1>7. Stages'
  BY <1>2 DEF JoinInv, Stages
<1>8. Scans'
  <2>1. \A q \in scanned : ToSet(d[q]) = ToSet(childRDD[q])
    BY <1>4 DEF JoinInv, Stages
  <2>2. QED BY <1>2, <2>1 DEF JoinInv, Scans, d
<1>9. Joins'
  <2>1. \A q \in tasksDone : MatchesIn(d, q) = MatchesIn(childRDD, q)
    BY <1>5 DEF JoinInv, Stages
  <2>2. QED BY <1>2, <2>1 DEF JoinInv, Joins, d
<1>10. QED BY <1>6, <1>7, <1>8, <1>9 DEF JoinInv

(* The strengthened invariant holds in every state. *)
THEOREM JoinInvariant == Spec => []JoinInv
<1>1. JoinInv /\ [Next]_vars => JoinInv'
  <2> SUFFICES ASSUME JoinInv, [Next]_vars PROVE JoinInv'
    OBVIOUS
  <2>1. ASSUME NEW p \in Parts, ScanTask(p) PROVE JoinInv'
    BY <2>1, ScanTaskHolds
  <2>2. CASE Collect
    BY <2>2 DEF Collect, JoinInv, Stages, Scans, Joins
  <2>3. ASSUME NEW p \in Parts, JoinTask(p) PROVE JoinInv'
    BY <2>3, JoinTaskHolds
  <2>4. CASE Finish
    BY <2>4 DEF Finish, JoinInv, Stages, Scans, Joins
  <2>5. ASSUME NEW p \in Parts, Recompute(p) PROVE JoinInv'
    BY <2>5, RecomputeHolds
  <2>6. CASE UNCHANGED vars
    BY <2>6 DEF vars, JoinInv, Stages, Scans, Joins
  <2>7. QED BY <2>1, <2>2, <2>3, <2>4, <2>5, <2>6 DEF Next
<1>2. QED BY <1>1, InitHolds, PTL DEF Spec

---------------------------------------------------------------------------
(* Soundness, and completeness within reach. *)

(* The rows of a pair: the foreign row is in the partition that joins it,  *)
(* the primary row in the same one or in the one before it.                *)
LEMMA RowsOfMatch ==
  ASSUME JoinInv, NEW p \in Parts, NEW x, NEW y, <<x, y>> \in MatchesIn(childRDD, p)
  PROVE  /\ x \in InputRows \cap Primary
         /\ y \in InputRows \cap Foreign
         /\ y \in ToSet(childRDD[p])
         /\ is_same_group(x, y)
<1> DEFINE R == ToSet(childRDD[p])
<1>1. /\ x \in HandedOn(childRDD, p) \cup Prim(R) /\ y \in Forn(R)
      /\ is_same_group(x, y)
  BY DEF MatchesIn, Pairs
<1>2. y \in R /\ ~ is_primary(y)
  BY <1>1 DEF Forn
<1>3. /\ R \in SUBSET Rows /\ R \subseteq InputRows
  BY RowsOfPart DEF InputRows
<1>4. x \in InputRows /\ x \in Rows /\ is_primary(x)
  <2>1. CASE x \in Prim(R)
    BY <1>3, <2>1 DEF Prim
  <2>2. CASE x \in HandedOn(childRDD, p)
    <3>1. p # 0 /\ p - 1 \in Parts
      BY <2>2, PartsOfJoin DEF HandedOn
    <3>2. ToSet(childRDD[p - 1]) \in SUBSET Rows /\ ToSet(childRDD[p - 1]) \subseteq InputRows
      BY <3>1, RowsOfPart DEF InputRows
    <3>3. x \in ToSet(childRDD[p - 1]) /\ is_primary(x)
      BY <2>2, <3>1 DEF HandedOn, LastGroup
    <3>4. QED BY <3>2, <3>3
  <2>3. QED BY <1>1, <2>1, <2>2
<1>5. QED BY <1>1, <1>2, <1>3, <1>4 DEF Primary, Foreign

(* What the join of a partition returned.                                  *)
LEMMA JoinedIs ==
  ASSUME JoinInv, NEW p \in Parts
  PROVE  /\ \A i \in DOMAIN joined[p] :
              p \in tasksDone /\ joined[p][i] \in MatchesIn(childRDD, p)
         /\ \A i, j \in DOMAIN joined[p] : joined[p][i] = joined[p][j] => i = j
         /\ p \in tasksDone =>
              \A xy \in MatchesIn(childRDD, p) : \E i \in DOMAIN joined[p] : joined[p][i] = xy
<1>1. CASE p \in tasksDone
  <2>1. joined[p] \in Seq(Rows \X Rows) /\ IsEnumerationOf(joined[p], MatchesIn(childRDD, p))
    BY <1>1 DEF JoinInv, Joins
  <2>2. DOMAIN joined[p] = 1 .. Len(joined[p])
    BY <2>1
  <2>3. QED BY <1>1, <2>1, <2>2 DEF IsEnumerationOf
<1>2. CASE p \notin tasksDone
  <2>1. joined[p] = <<>>
    BY <1>2 DEF JoinInv, Joins
  <2>2. DOMAIN joined[p] = {}
    BY <2>1
  <2>3. QED BY <1>2, <2>2
<1>3. QED BY <1>1, <1>2

(* A pair is joined once when the join of its partition has returned, and  *)
(* not at all before that or when it does not match.                       *)
LEMMA TimesJoinedIs ==
  ASSUME JoinInv, NEW x, NEW y
  PROVE  /\ TimesJoined(x, y) \in {0, 1}
         /\ (\E p \in tasksDone : <<x, y>> \in MatchesIn(childRDD, p)) => TimesJoined(x, y) = 1
<1> DEFINE At(p) == {i \in DOMAIN joined[p] : joined[p][i] = <<x, y>>}
           Z == UNION {{p} \X At(p) : p \in Parts}
<1>1. TimesJoined(x, y) = Cardinality(Z)
  BY DEF TimesJoined
<1>2. \A z \in Z : \E p \in Parts : \E i \in At(p) : z = <<p, i>>
  OBVIOUS
<1>3. ASSUME NEW p \in Parts, NEW q \in Parts, NEW i \in At(p), NEW j \in At(q)
      PROVE  p = q /\ i = j
  <2>1. /\ i \in DOMAIN joined[p] /\ joined[p][i] = <<x, y>>
        /\ j \in DOMAIN joined[q] /\ joined[q][j] = <<x, y>>
    OBVIOUS
  <2>2. <<x, y>> \in MatchesIn(childRDD, p) /\ <<x, y>> \in MatchesIn(childRDD, q)
    BY <2>1, JoinedIs
  <2>3. y \in ToSet(childRDD[p]) /\ y \in ToSet(childRDD[q])
    BY <2>2, RowsOfMatch
  <2>4. p = q
    BY <2>3, OnePartition, JoinRowsAssumption DEF JoinInv, Parts
  <2>5. QED BY <2>1, <2>4, JoinedIs
<1>4. \A p \in Parts : \A i \in At(p) : <<p, i>> \in Z
  OBVIOUS
<1>5. ASSUME NEW p \in tasksDone, <<x, y>> \in MatchesIn(childRDD, p)
      PROVE  Z # {}
  <2>1. p \in Parts
    BY DEF JoinInv, Stages
  <2>2. \E i \in DOMAIN joined[p] : joined[p][i] = <<x, y>>
    BY <1>5, <2>1, JoinedIs
  <2>3. QED BY <1>4, <2>1, <2>2
<1> HIDE DEF At, Z
<1>6. Z = {} \/ \E z : Z = {z}
  <2>1. \A z, u \in Z : z = u
    BY <1>2, <1>3
  <2>2. QED BY <2>1
<1>7. Cardinality({}) = 0 /\ \A z : Cardinality({z}) = 1
  BY FS_EmptySet, FS_Singleton
<1>8. Cardinality(Z) \in {0, 1} /\ (Z # {} => Cardinality(Z) = 1)
  BY <1>6, <1>7
<1>9. QED BY <1>1, <1>5, <1>8

(* JoinSound in every state: QSortMergeJoin never throws that the rows of  *)
(* primary_group are not of the same group, joins only rows that match,    *)
(* and although a group is both joined where it is and handed on, no pair  *)
(* of rows is joined twice.                                                *)
THEOREM JoinIsSound == Spec => []JoinSound
<1>1. ASSUME JoinInv PROVE JoinSound
  <2>1. violated = {}
    BY <1>1 DEF JoinInv, Joins
  <2>2. ASSUME NEW p \in Parts PROVE ToSet(joined[p]) \subseteq Matches
    <3>1. joined[p] \in Seq(Rows \X Rows)
      BY <1>1 DEF JoinInv, Joins
    <3>2. ASSUME NEW xy \in ToSet(joined[p]) PROVE xy \in Matches
      <4>1. PICK i \in DOMAIN joined[p] : joined[p][i] = xy
        BY <3>1, <3>2 DEF ToSet
      <4>2. xy \in MatchesIn(childRDD, p)
        BY <1>1, <4>1, JoinedIs
      <4>3. PICK x, y : xy = <<x, y>>
        BY <4>2 DEF MatchesIn, Pairs
      <4>4. /\ x \in InputRows \cap Primary /\ y \in InputRows \cap Foreign
            /\ is_same_group(x, y)
        BY <1>1, <4>2, <4>3, RowsOfMatch
      <4>5. QED BY <4>3, <4>4 DEF Matches
    <3>3. QED BY <3>2
  <2>3. ASSUME NEW xy \in Matches PROVE TimesJoined(xy[1], xy[2]) <= 1
    <3>1. TimesJoined(xy[1], xy[2]) \in {0, 1}
      BY <1>1, TimesJoinedIs
    <3>2. QED BY <3>1
  <2>4. QED BY <2>1, <2>2, <2>3 DEF JoinSound
<1>2. QED BY <1>1, JoinInvariant, PTL

(* The partition of a row. *)
LEMMA PartitionOfRow ==
  ASSUME JoinInv, NEW x \in InputRows
  PROVE  /\ PartitionOf(x) \in Parts
         /\ x \in ToSet(childRDD[PartitionOf(x)])
<1>1. \E p \in Parts : x \in ToSet(childRDD[p])
  BY DEF InputRows
<1>2. QED BY <1>1 DEF PartitionOf

(* A match whose foreign row is in the partition of its primary row or in  *)
(* the next one is found by the join of the foreign row's partition.       *)
LEMMA WithinReach ==
  ASSUME JoinInv, NEW x \in InputRows \cap Primary, NEW y \in InputRows \cap Foreign,
         is_same_group(x, y), PartitionOf(y) <= PartitionOf(x) + 1
  PROVE  <<x, y>> \in MatchesIn(childRDD, PartitionOf(y))
<1> DEFINE p == PartitionOf(x)
           q == PartitionOf(y)
           R == ToSet(childRDD[q])
<1>1. /\ p \in Parts /\ q \in Parts /\ x \in ToSet(childRDD[p]) /\ y \in R
  BY PartitionOfRow
<1>2. p \in Int /\ q \in Int /\ q <= p + 1
  BY <1>1, PartsOfJoin
<1> HIDE DEF p, q
<1>3. /\ x \in Rows /\ is_primary(x) /\ y \in Rows /\ ~ is_primary(y)
  BY DEF Primary, Foreign
<1>4. Key[x] \in Int /\ Key[y] = Key[x] + 1
  BY <1>3, KeyFacts
<1>5. ~ (q < p)
  <2>1. q < p => Key[y] < Key[x]
    BY <1>1, KeysRise
  <2>2. QED BY <1>4, <2>1
<1>6. y \in Forn(R)
  BY <1>1, <1>3 DEF Forn
<1>7. x \in HandedOn(childRDD, q) \cup Prim(R)
  <2>1. CASE q = p
    BY <1>1, <1>3, <2>1 DEF Prim
  <2>2. CASE q = p + 1
    <3>1. q - 1 = p /\ p < q /\ q # 0
      BY <1>1, <1>2, <2>2, PartsOfJoin
    <3>2. ASSUME NEW t \in ToSet(childRDD[p]) PROVE Key[t] <= Key[x]
      <4>1. t \in Rows
        BY <1>1, RowsOfPart
      <4>2. Key[t] \in Int /\ Key[t] < Key[y]
        BY <1>1, <3>1, <4>1, KeyFacts, KeysRise
      <4>3. QED BY <1>4, <4>2
    <3>3. x \in LastGroup(ToSet(childRDD[p]))
      BY <1>1, <1>3, <3>2 DEF LastGroup
    <3>4. QED BY <3>1, <3>3 DEF HandedOn
  <2>3. QED BY <1>2, <1>5, <2>1, <2>2
<1>8. <<x, y>> \in MatchesIn(childRDD, q)
  BY <1>6, <1>7 DEF MatchesIn, Pairs
<1>9. QED BY <1>8 DEF q

(* JoinCompleteWithinReach in every state: one partition forward is enough *)
(* for every match whose rows are in one partition or in neighbouring      *)
(* ones. (That it is enough for all of them is what the run join_reach     *)
(* refutes.)                                                               *)
THEOREM JoinReachesNextPartition == Spec => []JoinCompleteWithinReach
<1>1. ASSUME JoinInv PROVE JoinCompleteWithinReach
  <2> SUFFICES ASSUME stage = "done", NEW xy \in Matches,
                      PartitionOf(xy[2]) <= PartitionOf(xy[1]) + 1
               PROVE  TimesJoined(xy[1], xy[2]) = 1
    BY DEF JoinCompleteWithinReach
  <2> DEFINE x == xy[1]
             y == xy[2]
  <2>1. /\ x \in InputRows \cap Primary /\ y \in InputRows \cap Foreign
        /\ is_same_group(x, y)
    BY DEF Matches
  <2>2. PartitionOf(y) <= PartitionOf(x) + 1
    OBVIOUS
  <2> HIDE DEF x, y
  <2>3. <<x, y>> \in MatchesIn(childRDD, PartitionOf(y))
    BY <1>1, <2>1, <2>2, WithinReach
  <2>4. PartitionOf(y) \in tasksDone
    <3>1. PartitionOf(y) \in Parts
      BY <1>1, <2>1, PartitionOfRow
    <3>2. QED BY <1>1, <3>1 DEF JoinInv, Stages
  <2>5. TimesJoined(x, y) = 1
    BY <1>1, <2>3, <2>4, TimesJoinedIs
  <2>6. QED BY <2>5 DEF x, y
<1>2. QED BY <1>1, JoinInvariant, PTL
=============================================================================
