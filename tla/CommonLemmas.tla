---------------------------- MODULE CommonLemmas ----------------------------
(***************************************************************************)
(* Facts that the proofs of several components share: arithmetic and       *)
(* induction, ranges cut from sort keys, flattened sequences, and what a   *)
(* row writer or a row reader holds. The induction theorems of the library *)
(* take a predicate as a parameter, which no installed prover can          *)
(* instantiate; here the predicate is the set of the numbers it holds of,  *)
(* and a step of a recursive definition is a function.                     *)
(***************************************************************************)
EXTENDS RowIO, SortedRDD, SequencesExt, SequenceTheorems, WellFoundedInduction, TLAPS

(* A product of naturals grows with its first factor. *)
LEMMA MulMonotone ==
  ASSUME NEW a \in Nat, NEW b \in Nat, NEW c \in Nat, a <= b
  PROVE  a * c <= b * c
<1>1. PICK d \in Nat : b = a + d
  <2>1. b - a \in Nat /\ b = a + (b - a)
    OBVIOUS
  <2>2. QED BY <2>1
<1>2. (a + d) * c = a * c + d * c
  OBVIOUS
<1>3. a * c \in Nat /\ d * c \in Nat
  OBVIOUS
<1>4. QED BY <1>1, <1>2, <1>3

(* A common factor cancels from a strict inequality. *)
LEMMA MulCancel ==
  ASSUME NEW a \in Nat, NEW b \in Nat, NEW c \in Nat, a * c < b * c
  PROVE  a < b
<1>1. b <= a => b * c <= a * c
  BY MulMonotone
<1>2. a * c \in Nat /\ b * c \in Nat
  OBVIOUS
<1>3. QED BY <1>1, <1>2

(* The quotient is a natural, and rounds down by less than one divisor. *)
LEMMA DivBound ==
  ASSUME NEW n \in Nat, NEW p \in Nat \ {0}
  PROVE  /\ n \div p \in Nat
         /\ n < p * ((n \div p) + 1)
<1>1. n \div p \in Int /\ n = p * (n \div p) + (n % p) /\ n % p \in 0 .. (p - 1)
  OBVIOUS
<1>2. n \div p \in Nat
  BY SMT
<1>3. p * ((n \div p) + 1) = p * (n \div p) + p
  BY <1>1
<1>4. QED BY <1>1, <1>2, <1>3

---------------------------------------------------------------------------
(* A set of naturals that is not empty has a least element.                *)
LEMMA LeastNatural ==
  ASSUME NEW T, T \subseteq Nat, T # {}
  PROVE  \E m \in T : \A n \in T : m <= n
<1>1. PICK m \in T : \A n \in T : ~ (<<n, m>> \in OpToRel(<, Nat))
  BY NatLessThanWellFounded, WFMin
<1>2. \A i, l \in Nat : i < l => <<i, l>> \in OpToRel(<, Nat)
  BY DEF OpToRel
<1>3. \A n \in T : ~ (n < m)
  BY <1>1, <1>2
<1>4. QED BY <1>3

(* Induction up to n, the set S being what holds of each number.           *)
LEMMA SetInduction ==
  ASSUME NEW n \in Nat, NEW S, 0 \in S,
         \A i \in 1 .. n : i - 1 \in S => i \in S
  PROVE  \A i \in 0 .. n : i \in S
<1> DEFINE T == {i \in 0 .. n : i \notin S}
<1> SUFFICES ASSUME T # {} PROVE FALSE
  OBVIOUS
<1>1. PICK m \in T : \A i \in T : m <= i
  <2>1. T \subseteq Nat
    OBVIOUS
  <2>2. QED BY <2>1, LeastNatural
<1>2. m \in 1 .. n
  OBVIOUS
<1>3. m - 1 \in 0 .. n /\ ~ (m <= m - 1)
  BY <1>2
<1>4. m - 1 \in S
  BY <1>1, <1>3
<1>5. QED BY <1>2, <1>4

(* A finite set of naturals that is not empty has a greatest element.      *)
LEMMA GreatestNatural ==
  ASSUME NEW n \in Nat, NEW T, T \subseteq 0 .. n, T # {}
  PROVE  \E m \in T : \A i \in T : i <= m
<1> DEFINE U == {n - i : i \in T}
<1>1. U \subseteq Nat /\ U # {}
  <2>1. \A i \in T : n - i \in Nat
    OBVIOUS
  <2>2. QED BY <2>1, Zenon
<1>2. PICK u \in U : \A v \in U : u <= v
  BY <1>1, LeastNatural
<1>3. PICK m \in T : u = n - m
  OBVIOUS
<1>4. \A i \in T : n - m <= n - i
  BY <1>2, <1>3
<1>5. \A i \in T : i <= m
  BY <1>4
<1>6. QED BY <1>5

(* f is defined over 0 .. n by recursion: it starts from x0, and the value *)
(* of i is step applied to i and the value before it.                      *)
Recursion(f, n, X, x0, step) ==
  /\ f \in [0 .. n -> X]
  /\ f[0] = x0
  /\ \A i \in 1 .. n : f[i] = step[<<i, f[i - 1]>>]

(* A recursion over 0 .. n whose step is a function has a solution.        *)
LEMMA RecursionExists ==
  ASSUME NEW X, NEW x0 \in X, NEW n \in Nat, NEW step \in [(1 .. n) \X X -> X]
  PROVE  \E f : Recursion(f, n, X, x0, step)
<1> USE DEF Recursion
<1> DEFINE Solves(f, m) ==
             f[0] = x0 /\ \A i \in 1 .. m : f[i] = step[<<i, f[i - 1]>>]
           S == {m \in 0 .. n : \E f \in [0 .. m -> X] : Solves(f, m)}
<1>1. 0 \in S
  <2> DEFINE g == [i \in 0 .. 0 |-> x0]
  <2>1. g \in [0 .. 0 -> X]
    OBVIOUS
  <2>2. Solves(g, 0)
    <3>1. 0 \in 0 .. 0 /\ 1 .. 0 = {} /\ g[0] = x0
      OBVIOUS
    <3>2. QED BY <3>1
  <2>3. QED BY <2>1, <2>2, 0 \in 0 .. n
<1>2. ASSUME NEW i \in 1 .. n, i - 1 \in S PROVE i \in S
  <2>1. PICK f \in [0 .. i - 1 -> X] : Solves(f, i - 1)
    BY <1>2
  <2> DEFINE g == [j \in 0 .. i |-> IF j = i THEN step[<<i, f[i - 1]>>] ELSE f[j]]
  <2>2. f[i - 1] \in X /\ step[<<i, f[i - 1]>>] \in X
    OBVIOUS
  <2>3. \A j \in 0 .. i : j # i => j \in 0 .. i - 1
    OBVIOUS
  <2>4. g \in [0 .. i -> X]
    BY <2>2, <2>3
  <2>5. \A j \in 0 .. i - 1 : g[j] = f[j]
    OBVIOUS
  <2>6. g[i] = step[<<i, g[i - 1]>>]
    <3>1. i \in 0 .. i /\ i - 1 \in 0 .. i - 1
      OBVIOUS
    <3>2. g[i] = step[<<i, f[i - 1]>>]
      BY <3>1
    <3>3. QED BY <3>1, <3>2, <2>5
  <2> HIDE DEF g
  <2>7. Solves(g, i)
    <3>1. g[0] = x0
      BY <2>1, <2>5
    <3>2. ASSUME NEW j \in 1 .. i PROVE g[j] = step[<<j, g[j - 1]>>]
      <4>1. CASE j = i
        BY <2>6, <4>1
      <4>2. CASE j # i
        <5>1. j \in 1 .. i - 1 /\ j \in 0 .. i - 1 /\ j - 1 \in 0 .. i - 1
          BY <4>2
        <5>2. f[j] = step[<<j, f[j - 1]>>]
          BY <2>1, <5>1
        <5>3. QED BY <2>5, <5>1, <5>2
      <4>3. QED BY <4>1, <4>2
    <3>3. QED BY <3>1, <3>2
  <2>8. QED BY <2>4, <2>7
<1>3. n \in S
  <2>1. n \in 0 .. n
    OBVIOUS
  <2> HIDE DEF S
  <2>2. QED BY <1>1, <1>2, <2>1, SetInduction
<1>4. QED BY <1>3

---------------------------------------------------------------------------
(* Boundaries and the ranges between them (Ranges). *)

(* Boundaries picked from a sorted sample are sorted, and fewer than n.    *)
LEMMA BoundariesFit ==
  ASSUME NEW n \in Nat \ {0}, NEW s \in Seq(Int), Nondecreasing(s)
  PROVE  /\ Boundaries(s, n) \in Seq(Int)
         /\ Len(Boundaries(s, n)) < n
         /\ Nondecreasing(Boundaries(s, n))
<1> DEFINE st == Stride(s, n)
           m == Len(s) \div st
<1>1. Len(s) \in Nat /\ st \in Nat \ {0} /\ Len(s) < n * st
  BY DivBound DEF Stride
<1>2. m \in Nat /\ m * st <= Len(s)
  <2>1. m \in Int /\ Len(s) = st * m + (Len(s) % st) /\ Len(s) % st \in 0 .. (st - 1)
    BY <1>1
  <2>2. m \in Nat
    BY <1>1, DivBound
  <2>3. st * m = m * st
    BY <1>1, <2>2
  <2>4. QED BY <1>1, <2>1, <2>2, <2>3
<1> HIDE DEF st, m
<1>3. m < n
  <2>1. m * st < n * st
    <3>1. m * st \in Nat /\ n * st \in Nat
      BY <1>1, <1>2
    <3>2. QED BY <3>1, <1>1, <1>2
  <2>2. QED BY <2>1, <1>1, <1>2, MulCancel
<1>4. ASSUME NEW i \in 1 .. m
      PROVE  i * st \in 1 .. Len(s)
  <2>1. i * st <= m * st /\ 1 * st <= i * st
    BY <1>1, <1>2, MulMonotone
  <2>2. i * st \in Nat /\ m * st \in Nat /\ 1 * st = st
    BY <1>1, <1>2
  <2>3. QED BY <2>1, <2>2, <1>1, <1>2
<1>5. Boundaries(s, n) = [i \in 1 .. m |-> s[i * st]]
  BY DEF Boundaries, st, m
<1>6. Boundaries(s, n) \in Seq(Int) /\ Len(Boundaries(s, n)) = m
  <2>1. \A i \in 1 .. m : s[i * st] \in Int
    BY <1>4
  <2>2. Boundaries(s, n) \in [1 .. m -> Int]
    BY <2>1, <1>5
  <2>3. QED BY <2>2, <1>2
<1>7. ASSUME NEW i \in 1 .. m, NEW j \in i .. m
      PROVE  s[i * st] <= s[j * st]
  <2>1. j \in 1 .. m
    BY <1>2
  <2>2. i * st <= j * st
    BY <2>1, <1>1, <1>2, MulMonotone
  <2>3. i * st \in 1 .. Len(s) /\ j * st \in 1 .. Len(s)
    BY <1>4, <2>1
  <2>4. j * st \in (i * st) .. Len(s)
    BY <2>2, <2>3
  <2>5. QED BY <2>3, <2>4 DEF Nondecreasing
<1>8. Nondecreasing(Boundaries(s, n))
  <2>1. ASSUME NEW i \in 1 .. m, NEW j \in i .. m
        PROVE  Boundaries(s, n)[i] <= Boundaries(s, n)[j]
    <3>1. j \in 1 .. m
      BY <1>2
    <3>2. QED BY <1>5, <1>7, <3>1
  <2>2. QED BY <2>1, <1>6 DEF Nondecreasing
<1>9. QED BY <1>3, <1>6, <1>8

(* A key of an earlier range is below every key of a later range.          *)
LEMMA RangesApart ==
  ASSUME NEW bs \in Seq(Int), NEW k \in Int, NEW l \in Int,
         NEW p \in Nat, NEW q \in Nat, p < q, InRange(k, p, bs), InRange(l, q, bs)
  PROVE  k < l
<1>1. p + 1 \in 1 .. Len(bs) /\ bs[p + 1] \in Int
  BY DEF InRange
<1>2. k < bs[p + 1] /\ bs[p + 1] <= l
  BY <1>1 DEF InRange
<1>3. QED BY <1>1, <1>2

---------------------------------------------------------------------------
(* Flattened sequences. *)

(* FlattenSeq concatenates from the left. *)
LEMMA FlattenIs ==
  ASSUME NEW S, NEW seqs \in Seq(Seq(S)), NEW f,
         f[0] = <<>>,
         \A i \in 1 .. Len(seqs) : f[i] = f[i - 1] \o seqs[i],
         \A i \in 0 .. Len(seqs) : f[i] \in Seq(S)
  PROVE  FlattenSeq(seqs) = f[Len(seqs)]
<1> DEFINE n == Len(seqs)
           flatten[i \in 1 .. n] ==
             IF i = 1 THEN seqs[i] ELSE flatten[i - 1] \o seqs[i]
<1>0. n \in Nat /\ \A i \in 1 .. n : seqs[i] \in Seq(S) /\ f[i] = f[i - 1] \o seqs[i]
  BY ElementOfSeq, LenProperties
<1>1. CASE n = 0
  <2>1. seqs = <<>>
    BY <1>1
  <2>2. FlattenSeq(seqs) = seqs
    BY <1>1 DEF FlattenSeq
  <2>3. QED BY <1>1, <2>1, <2>2
<1>2. CASE n # 0
  <2>0. f[1] = seqs[1]
    <3>1. 1 \in 1 .. n
      BY <1>0, <1>2
    <3>2. seqs[1] \in Seq(S) /\ f[1] = f[1 - 1] \o seqs[1]
      BY <1>0, <3>1, Zenon
    <3>3. 1 - 1 = 0
      OBVIOUS
    <3>4. <<>> \o seqs[1] = seqs[1]
      BY <3>2, ConcatEmptySeq
    <3>5. QED BY <3>2, <3>3, <3>4
  <2>1. flatten = [i \in 1 .. n |-> IF i = 1 THEN seqs[i] ELSE flatten[i - 1] \o seqs[i]]
    <3> DEFINE g == [i \in 1 .. n |-> f[i]]
    <3>1. g = [i \in 1 .. n |-> IF i = 1 THEN seqs[i] ELSE g[i - 1] \o seqs[i]]
      <4>1. ASSUME NEW i \in 1 .. n
            PROVE  f[i] = IF i = 1 THEN seqs[i] ELSE g[i - 1] \o seqs[i]
        <5>1. CASE i = 1
          BY <2>0, <5>1
        <5>2. CASE i # 1
          <6>1. i - 1 \in 1 .. n
            BY <1>0, <5>2
          <6>2. g[i - 1] = f[i - 1]
            BY <6>1
          <6>3. QED BY <1>0, <5>2, <6>2
        <5>3. QED BY <5>1, <5>2
      <4>2. QED BY <4>1
    <3> HIDE DEF g
    <3>2. \E h : h = [i \in 1 .. n |-> IF i = 1 THEN seqs[i] ELSE h[i - 1] \o seqs[i]]
      BY <3>1
    <3>3. QED BY <3>2
  <2>2. FlattenSeq(seqs) = flatten[n]
    BY <1>2 DEF FlattenSeq
  <2> HIDE DEF flatten
  <2> DEFINE T == {i \in 0 .. n : i = 0 \/ flatten[i] = f[i]}
  <2>3. ASSUME NEW i \in 1 .. n, i - 1 \in T PROVE i \in T
    <3>1. flatten[i] = IF i = 1 THEN seqs[i] ELSE flatten[i - 1] \o seqs[i]
      BY <2>1
    <3>2. CASE i = 1
      BY <2>0, <3>1, <3>2
    <3>3. CASE i # 1
      <4>1. flatten[i - 1] = f[i - 1] /\ i \in 0 .. n
        BY <1>0, <2>3, <3>3
      <4>2. QED BY <1>0, <3>1, <3>3, <4>1
    <3>4. QED BY <3>2, <3>3
  <2>4. n \in T
    <3>1. 0 \in T /\ n \in 0 .. n
      BY <1>0
    <3> HIDE DEF T, n
    <3>2. QED BY <1>0, <2>3, <3>1, SetInduction
  <2>5. QED BY <1>2, <2>2, <2>4
<1>3. QED BY <1>1, <1>2

(* The concatenations that FlattenSeq goes through exist. *)
LEMMA FlattenExists ==
  ASSUME NEW S, NEW seqs \in Seq(Seq(S))
  PROVE  \E f \in [0 .. Len(seqs) -> Seq(S)] :
           f[0] = <<>> /\ \A i \in 1 .. Len(seqs) : f[i] = f[i - 1] \o seqs[i]
<1> DEFINE n == Len(seqs)
           step == [p \in (1 .. n) \X Seq(S) |-> p[2] \o seqs[p[1]]]
<1>1. n \in Nat /\ <<>> \in Seq(S) /\ \A i \in 1 .. n : seqs[i] \in Seq(S)
  BY ElementOfSeq, LenProperties
<1>2. \A i \in 1 .. n, s \in Seq(S) : s \o seqs[i] \in Seq(S)
  BY <1>1, ConcatProperties
<1>3. step \in [(1 .. n) \X Seq(S) -> Seq(S)]
  BY <1>2
<1>4. ASSUME NEW i \in 1 .. n, NEW s \in Seq(S) PROVE step[<<i, s>>] = s \o seqs[i]
  <2>1. <<i, s>> \in (1 .. n) \X Seq(S) /\ <<i, s>>[1] = i /\ <<i, s>>[2] = s
    OBVIOUS
  <2>2. QED BY <2>1, Zenon
<1> HIDE DEF step, n
<1>5. PICK f : Recursion(f, n, Seq(S), <<>>, step)
  BY <1>1, <1>3, RecursionExists
<1>6. \A i \in 1 .. n : f[i] = f[i - 1] \o seqs[i]
  <2>1. \A i \in 1 .. n : i - 1 \in 0 .. n
    BY <1>1
  <2>2. \A i \in 1 .. n : f[i - 1] \in Seq(S)
    BY <1>5, <2>1, Zenon DEF Recursion
  <2>3. QED BY <1>4, <1>5, <2>2, Zenon DEF Recursion
<1>7. QED BY <1>5, <1>6 DEF n, Recursion

(* Flattening goes on with the sequence that is appended. *)
LEMMA FlattenAppend ==
  ASSUME NEW S, NEW seqs \in Seq(Seq(S)), NEW s \in Seq(S)
  PROVE  /\ FlattenSeq(seqs) \in Seq(S)
         /\ FlattenSeq(Append(seqs, s)) = FlattenSeq(seqs) \o s
         /\ FlattenSeq(<<>>) = <<>>
<1> DEFINE n == Len(seqs)
           longer == Append(seqs, s)
<1>1. /\ n \in Nat
      /\ longer \in Seq(Seq(S))
      /\ Len(longer) = n + 1
      /\ \A i \in 1 .. n : longer[i] = seqs[i]
      /\ longer[n + 1] = s
  <2>1. n \in Nat
    BY LenProperties
  <2>2. QED BY <2>1, AppendProperties
<1> HIDE DEF longer
<1>2. PICK f \in [0 .. Len(longer) -> Seq(S)] :
        f[0] = <<>> /\ \A i \in 1 .. Len(longer) : f[i] = f[i - 1] \o longer[i]
  BY <1>1, FlattenExists, Zenon
<1>3. FlattenSeq(longer) = f[n + 1]
  <2>1. \A i \in 0 .. Len(longer) : f[i] \in Seq(S)
    BY <1>1
  <2>2. \A i \in 1 .. Len(longer) : f[i] = f[i - 1] \o longer[i]
    BY <1>1, <1>2
  <2>3. FlattenSeq(longer) = f[Len(longer)]
    BY <1>1, <1>2, <2>1, <2>2, FlattenIs, Zenon
  <2>4. QED BY <1>1, <2>3
<1>4. FlattenSeq(seqs) = f[n]
  <2>0. \A i \in 0 .. n : i \in 0 .. Len(longer)
    BY <1>1
  <2>1. \A i \in 0 .. n : f[i] \in Seq(S)
    BY <2>0, Zenon
  <2>2. \A i \in 1 .. n : i \in 1 .. Len(longer)
    BY <1>1
  <2>3. \A i \in 1 .. n : f[i] = f[i - 1] \o seqs[i]
    BY <1>1, <1>2, <2>2, Zenon
  <2>4. QED BY <1>2, <2>1, <2>3, FlattenIs, Zenon
<1>5. f[n + 1] = f[n] \o s
  <2>1. n + 1 \in 1 .. Len(longer) /\ (n + 1) - 1 = n
    <3>1. n \in Nat /\ Len(longer) = n + 1
      BY <1>1
    <3> HIDE DEF n
    <3>2. QED BY <3>1
  <2>2. f[n + 1] = f[(n + 1) - 1] \o longer[n + 1]
    BY <1>2, <2>1, Zenon
  <2>3. QED BY <1>1, <2>1, <2>2, Zenon
<1>6. f[n] \in Seq(S)
  <2>1. n \in 0 .. Len(longer)
    BY <1>1
  <2>2. QED BY <2>1, Zenon
<1>7. FlattenSeq(<<>>) = <<>>
  BY DEF FlattenSeq
<1>8. QED BY <1>3, <1>4, <1>5, <1>6, <1>7 DEF longer

---------------------------------------------------------------------------
(* The writer. *)

BlocksOver(S) == Seq(S) \ {<<>>}

Buffers(S) == Seq(BlocksOver(S))

Writers(S) == [rows_vector : Seq(S), enc_block_vector : Buffers(S),
               root : Buffers(S), finished : BOOLEAN]

(* The rows a writer holds that it was not finished with. *)
Written(c) == FlattenSeq(c.enc_block_vector) \o c.rows_vector

(* A buffer is a sequence of sequences, and its rows are a sequence.       *)
LEMMA BufferRows ==
  ASSUME NEW S, NEW b \in Buffers(S)
  PROVE  b \in Seq(Seq(S)) /\ FlattenSeq(b) \in Seq(S)
<1>1. BlocksOver(S) \subseteq Seq(S)
  BY DEF BlocksOver
<1>2. b \in Seq(Seq(S))
  BY <1>1, SeqMonotonic DEF Buffers
<1>3. <<>> \in Seq(S)
  OBVIOUS
<1>4. QED BY <1>2, <1>3, FlattenAppend

(* What a writer holds is a sequence of rows.                              *)
LEMMA WrittenRows ==
  ASSUME NEW S, NEW c \in Writers(S)
  PROVE  Written(c) \in Seq(S)
<1>1. FlattenSeq(c.enc_block_vector) \in Seq(S) /\ c.rows_vector \in Seq(S)
  BY BufferRows DEF Writers
<1>2. \A s, t \in Seq(S) : s \o t \in Seq(S)
  OBVIOUS
<1>3. QED BY <1>1, <1>2, Zenon DEF Written

(* A block is finished when it is full or written out, and only then.      *)
LEMMA FinishBlockWritten ==
  ASSUME NEW S, NEW c \in Writers(S), c.rows_vector # <<>>
  PROVE  /\ finish_block(c) \in Writers(S)
         /\ Written(finish_block(c)) = Written(c)
         /\ finish_block(c).rows_vector = <<>>
         /\ finish_block(c).root = c.root
         /\ finish_block(c).finished = c.finished
<1> DEFINE d == finish_block(c)
<1>1. /\ c.rows_vector \in BlocksOver(S) /\ c.rows_vector \in Seq(S)
      /\ c.enc_block_vector \in Buffers(S)
      /\ c.root \in Buffers(S) /\ c.finished \in BOOLEAN
      /\ <<>> \in Seq(S)
  BY DEF Writers, BlocksOver
<1>2. Append(c.enc_block_vector, c.rows_vector) \in Buffers(S)
  <2>1. c.enc_block_vector \in Seq(BlocksOver(S))
    BY <1>1 DEF Buffers
  <2>2. Append(c.enc_block_vector, c.rows_vector) \in Seq(BlocksOver(S))
    BY <1>1, <2>1, AppendProperties
  <2>3. QED BY <2>2, Zenon DEF Buffers
<1>3. /\ d.enc_block_vector = Append(c.enc_block_vector, c.rows_vector)
      /\ d.rows_vector = <<>> /\ d.root = c.root /\ d.finished = c.finished
  BY DEF finish_block, Writers
<1>4. d \in Writers(S)
  BY <1>1, <1>2 DEF finish_block, Writers
<1> HIDE DEF d
<1>5. FlattenSeq(Append(c.enc_block_vector, c.rows_vector)) = Written(c)
  BY <1>1, BufferRows, FlattenAppend DEF Written
<1>6. Written(c) \in Seq(S)
  BY WrittenRows
<1>7. Written(d) = Written(c) \o <<>>
  BY <1>3, <1>5, Zenon DEF Written
<1>8. Written(c) \o <<>> = Written(c)
  BY <1>6, ConcatEmptySeq
<1>9. QED BY <1>3, <1>4, <1>7, <1>8 DEF d

(* What was written is the rows appended, in that order.                   *)
LEMMA AppendWritten ==
  ASSUME NEW S, NEW c \in Writers(S), NEW x \in S
  PROVE  /\ append(c, x) \in Writers(S)
         /\ Written(append(c, x)) = Append(Written(c), x)
         /\ append(c, x).root = c.root
         /\ append(c, x).finished = c.finished
<1> DEFINE more == Append(c.rows_vector, x)
           d == [c EXCEPT !.rows_vector = Append(@, x)]
<1>1. /\ c.rows_vector \in Seq(S) /\ c.enc_block_vector \in Buffers(S)
      /\ c.root \in Buffers(S) /\ c.finished \in BOOLEAN
  BY DEF Writers
<1>2. d = [rows_vector |-> more, enc_block_vector |-> c.enc_block_vector,
           root |-> c.root, finished |-> c.finished]
  BY DEF Writers
<1>3. more \in Seq(S) /\ more # <<>>
  BY <1>1, AppendProperties
<1> DEFINE flat == FlattenSeq(c.enc_block_vector)
<1>4. flat \in Seq(S)
  BY <1>1, BufferRows
<1>5. Append(Written(c), x) = flat \o more
  <2> HIDE DEF flat
  <2>1. Append(flat \o c.rows_vector, x) = flat \o Append(c.rows_vector, x)
    <3>1. \A a, b \in Seq(S) : Append(a \o b, x) = a \o Append(b, x)
      OBVIOUS
    <3>2. c.rows_vector \in Seq(S)
      BY <1>1
    <3>3. QED BY <1>4, <3>1, <3>2, Zenon
  <2>2. QED BY <2>1, Zenon DEF Written, flat
<1>6. d \in Writers(S) /\ Written(d) = Append(Written(c), x)
  BY <1>1, <1>2, <1>3, <1>5 DEF Writers, Written
<1>7. d.rows_vector # <<>> /\ d.root = c.root /\ d.finished = c.finished
  BY <1>2, <1>3
<1>8. append(c, x) = d \/ append(c, x) = finish_block(d)
  BY DEF append, maybe_finish_block
<1> HIDE DEF d
<1>9. QED BY <1>6, <1>7, <1>8, FinishBlockWritten

(* Finishing leaves what was written as the root, and the writer empty.    *)
LEMMA FinishBlocksWritten ==
  ASSUME NEW S, NEW c \in Writers(S)
  PROVE  /\ finish_blocks(c) \in Writers(S)
         /\ FlattenSeq(finish_blocks(c).root) = Written(c)
         /\ Written(finish_blocks(c)) = <<>>
         /\ finish_blocks(c).finished
<1> DEFINE all == IF c.rows_vector # <<>> THEN finish_block(c) ELSE c
           d == finish_blocks(c)
<1>1. all \in Writers(S) /\ Written(all) = Written(c) /\ all.rows_vector = <<>>
  BY FinishBlockWritten
<1>2. d = [all EXCEPT !.root = all.enc_block_vector, !.enc_block_vector = <<>>,
                      !.finished = TRUE]
  BY DEF finish_blocks
<1> HIDE DEF all
<1>3. /\ all.enc_block_vector \in Buffers(S)
      /\ all.rows_vector \in Seq(S)
      /\ <<>> \in Buffers(S)
  BY <1>1 DEF Writers, Buffers
<1>4. d \in Writers(S)
  BY <1>1, <1>2, <1>3 DEF Writers
<1>5. /\ d.root = all.enc_block_vector /\ d.enc_block_vector = <<>>
      /\ d.rows_vector = <<>> /\ d.finished
  BY <1>1, <1>2 DEF Writers
<1>6. Written(d) = <<>>
  <2>1. FlattenSeq(<<>>) = <<>>
    BY DEF FlattenSeq
  <2>2. <<>> \o <<>> = <<>>
    OBVIOUS
  <2> HIDE DEF d
  <2>3. QED BY <1>5, <2>1, <2>2, Zenon DEF Written
<1>7. FlattenSeq(d.root) = Written(c)
  <2>1. FlattenSeq(all.enc_block_vector) \in Seq(S)
    BY <1>3, BufferRows
  <2>2. \A s \in Seq(S) : s \o <<>> = s
    OBVIOUS
  <2> HIDE DEF d
  <2>3. QED BY <1>1, <1>5, <2>1, <2>2, Zenon DEF Written
<1>8. QED BY <1>4, <1>5, <1>6, <1>7

(* The loop that appends one row after the other.                          *)
LEMMA AppendAllWritten ==
  ASSUME NEW S, NEW c \in Writers(S), NEW rows \in Seq(S)
  PROVE  /\ append_all(c, rows) \in Writers(S)
         /\ Written(append_all(c, rows)) = Written(c) \o rows
         /\ append_all(c, rows).finished = c.finished
<1> DEFINE n == Len(rows)
           step == [p \in (1 .. n) \X Writers(S) |-> append(p[2], rows[p[1]])]
           after[i \in 0 .. n] == IF i = 0 THEN c ELSE append(after[i - 1], rows[i])
<1>1. n \in Nat /\ \A i \in 1 .. n : rows[i] \in S
  OBVIOUS
<1>2. \A i \in 1 .. n, d \in Writers(S) : append(d, rows[i]) \in Writers(S)
  BY <1>1, AppendWritten
<1>3. step \in [(1 .. n) \X Writers(S) -> Writers(S)]
  BY <1>2
<1>4. ASSUME NEW i \in 1 .. n, NEW d \in Writers(S)
      PROVE  step[<<i, d>>] = append(d, rows[i])
  <2>1. <<i, d>> \in (1 .. n) \X Writers(S) /\ <<i, d>>[1] = i /\ <<i, d>>[2] = d
    OBVIOUS
  <2>2. QED BY <2>1, Zenon
<1> HIDE DEF step
<1>5. PICK f : Recursion(f, n, Writers(S), c, step)
  BY <1>1, <1>3, RecursionExists
<1>6. /\ f \in [0 .. n -> Writers(S)] /\ f[0] = c
      /\ \A i \in 1 .. n : f[i] = append(f[i - 1], rows[i])
  <2>1. \A i \in 1 .. n : i - 1 \in 0 .. n
    BY <1>1
  <2>2. \A i \in 1 .. n : f[i - 1] \in Writers(S)
    BY <1>5, <2>1, Zenon DEF Recursion
  <2>3. QED BY <1>4, <1>5, <2>2, Zenon DEF Recursion
<1>7. after = [i \in 0 .. n |-> IF i = 0 THEN c ELSE append(after[i - 1], rows[i])]
  <2>1. ASSUME NEW i \in 0 .. n PROVE f[i] = IF i = 0 THEN c ELSE append(f[i - 1], rows[i])
    <3>1. i # 0 => i \in 1 .. n
      BY <1>1
    <3>2. QED BY <1>6, <3>1, Zenon
  <2>2. f = [i \in 0 .. n |-> IF i = 0 THEN c ELSE append(f[i - 1], rows[i])]
    BY <1>6, <2>1
  <2>3. \E h : h = [i \in 0 .. n |-> IF i = 0 THEN c ELSE append(h[i - 1], rows[i])]
    BY <2>2
  <2>4. QED BY <2>3
<1>8. append_all(c, rows) = after[n]
  BY DEF append_all
<1> HIDE DEF after
<1> DEFINE T == {i \in 0 .. n : /\ after[i] \in Writers(S)
                               /\ Written(after[i]) = Written(c) \o SubSeq(rows, 1, i)
                               /\ after[i].finished = c.finished}
<1>9. 0 \in T
  <2>1. 0 \in 0 .. n /\ SubSeq(rows, 1, 0) = <<>>
    BY <1>1
  <2>2. after[0] = c
    BY <1>7, <2>1
  <2>3. Written(c) \in Seq(S)
    BY WrittenRows
  <2>4. \A s \in Seq(S) : s \o <<>> = s
    OBVIOUS
  <2>5. QED BY <2>1, <2>2, <2>3, <2>4, Zenon
<1>10. ASSUME NEW i \in 1 .. n, i - 1 \in T PROVE i \in T
  <2>1. i \in 0 .. n /\ i # 0 /\ rows[i] \in S
    BY <1>1
  <2>2. after[i] = append(after[i - 1], rows[i])
    BY <1>7, <2>1
  <2>3. /\ after[i] \in Writers(S)
        /\ Written(after[i]) = Append(Written(c) \o SubSeq(rows, 1, i - 1), rows[i])
        /\ after[i].finished = c.finished
    <3>1. /\ after[i - 1] \in Writers(S)
          /\ Written(after[i - 1]) = Written(c) \o SubSeq(rows, 1, i - 1)
          /\ after[i - 1].finished = c.finished
      BY <1>10, Zenon
    <3>2. \A d \in Writers(S) : /\ append(d, rows[i]) \in Writers(S)
                                /\ Written(append(d, rows[i])) = Append(Written(d), rows[i])
                                /\ append(d, rows[i]).finished = d.finished
      BY <2>1, AppendWritten, Zenon
    <3>3. QED BY <2>2, <3>1, <3>2, Zenon
  <2>4. Append(Written(c) \o SubSeq(rows, 1, i - 1), rows[i]) = Written(c) \o SubSeq(rows, 1, i)
    <3>1. Written(c) \in Seq(S)
      BY WrittenRows
    <3>2. SubSeq(rows, 1, i - 1) \in Seq(S)
      BY <1>1
    <3>3. SubSeq(rows, 1, i) = Append(SubSeq(rows, 1, i - 1), rows[i])
      BY <1>1
    <3>4. \A s, t \in Seq(S) : Append(s \o t, rows[i]) = s \o Append(t, rows[i])
      BY <2>1
    <3>5. QED BY <2>1, <3>1, <3>2, <3>3, <3>4, Zenon
  <2>5. QED BY <2>1, <2>3, <2>4, Zenon
<1>11. n \in T
  <2>1. n \in 0 .. n
    BY <1>1
  <2> HIDE DEF T, n
  <2>2. QED BY <1>1, <1>9, <1>10, <2>1, SetInduction
<1>12. SubSeq(rows, 1, n) = rows
  OBVIOUS
<1>13. QED BY <1>8, <1>11, <1>12, Zenon

---------------------------------------------------------------------------
(* The reader. *)

(* A reader stands before a row of a block or at the block's end.          *)
Readers(S) ==
  {rd \in [blocks : Buffers(S), block_idx : Nat, row_idx : Nat] :
     /\ rd.block_idx \in 1 .. Len(rd.blocks)
     /\ rd.row_idx \in 1 .. Len(rd.blocks[rd.block_idx]) + 1}

(* What is left of a buffer from each of its blocks on.                    *)
IsSuffixes(g, b, S) ==
  /\ g \in [1 .. Len(b) + 1 -> Seq(S)]
  /\ g[Len(b) + 1] = <<>>
  /\ \A i \in 1 .. Len(b) : g[i] = b[i] \o g[i + 1]

(* There are such suffixes, and the first is the whole buffer.             *)
LEMMA SuffixesExist ==
  ASSUME NEW S, NEW b \in Buffers(S)
  PROVE  \E g : IsSuffixes(g, b, S) /\ g[1] = FlattenSeq(b)
<1> DEFINE n == Len(b)
           step == [p \in (1 .. n) \X Seq(S) |-> b[(n + 1) - p[1]] \o p[2]]
<1>0. n \in Nat /\ b \in Seq(Seq(S)) /\ <<>> \in Seq(S)
  BY BufferRows
<1>1. \A i \in 1 .. n : b[i] \in Seq(S) /\ (n + 1) - i \in 1 .. n
  BY <1>0
<1>2. \A s, t \in Seq(S) : s \o t \in Seq(S) /\ s \o <<>> = s /\ <<>> \o s = s
  OBVIOUS
<1>3. step \in [(1 .. n) \X Seq(S) -> Seq(S)]
  BY <1>1, <1>2
<1>4. ASSUME NEW i \in 1 .. n, NEW s \in Seq(S)
      PROVE  step[<<i, s>>] = b[(n + 1) - i] \o s
  <2>1. <<i, s>> \in (1 .. n) \X Seq(S) /\ <<i, s>>[1] = i /\ <<i, s>>[2] = s
    OBVIOUS
  <2>2. QED BY <2>1, Zenon
<1> HIDE DEF step
<1>5. PICK f : Recursion(f, n, Seq(S), <<>>, step)
  BY <1>0, <1>3, RecursionExists
<1>6. /\ f \in [0 .. n -> Seq(S)] /\ f[0] = <<>>
      /\ \A i \in 1 .. n : f[i] = b[(n + 1) - i] \o f[i - 1]
  <2>1. \A i \in 1 .. n : i - 1 \in 0 .. n
    BY <1>0
  <2>2. \A i \in 1 .. n : f[i - 1] \in Seq(S)
    BY <1>5, <2>1, Zenon DEF Recursion
  <2>3. QED BY <1>4, <1>5, <2>2, Zenon DEF Recursion
<1> DEFINE g == [i \in 1 .. n + 1 |-> f[(n + 1) - i]]
<1>7. IsSuffixes(g, b, S)
  <2>1. \A i \in 1 .. n + 1 : (n + 1) - i \in 0 .. n
    BY <1>0
  <2>2. g \in [1 .. n + 1 -> Seq(S)]
    BY <1>6, <2>1
  <2>3. g[n + 1] = <<>>
    <3>1. n + 1 \in 1 .. n + 1 /\ (n + 1) - (n + 1) = 0
      BY <1>0
    <3>2. QED BY <1>6, <3>1, Zenon
  <2>4. ASSUME NEW i \in 1 .. n PROVE g[i] = b[i] \o g[i + 1]
    <3>1. /\ i \in 1 .. n + 1 /\ i + 1 \in 1 .. n + 1
          /\ (n + 1) - i \in 1 .. n
          /\ (n + 1) - ((n + 1) - i) = i
          /\ ((n + 1) - i) - 1 = (n + 1) - (i + 1)
      BY <1>0
    <3>2. f[(n + 1) - i] = b[(n + 1) - ((n + 1) - i)] \o f[((n + 1) - i) - 1]
      BY <1>6, <3>1, Zenon
    <3>3. QED BY <3>1, <3>2, Zenon
  <2> HIDE DEF g
  <2>5. QED BY <2>2, <2>3, <2>4, Zenon DEF IsSuffixes
<1> HIDE DEF g
<1>8. g[1] = FlattenSeq(b)
  <2>1. PICK h \in [0 .. n -> Seq(S)] :
          h[0] = <<>> /\ \A i \in 1 .. n : h[i] = h[i - 1] \o b[i]
    BY <1>0, FlattenExists, Zenon
  <2>2. FlattenSeq(b) = h[n]
    BY <1>0, <2>1, FlattenIs, Zenon
  <2> DEFINE T == {i \in 0 .. n : h[i] \o g[i + 1] = g[1]}
  <2>3. 0 \in T
    <3>1. 0 \in 0 .. n /\ 0 + 1 = 1 /\ 1 \in 1 .. n + 1
      BY <1>0
    <3>2. g[1] \in Seq(S)
      BY <1>7, <3>1, Zenon DEF IsSuffixes
    <3>3. QED BY <1>2, <2>1, <3>1, <3>2, Zenon
  <2>4. ASSUME NEW i \in 1 .. n, i - 1 \in T PROVE i \in T
    <3>1. /\ i \in 0 .. n /\ i - 1 \in 0 .. n /\ (i - 1) + 1 = i
          /\ i + 1 \in 1 .. n + 1
      BY <1>0
    <3>2. h[i - 1] \in Seq(S) /\ g[i + 1] \in Seq(S) /\ b[i] \in Seq(S)
      BY <1>1, <1>7, <3>1, Zenon DEF IsSuffixes
    <3>3. h[i] = h[i - 1] \o b[i] /\ g[i] = b[i] \o g[i + 1]
      BY <1>7, <2>1, Zenon DEF IsSuffixes
    <3>4. \A s, t, u \in Seq(S) : (s \o t) \o u = s \o (t \o u)
      OBVIOUS
    <3>5. h[i - 1] \o g[i] = g[1]
      BY <2>4, <3>1, Zenon
    <3>6. (h[i - 1] \o b[i]) \o g[i + 1] = h[i - 1] \o (b[i] \o g[i + 1])
      BY <3>2, <3>4, Zenon
    <3>7. h[i] \o g[i + 1] = g[1]
      BY <3>3, <3>5, <3>6, Zenon
    <3>8. QED BY <3>1, <3>7, Zenon
  <2>5. n \in T
    <3>1. n \in 0 .. n
      BY <1>0
    <3> HIDE DEF T, n
    <3>2. QED BY <1>0, <2>3, <2>4, <3>1, SetInduction
  <2>6. h[n] \in Seq(S) /\ g[n + 1] = <<>>
    <3>1. n \in 0 .. n
      BY <1>0
    <3>2. QED BY <1>7, <3>1, Zenon DEF IsSuffixes
  <2>7. QED BY <1>2, <2>2, <2>5, <2>6, Zenon
<1>9. QED BY <1>7, <1>8, Zenon

(* What is unread is the rest of a block and the blocks after it.          *)
LEMMA UnreadIs ==
  ASSUME NEW S, NEW rd \in Readers(S), NEW g, IsSuffixes(g, rd.blocks, S)
  PROVE  /\ SubSeq(rd.blocks[rd.block_idx], rd.row_idx, Len(rd.blocks[rd.block_idx]))
              \in Seq(S)
         /\ unread(rd) =
              SubSeq(rd.blocks[rd.block_idx], rd.row_idx, Len(rd.blocks[rd.block_idx]))
                \o g[rd.block_idx + 1]
<1> DEFINE b == rd.blocks
           first == rd.block_idx
           n == Len(b)
           Rest(i) == SubSeq(b[i], IF i = first THEN rd.row_idx ELSE 1, Len(b[i]))
           rest[i \in first .. n + 1] == IF i > n THEN <<>> ELSE Rest(i) \o rest[i + 1]
<1>0. /\ b \in Seq(Seq(S)) /\ n \in Nat /\ first \in 1 .. n
      /\ rd.row_idx \in 1 .. Len(b[first]) + 1
      /\ \A i \in 1 .. n : b[i] \in Seq(S)
  <2>1. b \in Buffers(S) /\ first \in 1 .. n /\ rd.row_idx \in 1 .. Len(b[first]) + 1
    BY DEF Readers
  <2>2. b \in Seq(Seq(S))
    BY <2>1, BufferRows
  <2> HIDE DEF b, first
  <2>3. QED BY <2>1, <2>2
<1>1. unread(rd) = rest[first]
  BY DEF unread
<1>2. /\ g \in [1 .. n + 1 -> Seq(S)] /\ g[n + 1] = <<>>
      /\ \A i \in 1 .. n : g[i] = b[i] \o g[i + 1]
  BY Zenon DEF IsSuffixes
<1>3. Rest(first) \in Seq(S)
  <2>1. b[first] \in Seq(S) /\ rd.row_idx \in Nat
    BY <1>0
  <2> DEFINE s == b[first]  m == rd.row_idx
  <2>2. s \in Seq(S) /\ m \in 1 .. Len(s) + 1
    BY <1>0, Zenon
  <2> HIDE DEF s, m
  <2>3. SubSeq(s, m, Len(s)) \in Seq(S)
    BY <2>2
  <2>4. QED BY <2>3 DEF s, m
<1>4. ASSUME NEW i \in 1 .. n, i # first PROVE Rest(i) = b[i]
  <2>1. b[i] \in Seq(S)
    BY <1>0, Zenon
  <2>2. \A s \in Seq(S) : SubSeq(s, 1, Len(s)) = s
    OBVIOUS
  <2>3. QED BY <1>4, <2>1, <2>2, Zenon
<1> HIDE DEF b, first, n, Rest, rest
<1> DEFINE h == [i \in first .. n + 1 |-> IF i = first THEN Rest(first) \o g[first + 1] ELSE g[i]]
<1>5. ASSUME NEW i \in first .. n + 1
      PROVE  h[i] = IF i > n THEN <<>> ELSE Rest(i) \o h[i + 1]
  <2>0. i \in 1 .. n + 1
    BY <1>0
  <2>1. CASE i > n
    <3>1. i = n + 1 /\ i # first
      BY <1>0, <2>1
    <3>2. QED BY <1>2, <2>1, <3>1, Zenon
  <2>2. CASE ~ (i > n)
    <3>1. i \in 1 .. n /\ i + 1 \in first .. n + 1 /\ i + 1 # first
      BY <1>0, <2>0, <2>2
    <3>2. h[i + 1] = g[i + 1]
      BY <3>1, Zenon
    <3>3. CASE i = first
      BY <2>2, <3>2, <3>3, Zenon
    <3>4. CASE i # first
      <4>1. h[i] = b[i] \o g[i + 1]
        BY <1>2, <3>1, <3>4, Zenon
      <4>2. QED BY <1>4, <2>2, <3>1, <3>2, <3>4, <4>1, Zenon
    <3>5. QED BY <3>3, <3>4, Zenon
  <2>3. QED BY <2>1, <2>2, Zenon
<1>6. rest = [i \in first .. n + 1 |-> IF i > n THEN <<>> ELSE Rest(i) \o rest[i + 1]]
  <2>1. h = [i \in first .. n + 1 |-> IF i > n THEN <<>> ELSE Rest(i) \o h[i + 1]]
    BY <1>5
  <2> HIDE DEF h
  <2>2. \E k : k = [i \in first .. n + 1 |-> IF i > n THEN <<>> ELSE Rest(i) \o k[i + 1]]
    BY <2>1
  <2>3. QED BY <2>2 DEF rest
<1>7. h[first] = Rest(first) \o g[first + 1]
  <2>1. first \in first .. n + 1
    BY <1>0
  <2>2. QED BY <2>1, Zenon
<1> HIDE DEF h
<1> DEFINE m == (n + 1) - first
           T == {i \in 0 .. m : rest[(n + 1) - i] = h[(n + 1) - i]}
<1>8. 0 \in T
  <2>1. /\ 0 \in 0 .. m /\ (n + 1) - 0 = n + 1
        /\ n + 1 \in first .. n + 1 /\ n + 1 > n
    BY <1>0
  <2>2. QED BY <1>5, <1>6, <2>1, Zenon
<1>9. ASSUME NEW i \in 1 .. m, i - 1 \in T PROVE i \in T
  <2>1. /\ i \in 0 .. m /\ (n + 1) - i \in first .. n + 1 /\ ~ ((n + 1) - i > n)
        /\ ((n + 1) - i) + 1 = (n + 1) - (i - 1)
    BY <1>0
  <2>2. rest[(n + 1) - (i - 1)] = h[(n + 1) - (i - 1)]
    BY <1>9, Zenon
  <2>3. QED BY <1>5, <1>6, <2>1, <2>2, Zenon
<1>10. rest[first] = h[first]
  <2>1. m \in Nat /\ m \in 0 .. m /\ (n + 1) - m = first
    BY <1>0
  <2> HIDE DEF T, m
  <2>2. m \in T
    BY <1>8, <1>9, <2>1, SetInduction
  <2>3. rest[(n + 1) - m] = h[(n + 1) - m]
    BY <2>2, Zenon DEF T
  <2>4. QED BY <2>1, <2>3, Zenon
<1>11. unread(rd) = Rest(first) \o g[first + 1]
  BY <1>1, <1>7, <1>10, Zenon
<1>12. Rest(first) = SubSeq(b[first], rd.row_idx, Len(b[first]))
  BY DEF Rest
<1>13. QED BY <1>3, <1>11, <1>12 DEF b, first

(* A reader of a buffer with blocks has all of it to read.                 *)
LEMMA FreshReader ==
  ASSUME NEW S, NEW b \in Buffers(S), b # <<>>
  PROVE  /\ QRowReader(b) \in Readers(S)
         /\ unread(QRowReader(b)) = FlattenSeq(b)
<1> DEFINE rd == QRowReader(b)
<1>1. b \in Seq(BlocksOver(S)) /\ 1 \in 1 .. Len(b)
  BY DEF Buffers
<1>2. b[1] \in Seq(S) /\ b[1] # <<>>
  BY <1>1 DEF BlocksOver
<1>3. rd.blocks = b /\ rd.block_idx = 1 /\ rd.row_idx = 1
  BY DEF QRowReader
<1>4. rd \in Readers(S)
  <2>1. rd \in [blocks : Buffers(S), block_idx : Nat, row_idx : Nat]
    BY DEF QRowReader
  <2>2. 1 \in 1 .. Len(b[1]) + 1
    BY <1>2
  <2> HIDE DEF rd
  <2>3. QED BY <1>1, <1>3, <2>1, <2>2, Zenon DEF Readers
<1> HIDE DEF rd
<1>5. PICK g : IsSuffixes(g, b, S) /\ g[1] = FlattenSeq(b)
  BY SuffixesExist
<1>6. unread(rd) = SubSeq(b[1], 1, Len(b[1])) \o g[1 + 1]
  <2>1. unread(rd) = SubSeq(rd.blocks[rd.block_idx], rd.row_idx, Len(rd.blocks[rd.block_idx]))
                       \o g[rd.block_idx + 1]
    BY <1>3, <1>4, <1>5, UnreadIs, Zenon
  <2>2. QED BY <1>3, <2>1, Zenon
<1>7. SubSeq(b[1], 1, Len(b[1])) = b[1]
  BY <1>2
<1>8. g[1] = b[1] \o g[1 + 1]
  BY <1>1, <1>5, Zenon DEF IsSuffixes
<1>9. QED BY <1>4, <1>5, <1>6, <1>7, <1>8, Zenon DEF rd

(* While a reader has a row it reads the first one that is unread, going   *)
(* on to a next block only where there is one.                             *)
LEMMA ReadNext ==
  ASSUME NEW S, NEW rd \in Readers(S)
  PROVE  /\ unread(rd) \in Seq(S)
         /\ has_next(rd) <=> unread(rd) # <<>>
         /\ has_next(rd) => /\ next(rd) \in S
                            /\ after_next(rd) \in Readers(S)
                            /\ unread(rd) = <<next(rd)>> \o unread(after_next(rd))
<1> DEFINE b == rd.blocks
           n == Len(b)
           k == rd.block_idx
           m == rd.row_idx
<1>1. /\ b \in Buffers(S) /\ n \in Nat /\ k \in 1 .. n /\ m \in 1 .. Len(b[k]) + 1
      /\ rd = [blocks |-> b, block_idx |-> k, row_idx |-> m]
  BY DEF Readers, Buffers
<1>2. ASSUME NEW i \in 1 .. n PROVE b[i] \in Seq(S) /\ b[i] # <<>> /\ Len(b[i]) \in Nat \ {0}
  <2>1. b \in Seq(BlocksOver(S))
    BY <1>1, Zenon DEF Buffers
  <2>2. b[i] \in BlocksOver(S)
    BY <2>1
  <2>3. b[i] \in Seq(S) /\ b[i] # <<>>
    BY <2>2 DEF BlocksOver
  <2> HIDE DEF b
  <2>4. QED BY <2>3
<1>3. PICK g : IsSuffixes(g, b, S)
  BY <1>1, SuffixesExist, Zenon
<1>4. ASSUME NEW i \in 1 .. n, NEW j \in 1 .. Len(b[i]) + 1
      PROVE  /\ [blocks |-> b, block_idx |-> i, row_idx |-> j] \in Readers(S)
             /\ SubSeq(b[i], j, Len(b[i])) \in Seq(S)
             /\ unread([blocks |-> b, block_idx |-> i, row_idx |-> j]) =
                  SubSeq(b[i], j, Len(b[i])) \o g[i + 1]
  <2> DEFINE at == [blocks |-> b, block_idx |-> i, row_idx |-> j]
  <2>1. at.blocks = b /\ at.block_idx = i /\ at.row_idx = j
    OBVIOUS
  <2>2. i \in Nat /\ j \in Nat
    BY <1>2
  <2>3. at \in [blocks : Buffers(S), block_idx : Nat, row_idx : Nat]
    BY <1>1, <2>2
  <2> HIDE DEF at
  <2>4. at \in Readers(S)
    BY <2>1, <2>3, Zenon DEF Readers
  <2>5. /\ SubSeq(at.blocks[at.block_idx], at.row_idx, Len(at.blocks[at.block_idx])) \in Seq(S)
        /\ unread(at) =
              SubSeq(at.blocks[at.block_idx], at.row_idx, Len(at.blocks[at.block_idx]))
                \o g[at.block_idx + 1]
    BY <1>3, <2>1, <2>4, UnreadIs, Zenon
  <2>6. QED BY <2>1, <2>4, <2>5, Zenon DEF at
<1>5. ASSUME NEW i \in 1 .. n + 1 PROVE g[i] \in Seq(S)
  BY <1>3, Zenon DEF IsSuffixes
<1>6. ASSUME NEW i \in 1 .. n, NEW j \in 1 .. Len(b[i])
      PROVE  /\ b[i][j] \in S
             /\ j + 1 \in 1 .. Len(b[i]) + 1
             /\ SubSeq(b[i], j, Len(b[i])) \o g[i + 1] =
                  <<b[i][j]>> \o (SubSeq(b[i], j + 1, Len(b[i])) \o g[i + 1])
  <2> DEFINE s == b[i]
  <2>1. s \in Seq(S)
    BY <1>2, Zenon
  <2>2. g[i + 1] \in Seq(S)
    <3>1. i + 1 \in 1 .. n + 1
      BY <1>1
    <3>2. QED BY <1>5, <3>1, Zenon
  <2> DEFINE t == g[i + 1]
  <2> HIDE DEF s, t, b, n
  <2>3. j \in 1 .. Len(s) /\ t \in Seq(S)
    BY <2>2, Zenon DEF s, t
  <2>4. /\ s[j] \in S /\ j + 1 \in 1 .. Len(s) + 1
        /\ SubSeq(s, j + 1, Len(s)) \in Seq(S) /\ <<s[j]>> \in Seq(S)
        /\ SubSeq(s, j, Len(s)) = <<s[j]>> \o SubSeq(s, j + 1, Len(s))
    BY <2>1, <2>3
  <2>5. \A u, v \in Seq(S) : (u \o v) \o t = u \o (v \o t)
    BY <2>3
  <2>6. (<<s[j]>> \o SubSeq(s, j + 1, Len(s))) \o t = <<s[j]>> \o (SubSeq(s, j + 1, Len(s)) \o t)
    BY <2>4, <2>5, Zenon
  <2>7. QED BY <2>4, <2>6, Zenon DEF s, t
<1>7. /\ SubSeq(b[k], m, Len(b[k])) \in Seq(S)
      /\ unread(rd) = SubSeq(b[k], m, Len(b[k])) \o g[k + 1]
  BY <1>1, <1>4, Zenon
<1>8. \A s, t \in Seq(S) : s \o t \in Seq(S) /\ <<>> \o s = s /\ s \o <<>> = s
  OBVIOUS
<1>9. \A x \in S, s \in Seq(S) : <<x>> \o s \in Seq(S) /\ <<x>> \o s # <<>>
  OBVIOUS
<1>10. ASSUME NEW i \in 1 .. n, NEW j \in 1 .. Len(b[i]),
              has_next(rd), at_row(rd) = [blocks |-> b, block_idx |-> i, row_idx |-> j],
              unread(rd) = SubSeq(b[i], j, Len(b[i])) \o g[i + 1]
       PROVE  /\ unread(rd) \in Seq(S) /\ unread(rd) # <<>>
              /\ next(rd) \in S
              /\ after_next(rd) \in Readers(S)
              /\ unread(rd) = <<next(rd)>> \o unread(after_next(rd))
  <2>1. next(rd) = b[i][j]
    BY <1>10 DEF next
  <2>2. after_next(rd) = [blocks |-> b, block_idx |-> i, row_idx |-> j + 1]
    <3>1. ASSUME NEW a, a = [blocks |-> b, block_idx |-> i, row_idx |-> j]
          PROVE  [a EXCEPT !.row_idx = a.row_idx + 1]
                   = [blocks |-> b, block_idx |-> i, row_idx |-> j + 1]
      <4> HIDE DEF b, n
      <4>1. QED BY <3>1
    <3>2. QED BY <1>10, <3>1, Zenon DEF after_next
  <2>3. b[i][j] \in S /\ j + 1 \in 1 .. Len(b[i]) + 1
    BY <1>6, Zenon
  <2>4. /\ after_next(rd) \in Readers(S)
        /\ SubSeq(b[i], j + 1, Len(b[i])) \in Seq(S)
        /\ unread(after_next(rd)) = SubSeq(b[i], j + 1, Len(b[i])) \o g[i + 1]
    BY <1>4, <2>2, <2>3, Zenon
  <2>5. g[i + 1] \in Seq(S)
    <3>1. i + 1 \in 1 .. n + 1
      BY <1>1
    <3>2. QED BY <1>5, <3>1, Zenon
  <2>6. unread(after_next(rd)) \in Seq(S)
    BY <1>8, <2>4, <2>5, Zenon
  <2>7. unread(rd) = <<next(rd)>> \o unread(after_next(rd))
    BY <1>6, <1>10, <2>1, <2>4, Zenon
  <2>8. QED BY <1>9, <2>1, <2>3, <2>4, <2>6, <2>7, Zenon
<1>11. CASE m \in 1 .. Len(b[k])
  <2>1. has_next(rd) /\ at_row(rd) = [blocks |-> b, block_idx |-> k, row_idx |-> m]
    <3>1. block_has_next(rd)
      BY <1>1, <1>11 DEF block_has_next
    <3>2. QED BY <1>1, <3>1, Zenon DEF has_next, at_row
  <2>2. QED BY <1>1, <1>7, <1>10, <1>11, <2>1, Zenon
<1>12. CASE m \notin 1 .. Len(b[k])
  <2>1. m = Len(b[k]) + 1 /\ m > Len(b[k])
    BY <1>1, <1>2, <1>12
  <2>2. ~ block_has_next(rd)
    <3>1. ~ (m <= Len(b[k]))
      BY <1>1, <1>2, <2>1
    <3>2. QED BY <3>1, Zenon DEF block_has_next
  <2>3. SubSeq(b[k], m, Len(b[k])) = <<>>
    <3>1. Len(b[k]) \in Nat
      BY <1>1, <1>2
    <3>2. QED BY <2>1, <3>1, SubSeqEmpty
  <2>4. unread(rd) = g[k + 1] /\ g[k + 1] \in Seq(S)
    <3>1. k + 1 \in 1 .. n + 1
      BY <1>1
    <3>2. g[k + 1] \in Seq(S)
      BY <1>5, <3>1, Zenon
    <3>3. QED BY <1>7, <1>8, <2>3, <3>2, Zenon
  <2>5. CASE k = n
    <3>1. unread(rd) = <<>>
      BY <1>3, <2>4, <2>5, Zenon DEF IsSuffixes
    <3>2. ~ has_next(rd)
      BY <1>1, <2>2, <2>5 DEF has_next
    <3>3. QED BY <2>4, <3>1, <3>2, Zenon
  <2>6. CASE k # n
    <3>1. k + 1 \in 1 .. n /\ k < n
      BY <1>1, <2>6
    <3>2. 1 \in 1 .. Len(b[k + 1]) /\ b[k + 1] \in Seq(S)
      BY <1>2, <3>1
    <3>3. g[k + 1] = SubSeq(b[k + 1], 1, Len(b[k + 1])) \o g[(k + 1) + 1]
      <4>1. \A s \in Seq(S) : SubSeq(s, 1, Len(s)) = s
        OBVIOUS
      <4>2. g[k + 1] = b[k + 1] \o g[(k + 1) + 1]
        BY <1>3, <3>1, Zenon DEF IsSuffixes
      <4>3. QED BY <3>2, <4>1, <4>2, Zenon
    <3>4. has_next(rd)
      BY <3>1, Zenon DEF has_next
    <3>5. at_row(rd) = [blocks |-> b, block_idx |-> k + 1, row_idx |-> 1]
      BY <1>1, <2>2 DEF at_row
    <3>6. unread(rd) = SubSeq(b[k + 1], 1, Len(b[k + 1])) \o g[(k + 1) + 1]
      BY <2>4, <3>3, Zenon
    <3>7. QED BY <1>10, <3>1, <3>2, <3>4, <3>5, <3>6, Zenon
  <2>7. QED BY <2>5, <2>6, Zenon
<1>13. QED BY <1>11, <1>12, Zenon

(* Whoever reads a buffer to its end reads its rows.                       *)
LEMMA RowsRead ==
  ASSUME NEW S, NEW b \in Buffers(S)
  PROVE  rows_read(b) = FlattenSeq(b)
<1> DEFINE n == Len(unread(QRowReader(b)))
           X == [r : Readers(S), rows : Seq(S)]
           Start == [r |-> QRowReader(b), rows |-> <<>>]
           Read(st) == IF ~ has_next(st.r) THEN st
                       ELSE [r |-> after_next(st.r), rows |-> Append(st.rows, next(st.r))]
           step == [q \in (1 .. n) \X X |-> Read(q[2])]
           reads[i \in 0 .. n] ==
             IF i = 0 THEN Start
             ELSE IF ~ has_next(reads[i - 1].r) THEN reads[i - 1]
             ELSE [r    |-> after_next(reads[i - 1].r),
                   rows |-> Append(reads[i - 1].rows, next(reads[i - 1].r))]
<1>1. rows_read(b) = reads[n].rows
  BY DEF rows_read
<1>2. CASE b = <<>>
  <2>1. FlattenSeq(b) = <<>>
    BY <1>2 DEF FlattenSeq
  <2>2. unread(QRowReader(b)) = <<>>
    <3> DEFINE rd == QRowReader(b)
    <3>1. rd.blocks = <<>> /\ rd.block_idx = 1 /\ Len(rd.blocks) = 0
      BY <1>2 DEF QRowReader
    <3> HIDE DEF rd
    <3> DEFINE Rest(k) == SubSeq(rd.blocks[k], IF k = rd.block_idx THEN rd.row_idx ELSE 1,
                                 Len(rd.blocks[k]))
               rest[k \in rd.block_idx .. Len(rd.blocks) + 1] ==
                 IF k > Len(rd.blocks) THEN <<>> ELSE Rest(k) \o rest[k + 1]
    <3> HIDE DEF Rest
    <3>2. rest = [k \in rd.block_idx .. Len(rd.blocks) + 1 |->
                    IF k > Len(rd.blocks) THEN <<>> ELSE Rest(k) \o rest[k + 1]]
      <4> DEFINE g == [k \in 1 .. 1 |-> <<>>]
      <4>1. rd.block_idx .. Len(rd.blocks) + 1 = 1 .. 1 /\ \A k \in 1 .. 1 : k > Len(rd.blocks)
        BY <3>1
      <4>2. g = [k \in rd.block_idx .. Len(rd.blocks) + 1 |->
                   IF k > Len(rd.blocks) THEN <<>> ELSE Rest(k) \o g[k + 1]]
        BY <4>1
      <4> HIDE DEF g
      <4>3. \E h : h = [k \in rd.block_idx .. Len(rd.blocks) + 1 |->
                   IF k > Len(rd.blocks) THEN <<>> ELSE Rest(k) \o h[k + 1]]
        BY <4>2
      <4>4. QED BY <4>3
    <3>3. unread(rd) = rest[rd.block_idx]
      BY DEF unread, Rest
    <3> HIDE DEF rest
    <3>4. rest[1] = <<>>
      BY <3>1, <3>2
    <3>5. QED BY <3>1, <3>3, <3>4 DEF rd
  <2>3. reads[0].rows = <<>>
    <3> DEFINE g == [i \in 0 .. 0 |-> Start]
    <3>1. n = 0
      BY <2>2
    <3> HIDE DEF n, Start
    <3>2. g = [i \in 0 .. n |->
                 IF i = 0 THEN Start
                 ELSE IF ~ has_next(g[i - 1].r) THEN g[i - 1]
                 ELSE [r    |-> after_next(g[i - 1].r),
                       rows |-> Append(g[i - 1].rows, next(g[i - 1].r))]]
      BY <3>1
    <3> HIDE DEF g
    <3>3. \E h : h = [i \in 0 .. n |->
                 IF i = 0 THEN Start
                 ELSE IF ~ has_next(h[i - 1].r) THEN h[i - 1]
                 ELSE [r    |-> after_next(h[i - 1].r),
                       rows |-> Append(h[i - 1].rows, next(h[i - 1].r))]]
      BY <3>2
    <3>4. reads = [i \in 0 .. n |->
                 IF i = 0 THEN Start
                 ELSE IF ~ has_next(reads[i - 1].r) THEN reads[i - 1]
                 ELSE [r    |-> after_next(reads[i - 1].r),
                       rows |-> Append(reads[i - 1].rows, next(reads[i - 1].r))]]
      BY <3>3
    <3> HIDE DEF reads
    <3>5. reads[0] = Start
      BY <3>1, <3>4
    <3>6. QED BY <3>5 DEF Start
  <2>4. n = 0
    BY <2>2
  <2>5. QED BY <1>1, <2>1, <2>3, <2>4
<1>3. CASE b # <<>>
  <2>1. /\ QRowReader(b) \in Readers(S) /\ unread(QRowReader(b)) = FlattenSeq(b)
        /\ FlattenSeq(b) \in Seq(S) /\ n \in Nat
    BY <1>3, FreshReader, BufferRows
  <2>2. Start \in X
    BY <2>1
  <2>3. ASSUME NEW st \in X
        PROVE  /\ Read(st) \in X
               /\ Len(st.rows) \in Nat /\ Len(unread(st.r)) \in Nat
               /\ Read(st).rows \o unread(Read(st).r) = st.rows \o unread(st.r)
               /\ unread(st.r) # <<>> => Len(Read(st).rows) = Len(st.rows) + 1
               /\ Len(st.rows \o unread(st.r)) = Len(st.rows) + Len(unread(st.r))
    <3>1. st.r \in Readers(S) /\ st.rows \in Seq(S)
      OBVIOUS
    <3>2. /\ unread(st.r) \in Seq(S)
          /\ has_next(st.r) <=> unread(st.r) # <<>>
          /\ has_next(st.r) => /\ next(st.r) \in S
                               /\ after_next(st.r) \in Readers(S)
                               /\ unread(st.r) = <<next(st.r)>> \o unread(after_next(st.r))
      BY <3>1, ReadNext, Zenon
    <3>3. CASE ~ has_next(st.r)
      <4>1. Read(st) = st
        BY <3>3
      <4> HIDE DEF Read, X
      <4>2. QED BY <3>1, <3>2, <3>3, <4>1
    <3>4. CASE has_next(st.r)
      <4> DEFINE x == next(st.r)
                 rest == after_next(st.r)
                 u == unread(rest)
      <4>1. Read(st) = [r |-> rest, rows |-> Append(st.rows, x)]
        BY <3>4
      <4>2. x \in S /\ rest \in Readers(S) /\ unread(st.r) = <<x>> \o u
        BY <3>2, <3>4
      <4>3. u \in Seq(S)
        BY <4>2, ReadNext, Zenon
      <4> HIDE DEF Read, x, rest, u
      <4>4. Append(st.rows, x) \in Seq(S) /\ Len(Append(st.rows, x)) = Len(st.rows) + 1
        BY <3>1, <4>2
      <4>5. Append(st.rows, x) \o u = st.rows \o (<<x>> \o u)
        BY <3>1, <4>2, <4>3
      <4>6. Read(st) \in X /\ Read(st).r = rest /\ Read(st).rows = Append(st.rows, x)
        BY <4>1, <4>2, <4>4
      <4>7. QED BY <3>1, <3>2, <4>2, <4>4, <4>5, <4>6 DEF u
    <3>5. QED BY <3>3, <3>4
  <2> HIDE DEF Read, X, n
  <2>4. step \in [(1 .. n) \X X -> X]
    BY <2>3
  <2>5. ASSUME NEW i \in 1 .. n, NEW st \in X PROVE step[<<i, st>>] = Read(st)
    <3>1. <<i, st>> \in (1 .. n) \X X /\ <<i, st>>[2] = st
      OBVIOUS
    <3>2. QED BY <3>1, Zenon
  <2> HIDE DEF step, Start
  <2>6. PICK f : Recursion(f, n, X, Start, step)
    BY <2>1, <2>2, <2>4, RecursionExists
  <2>7. /\ f \in [0 .. n -> X] /\ f[0] = Start
        /\ \A i \in 1 .. n : f[i] = Read(f[i - 1]) /\ f[i - 1] \in X
    <3>1. \A i \in 1 .. n : i - 1 \in 0 .. n
      BY <2>1
    <3>2. \A i \in 1 .. n : f[i - 1] \in X
      BY <2>6, <3>1, Zenon DEF Recursion
    <3>3. QED BY <2>5, <2>6, <3>2, Zenon DEF Recursion
  <2>8. reads = f
    <3>1. ASSUME NEW i \in 0 .. n
          PROVE f[i] = IF i = 0 THEN Start
                       ELSE IF ~ has_next(f[i - 1].r) THEN f[i - 1]
                       ELSE [r    |-> after_next(f[i - 1].r),
                             rows |-> Append(f[i - 1].rows, next(f[i - 1].r))]
      <4>1. i # 0 => i \in 1 .. n
        BY <2>1
      <4>2. QED BY <2>7, <4>1, Zenon DEF Read
    <3>2. f = [i \in 0 .. n |->
                 IF i = 0 THEN Start
                 ELSE IF ~ has_next(f[i - 1].r) THEN f[i - 1]
                 ELSE [r    |-> after_next(f[i - 1].r),
                       rows |-> Append(f[i - 1].rows, next(f[i - 1].r))]]
      BY <2>7, <3>1
    <3>3. \E h : h = [i \in 0 .. n |->
                 IF i = 0 THEN Start
                 ELSE IF ~ has_next(h[i - 1].r) THEN h[i - 1]
                 ELSE [r    |-> after_next(h[i - 1].r),
                       rows |-> Append(h[i - 1].rows, next(h[i - 1].r))]]
      BY <3>2
    <3>4. reads = [i \in 0 .. n |->
                 IF i = 0 THEN Start
                 ELSE IF ~ has_next(reads[i - 1].r) THEN reads[i - 1]
                 ELSE [r    |-> after_next(reads[i - 1].r),
                       rows |-> Append(reads[i - 1].rows, next(reads[i - 1].r))]]
      BY <3>3
    <3> HIDE DEF reads
    <3> DEFINE T == {i \in 0 .. n : reads[i] = f[i]}
    <3>5. 0 \in T
      <4>1. 0 \in 0 .. n
        BY <2>1
      <4>2. QED BY <2>7, <3>4, <4>1
    <3>6. ASSUME NEW i \in 1 .. n, i - 1 \in T PROVE i \in T
      <4>1. i \in 0 .. n /\ i # 0
        BY <2>1
      <4>2. reads[i] = IF ~ has_next(reads[i - 1].r) THEN reads[i - 1]
                       ELSE [r    |-> after_next(reads[i - 1].r),
                             rows |-> Append(reads[i - 1].rows, next(reads[i - 1].r))]
        BY <3>4, <4>1
      <4>3. reads[i - 1] = f[i - 1]
        BY <3>6
      <4>4. reads[i] = f[i]
        BY <2>7, <4>2, <4>3 DEF Read
      <4>5. QED BY <4>1, <4>4
    <3>7. \A i \in 0 .. n : reads[i] = f[i]
      <4> HIDE DEF T
      <4>1. \A i \in 0 .. n : i \in T
        BY <2>1, <3>5, <3>6, SetInduction
      <4>2. QED BY <4>1 DEF T
    <3>8. reads = [i \in 0 .. n |-> reads[i]]
      BY <3>4
    <3>9. f = [i \in 0 .. n |-> f[i]]
      BY <2>7
    <3>10. QED BY <3>7, <3>8, <3>9
  <2> HIDE DEF reads
  <2> DEFINE T == {i \in 0 .. n : /\ f[i] \in X /\ Len(f[i].rows) = i
                                  /\ f[i].rows \o unread(f[i].r) = FlattenSeq(b)}
  <2>9. 0 \in T
    <3>1. 0 \in 0 .. n
      BY <2>1
    <3>2. Start.rows = <<>> /\ Start.r = QRowReader(b)
      BY DEF Start
    <3>3. <<>> \o FlattenSeq(b) = FlattenSeq(b)
      BY <2>1
    <3>4. QED BY <2>1, <2>2, <2>7, <3>1, <3>2, <3>3
  <2>10. n = Len(FlattenSeq(b))
    BY <2>1 DEF n
  <2>11. ASSUME NEW i \in 1 .. n, i - 1 \in T PROVE i \in T
    <3>1. /\ i \in 0 .. n /\ f[i] = Read(f[i - 1]) /\ f[i - 1] \in X
          /\ Len(f[i - 1].rows) = i - 1
          /\ f[i - 1].rows \o unread(f[i - 1].r) = FlattenSeq(b)
      <4>1. i \in 0 .. n
        BY <2>1
      <4>2. f[i] = Read(f[i - 1])
        BY <2>7, Zenon
      <4>3. /\ f[i - 1] \in X /\ Len(f[i - 1].rows) = i - 1
            /\ f[i - 1].rows \o unread(f[i - 1].r) = FlattenSeq(b)
        BY <2>11, Zenon
      <4>4. QED BY <4>1, <4>2, <4>3
    <3>2. unread(f[i - 1].r) # <<>>
      <4>1. f[i - 1] \in X
        BY <3>1
      <4>2. /\ Len(f[i - 1].rows \o unread(f[i - 1].r))
                  = Len(f[i - 1].rows) + Len(unread(f[i - 1].r))
            /\ Len(unread(f[i - 1].r)) \in Nat
        BY <2>3, <4>1, Zenon
      <4>3. n = (i - 1) + Len(unread(f[i - 1].r)) /\ Len(unread(f[i - 1].r)) \in Nat
        BY <2>10, <3>1, <4>2
      <4>4. Len(unread(f[i - 1].r)) # 0
        BY <4>3, <2>1
      <4>5. QED BY <4>4
    <3>3. /\ f[i] \in X /\ Len(f[i].rows) = (i - 1) + 1
          /\ f[i].rows \o unread(f[i].r) = FlattenSeq(b)
      BY <2>3, <3>1, <3>2
    <3>4. (i - 1) + 1 = i
      OBVIOUS
    <3>5. QED BY <3>1, <3>3, <3>4
  <2>12. n \in T
    <3>1. n \in 0 .. n
      BY <2>1
    <3> HIDE DEF T
    <3>2. QED BY <2>1, <2>9, <2>11, <3>1, SetInduction
  <2>13. f[n].rows \in Seq(S) /\ unread(f[n].r) = <<>>
    <3>1. f[n] \in X /\ Len(f[n].rows) = n
          /\ f[n].rows \o unread(f[n].r) = FlattenSeq(b)
      BY <2>12
    <3>2. /\ Len(f[n].rows \o unread(f[n].r)) = Len(f[n].rows) + Len(unread(f[n].r))
          /\ Len(unread(f[n].r)) \in Nat
      BY <2>3, <3>1, Zenon
    <3>3. f[n].r \in Readers(S) /\ f[n].rows \in Seq(S)
      BY <3>1 DEF X
    <3>4. unread(f[n].r) \in Seq(S)
      BY <3>3, ReadNext, Zenon
    <3>5. Len(unread(f[n].r)) = 0
      <4>1. n = n + Len(unread(f[n].r)) /\ Len(unread(f[n].r)) \in Nat
        BY <2>10, <3>1, <3>2, Zenon
      <4>2. n \in Nat
        BY <2>1
      <4>3. QED BY <4>1, <4>2
    <3>6. QED BY <3>3, <3>4, <3>5
  <2>14. f[n].rows = FlattenSeq(b)
    <3>1. f[n].rows \o <<>> = f[n].rows
      BY <2>13
    <3>2. f[n].rows \o unread(f[n].r) = FlattenSeq(b)
      BY <2>12
    <3>3. QED BY <2>13, <3>1, <3>2
  <2>15. QED BY <1>1, <2>8, <2>14
<1>4. QED BY <1>2, <1>3

---------------------------------------------------------------------------
(* Enumerations. *)

LEMMA EnumeratesNone ==
  /\ IsEnumerationOf(<<>>, {})
  /\ \A S : IsEnumerationOf(<<>>, S) => S = {}
BY DEF IsEnumerationOf

LEMMA AppendEnumerates ==
  ASSUME NEW A, NEW s \in Seq(A), NEW S, IsEnumerationOf(s, S), NEW x \in A, x \notin S
  PROVE  IsEnumerationOf(Append(s, x), S \cup {x})
<1> DEFINE t == Append(s, x)
           n == Len(s)
<1>1. /\ n \in Nat /\ Len(t) = n + 1 /\ t[n + 1] = x
      /\ \A i \in 1 .. n : t[i] = s[i]
  OBVIOUS
<1> HIDE DEF t
<1>2. \A i \in 1 .. Len(t) : i \in 1 .. n \/ i = n + 1
  BY <1>1
<1>3. \A r \in S \cup {x} : \E i \in 1 .. Len(t) : t[i] = r
  <2>1. n + 1 \in 1 .. Len(t) /\ \A i \in 1 .. n : i \in 1 .. Len(t)
    BY <1>1
  <2>2. \A r \in S : \E i \in 1 .. Len(t) : t[i] = r
    BY <1>1, <2>1 DEF IsEnumerationOf, n
  <2>3. QED BY <1>1, <2>1, <2>2
<1>4. \A i \in 1 .. Len(t) : t[i] \in S \cup {x}
  BY <1>1, <1>2 DEF IsEnumerationOf, n
<1>5. ASSUME NEW i \in 1 .. Len(t), NEW j \in 1 .. Len(t), t[i] = t[j]
      PROVE  i = j
  <2>1. \A k \in 1 .. n : t[k] \in S
    BY <1>1 DEF IsEnumerationOf, n
  <2>2. QED BY <1>1, <1>2, <1>5, <2>1 DEF IsEnumerationOf, n
<1>6. QED BY <1>3, <1>4, <1>5 DEF IsEnumerationOf, t

LEMMA ConcatEnumerates ==
  ASSUME NEW A, NEW s \in Seq(A), NEW t \in Seq(A), NEW S, NEW T, S \cap T = {},
         IsEnumerationOf(s, S), IsEnumerationOf(t, T)
  PROVE  IsEnumerationOf(s \o t, S \cup T)
<1> DEFINE u == s \o t
           m == Len(s)
           n == Len(t)
<1>1. /\ m \in Nat /\ n \in Nat /\ Len(u) = m + n
      /\ \A i \in 1 .. m : u[i] = s[i]
      /\ \A i \in 1 .. n : u[m + i] = t[i]
  OBVIOUS
<1> HIDE DEF u
<1>2. /\ \A r \in S : \E i \in 1 .. m : s[i] = r
      /\ \A i \in 1 .. m : s[i] \in S
      /\ \A i, j \in 1 .. m : s[i] = s[j] => i = j
      /\ \A r \in T : \E i \in 1 .. n : t[i] = r
      /\ \A i \in 1 .. n : t[i] \in T
      /\ \A i, j \in 1 .. n : t[i] = t[j] => i = j
  BY DEF IsEnumerationOf, m, n
<1> HIDE DEF m, n
<1>3. \A i \in 1 .. Len(u) : i \in 1 .. m \/ \E k \in 1 .. n : i = m + k
  <2>1. ASSUME NEW i \in 1 .. Len(u), i \notin 1 .. m PROVE \E k \in 1 .. n : i = m + k
    <3>1. i - m \in 1 .. n /\ i = m + (i - m)
      BY <1>1, <2>1
    <3>2. QED BY <3>1
  <2>2. QED BY <2>1
<1>4. /\ \A i \in 1 .. m : i \in 1 .. Len(u)
      /\ \A i \in 1 .. n : m + i \in 1 .. Len(u)
  BY <1>1
<1>5. \A r \in S \cup T : \E i \in 1 .. Len(u) : u[i] = r
  <2>1. ASSUME NEW r \in S PROVE \E i \in 1 .. Len(u) : u[i] = r
    <3>1. PICK i \in 1 .. m : s[i] = r
      BY <1>2
    <3>2. QED BY <1>1, <1>4, <3>1
  <2>2. ASSUME NEW r \in T PROVE \E i \in 1 .. Len(u) : u[i] = r
    <3>1. PICK i \in 1 .. n : t[i] = r
      BY <1>2
    <3>2. QED BY <1>1, <1>4, <3>1
  <2>3. QED BY <2>1, <2>2
<1>6. \A i \in 1 .. Len(u) : u[i] \in S \cup T
  <2>1. ASSUME NEW i \in 1 .. Len(u) PROVE u[i] \in S \cup T
    <3>1. CASE i \in 1 .. m
      BY <1>1, <1>2, <3>1
    <3>2. CASE i \notin 1 .. m
      <4>1. PICK k \in 1 .. n : i = m + k
        BY <1>3, <3>2
      <4>2. QED BY <1>1, <1>2, <4>1
    <3>3. QED BY <3>1, <3>2
  <2>2. QED BY <2>1
<1>7. ASSUME NEW i \in 1 .. Len(u), NEW j \in 1 .. Len(u), u[i] = u[j]
      PROVE  i = j
  <2>1. /\ \A k \in 1 .. m : u[k] \in S /\ u[k] \notin T
        /\ \A k \in 1 .. n : u[m + k] \in T /\ u[m + k] \notin S
    BY <1>1, <1>2
  <2>2. CASE i \in 1 .. m /\ j \in 1 .. m
    BY <1>1, <1>2, <1>7, <2>2
  <2>3. CASE i \in 1 .. m /\ j \notin 1 .. m
    <3>1. PICK k \in 1 .. n : j = m + k
      BY <1>3, <2>3
    <3>2. QED BY <1>7, <2>1, <2>3, <3>1
  <2>4. CASE i \notin 1 .. m /\ j \in 1 .. m
    <3>1. PICK k \in 1 .. n : i = m + k
      BY <1>3, <2>4
    <3>2. QED BY <1>7, <2>1, <2>4, <3>1
  <2>5. CASE i \notin 1 .. m /\ j \notin 1 .. m
    <3>1. PICK k \in 1 .. n : i = m + k
      BY <1>3, <2>5
    <3>2. PICK l \in 1 .. n : j = m + l
      BY <1>3, <2>5
    <3>3. t[k] = t[l]
      BY <1>1, <1>7, <3>1, <3>2
    <3>4. k = l
      BY <1>2, <3>3
    <3>5. QED BY <3>1, <3>2, <3>4
  <2>6. QED BY <2>2, <2>3, <2>4, <2>5
<1>8. QED BY <1>5, <1>6, <1>7 DEF IsEnumerationOf, u

(* What a sort returns, and the set it was given.                          *)
LEMMA SortedFacts ==
  ASSUME NEW S \in SUBSET Rows, NEW s \in SortedEnumerations(S)
  PROVE  /\ s \in Seq(Rows)
         /\ IsEnumerationOf(s, S)
         /\ InOrder(s)
         /\ ToSet(s) = S
<1>1. s \in Seq(S) /\ IsEnumerationOf(s, S) /\ InOrder(s)
  BY DEF SortedEnumerations
<1>2. s \in Seq(Rows)
  <2>1. s \in [1 .. Len(s) -> S] /\ Len(s) \in Nat
    BY <1>1
  <2>2. s \in [1 .. Len(s) -> Rows]
    BY <2>1
  <2>3. QED BY <2>1, <2>2
<1>3. ToSet(s) = S
  <2>1. DOMAIN s = 1 .. Len(s)
    BY <1>1
  <2>2. QED BY <1>1, <2>1 DEF ToSet, IsEnumerationOf
<1>4. QED BY <1>1, <1>2, <1>3

---------------------------------------------------------------------------
(* The partitions of the sorted RDD. *)

LEMMA MinMax ==
  ASSUME NEW n \in Nat, NEW T, T \subseteq 1 .. n, T # {}
  PROVE  /\ Min(T) \in T /\ Max(T) \in T
         /\ \A i \in T : Min(T) <= i /\ i <= Max(T)
<1>1. T \subseteq Nat /\ T \subseteq 0 .. n
  OBVIOUS
<1>2. \E m \in T : \A i \in T : m <= i
  BY <1>1, LeastNatural
<1>3. \E m \in T : \A i \in T : m >= i
  <2>1. PICK m \in T : \A i \in T : i <= m
    BY <1>1, GreatestNatural
  <2>2. \A i \in T : m >= i
    BY <1>1, <2>1
  <2>3. QED BY <2>2
<1>4. Min(T) \in T /\ \A i \in T : Min(T) <= i
  BY <1>2 DEF Min
<1>5. Max(T) \in T /\ \A i \in T : Max(T) >= i
  BY <1>3 DEF Max
<1>6. \A i \in T : i <= Max(T)
  BY <1>1, <1>5
<1>7. QED BY <1>4, <1>5, <1>6

(* A partition is in order, without duplicates and within its range.       *)
IsPartition(c, p, bs) ==
  /\ c \in Seq(Rows)
  /\ InOrder(c)
  /\ IsEnumerationOf(c, ToSet(c))
  /\ \A x \in ToSet(c) : InRange(Key[x], p, bs)

LEMMA CutIsPartition ==
  ASSUME NEW S \in SUBSET Rows, NEW s \in SortedEnumerations(S), NEW bs \in Seq(Int),
         NEW n, NEW p \in PartsOf(n)
  PROVE  IsPartition(CutAt(s, bs, n)[p], p, bs)
<1> DEFINE T == PlacesOf(p, s, bs)
           c == CutAt(s, bs, n)[p]
<1>1. /\ s \in Seq(Rows) /\ IsEnumerationOf(s, S) /\ InOrder(s)
      /\ Len(s) \in Nat
  BY SortedFacts
<1>2. c = IF T = {} THEN <<>> ELSE SubSeq(s, Min(T), Max(T))
  BY DEF CutAt
<1>3. T \subseteq 1 .. Len(s)
  BY DEF PlacesOf
<1>4. \A i \in 1 .. Len(s) : i \in T <=> InRange(Key[s[i]], p, bs)
  BY DEF PlacesOf
<1> HIDE DEF T, c
<1>5. CASE T = {}
  <2>1. c = <<>>
    BY <1>2, <1>5
  <2>2. c \in Seq(Rows) /\ Len(c) = 0 /\ DOMAIN c = 1 .. 0
    BY <2>1
  <2>3. 1 .. 0 = {}
    OBVIOUS
  <2>4. ToSet(c) = {}
    BY <2>2, <2>3 DEF ToSet
  <2>5. QED BY <2>2, <2>3, <2>4 DEF IsPartition, InOrder, IsEnumerationOf, c
<1>6. CASE T # {}
  <2> DEFINE a == Min(T)
             b == Max(T)
             k == Len(c)
  <2>1. a \in T /\ b \in T
    BY <1>1, <1>3, <1>6, MinMax
  <2>2. a <= b
    BY <1>1, <1>3, <1>6, MinMax
  <2>3. c = SubSeq(s, a, b)
    BY <1>2, <1>6
  <2> HIDE DEF a, b
  <2>4. a \in 1 .. Len(s) /\ b \in 1 .. Len(s)
    BY <1>3, <2>1
  <2>5. /\ c \in Seq(Rows) /\ k = b - a + 1 /\ k \in Nat
        /\ DOMAIN c = 1 .. k
        /\ \A i \in 1 .. k : c[i] = s[a + i - 1]
    BY <1>1, <2>2, <2>3, <2>4
  <2> HIDE DEF k
  <2>6. \A i \in 1 .. k : a + i - 1 \in 1 .. Len(s) /\ a <= a + i - 1 /\ a + i - 1 <= b
    BY <1>1, <2>2, <2>4, <2>5
  <2>7. ASSUME NEW i \in 1 .. k, NEW j \in 1 .. k, i < j PROVE ~ less_than(c[j], c[i])
    <3>1. a + i - 1 < a + j - 1
      BY <1>1, <2>4, <2>7
    <3>2. QED BY <1>1, <2>5, <2>6, <3>1 DEF InOrder
  <2>8. ASSUME NEW i \in 1 .. k, NEW j \in 1 .. k, c[i] = c[j] PROVE i = j
    <3> DEFINE f == a + i - 1
               g == a + j - 1
    <3>1. f \in 1 .. Len(s) /\ g \in 1 .. Len(s) /\ s[f] = s[g]
      BY <2>5, <2>6, <2>8
    <3> HIDE DEF f, g
    <3>2. f = g
      BY <1>1, <3>1 DEF IsEnumerationOf
    <3>3. QED BY <2>4, <3>2 DEF f, g
  <2>9. ToSet(c) = {c[i] : i \in 1 .. k}
    BY <2>5 DEF ToSet
  <2>10. IsEnumerationOf(c, ToSet(c))
    BY <2>8, <2>9 DEF IsEnumerationOf, k
  <2>11. ASSUME NEW i \in 1 .. k PROVE InRange(Key[c[i]], p, bs)
    <3> DEFINE j == a + i - 1
    <3>1. j \in 1 .. Len(s) /\ a <= j /\ j <= b
      BY <2>6
    <3>2. c[i] = s[j]
      BY <2>5
    <3> HIDE DEF j
    <3>3. Key[s[a]] \in Int /\ Key[s[b]] \in Int /\ Key[s[j]] \in Int
      BY <1>1, <2>4, <3>1, RowsAssumption
    <3>4. Key[s[a]] <= Key[s[j]]
      <4>1. CASE a = j
        BY <3>3, <4>1
      <4>2. CASE a # j
        <5>1. a < j
          BY <2>4, <3>1, <4>2
        <5>2. ~ less_than(s[j], s[a])
          BY <1>1, <2>4, <3>1, <5>1 DEF InOrder
        <5>3. QED BY <3>3, <5>2 DEF less_than
      <4>3. QED BY <4>1, <4>2
    <3>5. Key[s[j]] <= Key[s[b]]
      <4>1. CASE b = j
        BY <3>3, <4>1
      <4>2. CASE b # j
        <5>1. j < b
          BY <2>4, <3>1, <4>2
        <5>2. ~ less_than(s[b], s[j])
          BY <1>1, <2>4, <3>1, <5>1 DEF InOrder
        <5>3. QED BY <3>3, <5>2 DEF less_than
      <4>3. QED BY <4>1, <4>2
    <3>6. InRange(Key[s[a]], p, bs) /\ InRange(Key[s[b]], p, bs)
      BY <1>4, <2>1, <2>4
    <3>7. InRange(Key[s[j]], p, bs)
      <4> DEFINE u == Key[s[a]]  v == Key[s[j]]  x == Key[s[b]]
      <4>1. u \in Int /\ v \in Int /\ x \in Int /\ u <= v /\ v <= x
        BY <3>3, <3>4, <3>5
      <4>2. InRange(u, p, bs) /\ InRange(x, p, bs)
        BY <3>6
      <4> HIDE DEF u, v, x
      <4>3. \A l \in 1 .. Len(bs) : bs[l] \in Int
        OBVIOUS
      <4>4. InRange(v, p, bs)
        BY <4>1, <4>2, <4>3 DEF InRange
      <4>5. QED BY <4>4 DEF v
    <3>8. QED BY <3>2, <3>7
  <2>12. QED BY <2>5, <2>7, <2>9, <2>10, <2>11 DEF IsPartition, InOrder, c, k
<1>7. QED BY <1>5, <1>6

(* Boundaries are keys of the sample. *)
LEMMA BoundariesAreKeys ==
  ASSUME NEW S \in SUBSET Rows, NEW n \in Nat \ {0}, NEW bs \in BoundariesOf(S, n)
  PROVE  bs \in Seq(Int)
<1>1. CASE n <= 1
  BY <1>1 DEF BoundariesOf
<1>2. CASE ~ (n <= 1)
  <2>1. PICK s \in SortedEnumerations(S) : bs = Boundaries(SortKeys(s), n)
    BY <1>2 DEF BoundariesOf
  <2>2. s \in Seq(Rows) /\ InOrder(s) /\ Len(s) \in Nat
    BY SortedFacts
  <2>3. \A i \in 1 .. Len(s) : s[i] \in Rows /\ Key[s[i]] \in Int
    BY <2>2, RowsAssumption
  <2>4. SortKeys(s) \in [1 .. Len(s) -> Int]
    BY <2>3 DEF SortKeys
  <2>5. SortKeys(s) \in Seq(Int) /\ Len(SortKeys(s)) = Len(s)
    BY <2>2, <2>4
  <2>6. ASSUME NEW i \in 1 .. Len(s), NEW j \in i .. Len(s)
        PROVE  SortKeys(s)[i] <= SortKeys(s)[j]
    <3>1. j \in 1 .. Len(s) /\ (i = j \/ i < j)
      BY <2>2
    <3>2. SortKeys(s)[i] = Key[s[i]] /\ SortKeys(s)[j] = Key[s[j]]
      BY <3>1 DEF SortKeys
    <3>3. CASE i = j
      BY <2>3, <3>2, <3>3
    <3>4. CASE i < j
      <4>1. ~ less_than(s[j], s[i])
        BY <2>2, <3>1, <3>4 DEF InOrder
      <4>2. QED BY <2>3, <3>1, <3>2, <4>1 DEF less_than
    <3>5. QED BY <3>1, <3>3, <3>4
  <2>7. Nondecreasing(SortKeys(s))
    BY <2>5, <2>6 DEF Nondecreasing
  <2>8. QED BY <2>1, <2>5, <2>7, BoundariesFit
<1>3. QED BY <1>1, <1>2

(* A key of an earlier partition is below every key of a later one.        *)
LEMMA PartitionsApart ==
  ASSUME NEW bs \in Seq(Int), NEW c, NEW d, NEW p \in Nat, NEW q \in Nat, p < q,
         IsPartition(c, p, bs), IsPartition(d, q, bs), NEW x \in ToSet(c), NEW y \in ToSet(d)
  PROVE  Key[x] < Key[y]
<1>1. x \in Rows /\ y \in Rows
  BY DEF IsPartition, ToSet
<1>2. Key[x] \in Int /\ Key[y] \in Int
  BY <1>1, RowsAssumption
<1>3. InRange(Key[x], p, bs) /\ InRange(Key[y], q, bs)
  BY DEF IsPartition
<1>4. QED BY <1>2, <1>3, RangesApart

---------------------------------------------------------------------------
(* The rows of a sorted partition, one after the other. *)

RowsTo(rows, i) == {rows[j] : j \in 1 .. i}

LEMMA NextInOrder ==
  ASSUME NEW rows \in Seq(Rows), NEW R, IsEnumerationOf(rows, R), InOrder(rows)
  PROVE  /\ Len(rows) \in Nat
         /\ RowsTo(rows, 0) = {} /\ RowsTo(rows, Len(rows)) = R
         /\ \A i \in 1 .. Len(rows) :
              /\ rows[i] \in Rows /\ rows[i] \in R
              /\ rows[i] \notin RowsTo(rows, i - 1)
              /\ \A t \in RowsTo(rows, i - 1) : Key[t] <= Key[rows[i]]
              /\ RowsTo(rows, i - 1) \subseteq R
              /\ RowsTo(rows, i) = RowsTo(rows, i - 1) \cup {rows[i]}
<1> DEFINE n == Len(rows)
<1>1. n \in Nat /\ \A i \in 1 .. n : rows[i] \in Rows
  OBVIOUS
<1>2. RowsTo(rows, 0) = {}
  <2>1. 1 .. 0 = {}
    OBVIOUS
  <2>2. QED BY <2>1 DEF RowsTo
<1>3. RowsTo(rows, n) = R
  BY DEF RowsTo, IsEnumerationOf
<1>4. ASSUME NEW i \in 1 .. n
      PROVE  /\ rows[i] \in Rows /\ rows[i] \in R
             /\ rows[i] \notin RowsTo(rows, i - 1)
             /\ \A t \in RowsTo(rows, i - 1) : Key[t] <= Key[rows[i]]
             /\ RowsTo(rows, i - 1) \subseteq R
             /\ RowsTo(rows, i) = RowsTo(rows, i - 1) \cup {rows[i]}
  <2>1. \A j \in 1 .. i - 1 : j \in 1 .. n /\ j < i /\ j # i
    BY <1>1
  <2>2. rows[i] \in R /\ \A j \in 1 .. i - 1 : rows[j] \in R /\ rows[j] # rows[i]
    BY <2>1 DEF IsEnumerationOf
  <2>3. ASSUME NEW j \in 1 .. i - 1 PROVE Key[rows[j]] <= Key[rows[i]]
    <3>1. ~ less_than(rows[i], rows[j])
      BY <2>1 DEF InOrder
    <3>2. Key[rows[i]] \in Int /\ Key[rows[j]] \in Int
      BY <1>1, <2>1, RowsAssumption
    <3>3. QED BY <3>1, <3>2 DEF less_than
  <2>4. 1 .. i = (1 .. i - 1) \cup {i}
    BY <1>1
  <2>5. RowsTo(rows, i) = RowsTo(rows, i - 1) \cup {rows[i]}
    BY <2>4 DEF RowsTo
  <2>6. QED BY <1>1, <2>2, <2>3, <2>5 DEF RowsTo
<1>5. QED BY <1>1, <1>2, <1>3, <1>4

---------------------------------------------------------------------------
(* A sorted RDD, of n partitions: each is in order, and they are apart.    *)

SortedParts(c, n) ==
  /\ c \in [PartsOf(n) -> Seq(Rows)]
  /\ \A p \in PartsOf(n) : IsEnumerationOf(c[p], ToSet(c[p])) /\ InOrder(c[p])

Apart(c, n) ==
  \A p, q \in PartsOf(n) : p < q =>
    \A x \in ToSet(c[p]) : \A y \in ToSet(c[q]) : Key[x] < Key[y]

LEMMA PartsAreNaturals ==
  ASSUME NEW n \in Nat
  PROVE  /\ PartsOf(n) = 0 .. n - 1
         /\ \A p \in PartsOf(n) : p \in Nat /\ (p # 0 => p - 1 \in PartsOf(n) /\ p - 1 < p)
BY DEF PartsOf

LEMMA RowsOfParts ==
  ASSUME NEW n, NEW c, SortedParts(c, n), NEW p \in PartsOf(n)
  PROVE  ToSet(c[p]) \in SUBSET Rows
<1>1. c[p] \in Seq(Rows)
  BY DEF SortedParts
<1>2. QED BY <1>1 DEF ToSet

(* Any RDD that the sort may leave is in order, and its partitions apart.  *)
LEMMA SortedRDDFits ==
  ASSUME NEW n \in Nat \ {0}, NEW S \in SUBSET Rows, NEW c \in SortedRDDs(S, n)
  PROVE  SortedParts(c, n) /\ Apart(c, n)
<1>1. PICK s \in SortedEnumerations(S),
           bs \in UNION {BoundariesOf(sample, n) : sample \in SUBSET S} :
             c = CutAt(s, bs, n)
  BY DEF SortedRDDs
<1>2. PICK sample \in SUBSET S : bs \in BoundariesOf(sample, n)
  OBVIOUS
<1>3. bs \in Seq(Int)
  <2>1. sample \in SUBSET Rows
    OBVIOUS
  <2>2. QED BY <1>2, <2>1, BoundariesAreKeys
<1>4. ASSUME NEW p \in PartsOf(n) PROVE IsPartition(c[p], p, bs)
  BY <1>1, <1>3, CutIsPartition
<1>5. c = [p \in PartsOf(n) |-> c[p]]
  BY <1>1 DEF CutAt
<1>6. SortedParts(c, n)
  <2>1. \A p \in PartsOf(n) :
          c[p] \in Seq(Rows) /\ IsEnumerationOf(c[p], ToSet(c[p])) /\ InOrder(c[p])
    BY <1>4 DEF IsPartition
  <2>2. QED BY <1>5, <2>1 DEF SortedParts
<1>7. Apart(c, n)
  <2> SUFFICES ASSUME NEW p \in PartsOf(n), NEW q \in PartsOf(n), p < q,
                      NEW x \in ToSet(c[p]), NEW y \in ToSet(c[q])
               PROVE  Key[x] < Key[y]
    BY DEF Apart
  <2>1. p \in Nat /\ q \in Nat
    BY PartsAreNaturals
  <2>2. QED BY <1>3, <1>4, <2>1, PartitionsApart
<1>8. QED BY <1>6, <1>7

(* A row is in one partition only. *)
LEMMA OnePartition ==
  ASSUME NEW n \in Nat, NEW c, SortedParts(c, n), Apart(c, n),
         NEW p \in PartsOf(n), NEW q \in PartsOf(n), NEW x,
         x \in ToSet(c[p]), x \in ToSet(c[q])
  PROVE  p = q
<1>1. p \in Int /\ q \in Int
  BY PartsAreNaturals
<1>2. Key[x] \in Int
  BY RowsOfParts, RowsAssumption
<1>3. ~ (p < q) /\ ~ (q < p)
  <2>1. /\ p < q => Key[x] < Key[x]
        /\ q < p => Key[x] < Key[x]
    BY DEF Apart
  <2>2. QED BY <1>2, <2>1
<1>4. QED BY <1>1, <1>3

(* A partition computed again, perhaps in another order.                   *)
LEMMA ComputedAgain ==
  ASSUME NEW n, NEW c, SortedParts(c, n), Apart(c, n), NEW p \in PartsOf(n),
         NEW s \in SortedEnumerations(ToSet(c[p])),
         NEW d \in [PartsOf(n) -> Seq(Rows)],
         \A q \in PartsOf(n) : d[q] = IF q = p THEN s ELSE c[q]
  PROVE  /\ SortedParts(d, n) /\ Apart(d, n)
         /\ \A q \in PartsOf(n) : ToSet(d[q]) = ToSet(c[q])
<1>1. ToSet(c[p]) \in SUBSET Rows
  BY RowsOfParts
<1>2. /\ s \in Seq(Rows) /\ InOrder(s) /\ ToSet(s) = ToSet(c[p])
      /\ IsEnumerationOf(s, ToSet(s))
  BY <1>1, SortedFacts
<1>3. ASSUME NEW q \in PartsOf(n)
      PROVE  /\ ToSet(d[q]) = ToSet(c[q])
             /\ IsEnumerationOf(d[q], ToSet(d[q])) /\ InOrder(d[q])
  <2>1. CASE q = p
    BY <1>2, <2>1
  <2>2. CASE q # p
    <3>1. d[q] = c[q]
      BY <2>2
    <3>2. IsEnumerationOf(c[q], ToSet(c[q])) /\ InOrder(c[q])
      BY DEF SortedParts
    <3>3. QED BY <3>1, <3>2
  <2>3. QED BY <2>1, <2>2
<1>4. QED BY <1>3 DEF SortedParts, Apart
=============================================================================
