------------------------ MODULE ExternalSortProofs ------------------------
(***************************************************************************)
(* The external merge sort of ExternalSort, proved for any rows and keys,  *)
(* any number of blocks of any length, and any number of runs merged at a  *)
(* time. What the writers and the readers of RowIO hold is first reduced   *)
(* to sequences of rows: a writer holds the rows appended since it was     *)
(* finished last, whatever blocks they are in, and a reader holds the rows *)
(* it has not read yet. The actions then move rows between such sequences, *)
(* each row from one place to one place.                                   *)
(***************************************************************************)
EXTENDS ExternalSort, SequenceTheorems, FiniteSetTheorems, CommonLemmas

---------------------------------------------------------------------------
(* Where a row is. *)

InBlock(p, x, B) == \E b \in DOMAIN B : x \in B[b] /\ p = <<"block", b, 0>>

InRuns(t, p, x, U) ==
  \E i \in DOMAIN U : \E j \in 1 .. Len(U[i]) : U[i][j] = x /\ p = <<t, i, j>>

InQueue(p, x, Q) == \E i \in DOMAIN Q : Q[i] = x /\ p = <<"queue", i, 0>>

InOpen(p, x, O) == \E j \in 1 .. Len(O) : O[j] = x /\ p = <<"open", 0, j>>

(* p is a place of x, given the blocks to sort, the runs read and written, *)
(* the queue and the open run.                                             *)
IsPlace(p, x, B, U, W, Q, O) ==
  InBlock(p, x, B) \/ InRuns("r", p, x, U) \/ InRuns("w", p, x, W)
    \/ InQueue(p, x, Q) \/ InOpen(p, x, O)

OnePlace(x, B, U, W, Q, O) == \E p : \A q : IsPlace(q, x, B, U, W, Q, O) <=> q = p

(* The blocks that are still to be sorted.                                 *)
Unsorted == [b \in sorted + 1 .. Len(blocks) |-> blocks[b]]

UnreadRows(rds) == [i \in 1 .. Len(rds) |-> unread(rds[i])]

RunRows(runs) == [i \in 1 .. Len(runs) |-> FlattenSeq(runs[i])]

(* Row x is in exactly one place.                                          *)
Placed(x) == OnePlace(x, Unsorted, UnreadRows(r), RunRows(w.runs), queue, OpenRun)

(* These are the places of RowsConserved.                                  *)
LEMMA PlacesAre ==
  \A x, p : p \in Places(x)
             <=> IsPlace(p, x, Unsorted, UnreadRows(r), RunRows(w.runs), queue, OpenRun)
<1> SUFFICES ASSUME NEW x, NEW p
             PROVE  p \in Places(x)
                      <=> IsPlace(p, x, Unsorted, UnreadRows(r), RunRows(w.runs), queue, OpenRun)
  OBVIOUS
<1>1. p \in {<<"block", b, 0>> : b \in {c \in sorted + 1 .. Len(blocks) : x \in blocks[c]}}
        <=> InBlock(p, x, Unsorted)
  BY Zenon DEF InBlock, Unsorted
<1>2. p \in UNION {{<<"r", i, j>> : j \in At(x, unread(r[i]))} : i \in 1 .. Len(r)}
        <=> InRuns("r", p, x, UnreadRows(r))
  <2>1. /\ DOMAIN UnreadRows(r) = 1 .. Len(r)
        /\ \A i \in 1 .. Len(r) : UnreadRows(r)[i] = unread(r[i])
    BY Zenon DEF UnreadRows
  <2>2. p \in UNION {{<<"r", i, j>> : j \in At(x, unread(r[i]))} : i \in 1 .. Len(r)}
          <=> \E i \in 1 .. Len(r) : \E j \in At(x, unread(r[i])) : p = <<"r", i, j>>
    OBVIOUS
  <2>3. QED BY <2>1, <2>2, Zenon DEF InRuns, At
<1>3. p \in UNION {{<<"w", i, j>> : j \in At(x, FlattenSeq(w.runs[i]))}
                     : i \in 1 .. Len(w.runs)}
        <=> InRuns("w", p, x, RunRows(w.runs))
  <2>1. /\ DOMAIN RunRows(w.runs) = 1 .. Len(w.runs)
        /\ \A i \in 1 .. Len(w.runs) : RunRows(w.runs)[i] = FlattenSeq(w.runs[i])
    BY Zenon DEF RunRows
  <2>2. p \in UNION {{<<"w", i, j>> : j \in At(x, FlattenSeq(w.runs[i]))} : i \in 1 .. Len(w.runs)}
          <=> \E i \in 1 .. Len(w.runs) : \E j \in At(x, FlattenSeq(w.runs[i])) : p = <<"w", i, j>>
    OBVIOUS
  <2>3. QED BY <2>1, <2>2, Zenon DEF InRuns, At
<1>4. p \in {<<"queue", i, 0>> : i \in {j \in DOMAIN queue : queue[j] = x}}
        <=> InQueue(p, x, queue)
  BY Zenon DEF InQueue
<1>5. p \in {<<"open", 0, j>> : j \in At(x, OpenRun)} <=> InOpen(p, x, OpenRun)
  BY Zenon DEF InOpen, At
<1>6. QED BY <1>1, <1>2, <1>3, <1>4, <1>5, Zenon DEF Places, IsPlace

(* Places are equal only if they are of one kind and their numbers agree.  *)
LEMMA Triples ==
  /\ \A a, i, j, k, l : <<a, i, j>> = <<a, k, l>> => i = k /\ j = l
  /\ \A i, j, k, l :
       /\ <<"block", i, j>> # <<"r", k, l>> /\ <<"block", i, j>> # <<"w", k, l>>
       /\ <<"block", i, j>> # <<"queue", k, l>> /\ <<"block", i, j>> # <<"open", k, l>>
       /\ <<"r", i, j>> # <<"w", k, l>> /\ <<"r", i, j>> # <<"queue", k, l>>
       /\ <<"r", i, j>> # <<"open", k, l>> /\ <<"w", i, j>> # <<"queue", k, l>>
       /\ <<"w", i, j>> # <<"open", k, l>> /\ <<"queue", i, j>> # <<"open", k, l>>
OBVIOUS

(* A sorted block becomes a run.                                           *)
LEMMA BlockMoves ==
  ASSUME NEW S, NEW x, NEW B, NEW U, NEW W \in Seq(Seq(S)), NEW Q, NEW O,
         NEW s \in Seq(S), NEW b \in DOMAIN B, IsEnumerationOf(s, B[b]),
         OnePlace(x, B, U, W, Q, O)
  PROVE  OnePlace(x, [c \in DOMAIN B \ {b} |-> B[c]], U, Append(W, s), Q, O)
<1> DEFINE C == [c \in DOMAIN B \ {b} |-> B[c]]
           X == Append(W, s)
           n == Len(W) + 1
<1>1. /\ DOMAIN C = DOMAIN B \ {b}
      /\ \A c \in DOMAIN C : C[c] = B[c]
  OBVIOUS
<1>2. /\ DOMAIN X = 1 .. n /\ X[n] = s
      /\ DOMAIN W = 1 .. Len(W) /\ n \in 1 .. n
      /\ \A i \in 1 .. Len(W) : i \in 1 .. n /\ i # n /\ X[i] = W[i]
      /\ \A i \in 1 .. n : i # n => i \in 1 .. Len(W)
  OBVIOUS
<1>3. /\ x \in B[b] => \E j \in 1 .. Len(s) : s[j] = x
      /\ \A j \in 1 .. Len(s) : s[j] \in B[b]
      /\ \A j, k \in 1 .. Len(s) : s[j] = s[k] => j = k
  BY DEF IsEnumerationOf
<1> DEFINE at == CHOOSE j \in 1 .. Len(s) : s[j] = x
           F(p) == IF p = <<"block", b, 0>> THEN <<"w", n, at>> ELSE p
<1>4. x \in B[b] => at \in 1 .. Len(s) /\ s[at] = x
  BY <1>3
<1>5. \A j \in 1 .. Len(s) : s[j] = x => x \in B[b] /\ j = at
  BY <1>3, <1>4, Zenon
<1> HIDE DEF C, X, n, at
<1>10. /\ \A t, y, V, p : t \in {"r", "w"} /\ InRuns(t, p, y, V) => F(p) = p
       /\ \A p : InQueue(p, x, Q) \/ InOpen(p, x, O) => F(p) = p
  <2>1. \A t, i, j : t \in {"r", "w", "queue", "open"} => <<t, i, j>> # <<"block", b, 0>>
    BY Triples
  <2>2. QED BY <2>1 DEF InRuns, InQueue, InOpen
<1>6. ASSUME NEW p, IsPlace(p, x, B, U, W, Q, O) PROVE IsPlace(F(p), x, C, U, X, Q, O)
  <2>1. CASE InBlock(p, x, B)
    <3>1. PICK c \in DOMAIN B : x \in B[c] /\ p = <<"block", c, 0>>
      BY <2>1, Zenon DEF InBlock
    <3>2. CASE c = b
      <4>1. F(p) = <<"w", n, at>> /\ x \in B[b]
        BY <3>1, <3>2, Zenon
      <4>2. InRuns("w", <<"w", n, at>>, x, X)
        BY <1>2, <1>4, <4>1, Zenon DEF InRuns
      <4>3. QED BY <4>1, <4>2, Zenon DEF IsPlace
    <3>3. CASE c # b
      <4>1. F(p) = p
        BY <3>1, <3>3, Triples, Zenon
      <4>2. InBlock(p, x, C)
        BY <1>1, <3>1, <3>3, Zenon DEF InBlock
      <4>3. QED BY <4>1, <4>2, Zenon DEF IsPlace
    <3>4. QED BY <3>2, <3>3
  <2>2. CASE InRuns("w", p, x, W)
    <3>1. PICK i \in DOMAIN W : \E j \in 1 .. Len(W[i]) : W[i][j] = x /\ p = <<"w", i, j>>
      BY <2>2, Zenon DEF InRuns
    <3>2. F(p) = p
      BY <1>10, <2>2
    <3>3. i \in DOMAIN X /\ X[i] = W[i]
      BY <1>2, Zenon
    <3>4. InRuns("w", p, x, X)
      BY <3>1, <3>3, Zenon DEF InRuns
    <3>5. QED BY <3>2, <3>4, Zenon DEF IsPlace
  <2>3. CASE InRuns("r", p, x, U) \/ InQueue(p, x, Q) \/ InOpen(p, x, O)
    <3>1. F(p) = p
      BY <1>10, <2>3
    <3>2. QED BY <2>3, <3>1, Zenon DEF IsPlace
  <2>4. QED BY <1>6, <2>1, <2>2, <2>3, Zenon DEF IsPlace
<1>7. ASSUME NEW q, IsPlace(q, x, C, U, X, Q, O)
      PROVE  \E p : IsPlace(p, x, B, U, W, Q, O) /\ q = F(p)
  <2>1. CASE InBlock(q, x, C)
    <3>1. PICK c \in DOMAIN C : x \in C[c] /\ q = <<"block", c, 0>>
      BY <2>1, Zenon DEF InBlock
    <3>2. c \in DOMAIN B /\ c # b /\ x \in B[c]
      BY <1>1, <3>1, Zenon
    <3>3. F(q) = q
      BY <3>1, <3>2, Triples, Zenon
    <3>4. InBlock(q, x, B)
      BY <3>1, <3>2, Zenon DEF InBlock
    <3>5. QED BY <3>3, <3>4, Zenon DEF IsPlace
  <2>2. CASE InRuns("w", q, x, X)
    <3>1. PICK i \in 1 .. n : \E j \in 1 .. Len(X[i]) : X[i][j] = x /\ q = <<"w", i, j>>
      BY <1>2, <2>2, Zenon DEF InRuns
    <3>2. CASE i = n
      <4> PICK j \in 1 .. Len(X[i]) : X[i][j] = x /\ q = <<"w", i, j>>
        BY <3>1
      <4>1. x \in B[b] /\ j = at /\ q = <<"w", n, at>>
        BY <1>2, <1>5, <3>1, <3>2, Zenon
      <4>2. InBlock(<<"block", b, 0>>, x, B)
        BY <4>1, Zenon DEF InBlock
      <4>3. q = F(<<"block", b, 0>>)
        BY <4>1, Zenon
      <4>4. QED BY <4>2, <4>3, Zenon DEF IsPlace
    <3>3. CASE i # n
      <4>1. i \in DOMAIN W /\ X[i] = W[i]
        BY <1>2, <3>3, Zenon
      <4>2. InRuns("w", q, x, W)
        BY <3>1, <4>1, Zenon DEF InRuns
      <4>3. F(q) = q
        BY <1>10, <2>2
      <4>4. QED BY <4>2, <4>3, Zenon DEF IsPlace
    <3>4. QED BY <3>2, <3>3
  <2>3. CASE InRuns("r", q, x, U) \/ InQueue(q, x, Q) \/ InOpen(q, x, O)
    <3>1. F(q) = q
      BY <1>10, <2>3
    <3>2. QED BY <2>3, <3>1, Zenon DEF IsPlace
  <2>4. \/ InBlock(q, x, C) \/ InRuns("w", q, x, X)
        \/ InRuns("r", q, x, U) \/ InQueue(q, x, Q) \/ InOpen(q, x, O)
    BY <1>7, Zenon DEF IsPlace
  <2>5. QED BY <2>1, <2>2, <2>3, <2>4, Zenon
<1>8. OnePlace(x, C, U, X, Q, O)
  <2>1. PICK p : \A q : IsPlace(q, x, B, U, W, Q, O) <=> q = p
    BY Zenon DEF OnePlace
  <2>2. PICK z : z = F(p)
    OBVIOUS
  <2>3. IsPlace(z, x, C, U, X, Q, O)
    BY <1>6, <2>1, <2>2, Zenon
  <2>4. ASSUME NEW q, IsPlace(q, x, C, U, X, Q, O) PROVE q = z
    <3>1. PICK y : IsPlace(y, x, B, U, W, Q, O) /\ q = F(y)
      BY <1>7, <2>4
    <3>2. y = p
      BY <2>1, <3>1
    <3>3. QED BY <2>2, <3>1, <3>2
  <2>5. QED BY <2>3, <2>4, Zenon DEF OnePlace
<1>9. QED BY <1>8 DEF C, X

(* The written runs become the runs to read.                               *)
LEMMA RunsMove ==
  ASSUME NEW x, NEW B, NEW U, NEW W, NEW Q,
         DOMAIN B = {}, \A i \in DOMAIN U : U[i] = <<>>, DOMAIN Q = {},
         OnePlace(x, B, U, W, Q, <<>>)
  PROVE  OnePlace(x, B, W, <<>>, Q, <<>>)
<1>1. \A q : ~ InBlock(q, x, B) /\ ~ InRuns("r", q, x, U) /\ ~ InQueue(q, x, Q)
               /\ ~ InOpen(q, x, <<>>) /\ ~ InRuns("w", q, x, <<>>)
  BY DEF InBlock, InRuns, InQueue, InOpen
<1>2. \A q : IsPlace(q, x, B, U, W, Q, <<>>) <=> InRuns("w", q, x, W)
  BY <1>1 DEF IsPlace
<1>3. \A q : IsPlace(q, x, B, W, <<>>, Q, <<>>) <=> InRuns("r", q, x, W)
  BY <1>1 DEF IsPlace
<1>4. PICK p : \A q : InRuns("w", q, x, W) <=> q = p
  <2>1. PICK p : \A q : IsPlace(q, x, B, U, W, Q, <<>>) <=> q = p
    BY Zenon DEF OnePlace
  <2>2. \A q : InRuns("w", q, x, W) <=> q = p
    BY <1>2, <2>1
  <2>3. QED BY <2>2
<1>5. PICK i \in DOMAIN W : \E j \in 1 .. Len(W[i]) : W[i][j] = x /\ p = <<"w", i, j>>
  BY <1>4, Zenon DEF InRuns
<1>6. PICK j \in 1 .. Len(W[i]) : W[i][j] = x /\ p = <<"w", i, j>>
  BY <1>5
<1>7. InRuns("r", <<"r", i, j>>, x, W)
  BY <1>6, Zenon DEF InRuns
<1>8. ASSUME NEW q, InRuns("r", q, x, W) PROVE q = <<"r", i, j>>
  <2>1. PICK k \in DOMAIN W : \E l \in 1 .. Len(W[k]) : W[k][l] = x /\ q = <<"r", k, l>>
    BY <1>8, Zenon DEF InRuns
  <2>2. PICK l \in 1 .. Len(W[k]) : W[k][l] = x /\ q = <<"r", k, l>>
    BY <2>1
  <2>3. InRuns("w", <<"w", k, l>>, x, W)
    BY <2>2, Zenon DEF InRuns
  <2>4. <<"w", k, l>> = <<"w", i, j>>
    BY <1>4, <1>6, <2>3, Zenon
  <2>5. QED BY <2>2, <2>4, Triples, Zenon
<1>9. QED BY <1>3, <1>7, <1>8, Zenon DEF OnePlace

(* The first row of each of the runs G is read, and goes to the queue.     *)
HeadsRead(S, G, U, V, Q, R) ==
  /\ G \subseteq DOMAIN U /\ DOMAIN V = DOMAIN U
  /\ G \cap DOMAIN Q = {} /\ DOMAIN R = DOMAIN Q \cup G
  /\ \A i \in DOMAIN Q : R[i] = Q[i]
  /\ \A i \in G : R[i] \in S /\ V[i] \in Seq(S) /\ U[i] = <<R[i]>> \o V[i]
  /\ \A i \in DOMAIN U \ G : V[i] = U[i]

(* So each row stays in one place.                                         *)
LEMMA HeadsMove ==
  ASSUME NEW S, NEW x, NEW B, NEW U, NEW W, NEW Q, NEW O, NEW V, NEW R, NEW G,
         HeadsRead(S, G, U, V, Q, R), OnePlace(x, B, U, W, Q, O)
  PROVE  OnePlace(x, B, V, W, R, O)
<1> USE DEF HeadsRead
<1> DEFINE F(p) == IF p[1] = "r" /\ p[2] \in G
                     THEN IF p[3] = 1 THEN <<"queue", p[2], 0>>
                                      ELSE <<"r", p[2], p[3] - 1>>
                     ELSE p
<1>1. /\ \A i, j : <<"r", i, j>>[1] = "r" /\ <<"r", i, j>>[2] = i /\ <<"r", i, j>>[3] = j
      /\ \A i, j : <<"w", i, j>>[1] # "r"
      /\ \A i, j : <<"queue", i, j>>[1] # "r"
      /\ \A i, j : <<"open", i, j>>[1] # "r"
      /\ \A i, j : <<"block", i, j>>[1] # "r"
  OBVIOUS
<1>2. /\ \A i, j : i \in G /\ j = 1 => F(<<"r", i, j>>) = <<"queue", i, 0>>
      /\ \A i, j : i \in G /\ j # 1 => F(<<"r", i, j>>) = <<"r", i, j - 1>>
      /\ \A i, j : i \notin G => F(<<"r", i, j>>) = <<"r", i, j>>
  BY <1>1
<1>3. \A p : InBlock(p, x, B) \/ InRuns("w", p, x, W) \/ InQueue(p, x, Q)
                \/ InQueue(p, x, R) \/ InOpen(p, x, O) => F(p) = p
  BY <1>1 DEF InBlock, InRuns, InQueue, InOpen
<1>4. ASSUME NEW i \in G
      PROVE  /\ Len(U[i]) = Len(V[i]) + 1 /\ Len(V[i]) \in Nat
             /\ U[i][1] = R[i]
             /\ \A j \in 1 .. Len(V[i]) : U[i][j + 1] = V[i][j]
  <2>1. R[i] \in S /\ V[i] \in Seq(S) /\ U[i] = <<R[i]>> \o V[i]
    OBVIOUS
  <2>2. \A y \in S, v \in Seq(S) :
          /\ Len(<<y>> \o v) = Len(v) + 1 /\ Len(v) \in Nat
          /\ (<<y>> \o v)[1] = y
          /\ \A j \in 1 .. Len(v) : (<<y>> \o v)[j + 1] = v[j]
    OBVIOUS
  <2>3. /\ Len(<<R[i]>> \o V[i]) = Len(V[i]) + 1 /\ Len(V[i]) \in Nat
        /\ (<<R[i]>> \o V[i])[1] = R[i]
        /\ \A j \in 1 .. Len(V[i]) : (<<R[i]>> \o V[i])[j + 1] = V[i][j]
    BY <2>1, <2>2, Zenon
  <2>4. QED BY <2>1, <2>3, Zenon
<1>5. ASSUME NEW p, IsPlace(p, x, B, U, W, Q, O) PROVE IsPlace(F(p), x, B, V, W, R, O)
  <2>1. CASE InRuns("r", p, x, U)
    <3>1. PICK i \in DOMAIN U : \E j \in 1 .. Len(U[i]) : U[i][j] = x /\ p = <<"r", i, j>>
      BY <2>1, Zenon DEF InRuns
    <3>2. PICK j \in 1 .. Len(U[i]) : U[i][j] = x /\ p = <<"r", i, j>>
      BY <3>1
    <3>3. CASE i \in G /\ j = 1
      <4>1. F(p) = <<"queue", i, 0>> /\ R[i] = x /\ i \in DOMAIN R
        BY <1>2, <1>4, <3>2, <3>3
      <4>2. InQueue(<<"queue", i, 0>>, x, R)
        BY <4>1, Zenon DEF InQueue
      <4>3. QED BY <4>1, <4>2, Zenon DEF IsPlace
    <3>4. CASE i \in G /\ j # 1
      <4>1. j - 1 \in 1 .. Len(V[i]) /\ (j - 1) + 1 = j
        BY <1>4, <3>2, <3>4
      <4>2. F(p) = <<"r", i, j - 1>> /\ V[i][j - 1] = x /\ i \in DOMAIN V
        BY <1>2, <1>4, <3>2, <3>4, <4>1
      <4>3. InRuns("r", <<"r", i, j - 1>>, x, V)
        BY <4>1, <4>2, Zenon DEF InRuns
      <4>4. QED BY <4>2, <4>3, Zenon DEF IsPlace
    <3>5. CASE i \notin G
      <4>1. F(p) = p /\ V[i] = U[i] /\ i \in DOMAIN V
        BY <1>2, <3>2, <3>5
      <4>2. InRuns("r", p, x, V)
        BY <3>1, <4>1, Zenon DEF InRuns
      <4>3. QED BY <4>1, <4>2, Zenon DEF IsPlace
    <3>6. QED BY <3>3, <3>4, <3>5
  <2>2. CASE InQueue(p, x, Q)
    <3>1. F(p) = p /\ InQueue(p, x, R)
      BY <1>3, <2>2 DEF InQueue
    <3>2. QED BY <3>1, Zenon DEF IsPlace
  <2>3. CASE InBlock(p, x, B) \/ InRuns("w", p, x, W) \/ InOpen(p, x, O)
    <3>1. F(p) = p
      BY <1>3, <2>3
    <3>2. QED BY <2>3, <3>1, Zenon DEF IsPlace
  <2>4. QED BY <1>5, <2>1, <2>2, <2>3, Zenon DEF IsPlace
<1>6. ASSUME NEW q, IsPlace(q, x, B, V, W, R, O)
      PROVE  \E p : IsPlace(p, x, B, U, W, Q, O) /\ q = F(p)
  <2>1. CASE InRuns("r", q, x, V)
    <3>1. PICK i \in DOMAIN V : \E j \in 1 .. Len(V[i]) : V[i][j] = x /\ q = <<"r", i, j>>
      BY <2>1, Zenon DEF InRuns
    <3>2. PICK j \in 1 .. Len(V[i]) : V[i][j] = x /\ q = <<"r", i, j>>
      BY <3>1
    <3>3. CASE i \in G
      <4>1. j + 1 \in 1 .. Len(U[i]) /\ j + 1 # 1 /\ (j + 1) - 1 = j /\ U[i][j + 1] = x
        BY <1>4, <3>2, <3>3
      <4>2. F(<<"r", i, j + 1>>) = <<"r", i, (j + 1) - 1>>
        BY <1>2, <3>3, <4>1, Zenon
      <4>3. q = F(<<"r", i, j + 1>>) /\ i \in DOMAIN U
        BY <3>2, <4>1, <4>2
      <4>4. InRuns("r", <<"r", i, j + 1>>, x, U)
        BY <4>1, <4>3, Zenon DEF InRuns
      <4>5. QED BY <4>3, <4>4, Zenon DEF IsPlace
    <3>4. CASE i \notin G
      <4>1. F(q) = q /\ V[i] = U[i] /\ i \in DOMAIN U
        BY <1>2, <3>2, <3>4
      <4>2. InRuns("r", q, x, U)
        BY <3>1, <4>1, Zenon DEF InRuns
      <4>3. QED BY <4>1, <4>2, Zenon DEF IsPlace
    <3>5. QED BY <3>3, <3>4
  <2>2. CASE InQueue(q, x, R)
    <3>1. PICK i \in DOMAIN R : R[i] = x /\ q = <<"queue", i, 0>>
      BY <2>2, Zenon DEF InQueue
    <3>2. CASE i \in G
      <4>1. 1 \in 1 .. Len(U[i]) /\ U[i][1] = x /\ i \in DOMAIN U
        BY <1>4, <3>1, <3>2
      <4>2. InRuns("r", <<"r", i, 1>>, x, U)
        BY <4>1, Zenon DEF InRuns
      <4>3. q = F(<<"r", i, 1>>)
        BY <1>2, <3>1, <3>2, Zenon
      <4>4. QED BY <4>2, <4>3, Zenon DEF IsPlace
    <3>3. CASE i \notin G
      <4>1. i \in DOMAIN Q /\ Q[i] = x
        BY <3>1, <3>3
      <4>2. InQueue(q, x, Q)
        BY <3>1, <4>1, Zenon DEF InQueue
      <4>3. F(q) = q
        BY <1>3, <4>2, Zenon
      <4>4. QED BY <4>2, <4>3, Zenon DEF IsPlace
    <3>4. QED BY <3>2, <3>3
  <2>3. CASE InBlock(q, x, B) \/ InRuns("w", q, x, W) \/ InOpen(q, x, O)
    <3>1. F(q) = q
      BY <1>3, <2>3
    <3>2. QED BY <2>3, <3>1, Zenon DEF IsPlace
  <2>4. \/ InRuns("r", q, x, V) \/ InQueue(q, x, R)
        \/ InBlock(q, x, B) \/ InRuns("w", q, x, W) \/ InOpen(q, x, O)
    BY <1>6, Zenon DEF IsPlace
  <2>5. QED BY <2>1, <2>2, <2>3, <2>4, Zenon
<1>7. QED
  <2>1. PICK p : \A q : IsPlace(q, x, B, U, W, Q, O) <=> q = p
    BY Zenon DEF OnePlace
  <2>2. PICK z : z = F(p)
    OBVIOUS
  <2>3. IsPlace(z, x, B, V, W, R, O)
    BY <1>5, <2>1, <2>2, Zenon
  <2>4. ASSUME NEW q, IsPlace(q, x, B, V, W, R, O) PROVE q = z
    <3>1. PICK y : IsPlace(y, x, B, U, W, Q, O) /\ q = F(y)
      BY <1>6, <2>4
    <3>2. y = p
      BY <2>1, <3>1
    <3>3. QED BY <2>2, <3>1, <3>2
  <2>5. QED BY <2>3, <2>4, Zenon DEF OnePlace

(* A row of the queue goes to the end of the open run.                     *)
LEMMA TopMoves ==
  ASSUME NEW S, NEW x, NEW B, NEW U, NEW W, NEW Q, NEW O \in Seq(S), NEW R, NEW i \in DOMAIN Q,
         Q[i] \in S, DOMAIN R = DOMAIN Q \ {i}, \A k \in DOMAIN R : R[k] = Q[k],
         OnePlace(x, B, U, W, Q, O)
  PROVE  OnePlace(x, B, U, W, R, Append(O, Q[i]))
<1> DEFINE n == Len(O) + 1
           P == Append(O, Q[i])
           F(p) == IF p = <<"queue", i, 0>> THEN <<"open", 0, n>> ELSE p
<1>1. /\ n \in Nat /\ Len(P) = n /\ P[n] = Q[i] /\ n \in 1 .. n /\ n \notin 1 .. Len(O)
      /\ \A j \in 1 .. Len(O) : P[j] = O[j] /\ j \in 1 .. n
      /\ \A j \in 1 .. n : j # n => j \in 1 .. Len(O)
  OBVIOUS
<1> HIDE DEF n, P
<1>2. \A p : InBlock(p, x, B) \/ InRuns("r", p, x, U) \/ InRuns("w", p, x, W)
                \/ InQueue(p, x, R) \/ InOpen(p, x, O) => F(p) = p
  <2>1. /\ \A t, k, j : t \in {"r", "w", "block", "open"} => <<t, k, j>> # <<"queue", i, 0>>
        /\ \A k : k # i => <<"queue", k, 0>> # <<"queue", i, 0>>
    BY Triples
  <2>2. QED BY <2>1 DEF InRuns, InQueue, InOpen, InBlock
<1>3. ASSUME NEW p, IsPlace(p, x, B, U, W, Q, O) PROVE IsPlace(F(p), x, B, U, W, R, P)
  <2>1. CASE InQueue(p, x, Q)
    <3>1. PICK k \in DOMAIN Q : Q[k] = x /\ p = <<"queue", k, 0>>
      BY <2>1, Zenon DEF InQueue
    <3>2. CASE k = i
      <4>1. F(p) = <<"open", 0, n>> /\ P[n] = x
        BY <1>1, <3>1, <3>2
      <4>2. InOpen(<<"open", 0, n>>, x, P)
        BY <1>1, <4>1, Zenon DEF InOpen
      <4>3. QED BY <4>1, <4>2, Zenon DEF IsPlace
    <3>3. CASE k # i
      <4>1. InQueue(p, x, R)
        BY <3>1, <3>3 DEF InQueue
      <4>2. QED BY <1>2, <4>1, Zenon DEF IsPlace
    <3>4. QED BY <3>2, <3>3
  <2>2. CASE InOpen(p, x, O)
    <3>1. InOpen(p, x, P)
      BY <1>1, <2>2, Zenon DEF InOpen
    <3>2. QED BY <1>2, <2>2, <3>1, Zenon DEF IsPlace
  <2>3. CASE InBlock(p, x, B) \/ InRuns("r", p, x, U) \/ InRuns("w", p, x, W)
    <3>1. F(p) = p
      BY <1>2, <2>3
    <3>2. QED BY <2>3, <3>1, Zenon DEF IsPlace
  <2>4. QED BY <1>3, <2>1, <2>2, <2>3, Zenon DEF IsPlace
<1>4. ASSUME NEW q, IsPlace(q, x, B, U, W, R, P)
      PROVE  \E p : IsPlace(p, x, B, U, W, Q, O) /\ q = F(p)
  <2>1. CASE InOpen(q, x, P)
    <3>1. PICK j \in 1 .. n : P[j] = x /\ q = <<"open", 0, j>>
      BY <1>1, <2>1, Zenon DEF InOpen
    <3>2. CASE j = n
      <4>1. q = F(<<"queue", i, 0>>) /\ Q[i] = x
        BY <1>1, <3>1, <3>2
      <4>2. InQueue(<<"queue", i, 0>>, x, Q)
        BY <4>1, Zenon DEF InQueue
      <4>3. QED BY <4>1, <4>2, Zenon DEF IsPlace
    <3>3. CASE j # n
      <4>1. InOpen(q, x, O)
        BY <1>1, <3>1, <3>3, Zenon DEF InOpen
      <4>2. F(q) = q
        BY <1>2, <4>1
      <4>3. QED BY <4>1, <4>2, Zenon DEF IsPlace
    <3>4. QED BY <3>2, <3>3
  <2>2. CASE InQueue(q, x, R)
    <3>1. F(q) = q /\ InQueue(q, x, Q)
      BY <1>2, <2>2 DEF InQueue
    <3>2. QED BY <3>1, Zenon DEF IsPlace
  <2>3. CASE InBlock(q, x, B) \/ InRuns("r", q, x, U) \/ InRuns("w", q, x, W)
    <3>1. F(q) = q
      BY <1>2, <2>3
    <3>2. QED BY <2>3, <3>1, Zenon DEF IsPlace
  <2>4. \/ InOpen(q, x, P) \/ InQueue(q, x, R)
        \/ InBlock(q, x, B) \/ InRuns("r", q, x, U) \/ InRuns("w", q, x, W)
    BY <1>4, Zenon DEF IsPlace
  <2>5. QED BY <2>1, <2>2, <2>3, <2>4, Zenon
<1>5. OnePlace(x, B, U, W, R, P)
  <2>1. PICK p : \A q : IsPlace(q, x, B, U, W, Q, O) <=> q = p
    BY Zenon DEF OnePlace
  <2>2. PICK z : z = F(p)
    OBVIOUS
  <2>3. IsPlace(z, x, B, U, W, R, P)
    BY <1>3, <2>1, <2>2, Zenon
  <2>4. ASSUME NEW q, IsPlace(q, x, B, U, W, R, P) PROVE q = z
    <3>1. PICK y : IsPlace(y, x, B, U, W, Q, O) /\ q = F(y)
      BY <1>4, <2>4
    <3>2. y = p
      BY <2>1, <3>1
    <3>3. QED BY <2>2, <3>1, <3>2
  <2>5. QED BY <2>3, <2>4, Zenon DEF OnePlace
<1>6. QED BY <1>5 DEF P

(* The open run is finished.                                               *)
LEMMA OpenMoves ==
  ASSUME NEW S, NEW x, NEW B, NEW U, NEW W \in Seq(Seq(S)), NEW Q, NEW O \in Seq(S),
         OnePlace(x, B, U, W, Q, O)
  PROVE  OnePlace(x, B, U, Append(W, O), Q, <<>>)
<1> DEFINE n == Len(W) + 1
           X == Append(W, O)
           F(p) == IF p[1] = "open" THEN <<"w", n, p[3]>> ELSE p
<1>1. /\ DOMAIN X = 1 .. n /\ X[n] = O
      /\ DOMAIN W = 1 .. Len(W) /\ n \in 1 .. n
      /\ \A i \in 1 .. Len(W) : i \in 1 .. n /\ i # n /\ X[i] = W[i]
      /\ \A i \in 1 .. n : i # n => i \in 1 .. Len(W)
  OBVIOUS
<1> HIDE DEF n, X
<1>2. /\ \A j : F(<<"open", 0, j>>) = <<"w", n, j>>
      /\ \A p : InBlock(p, x, B) \/ InRuns("r", p, x, U) \/ InRuns("w", p, x, W)
                   \/ InQueue(p, x, Q) => F(p) = p
  <2>1. /\ \A j : <<"open", 0, j>>[1] = "open" /\ <<"open", 0, j>>[3] = j
        /\ \A i, j : <<"w", i, j>>[1] # "open"
        /\ \A i, j : <<"r", i, j>>[1] # "open"
        /\ \A i, j : <<"queue", i, j>>[1] # "open"
        /\ \A i, j : <<"block", i, j>>[1] # "open"
    OBVIOUS
  <2>2. QED BY <2>1 DEF InRuns, InQueue, InBlock
<1>3. ASSUME NEW p, IsPlace(p, x, B, U, W, Q, O) PROVE IsPlace(F(p), x, B, U, X, Q, <<>>)
  <2>1. CASE InOpen(p, x, O)
    <3>1. PICK j \in 1 .. Len(O) : O[j] = x /\ p = <<"open", 0, j>>
      BY <2>1, Zenon DEF InOpen
    <3>2. F(p) = <<"w", n, j>> /\ X[n][j] = x /\ j \in 1 .. Len(X[n])
      BY <1>1, <1>2, <3>1
    <3>3. InRuns("w", <<"w", n, j>>, x, X)
      BY <1>1, <3>2, Zenon DEF InRuns
    <3>4. QED BY <3>2, <3>3, Zenon DEF IsPlace
  <2>2. CASE InRuns("w", p, x, W)
    <3>1. InRuns("w", p, x, X)
      BY <1>1, <2>2, Zenon DEF InRuns
    <3>2. QED BY <1>2, <2>2, <3>1, Zenon DEF IsPlace
  <2>3. CASE InBlock(p, x, B) \/ InRuns("r", p, x, U) \/ InQueue(p, x, Q)
    <3>1. F(p) = p
      BY <1>2, <2>3
    <3>2. QED BY <2>3, <3>1, Zenon DEF IsPlace
  <2>4. QED BY <1>3, <2>1, <2>2, <2>3, Zenon DEF IsPlace
<1>4. ASSUME NEW q, IsPlace(q, x, B, U, X, Q, <<>>)
      PROVE  \E p : IsPlace(p, x, B, U, W, Q, O) /\ q = F(p)
  <2>1. CASE InRuns("w", q, x, X)
    <3>1. PICK i \in 1 .. n : \E j \in 1 .. Len(X[i]) : X[i][j] = x /\ q = <<"w", i, j>>
      BY <1>1, <2>1, Zenon DEF InRuns
    <3>2. CASE i = n
      <4>1. PICK j \in 1 .. Len(X[i]) : X[i][j] = x /\ q = <<"w", i, j>>
        BY <3>1
      <4>2. InOpen(<<"open", 0, j>>, x, O)
        BY <1>1, <3>2, <4>1, Zenon DEF InOpen
      <4>3. q = F(<<"open", 0, j>>)
        BY <1>2, <3>2, <4>1
      <4>4. QED BY <4>2, <4>3, Zenon DEF IsPlace
    <3>3. CASE i # n
      <4>1. InRuns("w", q, x, W)
        <5>1. i \in DOMAIN W /\ X[i] = W[i]
          BY <1>1, <3>3, Zenon
        <5>2. QED BY <3>1, <5>1, Zenon DEF InRuns
      <4>2. F(q) = q
        BY <1>2, <4>1
      <4>3. QED BY <4>1, <4>2, Zenon DEF IsPlace
    <3>4. QED BY <3>2, <3>3
  <2>2. CASE InBlock(q, x, B) \/ InRuns("r", q, x, U) \/ InQueue(q, x, Q)
    <3>1. F(q) = q
      BY <1>2, <2>2
    <3>2. QED BY <2>2, <3>1, Zenon DEF IsPlace
  <2>3. ~ InOpen(q, x, <<>>)
    BY DEF InOpen
  <2>4. \/ InRuns("w", q, x, X)
        \/ InBlock(q, x, B) \/ InRuns("r", q, x, U) \/ InQueue(q, x, Q)
    BY <1>4, <2>3, Zenon DEF IsPlace
  <2>5. QED BY <2>1, <2>2, <2>4, Zenon
<1>5. OnePlace(x, B, U, X, Q, <<>>)
  <2>1. PICK p : \A q : IsPlace(q, x, B, U, W, Q, O) <=> q = p
    BY Zenon DEF OnePlace
  <2>2. PICK z : z = F(p)
    OBVIOUS
  <2>3. IsPlace(z, x, B, U, X, Q, <<>>)
    BY <1>3, <2>1, <2>2, Zenon
  <2>4. ASSUME NEW q, IsPlace(q, x, B, U, X, Q, <<>>) PROVE q = z
    <3>1. PICK y : IsPlace(y, x, B, U, W, Q, O) /\ q = F(y)
      BY <1>4, <2>4
    <3>2. y = p
      BY <2>1, <3>1
    <3>3. QED BY <2>2, <3>1, <3>2
  <2>5. QED BY <2>3, <2>4, Zenon DEF OnePlace
<1>6. QED BY <1>5 DEF X

---------------------------------------------------------------------------
(* Sorted sequences. *)

(* The order of the keys is transitive.                                    *)
LEMMA NotLess ==
  ASSUME NEW x \in Rows, NEW y \in Rows, NEW z \in Rows,
         ~ less_than(y, x), ~ less_than(z, y)
  PROVE  ~ less_than(z, x)
BY RowsAssumption DEF less_than

(* The rest of a sorted sequence is sorted, and not less than its first.   *)
LEMMA TailInOrder ==
  ASSUME NEW S, NEW y \in S, NEW s \in Seq(S), InOrder(<<y>> \o s)
  PROVE  /\ InOrder(s)
         /\ \A x \in ToSet(s) : ~ less_than(x, y)
<1> DEFINE t == <<y>> \o s
<1>1. /\ Len(t) = Len(s) + 1 /\ Len(s) \in Nat /\ t[1] = y
      /\ \A i \in 1 .. Len(s) : t[i + 1] = s[i]
  OBVIOUS
<1>2. \A i, j \in 1 .. Len(t) : i < j => ~ less_than(t[j], t[i])
  BY Zenon DEF InOrder
<1> HIDE DEF t
<1>3. ASSUME NEW i \in 1 .. Len(s), NEW j \in 1 .. Len(s), i < j
      PROVE  ~ less_than(s[j], s[i])
  <2>1. i + 1 \in 1 .. Len(t) /\ j + 1 \in 1 .. Len(t) /\ i + 1 < j + 1
    BY <1>1, <1>3
  <2>2. QED BY <1>1, <1>2, <2>1, Zenon
<1>4. ASSUME NEW i \in 1 .. Len(s) PROVE ~ less_than(s[i], y)
  <2>1. 1 \in 1 .. Len(t) /\ i + 1 \in 1 .. Len(t) /\ 1 < i + 1
    BY <1>1
  <2>2. QED BY <1>1, <1>2, <2>1, Zenon
<1>5. DOMAIN s = 1 .. Len(s)
  OBVIOUS
<1>6. QED BY <1>3, <1>4, <1>5, Zenon DEF InOrder, ToSet

(* A sorted sequence stays sorted if a row that is not less is appended.   *)
LEMMA AppendInOrder ==
  ASSUME NEW S, NEW y \in S, NEW s \in Seq(S), InOrder(s),
         \A x \in ToSet(s) : ~ less_than(y, x)
  PROVE  /\ InOrder(Append(s, y))
         /\ ToSet(Append(s, y)) = ToSet(s) \cup {y}
<1> DEFINE t == Append(s, y)
           n == Len(s) + 1
<1>1. /\ n \in Nat /\ Len(t) = n /\ t[n] = y
      /\ \A i \in 1 .. Len(s) : t[i] = s[i] /\ i \in 1 .. n
      /\ DOMAIN s = 1 .. Len(s) /\ DOMAIN t = 1 .. n
      /\ \A i \in 1 .. n : i = n \/ i \in 1 .. Len(s)
      /\ \A i, j \in 1 .. n : i < j => i \in 1 .. Len(s)
      /\ n \in 1 .. n
  OBVIOUS
<1> HIDE DEF t, n
<1>2. ASSUME NEW i \in 1 .. n, NEW j \in 1 .. n, i < j PROVE ~ less_than(t[j], t[i])
  <2>1. i \in 1 .. Len(s) /\ t[i] = s[i] /\ s[i] \in ToSet(s)
    BY <1>1, <1>2, Zenon DEF ToSet
  <2>2. CASE j = n
    BY <1>1, <2>1, <2>2, Zenon
  <2>3. CASE j \in 1 .. Len(s)
    <3>1. t[j] = s[j] /\ ~ less_than(s[j], s[i])
      BY <1>1, <1>2, <2>1, <2>3, Zenon DEF InOrder
    <3>2. QED BY <2>1, <3>1, Zenon
  <2>4. QED BY <1>1, <2>2, <2>3, Zenon
<1>3. InOrder(t)
  BY <1>1, <1>2, Zenon DEF InOrder
<1>4. ToSet(t) = ToSet(s) \cup {y}
  <2>1. ASSUME NEW x \in ToSet(t) PROVE x \in ToSet(s) \cup {y}
    BY <1>1, Zenon DEF ToSet
  <2>2. ASSUME NEW x \in ToSet(s) PROVE x \in ToSet(t)
    BY <1>1, Zenon DEF ToSet
  <2>3. y \in ToSet(t)
    BY <1>1, Zenon DEF ToSet
  <2>4. QED BY <2>1, <2>2, <2>3
<1>5. QED BY <1>3, <1>4, Zenon DEF t

---------------------------------------------------------------------------
(* The writer of sorted runs. *)

RunWriters(S) == [container : Writers(S), runs : Seq(Buffers(S))]

(* The rows of the runs are sequences, one for each run.                   *)
LEMMA RunRowsAre ==
  ASSUME NEW S, NEW runs \in Seq(Buffers(S)), NEW b \in Buffers(S)
  PROVE  /\ RunRows(runs) \in Seq(Seq(S))
         /\ RunRows(Append(runs, b)) = Append(RunRows(runs), FlattenSeq(b))
<1>1. \A i \in 1 .. Len(runs) : runs[i] \in Buffers(S)
  OBVIOUS
<1>2. \A i \in 1 .. Len(runs) : FlattenSeq(runs[i]) \in Seq(S)
  BY <1>1, BufferRows, Zenon
<1>3. FlattenSeq(b) \in Seq(S)
  BY BufferRows, Zenon
<1>4. Len(runs) \in Nat
  OBVIOUS
<1>5. RunRows(runs) \in Seq(Seq(S))
  <2> DEFINE U == [i \in 1 .. Len(runs) |-> FlattenSeq(runs[i])]
  <2>1. U \in [1 .. Len(runs) -> Seq(S)]
    BY <1>2
  <2>2. U \in Seq(Seq(S))
    <3> HIDE DEF U
    <3>1. QED BY <1>4, <2>1
  <2>3. QED BY <2>2, Zenon DEF RunRows
<1>6. /\ Len(Append(runs, b)) = Len(runs) + 1
      /\ \A i \in 1 .. Len(runs) : Append(runs, b)[i] = runs[i]
      /\ Append(runs, b)[Len(runs) + 1] = b
  OBVIOUS
<1>7. \A i \in 1 .. Len(runs) + 1 :
        FlattenSeq(Append(runs, b)[i]) =
          IF i <= Len(runs) THEN FlattenSeq(runs[i]) ELSE FlattenSeq(b)
  <2> TAKE i \in 1 .. Len(runs) + 1
  <2>1. CASE i <= Len(runs)
    <3>1. i \in 1 .. Len(runs)
      BY <1>4, <2>1
    <3>2. QED BY <1>6, <2>1, <3>1, Zenon
  <2>2. CASE ~ (i <= Len(runs))
    <3>1. i = Len(runs) + 1
      BY <1>4, <2>2
    <3>2. QED BY <1>6, <2>2, <3>1, Zenon
  <2>3. QED BY <2>1, <2>2
<1>8. RunRows(Append(runs, b)) = Append(RunRows(runs), FlattenSeq(b))
  <2> DEFINE U == [i \in 1 .. Len(runs) |-> FlattenSeq(runs[i])]
             V == [i \in 1 .. Len(runs) + 1 |->
                     IF i <= Len(runs) THEN FlattenSeq(runs[i]) ELSE FlattenSeq(b)]
  <2>1. RunRows(Append(runs, b)) = V
    BY <1>6, <1>7, Zenon DEF RunRows
  <2>2. /\ U \in Seq(Seq(S)) /\ Len(U) = Len(runs)
        /\ \A i \in 1 .. Len(runs) : U[i] = FlattenSeq(runs[i])
    <3>1. U \in Seq(Seq(S))
      BY <1>5, Zenon DEF RunRows
    <3>2. DOMAIN U = 1 .. Len(runs)
      OBVIOUS
    <3>3. Len(U) = Len(runs)
      <4> HIDE DEF U
      <4>1. QED BY <1>4, <3>1, <3>2
    <3>4. QED BY <3>1, <3>3
  <2> HIDE DEF U
  <2>3. V = Append(U, FlattenSeq(b))
    <3>1. Append(U, FlattenSeq(b)) = [i \in 1 .. Len(runs) + 1 |->
             IF i <= Len(runs) THEN U[i] ELSE FlattenSeq(b)]
      <4>1. ASSUME NEW T \in Seq(Seq(S)), NEW y \in Seq(S)
            PROVE  Append(T, y) = [i \in 1 .. Len(T) + 1 |->
                                     IF i <= Len(T) THEN T[i] ELSE y]
        <5> DEFINE A == Append(T, y)
        <5>1. /\ DOMAIN A = 1 .. Len(T) + 1 /\ A[Len(T) + 1] = y
              /\ \A i \in 1 .. Len(T) : A[i] = T[i]
              /\ A \in Seq(Seq(S)) /\ Len(T) \in Nat
          OBVIOUS
        <5> HIDE DEF A
        <5>2. A = [i \in DOMAIN A |-> A[i]]
          BY <5>1
        <5>3. \A i \in DOMAIN A : A[i] = IF i <= Len(T) THEN T[i] ELSE y
          BY <5>1
        <5>4. A = [i \in 1 .. Len(T) + 1 |-> IF i <= Len(T) THEN T[i] ELSE y]
          BY <5>1, <5>2, <5>3
        <5>5. QED BY <5>4 DEF A
      <4>2. Append(U, FlattenSeq(b)) = [i \in 1 .. Len(U) + 1 |->
              IF i <= Len(U) THEN U[i] ELSE FlattenSeq(b)]
        BY <1>3, <2>2, <4>1, Zenon
      <4>3. QED BY <2>2, <4>2, Zenon
    <3>2. \A i \in 1 .. Len(runs) + 1 :
            (IF i <= Len(runs) THEN U[i] ELSE FlattenSeq(b)) =
              IF i <= Len(runs) THEN FlattenSeq(runs[i]) ELSE FlattenSeq(b)
      BY <1>4, <2>2
    <3>3. QED BY <3>1, <3>2
  <2>4. QED BY <2>1, <2>3, Zenon DEF U, RunRows
<1>9. QED BY <1>5, <1>8, Zenon

(* Finishing a run makes a buffer of the rows of the open run.             *)
LEMMA FinishRunIs ==
  ASSUME NEW S, NEW v \in RunWriters(S)
  PROVE  /\ finish_run(v) \in RunWriters(S)
         /\ Written(finish_run(v).container) = <<>>
         /\ finish_run(v).container.finished
         /\ finish_run(v).container.root \in Buffers(S)
         /\ FlattenSeq(finish_run(v).container.root) = Written(v.container)
         /\ finish_run(v).runs = Append(v.runs, finish_run(v).container.root)
<1> DEFINE d == finish_blocks(v.container)
           runs == Append(v.runs, d.root)
<1>1. v.container \in Writers(S) /\ v.runs \in Seq(Buffers(S))
  BY DEF RunWriters
<1>2. /\ d \in Writers(S) /\ FlattenSeq(d.root) = Written(v.container)
      /\ Written(d) = <<>> /\ d.finished
  BY <1>1, FinishBlocksWritten, Zenon
<1>3. finish_run(v) = [container |-> d, runs |-> runs]
  BY Zenon DEF finish_run
<1> HIDE DEF d
<1>4. d.root \in Buffers(S)
  BY <1>2 DEF Writers
<1>5. runs \in Seq(Buffers(S))
  BY <1>1, <1>4
<1> HIDE DEF runs
<1>6. finish_run(v) \in RunWriters(S)
  BY <1>2, <1>3, <1>5 DEF RunWriters
<1>7. finish_run(v).container = d /\ finish_run(v).runs = runs
  BY <1>3
<1>8. QED BY <1>2, <1>4, <1>6, <1>7, Zenon DEF runs

(* A row that is appended is the last of the open run.                     *)
LEMMA RunAppendIs ==
  ASSUME NEW S, NEW v \in RunWriters(S), NEW x \in S
  PROVE  /\ run_append(v, x) \in RunWriters(S)
         /\ run_append(v, x).runs = v.runs
         /\ Written(run_append(v, x).container) = Append(Written(v.container), x)
         /\ run_append(v, x).container.root = v.container.root
         /\ run_append(v, x).container.finished = v.container.finished
<1> DEFINE c == append(v.container, x)
<1>1. v.container \in Writers(S) /\ v.runs \in Seq(Buffers(S))
  BY DEF RunWriters
<1>2. /\ c \in Writers(S) /\ Written(c) = Append(Written(v.container), x)
      /\ c.root = v.container.root /\ c.finished = v.container.finished
  BY <1>1, AppendWritten, Zenon
<1>3. run_append(v, x) = [v EXCEPT !.container = c]
  BY DEF run_append
<1> HIDE DEF c
<1>4. /\ run_append(v, x) \in RunWriters(S)
      /\ run_append(v, x).container = c /\ run_append(v, x).runs = v.runs
  BY <1>1, <1>2, <1>3 DEF RunWriters
<1>5. QED BY <1>2, <1>4, Zenon

(* Rows that are appended are the last of the open run.                    *)
LEMMA RunAppendAllIs ==
  ASSUME NEW S, NEW v \in RunWriters(S), NEW rows \in Seq(S)
  PROVE  /\ run_append_all(v, rows) \in RunWriters(S)
         /\ run_append_all(v, rows).runs = v.runs
         /\ Written(run_append_all(v, rows).container) = Written(v.container) \o rows
<1> DEFINE c == append_all(v.container, rows)
<1>1. v.container \in Writers(S) /\ v.runs \in Seq(Buffers(S))
  BY DEF RunWriters
<1>2. c \in Writers(S) /\ Written(c) = Written(v.container) \o rows
  BY <1>1, AppendAllWritten, Zenon
<1>3. run_append_all(v, rows) = [v EXCEPT !.container = c]
  BY DEF run_append_all
<1> HIDE DEF c
<1>4. /\ run_append_all(v, rows) \in RunWriters(S)
      /\ run_append_all(v, rows).container = c /\ run_append_all(v, rows).runs = v.runs
  BY <1>1, <1>2, <1>3 DEF RunWriters
<1>5. QED BY <1>2, <1>4, Zenon

---------------------------------------------------------------------------
(* The inductive invariant.                                                *)

Types ==
  /\ blocks \in Seq(SUBSET Rows)
  /\ pc \in {"sort_blocks", "pass", "merge", "done"}
  /\ sorted \in 0 .. Len(blocks)
  /\ w \in RunWriters(InputRows)
  /\ r \in Seq(Readers(InputRows))
  /\ run_start \in Nat
  /\ DOMAIN queue \subseteq 1 .. Len(r)
  /\ queue \in [DOMAIN queue -> InputRows]
  /\ output \in Buffers(InputRows)

(* No block and no run is empty; the container was finished with the last  *)
(* run; and only while runs are merged are there rows in the open run or   *)
(* in the queue.                                                           *)
Filled ==
  /\ \A b \in 1 .. Len(blocks) : blocks[b] # {}
  /\ \A i \in 1 .. Len(w.runs) : w.runs[i] # <<>>
  /\ pc # "done" => /\ output = <<>>
                    /\ w.runs = <<>> => ~ w.container.finished
                    /\ w.runs # <<>> => /\ w.container.finished
                                        /\ w.container.root = w.runs[Len(w.runs)]
  /\ pc # "merge" => OpenRun = <<>> /\ DOMAIN queue = {}

(* How far a pass is: every group that was merged is one run by now.       *)
Passes ==
  /\ pc = "sort_blocks" => r = <<>> /\ run_start = 0 /\ Len(w.runs) = sorted
  /\ pc \in {"pass", "merge"} => /\ sorted = Len(blocks)
                                 /\ Len(r) >= 2
                                 /\ run_start = Len(w.runs) * MAX_NUM_STREAMS
                                 /\ run_start < Len(r) + MAX_NUM_STREAMS
  /\ pc = "merge" => /\ run_start < Len(r)
                     /\ DOMAIN queue \subseteq Group
                     /\ OpenRun # <<>> \/ DOMAIN queue # {}

(* Runs before the group have been read, and those after it not begun.     *)
ReadSoFar ==
  /\ pc = "pass" => \A i \in 1 .. Len(r) : unread(r[i]) = <<>> <=> i <= run_start
  /\ pc = "merge" =>
       \A i \in 1 .. Len(r) :
         /\ i <= run_start + MAX_NUM_STREAMS /\ i \notin DOMAIN queue
              => unread(r[i]) = <<>>
         /\ run_start + MAX_NUM_STREAMS < i => unread(r[i]) # <<>>

Conserved == pc # "done" => \A x \in InputRows : Placed(x)

Returned ==
  pc = "done" => /\ IsEnumerationOf(FlattenSeq(output), InputRows)
                 /\ InOrder(FlattenSeq(output))

SortInv ==
  Types /\ Filled /\ Passes /\ ReadSoFar /\ Conserved /\ MergeOrder /\ Returned

(* The blocks of the input are numbered from 1, hold rows, and share none. *)
LEMMA InputBlocks ==
  ASSUME NEW s \in BlockSequences
  PROVE  /\ s \in Seq(SUBSET Rows)
         /\ \A b \in 1 .. Len(s) : s[b] # {}
         /\ \A b, c \in 1 .. Len(s) : b # c => s[b] \cap s[c] = {}
<1> DEFINE Holds(place, b) == \E x \in Rows : place[x] = b
           Tight(place) == \A b \in 2 .. MaxBlocks : Holds(place, b) => Holds(place, b - 1)
<1>1. PICK place \in [Rows -> 0 .. MaxBlocks] :
        /\ Tight(place)
        /\ s = [b \in {c \in 1 .. MaxBlocks : Holds(place, c)} |->
                  {x \in Rows : place[x] = b}]
  BY Zenon DEF BlockSequences
<1> DEFINE D == {c \in 1 .. MaxBlocks : Holds(place, c)}
<1>2. PICK k \in Nat : D = 1 .. k
  <2>1. CASE D = {}
    <3>1. D = 1 .. 0 /\ 0 \in Nat
      BY <2>1
    <3>2. QED BY <3>1
  <2>2. CASE D # {}
    <3>1. D \subseteq 0 .. MaxBlocks /\ MaxBlocks \in Nat
      BY BlocksAssumption
    <3>2. PICK m \in D : \A i \in D : i <= m
      <4> HIDE DEF D
      <4>1. QED BY <2>2, <3>1, GreatestNatural, Zenon
    <3>3. m \in Nat /\ 1 <= m /\ m <= MaxBlocks
      BY <3>1
    <3>4. \A c \in D : 2 <= c => c - 1 \in D
      <4> TAKE c \in D
      <4> HAVE 2 <= c
      <4>1. c \in 2 .. MaxBlocks /\ Holds(place, c) /\ c - 1 \in 1 .. MaxBlocks
        BY <3>1
      <4>2. Holds(place, c - 1)
        BY <1>1, <4>1, Zenon
      <4>3. QED BY <4>1, <4>2
    <3> HIDE DEF D
    <3> DEFINE T == {i \in 0 .. m - 1 : m - i \in D}
    <3>5. 0 \in T /\ m - 1 \in Nat
      BY <3>3
    <3>6. ASSUME NEW i \in 1 .. m - 1, i - 1 \in T PROVE i \in T
      <4>1. m - (i - 1) \in D /\ 2 <= m - (i - 1) /\ (m - (i - 1)) - 1 = m - i
        BY <3>3, <3>6
      <4>2. m - i \in D
        BY <3>4, <4>1
      <4>3. QED BY <3>3, <4>2
    <3>7. \A i \in 0 .. m - 1 : i \in T
      <4> HIDE DEF T
      <4>1. QED BY <3>5, <3>6, SetInduction, Zenon
    <3>8. ASSUME NEW c \in 1 .. m PROVE c \in D
      <4>1. m - c \in 0 .. m - 1 /\ m - (m - c) = c
        BY <3>3
      <4>2. QED BY <3>7, <4>1
    <3>9. \A c \in D : c \in 1 .. m
      BY <3>1, <3>2 DEF D
    <3>10. D = 1 .. m
      BY <3>8, <3>9
    <3>11. QED BY <3>3, <3>10
  <2>3. QED BY <2>1, <2>2
<1>3. s = [b \in 1 .. k |-> {x \in Rows : place[x] = b}]
  BY <1>1, <1>2
<1>4. s \in [1 .. k -> SUBSET Rows] /\ DOMAIN s = 1 .. k
  BY <1>3
<1>5. \A b \in 1 .. k : s[b] = {x \in Rows : place[x] = b} /\ Holds(place, b)
  BY <1>2, <1>3
<1>6. s \in Seq(SUBSET Rows) /\ Len(s) = k
  <2> HIDE DEF Holds
  <2>1. QED BY <1>4
<1>7. \A b \in 1 .. k : s[b] # {}
  BY <1>5
<1>8. \A b, c \in 1 .. k : b # c => s[b] \cap s[c] = {}
  BY <1>5
<1>9. QED BY <1>6, <1>7, <1>8

(* The initial states satisfy the invariant.                               *)
LEMMA SortInvInit == Init => SortInv
<1> SUFFICES ASSUME Init PROVE SortInv
  OBVIOUS
<1> USE DEF Init
<1>1. /\ blocks \in Seq(SUBSET Rows)
      /\ \A b \in 1 .. Len(blocks) : blocks[b] # {}
      /\ \A b, c \in 1 .. Len(blocks) : b # c => blocks[b] \cap blocks[c] = {}
  BY InputBlocks, Zenon
<1>2. <<>> \in Buffers(InputRows) /\ <<>> \in Seq(InputRows)
  BY DEF Buffers
<1>3. w \in RunWriters(InputRows) /\ w.runs = <<>> /\ ~ w.container.finished
  <2>1. QRowWriter \in Writers(InputRows)
    BY <1>2 DEF QRowWriter, Writers
  <2>2. <<>> \in Seq(Buffers(InputRows))
    OBVIOUS
  <2>3. QED BY <2>1, <2>2 DEF QSortedRunsWriter, RunWriters, QRowWriter
<1>4. OpenRun = <<>>
  <2>1. w.container.enc_block_vector = <<>> /\ w.container.rows_vector = <<>>
    BY DEF QSortedRunsWriter, QRowWriter
  <2>2. FlattenSeq(<<>>) = <<>>
    BY DEF FlattenSeq
  <2>3. QED BY <2>1, <2>2 DEF OpenRun
<1>5. Types
  BY <1>1, <1>2, <1>3 DEF Types
<1>6. Filled
  BY <1>1, <1>3, <1>4 DEF Filled
<1>7. Passes /\ ReadSoFar /\ Returned
  BY <1>3 DEF Passes, ReadSoFar, Returned
<1>8. MergeOrder
  BY <1>3, <1>4 DEF MergeOrder, InOrder
<1>9. Conserved
  <2> SUFFICES ASSUME NEW x \in InputRows PROVE Placed(x)
    BY DEF Conserved
  <2>1. PICK b \in 1 .. Len(blocks) : x \in blocks[b]
    BY DEF InputRows
  <2>2. \A c \in 1 .. Len(blocks) : x \in blocks[c] => c = b
    BY <1>1, <2>1
  <2>3. DOMAIN Unsorted = 1 .. Len(blocks) /\ \A c \in DOMAIN Unsorted : Unsorted[c] = blocks[c]
    BY <1>1 DEF Unsorted
  <2>4. \A q : InBlock(q, x, Unsorted) <=> q = <<"block", b, 0>>
    BY <2>1, <2>2, <2>3, Zenon DEF InBlock
  <2>5. \A q : /\ ~ InRuns("r", q, x, UnreadRows(r)) /\ ~ InRuns("w", q, x, RunRows(w.runs))
               /\ ~ InQueue(q, x, queue) /\ ~ InOpen(q, x, OpenRun)
    <3>1. DOMAIN UnreadRows(r) = {} /\ DOMAIN RunRows(w.runs) = {}
      BY <1>3 DEF UnreadRows, RunRows
    <3>2. DOMAIN queue = {} /\ 1 .. Len(OpenRun) = {}
      BY <1>4
    <3>3. QED BY <3>1, <3>2, Zenon DEF InRuns, InQueue, InOpen
  <2>6. \A q : IsPlace(q, x, Unsorted, UnreadRows(r), RunRows(w.runs), queue, OpenRun)
                <=> q = <<"block", b, 0>>
    BY <2>4, <2>5 DEF IsPlace
  <2>7. PICK p : p = <<"block", b, 0>>
    OBVIOUS
  <2>8. /\ IsPlace(p, x, Unsorted, UnreadRows(r), RunRows(w.runs), queue, OpenRun)
        /\ \A q : IsPlace(q, x, Unsorted, UnreadRows(r), RunRows(w.runs), queue, OpenRun)
                  => q = p
    BY <2>6, <2>7
  <2>9. QED BY <2>8, Zenon DEF Placed, OnePlace
<1>10. QED BY <1>5, <1>6, <1>7, <1>8, <1>9 DEF SortInv

(* The writer has one more run, which is the last.                         *)
LEMMA RunsAppend ==
  ASSUME NEW S, NEW runs \in Seq(Buffers(S)), NEW b \in Buffers(S), b # <<>>,
         \A i \in 1 .. Len(runs) : runs[i] # <<>>,
         \A i \in 1 .. Len(runs) : InOrder(FlattenSeq(runs[i])),
         InOrder(FlattenSeq(b)), NEW X, X = Append(runs, b)
  PROVE  /\ Len(X) = Len(runs) + 1 /\ Len(runs) \in Nat
         /\ X # <<>> /\ X[Len(X)] = b
         /\ \A i \in 1 .. Len(X) : X[i] # <<>>
         /\ \A i \in 1 .. Len(X) : InOrder(FlattenSeq(X[i]))
<1>1. /\ Len(X) = Len(runs) + 1 /\ Len(runs) \in Nat
      /\ X[Len(runs) + 1] = b
      /\ \A i \in 1 .. Len(runs) : X[i] = runs[i]
  OBVIOUS
<1>2. X # <<>>
  OBVIOUS
<1>3. \A i \in 1 .. Len(X) : i = Len(X) \/ i \in 1 .. Len(runs)
  <2>1. \A n \in Nat : \A i \in 1 .. n + 1 : i = n + 1 \/ i \in 1 .. n
    OBVIOUS
  <2>2. QED BY <1>1, <2>1, Zenon
<1>4. QED BY <1>1, <1>2, <1>3, Zenon

(* A sorted block becomes a run of its own.                                *)
LEMMA SortBlockInv == SortInv /\ SortBlock => SortInv'
<1> SUFFICES ASSUME SortInv, SortBlock PROVE SortInv'
  OBVIOUS
<1> DEFINE I == InputRows
           b == sorted + 1
<1>1. /\ pc = "sort_blocks" /\ pc' = pc /\ blocks' = blocks /\ sorted' = sorted + 1
      /\ sorted < Len(blocks) /\ r' = r /\ run_start' = run_start /\ queue' = queue
      /\ output' = output
      /\ \E run \in SortedEnumerations(blocks[b]) : w' = finish_run(run_append_all(w, run))
  BY Zenon DEF SortBlock
<1>2. I' = I
  BY <1>1 DEF InputRows
<1>3. /\ Types /\ Filled /\ Passes /\ MergeOrder /\ Conserved
      /\ w \in RunWriters(I) /\ OpenRun = <<>> /\ DOMAIN queue = {}
      /\ r = <<>> /\ run_start = 0 /\ Len(w.runs) = sorted /\ output = <<>>
  BY <1>1, Zenon DEF SortInv, Types, Filled, Passes
<1>4. b \in 1 .. Len(blocks) /\ blocks[b] \subseteq I /\ blocks[b] # {} /\ sorted \in Nat
  <2>1. b \in 1 .. Len(blocks) /\ sorted \in Nat
    BY <1>1, <1>3 DEF Types
  <2>2. blocks[b] \subseteq I
    BY <2>1 DEF InputRows
  <2>3. QED BY <1>3, <2>1, <2>2 DEF Filled
<1>5. PICK run \in SortedEnumerations(blocks[b]) : w' = finish_run(run_append_all(w, run))
  BY <1>1, Zenon
<1>6. /\ run \in Seq(I) /\ run # <<>> /\ InOrder(run) /\ IsEnumerationOf(run, blocks[b])
  <2>1. run \in Seq(blocks[b]) /\ InOrder(run) /\ IsEnumerationOf(run, blocks[b])
    BY Zenon DEF SortedEnumerations
  <2>2. run \in Seq(I)
    BY <1>4, <2>1
  <2>3. run # <<>>
    BY <1>4, <2>1 DEF IsEnumerationOf
  <2>4. QED BY <2>1, <2>2, <2>3
<1> DEFINE c == run_append_all(w, run)
           root == w'.container.root
           X == w'.runs
<1> HIDE DEF I, b
<1>7. c \in RunWriters(I) /\ c.runs = w.runs /\ Written(c.container) = run
  <2>1. Written(w.container) = <<>>
    BY <1>3, Zenon DEF OpenRun, Written
  <2>2. <<>> \o run = run
    BY <1>6
  <2>3. QED BY <1>3, <1>6, <2>1, <2>2, RunAppendAllIs, Zenon
<1>8. /\ w' \in RunWriters(I) /\ Written(w'.container) = <<>> /\ w'.container.finished
      /\ root \in Buffers(I) /\ FlattenSeq(root) = run /\ X = Append(w.runs, root)
  BY <1>5, <1>7, FinishRunIs, Zenon
<1> HIDE DEF root, X
<1>9. root # <<>>
  <2>1. FlattenSeq(<<>>) = <<>>
    BY DEF FlattenSeq
  <2>2. QED BY <1>6, <1>8, <2>1, Zenon
<1>10. w.runs \in Seq(Buffers(I))
  BY <1>3 DEF RunWriters
<1>11. /\ \A i \in 1 .. Len(w.runs) : w.runs[i] # <<>>
       /\ \A i \in 1 .. Len(w.runs) : InOrder(FlattenSeq(w.runs[i]))
  BY <1>3, Zenon DEF Filled, MergeOrder
<1>12. /\ Len(X) = Len(w.runs) + 1
       /\ X # <<>> /\ X[Len(X)] = root
       /\ \A i \in 1 .. Len(X) : X[i] # <<>>
       /\ \A i \in 1 .. Len(X) : InOrder(FlattenSeq(X[i]))
  <2>1. root \in Buffers(I) /\ X = Append(w.runs, root) /\ InOrder(FlattenSeq(root))
    BY <1>6, <1>8, Zenon
  <2>2. QED BY <1>9, <1>10, <1>11, <2>1, RunsAppend
<1>13. OpenRun' = <<>>
  BY <1>8, Zenon DEF OpenRun, Written
<1>14. Types'
  <2>1. sorted + 1 \in 0 .. Len(blocks)
    BY <1>4 DEF b
  <2>2. InputRows' = InputRows /\ w' \in RunWriters(InputRows)
    BY <1>2, <1>8, Zenon DEF I
  <2>3. QED BY <1>1, <1>3, <2>1, <2>2, Zenon DEF Types
<1>15. Filled'
  BY <1>1, <1>3, <1>8, <1>12, <1>13, Zenon DEF Filled, X, root
<1>16. Passes' /\ ReadSoFar' /\ Returned'
  BY <1>1, <1>3, <1>12 DEF Passes, ReadSoFar, Returned, X
<1>17. MergeOrder'
  <2>1. InOrder(<<>>)
    BY DEF InOrder
  <2>2. \A i \in 1 .. Len(r') : InOrder(unread(r'[i]))
    BY <1>1, <1>3 DEF MergeOrder
  <2>3. DOMAIN queue' = {}
    BY <1>1, <1>3
  <2>4. QED BY <1>12, <1>13, <2>1, <2>2, <2>3, Zenon DEF MergeOrder, X
<1>18. Conserved'
  <2> SUFFICES ASSUME NEW x \in I PROVE Placed(x)'
    BY <1>2, Zenon DEF Conserved, I
  <2>1. OnePlace(x, Unsorted, UnreadRows(r), RunRows(w.runs), queue, OpenRun)
    BY <1>1, <1>3 DEF Conserved, Placed, I
  <2>2. RunRows(w.runs) \in Seq(Seq(I)) /\ RunRows(X) = Append(RunRows(w.runs), run)
    BY <1>8, <1>10, RunRowsAre, Zenon
  <2>3. b \in DOMAIN Unsorted /\ Unsorted[b] = blocks[b]
    BY <1>4 DEF Unsorted, b
  <2>4. [k \in DOMAIN Unsorted \ {b} |-> Unsorted[k]] = Unsorted'
    <3>1. (sorted + 1 .. Len(blocks)) \ {b} = (sorted + 1) + 1 .. Len(blocks)
      BY <1>4 DEF b
    <3>2. QED BY <1>1, <3>1 DEF Unsorted
  <2>5. OnePlace(x, [k \in DOMAIN Unsorted \ {b} |-> Unsorted[k]], UnreadRows(r),
                 Append(RunRows(w.runs), run), queue, OpenRun)
    BY <1>6, <2>1, <2>2, <2>3, BlockMoves, Zenon
  <2>6. QED BY <1>1, <1>3, <1>13, <2>2, <2>4, <2>5 DEF Placed, X
<1>19. QED BY <1>14, <1>15, <1>16, <1>17, <1>18 DEF SortInv

(* A reader of a run that is not empty has all of its rows to read.        *)
LEMMA RunReader ==
  ASSUME NEW S, NEW b \in Buffers(S), b # <<>>
  PROVE  /\ QRowReader(b) \in Readers(S)
         /\ unread(QRowReader(b)) = FlattenSeq(b)
         /\ FlattenSeq(b) # <<>>
<1>1. QRowReader(b) \in Readers(S) /\ unread(QRowReader(b)) = FlattenSeq(b)
  BY FreshReader, Zenon
<1>2. has_next(QRowReader(b))
  <2>1. b \in Seq(BlocksOver(S))
    BY Zenon DEF Buffers
  <2>2. 1 \in 1 .. Len(b) /\ b[1] \in BlocksOver(S)
    BY <2>1
  <2>3. 1 <= Len(b) /\ 1 <= Len(b[1])
    <3>1. \A s \in BlocksOver(S) : 1 <= Len(s)
      BY DEF BlocksOver
    <3>2. QED BY <2>2, <3>1
  <2>4. QED BY <2>3 DEF has_next, block_has_next, QRowReader
<1>3. QED BY <1>1, <1>2, ReadNext, Zenon

(* Before the runs are read back, or the last of them is returned, all the *)
(* blocks are sorted and all that was being read is read.                  *)
LEMMA AllRead ==
  ASSUME Types, Filled, Passes, ReadSoFar,
         \/ pc = "sort_blocks" /\ sorted = Len(blocks)
         \/ pc = "pass" /\ run_start >= Len(r)
  PROVE  /\ pc # "done" /\ pc # "merge" /\ sorted = Len(blocks) /\ OpenRun = <<>>
         /\ DOMAIN queue = {} /\ DOMAIN Unsorted = {}
         /\ \A i \in DOMAIN UnreadRows(r) : UnreadRows(r)[i] = <<>>
<1>1. sorted = Len(blocks) /\ OpenRun = <<>> /\ DOMAIN queue = {} /\ sorted \in Nat
  BY DEF Types, Filled, Passes
<1>2. \A i \in 1 .. Len(r) : unread(r[i]) = <<>>
  <2>1. Len(r) \in Nat /\ run_start \in Nat
    BY DEF Types
  <2>2. CASE pc = "sort_blocks"
    BY <2>2 DEF Passes
  <2>3. CASE pc = "pass" /\ run_start >= Len(r)
    <3>1. \A i \in 1 .. Len(r) : i <= run_start
      BY <2>1, <2>3
    <3>2. QED BY <2>3, <3>1, Zenon DEF ReadSoFar
  <2>4. QED BY <2>2, <2>3
<1>3. DOMAIN Unsorted = {}
  BY <1>1 DEF Unsorted
<1>4. DOMAIN UnreadRows(r) = 1 .. Len(r) /\ \A i \in 1 .. Len(r) : UnreadRows(r)[i] = unread(r[i])
  BY Zenon DEF UnreadRows
<1>5. QED BY <1>1, <1>2, <1>3, <1>4

(* More than one run is read back.                                         *)
LEMMA ReadRunsBackInv ==
  ASSUME SortInv,
         \/ pc = "sort_blocks" /\ sorted = Len(blocks)
         \/ pc = "pass" /\ run_start >= Len(r),
         Len(w.runs) > 1, ReadRunsBack, UNCHANGED <<blocks, sorted, queue>>
  PROVE  SortInv'
<1> DEFINE I == InputRows
<1>1. /\ r' = RunReaders(w.runs) /\ w' = QSortedRunsWriter /\ run_start' = 0 /\ pc' = "pass"
      /\ output' = output /\ blocks' = blocks /\ sorted' = sorted /\ queue' = queue
  BY DEF ReadRunsBack
<1>2. /\ Types /\ Filled /\ Passes /\ ReadSoFar /\ MergeOrder /\ Conserved
      /\ w \in RunWriters(I)
  BY Zenon DEF SortInv, Types
<1>3. /\ pc # "done" /\ pc # "merge" /\ sorted = Len(blocks) /\ OpenRun = <<>>
      /\ DOMAIN queue = {} /\ DOMAIN Unsorted = {}
      /\ \A i \in DOMAIN UnreadRows(r) : UnreadRows(r)[i] = <<>>
  BY <1>2, AllRead, Zenon
<1>4. I' = I
  BY <1>1 DEF InputRows
<1>5. w.runs \in Seq(Buffers(I)) /\ \A i \in 1 .. Len(w.runs) : w.runs[i] # <<>>
  BY <1>2 DEF RunWriters, Filled
<1> HIDE DEF I
<1>6. Len(w.runs) \in Nat /\ \A i \in 1 .. Len(w.runs) : w.runs[i] \in Buffers(I)
  BY <1>5
<1>7. r' = [i \in 1 .. Len(w.runs) |-> QRowReader(w.runs[i])]
  BY <1>1 DEF RunReaders
<1>8. \A i \in 1 .. Len(w.runs) :
        /\ QRowReader(w.runs[i]) \in Readers(I)
        /\ unread(QRowReader(w.runs[i])) = FlattenSeq(w.runs[i])
        /\ FlattenSeq(w.runs[i]) # <<>>
  BY <1>5, <1>6, RunReader, Zenon
<1>9. r' \in [1 .. Len(w.runs) -> Readers(I)]
  BY <1>7, <1>8
<1>10. r' \in Seq(Readers(I)) /\ Len(r') = Len(w.runs)
  BY <1>6, <1>9
<1>11. \A i \in 1 .. Len(r') : unread(r'[i]) = FlattenSeq(w.runs[i]) /\ unread(r'[i]) # <<>>
  <2>1. \A i \in 1 .. Len(w.runs) : r'[i] = QRowReader(w.runs[i])
    BY <1>7
  <2>2. QED BY <1>8, <1>10, <2>1, Zenon
<1>12. /\ w' \in RunWriters(I) /\ w'.runs = <<>> /\ ~ w'.container.finished
       /\ OpenRun' = <<>>
  <2>1. <<>> \in Buffers(I) /\ <<>> \in Seq(I) /\ <<>> \in Seq(Buffers(I))
    BY DEF Buffers
  <2>2. QRowWriter \in Writers(I)
    BY <2>1 DEF QRowWriter, Writers
  <2>3. w' \in RunWriters(I) /\ w'.runs = <<>> /\ ~ w'.container.finished
    BY <1>1, <2>1, <2>2 DEF QSortedRunsWriter, RunWriters, QRowWriter
  <2>4. w'.container.enc_block_vector = <<>> /\ w'.container.rows_vector = <<>>
    BY <1>1 DEF QSortedRunsWriter, QRowWriter
  <2>5. FlattenSeq(<<>>) = <<>>
    BY DEF FlattenSeq
  <2>6. QED BY <2>3, <2>4, <2>5 DEF OpenRun
<1>13. Types'
  <2>1. DOMAIN queue \subseteq 1 .. Len(r')
    BY <1>3
  <2>2. r' \in Seq(Readers(InputRows))' /\ w' \in RunWriters(InputRows)'
    BY <1>4, <1>10, <1>12, Zenon DEF I
  <2>3. run_start' \in Nat /\ pc' \in {"sort_blocks", "pass", "merge", "done"}
    BY <1>1
  <2>4. /\ blocks' \in Seq(SUBSET Rows) /\ sorted' \in 0 .. Len(blocks')
        /\ queue' \in [DOMAIN queue' -> InputRows'] /\ output' \in Buffers(InputRows')
    BY <1>1, <1>2, <1>4, Zenon DEF I, Types
  <2>5. QED BY <1>1, <2>1, <2>2, <2>3, <2>4, Zenon DEF Types
<1>14. Filled'
  <2>1. \A i \in 1 .. Len(w'.runs) : w'.runs[i] # <<>>
    BY <1>12
  <2>2. QED BY <1>1, <1>2, <1>3, <1>12, <2>1, Zenon DEF Filled
<1>15. Passes' /\ Returned'
  <2>1. MAX_NUM_STREAMS \in Nat /\ Len(w'.runs) = 0 /\ 0 * MAX_NUM_STREAMS = 0
    BY <1>12, StreamsAssumption
  <2>2. QED BY <1>1, <1>3, <1>6, <1>10, <2>1 DEF Passes, Returned
<1>16. ReadSoFar'
  BY <1>1, <1>11 DEF ReadSoFar
<1>17. MergeOrder'
  <2>1. \A i \in 1 .. Len(r') : InOrder(unread(r'[i]))
    BY <1>2, <1>10, <1>11, Zenon DEF MergeOrder
  <2>2. InOrder(<<>>) /\ 1 .. Len(w'.runs) = {} /\ DOMAIN queue' = {}
    BY <1>1, <1>3, <1>12 DEF InOrder
  <2>3. QED BY <1>12, <2>1, <2>2, Zenon DEF MergeOrder
<1>18. Conserved'
  <2> SUFFICES ASSUME NEW x \in I PROVE Placed(x)'
    BY <1>4, Zenon DEF Conserved, I
  <2>1. OnePlace(x, Unsorted, UnreadRows(r), RunRows(w.runs), queue, <<>>)
    BY <1>2, <1>3, Zenon DEF Conserved, Placed, I
  <2>2. OnePlace(x, Unsorted, RunRows(w.runs), <<>>, queue, <<>>)
    BY <1>3, <2>1, RunsMove, Zenon
  <2>3. RunRows(w'.runs) = <<>>
    BY <1>12 DEF RunRows
  <2>4. UnreadRows(r') = RunRows(w.runs)
    BY <1>10, <1>11, Zenon DEF UnreadRows, RunRows
  <2>5. Unsorted' = Unsorted
    BY <1>1 DEF Unsorted
  <2>6. QED BY <1>1, <1>12, <2>2, <2>3, <2>4, <2>5, Zenon DEF Placed
<1>19. QED BY <1>13, <1>14, <1>15, <1>16, <1>17, <1>18, Zenon DEF SortInv

(* A sequence that is not empty and holds at most one element holds one.   *)
LEMMA OneOnly ==
  ASSUME NEW S, NEW s \in Seq(S), s # <<>>, Len(s) <= 1
  PROVE  Len(s) = 1
<1>1. Len(s) \in Nat /\ Len(s) # 0
  BY EmptySeq
<1>2. QED BY <1>1

(* The last run holds every row of the input once, and in order; without a *)
(* run there was no row.                                                   *)
LEMMA LastRun ==
  ASSUME SortInv,
         \/ pc = "sort_blocks" /\ sorted = Len(blocks)
         \/ pc = "pass" /\ run_start >= Len(r),
         Len(w.runs) <= 1,
         NEW s, s = IF w.runs = <<>> THEN <<>> ELSE FlattenSeq(w.runs[1])
  PROVE  IsEnumerationOf(s, InputRows) /\ InOrder(s)
<1>1. /\ Types /\ Filled /\ Passes /\ ReadSoFar /\ MergeOrder /\ Conserved
      /\ w \in RunWriters(InputRows)
  BY Zenon DEF SortInv, Types
<1>2. /\ pc # "done" /\ OpenRun = <<>>
      /\ DOMAIN queue = {} /\ DOMAIN Unsorted = {}
      /\ \A i \in DOMAIN UnreadRows(r) : UnreadRows(r)[i] = <<>>
  BY <1>1, AllRead, Zenon
<1>3. w.runs \in Seq(Buffers(InputRows))
  BY <1>1 DEF RunWriters
<1>4. \A q, x : /\ ~ InBlock(q, x, Unsorted) /\ ~ InRuns("r", q, x, UnreadRows(r))
                /\ ~ InQueue(q, x, queue) /\ ~ InOpen(q, x, OpenRun)
  BY <1>2 DEF InBlock, InRuns, InQueue, InOpen
<1>5. /\ DOMAIN RunRows(w.runs) = 1 .. Len(w.runs)
      /\ \A i \in 1 .. Len(w.runs) : RunRows(w.runs)[i] = FlattenSeq(w.runs[i])
  BY Zenon DEF RunRows
<1>6. ASSUME NEW x \in InputRows
      PROVE  \E p : /\ InRuns("w", p, x, RunRows(w.runs))
                    /\ \A q : InRuns("w", q, x, RunRows(w.runs)) => q = p
  <2>1. OnePlace(x, Unsorted, UnreadRows(r), RunRows(w.runs), queue, OpenRun)
    BY <1>1, <1>2, Zenon DEF Conserved, Placed
  <2>2. PICK p : \A q : IsPlace(q, x, Unsorted, UnreadRows(r), RunRows(w.runs), queue, OpenRun)
                          <=> q = p
    BY <2>1, Zenon DEF OnePlace
  <2>3. \A q : IsPlace(q, x, Unsorted, UnreadRows(r), RunRows(w.runs), queue, OpenRun)
                 <=> InRuns("w", q, x, RunRows(w.runs))
    BY <1>4, Zenon DEF IsPlace
  <2>4. InRuns("w", p, x, RunRows(w.runs))
    BY <2>2, <2>3
  <2>5. \A q : InRuns("w", q, x, RunRows(w.runs)) => q = p
    BY <2>2, <2>3
  <2>6. QED BY <2>4, <2>5, Zenon
<1>7. CASE w.runs = <<>>
  <2>1. ASSUME NEW x \in InputRows PROVE FALSE
    <3>1. DOMAIN RunRows(w.runs) = {}
      BY <1>5, <1>7
    <3>2. QED BY <1>6, <3>1, Zenon DEF InRuns
  <2>2. s = <<>> /\ 1 .. Len(s) = {}
    BY <1>7
  <2>3. QED BY <2>1, <2>2, Zenon DEF IsEnumerationOf, InOrder
<1>8. CASE w.runs # <<>>
  <2>1. Len(w.runs) = 1 /\ 1 .. Len(w.runs) = {1} /\ w.runs[1] \in Buffers(InputRows)
    <3>1. Len(w.runs) = 1
      BY <1>3, <1>8, OneOnly, Zenon
    <3>2. QED BY <1>3, <3>1
  <2>2. s = FlattenSeq(w.runs[1]) /\ s \in Seq(InputRows) /\ RunRows(w.runs)[1] = s
    BY <1>5, <1>8, <2>1, BufferRows
  <2>3. InOrder(s)
    BY <1>1, <2>1, <2>2 DEF MergeOrder
  <2>4. \A q, x : InRuns("w", q, x, RunRows(w.runs))
                    <=> \E j \in 1 .. Len(s) : s[j] = x /\ q = <<"w", 1, j>>
    BY <1>5, <2>1, <2>2 DEF InRuns
  <2>5. \A x \in InputRows : \E j \in 1 .. Len(s) : s[j] = x
    <3> TAKE x \in InputRows
    <3>1. PICK p : InRuns("w", p, x, RunRows(w.runs))
      BY <1>6
    <3>2. QED BY <2>4, <3>1, Zenon
  <2>6. \A j \in 1 .. Len(s) : s[j] \in InputRows
    BY <2>2
  <2>7. ASSUME NEW j \in 1 .. Len(s), NEW k \in 1 .. Len(s), s[j] = s[k] PROVE j = k
    <3>1. /\ InRuns("w", <<"w", 1, j>>, s[j], RunRows(w.runs))
          /\ InRuns("w", <<"w", 1, k>>, s[j], RunRows(w.runs))
      BY <2>4, <2>7, Zenon
    <3>2. s[j] \in InputRows
      BY <2>6, Zenon
    <3>3. <<"w", 1, j>> = <<"w", 1, k>>
      BY <1>6, <3>1, <3>2
    <3>4. QED BY <3>3, Triples, Zenon
  <2>8. QED BY <2>3, <2>5, <2>6, <2>7, Zenon DEF IsEnumerationOf
<1>9. QED BY <1>7, <1>8

(* The last run is returned.                                               *)
LEMMA OutputSingleRunInv ==
  ASSUME SortInv,
         \/ pc = "sort_blocks" /\ sorted = Len(blocks)
         \/ pc = "pass" /\ run_start >= Len(r),
         Len(w.runs) <= 1, OutputSingleRun, UNCHANGED <<blocks, sorted, queue>>
  PROVE  SortInv'
<1> DEFINE I == InputRows
           c == output_buffer(w.container)
<1>1. /\ w' = [w EXCEPT !.container = c] /\ output' = w'.container.root /\ pc' = "done"
      /\ r' = r /\ run_start' = run_start
      /\ blocks' = blocks /\ sorted' = sorted /\ queue' = queue
  BY DEF OutputSingleRun
<1>2. /\ Types /\ Filled /\ Passes /\ ReadSoFar /\ MergeOrder
      /\ w \in RunWriters(I)
  BY Zenon DEF SortInv, Types
<1>3. pc # "done" /\ OpenRun = <<>> /\ DOMAIN queue = {}
  BY <1>2, AllRead, Zenon
<1>4. I' = I
  BY <1>1 DEF InputRows
<1> HIDE DEF I
<1>5. w.container \in Writers(I) /\ w.runs \in Seq(Buffers(I))
  BY <1>2 DEF RunWriters
<1>6. Written(w.container) = <<>>
  BY <1>3, Zenon DEF OpenRun, Written
<1>7. /\ c \in Writers(I) /\ Written(c) = <<>>
      /\ FlattenSeq(c.root) = IF w.runs = <<>> THEN <<>> ELSE FlattenSeq(w.runs[1])
  <2>1. CASE w.runs = <<>>
    <3>1. c = finish_blocks(w.container)
      BY <1>2, <1>3, <2>1 DEF output_buffer, Filled
    <3>2. QED BY <1>5, <1>6, <2>1, <3>1, FinishBlocksWritten, Zenon
  <2>2. CASE w.runs # <<>>
    <3>1. w.container.finished /\ w.container.root = w.runs[Len(w.runs)]
      BY <1>2, <1>3, <2>2 DEF Filled
    <3>2. Len(w.runs) = 1
      BY <1>5, <2>2, OneOnly, Zenon
    <3>3. c = w.container
      BY <3>1, Zenon DEF output_buffer
    <3>4. QED BY <1>5, <1>6, <2>2, <3>1, <3>2, <3>3, Zenon
  <2>3. QED BY <2>1, <2>2
<1> HIDE DEF c
<1>8. w' \in RunWriters(I) /\ w'.container = c /\ w'.runs = w.runs
  BY <1>1, <1>2, <1>7 DEF RunWriters
<1>9. output' = c.root /\ output' \in Buffers(I)
  BY <1>1, <1>7, <1>8 DEF Writers
<1>10. OpenRun' = <<>>
  BY <1>7, <1>8, Zenon DEF OpenRun, Written
<1>11. Types'
  <2>1. pc' \in {"sort_blocks", "pass", "merge", "done"}
    BY <1>1
  <2>2. w' \in RunWriters(InputRows)' /\ output' \in Buffers(InputRows)'
    BY <1>4, <1>8, <1>9, Zenon DEF I
  <2>3. QED BY <1>1, <1>2, <1>4, <2>1, <2>2, Zenon DEF Types, I
<1>12. Filled'
  BY <1>1, <1>2, <1>3, <1>8, <1>10, Zenon DEF Filled
<1>13. Passes' /\ ReadSoFar' /\ Conserved'
  BY <1>1 DEF Passes, ReadSoFar, Conserved
<1>14. MergeOrder'
  <2>1. InOrder(<<>>) /\ DOMAIN queue' = {}
    BY <1>1, <1>3 DEF InOrder
  <2>2. QED BY <1>1, <1>2, <1>8, <1>10, <2>1, Zenon DEF MergeOrder
<1>15. Returned'
  <2>1. IsEnumerationOf(FlattenSeq(output'), I) /\ InOrder(FlattenSeq(output'))
    BY <1>7, <1>9, LastRun, Zenon DEF I
  <2>2. QED BY <1>4, <2>1, Zenon DEF Returned, I
<1>16. QED BY <1>11, <1>12, <1>13, <1>14, <1>15, Zenon DEF SortInv

(* All the blocks are sorted.                                              *)
LEMMA FinishBlocksInv == SortInv /\ FinishBlocks => SortInv'
<1> SUFFICES ASSUME SortInv, FinishBlocks PROVE SortInv'
  OBVIOUS
<1>1. /\ pc = "sort_blocks" /\ sorted = Len(blocks) /\ UNCHANGED <<blocks, sorted, queue>>
      /\ IF Len(w.runs) <= 1 THEN OutputSingleRun ELSE ReadRunsBack
  BY Zenon DEF FinishBlocks
<1>2. Len(w.runs) \in Nat
  BY DEF SortInv, Types, RunWriters
<1>3. CASE Len(w.runs) <= 1
  BY <1>1, <1>3, OutputSingleRunInv, Zenon
<1>4. CASE ~ (Len(w.runs) <= 1)
  <2>1. Len(w.runs) > 1
    BY <1>2, <1>4
  <2>2. QED BY <1>1, <1>4, <2>1, ReadRunsBackInv, Zenon
<1>5. QED BY <1>3, <1>4

(* A pass is over.                                                         *)
LEMMA FinishPassInv == SortInv /\ FinishPass => SortInv'
<1> SUFFICES ASSUME SortInv, FinishPass PROVE SortInv'
  OBVIOUS
<1>1. /\ pc = "pass" /\ run_start >= Len(r) /\ UNCHANGED <<blocks, sorted, queue>>
      /\ IF Len(w.runs) > 1 THEN ReadRunsBack ELSE OutputSingleRun
  BY Zenon DEF FinishPass
<1>2. Len(w.runs) \in Nat
  BY DEF SortInv, Types, RunWriters
<1>3. CASE Len(w.runs) > 1
  BY <1>1, <1>3, ReadRunsBackInv, Zenon
<1>4. CASE ~ (Len(w.runs) > 1)
  <2>1. Len(w.runs) <= 1
    BY <1>2, <1>4
  <2>2. QED BY <1>1, <1>4, <2>1, OutputSingleRunInv, Zenon
<1>5. QED BY <1>3, <1>4

(* What reading the first row of a run that is not all read leaves.        *)
LEMMA ReadRun ==
  ASSUME NEW S, NEW rd \in Readers(S), unread(rd) # <<>>, InOrder(unread(rd))
  PROVE  /\ next(rd) \in S /\ after_next(rd) \in Readers(S)
         /\ unread(after_next(rd)) \in Seq(S)
         /\ unread(rd) = <<next(rd)>> \o unread(after_next(rd))
         /\ InOrder(unread(after_next(rd)))
         /\ next(rd) \in ToSet(unread(rd))
         /\ \A x \in ToSet(unread(after_next(rd))) : ~ less_than(x, next(rd))
<1>1. /\ next(rd) \in S /\ after_next(rd) \in Readers(S)
      /\ unread(rd) = <<next(rd)>> \o unread(after_next(rd))
  BY ReadNext, Zenon
<1>2. unread(after_next(rd)) \in Seq(S)
  BY <1>1, ReadNext, Zenon
<1>3. \A x \in S : \A s \in Seq(S) : x \in ToSet(<<x>> \o s)
  BY DEF ToSet
<1>4. next(rd) \in ToSet(unread(rd))
  BY <1>1, <1>2, <1>3, Zenon
<1>5. InOrder(<<next(rd)>> \o unread(after_next(rd)))
  BY <1>1, Zenon
<1>6. /\ InOrder(unread(after_next(rd)))
      /\ \A x \in ToSet(unread(after_next(rd))) : ~ less_than(x, next(rd))
  BY <1>1, <1>2, <1>5, TailInOrder, Zenon
<1>7. QED BY <1>1, <1>2, <1>4, <1>6, Zenon

(* The first rows of a group go to the queue.                              *)
LEMMA BeginMergeInv == SortInv /\ BeginMerge => SortInv'
<1> SUFFICES ASSUME SortInv, BeginMerge PROVE SortInv'
  OBVIOUS
<1> DEFINE I == InputRows
           G == Group
<1>1. /\ pc = "pass" /\ pc' = "merge" /\ run_start < Len(r) /\ run_start' = run_start
      /\ queue' = [i \in G |-> next(r[i])]
      /\ r' = [i \in 1 .. Len(r) |-> IF i \in G THEN after_next(r[i]) ELSE r[i]]
      /\ blocks' = blocks /\ sorted' = sorted /\ w' = w /\ output' = output
  BY Zenon DEF BeginMerge
<1>2. /\ Types /\ Filled /\ Passes /\ ReadSoFar /\ MergeOrder /\ Conserved
      /\ w \in RunWriters(I) /\ r \in Seq(Readers(I)) /\ run_start \in Nat
      /\ OpenRun = <<>> /\ DOMAIN queue = {}
  BY <1>1, Zenon DEF SortInv, Types, Filled
<1>3. I' = I
  BY <1>1 DEF InputRows
<1>4. OpenRun' = OpenRun
  BY <1>1 DEF OpenRun
<1>5. \A i : i \in G <=> i \in 1 .. Len(r) /\ run_start < i /\ i <= run_start + MAX_NUM_STREAMS
  BY DEF Group
<1> HIDE DEF I, G
<1>6. Len(r) \in Nat /\ \A i \in 1 .. Len(r) : r[i] \in Readers(I)
  BY <1>2
<1>7. ASSUME NEW i \in G
      PROVE  /\ i \in 1 .. Len(r)
             /\ next(r[i]) \in I /\ after_next(r[i]) \in Readers(I)
             /\ unread(after_next(r[i])) \in Seq(I)
             /\ unread(r[i]) = <<next(r[i])>> \o unread(after_next(r[i]))
             /\ InOrder(unread(after_next(r[i])))
             /\ \A x \in ToSet(unread(after_next(r[i]))) : ~ less_than(x, next(r[i]))
  <2>1. i \in 1 .. Len(r) /\ ~ (i <= run_start)
    BY <1>2, <1>5
  <2>2. unread(r[i]) # <<>> /\ InOrder(unread(r[i]))
    BY <1>1, <1>2, <2>1, Zenon DEF ReadSoFar, MergeOrder
  <2>3. QED BY <1>6, <2>1, <2>2, ReadRun, Zenon
<1>8. /\ r' \in Seq(Readers(I)) /\ Len(r') = Len(r)
      /\ \A i \in 1 .. Len(r) : r'[i] = IF i \in G THEN after_next(r[i]) ELSE r[i]
  <2>1. \A i \in 1 .. Len(r) : r'[i] = IF i \in G THEN after_next(r[i]) ELSE r[i]
    BY <1>1, Zenon
  <2>2. \A i \in 1 .. Len(r) : r'[i] \in Readers(I)
    BY <1>6, <1>7, <2>1, Zenon
  <2>3. r' \in [1 .. Len(r) -> Readers(I)]
    BY <1>1, <1>6, <1>7
  <2>4. r' \in Seq(Readers(I)) /\ Len(r') = Len(r)
    BY <1>6, <2>3
  <2>5. QED BY <2>1, <2>4
<1>9. /\ DOMAIN queue' = G /\ \A i \in G : queue'[i] = next(r[i])
      /\ queue' \in [G -> I] /\ G \subseteq 1 .. Len(r)
  BY <1>1, <1>5, <1>7
<1>10. Types'
  <2>1. pc' \in {"sort_blocks", "pass", "merge", "done"}
    BY <1>1
  <2>2. /\ r' \in Seq(Readers(InputRows))' /\ queue' \in [DOMAIN queue' -> InputRows']
        /\ DOMAIN queue' \subseteq 1 .. Len(r')
    BY <1>3, <1>8, <1>9, Zenon DEF I
  <2>3. QED BY <1>1, <1>2, <1>3, <2>1, <2>2, Zenon DEF Types, I
<1>11. Filled'
  BY <1>1, <1>2, <1>4 DEF Filled
<1>12. Passes'
  <2>1. Group' = G
    BY <1>1, <1>8 DEF Group, G
  <2>2. run_start + 1 \in G
    BY <1>1, <1>2, <1>5, <1>6, StreamsAssumption
  <2>3. run_start' = Len(w'.runs) * MAX_NUM_STREAMS /\ run_start' < Len(r') + MAX_NUM_STREAMS
    BY <1>1, <1>2, <1>8, Zenon DEF Passes
  <2>4. sorted' = Len(blocks') /\ Len(r') >= 2
    BY <1>1, <1>2, <1>8, Zenon DEF Passes
  <2>5. QED BY <1>1, <1>8, <1>9, <2>1, <2>2, <2>3, <2>4 DEF Passes
<1>13. ReadSoFar'
  <2>1. ASSUME NEW i \in 1 .. Len(r), i \notin G PROVE unread(r'[i]) = unread(r[i])
    BY <1>8, <2>1, Zenon
  <2>2. ASSUME NEW i \in 1 .. Len(r), i <= run_start + MAX_NUM_STREAMS, i \notin G
        PROVE  unread(r'[i]) = <<>>
    <3>1. i <= run_start
      BY <1>2, <1>5, <2>2
    <3>2. unread(r[i]) = <<>>
      BY <1>1, <1>2, <3>1, Zenon DEF ReadSoFar
    <3>3. QED BY <2>1, <2>2, <3>2, Zenon
  <2>3. ASSUME NEW i \in 1 .. Len(r), run_start + MAX_NUM_STREAMS < i
        PROVE  unread(r'[i]) # <<>>
    <3>1. ~ (i <= run_start) /\ i \notin G
      BY <1>2, <1>5, <2>3, StreamsAssumption
    <3>2. unread(r[i]) # <<>>
      BY <1>1, <1>2, <3>1, Zenon DEF ReadSoFar
    <3>3. QED BY <2>1, <3>1, <3>2, Zenon
  <2>4. QED BY <1>1, <1>8, <1>9, <2>2, <2>3 DEF ReadSoFar
<1>14. MergeOrder'
  <2>1. ASSUME NEW i \in 1 .. Len(r) PROVE InOrder(unread(r'[i]))
    BY <1>2, <1>7, <1>8, Zenon DEF MergeOrder
  <2>2. ASSUME NEW i \in G
        PROVE  \A x \in ToSet(unread(r'[i])) : ~ less_than(x, queue'[i])
    BY <1>7, <1>8, <1>9, Zenon
  <2>3. ToSet(<<>>) = {} /\ OpenRun' = <<>>
    BY <1>2, <1>4 DEF ToSet
  <2>4. InOrder(<<>>)
    BY DEF InOrder
  <2>5. \A i \in 1 .. Len(w.runs) : InOrder(FlattenSeq(w.runs[i]))
    BY <1>2, Zenon DEF MergeOrder
  <2>6. QED BY <1>1, <1>8, <1>9, <2>1, <2>2, <2>3, <2>4, <2>5 DEF MergeOrder
<1>15. Conserved'
  <2> SUFFICES ASSUME NEW x \in I PROVE Placed(x)'
    BY <1>3, Zenon DEF Conserved, I
  <2> DEFINE U == UnreadRows(r)
             V == UnreadRows(r')
  <2>1. OnePlace(x, Unsorted, U, RunRows(w.runs), queue, OpenRun)
    BY <1>1, <1>2 DEF Conserved, Placed, I
  <2>2. /\ DOMAIN U = 1 .. Len(r) /\ DOMAIN V = 1 .. Len(r)
        /\ \A i \in 1 .. Len(r) : U[i] = unread(r[i]) /\ V[i] = unread(r'[i])
    BY <1>8, Zenon DEF UnreadRows
  <2> HIDE DEF U, V
  <2>3. G \subseteq DOMAIN U /\ DOMAIN V = DOMAIN U /\ G \cap DOMAIN queue = {}
    BY <1>2, <1>9, <2>2
  <2>4. DOMAIN queue' = DOMAIN queue \cup G
        /\ \A i \in DOMAIN queue : queue'[i] = queue[i]
    BY <1>2, <1>9
  <2>5. \A i \in G : queue'[i] \in I /\ V[i] \in Seq(I) /\ U[i] = <<queue'[i]>> \o V[i]
    BY <1>7, <1>8, <1>9, <2>2, Zenon
  <2>6. \A i \in DOMAIN U \ G : V[i] = U[i]
    BY <1>8, <2>2
  <2>7. OnePlace(x, Unsorted, V, RunRows(w.runs), queue', OpenRun)
    <3>1. HeadsRead(I, G, U, V, queue, queue')
      BY <2>3, <2>4, <2>5, <2>6, Zenon DEF HeadsRead
    <3>2. QED BY <2>1, <3>1, HeadsMove, Zenon
  <2>8. Unsorted' = Unsorted
    BY <1>1 DEF Unsorted
  <2>9. QED BY <1>1, <1>4, <2>7, <2>8, Zenon DEF Placed, V
<1>16. Returned'
  BY <1>1 DEF Returned
<1>17. QED BY <1>10, <1>11, <1>12, <1>13, <1>14, <1>15, <1>16, Zenon DEF SortInv

(* The merged group is one run.                                            *)
LEMMA FinishRunInv == SortInv /\ FinishRun => SortInv'
<1> SUFFICES ASSUME SortInv, FinishRun PROVE SortInv'
  OBVIOUS
<1> DEFINE I == InputRows
<1>1. /\ pc = "merge" /\ pc' = "pass" /\ DOMAIN queue = {} /\ w' = finish_run(w)
      /\ run_start' = run_start + MAX_NUM_STREAMS
      /\ blocks' = blocks /\ sorted' = sorted /\ r' = r /\ queue' = queue /\ output' = output
  BY Zenon DEF FinishRun
<1>2. /\ Types /\ Filled /\ Passes /\ ReadSoFar /\ MergeOrder /\ Conserved
      /\ w \in RunWriters(I) /\ run_start \in Nat /\ run_start < Len(r)
      /\ run_start = Len(w.runs) * MAX_NUM_STREAMS
      /\ OpenRun # <<>> /\ InOrder(OpenRun) /\ output = <<>>
  BY <1>1, Zenon DEF SortInv, Types, Passes, Filled, MergeOrder
<1>3. I' = I
  BY <1>1 DEF InputRows
<1> DEFINE root == w'.container.root
           X == w'.runs
<1> HIDE DEF I
<1>4. /\ w' \in RunWriters(I) /\ Written(w'.container) = <<>> /\ w'.container.finished
      /\ root \in Buffers(I) /\ FlattenSeq(root) = Written(w.container)
      /\ X = Append(w.runs, root)
  BY <1>1, <1>2, FinishRunIs, Zenon
<1> HIDE DEF root, X
<1>5. FlattenSeq(root) = OpenRun
  BY <1>4, Zenon DEF OpenRun, Written
<1>6. root # <<>>
  <2>1. FlattenSeq(<<>>) = <<>>
    BY DEF FlattenSeq
  <2>2. QED BY <1>2, <1>5, <2>1, Zenon
<1>7. w.runs \in Seq(Buffers(I))
  BY <1>2 DEF RunWriters
<1>8. /\ \A i \in 1 .. Len(w.runs) : w.runs[i] # <<>>
      /\ \A i \in 1 .. Len(w.runs) : InOrder(FlattenSeq(w.runs[i]))
  BY <1>2, Zenon DEF Filled, MergeOrder
<1>9. /\ Len(X) = Len(w.runs) + 1 /\ Len(w.runs) \in Nat
      /\ X # <<>> /\ X[Len(X)] = root
      /\ \A i \in 1 .. Len(X) : X[i] # <<>>
      /\ \A i \in 1 .. Len(X) : InOrder(FlattenSeq(X[i]))
  <2>1. root \in Buffers(I) /\ X = Append(w.runs, root) /\ InOrder(FlattenSeq(root))
    BY <1>2, <1>4, <1>5, Zenon
  <2>2. QED BY <1>6, <1>7, <1>8, <2>1, RunsAppend
<1>10. OpenRun' = <<>>
  BY <1>4, Zenon DEF OpenRun, Written
<1>11. run_start' \in Nat /\ run_start' = Len(X) * MAX_NUM_STREAMS
       /\ run_start' < Len(r) + MAX_NUM_STREAMS
  <2>1. MAX_NUM_STREAMS \in Nat /\ Len(r) \in Nat
    BY <1>2, StreamsAssumption DEF Types
  <2>2. \A n, m \in Nat : (n + 1) * m = n * m + m
    OBVIOUS
  <2>3. (Len(w.runs) + 1) * MAX_NUM_STREAMS = Len(w.runs) * MAX_NUM_STREAMS + MAX_NUM_STREAMS
    BY <1>9, <2>1, <2>2, Zenon
  <2>4. run_start' = Len(X) * MAX_NUM_STREAMS
    BY <1>1, <1>2, <1>9, <2>3, Zenon
  <2>5. run_start' \in Nat /\ run_start' < Len(r) + MAX_NUM_STREAMS
    BY <1>1, <1>2, <2>1
  <2>6. QED BY <2>4, <2>5
<1>12. Types'
  <2>1. pc' \in {"sort_blocks", "pass", "merge", "done"}
    BY <1>1
  <2>2. InputRows' = InputRows /\ w' \in RunWriters(InputRows)
    BY <1>3, <1>4, Zenon DEF I
  <2>3. QED BY <1>1, <1>2, <1>11, <2>1, <2>2, Zenon DEF Types
<1>13. Filled'
  <2>1. /\ \A b \in 1 .. Len(blocks') : blocks'[b] # {}
        /\ DOMAIN queue' = {} /\ output' = <<>>
    BY <1>1, <1>2, Zenon DEF Filled
  <2>2. QED BY <1>4, <1>9, <1>10, <2>1, Zenon DEF Filled, X, root
<1>14. Passes'
  <2>1. sorted' = Len(blocks') /\ Len(r') >= 2
    BY <1>1, <1>2, Zenon DEF Passes
  <2>2. QED BY <1>1, <1>11, <2>1 DEF Passes, X
<1>15. ReadSoFar'
  <2>1. ASSUME NEW i \in 1 .. Len(r) PROVE unread(r[i]) = <<>> <=> i <= run_start'
    <3>1. i <= run_start + MAX_NUM_STREAMS \/ run_start + MAX_NUM_STREAMS < i
      BY <1>1, <1>11
    <3>2. ~ (i <= run_start + MAX_NUM_STREAMS /\ run_start + MAX_NUM_STREAMS < i)
      BY <1>1, <1>11
    <3>3. QED BY <1>1, <1>2, <3>1, <3>2 DEF ReadSoFar
  <2>2. QED BY <1>1, <2>1 DEF ReadSoFar
<1>16. MergeOrder'
  <2>1. InOrder(<<>>) /\ DOMAIN queue' = {}
    BY <1>1 DEF InOrder
  <2>2. QED BY <1>1, <1>2, <1>9, <1>10, <2>1, Zenon DEF MergeOrder, X
<1>17. Conserved'
  <2> SUFFICES ASSUME NEW x \in I PROVE Placed(x)'
    BY <1>3, Zenon DEF Conserved, I
  <2>1. OnePlace(x, Unsorted, UnreadRows(r), RunRows(w.runs), queue, OpenRun)
    BY <1>1, <1>2 DEF Conserved, Placed, I
  <2>2. RunRows(w.runs) \in Seq(Seq(I)) /\ RunRows(X) = Append(RunRows(w.runs), OpenRun)
    BY <1>4, <1>5, <1>7, RunRowsAre, Zenon
  <2>3. OpenRun \in Seq(I)
    <3>1. w.container \in Writers(I)
      BY <1>2 DEF RunWriters
    <3>2. QED BY <3>1, WrittenRows, Zenon DEF OpenRun, Written
  <2>4. OnePlace(x, Unsorted, UnreadRows(r), Append(RunRows(w.runs), OpenRun), queue, <<>>)
    BY <2>1, <2>2, <2>3, OpenMoves, Zenon
  <2>5. Unsorted' = Unsorted
    BY <1>1 DEF Unsorted
  <2>6. QED BY <1>1, <1>10, <2>2, <2>4, <2>5, Zenon DEF Placed, X
<1>18. Returned'
  BY <1>1 DEF Returned
<1>19. QED BY <1>12, <1>13, <1>14, <1>15, <1>16, <1>17, <1>18, Zenon DEF SortInv

(* A row of the queue, than which no other is less, is merged.             *)
LEMMA MergeRowInv == SortInv /\ MergeRow => SortInv'
<1> SUFFICES ASSUME SortInv, MergeRow PROVE SortInv'
  OBVIOUS
<1> DEFINE I == InputRows
<1>1. PICK i \in DOMAIN queue :
        /\ pc = "merge" /\ pc' = pc /\ blocks' = blocks /\ sorted' = sorted
        /\ run_start' = run_start /\ output' = output
        /\ IsTop(i) /\ w' = run_append(w, queue[i])
        /\ IF has_next(r[i])
             THEN /\ queue' = [queue EXCEPT ![i] = next(r[i])]
                  /\ r' = [r EXCEPT ![i] = after_next(r[i])]
             ELSE /\ queue' = [j \in DOMAIN queue \ {i} |-> queue[j]]
                  /\ r' = r
  BY Zenon DEF MergeRow
<1> DEFINE y == queue[i]
           y2 == next(r[i])
<1>2. /\ Types /\ Filled /\ Passes /\ ReadSoFar /\ MergeOrder /\ Conserved
      /\ w \in RunWriters(I) /\ r \in Seq(Readers(I)) /\ run_start \in Nat
      /\ DOMAIN queue \subseteq 1 .. Len(r) /\ queue \in [DOMAIN queue -> I]
      /\ DOMAIN queue \subseteq Group
  BY <1>1, Zenon DEF SortInv, Types, Passes
<1>3. I' = I
  BY <1>1 DEF InputRows
<1>4. I \subseteq Rows
  <2>1. \A b \in 1 .. Len(blocks) : blocks[b] \subseteq Rows
    BY <1>2 DEF Types
  <2>2. QED BY <2>1 DEF InputRows
<1> HIDE DEF I
<1>5. /\ i \in 1 .. Len(r) /\ y \in I /\ r[i] \in Readers(I) /\ InOrder(unread(r[i]))
      /\ i <= run_start + MAX_NUM_STREAMS
  <2>1. i \in 1 .. Len(r) /\ y \in I
    BY <1>2
  <2>2. InOrder(unread(r[i]))
    BY <1>2, <2>1, Zenon DEF MergeOrder
  <2>3. i <= run_start + MAX_NUM_STREAMS
    BY <1>2 DEF Group
  <2>4. r[i] \in Readers(I)
    BY <1>2, <2>1
  <2>5. QED BY <2>1, <2>2, <2>3, <2>4, Zenon
<1>6. /\ w' \in RunWriters(I) /\ w'.runs = w.runs
      /\ w'.container.root = w.container.root /\ w'.container.finished = w.container.finished
      /\ OpenRun' = Append(OpenRun, y) /\ OpenRun \in Seq(I)
  <2>1. /\ w' \in RunWriters(I) /\ w'.runs = w.runs
        /\ w'.container.root = w.container.root
        /\ w'.container.finished = w.container.finished
        /\ Written(w'.container) = Append(Written(w.container), y)
    <3>1. w' = run_append(w, y) /\ w \in RunWriters(I) /\ y \in I
      BY <1>1, <1>2, <1>5, Zenon
    <3> HIDE DEF y
    <3>2. /\ run_append(w, y) \in RunWriters(I)
          /\ run_append(w, y).runs = w.runs
          /\ Written(run_append(w, y).container) = Append(Written(w.container), y)
          /\ run_append(w, y).container.root = w.container.root
          /\ run_append(w, y).container.finished = w.container.finished
      BY <3>1, RunAppendIs, Zenon
    <3>3. QED BY <3>1, <3>2, Zenon
  <2>2. w.container \in Writers(I)
    BY <1>2 DEF RunWriters
  <2>3. Written(w.container) \in Seq(I)
    BY <2>2, WrittenRows, Zenon
  <2>4. QED BY <2>1, <2>3, Zenon DEF OpenRun, Written
<1>7. /\ r' \in Seq(Readers(I)) /\ Len(r') = Len(r)
      /\ \A k \in 1 .. Len(r) : k # i => r'[k] = r[k]
      /\ DOMAIN queue \ {i} \subseteq DOMAIN queue' /\ DOMAIN queue' \subseteq DOMAIN queue
      /\ \A k \in DOMAIN queue' : k # i => queue'[k] = queue[k]
      /\ i \in DOMAIN queue' => /\ queue'[i] = y2 /\ y2 \in I /\ ~ less_than(y2, y)
                                /\ unread(r'[i]) \in Seq(I)
                                /\ unread(r[i]) = <<y2>> \o unread(r'[i])
                                /\ \A x \in ToSet(unread(r'[i])) : ~ less_than(x, y2)
      /\ i \notin DOMAIN queue' => unread(r'[i]) = <<>> /\ r' = r
      /\ InOrder(unread(r'[i]))
  <2>1. CASE has_next(r[i])
    <3>1. unread(r[i]) # <<>>
      BY <1>5, <2>1, ReadNext, Zenon
    <3>2. /\ y2 \in I /\ after_next(r[i]) \in Readers(I)
          /\ unread(after_next(r[i])) \in Seq(I)
          /\ unread(r[i]) = <<y2>> \o unread(after_next(r[i]))
          /\ InOrder(unread(after_next(r[i])))
          /\ y2 \in ToSet(unread(r[i]))
          /\ \A x \in ToSet(unread(after_next(r[i]))) : ~ less_than(x, y2)
      BY <1>5, <3>1, ReadRun, Zenon
    <3>3. ~ less_than(y2, y)
      BY <1>2, <3>2, Zenon DEF MergeOrder
    <3>4. /\ queue' = [queue EXCEPT ![i] = y2] /\ r' = [r EXCEPT ![i] = after_next(r[i])]
      BY <1>1, <2>1, Zenon
    <3> HIDE DEF y, y2
    <3>5. /\ r' \in Seq(Readers(I)) /\ Len(r') = Len(r) /\ r'[i] = after_next(r[i])
          /\ \A k \in 1 .. Len(r) : k # i => r'[k] = r[k]
      BY <1>2, <1>5, <3>2, <3>4
    <3>6. /\ DOMAIN queue' = DOMAIN queue /\ queue'[i] = y2
          /\ \A k \in DOMAIN queue' : k # i => queue'[k] = queue[k]
      BY <1>2, <3>4
    <3>7. DOMAIN queue \ {i} \subseteq DOMAIN queue' /\ i \in DOMAIN queue'
      BY <3>6
    <3>8. QED BY <3>2, <3>3, <3>5, <3>6, <3>7
  <2>2. CASE ~ has_next(r[i])
    <3>1. unread(r[i]) = <<>>
      BY <1>5, <2>2, ReadNext, Zenon
    <3>2. queue' = [j \in DOMAIN queue \ {i} |-> queue[j]] /\ r' = r
      BY <1>1, <2>2, Zenon
    <3>3. /\ DOMAIN queue' = DOMAIN queue \ {i} /\ i \notin DOMAIN queue'
          /\ \A k \in DOMAIN queue' : k # i => queue'[k] = queue[k]
      BY <3>2
    <3>4. QED BY <1>2, <1>5, <3>1, <3>2, <3>3
  <2>3. QED BY <2>1, <2>2, Zenon
<1> HIDE DEF y, y2
<1>8. queue' \in [DOMAIN queue' -> I]
  <2>1. \A k \in DOMAIN queue' : queue'[k] \in I
    <3> TAKE k \in DOMAIN queue'
    <3>1. CASE k = i
      BY <1>7, <3>1, Zenon
    <3>2. CASE k # i
      BY <1>2, <1>7, <3>2
    <3>3. QED BY <3>1, <3>2
  <2>2. queue' = [k \in DOMAIN queue' |-> queue'[k]]
    <3>1. queue' = [queue EXCEPT ![i] = next(r[i])]
          \/ queue' = [j \in DOMAIN queue \ {i} |-> queue[j]]
      BY <1>1, Zenon
    <3>2. CASE queue' = [queue EXCEPT ![i] = next(r[i])]
      BY <1>2, <3>2
    <3>3. CASE queue' = [j \in DOMAIN queue \ {i} |-> queue[j]]
      BY <3>3
    <3>4. QED BY <3>1, <3>2, <3>3
  <2>3. QED BY <2>1, <2>2
<1>9. Types'
  <2>1. DOMAIN queue' \subseteq 1 .. Len(r')
    BY <1>2, <1>7
  <2>2. /\ r' \in Seq(Readers(InputRows))' /\ queue' \in [DOMAIN queue' -> InputRows']
        /\ w' \in RunWriters(InputRows)'
    BY <1>3, <1>6, <1>7, <1>8, Zenon DEF I
  <2>3. QED BY <1>1, <1>2, <1>3, <2>1, <2>2, Zenon DEF Types, I
<1>10. Filled'
  BY <1>1, <1>2, <1>6, Zenon DEF Filled
<1>11. Passes'
  <2>1. Group' = Group
    BY <1>1, <1>7 DEF Group
  <2>2. OpenRun' # <<>>
    BY <1>5, <1>6
  <2>3. DOMAIN queue' \subseteq Group'
    BY <1>2, <1>7, <2>1
  <2>4. /\ sorted = Len(blocks) /\ Len(r) >= 2 /\ run_start = Len(w.runs) * MAX_NUM_STREAMS
        /\ run_start < Len(r) + MAX_NUM_STREAMS /\ run_start < Len(r)
    BY <1>1, <1>2, Zenon DEF Passes
  <2>5. /\ sorted' = Len(blocks') /\ Len(r') >= 2
        /\ run_start' = Len(w'.runs) * MAX_NUM_STREAMS
        /\ run_start' < Len(r') + MAX_NUM_STREAMS /\ run_start' < Len(r')
    BY <1>1, <1>6, <1>7, <2>4, Zenon
  <2>6. pc' = "merge" /\ pc' # "sort_blocks"
    BY <1>1
  <2>7. QED BY <2>2, <2>3, <2>5, <2>6, Zenon DEF Passes
<1>12. ReadSoFar'
  <2>1. ASSUME NEW k \in 1 .. Len(r), k <= run_start + MAX_NUM_STREAMS, k \notin DOMAIN queue'
        PROVE  unread(r'[k]) = <<>>
    <3>1. CASE k = i
      BY <1>7, <2>1, <3>1, Zenon
    <3>2. CASE k # i
      <4>1. k \notin DOMAIN queue
        BY <1>7, <2>1, <3>2
      <4>2. unread(r[k]) = <<>>
        BY <1>1, <1>2, <2>1, <4>1, Zenon DEF ReadSoFar
      <4>3. QED BY <1>7, <3>2, <4>2, Zenon
    <3>3. QED BY <3>1, <3>2
  <2>2. ASSUME NEW k \in 1 .. Len(r), run_start + MAX_NUM_STREAMS < k
        PROVE  unread(r'[k]) # <<>>
    <3>1. k # i
      BY <1>2, <1>5, <2>2, StreamsAssumption
    <3>2. unread(r[k]) # <<>>
      BY <1>1, <1>2, <2>2, Zenon DEF ReadSoFar
    <3>3. QED BY <1>7, <3>1, <3>2, Zenon
  <2>3. pc' = "merge" /\ pc' # "pass"
    BY <1>1
  <2>4. QED BY <1>1, <1>7, <2>1, <2>2, <2>3, Zenon DEF ReadSoFar
<1>13. MergeOrder'
  <2>1. /\ \A k \in 1 .. Len(r) : InOrder(unread(r[k]))
        /\ \A k \in 1 .. Len(w.runs) : InOrder(FlattenSeq(w.runs[k]))
        /\ InOrder(OpenRun)
        /\ \A k \in DOMAIN queue :
             /\ \A x \in ToSet(unread(r[k])) : ~ less_than(x, queue[k])
             /\ \A x \in ToSet(OpenRun) : ~ less_than(queue[k], x)
    BY <1>2, Zenon DEF MergeOrder
  <2>2. ToSet(OpenRun) \subseteq I
    BY <1>6 DEF ToSet
  <2>3. \A x \in ToSet(OpenRun) : ~ less_than(y, x)
    BY <2>1, Zenon DEF y
  <2>4. InOrder(OpenRun') /\ ToSet(OpenRun') = ToSet(OpenRun) \cup {y}
    BY <1>5, <1>6, <2>1, <2>3, AppendInOrder, Zenon
  <2>5. \A k \in DOMAIN queue : ~ less_than(queue[k], y)
    BY <1>1, Zenon DEF IsTop, y
  <2>6. ASSUME NEW k \in DOMAIN queue'
        PROVE  /\ \A x \in ToSet(unread(r'[k])) : ~ less_than(x, queue'[k])
               /\ \A x \in ToSet(OpenRun') : ~ less_than(queue'[k], x)
    <3>1. CASE k = i
      <4>1. /\ queue'[i] = y2 /\ y2 \in I /\ ~ less_than(y2, y)
            /\ \A x \in ToSet(unread(r'[i])) : ~ less_than(x, y2)
        BY <1>7, <3>1, Zenon
      <4>2. ASSUME NEW x \in ToSet(OpenRun) PROVE ~ less_than(y2, x)
        <5>1. x \in Rows /\ y \in Rows /\ y2 \in Rows /\ ~ less_than(y, x)
          BY <1>4, <1>5, <2>2, <2>3, <4>1
        <5>2. QED BY <4>1, <5>1, NotLess, Zenon
      <4>3. QED BY <2>4, <3>1, <4>1, <4>2
    <3>2. CASE k # i
      <4>1. k \in DOMAIN queue /\ queue'[k] = queue[k] /\ r'[k] = r[k]
        BY <1>2, <1>7, <3>2
      <4>2. QED BY <2>1, <2>4, <2>5, <4>1
    <3>3. QED BY <3>1, <3>2
  <2>7. \A k \in 1 .. Len(r') : InOrder(unread(r'[k]))
    BY <1>7, <2>1, Zenon
  <2>8. QED BY <1>6, <2>1, <2>4, <2>6, <2>7, Zenon DEF MergeOrder
<1>14. Conserved'
  <2> SUFFICES ASSUME NEW x \in I PROVE Placed(x)'
    BY <1>3, Zenon DEF Conserved, I
  <2> DEFINE U == UnreadRows(r)
             V == UnreadRows(r')
             Q == [j \in DOMAIN queue \ {i} |-> queue[j]]
  <2>1. OnePlace(x, Unsorted, U, RunRows(w.runs), queue, OpenRun)
    BY <1>1, <1>2 DEF Conserved, Placed, I
  <2>2. /\ DOMAIN U = 1 .. Len(r) /\ DOMAIN V = 1 .. Len(r)
        /\ \A k \in 1 .. Len(r) : U[k] = unread(r[k]) /\ V[k] = unread(r'[k])
    BY <1>7, Zenon DEF UnreadRows
  <2>3. DOMAIN Q = DOMAIN queue \ {i} /\ \A k \in DOMAIN Q : Q[k] = queue[k]
    OBVIOUS
  <2> HIDE DEF U, V
  <2>4. OnePlace(x, Unsorted, U, RunRows(w.runs), Q, OpenRun')
    <3> HIDE DEF Q
    <3>1. queue[i] \in I
      BY <1>5, Zenon DEF y
    <3>2. OnePlace(x, Unsorted, U, RunRows(w.runs), Q, Append(OpenRun, queue[i]))
      BY <1>6, <2>1, <2>3, <3>1, TopMoves, Zenon
    <3>3. QED BY <1>6, <3>2, Zenon DEF y
  <2>5. OnePlace(x, Unsorted, V, RunRows(w.runs), queue', OpenRun')
    <3>1. CASE i \in DOMAIN queue'
      <4> HIDE DEF Q
      <4>1. HeadsRead(I, {i}, U, V, Q, queue')
        <5>1. {i} \subseteq DOMAIN U /\ DOMAIN V = DOMAIN U /\ {i} \cap DOMAIN Q = {}
          BY <1>5, <2>2, <2>3
        <5>2. DOMAIN queue' = DOMAIN Q \cup {i} /\ \A k \in DOMAIN Q : queue'[k] = Q[k]
          BY <1>7, <2>3, <3>1
        <5>3. queue'[i] \in I /\ V[i] \in Seq(I) /\ U[i] = <<queue'[i]>> \o V[i]
          BY <1>5, <1>7, <2>2, <3>1, Zenon
        <5>4. \A k \in DOMAIN U \ {i} : V[k] = U[k]
          BY <1>7, <2>2
        <5>5. QED BY <5>1, <5>2, <5>3, <5>4 DEF HeadsRead
      <4>2. QED BY <2>4, <4>1, HeadsMove, Zenon
    <3>2. CASE i \notin DOMAIN queue'
      <4>1. queue' = Q
        <5>1. DOMAIN queue' = DOMAIN queue \ {i} /\ \A k \in DOMAIN queue' : queue'[k] = queue[k]
          BY <1>7, <3>2
        <5>2. queue' = [k \in DOMAIN queue' |-> queue'[k]]
          BY <1>8
        <5>3. QED BY <5>1, <5>2
      <4>2. r' = r
        BY <1>7, <3>2, Zenon
      <4>3. V = U
        BY <4>2 DEF U, V
      <4> HIDE DEF Q
      <4>4. QED BY <2>4, <4>1, <4>3, Zenon
    <3>3. QED BY <3>1, <3>2
  <2>6. Unsorted' = Unsorted
    BY <1>1 DEF Unsorted
  <2>7. QED BY <1>6, <2>5, <2>6, Zenon DEF Placed, V
<1>15. Returned'
  BY <1>1 DEF Returned
<1>16. QED BY <1>9, <1>10, <1>11, <1>12, <1>13, <1>14, <1>15, Zenon DEF SortInv

---------------------------------------------------------------------------
(* The theorems. *)

(* A step that changes nothing keeps the invariant.                        *)
LEMMA StutterInv == SortInv /\ UNCHANGED vars => SortInv'
BY DEF SortInv, vars, Types, Filled, Passes, Group, ReadSoFar, Conserved, Placed, Unsorted,
       OpenRun, MergeOrder, Returned, InputRows

(* SortInv holds of every state of the sort.                               *)
THEOREM SortInvariance == Spec => []SortInv
<1>1. SortInv /\ [Next]_vars => SortInv'
  BY SortBlockInv, FinishBlocksInv, BeginMergeInv, MergeRowInv, FinishRunInv, FinishPassInv,
     StutterInv, Zenon DEF Next
<1>2. QED BY SortInvInit, <1>1, PTL DEF Spec

(* However many blocks there are and however many runs are merged at a     *)
(* time, no pass drops, skips or repeats a row.                            *)
THEOREM RowsAreConserved == Spec => []RowsConserved
<1>1. SortInv => RowsConserved
  <2> SUFFICES ASSUME SortInv, pc # "done", NEW x \in InputRows
               PROVE  Cardinality(Places(x)) = 1
    BY Zenon DEF RowsConserved
  <2>1. OnePlace(x, Unsorted, UnreadRows(r), RunRows(w.runs), queue, OpenRun)
    BY Zenon DEF SortInv, Conserved, Placed
  <2>2. PICK p : \A q : IsPlace(q, x, Unsorted, UnreadRows(r), RunRows(w.runs), queue, OpenRun)
                          <=> q = p
    BY <2>1, Zenon DEF OnePlace
  <2>3. \A q : q \in Places(x) <=> q = p
    BY <2>2, PlacesAre
  <2>4. Places(x) = {p}
    BY <2>3
  <2>5. QED BY <2>4, FS_Singleton
<1>2. QED BY SortInvariance, <1>1, PTL

(* The runs, the queue and the open run are always in the order that makes *)
(* the merge correct.                                                      *)
THEOREM MergeIsOrdered == Spec => []MergeOrder
<1>1. SortInv => MergeOrder
  BY Zenon DEF SortInv
<1>2. QED BY SortInvariance, <1>1, PTL

(* qexternal_merge always finds a first row in the runs of its group, and  *)
(* a reader never comes to a block without one.                            *)
THEOREM UnreadRunsAreNotEmpty == Spec => []UnreadRunsNotEmpty
<1>1. SortInv => UnreadRunsNotEmpty
  <2> SUFFICES ASSUME SortInv PROVE UnreadRunsNotEmpty
    OBVIOUS
  <2>1. r \in Seq(Readers(InputRows)) /\ run_start \in Nat /\ ReadSoFar
    BY DEF SortInv, Types
  <2>2. \A i \in 1 .. Len(r) : r[i] \in Readers(InputRows)
    BY <2>1
  <2>3. ASSUME pc = "pass", NEW i \in 1 .. Len(r), run_start < i PROVE has_next(r[i])
    <3>1. ~ (i <= run_start)
      BY <2>1, <2>3
    <3>2. unread(r[i]) # <<>>
      BY <2>1, <2>3, <3>1, Zenon DEF ReadSoFar
    <3>3. QED BY <2>2, <3>2, ReadNext, Zenon
  <2>4. ASSUME NEW i \in 1 .. Len(r), NEW b \in ToSet(r[i].blocks) PROVE b # <<>>
    <3>1. r[i].blocks \in Seq(BlocksOver(InputRows))
      BY <2>2 DEF Readers, Buffers
    <3>2. b \in BlocksOver(InputRows)
      BY <3>1 DEF ToSet
    <3>3. QED BY <3>2 DEF BlocksOver
  <2>5. QED BY <2>3, <2>4, Zenon DEF UnreadRunsNotEmpty
<1>2. QED BY SortInvariance, <1>1, PTL

(* The sort cannot go on reading runs back: every pass leaves fewer.       *)
THEOREM PassesDoShrink == Spec => PassesShrink
<1>1. SortInv /\ [Next]_vars => [pc = "pass" /\ pc' = "pass" => Len(r') < Len(r)]_vars
  <2> SUFFICES ASSUME SortInv, Next, pc = "pass", pc' = "pass" PROVE Len(r') < Len(r)
    OBVIOUS
  <2>1. FinishPass
    BY DEF Next, SortBlock, FinishBlocks, BeginMerge, MergeRow, FinishRun
  <2>2. run_start >= Len(r) /\ Len(w.runs) > 1 /\ r' = RunReaders(w.runs)
    BY <2>1 DEF FinishPass, ReadRunsBack, OutputSingleRun
  <2>3. /\ run_start = Len(w.runs) * MAX_NUM_STREAMS
        /\ run_start < Len(r) + MAX_NUM_STREAMS
        /\ Len(w.runs) \in Nat /\ Len(r) \in Nat
    BY DEF SortInv, Passes, Types, RunWriters
  <2>4. Len(r') = Len(w.runs)
    BY <2>2, <2>3 DEF RunReaders
  <2> DEFINE k == Len(w.runs)
             L == Len(r)
             M == MAX_NUM_STREAMS
  <2> HIDE DEF k, L, M
  <2>5. k \in Nat /\ L \in Nat /\ M \in Nat /\ 2 <= M /\ 1 < k /\ k * M < L + M
    BY <2>2, <2>3, StreamsAssumption DEF k, L, M
  <2>6. PICK j \in Nat : k = j + 1
    BY <2>5
  <2>7. k * M = j * M + M /\ j * M \in Nat
    BY <2>5, <2>6
  <2>8. 2 * j <= M * j /\ M * j = j * M
    BY <2>5, <2>6, MulMonotone
  <2>9. k < L
    BY <2>5, <2>6, <2>7, <2>8
  <2>10. QED BY <2>4, <2>9 DEF k, L
<1>2. QED BY SortInvariance, <1>1, PTL DEF Spec, PassesShrink

(* The safety of SortSpec: the sort returns once, and what it returns is   *)
(* every row of the input, once each and in order.                         *)
THEOREM ReturnsSorted == Spec => Sort!Init /\ [][Sort!Return]_(Sort!sortVars)
<1>1. Init => Sort!Init
  <2> SUFFICES ASSUME Init PROVE Sort!Init
    OBVIOUS
  <2>1. blocks \in Seq(SUBSET Rows)
    BY InputBlocks, Zenon DEF Init
  <2>2. InputRows \subseteq Rows
    BY <2>1 DEF InputRows
  <2>3. FlattenSeq(output) = <<>>
    BY DEF Init, FlattenSeq
  <2>4. QED BY <2>2, <2>3 DEF Init, Sort!Init
<1>2. SortInv /\ SortInv' /\ [Next]_vars => [Sort!Return]_(Sort!sortVars)
  <2> SUFFICES ASSUME SortInv, SortInv', [Next]_vars
               PROVE  [Sort!Return]_(Sort!sortVars)
    OBVIOUS
  <2>1. InputRows' = InputRows
    BY DEF Next, vars, SortBlock, FinishBlocks, BeginMerge, MergeRow, FinishRun, FinishPass,
           InputRows
  <2>2. CASE pc # "done" /\ pc' = "done"
    <3>1. IsEnumerationOf(FlattenSeq(output'), InputRows) /\ InOrder(FlattenSeq(output'))
      BY <2>1, <2>2, Zenon DEF SortInv, Returned
    <3>2. QED BY <2>1, <2>2, <3>1
           DEF Sort!Return, Sort!IsEnumerationOf, Sort!InOrder, Sort!less_than,
               IsEnumerationOf, InOrder, less_than
  <2>3. CASE ~ (pc # "done" /\ pc' = "done")
    <3>1. output' = output /\ (pc' = "done" <=> pc = "done")
      BY <2>3 DEF Next, vars, SortBlock, FinishBlocks, BeginMerge, MergeRow, FinishRun,
                  FinishPass, ReadRunsBack, OutputSingleRun
    <3>2. QED BY <2>1, <3>1 DEF Sort!sortVars
  <2>4. QED BY <2>2, <2>3
<1>3. QED BY SortInvariance, <1>1, <1>2, PTL DEF Spec
=============================================================================
