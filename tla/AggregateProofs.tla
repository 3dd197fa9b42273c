-------------------------- MODULE AggregateProofs --------------------------
(***************************************************************************)
(* For any rows, grouping keys and number of partitions, and every loss of *)
(* cached partitions: the aggregation gives one aggregate for each group,  *)
(* of all rows of the group and of no other. The two enclave calls are     *)
(* proved first, as loops over the rows of a partition. What they are      *)
(* handed from the neighbours matters in one way only: it ends groups that *)
(* have ended. A group lies in one partition, since the boundaries between *)
(* partitions fall between keys.                                           *)
(***************************************************************************)
EXTENDS Aggregate, CommonLemmas, FiniteSetTheorems

---------------------------------------------------------------------------
(* Groups of aggregated rows. *)

GroupOf(R, x) == {y \in R : is_same_group(x, y)}

(* Each element of out is a group of R, and each row of R is in one.       *)
IsGroups(out, R) ==
  /\ out \in Seq(Seq(Rows))
  /\ \A i \in 1 .. Len(out) : \E x \in R : IsEnumerationOf(out[i], GroupOf(R, x))
  /\ \A x \in R : \E i \in 1 .. Len(out) : x \in ToSet(out[i])
  /\ \A i, j \in 1 .. Len(out) :
       ToSet(out[i]) \cap ToSet(out[j]) # {} => i = j

LEMMA NoGroups == IsGroups(<<>>, {})
BY DEF IsGroups

LEMMA EnumeratedSet ==
  ASSUME NEW s \in Seq(Rows), NEW S, IsEnumerationOf(s, S)
  PROVE  ToSet(s) = S
<1>1. DOMAIN s = 1 .. Len(s)
  OBVIOUS
<1>2. QED BY <1>1 DEF ToSet, IsEnumerationOf

(* One more group, of a key that is above all others.                      *)
LEMMA GroupAppended ==
  ASSUME NEW U \in SUBSET Rows, NEW out, IsGroups(out, U),
         NEW G \in SUBSET Rows, NEW x \in G, \A y \in G : Key[y] = Key[x],
         \A u \in U : Key[u] < Key[x],
         NEW g \in Seq(Rows), IsEnumerationOf(g, G)
  PROVE  IsGroups(Append(out, g), U \cup G)
<1> DEFINE n == Len(out)
           o == Append(out, g)
<1>1. /\ out \in Seq(Seq(Rows)) /\ n \in Nat
      /\ o \in Seq(Seq(Rows)) /\ Len(o) = n + 1 /\ o[n + 1] = g
      /\ \A i \in 1 .. n : o[i] = out[i]
  BY DEF IsGroups
<1> HIDE DEF o
<1>2. /\ \A i \in 1 .. n : \E u \in U : IsEnumerationOf(out[i], GroupOf(U, u))
      /\ \A u \in U : \E i \in 1 .. n : u \in ToSet(out[i])
      /\ \A i, j \in 1 .. n : ToSet(out[i]) \cap ToSet(out[j]) # {} => i = j
  BY DEF IsGroups
<1> HIDE DEF n
<1>3. /\ 1 .. n + 1 = (1 .. n) \cup {n + 1}
      /\ \A i \in 1 .. n : i # n + 1
  BY <1>1
<1>4. /\ \A y \in U \cup G : Key[y] \in Int
      /\ \A u \in U : \A y \in G : ~ is_same_group(u, y) /\ ~ is_same_group(y, u)
      /\ \A y \in G : is_same_group(x, y)
      /\ U \cap G = {}
  <2>1. \A y \in U \cup G : Key[y] \in Int
    BY RowsAssumption
  <2>2. \A u \in U : \A y \in G : Key[u] < Key[y] /\ Key[u] # Key[y]
    BY <2>1
  <2>3. U \cap G = {}
    BY <2>2
  <2>4. QED BY <2>1, <2>2, <2>3 DEF is_same_group
<1>5. /\ \A u \in U : GroupOf(U \cup G, u) = GroupOf(U, u)
      /\ GroupOf(U \cup G, x) = G
  BY <1>4 DEF GroupOf
<1>6. ToSet(g) = G
  BY EnumeratedSet
<1>7. \A i \in 1 .. n : ToSet(out[i]) \subseteq U
  <2> SUFFICES ASSUME NEW i \in 1 .. n PROVE ToSet(out[i]) \subseteq U
    OBVIOUS
  <2>1. PICK u \in U : IsEnumerationOf(out[i], GroupOf(U, u))
    BY <1>2
  <2>2. out[i] \in Seq(Rows)
    BY <1>1 DEF n
  <2>3. ToSet(out[i]) = GroupOf(U, u)
    BY <2>1, <2>2, EnumeratedSet
  <2>4. QED BY <2>3 DEF GroupOf
<1>8. \A i \in 1 .. n + 1 : \E y \in U \cup G : IsEnumerationOf(o[i], GroupOf(U \cup G, y))
  <2>1. ASSUME NEW i \in 1 .. n
        PROVE  \E y \in U \cup G : IsEnumerationOf(o[i], GroupOf(U \cup G, y))
    <3>1. PICK u \in U : IsEnumerationOf(out[i], GroupOf(U, u))
      BY <1>2
    <3>2. QED BY <1>1, <1>5, <3>1
  <2>2. IsEnumerationOf(o[n + 1], GroupOf(U \cup G, x))
    BY <1>1, <1>5
  <2>3. QED BY <1>3, <2>1, <2>2
<1>9. \A y \in U \cup G : \E i \in 1 .. n + 1 : y \in ToSet(o[i])
  <2>1. ASSUME NEW u \in U PROVE \E i \in 1 .. n + 1 : u \in ToSet(o[i])
    <3>1. PICK i \in 1 .. n : u \in ToSet(out[i])
      BY <1>2
    <3>2. QED BY <1>1, <1>3, <3>1
  <2>2. ASSUME NEW y \in G PROVE y \in ToSet(o[n + 1])
    BY <1>1, <1>6
  <2>3. QED BY <1>3, <2>1, <2>2
<1>10. \A i, j \in 1 .. n + 1 : ToSet(o[i]) \cap ToSet(o[j]) # {} => i = j
  <2>1. /\ \A i \in 1 .. n : ToSet(o[i]) \subseteq U
        /\ ToSet(o[n + 1]) = G
    BY <1>1, <1>6, <1>7
  <2>2. \A i, j \in 1 .. n : ToSet(o[i]) \cap ToSet(o[j]) # {} => i = j
    BY <1>1, <1>2
  <2>3. QED BY <1>3, <1>4, <2>1, <2>2
<1>11. QED BY <1>1, <1>8, <1>9, <1>10 DEF IsGroups, o

---------------------------------------------------------------------------
(* Partial aggregates. *)

(* The rows of the i-th row's group up to the i-th.                        *)
GroupTo(rows, i) == {t \in RowsTo(rows, i) : Key[t] = Key[rows[i]]}

(* What is handed from the partition before: nothing, or its last row, and *)
(* then the aggregate that came with it is reset.                          *)
FitsBefore(before, a0, R) ==
  /\ a0 \in Seq(Rows)
  /\ \/ before = <<>> /\ a0 = <<>>
     \/ \E b \in Rows : before = <<b>> /\ \A x \in R : Key[b] < Key[x]

(* The body of the loop: the i-th row is added to agg, or starts anew.     *)
NextAgg(rows, before, i, agg) ==
  LET p == i - 1 + Len(before)
  IN  IF p > 0 /\ ~ is_same_group((before \o rows)[p], rows[i])
        THEN <<rows[i]>>
        ELSE Append(agg, rows[i])

LEMMA PartialAggsAre ==
  ASSUME NEW rows \in Seq(Rows), NEW before \in Seq(Rows), NEW a0 \in Seq(Rows)
  PROVE  /\ PartialAggs(rows, before, a0)[0] = a0
         /\ \A i \in 1 .. Len(rows) :
              PartialAggs(rows, before, a0)[i] =
                NextAgg(rows, before, i, PartialAggs(rows, before, a0)[i - 1])
<1> DEFINE n == Len(rows)
           X == Seq(Rows)
           step == [q \in (1 .. n) \X X |-> NextAgg(rows, before, q[1], q[2])]
           a == PartialAggs(rows, before, a0)
<1>1. n \in Nat /\ \A i \in 1 .. n : rows[i] \in Rows
  OBVIOUS
<1>2. \A i \in 1 .. n, s \in X : NextAgg(rows, before, i, s) \in X
  BY <1>1 DEF NextAgg
<1>3. step \in [(1 .. n) \X X -> X]
  BY <1>2
<1>4. ASSUME NEW i \in 1 .. n, NEW s \in X PROVE step[<<i, s>>] = NextAgg(rows, before, i, s)
  <2>1. <<i, s>> \in (1 .. n) \X X /\ <<i, s>>[1] = i /\ <<i, s>>[2] = s
    OBVIOUS
  <2>2. QED BY <2>1, Zenon
<1> HIDE DEF step, n
<1>5. PICK f : Recursion(f, n, X, a0, step)
  BY <1>1, <1>3, RecursionExists
<1>6. /\ f \in [0 .. n -> X] /\ f[0] = a0
      /\ \A i \in 1 .. n : f[i] = NextAgg(rows, before, i, f[i - 1])
  <2>1. \A i \in 1 .. n : i - 1 \in 0 .. n
    BY <1>1
  <2>2. \A i \in 1 .. n : f[i - 1] \in X
    BY <1>5, <2>1, Zenon DEF Recursion
  <2>3. QED BY <1>4, <1>5, <2>2, Zenon DEF Recursion
<1>7. a = [i \in 0 .. n |-> IF i = 0 THEN a0 ELSE NextAgg(rows, before, i, a[i - 1])]
  <2> DEFINE b[i \in 0 .. n] == IF i = 0 THEN a0 ELSE NextAgg(rows, before, i, b[i - 1])
  <2>1. ASSUME NEW i \in 0 .. n
        PROVE  f[i] = IF i = 0 THEN a0 ELSE NextAgg(rows, before, i, f[i - 1])
    <3>1. i # 0 => i \in 1 .. n
      BY <1>1
    <3>2. QED BY <1>6, <3>1, Zenon
  <2>2. f = [i \in 0 .. n |-> IF i = 0 THEN a0 ELSE NextAgg(rows, before, i, f[i - 1])]
    BY <1>6, <2>1
  <2>3. \E h : h = [i \in 0 .. n |-> IF i = 0 THEN a0 ELSE NextAgg(rows, before, i, h[i - 1])]
    BY <2>2
  <2>4. b = [i \in 0 .. n |-> IF i = 0 THEN a0 ELSE NextAgg(rows, before, i, b[i - 1])]
    BY <2>3
  <2>5. a = b
    BY DEF PartialAggs, NextAgg, n
  <2> HIDE DEF a, b
  <2>6. QED BY <2>4, <2>5
<1> HIDE DEF a
<1>8. a[0] = a0
  <2>1. 0 \in 0 .. n
    BY <1>1
  <2>2. QED BY <1>7, <2>1
<1>9. ASSUME NEW i \in 1 .. n PROVE a[i] = NextAgg(rows, before, i, a[i - 1])
  <2>1. i \in 0 .. n /\ i # 0
    BY <1>1
  <2>2. QED BY <1>7, <2>1
<1>10. QED BY <1>8, <1>9 DEF n, a

(* When the loop has read a row, agg is of the rows of its group so far.   *)
LEMMA PartialAggsHold ==
  ASSUME NEW rows \in Seq(Rows), NEW R, IsEnumerationOf(rows, R), InOrder(rows),
         NEW before \in Seq(Rows), NEW a0, FitsBefore(before, a0, R)
  PROVE  \A i \in 1 .. Len(rows) :
           /\ PartialAggs(rows, before, a0)[i] \in Seq(Rows)
           /\ IsEnumerationOf(PartialAggs(rows, before, a0)[i], GroupTo(rows, i))
<1> DEFINE n == Len(rows)
           a == PartialAggs(rows, before, a0)
           Holds(i) == a[i] \in Seq(Rows) /\ IsEnumerationOf(a[i], GroupTo(rows, i))
<1>1. /\ n \in Nat /\ RowsTo(rows, 0) = {}
      /\ \A i \in 1 .. n :
           /\ rows[i] \in Rows /\ rows[i] \in R
           /\ rows[i] \notin RowsTo(rows, i - 1)
           /\ \A t \in RowsTo(rows, i - 1) : Key[t] <= Key[rows[i]]
           /\ RowsTo(rows, i) = RowsTo(rows, i - 1) \cup {rows[i]}
  BY NextInOrder
<1>2. /\ a0 \in Seq(Rows)
      /\ a[0] = a0
      /\ \A i \in 1 .. n : a[i] = NextAgg(rows, before, i, a[i - 1])
  BY PartialAggsAre DEF FitsBefore
<1>3. \A i \in 1 .. n : Key[rows[i]] \in Int
  BY <1>1, RowsAssumption
<1> HIDE DEF n, a
<1>4. \A x \in Rows : <<x>> \in Seq(Rows) /\ IsEnumerationOf(<<x>>, {x})
  BY DEF IsEnumerationOf
<1>5. 1 \in 1 .. n => Holds(1)
  <2> SUFFICES ASSUME 1 \in 1 .. n PROVE Holds(1)
    OBVIOUS
  <2>1. a[1] = NextAgg(rows, before, 1, a0)
    <3>1. a[1] = NextAgg(rows, before, 1, a[1 - 1])
      BY <1>2
    <3>2. 1 - 1 = 0
      OBVIOUS
    <3>3. QED BY <1>2, <3>1, <3>2
  <2>2. a[1] = <<rows[1]>>
    <3>1. CASE before = <<>> /\ a0 = <<>>
      <4>1. Len(before) = 0 /\ ~ (1 - 1 + 0 > 0)
        BY <3>1
      <4>2. NextAgg(rows, before, 1, a0) = Append(<<>>, rows[1])
        BY <3>1, <4>1 DEF NextAgg
      <4>3. Append(<<>>, rows[1]) = <<rows[1]>>
        OBVIOUS
      <4>4. QED BY <2>1, <4>2, <4>3
    <3>2. CASE \E b \in Rows : before = <<b>> /\ \A x \in R : Key[b] < Key[x]
      <4>1. PICK b \in Rows : before = <<b>> /\ \A x \in R : Key[b] < Key[x]
        BY <3>2
      <4>2. Len(before) = 1 /\ 1 - 1 + Len(before) = 1 /\ (before \o rows)[1] = b
        BY <4>1
      <4>3. Key[b] < Key[rows[1]] /\ Key[b] \in Int /\ Key[rows[1]] \in Int
        BY <1>1, <4>1, RowsAssumption
      <4>4. ~ is_same_group(b, rows[1])
        BY <4>3 DEF is_same_group
      <4>5. NextAgg(rows, before, 1, a0) = <<rows[1]>>
        BY <4>2, <4>4 DEF NextAgg
      <4>6. QED BY <2>1, <4>5
    <3>3. QED BY <3>1, <3>2 DEF FitsBefore
  <2>3. GroupTo(rows, 1) = {rows[1]}
    <3>1. RowsTo(rows, 1) = RowsTo(rows, 1 - 1) \cup {rows[1]} /\ 1 - 1 = 0
      BY <1>1
    <3>2. RowsTo(rows, 1) = {rows[1]}
      BY <1>1, <3>1
    <3>3. QED BY <3>2 DEF GroupTo
  <2>4. QED BY <1>1, <1>4, <2>2, <2>3
<1>6. ASSUME NEW i \in 1 .. n, i - 1 \in 1 .. n, Holds(i - 1) PROVE Holds(i)
  <2> DEFINE x == rows[i]
             y == rows[i - 1]
             T == RowsTo(rows, i - 1)
  <2>1. (before \o rows)[i - 1 + Len(before)] = y /\ i - 1 + Len(before) > 0
    <3>1. Len(before) \in Nat /\ i - 1 \in 1 .. Len(rows)
      BY <1>6 DEF n
    <3>2. QED BY <3>1
  <2>2. a[i] = IF is_same_group(y, x) THEN Append(a[i - 1], x) ELSE <<x>>
    <3>1. a[i] = NextAgg(rows, before, i, a[i - 1])
      BY <1>2
    <3>2. QED BY <2>1, <3>1 DEF NextAgg
  <2>3. /\ x \in Rows /\ y \in Rows /\ y \in T /\ x \notin T
        /\ RowsTo(rows, i) = T \cup {x}
        /\ Key[x] \in Int /\ Key[y] \in Int /\ Key[y] <= Key[x]
    <3>1. y \in T
      <4>1. RowsTo(rows, i - 1) = RowsTo(rows, i - 1 - 1) \cup {rows[i - 1]}
        BY <1>1, <1>6
      <4>2. QED BY <4>1
    <3>2. QED BY <1>1, <1>3, <1>6, <3>1
  <2>4. \A t \in T : Key[t] \in Int /\ Key[t] <= Key[y]
    <3>1. \A t \in RowsTo(rows, i - 1 - 1) : Key[t] <= Key[y]
      BY <1>1, <1>6
    <3>2. T = RowsTo(rows, i - 1 - 1) \cup {y}
      BY <1>1, <1>6
    <3>3. \A t \in T : t \in Rows
      <4>1. \A j \in 1 .. i - 1 : j \in 1 .. n
        BY <1>1
      <4>2. QED BY <1>1, <4>1 DEF RowsTo
    <3>4. \A t \in T : Key[t] \in Int
      BY <3>3, RowsAssumption
    <3>5. QED BY <2>3, <3>1, <3>2, <3>4
  <2>5. /\ a[i - 1] \in Seq(Rows)
        /\ IsEnumerationOf(a[i - 1], {t \in T : Key[t] = Key[y]})
    BY <1>6 DEF GroupTo
  <2>6. GroupTo(rows, i) = {t \in T \cup {x} : Key[t] = Key[x]}
    BY <2>3 DEF GroupTo
  <2> HIDE DEF x, y, T
  <2>7. CASE is_same_group(y, x)
    <3>1. Key[y] = Key[x]
      BY <2>7 DEF is_same_group
    <3>2. GroupTo(rows, i) = {t \in T : Key[t] = Key[y]} \cup {x}
      BY <2>6, <3>1
    <3>3. x \notin {t \in T : Key[t] = Key[y]}
      BY <2>3
    <3>4. IsEnumerationOf(Append(a[i - 1], x), {t \in T : Key[t] = Key[y]} \cup {x})
      BY <2>3, <2>5, <3>3, AppendEnumerates
    <3>5. Append(a[i - 1], x) \in Seq(Rows)
      BY <2>3, <2>5
    <3>6. QED BY <2>2, <2>7, <3>2, <3>4, <3>5
  <2>8. CASE ~ is_same_group(y, x)
    <3>1. \A t \in T : Key[t] # Key[x]
      <4>1. Key[y] # Key[x]
        BY <2>8 DEF is_same_group
      <4>2. QED BY <2>3, <2>4, <4>1
    <3>2. GroupTo(rows, i) = {x}
      BY <2>6, <3>1
    <3>3. QED BY <1>4, <2>2, <2>3, <2>8, <3>2
  <2>9. QED BY <2>7, <2>8
<1>7. \A i \in 1 .. n : Holds(i)
  <2> DEFINE S == {i \in 0 .. n : i = 0 \/ Holds(i)}
  <2>1. 0 \in S
    BY <1>1
  <2>2. ASSUME NEW i \in 1 .. n, i - 1 \in S PROVE i \in S
    <3>1. CASE i = 1
      BY <1>1, <1>5, <3>1
    <3>2. CASE i # 1
      <4>1. i - 1 \in 1 .. n /\ i - 1 # 0 /\ i \in 0 .. n
        BY <1>1, <3>2
      <4> HIDE DEF Holds
      <4>2. Holds(i - 1)
        BY <2>2, <4>1
      <4>3. Holds(i)
        BY <1>6, <4>1, <4>2
      <4>4. QED BY <4>1, <4>3
    <3>3. QED BY <3>1, <3>2
  <2>3. \A i \in 0 .. n : i \in S
    <3> HIDE DEF S
    <3>1. QED BY <1>1, <2>1, <2>2, SetInduction
  <2> HIDE DEF Holds
  <2>4. ASSUME NEW i \in 1 .. n PROVE Holds(i)
    <3>1. i \in 0 .. n /\ i # 0
      BY <1>1
    <3>2. QED BY <2>3, <3>1
  <2>5. QED BY <2>4
<1>8. QED BY <1>7 DEF n, a

---------------------------------------------------------------------------
(* The enclave calls. *)

(* The first or the last row of the rows R, if there is one.               *)
OneOf(s, R) == (R = {} /\ s = <<>>) \/ \E x \in R : s = <<x>>

(* What the first call returns of a partition with the rows R: the partial *)
(* aggregate of its last group, the initial one if R is empty.             *)
IsLastGroup(g, R) ==
  /\ g \in Seq(Seq(Rows)) /\ Len(g) = 1
  /\ R = {} => g[1] = <<>>

LEMMA LastGroupHolds ==
  ASSUME NEW rows \in Seq(Rows), NEW R, IsEnumerationOf(rows, R), InOrder(rows)
  PROVE  IsLastGroup(LastGroup(rows), R)
<1> DEFINE n == Len(rows)
           a == PartialAggs(rows, <<>>, <<>>)
<1>1. n \in Nat /\ <<>> \in Seq(Rows)
  OBVIOUS
<1>2. FitsBefore(<<>>, <<>>, R)
  BY <1>1 DEF FitsBefore
<1>3. a[0] = <<>> /\ \A i \in 1 .. n : a[i] \in Seq(Rows)
  BY <1>1, <1>2, PartialAggsHold, PartialAggsAre
<1>4. R = {} => n = 0
  <2>1. \A i \in 1 .. n : rows[i] \in R
    BY DEF IsEnumerationOf
  <2>2. n # 0 => 1 \in 1 .. n
    BY <1>1
  <2>3. QED BY <2>1, <2>2
<1>5. LastGroup(rows) = <<a[n]>>
  BY DEF LastGroup
<1> HIDE DEF n, a
<1>6. a[n] \in Seq(Rows)
  <2>1. n = 0 \/ n \in 1 .. n
    BY <1>1
  <2>2. QED BY <1>1, <1>3, <2>1
<1>7. QED BY <1>3, <1>4, <1>5, <1>6 DEF IsLastGroup

(* What the second call is handed from the next partition: nothing, or a   *)
(* row of a later group.                                                   *)
FitsAfter(nextFirst, R) ==
  nextFirst = <<>> \/ \E y \in Rows : nextFirst = <<y>> /\ \A x \in R : Key[x] < Key[y]

(* The rows of the groups that have ended when the i-th row is the last    *)
(* that was read.                                                          *)
Ended(rows, R, i) ==
  {x \in R : i < Len(rows) => Key[x] < Key[rows[i + 1]]}

(* The i-th row is the last of its group among the rows all.               *)
EndsGroup(all, i) == i = Len(all) \/ ~ is_same_group(all[i], all[i + 1])

(* What it is handed does not hide the end of the partition's last group.  *)
LEMMA EndsGroupIs ==
  ASSUME NEW rows \in Seq(Rows), NEW R, IsEnumerationOf(rows, R), InOrder(rows),
         NEW nextFirst \in Seq(Rows), FitsAfter(nextFirst, R), NEW i \in 1 .. Len(rows)
  PROVE  EndsGroup(rows \o nextFirst, i) <=> (i = Len(rows) \/ Key[rows[i]] < Key[rows[i + 1]])
<1> USE DEF EndsGroup
<1> DEFINE all == rows \o nextFirst
           n == Len(rows)
<1>1. /\ n \in Nat /\ Len(nextFirst) \in Nat /\ Len(all) = n + Len(nextFirst)
      /\ all[i] = rows[i]
      /\ i < n => all[i + 1] = rows[i + 1]
      /\ i = n /\ nextFirst # <<>> => all[i + 1] = nextFirst[1]
  OBVIOUS
<1>2. rows[i] \in R /\ rows[i] \in Rows /\ Key[rows[i]] \in Int
  BY RowsAssumption DEF IsEnumerationOf
<1>3. CASE i < n
  <2>1. i + 1 \in 1 .. n /\ i < i + 1 /\ i # Len(all) /\ i # n
    BY <1>1, <1>3
  <2>2. rows[i + 1] \in Rows /\ Key[rows[i + 1]] \in Int
    BY <2>1, RowsAssumption
  <2>3. ~ less_than(rows[i + 1], rows[i])
    BY <2>1 DEF InOrder
  <2>4. ~ is_same_group(rows[i], rows[i + 1]) <=> Key[rows[i]] < Key[rows[i + 1]]
    BY <1>2, <2>2, <2>3 DEF less_than, is_same_group
  <2>5. QED BY <1>1, <1>3, <2>1, <2>4
<1>4. CASE i = n
  <2>1. CASE nextFirst = <<>>
    <3>1. Len(nextFirst) = 0
      BY <2>1
    <3>2. QED BY <1>1, <1>4, <3>1
  <2>2. CASE nextFirst # <<>>
    <3>1. PICK y \in Rows : nextFirst = <<y>> /\ \A x \in R : Key[x] < Key[y]
      BY <2>2 DEF FitsAfter
    <3>2. all[i + 1] = y
      BY <1>1, <1>4, <2>2, <3>1
    <3>3. Key[rows[i]] < Key[y] /\ Key[y] \in Int
      BY <1>2, <3>1, RowsAssumption
    <3>4. ~ is_same_group(rows[i], y)
      BY <1>2, <3>3 DEF is_same_group
    <3>5. QED BY <1>1, <1>4, <3>2, <3>4
  <2>3. QED BY <2>1, <2>2
<1>5. i < n \/ i = n
  BY <1>1
<1>6. QED BY <1>3, <1>4, <1>5

(* The groups that end with the i-th row are those that had ended before,  *)
(* and its own.                                                            *)
LEMMA GroupEnds ==
  ASSUME NEW rows \in Seq(Rows), NEW R, IsEnumerationOf(rows, R), InOrder(rows),
         NEW i \in 1 .. Len(rows)
  PROVE  /\ R \in SUBSET Rows
         /\ Ended(rows, R, i - 1) = {x \in R : Key[x] < Key[rows[i]]}
         /\ i = Len(rows) \/ Key[rows[i]] < Key[rows[i + 1]] =>
              Ended(rows, R, i) = Ended(rows, R, i - 1) \cup GroupTo(rows, i)
         /\ ~ (i = Len(rows) \/ Key[rows[i]] < Key[rows[i + 1]]) =>
              Ended(rows, R, i) = Ended(rows, R, i - 1)
<1> DEFINE n == Len(rows)
           x == rows[i]
<1>1. n \in Nat /\ \A j \in 1 .. n : rows[j] \in Rows /\ Key[rows[j]] \in Int
  BY RowsAssumption
<1>2. R \in SUBSET Rows
  BY DEF IsEnumerationOf
<1>3. \A j, k \in 1 .. n : j <= k => Key[rows[j]] <= Key[rows[k]]
  <2> SUFFICES ASSUME NEW j \in 1 .. n, NEW k \in 1 .. n, j <= k
               PROVE  Key[rows[j]] <= Key[rows[k]]
    OBVIOUS
  <2>1. j < k => ~ less_than(rows[k], rows[j])
    BY DEF InOrder
  <2>2. QED BY <1>1, <2>1 DEF less_than
<1>4. Ended(rows, R, i - 1) = {t \in R : Key[t] < Key[x]}
  <2>1. i - 1 < Len(rows) /\ i - 1 + 1 = i
    BY <1>1
  <2>2. QED BY <2>1 DEF Ended
<1>5. \A t \in R : Key[t] \in Int /\ \E j \in 1 .. n : rows[j] = t
  BY <1>2, RowsAssumption DEF IsEnumerationOf
<1>6. ASSUME i = n \/ Key[x] < Key[rows[i + 1]]
      PROVE  Ended(rows, R, i) = {t \in R : Key[t] <= Key[x]}
  <2>1. CASE i = n
    <3>1. \A t \in R : Key[t] <= Key[x]
      BY <1>1, <1>3, <1>5, <2>1
    <3>2. ~ (i < Len(rows))
      BY <1>1, <2>1
    <3>3. QED BY <3>1, <3>2 DEF Ended
  <2>2. CASE i # n
    <3>1. i < n /\ i + 1 \in 1 .. n
      BY <1>1, <2>2
    <3>2. ASSUME NEW t \in R, Key[t] < Key[rows[i + 1]] PROVE Key[t] <= Key[x]
      <4>1. PICK j \in 1 .. n : rows[j] = t
        BY <1>5
      <4>2. ~ (i + 1 <= j)
        BY <1>1, <1>3, <3>1, <3>2, <4>1
      <4>3. j <= i
        BY <1>1, <4>2
      <4>4. QED BY <1>3, <4>1, <4>3
    <3>3. ASSUME NEW t \in R, Key[t] <= Key[x] PROVE Key[t] < Key[rows[i + 1]]
      BY <1>1, <1>5, <1>6, <2>2, <3>1, <3>3
    <3>4. QED BY <3>1, <3>2, <3>3 DEF Ended
  <2>3. QED BY <2>1, <2>2
<1>7. ASSUME i = n \/ Key[x] < Key[rows[i + 1]]
      PROVE  GroupTo(rows, i) = {t \in R : Key[t] = Key[x]}
  <2>1. ASSUME NEW t \in GroupTo(rows, i) PROVE t \in R /\ Key[t] = Key[x]
    <3>1. PICK j \in 1 .. i : t = rows[j]
      BY DEF GroupTo, RowsTo
    <3>2. j \in 1 .. n
      BY <1>1
    <3>3. QED BY <3>1, <3>2 DEF GroupTo, IsEnumerationOf
  <2>2. ASSUME NEW t \in R, Key[t] = Key[x] PROVE t \in GroupTo(rows, i)
    <3>1. PICK j \in 1 .. n : rows[j] = t
      BY <1>5
    <3>2. j <= i
      <4>1. CASE i = n
        BY <1>1, <4>1
      <4>2. CASE i # n
        <5>1. i < n /\ i + 1 \in 1 .. n /\ Key[x] < Key[rows[i + 1]]
          BY <1>1, <1>7, <4>2
        <5>2. ~ (i + 1 <= j)
          BY <1>1, <1>3, <2>2, <3>1, <5>1
        <5>3. QED BY <1>1, <5>2
      <4>3. QED BY <4>1, <4>2
    <3>3. j \in 1 .. i
      BY <3>2
    <3>4. QED BY <2>2, <3>1, <3>3 DEF GroupTo, RowsTo
  <2>3. QED BY <2>1, <2>2
<1>8. ASSUME i = n \/ Key[x] < Key[rows[i + 1]]
      PROVE  Ended(rows, R, i) = Ended(rows, R, i - 1) \cup GroupTo(rows, i)
  <2>1. /\ Ended(rows, R, i) = {t \in R : Key[t] <= Key[x]}
        /\ GroupTo(rows, i) = {t \in R : Key[t] = Key[x]}
    BY <1>6, <1>7, <1>8
  <2>2. Key[x] \in Int
    BY <1>1
  <2> HIDE DEF x
  <2>3. QED BY <1>4, <1>5, <2>1, <2>2
<1>9. ASSUME ~ (i = n \/ Key[x] < Key[rows[i + 1]])
      PROVE  Ended(rows, R, i) = Ended(rows, R, i - 1)
  <2>1. i < n /\ i + 1 \in 1 .. n
    BY <1>1, <1>9
  <2>2. Key[rows[i + 1]] = Key[x]
    <3>1. Key[x] <= Key[rows[i + 1]] /\ Key[x] \in Int /\ Key[rows[i + 1]] \in Int
      BY <1>1, <1>3, <2>1
    <3>2. QED BY <1>9, <3>1
  <2>3. Ended(rows, R, i) = {t \in R : Key[t] < Key[rows[i + 1]]}
    BY <2>1 DEF Ended
  <2>4. QED BY <1>4, <2>2, <2>3
<1>10. QED BY <1>2, <1>4, <1>8, <1>9

(* The body of the loop of the second call.                                *)
NextOutput(all, a, i, out) == IF EndsGroup(all, i) THEN Append(out, a[i]) ELSE out

(* The second call returns the groups of its partition.                    *)
LEMMA AggregatesHold ==
  ASSUME NEW rows \in Seq(Rows), NEW R, IsEnumerationOf(rows, R), InOrder(rows),
         NEW nextFirst \in Seq(Rows), FitsAfter(nextFirst, R),
         NEW prevLast \in Seq(Rows), NEW prevGroup,
         FitsBefore(prevLast, IF prevGroup = <<>> THEN <<>> ELSE prevGroup[1], R)
  PROVE  IsGroups(Aggregates(rows, nextFirst, prevGroup, prevLast), R)
<1> DEFINE n == Len(rows)
           all == rows \o nextFirst
           X == Seq(Seq(Rows))
           a0 == IF prevGroup = <<>> THEN <<>> ELSE prevGroup[1]
           a == PartialAggs(rows, prevLast, a0)
           step == [q \in (1 .. n) \X X |-> NextOutput(all, a, q[1], q[2])]
           w[i \in 0 .. n] == IF i = 0 THEN <<>> ELSE NextOutput(all, a, i, w[i - 1])
<1>1. n \in Nat
  OBVIOUS
<1>2. \A i \in 1 .. n : a[i] \in Seq(Rows) /\ IsEnumerationOf(a[i], GroupTo(rows, i))
  BY PartialAggsHold
<1>3. Aggregates(rows, nextFirst, prevGroup, prevLast) = w[n]
  BY DEF Aggregates, NextOutput, EndsGroup
<1>4. \A i \in 1 .. n :
        /\ R \in SUBSET Rows
        /\ Ended(rows, R, i - 1) = {x \in R : Key[x] < Key[rows[i]]}
        /\ EndsGroup(all, i) => Ended(rows, R, i) = Ended(rows, R, i - 1) \cup GroupTo(rows, i)
        /\ ~ EndsGroup(all, i) => Ended(rows, R, i) = Ended(rows, R, i - 1)
  BY GroupEnds, EndsGroupIs
<1>5. \A i \in 1 .. n : rows[i] \in GroupTo(rows, i) /\ GroupTo(rows, i) \in SUBSET Rows
  <2> SUFFICES ASSUME NEW i \in 1 .. n
               PROVE  rows[i] \in GroupTo(rows, i) /\ GroupTo(rows, i) \in SUBSET Rows
    OBVIOUS
  <2>1. i \in 1 .. i /\ \A j \in 1 .. i : j \in 1 .. n /\ rows[j] \in Rows
    BY <1>1
  <2>2. QED BY <2>1 DEF GroupTo, RowsTo
<1> HIDE DEF a, all
<1>6. \A i \in 1 .. n, s \in X : NextOutput(all, a, i, s) \in X
  BY <1>2 DEF NextOutput
<1>7. step \in [(1 .. n) \X X -> X]
  BY <1>6
<1>8. ASSUME NEW i \in 1 .. n, NEW s \in X PROVE step[<<i, s>>] = NextOutput(all, a, i, s)
  <2>1. <<i, s>> \in (1 .. n) \X X /\ <<i, s>>[1] = i /\ <<i, s>>[2] = s
    OBVIOUS
  <2>2. QED BY <2>1, Zenon
<1> HIDE DEF step
<1>9. <<>> \in X
  OBVIOUS
<1> HIDE DEF n
<1>10. PICK f : Recursion(f, n, X, <<>>, step)
  BY <1>1, <1>7, <1>9, RecursionExists
<1>11. /\ f \in [0 .. n -> X] /\ f[0] = <<>>
       /\ \A i \in 1 .. n : f[i] = NextOutput(all, a, i, f[i - 1])
  <2>1. \A i \in 1 .. n : i - 1 \in 0 .. n
    BY <1>1
  <2>2. \A i \in 1 .. n : f[i - 1] \in X
    BY <1>10, <2>1, Zenon DEF Recursion
  <2>3. QED BY <1>8, <1>10, <2>2, Zenon DEF Recursion
<1>12. w = [i \in 0 .. n |-> IF i = 0 THEN <<>> ELSE NextOutput(all, a, i, w[i - 1])]
  <2>1. ASSUME NEW i \in 0 .. n
        PROVE  f[i] = IF i = 0 THEN <<>> ELSE NextOutput(all, a, i, f[i - 1])
    <3>1. i # 0 => i \in 1 .. n
      BY <1>1
    <3>2. QED BY <1>11, <3>1, Zenon
  <2>2. f = [i \in 0 .. n |-> IF i = 0 THEN <<>> ELSE NextOutput(all, a, i, f[i - 1])]
    BY <1>11, <2>1
  <2>3. \E h : h = [i \in 0 .. n |-> IF i = 0 THEN <<>> ELSE NextOutput(all, a, i, h[i - 1])]
    BY <2>2
  <2>4. QED BY <2>3
<1> HIDE DEF w, X
<1> DEFINE K == {i \in 0 .. n : IsGroups(w[i], Ended(rows, R, i))}
<1>13. 0 \in K
  <2>1. 0 \in 0 .. n
    BY <1>1
  <2>2. w[0] = <<>>
    BY <1>12, <2>1
  <2>3. Ended(rows, R, 0) = {}
    <3>1. CASE n = 0
      <4>1. \A x \in R : \E i \in 1 .. n : rows[i] = x
        BY DEF IsEnumerationOf, n
      <4>2. R = {}
        BY <3>1, <4>1
      <4>3. QED BY <4>2 DEF Ended
    <3>2. CASE n # 0
      <4>1. 1 \in 1 .. n /\ 1 - 1 = 0
        BY <1>1, <3>2
      <4>2. Ended(rows, R, 0) = {x \in R : Key[x] < Key[rows[1]]}
        BY <1>4, <4>1
      <4>3. ASSUME NEW x \in R, Key[x] < Key[rows[1]] PROVE FALSE
        <5>1. PICK j \in 1 .. n : rows[j] = x
          BY DEF IsEnumerationOf, n
        <5>2. rows[1] \in Rows /\ rows[j] \in Rows
          BY <4>1 DEF n
        <5>3. Key[rows[1]] \in Int /\ Key[rows[j]] \in Int
          BY <5>2, RowsAssumption
        <5>4. j # 1 /\ 1 < j
          BY <1>1, <4>3, <5>1, <5>3
        <5>5. ~ less_than(rows[j], rows[1])
          BY <4>1, <5>4 DEF InOrder, n
        <5>6. QED BY <4>3, <5>1, <5>5 DEF less_than
      <4>4. QED BY <4>2, <4>3
    <3>3. QED BY <3>1, <3>2
  <2>4. QED BY <2>1, <2>2, <2>3, NoGroups
<1>14. ASSUME NEW i \in 1 .. n, i - 1 \in K PROVE i \in K
  <2>1. i \in 0 .. n /\ i # 0
    BY <1>1
  <2>2. w[i] = NextOutput(all, a, i, w[i - 1])
    BY <1>12, <2>1
  <2> DEFINE U == Ended(rows, R, i - 1)
  <2>3. IsGroups(w[i - 1], U)
    BY <1>14
  <2>4. CASE ~ EndsGroup(all, i)
    <3>1. w[i] = w[i - 1] /\ Ended(rows, R, i) = U
      BY <1>4, <2>2, <2>4 DEF NextOutput
    <3>2. QED BY <2>1, <2>3, <3>1
  <2>5. CASE EndsGroup(all, i)
    <3> DEFINE G == GroupTo(rows, i)
               x == rows[i]
    <3>1. w[i] = Append(w[i - 1], a[i]) /\ Ended(rows, R, i) = U \cup G
      BY <1>4, <2>2, <2>5 DEF NextOutput
    <3>2. U \in SUBSET Rows /\ \A u \in U : Key[u] < Key[x]
      BY <1>4
    <3>3. x \in G /\ G \in SUBSET Rows
      BY <1>5
    <3>4. \A y \in G : Key[y] = Key[x]
      BY DEF GroupTo
    <3>5. a[i] \in Seq(Rows) /\ IsEnumerationOf(a[i], G)
      BY <1>2
    <3> HIDE DEF U, G, x
    <3>6. IsGroups(Append(w[i - 1], a[i]), U \cup G)
      BY <2>3, <3>2, <3>3, <3>4, <3>5, GroupAppended
    <3>7. QED BY <2>1, <3>1, <3>6
  <2>6. QED BY <2>4, <2>5
<1>15. n \in K
  <2>1. n \in 0 .. n
    BY <1>1
  <2> HIDE DEF K
  <2>2. QED BY <1>1, <1>13, <1>14, <2>1, SetInduction
<1>16. Ended(rows, R, n) = R
  <2>1. ~ (n < Len(rows))
    BY <1>1 DEF n
  <2>2. QED BY <2>1 DEF Ended
<1>17. QED BY <1>3, <1>15, <1>16

---------------------------------------------------------------------------
(* The strengthened invariant. What the calls have returned is said of the *)
(* sets of rows of the partitions, not of their order.                     *)

RowsOf(p) == ToSet(childRDD[p])

Stages ==
  /\ stage \in {"step1", "step2", "done"}
  /\ step1Done \subseteq Parts /\ step2Done \subseteq Parts
  /\ stage # "step1" => step1Done = Parts
  /\ stage = "done" => step2Done = Parts

FirstCalls ==
  /\ firstRows \in [Parts -> Seq(Rows)] /\ lastRows \in [Parts -> Seq(Rows)]
  /\ lastGroups \in [Parts -> Seq(Seq(Rows))]
  /\ \A p \in step1Done : /\ OneOf(firstRows[p], RowsOf(p))
                          /\ OneOf(lastRows[p], RowsOf(p))
                          /\ IsLastGroup(lastGroups[p], RowsOf(p))

SecondCalls ==
  /\ output \in [Parts -> Seq(Seq(Rows))]
  /\ \A p \in step2Done : IsGroups(output[p], RowsOf(p))

AggregateInv ==
  /\ SortedParts(childRDD, numPartitions) /\ Apart(childRDD, numPartitions)
  /\ Stages /\ FirstCalls /\ SecondCalls

LEMMA PartsOfAggregate ==
  /\ Parts = PartsOf(numPartitions)
  /\ \A p \in Parts :
       /\ p \in Nat
       /\ p # 0 => p - 1 \in Parts /\ p - 1 < p
       /\ p # numPartitions - 1 => p + 1 \in Parts /\ p < p + 1
<1>1. numPartitions \in Nat
  BY NumPartitionsAssumption
<1>2. QED BY <1>1 DEF Parts, PartsOf

LEMMA RowsOfPart ==
  ASSUME AggregateInv, NEW p \in Parts
  PROVE  /\ childRDD[p] \in Seq(Rows) /\ InOrder(childRDD[p])
         /\ IsEnumerationOf(childRDD[p], RowsOf(p))
         /\ RowsOf(p) \in SUBSET Rows
BY RowsOfParts DEF AggregateInv, SortedParts, Parts, RowsOf

LEMMA KeysRise ==
  ASSUME AggregateInv, NEW p \in Parts, NEW q \in Parts, p < q,
         NEW x \in RowsOf(p), NEW y \in RowsOf(q)
  PROVE  Key[x] < Key[y]
BY DEF AggregateInv, Apart, Parts, RowsOf

LEMMA InitHolds == Init => AggregateInv
<1> SUFFICES ASSUME Init PROVE AggregateInv
  OBVIOUS
<1>1. SortedParts(childRDD, numPartitions) /\ Apart(childRDD, numPartitions)
  BY SortedRDDFits, NumPartitionsAssumption DEF Init
<1>2. <<>> \in Seq(Rows) /\ <<>> \in Seq(Seq(Rows))
  OBVIOUS
<1>3. Stages
  BY DEF Init, Stages
<1>4. FirstCalls
  BY <1>2 DEF Init, FirstCalls
<1>5. SecondCalls
  BY <1>2 DEF Init, SecondCalls
<1>6. QED BY <1>1, <1>3, <1>4, <1>5 DEF AggregateInv

LEMMA Step1TaskHolds ==
  ASSUME AggregateInv, NEW p \in Parts, Step1Task(p)
  PROVE  AggregateInv'
<1> DEFINE rows == childRDD[p]
           first == SubSeq(rows, 1, IF rows = <<>> THEN 0 ELSE 1)
           last == IF rows = <<>> THEN <<>> ELSE <<Last(rows)>>
           group == LastGroup(rows)
<1>1. /\ stage = "step1"
      /\ firstRows' = [firstRows EXCEPT ![p] = first]
      /\ lastGroups' = [lastGroups EXCEPT ![p] = group]
      /\ lastRows' = [lastRows EXCEPT ![p] = last]
      /\ step1Done' = step1Done \cup {p}
      /\ UNCHANGED <<childRDD, stage, output, step2Done>>
  BY DEF Step1Task
<1>2. /\ rows \in Seq(Rows) /\ InOrder(rows) /\ IsEnumerationOf(rows, RowsOf(p))
  BY RowsOfPart
<1> HIDE DEF rows
<1>3. IsLastGroup(group, RowsOf(p))
  BY <1>2, LastGroupHolds
<1>4. OneOf(first, RowsOf(p)) /\ OneOf(last, RowsOf(p))
  <2>1. CASE rows = <<>>
    <3>1. RowsOf(p) = {}
      BY <1>2, <2>1, EnumeratesNone
    <3>2. first = <<>> /\ last = <<>>
      BY <2>1
    <3>3. QED BY <3>1, <3>2 DEF OneOf
  <2>2. CASE rows # <<>>
    <3>1. Len(rows) \in Nat /\ 1 \in 1 .. Len(rows) /\ Len(rows) \in 1 .. Len(rows)
      BY <1>2, <2>2
    <3>2. rows[1] \in RowsOf(p) /\ rows[Len(rows)] \in RowsOf(p)
      BY <1>2, <3>1 DEF IsEnumerationOf
    <3>3. first = <<rows[1]>>
      <4>1. first = SubSeq(rows, 1, 1)
        BY <2>2
      <4>2. 1 .. 1 - 1 + 1 = {1} /\ 1 + 1 - 1 = 1
        OBVIOUS
      <4>3. Len(first) = 1 /\ first \in Seq(Rows) /\ first[1] = rows[1]
        BY <1>2, <3>1, <4>1, <4>2, SubSeqProperties
      <4> HIDE DEF first
      <4>4. QED BY <4>3
    <3>4. last = <<rows[Len(rows)]>>
      BY <2>2 DEF Last
    <3>5. QED BY <3>2, <3>3, <3>4 DEF OneOf
  <2>3. QED BY <2>1, <2>2
<1>5. first \in Seq(Rows) /\ last \in Seq(Rows) /\ group \in Seq(Seq(Rows))
  <2>1. RowsOf(p) \in SUBSET Rows
    BY RowsOfPart
  <2> HIDE DEF first, last, group
  <2>2. group \in Seq(Seq(Rows))
    BY <1>3 DEF IsLastGroup
  <2>3. ASSUME NEW s, OneOf(s, RowsOf(p)) PROVE s \in Seq(Rows)
    <3>1. CASE s = <<>>
      BY <3>1
    <3>2. ASSUME NEW x \in RowsOf(p), s = <<x>> PROVE s \in Seq(Rows)
      <4>1. x \in Rows
        BY <2>1
      <4>2. <<x>> \in Seq(Rows)
        BY <4>1
      <4>3. QED BY <3>2, <4>2
    <3>3. QED BY <2>3, <3>1, <3>2 DEF OneOf
  <2>4. QED BY <1>4, <2>2, <2>3
<1> HIDE DEF first, last, group
<1>6. /\ firstRows \in [Parts -> Seq(Rows)] /\ lastRows \in [Parts -> Seq(Rows)]
      /\ lastGroups \in [Parts -> Seq(Seq(Rows))] /\ step1Done \subseteq Parts
  BY DEF AggregateInv, FirstCalls, Stages
<1>7. FirstCalls'
  <2>1. /\ firstRows' \in [Parts -> Seq(Rows)] /\ lastRows' \in [Parts -> Seq(Rows)]
        /\ lastGroups' \in [Parts -> Seq(Seq(Rows))]
    BY <1>1, <1>5, <1>6
  <2>2. ASSUME NEW q \in step1Done'
        PROVE  /\ OneOf(firstRows'[q], RowsOf(q)) /\ OneOf(lastRows'[q], RowsOf(q))
               /\ IsLastGroup(lastGroups'[q], RowsOf(q))
    <3>1. CASE q = p
      <4>1. firstRows'[q] = first /\ lastRows'[q] = last /\ lastGroups'[q] = group
        BY <1>1, <1>6, <3>1
      <4>2. QED BY <1>3, <1>4, <3>1, <4>1
    <3>2. CASE q # p
      <4>1. q \in step1Done /\ q \in Parts
        BY <1>1, <1>6, <3>2
      <4>2. /\ firstRows'[q] = firstRows[q] /\ lastRows'[q] = lastRows[q]
            /\ lastGroups'[q] = lastGroups[q]
        BY <1>1, <1>6, <3>2, <4>1
      <4>3. QED BY <4>1, <4>2 DEF AggregateInv, FirstCalls
    <3>3. QED BY <3>1, <3>2
  <2>3. \A q : RowsOf(q)' = RowsOf(q)
    BY <1>1 DEF RowsOf
  <2>4. QED BY <2>1, <2>2, <2>3 DEF FirstCalls
<1>8. Stages'
  BY <1>1 DEF AggregateInv, Stages
<1>9. SecondCalls'
  BY <1>1 DEF AggregateInv, SecondCalls, RowsOf
<1>10. QED BY <1>1, <1>7, <1>8, <1>9 DEF AggregateInv

LEMMA Step2TaskHolds ==
  ASSUME AggregateInv, NEW p \in Parts, Step2Task(p)
  PROVE  AggregateInv'
<1> DEFINE rows == childRDD[p]
           nextFirst == ShiftedFirstRow(p)
           prevGroup == ShiftedLastGroup(p)
           prevLast == ShiftedLastRow(p)
           a0 == IF prevGroup = <<>> THEN <<>> ELSE prevGroup[1]
           out == Aggregates(rows, nextFirst, prevGroup, prevLast)
<1>1. /\ stage = "step2"
      /\ output' = [output EXCEPT ![p] = out]
      /\ step2Done' = step2Done \cup {p}
      /\ UNCHANGED <<childRDD, stage, firstRows, lastGroups, lastRows, step1Done>>
  BY DEF Step2Task
<1>2. /\ rows \in Seq(Rows) /\ InOrder(rows) /\ IsEnumerationOf(rows, RowsOf(p))
  BY RowsOfPart
<1>3. \A q \in Parts : /\ OneOf(firstRows[q], RowsOf(q)) /\ OneOf(lastRows[q], RowsOf(q))
                       /\ IsLastGroup(lastGroups[q], RowsOf(q))
                       /\ firstRows[q] \in Seq(Rows) /\ lastRows[q] \in Seq(Rows)
  BY <1>1 DEF AggregateInv, Stages, FirstCalls
<1>4. nextFirst \in Seq(Rows) /\ FitsAfter(nextFirst, RowsOf(p))
  <2>1. CASE p = numPartitions - 1
    <3>1. nextFirst = <<>>
      BY <2>1 DEF ShiftedFirstRow
    <3>2. QED BY <3>1 DEF FitsAfter
  <2>2. CASE p # numPartitions - 1
    <3>1. p + 1 \in Parts /\ p < p + 1
      BY <2>2, PartsOfAggregate
    <3>2. nextFirst = firstRows[p + 1]
      BY <2>2 DEF ShiftedFirstRow
    <3>3. \A y \in RowsOf(p + 1) : y \in Rows /\ \A x \in RowsOf(p) : Key[x] < Key[y]
      BY <3>1, KeysRise, RowsOfPart
    <3>4. OneOf(nextFirst, RowsOf(p + 1)) /\ nextFirst \in Seq(Rows)
      BY <1>3, <3>1, <3>2
    <3> HIDE DEF nextFirst
    <3>5. QED BY <3>3, <3>4 DEF OneOf, FitsAfter
  <2>3. QED BY <2>1, <2>2
<1>5. prevLast \in Seq(Rows) /\ FitsBefore(prevLast, a0, RowsOf(p))
  <2>1. CASE p = 0
    <3>1. prevLast = <<>> /\ prevGroup = <<>>
      BY <2>1 DEF ShiftedLastRow, ShiftedLastGroup
    <3> HIDE DEF prevLast, prevGroup
    <3>2. QED BY <3>1 DEF FitsBefore
  <2>2. CASE p # 0
    <3>1. p - 1 \in Parts /\ p - 1 < p
      BY <2>2, PartsOfAggregate
    <3>2. prevLast = lastRows[p - 1] /\ prevGroup = lastGroups[p - 1]
      BY <2>2 DEF ShiftedLastRow, ShiftedLastGroup
    <3>3. \A b \in RowsOf(p - 1) : b \in Rows /\ \A x \in RowsOf(p) : Key[b] < Key[x]
      BY <3>1, KeysRise, RowsOfPart
    <3>4. /\ OneOf(prevLast, RowsOf(p - 1)) /\ prevLast \in Seq(Rows)
          /\ IsLastGroup(prevGroup, RowsOf(p - 1))
      BY <1>3, <3>1, <3>2
    <3> HIDE DEF prevLast, prevGroup
    <3>5. /\ a0 = prevGroup[1] /\ a0 \in Seq(Rows)
          /\ RowsOf(p - 1) = {} => a0 = <<>>
      <4>1. prevGroup \in Seq(Seq(Rows)) /\ Len(prevGroup) = 1
        BY <3>4 DEF IsLastGroup
      <4>2. prevGroup # <<>> /\ prevGroup[1] \in Seq(Rows)
        BY <4>1
      <4>3. QED BY <3>4, <4>2 DEF IsLastGroup
    <3> HIDE DEF a0
    <3>6. QED BY <3>3, <3>4, <3>5 DEF OneOf, FitsBefore
  <2>3. QED BY <2>1, <2>2
<1>6. IsGroups(out, RowsOf(p))
  <2> HIDE DEF rows, nextFirst, prevGroup, prevLast
  <2>1. QED BY <1>2, <1>4, <1>5, AggregatesHold
<1>7. out \in Seq(Seq(Rows))
  BY <1>6 DEF IsGroups
<1> HIDE DEF out
<1>8. output \in [Parts -> Seq(Seq(Rows))] /\ step2Done \subseteq Parts
  BY DEF AggregateInv, SecondCalls, Stages
<1>9. SecondCalls'
  <2>1. output' \in [Parts -> Seq(Seq(Rows))]
    BY <1>1, <1>7, <1>8
  <2>2. ASSUME NEW q \in step2Done' PROVE IsGroups(output'[q], RowsOf(q))
    <3>1. CASE q = p
      BY <1>1, <1>6, <1>8, <3>1
    <3>2. CASE q # p
      <4>1. q \in step2Done /\ output'[q] = output[q]
        BY <1>1, <1>8, <3>2
      <4>2. QED BY <4>1 DEF AggregateInv, SecondCalls
    <3>3. QED BY <3>1, <3>2
  <2>3. \A q : RowsOf(q)' = RowsOf(q)
    BY <1>1 DEF RowsOf
  <2>4. QED BY <2>1, <2>2, <2>3 DEF SecondCalls
<1>10. Stages'
  BY <1>1 DEF AggregateInv, Stages
<1>11. FirstCalls'
  BY <1>1 DEF AggregateInv, FirstCalls, RowsOf
<1>12. QED BY <1>1, <1>9, <1>10, <1>11 DEF AggregateInv

LEMMA RecomputeHolds ==
  ASSUME AggregateInv, NEW p \in Parts, Recompute(p)
  PROVE  AggregateInv'
<1>1. PICK s \in SortedEnumerations(ToSet(childRDD[p])) : childRDD' = [childRDD EXCEPT ![p] = s]
  BY DEF Recompute
<1>2. UNCHANGED <<stage, firstRows, lastGroups, lastRows, step1Done, output, step2Done>>
  BY DEF Recompute
<1> DEFINE d == childRDD'
<1>3. d = [childRDD EXCEPT ![p] = s]
  BY <1>1
<1> HIDE DEF d
<1>4. /\ SortedParts(d, numPartitions) /\ Apart(d, numPartitions)
      /\ \A q \in Parts : ToSet(d[q]) = ToSet(childRDD[q])
  <2>1. SortedParts(childRDD, numPartitions) /\ Apart(childRDD, numPartitions)
    BY DEF AggregateInv
  <2>2. p \in PartsOf(numPartitions)
    BY DEF Parts
  <2>3. s \in Seq(Rows)
    <3>1. ToSet(childRDD[p]) \in SUBSET Rows
      BY RowsOfPart DEF RowsOf
    <3>2. QED BY <3>1, SortedFacts
  <2>4. /\ d \in [PartsOf(numPartitions) -> Seq(Rows)]
        /\ \A q \in PartsOf(numPartitions) : d[q] = IF q = p THEN s ELSE childRDD[q]
    BY <1>3, <2>1, <2>3 DEF SortedParts
  <2>5. s \in SortedEnumerations(ToSet(childRDD[p]))
    OBVIOUS
  <2>6. /\ SortedParts(d, numPartitions) /\ Apart(d, numPartitions)
        /\ \A q \in PartsOf(numPartitions) : ToSet(d[q]) = ToSet(childRDD[q])
    BY <2>1, <2>2, <2>4, <2>5, ComputedAgain
  <2>7. QED BY <2>6 DEF Parts
<1>5. \A q \in Parts : RowsOf(q)' = RowsOf(q)
  BY <1>4 DEF RowsOf, d
<1>6. (/\ SortedParts(childRDD, numPartitions) /\ Apart(childRDD, numPartitions))'
  BY <1>4 DEF d
<1>7. Stages'
  BY <1>2 DEF AggregateInv, Stages
<1>8. FirstCalls'
  <2>1. step1Done \subseteq Parts
    BY DEF AggregateInv, Stages
  <2>2. QED BY <1>2, <1>5, <2>1 DEF AggregateInv, FirstCalls
<1>9. SecondCalls'
  <2>1. step2Done \subseteq Parts
    BY DEF AggregateInv, Stages
  <2>2. QED BY <1>2, <1>5, <2>1 DEF AggregateInv, SecondCalls
<1>10. QED BY <1>6, <1>7, <1>8, <1>9 DEF AggregateInv

(* The strengthened invariant holds in every state. *)
THEOREM AggregateInvariant == Spec => []AggregateInv
<1> USE DEF AggregateInv, Stages, FirstCalls, SecondCalls, RowsOf
<1>1. AggregateInv /\ [Next]_vars => AggregateInv'
  <2> SUFFICES ASSUME AggregateInv, [Next]_vars PROVE AggregateInv'
    OBVIOUS
  <2>1. ASSUME NEW p \in Parts, Step1Task(p) PROVE AggregateInv'
    BY <2>1, Step1TaskHolds
  <2>2. CASE Collect
    BY <2>2 DEF Collect
  <2>3. ASSUME NEW p \in Parts, Step2Task(p) PROVE AggregateInv'
    BY <2>3, Step2TaskHolds
  <2>4. ASSUME NEW p \in Parts, Recompute(p) PROVE AggregateInv'
    BY <2>4, RecomputeHolds
  <2>5. CASE Finish
    BY <2>5 DEF Finish
  <2>6. CASE UNCHANGED vars
    BY <2>6 DEF vars
  <2>7. QED BY <2>1, <2>2, <2>3, <2>4, <2>5, <2>6 DEF Next
<1>2. QED BY <1>1, InitHolds, PTL DEF Spec

---------------------------------------------------------------------------
(* A group of a partition is a group of the input.                         *)
LEMMA GroupOfInput ==
  ASSUME AggregateInv, NEW p \in Parts, NEW x \in RowsOf(p)
  PROVE  x \in InputRows /\ GroupOf(RowsOf(p), x) = {y \in InputRows : is_same_group(x, y)}
<1>1. x \in InputRows /\ RowsOf(p) \subseteq InputRows
  BY DEF InputRows, RowsOf
<1>2. ASSUME NEW y \in InputRows, is_same_group(x, y) PROVE y \in RowsOf(p)
  <2>1. PICK q \in Parts : y \in RowsOf(q)
    BY DEF InputRows, RowsOf
  <2>2. Key[x] = Key[y] /\ Key[x] \in Int
    <3>1. x \in Rows
      BY RowsOfPart
    <3>2. QED BY <1>2, <3>1, RowsAssumption DEF is_same_group
  <2>3. p \in Nat /\ q \in Nat
    BY PartsOfAggregate
  <2>4. ~ (p < q)
    <3>1. p < q => Key[x] < Key[y]
      BY <2>1, KeysRise
    <3>2. QED BY <2>2, <3>1
  <2>5. ~ (q < p)
    <3>1. q < p => Key[y] < Key[x]
      BY <2>1, KeysRise
    <3>2. QED BY <2>2, <3>1
  <2>6. QED BY <2>1, <2>3, <2>4, <2>5
<1>3. QED BY <1>1, <1>2 DEF GroupOf

(* When all is aggregated, an aggregate of partition p holds rows of p.    *)
LEMMA AggregatesOfPart ==
  ASSUME AggregateInv, stage = "done", NEW p \in Parts
  PROVE  /\ IsGroups(output[p], RowsOf(p))
         /\ \A i \in 1 .. Len(output[p]) :
              \E x \in RowsOf(p) : /\ IsEnumerationOf(output[p][i], GroupOf(RowsOf(p), x))
                                   /\ ToSet(output[p][i]) = GroupOf(RowsOf(p), x)
<1>1. IsGroups(output[p], RowsOf(p))
  BY DEF AggregateInv, Stages, SecondCalls
<1>2. ASSUME NEW i \in 1 .. Len(output[p])
      PROVE  \E x \in RowsOf(p) : /\ IsEnumerationOf(output[p][i], GroupOf(RowsOf(p), x))
                                  /\ ToSet(output[p][i]) = GroupOf(RowsOf(p), x)
  <2>1. PICK x \in RowsOf(p) : IsEnumerationOf(output[p][i], GroupOf(RowsOf(p), x))
    BY <1>1 DEF IsGroups
  <2>2. output[p][i] \in Seq(Rows)
    <3>1. output[p] \in Seq(Seq(Rows))
      BY <1>1 DEF IsGroups
    <3>2. QED BY <3>1
  <2>3. QED BY <2>1, <2>2, EnumeratedSet
<1>3. QED BY <1>1, <1>2

(* A row of the input is in one aggregate.                                 *)
LEMMA AggregatedOnce ==
  ASSUME AggregateInv, stage = "done", NEW x \in InputRows
  PROVE  Cardinality({pi \in WrittenAt : x \in ToSet(output[pi[1]][pi[2]])}) = 1
<1>1. PICK p \in Parts : x \in RowsOf(p)
  BY DEF InputRows, RowsOf
<1>2. PICK i \in 1 .. Len(output[p]) : x \in ToSet(output[p][i])
  BY <1>1, AggregatesOfPart DEF IsGroups
<1>3. <<p, i>> \in WrittenAt
  BY DEF WrittenAt
<1>4. ASSUME NEW q \in Parts, NEW j \in 1 .. Len(output[q]), x \in ToSet(output[q][j])
      PROVE  q = p /\ j = i
  <2>1. x \in RowsOf(q)
    BY <1>4, AggregatesOfPart DEF GroupOf
  <2>2. q = p
    <3>1. /\ SortedParts(childRDD, numPartitions) /\ Apart(childRDD, numPartitions)
          /\ numPartitions \in Nat
          /\ p \in PartsOf(numPartitions) /\ q \in PartsOf(numPartitions)
          /\ x \in ToSet(childRDD[p]) /\ x \in ToSet(childRDD[q])
      BY <1>1, <2>1, NumPartitionsAssumption DEF AggregateInv, Parts, RowsOf
    <3>2. QED BY <3>1, OnePartition
  <2>3. IsGroups(output[p], RowsOf(p))
    BY AggregatesOfPart
  <2>4. ToSet(output[p][i]) \cap ToSet(output[p][j]) # {}
    BY <1>2, <1>4, <2>2
  <2>5. j \in 1 .. Len(output[p])
    BY <2>2
  <2>6. QED BY <2>2, <2>3, <2>4, <2>5 DEF IsGroups
<1>5. {pi \in WrittenAt : x \in ToSet(output[pi[1]][pi[2]])} = {<<p, i>>}
  <2>1. ASSUME NEW pi \in WrittenAt, x \in ToSet(output[pi[1]][pi[2]])
        PROVE  pi = <<p, i>>
    <3>1. PICK q \in Parts : \E j \in 1 .. Len(output[q]) : pi = <<q, j>>
      BY DEF WrittenAt
    <3>2. PICK j \in 1 .. Len(output[q]) : pi = <<q, j>>
      BY <3>1
    <3>3. x \in ToSet(output[q][j])
      BY <2>1, <3>2
    <3>4. QED BY <1>4, <3>2, <3>3
  <2>2. x \in ToSet(output[<<p, i>>[1]][<<p, i>>[2]])
    BY <1>2
  <2>3. QED BY <1>3, <2>1, <2>2
<1>6. QED BY <1>5, FS_Singleton

(* Once the aggregation is done, each row of the input was aggregated once *)
(* and each aggregate is that of a whole group: both enclave calls and the *)
(* shift between them, whatever partitions were computed again.            *)
THEOREM AggregateIsExact == Spec => []AggregateExact
<1>1. AggregateInv => AggregateExact
  <2> SUFFICES ASSUME AggregateInv, stage = "done"
               PROVE  /\ \A x \in InputRows :
                           Cardinality({pi \in WrittenAt : x \in ToSet(output[pi[1]][pi[2]])}) = 1
                      /\ \A pi \in WrittenAt :
                           \E x \in InputRows :
                             IsEnumerationOf(output[pi[1]][pi[2]],
                                             {y \in InputRows : is_same_group(x, y)})
    BY DEF AggregateExact
  <2>1. ASSUME NEW pi \in WrittenAt
        PROVE  \E x \in InputRows :
                 IsEnumerationOf(output[pi[1]][pi[2]], {y \in InputRows : is_same_group(x, y)})
    <3>1. PICK p \in Parts : \E i \in 1 .. Len(output[p]) : pi = <<p, i>>
      BY DEF WrittenAt
    <3>2. PICK i \in 1 .. Len(output[p]) : pi = <<p, i>>
      BY <3>1
    <3>3. PICK x \in RowsOf(p) : IsEnumerationOf(output[p][i], GroupOf(RowsOf(p), x))
      BY AggregatesOfPart
    <3>4. x \in InputRows /\ GroupOf(RowsOf(p), x) = {y \in InputRows : is_same_group(x, y)}
      BY GroupOfInput
    <3>5. pi[1] = p /\ pi[2] = i
      BY <3>2
    <3>6. QED BY <3>3, <3>4, <3>5
  <2>2. QED BY <2>1, AggregatedOnce
<1>2. QED BY <1>1, AggregateInvariant, PTL
=============================================================================
