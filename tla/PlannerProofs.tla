--------------------------- MODULE PlannerProofs ---------------------------
(***************************************************************************)
(* For every set of statements, of any operators in any order and of any   *)
(* depth: a statement is planned exactly if it is supported, then for the  *)
(* enclave alone, and each table that is read below a token, and no other, *)
(* is read with a check of it.                                             *)
(*                                                                         *)
(* Trees come first: what transformUp makes of a plan is what it makes of  *)
(* the root over what it made of the children, so that a fact about plans  *)
(* need only be shown for one node (TransformUpIs, TreeInduction). Then    *)
(* what each rule keeps of a plan and what it adds (Kept, the lemmas named *)
(* after the rules), what the strategies make of a plan that all rules     *)
(* have been through (StrategyPlans), and the optimizer's rounds.          *)
(***************************************************************************)
EXTENDS Planner, WellFoundedInduction, TLAPS

---------------------------------------------------------------------------
(* A set of naturals that is not empty has a least element.                *)
LEMMA LeastNatural ==
  ASSUME NEW T, T \subseteq Nat, T # {}
  PROVE  \E m \in T : \A n \in T : m <= n
<1>1. PICK m \in T : \A n \in T : ~ (<<n, m>> \in OpToRel(<, Nat))
  BY NatLessThanWellFounded, WFMin
<1>2. \A i, l \in Nat : i < l => <<i, l>> \in OpToRel(<, Nat)
  BY DEF OpToRel
<1>3. \A n \in T : ~ (n < m)
  BY <1>1, <1>2
<1>4. QED BY <1>3

(* Induction up to n, the set S being what holds of each number.           *)
LEMMA SetInduction ==
  ASSUME NEW n \in Nat, NEW S, 0 \in S,
         \A i \in 1 .. n : i - 1 \in S => i \in S
  PROVE  \A i \in 0 .. n : i \in S
<1> DEFINE T == {i \in 0 .. n : i \notin S}
<1> SUFFICES ASSUME T # {} PROVE FALSE
  OBVIOUS
<1>1. PICK m \in T : \A i \in T : m <= i
  <2>1. T \subseteq Nat
    OBVIOUS
  <2>2. QED BY <2>1, LeastNatural
<1>2. m \in 1 .. n
  OBVIOUS
<1>3. m - 1 \in 0 .. n /\ ~ (m <= m - 1)
  BY <1>2
<1>4. m - 1 \in S
  BY <1>1, <1>3
<1>5. QED BY <1>2, <1>4

---------------------------------------------------------------------------
(* Trees, level by level. *)

Children(T) == UNION {ToSet(t.in) : t \in T}

Level(p) ==
  LET level[n \in Nat] == IF n = 0 THEN {p} ELSE UNION {ToSet(t.in) : t \in level[n - 1]}
  IN  level

(* The levels of a tree are well defined, whatever the tree. *)
LEMMA LevelsExist ==
  ASSUME NEW p
  PROVE  \E f : f = [n \in Nat |-> IF n = 0 THEN {p} ELSE UNION {ToSet(t.in) : t \in f[n - 1]}]
<1> DEFINE Upto(f, m) == f = [n \in 0 .. m |-> IF n = 0 THEN {p} ELSE Children(f[n - 1])]
           G == {m \in Nat : \E f : Upto(f, m)}
<1>1. ASSUME NEW m \in Nat PROVE \E f : Upto(f, m)
  <2>1. 0 \in G
    <3> DEFINE f == [n \in 0 .. 0 |-> {p}]
    <3>1. Upto(f, 0)
      <4>1. \A n \in 0 .. 0 : n = 0
        OBVIOUS
      <4>2. QED BY <4>1
    <3>2. QED BY <3>1
  <2>2. ASSUME NEW i \in 1 .. m, i - 1 \in G PROVE i \in G
    <3>1. PICK f : Upto(f, i - 1)
      BY <2>2
    <3> DEFINE g == [n \in 0 .. i |-> IF n = 0 THEN {p} ELSE Children(f[n - 1])]
    <3>2. \A n \in 0 .. i - 1 : g[n] = f[n]
      <4>1. \A n \in 0 .. i - 1 : n \in 0 .. i
        OBVIOUS
      <4>2. \A n \in 0 .. i - 1 : f[n] = IF n = 0 THEN {p} ELSE Children(f[n - 1])
        BY <3>1
      <4>3. QED BY <4>1, <4>2
    <3>3. ASSUME NEW n \in 0 .. i PROVE g[n] = IF n = 0 THEN {p} ELSE Children(g[n - 1])
      <4>1. n # 0 => n - 1 \in 0 .. i - 1
        OBVIOUS
      <4>2. QED BY <3>2, <4>1
    <3>4. Upto(g, i)
      BY <3>3
    <3>5. \E h : Upto(h, i)
      BY <3>4
    <3>6. i \in Nat
      OBVIOUS
    <3>7. QED BY <3>5, <3>6
  <2>3. m \in G
    <3> HIDE DEF G
    <3>1. \A i \in 0 .. m : i \in G
      BY <2>1, <2>2, SetInduction
    <3>2. QED BY <3>1
  <2>4. QED BY <2>3
<1> DEFINE F(m) == CHOOSE f : Upto(f, m)
<1>2. ASSUME NEW m \in Nat PROVE Upto(F(m), m)
  BY <1>1
<1>3. ASSUME NEW m \in Nat, NEW n \in 0 .. m
      PROVE F(m)[n] = IF n = 0 THEN {p} ELSE Children(F(m)[n - 1])
  <2> HIDE DEF F
  <2>1. QED BY <1>2
<1> HIDE DEF F
<1>4. ASSUME NEW m \in Nat PROVE \A n \in 0 .. m : F(m)[n] = F(m + 1)[n]
  <2> DEFINE H == {n \in 0 .. m : F(m)[n] = F(m + 1)[n]}
  <2>1. 0 \in H
    BY <1>3
  <2>2. ASSUME NEW i \in 1 .. m, i - 1 \in H PROVE i \in H
    <3>1. F(m)[i] = Children(F(m)[i - 1]) /\ F(m + 1)[i] = Children(F(m + 1)[i - 1])
      BY <1>3
    <3>2. QED BY <2>2, <3>1
  <2>3. \A i \in 0 .. m : i \in H
    <3> HIDE DEF H
    <3>1. QED BY <2>1, <2>2, SetInduction
  <2>4. QED BY <2>3
<1> DEFINE g == [n \in Nat |-> F(n)[n]]
<1>5. ASSUME NEW n \in Nat
      PROVE g[n] = IF n = 0 THEN {p} ELSE Children(g[n - 1])
  <2>1. CASE n = 0
    BY <2>1, <1>3
  <2>2. CASE n # 0
    <3>1. n - 1 \in Nat /\ n - 1 \in 0 .. n - 1 /\ n = (n - 1) + 1 /\ n \in 0 .. n
      BY <2>2
    <3>2. F(n - 1)[n - 1] = F(n)[n - 1]
      BY <1>4, <3>1
    <3>3. F(n)[n] = Children(F(n)[n - 1])
      BY <1>3, <2>2, <3>1
    <3>4. QED BY <2>2, <3>1, <3>2, <3>3
  <2>3. QED BY <2>1, <2>2
<1>6. g = [n \in Nat |-> IF n = 0 THEN {p} ELSE Children(g[n - 1])]
  BY <1>5
<1>7. QED BY <1>6 DEF Children

LEMMA LevelIs ==
  ASSUME NEW p
  PROVE  /\ Level(p)[0] = {p}
         /\ \A n \in Nat : Level(p)[n + 1] = Children(Level(p)[n])
<1> DEFINE Eq(f) == f = [n \in Nat |-> IF n = 0 THEN {p}
                                       ELSE UNION {ToSet(t.in) : t \in f[n - 1]}]
           L == CHOOSE f : Eq(f)
<1>1. \E f : Eq(f)
  BY LevelsExist
<1>2. Eq(L)
  BY <1>1
<1>3. Level(p) = L
  BY DEF Level
<1> HIDE DEF L
<1>4. L[0] = {p}
  BY <1>2
<1>5. ASSUME NEW n \in Nat PROVE L[n + 1] = Children(L[n])
  <2>1. n + 1 \in Nat /\ n + 1 # 0 /\ (n + 1) - 1 = n
    OBVIOUS
  <2>2. L[n + 1] = UNION {ToSet(t.in) : t \in L[(n + 1) - 1]}
    BY <1>2, <2>1
  <2>3. QED BY <2>1, <2>2 DEF Children
<1>6. QED BY <1>3, <1>4, <1>5

LEMMA SubtreesAre ==
  ASSUME NEW p PROVE Subtrees(p) = UNION {Level(p)[n] : n \in 0 .. p.height}
BY DEF Subtrees, Level

(* A set of plans that has their children, which are lower. *)
Closed(S) ==
  \A t \in S :
    /\ t.in \in Seq(S)
    /\ t.height \in Nat
    /\ \A i \in DOMAIN t.in : t.in[i].height < t.height

LEMMA TreeInduction ==
  ASSUME NEW S, Closed(S), NEW G,
         \A t \in S : (\A i \in DOMAIN t.in : t.in[i] \in G) => t \in G
  PROVE  S \subseteq G
<1> DEFINE H == {n \in Nat : \A t \in S : t.height <= n => t \in G}
<1>1. ASSUME NEW t \in S, NEW i \in DOMAIN t.in
      PROVE  t.in[i] \in S /\ t.in[i].height \in Nat /\ t.in[i].height < t.height
  BY DEF Closed
<1>2. 0 \in H
  <2>1. ASSUME NEW t \in S, t.height <= 0 PROVE t \in G
    <3>1. t.height = 0
      BY <2>1 DEF Closed
    <3>2. \A i \in DOMAIN t.in : t.in[i] \in G
      BY <1>1, <3>1
    <3>3. QED BY <3>2
  <2>2. QED BY <2>1
<1>3. ASSUME NEW n \in Nat PROVE n \in H
  <2>1. ASSUME NEW j \in 1 .. n, j - 1 \in H PROVE j \in H
    <3>1. ASSUME NEW t \in S, t.height <= j PROVE t \in G
      <4>1. t.height \in Nat
        BY DEF Closed
      <4>2. ASSUME NEW i \in DOMAIN t.in PROVE t.in[i] \in G
        <5>1. t.in[i].height <= j - 1
          BY <1>1, <3>1, <4>1
        <5>2. QED BY <1>1, <2>1, <5>1
      <4>3. QED BY <4>2
    <3>2. QED BY <3>1
  <2>2. \A j \in 0 .. n : j \in H
    <3> HIDE DEF H
    <3>1. QED BY <1>2, <2>1, SetInduction
  <2>3. QED BY <2>2
<1>4. ASSUME NEW t \in S PROVE t \in G
  <2>1. t.height \in H /\ t.height <= t.height
    BY <1>3 DEF Closed
  <2>2. QED BY <2>1
<1>5. QED BY <1>4

(* The levels of a tree of a closed set stay in it, and end. *)
LEMMA LevelsLower ==
  ASSUME NEW S, Closed(S), NEW p \in S, NEW m \in Nat
  PROVE  \A t \in Level(p)[m] : t \in S /\ t.height \in Nat /\ t.height + m <= p.height
<1> DEFINE H == {n \in Nat : \A t \in Level(p)[n] : t \in S /\ t.height \in Nat
                                                     /\ t.height + n <= p.height}
<1>1. 0 \in H
  BY LevelIs DEF Closed
<1>2. ASSUME NEW j \in 1 .. m, j - 1 \in H PROVE j \in H
  <2>1. j - 1 \in Nat /\ (j - 1) + 1 = j
    OBVIOUS
  <2>2. Level(p)[j] = Children(Level(p)[j - 1])
    BY <2>1, LevelIs
  <2>3. ASSUME NEW t \in Level(p)[j]
        PROVE  t \in S /\ t.height \in Nat /\ t.height + j <= p.height
    <3>1. PICK u \in Level(p)[j - 1] : t \in ToSet(u.in)
      BY <2>2 DEF Children
    <3>2. u \in S /\ u.height \in Nat /\ u.height + (j - 1) <= p.height
      BY <1>2
    <3>3. PICK i \in DOMAIN u.in : t = u.in[i]
      BY <3>1 DEF ToSet
    <3>4. t \in S /\ t.height < u.height
      BY <3>2, <3>3 DEF Closed
    <3>5. t.height \in Nat /\ p.height \in Nat
      BY <3>4 DEF Closed
    <3>6. QED BY <3>2, <3>4, <3>5
  <2>4. QED BY <2>3
<1>3. \A j \in 0 .. m : j \in H
  <2> HIDE DEF H
  <2>1. QED BY <1>1, <1>2, SetInduction
<1>4. QED BY <1>3

(* The levels of a tree are those of its children. *)
LEMMA LevelOfChildren ==
  ASSUME NEW p, NEW m \in Nat
  PROVE  Level(p)[m + 1] = UNION {Level(c)[m] : c \in ToSet(p.in)}
<1> DEFINE H == {n \in Nat : Level(p)[n + 1] = UNION {Level(c)[n] : c \in ToSet(p.in)}}
<1>1. 0 \in H
  <2>1. Level(p)[0 + 1] = Children({p})
    BY LevelIs
  <2>2. Children({p}) = ToSet(p.in)
    BY DEF Children
  <2>3. \A c : Level(c)[0] = {c}
    BY LevelIs
  <2>4. UNION {Level(c)[0] : c \in ToSet(p.in)} = ToSet(p.in)
    BY <2>3
  <2>5. QED BY <2>1, <2>2, <2>4
<1>2. ASSUME NEW j \in 1 .. m, j - 1 \in H PROVE j \in H
  <2>1. j - 1 \in Nat /\ (j - 1) + 1 = j /\ j \in Nat
    OBVIOUS
  <2>2. Level(p)[j + 1] = Children(Level(p)[j])
    BY <2>1, LevelIs
  <2>3. Level(p)[j] = UNION {Level(c)[j - 1] : c \in ToSet(p.in)}
    BY <1>2, <2>1
  <2>4. \A c : Level(c)[j] = Children(Level(c)[j - 1])
    <3>1. ASSUME NEW c PROVE Level(c)[(j - 1) + 1] = Children(Level(c)[j - 1])
      BY <2>1, LevelIs
    <3>2. QED BY <2>1, <3>1
  <2>5. Children(UNION {Level(c)[j - 1] : c \in ToSet(p.in)})
          = UNION {Children(Level(c)[j - 1]) : c \in ToSet(p.in)}
    BY DEF Children
  <2>6. Level(p)[j + 1] = UNION {Level(c)[j] : c \in ToSet(p.in)}
    BY <2>2, <2>3, <2>4, <2>5
  <2>7. QED BY <2>1, <2>6
<1>3. \A j \in 0 .. m : j \in H
  <2> HIDE DEF H
  <2>1. QED BY <1>1, <1>2, SetInduction
<1>4. QED BY <1>3

(* What there is below a tree of a closed set. *)
LEMMA SubtreesClosed ==
  ASSUME NEW S, Closed(S), NEW p \in S
  PROVE  /\ p \in Subtrees(p)
         /\ Subtrees(p) \subseteq S
         /\ Closed(Subtrees(p))
         /\ Subtrees(p) = {p} \cup UNION {Subtrees(c) : c \in ToSet(p.in)}
<1>1. p.height \in Nat /\ p.in \in Seq(S)
  BY DEF Closed
<1>2. ASSUME NEW q \in S PROVE Subtrees(q) = UNION {Level(q)[n] : n \in Nat}
  <2>1. q.height \in Nat
    BY DEF Closed
  <2>2. ASSUME NEW n \in Nat, NEW t \in Level(q)[n] PROVE n \in 0 .. q.height
    <3>1. t.height \in Nat /\ t.height + n <= q.height
      BY LevelsLower
    <3>2. QED BY <2>1, <3>1
  <2>3. 0 .. q.height \subseteq Nat
    OBVIOUS
  <2>4. UNION {Level(q)[n] : n \in 0 .. q.height} = UNION {Level(q)[n] : n \in Nat}
    BY <2>2, <2>3, Zenon
  <2>5. QED BY <2>4, SubtreesAre
<1>3. p \in Subtrees(p)
  <2>1. p \in Level(p)[0]
    BY LevelIs
  <2>2. QED BY <1>2, <2>1
<1>4. Subtrees(p) \subseteq S
  BY <1>2, LevelsLower
<1>5. Closed(Subtrees(p))
  <2>1. ASSUME NEW t \in Subtrees(p) PROVE t.in \in Seq(Subtrees(p))
    <3>1. PICK n \in Nat : t \in Level(p)[n]
      BY <1>2
    <3>2. Level(p)[n + 1] = Children(Level(p)[n])
      BY LevelIs
    <3>3. \A c \in ToSet(t.in) : c \in Level(p)[n + 1]
      BY <3>1, <3>2 DEF Children
    <3>4. \A c \in ToSet(t.in) : c \in Subtrees(p)
      <4>1. n + 1 \in Nat
        OBVIOUS
      <4>2. QED BY <1>2, <3>3, <4>1
    <3>5. t.in \in Seq(S)
      BY <1>4 DEF Closed
    <3>6. \A i \in 1 .. Len(t.in) : t.in[i] \in Subtrees(p)
      BY <3>4, <3>5 DEF ToSet
    <3>7. QED BY <3>5, <3>6
  <2>2. QED BY <1>4, <2>1 DEF Closed
<1>6. Subtrees(p) = {p} \cup UNION {Subtrees(c) : c \in ToSet(p.in)}
  <2>1. \A c \in ToSet(p.in) : c \in S
    BY <1>1 DEF ToSet
  <2>2. \A n \in Nat : Level(p)[n + 1] = UNION {Level(c)[n] : c \in ToSet(p.in)}
    BY LevelOfChildren
  <2>3. UNION {Level(p)[n] : n \in Nat} = Level(p)[0] \cup UNION {Level(p)[n + 1] : n \in Nat}
    <3>1. \A n \in Nat : n = 0 \/ (n - 1 \in Nat /\ n = (n - 1) + 1)
      OBVIOUS
    <3>2. \A n \in Nat : n + 1 \in Nat
      OBVIOUS
    <3>3. UNION {Level(p)[n] : n \in Nat} \subseteq
            Level(p)[0] \cup UNION {Level(p)[n + 1] : n \in Nat}
      BY <3>1
    <3>4. QED BY <3>2, <3>3
  <2>4. UNION {Level(p)[n + 1] : n \in Nat} = UNION {Subtrees(c) : c \in ToSet(p.in)}
    <3>1. \A c \in ToSet(p.in) : Subtrees(c) = UNION {Level(c)[n] : n \in Nat}
      BY <1>2, <2>1
    <3>2. ASSUME NEW x
          PROVE  x \in UNION {Level(p)[n + 1] : n \in Nat}
                   <=> \E n \in Nat : \E c \in ToSet(p.in) : x \in Level(c)[n]
      BY <2>2
    <3>3. ASSUME NEW x
          PROVE  x \in UNION {Subtrees(c) : c \in ToSet(p.in)}
                   <=> \E n \in Nat : \E c \in ToSet(p.in) : x \in Level(c)[n]
      BY <3>1
    <3>4. QED BY <3>2, <3>3
  <2>5. Level(p)[0] = {p}
    BY LevelIs
  <2>6. QED BY <1>2, <2>3, <2>4, <2>5
<1>7. QED BY <1>3, <1>4, <1>5, <1>6

---------------------------------------------------------------------------
(* The recursion over a tree: what a rule or a strategy makes of it, and    *)
(* the tables that it reads.                                               *)
Fold(step, p, in) == IF step = "Reads" THEN ReadsOf(p, in) ELSE Convert(step, p, in)

Up(step, S, f) ==
  f = [t \in S |-> Fold(step, t, [i \in DOMAIN t.in |-> f[t.in[i]]])]

LEMMA UpOneLevel ==
  ASSUME NEW step, NEW S, NEW T, S \subseteq T,
         \A t \in T : \A i \in DOMAIN t.in : t.in[i] \in S,
         NEW f, Up(step, S, f)
  PROVE  \E g : Up(step, T, g)
<1> DEFINE g == [t \in T |-> Fold(step, t, [i \in DOMAIN t.in |-> f[t.in[i]]])]
<1>1. ASSUME NEW t \in S PROVE g[t] = f[t]
  BY DEF Up
<1>2. ASSUME NEW t \in T
      PROVE  [i \in DOMAIN t.in |-> g[t.in[i]]] = [i \in DOMAIN t.in |-> f[t.in[i]]]
  <2> HIDE DEF g
  <2>1. QED BY <1>1
<1>3. g = [t \in T |-> Fold(step, t, [i \in DOMAIN t.in |-> g[t.in[i]]])]
  <2>1. ASSUME NEW t \in T
        PROVE  g[t] = Fold(step, t, [i \in DOMAIN t.in |-> g[t.in[i]]])
    <3>1. g[t] = Fold(step, t, [i \in DOMAIN t.in |-> f[t.in[i]]])
      OBVIOUS
    <3>2. QED BY <3>1, <1>2
  <2>2. QED BY <2>1
<1>4. Up(step, T, g)
  BY <1>3 DEF Up
<1>5. QED BY <1>4

LEMMA UpExists ==
  ASSUME NEW step, NEW S, Closed(S), NEW n \in Nat, \A t \in S : t.height <= n
  PROVE  \E f : Up(step, S, f)
<1> DEFINE Low(m) == {t \in S : t.height <= m}
           H == {m \in Nat : \E f : Up(step, Low(m), f)}
<1>1. ASSUME NEW t \in S, NEW i \in DOMAIN t.in
      PROVE  /\ t.in[i] \in S /\ t.in[i].height \in Nat /\ t.in[i].height < t.height
             /\ t.height \in Nat
  BY DEF Closed
<1>2. 0 \in H
  <2> DEFINE f == [t \in {} |-> Fold(step, t, [i \in DOMAIN t.in |-> 0])]
  <2>1. Up(step, {}, f)
    <3>1. f = [t \in {} |-> Fold(step, t, [i \in DOMAIN t.in |-> f[t.in[i]]])]
      OBVIOUS
    <3>2. QED BY <3>1 DEF Up
  <2>2. \A t \in Low(0) : \A i \in DOMAIN t.in : t.in[i] \in {}
    BY <1>1
  <2> HIDE DEF f
  <2>3. \E g : Up(step, Low(0), g)
    <3>1. {} \subseteq Low(0)
      OBVIOUS
    <3> HIDE DEF Low
    <3>2. QED BY <2>1, <2>2, <3>1, UpOneLevel
  <2>4. QED BY <2>3
<1>3. ASSUME NEW j \in 1 .. n, j - 1 \in H PROVE j \in H
  <2>1. PICK f : Up(step, Low(j - 1), f)
    BY <1>3
  <2>2. Low(j - 1) \subseteq Low(j)
    BY DEF Closed
  <2>3. \A t \in Low(j) : \A i \in DOMAIN t.in : t.in[i] \in Low(j - 1)
    BY <1>1
  <2>4. \E g : Up(step, Low(j), g)
    <3> HIDE DEF Low
    <3>1. QED BY <2>1, <2>2, <2>3, UpOneLevel
  <2>5. j \in Nat
    OBVIOUS
  <2>6. QED BY <2>4, <2>5
<1>4. n \in H
  <2>1. \A j \in 0 .. n : j \in H
    <3> HIDE DEF H
    <3>1. QED BY <1>2, <1>3, SetInduction
  <2>2. QED BY <2>1
<1>5. Low(n) = S
  OBVIOUS
<1>6. QED BY <1>4, <1>5

(* What a step makes of a tree is what it makes of the root, over what it  *)
(* makes of the children.                                                  *)
LEMMA UpAgrees ==
  ASSUME NEW step, NEW S, NEW T, Closed(T), T \subseteq S,
         NEW f, Up(step, S, f), NEW g, Up(step, T, g)
  PROVE  \A t \in T : f[t] = g[t]
<1> DEFINE G == {t \in T : f[t] = g[t]}
<1>1. ASSUME NEW t \in T, \A i \in DOMAIN t.in : t.in[i] \in G PROVE t \in G
  <2>1. [i \in DOMAIN t.in |-> f[t.in[i]]] = [i \in DOMAIN t.in |-> g[t.in[i]]]
    BY <1>1
  <2>2. f[t] = Fold(step, t, [i \in DOMAIN t.in |-> f[t.in[i]]])
    BY DEF Up
  <2>3. g[t] = Fold(step, t, [i \in DOMAIN t.in |-> g[t.in[i]]])
    BY DEF Up
  <2>4. QED BY <2>1, <2>2, <2>3
<1>2. T \subseteq G
  <2> HIDE DEF G
  <2>1. QED BY <1>1, TreeInduction
<1>3. QED BY <1>2

LEMMA UpIs ==
  ASSUME NEW step, NEW S, Closed(S), NEW p \in S,
         NEW F, \A q \in S : Up(step, Subtrees(q), F[q])
  PROVE  F[p][p] = Fold(step, p, [i \in DOMAIN p.in |-> F[p.in[i]][p.in[i]]])
<1>1. p \in Subtrees(p) /\ Closed(Subtrees(p)) /\ p.in \in Seq(S)
  BY SubtreesClosed DEF Closed
<1>2. ASSUME NEW i \in DOMAIN p.in PROVE F[p][p.in[i]] = F[p.in[i]][p.in[i]]
  <2>1. p.in[i] \in S /\ p.in[i] \in ToSet(p.in)
    BY <1>1 DEF ToSet
  <2>2. /\ p.in[i] \in Subtrees(p.in[i]) /\ Closed(Subtrees(p.in[i]))
        /\ Subtrees(p.in[i]) \subseteq Subtrees(p)
    BY <2>1, SubtreesClosed
  <2> DEFINE f == F[p]
             g == F[p.in[i]]
  <2>3. Up(step, Subtrees(p), f) /\ Up(step, Subtrees(p.in[i]), g)
    BY <2>1
  <2> DEFINE c == p.in[i]
             T == Subtrees(c)
  <2>4. Closed(T) /\ T \subseteq Subtrees(p) /\ c \in T /\ Up(step, T, g)
    BY <2>2, <2>3
  <2> HIDE DEF f, g, T
  <2>5. \A t \in T : f[t] = g[t]
    BY <2>3, <2>4, UpAgrees
  <2>6. f[c] = g[c]
    BY <2>4, <2>5
  <2>7. QED BY <2>6 DEF f, g
<1>3. F[p][p] = Fold(step, p, [i \in DOMAIN p.in |-> F[p][p.in[i]]])
  <2>1. Up(step, Subtrees(p), F[p])
    OBVIOUS
  <2>2. QED BY <1>1, <2>1 DEF Up
<1>4. [i \in DOMAIN p.in |-> F[p][p.in[i]]] = [i \in DOMAIN p.in |-> F[p.in[i]][p.in[i]]]
  BY <1>2
<1>5. QED BY <1>3, <1>4

LEMMA UpOverSubtrees ==
  ASSUME NEW step, NEW S, Closed(S), NEW q \in S
  PROVE  \E f : Up(step, Subtrees(q), f)
<1>1. Closed(Subtrees(q)) /\ q.height \in Nat
  BY SubtreesClosed DEF Closed
<1>2. ASSUME NEW t \in Subtrees(q) PROVE t.height <= q.height
  <2>1. PICK m \in 0 .. q.height : t \in Level(q)[m]
    BY SubtreesAre
  <2>2. m \in Nat /\ t.height \in Nat /\ t.height + m <= q.height
    BY <1>1, <2>1, LevelsLower
  <2>3. QED BY <1>1, <2>2
<1>3. QED BY <1>1, <1>2, UpExists

LEMMA TransformUpIs ==
  ASSUME NEW step, step # "Reads", NEW S, Closed(S), NEW p \in S
  PROVE  transformUp(step, p)
           = Convert(step, p, [i \in DOMAIN p.in |-> transformUp(step, p.in[i])])
<1> DEFINE F == [q \in S |-> CHOOSE f : Up(step, Subtrees(q), f)]
<1>1. ASSUME NEW q \in S PROVE Up(step, Subtrees(q), F[q]) /\ transformUp(step, q) = F[q][q]
  <2>1. \E f : Up(step, Subtrees(q), f)
    BY UpOverSubtrees
  <2>2. Up(step, Subtrees(q), F[q])
    BY <2>1
  <2>3. transformUp(step, q) = F[q][q]
    BY DEF transformUp, Up, Fold
  <2>4. QED BY <2>2, <2>3
<1> HIDE DEF F
<1>2. F[p][p] = Fold(step, p, [i \in DOMAIN p.in |-> F[p.in[i]][p.in[i]]])
  BY <1>1, UpIs
<1>3. [i \in DOMAIN p.in |-> F[p.in[i]][p.in[i]]]
        = [i \in DOMAIN p.in |-> transformUp(step, p.in[i])]
  <2>1. \A i \in DOMAIN p.in : p.in[i] \in S
    BY DEF Closed
  <2>2. QED BY <1>1, <2>1
<1>4. QED BY <1>1, <1>2, <1>3 DEF Fold

LEMMA ReadsIs ==
  ASSUME NEW S, Closed(S), NEW p \in S
  PROVE  Reads(p) = ReadsOf(p, [i \in DOMAIN p.in |-> Reads(p.in[i])])
<1> DEFINE step == "Reads"
           F == [q \in S |-> CHOOSE f : Up(step, Subtrees(q), f)]
<1>1. ASSUME NEW q \in S PROVE Up(step, Subtrees(q), F[q]) /\ Reads(q) = F[q][q]
  <2>1. \E f : Up(step, Subtrees(q), f)
    BY UpOverSubtrees
  <2>2. Up(step, Subtrees(q), F[q])
    BY <2>1
  <2>3. Reads(q) = F[q][q]
    BY DEF Reads, Up, Fold
  <2>4. QED BY <2>2, <2>3
<1> HIDE DEF F
<1>2. F[p][p] = Fold(step, p, [i \in DOMAIN p.in |-> F[p.in[i]][p.in[i]]])
  <2> HIDE DEF step
  <2>1. QED BY <1>1, UpIs
<1>3. [i \in DOMAIN p.in |-> F[p.in[i]][p.in[i]]] = [i \in DOMAIN p.in |-> Reads(p.in[i])]
  <2>1. \A i \in DOMAIN p.in : p.in[i] \in S
    BY DEF Closed
  <2>2. QED BY <1>1, <2>1
<1>4. QED BY <1>1, <1>2, <1>3 DEF Fold

---------------------------------------------------------------------------
(* Plans. *)

LEMMA AboveIs ==
  ASSUME NEW U, NEW in \in Seq(U), \A i \in DOMAIN in : in[i].height \in Nat
  PROVE  Above(in) \in Nat /\ \A i \in DOMAIN in : in[i].height < Above(in)
<1> DEFINE T(n) == {-1} \cup {in[i].height : i \in 1 .. n}
           Top(n) == \E m \in T(n) : \A x \in T(n) : m >= x
           H == {n \in 0 .. Len(in) : Top(n)}
<1>1. Len(in) \in Nat /\ DOMAIN in = 1 .. Len(in)
  OBVIOUS
<1>2. 0 \in H
  <2>1. T(0) = {-1}
    OBVIOUS
  <2>2. QED BY <1>1, <2>1
<1>3. ASSUME NEW j \in 1 .. Len(in), j - 1 \in H PROVE j \in H
  <2>1. PICK m \in T(j - 1) : \A x \in T(j - 1) : m >= x
    BY <1>3
  <2>2. T(j) = T(j - 1) \cup {in[j].height}
    <3>1. 1 .. j = (1 .. j - 1) \cup {j}
      BY <1>1
    <3>2. QED BY <3>1
  <2>3. m \in Int /\ in[j].height \in Nat
    BY <1>1
  <2>4. CASE m >= in[j].height
    <3>1. m \in T(j) /\ \A x \in T(j) : m >= x
      <4> HIDE DEF T
      <4>1. QED BY <2>1, <2>2, <2>4
    <3>2. Top(j) /\ j \in 0 .. Len(in)
      <4> HIDE DEF T
      <4>1. QED BY <1>1, <3>1
    <3> HIDE DEF Top
    <3>3. QED BY <3>2
  <2>5. CASE ~ (m >= in[j].height)
    <3>1. \A x \in T(j - 1) : x \in Int
      BY <1>1
    <3>2. in[j].height \in T(j) /\ \A x \in T(j) : in[j].height >= x
      <4> HIDE DEF T
      <4>1. QED BY <2>1, <2>2, <2>3, <2>5, <3>1
    <3>3. Top(j) /\ j \in 0 .. Len(in)
      <4> HIDE DEF T
      <4>1. QED BY <1>1, <3>2
    <3> HIDE DEF Top
    <3>4. QED BY <3>3
  <2>6. QED BY <2>4, <2>5
<1>4. Len(in) \in H
  <2> HIDE DEF H
  <2>1. \A j \in 0 .. Len(in) : j \in H
    BY <1>1, <1>2, <1>3, SetInduction
  <2>2. Len(in) \in 0 .. Len(in)
    BY <1>1
  <2>3. QED BY <2>1, <2>2
<1> DEFINE S == {-1} \cup {in[i].height : i \in DOMAIN in}
<1>5. \E m \in S : \A x \in S : m >= x
  BY <1>1, <1>4
<1>6. Max(S) \in S /\ \A x \in S : Max(S) >= x
  <2> HIDE DEF S
  <2>1. QED BY <1>5 DEF Max
<1>7. Max(S) \in Int /\ Max(S) >= -1
  BY <1>1, <1>6
<1>8. \A i \in DOMAIN in : Max(S) >= in[i].height
  BY <1>6
<1>9. Above(in) = 1 + Max(S)
  BY DEF Above
<1> HIDE DEF S
<1>10. QED BY <1>7, <1>8, <1>9

(* A record with the children and the arguments that its operator has.     *)
Shape(t) ==
  /\ t = [argument \in DOMAIN t |-> t[argument]]
  /\ {"op", "in", "height"} \cup Arguments(t.op) \subseteq DOMAIN t
  /\ "table" \in Arguments(t.op) => t.in = <<>>
  /\ t.op \in WithOneChild => Len(t.in) = 1
  /\ t.op \in {"Join", "EncryptedJoin"} => Len(t.in) = 2

LEMMA PlanIs ==
  ASSUME NEW p, IsPlan(p)
  PROVE  /\ p \in Subtrees(p)
         /\ Closed(Subtrees(p))
         /\ Shape(p)
         /\ p.in \in Seq(Subtrees(p))
         /\ \A t \in Subtrees(p) : IsPlan(t)
         /\ \A i \in DOMAIN p.in : IsPlan(p.in[i])
         /\ \A i \in 1 .. Len(p.in) : IsPlan(p.in[i])
         /\ Subtrees(p) = {p} \cup UNION {Subtrees(p.in[i]) : i \in DOMAIN p.in}
<1>1. Closed(Subtrees(p))
  BY DEF IsPlan, Closed
<1>2. p \in Subtrees(p)
  <2>1. p \in Level(p)[0] /\ 0 \in 0 .. p.height
    BY LevelIs DEF IsPlan
  <2>2. QED BY <2>1, SubtreesAre
<1>3. p.in \in Seq(Subtrees(p))
  BY <1>2 DEF IsPlan
<1>4. Subtrees(p) = {p} \cup UNION {Subtrees(p.in[i]) : i \in DOMAIN p.in}
  <2>1. Subtrees(p) = {p} \cup UNION {Subtrees(c) : c \in ToSet(p.in)}
    BY <1>1, <1>2, SubtreesClosed
  <2>2. QED BY <2>1 DEF ToSet
<1>5. ASSUME NEW t \in Subtrees(p) PROVE IsPlan(t)
  <2>1. Subtrees(t) \subseteq Subtrees(p) /\ Closed(Subtrees(t))
    BY <1>1, SubtreesClosed
  <2>2. \A u \in Subtrees(t) : u.in \in Seq(Subtrees(t))
    BY <2>1 DEF Closed
  <2>3. t.height \in Nat
    BY DEF IsPlan
  <2>4. QED BY <2>1, <2>2, <2>3 DEF IsPlan
<1>6. Shape(p)
  BY <1>2 DEF IsPlan, Shape
<1>7. \A i \in DOMAIN p.in : p.in[i] \in Subtrees(p)
  BY <1>3
<1>8. DOMAIN p.in = 1 .. Len(p.in)
  BY <1>3
<1>9. QED BY <1>1, <1>2, <1>3, <1>4, <1>5, <1>6, <1>7, <1>8, Zenon

(* A record over plans is a plan. *)
LEMMA PlanOver ==
  ASSUME NEW n, Shape(n), NEW U, n.in \in Seq(U),
         \A i \in DOMAIN n.in : IsPlan(n.in[i]),
         n.height \in Nat, \A i \in DOMAIN n.in : n.in[i].height < n.height
  PROVE  IsPlan(n)
<1> DEFINE S == {n} \cup UNION {Subtrees(n.in[i]) : i \in DOMAIN n.in}
<1>1. \A i \in DOMAIN n.in : n.in[i] \in S
  BY PlanIs
<1>2. n.in \in Seq(S)
  <2>1. \A i \in 1 .. Len(n.in) : n.in[i] \in S
    BY <1>1
  <2> HIDE DEF S
  <2>2. QED BY <2>1
<1>3. \A t \in S : t # n => t.in \in Seq(S) /\ IsPlan(t) /\ Shape(t)
  <2>1. ASSUME NEW i \in DOMAIN n.in, NEW t \in Subtrees(n.in[i])
        PROVE  t.in \in Seq(S) /\ IsPlan(t) /\ Shape(t)
    <3>1. IsPlan(t) /\ Shape(t) /\ t.in \in Seq(Subtrees(n.in[i]))
      BY PlanIs DEF IsPlan
    <3>2. Subtrees(n.in[i]) \subseteq S
      OBVIOUS
    <3> HIDE DEF S
    <3>3. QED BY <3>1, <3>2
  <2>2. QED BY <2>1
<1>4. \A t \in S : /\ t.height \in Nat
                   /\ \A i \in DOMAIN t.in : t.in[i].height < t.height
  <2>1. \A t : IsPlan(t) => t.height \in Nat /\ \A i \in DOMAIN t.in : t.in[i].height < t.height
    BY PlanIs DEF IsPlan
  <2>2. QED BY <1>3, <2>1
<1>5. Closed(S)
  <2> HIDE DEF S
  <2>1. \A t \in S : t.in \in Seq(S)
    BY <1>2, <1>3
  <2>2. QED BY <1>4, <2>1 DEF Closed
<1>6. n \in S
  OBVIOUS
<1>7. /\ Subtrees(n) \subseteq S
      /\ Closed(Subtrees(n))
  <2> HIDE DEF S
  <2>1. QED BY <1>5, <1>6, SubtreesClosed
<1>8. \A t \in Subtrees(n) : Shape(t)
  BY <1>3, <1>7
<1>9. QED BY <1>7, <1>8 DEF IsPlan, Shape, Closed

LEMMA LeafPlan ==
  ASSUME NEW op, op \in Exceptions
  PROVE  IsPlan(Leaf(op)) /\ Leaf(op).op = op /\ Leaf(op).in = <<>>
<1> DEFINE n == Leaf(op)
<1>1. n.op = op /\ n.in = <<>> /\ n.height = 0 /\ DOMAIN n = {"op", "in", "height"}
  BY DEF Leaf
<1>2. n = [argument \in DOMAIN n |-> n[argument]]
  BY DEF Leaf
<1>3. Arguments(op) = {}
  BY DEF Arguments, Exceptions, Relations
<1>4. op \notin WithOneChild /\ op \notin {"Join", "EncryptedJoin"}
  BY DEF WithOneChild, Exceptions
<1> HIDE DEF n
<1>5. Shape(n)
  BY <1>1, <1>2, <1>3, <1>4 DEF Shape
<1>6. n.in \in Seq({})
  BY <1>1
<1>7. /\ n.height \in Nat
      /\ \A i \in DOMAIN n.in : IsPlan(n.in[i]) /\ n.in[i].height < n.height
  BY <1>1
<1>8. IsPlan(n)
  BY <1>5, <1>6, <1>7, PlanOver
<1>9. QED BY <1>1, <1>8 DEF n

---------------------------------------------------------------------------
(* What is said of every operator of a plan, said of its root and of its   *)
(* children.                                                               *)

Tabled == Relations \cup {"EncryptedBlockRDD"}

(* Nothing but tables and null checks. *)
BareNode(t) == t.op \in Tabled \/ IsNullFilter(t)
Bare(p)     == \A t \in Subtrees(p) : BareNode(t)

(* Supported, for a plan that the rules have begun to convert.             *)
Fine(t) ==
  CASE t.op = "ACPolicyApply"             -> Bare(t.in[1])
    [] t.op \in {"Join", "EncryptedJoin"} -> t.leftKeys # <<>>
    [] t.op = "Sort"                      -> t.global
    [] t.op = "Union"                     -> Len(t.in) = 2
    [] OTHER -> t.op \in Relations \cup EncryptedOperator
                           \cup {"Project", "Filter", "Aggregate", "ResPrepared"}
Plannable(p) == \A t \in Subtrees(p) : Fine(t)

(* ConvertToOpaqueOperators has been there. *)
Settled(t) ==
  /\ Plannable(t) => t.op \in OpaqueOperator
  /\ Bare(t) => t.op = "EncryptedBlockRDD"
AllSettled(p) == \A t \in Subtrees(p) : Settled(t)

(* An encrypted operator is over encrypted ones, or has thrown.            *)
IsCast(t) ==
  t.op \in EncryptedOperator => \A i \in DOMAIN t.in : t.in[i].op \in OpaqueOperator \cup Exceptions
AllCast(p) == \A t \in Subtrees(p) : IsCast(t)

(* No token is left that could be applied, and no result to be prepared.   *)
Applied(t)    == t.op = "ACPolicyApply" => ~ Bare(t.in[1])
AllApplied(p) == \A t \in Subtrees(p) : Applied(t)
Prepared(t)    == t.op = "ResPrepared" => ~ isEncrypted(t.in[1])
AllPrepared(p) == \A t \in Subtrees(p) : Prepared(t)

(* What a plan with one child and nothing to add reads.                    *)
LEMMA FlattenOne ==
  ASSUME NEW x PROVE FlattenSeq(<<x>>) = x
<1> DEFINE seqs == <<x>>
           Flat(f) == f = [i \in 1 .. Len(seqs) |-> IF i = 1 THEN seqs[i] ELSE f[i - 1] \o seqs[i]]
           flatten == CHOOSE f : Flat(f)
<1>1. Len(seqs) = 1 /\ seqs[1] = x /\ 1 .. Len(seqs) = {1}
  OBVIOUS
<1>2. FlattenSeq(seqs) = flatten[1]
  BY <1>1 DEF FlattenSeq
<1> HIDE DEF seqs
<1>3. Flat([i \in 1 .. Len(seqs) |-> x])
  BY <1>1
<1>4. Flat(flatten)
  <2> HIDE DEF Flat
  <2>1. QED BY <1>3
<1>5. flatten[1] = x
  <2> HIDE DEF flatten
  <2>1. QED BY <1>1, <1>4
<1>6. QED BY <1>2, <1>5 DEF seqs

LEMMA ForEachOperator ==
  ASSUME NEW p, IsPlan(p)
  PROVE  /\ Bare(p) <=> BareNode(p) /\ \A i \in DOMAIN p.in : Bare(p.in[i])
         /\ Plannable(p) <=> Fine(p) /\ \A i \in DOMAIN p.in : Plannable(p.in[i])
         /\ AllSettled(p) <=> Settled(p) /\ \A i \in DOMAIN p.in : AllSettled(p.in[i])
         /\ AllCast(p) <=> IsCast(p) /\ \A i \in DOMAIN p.in : AllCast(p.in[i])
         /\ AllApplied(p) <=> Applied(p) /\ \A i \in DOMAIN p.in : AllApplied(p.in[i])
         /\ AllPrepared(p) <=> Prepared(p) /\ \A i \in DOMAIN p.in : AllPrepared(p.in[i])
         /\ Throws(p) <=> p.op \in Exceptions \/ \E i \in DOMAIN p.in : Throws(p.in[i])
         /\ isEncrypted(p) <=>
              p.op \in OpaqueOperator \/ \E i \in DOMAIN p.in : isEncrypted(p.in[i])
<1>1. \A t : t \in Subtrees(p) <=> t = p \/ \E i \in DOMAIN p.in : t \in Subtrees(p.in[i])
  BY PlanIs
<1>2. Bare(p) <=> BareNode(p) /\ \A i \in DOMAIN p.in : Bare(p.in[i])
  BY <1>1, Zenon DEF Bare
<1>3. Plannable(p) <=> Fine(p) /\ \A i \in DOMAIN p.in : Plannable(p.in[i])
  BY <1>1, Zenon DEF Plannable
<1>4. AllSettled(p) <=> Settled(p) /\ \A i \in DOMAIN p.in : AllSettled(p.in[i])
  BY <1>1, Zenon DEF AllSettled
<1>5. AllCast(p) <=> IsCast(p) /\ \A i \in DOMAIN p.in : AllCast(p.in[i])
  BY <1>1, Zenon DEF AllCast
<1>6. AllApplied(p) <=> Applied(p) /\ \A i \in DOMAIN p.in : AllApplied(p.in[i])
  BY <1>1, Zenon DEF AllApplied
<1>7. AllPrepared(p) <=> Prepared(p) /\ \A i \in DOMAIN p.in : AllPrepared(p.in[i])
  BY <1>1, Zenon DEF AllPrepared
<1>8. Throws(p) <=> p.op \in Exceptions \/ \E i \in DOMAIN p.in : Throws(p.in[i])
  BY <1>1, Zenon DEF Throws
<1>9. isEncrypted(p) <=>
        p.op \in OpaqueOperator \/ \E i \in DOMAIN p.in : isEncrypted(p.in[i])
  BY <1>1, Zenon DEF isEncrypted
<1>10. QED BY <1>2, <1>3, <1>4, <1>5, <1>6, <1>7, <1>8, <1>9

Reading == Unchecked \cup Checked

LEMMA ReadsOfEachOperator ==
  ASSUME NEW p, IsPlan(p)
  PROVE  /\ Reads(p) = ReadsOf(p, [i \in DOMAIN p.in |-> Reads(p.in[i])])
         /\ p.op \in Reading => Reads(p) = <<[table |-> p.table, checked |-> p.op \in Checked]>>
         /\ p.op \notin Reading \cup {"ACPolicyApply"} =>
              /\ Reads(p) = FlattenSeq([i \in DOMAIN p.in |-> Reads(p.in[i])])
              /\ DOMAIN p.in = {1} => Reads(p) = Reads(p.in[1])
<1> DEFINE below == [i \in DOMAIN p.in |-> Reads(p.in[i])]
<1>1. Reads(p) = ReadsOf(p, below)
  <2>1. p \in Subtrees(p) /\ Closed(Subtrees(p))
    BY PlanIs
  <2>2. QED BY <2>1, ReadsIs
<1>2. Unchecked \cap Checked = {} /\ "ACPolicyApply" \notin Reading
  BY DEF Unchecked, Checked, Reading, Relations
<1>3. DOMAIN p.in = {1} => below = <<Reads(p.in[1])>>
  OBVIOUS
<1> HIDE DEF below
<1>4. p.op \in Reading => Reads(p) = <<[table |-> p.table, checked |-> p.op \in Checked]>>
  <2>1. CASE p.op \in Unchecked
    <3>1. ReadsOf(p, below) = <<[table |-> p.table, checked |-> FALSE]>>
      BY <1>2, <2>1 DEF ReadsOf, Reading
    <3>2. (p.op \in Checked) = FALSE
      BY <1>2, <2>1
    <3>3. QED BY <1>1, <3>1, <3>2
  <2>2. CASE p.op \in Checked
    <3>1. ReadsOf(p, below) = <<[table |-> p.table, checked |-> TRUE]>>
      BY <1>2, <2>2 DEF ReadsOf, Reading
    <3>2. (p.op \in Checked) = TRUE
      BY <2>2
    <3>3. QED BY <1>1, <3>1, <3>2
  <2>3. QED BY <2>1, <2>2 DEF Reading
<1>5. p.op \notin Reading \cup {"ACPolicyApply"} => Reads(p) = FlattenSeq(below)
  BY <1>1 DEF ReadsOf, Reading
<1>6. QED BY <1>1, <1>3, <1>4, <1>5, FlattenOne DEF below

(* The plan t over other children. *)
LEMMA WithChildrenPlan ==
  ASSUME NEW t, IsPlan(t), NEW in, in = [i \in DOMAIN t.in |-> in[i]],
         \A i \in DOMAIN t.in : IsPlan(in[i])
  PROVE  /\ IsPlan(WithChildren(t, in))
         /\ WithChildren(t, in).op = t.op
         /\ WithChildren(t, in).in = in
         /\ WithChildren(t, in).height \in Nat
         /\ DOMAIN WithChildren(t, in) = DOMAIN t
         /\ DOMAIN in = DOMAIN t.in
         /\ Len(in) = Len(t.in)
         /\ "condition" \in DOMAIN t => WithChildren(t, in).condition = t.condition
         /\ "global" \in DOMAIN t => WithChildren(t, in).global = t.global
         /\ "leftKeys" \in DOMAIN t => WithChildren(t, in).leftKeys = t.leftKeys
         /\ "table" \in DOMAIN t => WithChildren(t, in).table = t.table
<1> DEFINE T == WithChildren(t, in)
<1>1. Shape(t) /\ t.in \in Seq(Subtrees(t)) /\ {"op", "in", "height"} \subseteq DOMAIN t
  BY PlanIs DEF Shape
<1>2. /\ t = [argument \in DOMAIN t |-> t[argument]]
      /\ "op" \in DOMAIN t /\ "in" \in DOMAIN t /\ "height" \in DOMAIN t
  BY <1>1 DEF Shape
<1>3. /\ T.op = t.op /\ T.in = in /\ T.height = Above(in) /\ DOMAIN T = DOMAIN t
      /\ T = [argument \in DOMAIN T |-> T[argument]]
      /\ "condition" \in DOMAIN t => T.condition = t.condition
      /\ "global" \in DOMAIN t => T.global = t.global
      /\ "leftKeys" \in DOMAIN t => T.leftKeys = t.leftKeys
      /\ "table" \in DOMAIN t => T.table = t.table
  BY <1>2 DEF WithChildren
<1> HIDE DEF T
<1>4. DOMAIN in = DOMAIN t.in /\ DOMAIN t.in = 1 .. Len(t.in) /\ Len(t.in) \in Nat
  BY <1>1
<1> DEFINE U == {in[i] : i \in DOMAIN t.in}
<1>5. in \in Seq(U) /\ Len(in) = Len(t.in)
  <2>1. \A i \in 1 .. Len(t.in) : in[i] \in U
    BY <1>4
  <2>2. in = [i \in 1 .. Len(t.in) |-> in[i]]
    BY <1>4
  <2> HIDE DEF U
  <2>3. QED BY <1>4, <2>1, <2>2
<1>6. \A i \in DOMAIN in : in[i].height \in Nat
  BY <1>4 DEF IsPlan
<1>7. Above(in) \in Nat /\ \A i \in DOMAIN in : in[i].height < Above(in)
  <2> HIDE DEF U
  <2>1. QED BY <1>5, <1>6, AboveIs
<1>8. t.in = <<>> => in = <<>>
  <2>1. ASSUME t.in = <<>> PROVE in = <<>>
    <3>1. Len(in) = 0
      BY <1>5, <2>1
    <3> HIDE DEF U
    <3>2. QED BY <1>5, <3>1
  <2>2. QED BY <2>1
<1>9. Shape(T)
  BY <1>1, <1>3, <1>5, <1>8 DEF Shape
<1>10. IsPlan(T)
  <2>1. T.in \in Seq(U) /\ T.height \in Nat
    BY <1>3, <1>5, <1>7
  <2>2. /\ \A i \in DOMAIN T.in : IsPlan(T.in[i])
        /\ \A i \in DOMAIN T.in : T.in[i].height < T.height
    BY <1>3, <1>4, <1>7
  <2> HIDE DEF U
  <2>3. QED BY <1>9, <2>1, <2>2, PlanOver
<1>11. QED BY <1>3, <1>4, <1>5, <1>7, <1>10 DEF T

(* The root renamed, to an operator that asks for no other arguments. *)
LEMMA RenamedPlan ==
  ASSUME NEW t, IsPlan(t), NEW op,
         Arguments(op) \subseteq DOMAIN t,
         "table" \in Arguments(op) => t.in = <<>>,
         op \in WithOneChild => Len(t.in) = 1,
         op \in {"Join", "EncryptedJoin"} => Len(t.in) = 2
  PROVE  /\ IsPlan([t EXCEPT !.op = op])
         /\ [t EXCEPT !.op = op].op = op
         /\ [t EXCEPT !.op = op].in = t.in
         /\ "leftKeys" \in DOMAIN t => [t EXCEPT !.op = op].leftKeys = t.leftKeys
         /\ "table" \in DOMAIN t => [t EXCEPT !.op = op].table = t.table
<1> DEFINE T == [t EXCEPT !.op = op]
<1>1. /\ Shape(t) /\ t.in \in Seq(Subtrees(t))
      /\ \A i \in DOMAIN t.in : IsPlan(t.in[i])
  BY PlanIs
<1>2. /\ t = [argument \in DOMAIN t |-> t[argument]]
      /\ "op" \in DOMAIN t /\ "in" \in DOMAIN t /\ "height" \in DOMAIN t
  BY <1>1 DEF Shape
<1>3. /\ T.op = op /\ T.in = t.in /\ T.height = t.height /\ DOMAIN T = DOMAIN t
      /\ T = [argument \in DOMAIN T |-> T[argument]]
      /\ "leftKeys" \in DOMAIN t => T.leftKeys = t.leftKeys
      /\ "table" \in DOMAIN t => T.table = t.table
  BY <1>2
<1> HIDE DEF T
<1>4. Shape(T)
  BY <1>1, <1>2, <1>3 DEF Shape
<1>5. /\ t.height \in Nat
      /\ \A i \in DOMAIN t.in : t.in[i].height < t.height
  BY PlanIs DEF IsPlan
<1>6. IsPlan(T)
  <2>1. T.in \in Seq(Subtrees(t)) /\ T.height \in Nat
    BY <1>1, <1>3, <1>5
  <2>2. /\ \A i \in DOMAIN T.in : IsPlan(T.in[i])
        /\ \A i \in DOMAIN T.in : T.in[i].height < T.height
    BY <1>1, <1>3, <1>5
  <2>3. QED BY <1>4, <2>1, <2>2, PlanOver
<1>7. QED BY <1>3, <1>6 DEF T
---------------------------------------------------------------------------
(* What no rule may change in a plan. *)

Castable == OpaqueOperator \cup Exceptions

Kept(t, u) ==
  /\ IsPlan(u)
  /\ Bare(u) <=> Bare(t)
  /\ Plannable(u) <=> Plannable(t)
  /\ AllCast(t) => AllCast(u)
  /\ AllApplied(t) => AllApplied(u)
  /\ t.op \in Castable => u.op \in Castable
  /\ Plannable(t) => Reads(u) = Reads(t)

LEMMA KeptTrans ==
  ASSUME NEW t, NEW u, NEW v, Kept(t, u), Kept(u, v)
  PROVE  Kept(t, v)
BY DEF Kept

LEMMA Names ==
  /\ EncryptedOperator \subseteq OpaqueOperator
  /\ OpaqueOperator \subseteq Castable
  /\ Exceptions \subseteq Castable
  /\ "ACPolicyApply" \in OpaqueOperator \ EncryptedOperator
  /\ "ResPrepared" \in OpaqueOperator \ EncryptedOperator
  /\ OpaqueOperator \cap Exceptions = {}
  /\ OpaqueOperator \cap Relations = {}
  /\ Relations \cap Exceptions = {}
  /\ "EncryptedBlockRDD" \in EncryptedOperator
  /\ \A op \in {"Project", "Filter", "Sort", "Aggregate", "Join", "Union"} :
       op \notin Castable /\ op \notin Tabled
  /\ \A op \in Exceptions : op \notin Tabled
  /\ \A op \in OpaqueOperator : op # "EncryptedBlockRDD" => op \notin Tabled
BY DEF EncryptedOperator, OpaqueOperator, Castable, Exceptions, Relations, Tabled

(* The fields of a plan that its operator has. *)
LEMMA PlanFields ==
  ASSUME NEW t, IsPlan(t)
  PROVE  /\ t.op = "Filter" => "condition" \in DOMAIN t
         /\ t.op = "Sort" => "global" \in DOMAIN t
         /\ t.op \in {"Join", "EncryptedJoin"} => "leftKeys" \in DOMAIN t
         /\ t.op \in Tabled \cup {"ACPolicyAppliedEncryptedBlockRDD"} =>
              "table" \in DOMAIN t /\ t.in = <<>> /\ DOMAIN t.in = {}
         /\ t.op \in WithOneChild => DOMAIN t.in = {1} /\ IsPlan(t.in[1])
         /\ t.op = "ACPolicyApply" => 1 \in DOMAIN t.in
         /\ t.op \in {"Join", "EncryptedJoin"} =>
              DOMAIN t.in = {1, 2} /\ IsPlan(t.in[1]) /\ IsPlan(t.in[2])
         /\ \A i \in DOMAIN t.in : IsPlan(t.in[i])
<1>1. Shape(t) /\ t.in \in Seq(Subtrees(t)) /\ \A i \in DOMAIN t.in : IsPlan(t.in[i])
  BY PlanIs
<1>2. DOMAIN t.in = 1 .. Len(t.in)
  BY <1>1
<1>3. Arguments(t.op) \subseteq DOMAIN t
  BY <1>1 DEF Shape
<1>4. /\ t.op = "Filter" => Arguments(t.op) = {"condition"}
      /\ t.op = "Sort" => Arguments(t.op) = {"global"}
      /\ t.op \in {"Join", "EncryptedJoin"} => Arguments(t.op) = {"leftKeys"}
      /\ t.op \in Tabled \cup {"ACPolicyAppliedEncryptedBlockRDD"} => Arguments(t.op) = {"table"}
  <2>1. t.op = "Filter" => Arguments(t.op) = {"condition"}
    BY DEF Arguments, Relations
  <2>2. t.op = "Sort" => Arguments(t.op) = {"global"}
    BY DEF Arguments, Relations
  <2>3. t.op \in {"Join", "EncryptedJoin"} => Arguments(t.op) = {"leftKeys"}
    BY DEF Arguments, Relations
  <2>4. t.op \in Tabled \cup {"ACPolicyAppliedEncryptedBlockRDD"} => Arguments(t.op) = {"table"}
    BY DEF Arguments, Tabled, Relations
  <2>5. QED BY <2>1, <2>2, <2>3, <2>4
<1>5. t.op \in WithOneChild => DOMAIN t.in = {1}
  BY <1>1, <1>2 DEF Shape
<1>6. t.op \in {"Join", "EncryptedJoin"} => DOMAIN t.in = {1, 2}
  <2>1. t.op \in {"Join", "EncryptedJoin"} => Len(t.in) = 2
    BY <1>1 DEF Shape
  <2>2. 1 .. 2 = {1, 2}
    OBVIOUS
  <2>3. QED BY <1>2, <2>1, <2>2
<1>7. t.op \in Tabled \cup {"ACPolicyAppliedEncryptedBlockRDD"} => t.in = <<>>
  BY <1>1, <1>4 DEF Shape
<1>8. t.op = "ACPolicyApply" => t.op \in WithOneChild
  BY DEF WithOneChild
<1>9. t.in = <<>> => DOMAIN t.in = {}
  BY <1>2
<1>10. QED BY <1>1, <1>3, <1>4, <1>5, <1>6, <1>7, <1>8, <1>9

(* The operators that read a table, before the strategies.                 *)
LEMMA FineReading ==
  ASSUME NEW t, Fine(t), t.op \in Reading
  PROVE  t.op \in Tabled \cup {"ACPolicyAppliedEncryptedBlockRDD"}
BY DEF Fine, Reading, Unchecked, Checked, Tabled, Relations, EncryptedOperator

(* The same operator over children that were kept. *)
LEMMA KeptOver ==
  ASSUME NEW t, IsPlan(t), NEW in, in = [i \in DOMAIN t.in |-> in[i]],
         \A i \in DOMAIN t.in : Kept(t.in[i], in[i])
  PROVE  Kept(t, WithChildren(t, in))
<1> DEFINE T == WithChildren(t, in)
<1>1. \A i \in DOMAIN t.in : IsPlan(in[i])
  BY DEF Kept
<1>2. /\ IsPlan(T) /\ T.op = t.op /\ T.in = in /\ DOMAIN in = DOMAIN t.in /\ Len(in) = Len(t.in)
      /\ "condition" \in DOMAIN t => T.condition = t.condition
      /\ "global" \in DOMAIN t => T.global = t.global
      /\ "leftKeys" \in DOMAIN t => T.leftKeys = t.leftKeys
      /\ "table" \in DOMAIN t => T.table = t.table
  BY <1>1, WithChildrenPlan
<1> HIDE DEF T
<1>3. /\ Shape(t) /\ DOMAIN t.in = 1 .. Len(t.in) /\ t.in \in Seq(Subtrees(t))
  BY PlanIs
<1>4. /\ t.op = "Filter" => "condition" \in DOMAIN t
      /\ t.op = "Sort" => "global" \in DOMAIN t
      /\ t.op \in {"Join", "EncryptedJoin"} => "leftKeys" \in DOMAIN t
      /\ t.op \in Tabled \cup {"ACPolicyAppliedEncryptedBlockRDD"} => "table" \in DOMAIN t
      /\ t.op = "ACPolicyApply" => 1 \in DOMAIN t.in
  BY PlanFields
<1>5. BareNode(T) <=> BareNode(t)
  BY <1>2, <1>4 DEF BareNode, IsNullFilter
<1>6. Bare(T) <=> Bare(t)
  <2>1. \A i \in DOMAIN t.in : Bare(in[i]) <=> Bare(t.in[i])
    BY DEF Kept
  <2>2. QED BY <1>2, <1>5, <2>1, ForEachOperator
<1>7. Fine(T) <=> Fine(t)
  <2>1. t.op = "ACPolicyApply" => (Bare(T.in[1]) <=> Bare(t.in[1]))
    BY <1>2, <1>4 DEF Kept
  <2>2. QED BY <1>2, <1>4, <2>1 DEF Fine
<1>8. Plannable(T) <=> Plannable(t)
  <2>1. \A i \in DOMAIN t.in : Plannable(in[i]) <=> Plannable(t.in[i])
    BY DEF Kept
  <2>2. QED BY <1>2, <1>7, <2>1, ForEachOperator
<1>9. ASSUME AllCast(t) PROVE AllCast(T)
  <2>1. IsCast(t) /\ \A i \in DOMAIN t.in : AllCast(t.in[i])
    BY <1>9, ForEachOperator
  <2>2. \A i \in DOMAIN t.in : AllCast(in[i])
    BY <2>1 DEF Kept
  <2>3. \A i \in DOMAIN t.in : t.in[i].op \in Castable => in[i].op \in Castable
    BY DEF Kept
  <2>4. IsCast(T)
    BY <1>2, <2>1, <2>3 DEF IsCast, Castable
  <2>5. QED BY <1>2, <2>2, <2>4, ForEachOperator
<1>10. ASSUME AllApplied(t) PROVE AllApplied(T)
  <2>1. Applied(t) /\ \A i \in DOMAIN t.in : AllApplied(t.in[i])
    BY <1>10, ForEachOperator
  <2>2. \A i \in DOMAIN t.in : AllApplied(in[i])
    BY <2>1 DEF Kept
  <2>3. Applied(T)
    BY <1>2, <1>4, <2>1 DEF Applied, Kept
  <2>4. QED BY <1>2, <2>2, <2>3, ForEachOperator
<1>11. ASSUME Plannable(t) PROVE Reads(T) = Reads(t)
  <2>1. Fine(t) /\ \A i \in DOMAIN t.in : Plannable(t.in[i])
    BY <1>11, ForEachOperator
  <2>2. [i \in DOMAIN T.in |-> Reads(T.in[i])] = [i \in DOMAIN t.in |-> Reads(t.in[i])]
    BY <1>2, <2>1 DEF Kept
  <2>3. t.op \in Reading => T.table = t.table
    <3>1. t.op \in Reading => t.op \in Tabled \cup {"ACPolicyAppliedEncryptedBlockRDD"}
      BY <2>1, FineReading
    <3>2. QED BY <1>2, <1>4, <3>1
  <2>4. ASSUME NEW below PROVE ReadsOf(T, below) = ReadsOf(t, below)
    BY <1>2, <2>3 DEF ReadsOf, Reading
  <2>5. /\ Reads(T) = ReadsOf(T, [i \in DOMAIN T.in |-> Reads(T.in[i])])
        /\ Reads(t) = ReadsOf(t, [i \in DOMAIN t.in |-> Reads(t.in[i])])
    BY <1>2, ReadsOfEachOperator
  <2>6. QED BY <2>2, <2>4, <2>5
<1>12. QED BY <1>2, <1>6, <1>8, <1>9, <1>10, <1>11 DEF Kept, T

(* A child under an encrypted operator. *)
LEMMA CastChild ==
  ASSUME NEW c, IsPlan(c)
  PROVE  /\ IsPlan(asOpaqueOperator(c))
         /\ asOpaqueOperator(c).op \in Castable
         /\ Plannable(asOpaqueOperator(c)) <=> Plannable(c) /\ c.op \in OpaqueOperator
         /\ AllCast(c) => AllCast(asOpaqueOperator(c))
         /\ AllSettled(c) => AllSettled(asOpaqueOperator(c))
         /\ AllApplied(c) => AllApplied(asOpaqueOperator(c))
         /\ AllPrepared(c) => AllPrepared(asOpaqueOperator(c))
         /\ Plannable(asOpaqueOperator(c)) => asOpaqueOperator(c) = c
<1>1. CASE c.op \in OpaqueOperator
  BY <1>1, Names DEF asOpaqueOperator
<1>2. CASE c.op \notin OpaqueOperator
  <2> DEFINE e == Leaf("ClassCastException")
  <2>1. asOpaqueOperator(c) = e
    BY <1>2 DEF asOpaqueOperator, ClassCast
  <2>2. IsPlan(e) /\ e.op = "ClassCastException" /\ e.in = <<>>
    BY LeafPlan DEF Exceptions
  <2> HIDE DEF e
  <2>3. /\ e.op \in Exceptions /\ e.op \notin OpaqueOperator /\ e.op \notin EncryptedOperator
        /\ e.op \notin Tabled /\ e.op # "Filter" /\ e.op # "ACPolicyApply"
        /\ e.op # "ResPrepared"
    BY <2>2, Names DEF Exceptions
  <2>4. ~ Fine(e) /\ ~ BareNode(e) /\ IsCast(e) /\ Applied(e) /\ Prepared(e)
    BY <2>2, <2>3 DEF Fine, BareNode, IsNullFilter, IsCast, Applied, Prepared, Relations
  <2>5. ~ Plannable(e) /\ ~ Bare(e)
    BY <2>2, <2>4, ForEachOperator
  <2>6. Settled(e)
    BY <2>5 DEF Settled
  <2>7. AllCast(e) /\ AllSettled(e) /\ AllApplied(e) /\ AllPrepared(e)
    BY <2>2, <2>4, <2>6, ForEachOperator
  <2>8. QED BY <1>2, <2>1, <2>2, <2>3, <2>5, <2>7, Names
<1>3. QED BY <1>1, <1>2
LEMMA KeptSame ==
  ASSUME NEW t, IsPlan(t) PROVE Kept(t, t)
BY DEF Kept

LEMMA SettledOver ==
  ASSUME NEW t, IsPlan(t), Settled(t), NEW T, Kept(t, T), T.op = t.op,
         \A i \in DOMAIN T.in : AllSettled(T.in[i])
  PROVE  AllSettled(T)
<1>1. Settled(T)
  BY DEF Settled, Kept
<1>2. QED BY <1>1, ForEachOperator DEF Kept

(* A table is nothing but a table. *)
LEMMA BlockIs ==
  ASSUME NEW t, IsPlan(t), t.op \in Tabled \cup {"ACPolicyAppliedEncryptedBlockRDD"}
  PROVE  /\ Bare(t) <=> t.op \in Tabled
         /\ Plannable(t) /\ AllCast(t) /\ AllApplied(t) /\ AllPrepared(t)
         /\ Reads(t) = <<[table |-> t.table, checked |-> t.op \notin Tabled]>>
         /\ t.op \in EncryptedOperator => AllSettled(t)
<1>1. DOMAIN t.in = {} /\ "table" \in DOMAIN t
  BY PlanFields
<1>2. t.op # "ACPolicyApply" /\ t.op # "ResPrepared" /\ t.op # "Filter"
  BY DEF Tabled, Relations
<1>3. BareNode(t) <=> t.op \in Tabled
  BY <1>2 DEF BareNode, IsNullFilter
<1>4. Fine(t)
  <2>1. t.op \in Relations \cup EncryptedOperator
    BY DEF Tabled, EncryptedOperator
  <2>2. t.op \notin {"Join", "EncryptedJoin", "Sort", "Union"}
    BY DEF Tabled, Relations
  <2>3. QED BY <1>2, <2>1, <2>2 DEF Fine
<1>5. IsCast(t) /\ Applied(t) /\ Prepared(t)
  BY <1>1, <1>2 DEF IsCast, Applied, Prepared
<1>6. (Bare(t) <=> t.op \in Tabled) /\ Plannable(t) /\ AllCast(t) /\ AllApplied(t) /\ AllPrepared(t)
  BY <1>1, <1>3, <1>4, <1>5, ForEachOperator
<1>7. ASSUME t.op \in EncryptedOperator PROVE AllSettled(t)
  <2>1. t.op \notin Relations
    BY <1>7 DEF EncryptedOperator, Relations
  <2>2. Settled(t)
    BY <1>6, <1>7, <2>1, Names DEF Settled, Tabled
  <2>3. QED BY <1>1, <2>2, ForEachOperator
<1>8. Reads(t) = <<[table |-> t.table, checked |-> t.op \notin Tabled]>>
  <2>1. t.op \in Reading /\ (t.op \in Checked) = (t.op \notin Tabled)
    BY DEF Reading, Unchecked, Checked, Tabled, Relations
  <2>2. QED BY <2>1, ReadsOfEachOperator
<1>9. QED BY <1>6, <1>7, <1>8

(* ACPolicyApplyEncryptedBlockRDD, at a node. *)
LEMMA ApplyPolicyKept ==
  ASSUME NEW t, IsPlan(t)
  PROVE  /\ Kept(t, ApplyPolicy(t))
         /\ AllSettled(t) /\ (\A i \in DOMAIN t.in : AllApplied(t.in[i])) =>
              AllSettled(ApplyPolicy(t)) /\ AllApplied(ApplyPolicy(t))
<1>1. CASE t.op = "ACPolicyApply" /\ t.in[1].op = "EncryptedBlockRDD"
  <2> DEFINE c == t.in[1]
             u == [c EXCEPT !.op = "ACPolicyAppliedEncryptedBlockRDD"]
  <2>1. DOMAIN t.in = {1} /\ IsPlan(c)
    BY <1>1, PlanFields DEF WithOneChild
  <2>2. ApplyPolicy(t) = u
    BY <1>1 DEF ApplyPolicy
  <2>3. c.op \in Tabled /\ c.in = <<>> /\ "table" \in DOMAIN c
    <3>1. c.op \in Tabled
      BY <1>1 DEF Tabled
    <3>2. QED BY <2>1, <3>1, PlanFields
  <2>4. IsPlan(u) /\ u.op = "ACPolicyAppliedEncryptedBlockRDD" /\ u.table = c.table
    <3> HIDE DEF c
    <3>1. /\ Arguments("ACPolicyAppliedEncryptedBlockRDD") = {"table"}
          /\ "ACPolicyAppliedEncryptedBlockRDD" \notin WithOneChild \cup {"Join", "EncryptedJoin"}
      BY DEF Arguments, WithOneChild
    <3>2. QED BY <2>1, <2>3, <3>1, RenamedPlan
  <2> HIDE DEF c, u
  <2>5. /\ Bare(c) /\ Plannable(c) /\ Reads(c) = <<[table |-> c.table, checked |-> FALSE]>>
    BY <1>1, <2>1, <2>3, BlockIs DEF c
  <2>6. u.op \notin Tabled /\ u.op \in EncryptedOperator
    BY <2>4 DEF Tabled, Relations, EncryptedOperator
  <2>7. /\ ~ Bare(u) /\ Plannable(u) /\ AllCast(u) /\ AllApplied(u) /\ AllSettled(u)
        /\ Reads(u) = <<[table |-> c.table, checked |-> TRUE]>>
    BY <2>4, <2>6, BlockIs
  <2>8. ~ Bare(t)
    <3>1. ~ BareNode(t)
      BY <1>1 DEF BareNode, IsNullFilter, Tabled, Relations
    <3>2. QED BY <3>1, ForEachOperator
  <2>9. Plannable(t)
    <3>1. Fine(t)
      BY <1>1, <2>5 DEF Fine, c
    <3>2. QED BY <2>1, <2>5, <3>1, ForEachOperator DEF c
  <2>10. Reads(t) = <<[table |-> c.table, checked |-> TRUE]>>
    <3> DEFINE below == [i \in DOMAIN t.in |-> Reads(t.in[i])]
    <3>1. below = <<Reads(c)>>
      BY <2>1 DEF c
    <3> DEFINE r == [table |-> c.table, checked |-> FALSE]
               all == FlattenSeq(below)
    <3>2. all = <<r>>
      BY <2>5, <3>1, FlattenOne
    <3> HIDE DEF below
    <3>3. ReadsOf(t, below) = [i \in DOMAIN all |-> [table |-> all[i].table, checked |-> TRUE]]
      BY <1>1 DEF ReadsOf, Unchecked, Checked, Relations
    <3>4. r.table = c.table
      OBVIOUS
    <3> HIDE DEF all, r
    <3>5. DOMAIN all = {1} /\ all[1] = r
      BY <3>2
    <3>6. [i \in DOMAIN all |-> [table |-> all[i].table, checked |-> TRUE]]
            = <<[table |-> c.table, checked |-> TRUE]>>
      <4> DEFINE mark(i) == [table |-> all[i].table, checked |-> TRUE]
      <4>1. mark(1) = [table |-> c.table, checked |-> TRUE]
        BY <3>4, <3>5
      <4> HIDE DEF mark
      <4>2. [i \in {1} |-> mark(i)] = <<mark(1)>>
        OBVIOUS
      <4>3. [i \in DOMAIN all |-> mark(i)] = <<mark(1)>>
        BY <3>5, <4>2
      <4>4. QED BY <4>1, <4>3 DEF mark
    <3>7. ReadsOf(t, below) = <<[table |-> c.table, checked |-> TRUE]>>
      BY <3>3, <3>6
    <3>8. QED BY <3>7, ReadsOfEachOperator DEF below
  <2>11. u.op \in Castable
    BY <2>6, Names
  <2>12. Kept(t, u)
    BY <2>4, <2>7, <2>8, <2>9, <2>10, <2>11 DEF Kept
  <2>13. QED BY <2>2, <2>7, <2>12
<1>2. CASE ~ (t.op = "ACPolicyApply" /\ t.in[1].op = "EncryptedBlockRDD")
  <2>1. ApplyPolicy(t) = t
    BY <1>2 DEF ApplyPolicy
  <2>2. ASSUME AllSettled(t), \A i \in DOMAIN t.in : AllApplied(t.in[i]) PROVE AllApplied(t)
    <3>1. ASSUME t.op = "ACPolicyApply", Bare(t.in[1]) PROVE FALSE
      <4>1. 1 \in DOMAIN t.in /\ IsPlan(t.in[1])
        BY <3>1, PlanFields DEF WithOneChild
      <4>2. Settled(t.in[1])
        BY <2>2, <4>1, ForEachOperator
      <4>3. QED BY <1>2, <3>1, <4>2 DEF Settled
    <3>2. Applied(t)
      BY <3>1 DEF Applied
    <3>3. QED BY <2>2, <3>2, ForEachOperator
  <2>3. QED BY <2>1, <2>2, KeptSame
<1>3. QED BY <1>1, <1>2
---------------------------------------------------------------------------
(* The operators that have an encrypted one over the same children.        *)
Reforged == EncryptedOperator \ {"EncryptedBlockRDD", "ACPolicyAppliedEncryptedBlockRDD",
                                 "EncryptedAggregate"}

LEMMA EncryptedIs ==
  ASSUME NEW t, IsPlan(t), NEW op, op \in Reforged,
         op = "EncryptedJoin" => t.op = "Join",
         op \in WithOneChild => Len(t.in) = 1
  PROVE  /\ IsPlan(Encrypted(t, op))
         /\ Encrypted(t, op).op = op
         /\ DOMAIN Encrypted(t, op).in = DOMAIN t.in
         /\ \A i \in DOMAIN t.in : Encrypted(t, op).in[i] = asOpaqueOperator(t.in[i])
         /\ op = "EncryptedJoin" => Encrypted(t, op).leftKeys = t.leftKeys
<1> DEFINE in == [i \in DOMAIN t.in |-> asOpaqueOperator(t.in[i])]
           T == WithChildren(t, in)
           u == [T EXCEPT !.op = op]
<1>1. \A i \in DOMAIN t.in : IsPlan(in[i])
  BY PlanFields, CastChild
<1>2. DOMAIN in = DOMAIN t.in /\ in = [i \in DOMAIN t.in |-> in[i]]
  OBVIOUS
<1>3. \A i \in DOMAIN t.in : in[i] = asOpaqueOperator(t.in[i])
  OBVIOUS
<1>4. Encrypted(t, op) = u
  BY DEF Encrypted
<1> HIDE DEF in
<1>5. /\ IsPlan(T) /\ T.op = t.op /\ T.in = in /\ DOMAIN T = DOMAIN t /\ Len(in) = Len(t.in)
      /\ "leftKeys" \in DOMAIN t => T.leftKeys = t.leftKeys
  BY <1>1, <1>2, WithChildrenPlan
<1> HIDE DEF T
<1>6. Arguments(op) \subseteq DOMAIN T /\ "table" \notin Arguments(op)
  <2>1. CASE op = "EncryptedJoin"
    <3>1. Arguments(op) = {"leftKeys"}
      BY <2>1 DEF Arguments, Relations
    <3>2. "leftKeys" \in DOMAIN t
      BY <2>1, PlanFields
    <3>3. QED BY <1>5, <3>1, <3>2
  <2>2. CASE op # "EncryptedJoin"
    <3>1. Arguments(op) = {}
      BY <2>2 DEF Arguments, Relations, Reforged, EncryptedOperator
    <3>2. QED BY <3>1
  <2>3. QED BY <2>1, <2>2
<1>7. op = "EncryptedJoin" => "leftKeys" \in DOMAIN t
  BY PlanFields
<1>8. op \in {"Join", "EncryptedJoin"} => Len(T.in) = 2
  <2>1. op # "Join"
    BY DEF Reforged, EncryptedOperator
  <2>2. t.op = "Join" => Len(t.in) = 2
    BY PlanIs DEF Shape
  <2>3. QED BY <1>5, <2>1, <2>2
<1>9. /\ IsPlan(u) /\ u.op = op /\ u.in = T.in
      /\ "leftKeys" \in DOMAIN T => u.leftKeys = T.leftKeys
  BY <1>5, <1>6, <1>8, RenamedPlan
<1> HIDE DEF u
<1>10. QED BY <1>2, <1>3, <1>4, <1>5, <1>7, <1>9

LEMMA EncryptedKept ==
  ASSUME NEW t, IsPlan(t), \A i \in DOMAIN t.in : AllSettled(t.in[i]),
         ~ BareNode(t),
         t.op \notin {"ACPolicyApply", "ACPolicyAppliedEncryptedBlockRDD"},
         NEW op, op \in Reforged,
         op = "EncryptedJoin" => t.op = "Join",
         op \in WithOneChild => Len(t.in) = 1,
         Fine(t) <=> (op = "EncryptedJoin" => t.leftKeys # <<>>)
  PROVE  /\ Kept(t, Encrypted(t, op))
         /\ AllSettled(Encrypted(t, op))
         /\ (\A i \in DOMAIN t.in : AllPrepared(t.in[i])) => AllPrepared(Encrypted(t, op))
<1> DEFINE u == Encrypted(t, op)
<1>1. /\ IsPlan(u) /\ u.op = op /\ DOMAIN u.in = DOMAIN t.in
      /\ \A i \in DOMAIN t.in : u.in[i] = asOpaqueOperator(t.in[i])
      /\ op = "EncryptedJoin" => u.leftKeys = t.leftKeys
  BY EncryptedIs
<1> HIDE DEF u
<1>2. /\ op \in EncryptedOperator /\ op \in OpaqueOperator /\ op \in Castable /\ op \notin Tabled
      /\ op \notin {"ACPolicyApply", "ACPolicyAppliedEncryptedBlockRDD", "ResPrepared", "Filter",
                    "Join", "Sort", "Union"}
  <2>1. op \in EncryptedOperator /\ op # "EncryptedBlockRDD"
        /\ op # "ACPolicyAppliedEncryptedBlockRDD"
    BY DEF Reforged
  <2>2. /\ op \notin {"ACPolicyApply", "ResPrepared", "Filter", "Join", "Sort", "Union"}
        /\ op \notin Relations
    BY <2>1 DEF EncryptedOperator, Relations
  <2>3. QED BY <2>1, <2>2, Names DEF Tabled
<1>3. /\ \A i \in DOMAIN t.in : IsPlan(t.in[i])
      /\ \A i \in DOMAIN t.in : Settled(t.in[i])
  BY PlanFields, ForEachOperator
<1>4. \A i \in DOMAIN t.in :
        /\ IsPlan(u.in[i])
        /\ u.in[i].op \in Castable
        /\ Plannable(u.in[i]) <=> Plannable(t.in[i])
        /\ AllCast(t.in[i]) => AllCast(u.in[i])
        /\ AllSettled(u.in[i])
        /\ AllApplied(t.in[i]) => AllApplied(u.in[i])
        /\ AllPrepared(t.in[i]) => AllPrepared(u.in[i])
        /\ Plannable(u.in[i]) => u.in[i] = t.in[i]
  BY <1>1, <1>3, CastChild DEF Settled
<1>5. ~ Bare(t) /\ ~ Bare(u)
  <2>1. ~ BareNode(u)
    BY <1>1, <1>2 DEF BareNode, IsNullFilter
  <2>2. QED BY <1>1, <2>1, ForEachOperator
<1>6. Plannable(u) <=> Plannable(t)
  <2>1. Fine(u) <=> (op = "EncryptedJoin" => t.leftKeys # <<>>)
    BY <1>1, <1>2 DEF Fine
  <2>2. QED BY <1>1, <1>4, <2>1, ForEachOperator
<1>7. AllCast(t) => AllCast(u)
  <2>1. IsCast(u)
    BY <1>1, <1>4 DEF IsCast, Castable
  <2>2. QED BY <1>1, <1>4, <2>1, ForEachOperator
<1>8. AllApplied(t) => AllApplied(u)
  <2>1. Applied(u)
    BY <1>1, <1>2 DEF Applied
  <2>2. QED BY <1>1, <1>4, <2>1, ForEachOperator
<1>9. ASSUME Plannable(t) PROVE Reads(u) = Reads(t)
  <2>1. Fine(t) /\ \A i \in DOMAIN t.in : Plannable(t.in[i])
    BY <1>9, ForEachOperator
  <2>2. [i \in DOMAIN u.in |-> Reads(u.in[i])] = [i \in DOMAIN t.in |-> Reads(t.in[i])]
    BY <1>1, <1>4, <2>1
  <2>3. t.op \notin Reading \cup {"ACPolicyApply"}
    BY <2>1, FineReading DEF BareNode
  <2>4. u.op \notin Reading \cup {"ACPolicyApply"}
    BY <1>1, <1>2 DEF Reading, Unchecked, Checked, Tabled, EncryptedOperator
  <2>5. /\ Reads(t) = FlattenSeq([i \in DOMAIN t.in |-> Reads(t.in[i])])
        /\ Reads(u) = FlattenSeq([i \in DOMAIN u.in |-> Reads(u.in[i])])
    BY <1>1, <2>3, <2>4, ReadsOfEachOperator
  <2>6. QED BY <2>2, <2>5
<1>10. Kept(t, u)
  BY <1>1, <1>2, <1>5, <1>6, <1>7, <1>8, <1>9 DEF Kept
<1>11. AllSettled(u)
  <2>1. Settled(u)
    BY <1>1, <1>2, <1>5 DEF Settled
  <2>2. QED BY <1>1, <1>4, <2>1, ForEachOperator
<1>12. (\A i \in DOMAIN t.in : AllPrepared(t.in[i])) => AllPrepared(u)
  <2>1. Prepared(u)
    BY <1>1, <1>2 DEF Prepared
  <2>2. QED BY <1>1, <1>4, <2>1, ForEachOperator
<1>13. QED BY <1>10, <1>11, <1>12 DEF u

(* ConvertToQShieldOperators, at a node. *)
LEMMA ConvertToQShieldKept ==
  ASSUME NEW t, IsPlan(t), AllSettled(t)
  PROVE  /\ Kept(t, ConvertToQShield(t))
         /\ AllSettled(ConvertToQShield(t))
         /\ (\A i \in DOMAIN t.in : AllPrepared(t.in[i])) => AllPrepared(ConvertToQShield(t))
<1>1. CASE t.op = "ResPrepared" /\ isEncrypted(t.in[1])
  <2> DEFINE op == "ResPreparedEncryptedBlockRDD"
  <2>1. ConvertToQShield(t) = Encrypted(t, op)
    BY <1>1 DEF ConvertToQShield
  <2>2. op \in Reforged /\ op # "EncryptedJoin"
    BY DEF Reforged, EncryptedOperator
  <2>3. Len(t.in) = 1
    BY <1>1, PlanIs DEF Shape, WithOneChild
  <2>4. ~ BareNode(t) /\ Fine(t)
    BY <1>1 DEF BareNode, IsNullFilter, Tabled, Relations, Fine
  <2>5. \A i \in DOMAIN t.in : AllSettled(t.in[i])
    BY ForEachOperator
  <2>6. t.op \notin {"ACPolicyApply", "ACPolicyAppliedEncryptedBlockRDD"}
    BY <1>1
  <2> HIDE DEF op
  <2>7. QED BY <2>1, <2>2, <2>3, <2>4, <2>5, <2>6, EncryptedKept
<1>2. CASE ~ (t.op = "ResPrepared" /\ isEncrypted(t.in[1]))
  <2>1. ConvertToQShield(t) = t
    BY <1>2 DEF ConvertToQShield
  <2>2. Prepared(t)
    BY <1>2 DEF Prepared
  <2>3. QED BY <2>1, <2>2, KeptSame, ForEachOperator
<1>3. QED BY <1>1, <1>2
(* An encrypted operator over a plan. *)
LEMMA OverOne ==
  ASSUME NEW n, n = [argument \in DOMAIN n |-> n[argument]],
         {"op", "in", "height"} \subseteq DOMAIN n,
         n.op \in {"EncryptedSort", "EncryptedAggregate", "EncryptedProject"},
         NEW c, IsPlan(c), c.op \in Castable, n.in = <<c>>, n.height = Above(<<c>>)
  PROVE  /\ IsPlan(n)
         /\ n.op \in Castable
         /\ ~ Bare(n)
         /\ Plannable(n) <=> Plannable(c)
         /\ AllCast(c) => AllCast(n)
         /\ AllApplied(c) => AllApplied(n)
         /\ AllSettled(c) => AllSettled(n)
         /\ Reads(n) = Reads(c)
<1>1. DOMAIN n.in = {1} /\ n.in[1] = c /\ Len(n.in) = 1
  BY DEF IsPlan
<1>2. n.in \in Seq({c})
  OBVIOUS
<1>3. c.height \in Nat
  BY DEF IsPlan
<1>4. n.height \in Nat /\ c.height < n.height
  <2>1. \A i \in DOMAIN n.in : n.in[i].height \in Nat
    BY <1>1, <1>3
  <2>2. Above(n.in) \in Nat /\ \A i \in DOMAIN n.in : n.in[i].height < Above(n.in)
    BY <1>2, <2>1, AboveIs
  <2>3. QED BY <1>1, <2>2
<1>5. n.op \notin {"Join", "EncryptedJoin"} /\ Arguments(n.op) = {}
  BY DEF Arguments, Relations
<1>6. Shape(n)
  BY <1>1, <1>5 DEF Shape
<1>7. IsPlan(n)
  <2>1. \A i \in DOMAIN n.in : IsPlan(n.in[i]) /\ n.in[i].height < n.height
    BY <1>1, <1>4
  <2>2. QED BY <1>2, <1>4, <1>6, <2>1, PlanOver
<1>8. /\ n.op \in EncryptedOperator /\ n.op \in OpaqueOperator /\ n.op \in Castable
      /\ n.op \notin Tabled
      /\ n.op \notin {"ACPolicyApply", "ACPolicyAppliedEncryptedBlockRDD", "ResPrepared", "Filter",
                      "Join", "EncryptedJoin", "Sort", "Union"}
  BY DEF EncryptedOperator, OpaqueOperator, Castable, Tabled, Relations
<1>9. ~ BareNode(n) /\ Fine(n) /\ IsCast(n) /\ Applied(n)
  <2>1. ~ BareNode(n) /\ Fine(n) /\ Applied(n)
    BY <1>8 DEF BareNode, IsNullFilter, Fine, Applied
  <2>2. IsCast(n)
    BY <1>1 DEF IsCast, Castable
  <2>3. QED BY <2>1, <2>2
<1>10. ~ Bare(n)
  BY <1>7, <1>9, ForEachOperator
<1>11. Settled(n)
  BY <1>8, <1>10 DEF Settled
<1>12. Reads(n) = Reads(c)
  <2>1. n.op \notin Reading \cup {"ACPolicyApply"}
    BY DEF Reading, Unchecked, Checked, Relations
  <2>2. QED BY <1>1, <1>7, <2>1, ReadsOfEachOperator
<1>13. QED BY <1>1, <1>7, <1>8, <1>9, <1>10, <1>11, <1>12, ForEachOperator

LEMMA ConvertAggregateKept ==
  ASSUME NEW t, IsPlan(t), t.op = "Aggregate", AllSettled(t.in[1])
  PROVE  Kept(t, ConvertAggregate(t)) /\ AllSettled(ConvertAggregate(t))
<1> DEFINE c == asOpaqueOperator(t.in[1])
           sorted == [op |-> "EncryptedSort", order |-> Ascending(t.grouping), global |-> TRUE,
                      in |-> <<c>>, height |-> Above(<<c>>)]
           agg(aggs) == [op |-> "EncryptedAggregate", grouping |-> t.grouping, aggs |-> aggs,
                         in |-> <<sorted>>, height |-> Above(<<sorted>>)]
           Good(n) == /\ IsPlan(n) /\ n.op \in Castable /\ ~ Bare(n)
                      /\ Plannable(n) <=> Plannable(c)
                      /\ AllCast(c) => AllCast(n)
                      /\ AllApplied(c) => AllApplied(n)
                      /\ AllSettled(n)
                      /\ Reads(n) = Reads(c)
<1>1. DOMAIN t.in = {1} /\ IsPlan(t.in[1])
  BY PlanFields DEF WithOneChild
<1>2. /\ IsPlan(c) /\ c.op \in Castable /\ AllSettled(c)
      /\ Plannable(c) <=> Plannable(t.in[1]) /\ t.in[1].op \in OpaqueOperator
      /\ AllCast(t.in[1]) => AllCast(c)
      /\ AllApplied(t.in[1]) => AllApplied(c)
      /\ Plannable(c) => c = t.in[1]
  BY <1>1, CastChild
<1> HIDE DEF c
<1>3. Good(sorted)
  <2>1. /\ sorted = [argument \in DOMAIN sorted |-> sorted[argument]]
        /\ {"op", "in", "height"} \subseteq DOMAIN sorted
        /\ sorted.op = "EncryptedSort" /\ sorted.in = <<c>> /\ sorted.height = Above(<<c>>)
    OBVIOUS
  <2> HIDE DEF sorted
  <2>2. QED BY <1>2, <2>1, OverOne
<1>4. ASSUME NEW aggs PROVE Good(agg(aggs))
  <2> DEFINE a == agg(aggs)
  <2>1. /\ a = [argument \in DOMAIN a |-> a[argument]]
        /\ {"op", "in", "height"} \subseteq DOMAIN a
        /\ a.op = "EncryptedAggregate" /\ a.in = <<sorted>> /\ a.height = Above(<<sorted>>)
    <3> HIDE DEF sorted
    <3>1. QED OBVIOUS
  <2> HIDE DEF a, sorted
  <2>2. Good(a)
    BY <1>3, <2>1, OverOne
  <2>3. QED BY <2>2 DEF a
<1>5. ASSUME NEW list, NEW below, Good(below)
      PROVE  Good([op |-> "EncryptedProject", projectList |-> list,
                   in |-> <<below>>, height |-> Above(<<below>>)])
  <2> DEFINE a == [op |-> "EncryptedProject", projectList |-> list,
                   in |-> <<below>>, height |-> Above(<<below>>)]
  <2>1. /\ a = [argument \in DOMAIN a |-> a[argument]]
        /\ {"op", "in", "height"} \subseteq DOMAIN a
        /\ a.op = "EncryptedProject" /\ a.in = <<below>> /\ a.height = Above(<<below>>)
    OBVIOUS
  <2> HIDE DEF a
  <2>2. Good(a)
    BY <1>5, <2>1, OverOne
  <2>3. QED BY <2>2 DEF a
<1> DEFINE u == ConvertAggregate(t)
<1>6. Good(u)
  <2> HIDE DEF Good
  <2>1. CASE needsSeparation(t.aggs)
    <3> DEFINE pure == agg(separated(t.aggs).pure)
    <3>1. u = [op |-> "EncryptedProject", projectList |-> separated(t.aggs).project,
               in |-> <<pure>>, height |-> Above(<<pure>>)]
      BY <2>1 DEF ConvertAggregate, c
    <3>2. Good(pure)
      BY <1>4
    <3> HIDE DEF pure, u
    <3>3. QED BY <1>5, <3>1, <3>2
  <2>2. CASE ~ needsSeparation(t.aggs)
    <3>1. u = agg(t.aggs)
      BY <2>2 DEF ConvertAggregate, c
    <3> HIDE DEF agg, u
    <3>2. QED BY <1>4, <3>1
  <2>3. QED BY <2>1, <2>2
<1> HIDE DEF u, agg, sorted
<1>7. ~ Bare(t) /\ Fine(t) /\ IsCast(t) /\ Applied(t)
  <2>1. ~ BareNode(t) /\ Fine(t) /\ IsCast(t) /\ Applied(t)
    BY DEF BareNode, IsNullFilter, Fine, IsCast, Applied, Tabled, Relations, EncryptedOperator
  <2>2. QED BY <2>1, ForEachOperator
<1>8. Plannable(t) <=> Plannable(t.in[1])
  BY <1>1, <1>7, ForEachOperator
<1>9. Plannable(t.in[1]) => t.in[1].op \in OpaqueOperator
  <2>1. Settled(t.in[1])
    BY <1>1, ForEachOperator
  <2>2. QED BY <2>1 DEF Settled
<1>10. (AllCast(t) => AllCast(t.in[1])) /\ (AllApplied(t) => AllApplied(t.in[1]))
  BY <1>1, ForEachOperator
<1>11. Reads(t) = Reads(t.in[1])
  <2>1. t.op \notin Reading \cup {"ACPolicyApply"}
    BY DEF Reading, Unchecked, Checked, Relations
  <2>2. QED BY <1>1, <2>1, ReadsOfEachOperator
<1>12. Kept(t, u)
  BY <1>2, <1>6, <1>7, <1>8, <1>9, <1>10, <1>11 DEF Kept
<1>13. QED BY <1>6, <1>12 DEF u
(* A relation is taken for the table it stands for. *)
LEMMA RelationKept ==
  ASSUME NEW t, IsPlan(t), t.op \in Relations
  PROVE  /\ Kept(t, [t EXCEPT !.op = "EncryptedBlockRDD"])
         /\ AllSettled([t EXCEPT !.op = "EncryptedBlockRDD"])
<1> DEFINE u == [t EXCEPT !.op = "EncryptedBlockRDD"]
<1>1. t.op \in Tabled /\ t.op # "ACPolicyAppliedEncryptedBlockRDD"
  BY DEF Tabled, Relations
<1>2. t.in = <<>> /\ "table" \in DOMAIN t
  BY <1>1, PlanFields
<1>3. IsPlan(u) /\ u.op = "EncryptedBlockRDD" /\ u.table = t.table
  <2>1. /\ Arguments("EncryptedBlockRDD") = {"table"}
        /\ "EncryptedBlockRDD" \notin WithOneChild \cup {"Join", "EncryptedJoin"}
    BY DEF Arguments, WithOneChild
  <2>2. QED BY <1>2, <2>1, RenamedPlan
<1> HIDE DEF u
<1>4. u.op \in Tabled /\ u.op \in EncryptedOperator /\ u.op \in Castable
  BY <1>3, Names DEF Tabled
<1>5. /\ Bare(t) /\ Plannable(t) /\ AllCast(t) /\ AllApplied(t)
      /\ Reads(t) = <<[table |-> t.table, checked |-> FALSE]>>
  BY <1>1, BlockIs
<1>6. /\ Bare(u) /\ Plannable(u) /\ AllCast(u) /\ AllApplied(u) /\ AllSettled(u)
      /\ Reads(u) = <<[table |-> u.table, checked |-> FALSE]>>
  BY <1>3, <1>4, BlockIs
<1>7. Kept(t, u)
  BY <1>3, <1>4, <1>5, <1>6 DEF Kept
<1>8. QED BY <1>6, <1>7 DEF u

(* What is left as it is, is settled. *)
LEMMA LeftSettled ==
  ASSUME NEW t, IsPlan(t), \A i \in DOMAIN t.in : AllSettled(t.in[i]),
         Plannable(t) => t.op \in OpaqueOperator,
         Bare(t) => t.op = "EncryptedBlockRDD"
  PROVE  AllSettled(t)
<1>1. Settled(t)
  BY DEF Settled
<1>2. QED BY <1>1, ForEachOperator

(* Nothing can be run in the clear. *)
LEMMA UnencryptedIs ==
  ASSUME NEW t, IsPlan(t), \A i \in DOMAIN t.in : AllSettled(t.in[i]),
         t.op \notin Relations, ~ isEncrypted(t)
  PROVE  ~ Plannable(t) /\ ~ Bare(t)
<1>1. t.op \notin OpaqueOperator /\ \A i \in DOMAIN t.in : ~ isEncrypted(t.in[i])
  BY ForEachOperator
<1>2. \A i \in DOMAIN t.in : t.in[i].op \notin OpaqueOperator /\ Settled(t.in[i])
  <2>1. \A i \in DOMAIN t.in : IsPlan(t.in[i])
    BY PlanFields
  <2>2. QED BY <1>1, <2>1, ForEachOperator
<1>3. \A i \in DOMAIN t.in : ~ Plannable(t.in[i]) /\ ~ Bare(t.in[i])
  BY <1>2, Names DEF Settled
<1>4. ASSUME Plannable(t) PROVE FALSE
  <2>1. DOMAIN t.in = {} /\ Fine(t)
    BY <1>3, <1>4, ForEachOperator
  <2>2. t.op \notin WithOneChild \cup {"Join", "EncryptedJoin"}
    BY <2>1, PlanFields
  <2>3. t.op = "Union"
    BY <1>1, <2>1, <2>2, Names DEF Fine, WithOneChild
  <2>4. Len(t.in) = 2 /\ DOMAIN t.in = 1 .. Len(t.in)
    BY <2>1, <2>3, PlanIs DEF Fine
  <2>5. 1 \in DOMAIN t.in
    BY <2>4
  <2>6. QED BY <2>1, <2>5
<1>5. ASSUME Bare(t) PROVE FALSE
  <2>1. DOMAIN t.in = {} /\ BareNode(t)
    BY <1>3, <1>5, ForEachOperator
  <2>2. t.op \notin WithOneChild
    BY <2>1, PlanFields
  <2>3. QED BY <1>1, <2>1, <2>2, Names DEF BareNode, IsNullFilter, Tabled, WithOneChild
<1>6. QED BY <1>4, <1>5

(* A null check is left to the operators above. *)
LEMMA NullFilterKept ==
  ASSUME NEW t, IsPlan(t), t.op = "Filter", IsNullCheck(t.condition), AllSettled(t.in[1])
  PROVE  Kept(t, t.in[1])
<1> DEFINE c == t.in[1]
<1>1. DOMAIN t.in = {1} /\ IsPlan(c)
  BY PlanFields DEF WithOneChild
<1>2. BareNode(t) /\ Fine(t) /\ t.op \notin Castable
  BY Names DEF BareNode, IsNullFilter, Fine
<1>3. (Bare(t) <=> Bare(c)) /\ (Plannable(t) <=> Plannable(c))
  BY <1>1, <1>2, ForEachOperator
<1>4. (AllCast(t) => AllCast(c)) /\ (AllApplied(t) => AllApplied(c))
  BY <1>1, ForEachOperator
<1>5. Reads(t) = Reads(c)
  <2>1. t.op \notin Reading \cup {"ACPolicyApply"}
    BY DEF Reading, Unchecked, Checked, Relations
  <2>2. QED BY <1>1, <2>1, ReadsOfEachOperator
<1>6. QED BY <1>1, <1>2, <1>3, <1>4, <1>5 DEF Kept

(* ConvertToOpaqueOperators, at a node. *)
LEMMA ConvertToOpaqueKept ==
  ASSUME NEW t, IsPlan(t), \A i \in DOMAIN t.in : AllSettled(t.in[i])
  PROVE  Kept(t, ConvertToOpaque(t)) /\ AllSettled(ConvertToOpaque(t))
<1>1. CASE t.op \in Relations
  <2>1. ConvertToOpaque(t) = [t EXCEPT !.op = "EncryptedBlockRDD"]
    BY <1>1 DEF ConvertToOpaque
  <2>2. QED BY <1>1, <2>1, RelationKept
<1>2. CASE t.op \notin Relations /\ ~ isEncrypted(t)
  <2>1. ConvertToOpaque(t) = t
    BY <1>2 DEF ConvertToOpaque
  <2>2. AllSettled(t)
    BY <1>2, UnencryptedIs, LeftSettled
  <2>3. QED BY <2>1, <2>2, KeptSame
<1>3. CASE t.op \notin Relations /\ isEncrypted(t)
  <2>0. ConvertToOpaque(t) = ConvertEncrypted(t)
    BY <1>3 DEF ConvertToOpaque
  <2> DEFINE Done(op) == Kept(t, Encrypted(t, op)) /\ AllSettled(Encrypted(t, op))
  <2>1. CASE t.op = "Project"
    <3>1. ConvertToOpaque(t) = Encrypted(t, "EncryptedProject")
      BY <2>0, <2>1 DEF ConvertEncrypted
    <3>2. ~ BareNode(t) /\ Fine(t) /\ "EncryptedProject" \in Reforged
      BY <2>1 DEF BareNode, IsNullFilter, Tabled, Relations, Fine, Reforged, EncryptedOperator
    <3>3. Len(t.in) = 1
      BY <2>1, PlanIs DEF Shape, WithOneChild
    <3>4. Done("EncryptedProject")
      BY <2>1, <3>2, <3>3, EncryptedKept
    <3>5. QED BY <3>1, <3>4
  <2>2. CASE t.op = "Filter" /\ IsNullCheck(t.condition)
    <3>1. ConvertToOpaque(t) = t.in[1]
      BY <2>0, <2>2 DEF ConvertEncrypted
    <3>2. 1 \in DOMAIN t.in
      BY <2>2, PlanFields DEF WithOneChild
    <3>3. QED BY <2>2, <3>1, <3>2, NullFilterKept
  <2>3. CASE t.op = "Filter" /\ ~ IsNullCheck(t.condition)
    <3>1. ConvertToOpaque(t) = Encrypted(t, "EncryptedFilter")
      BY <2>0, <2>3 DEF ConvertEncrypted
    <3>2. ~ BareNode(t) /\ Fine(t) /\ "EncryptedFilter" \in Reforged
      BY <2>3 DEF BareNode, IsNullFilter, Tabled, Relations, Fine, Reforged, EncryptedOperator
    <3>3. Len(t.in) = 1
      BY <2>3, PlanIs DEF Shape, WithOneChild
    <3>4. Done("EncryptedFilter")
      BY <2>3, <3>2, <3>3, EncryptedKept
    <3>5. QED BY <3>1, <3>4
  <2>4. CASE t.op = "Sort" /\ t.global
    <3>1. ConvertToOpaque(t) = Encrypted(t, "EncryptedSort")
      BY <2>0, <2>4 DEF ConvertEncrypted
    <3>2. ~ BareNode(t) /\ Fine(t) /\ "EncryptedSort" \in Reforged
      BY <2>4 DEF BareNode, IsNullFilter, Tabled, Relations, Fine, Reforged, EncryptedOperator
    <3>3. Len(t.in) = 1
      BY <2>4, PlanIs DEF Shape, WithOneChild
    <3>4. Done("EncryptedSort")
      BY <2>4, <3>2, <3>3, EncryptedKept
    <3>5. QED BY <3>1, <3>4
  <2>5. CASE t.op = "Join"
    <3>1. ConvertToOpaque(t) = Encrypted(t, "EncryptedJoin")
      BY <2>0, <2>5 DEF ConvertEncrypted
    <3>2. /\ ~ BareNode(t) /\ "EncryptedJoin" \in Reforged /\ "EncryptedJoin" \notin WithOneChild
          /\ Fine(t) <=> t.leftKeys # <<>>
      BY <2>5 DEF BareNode, IsNullFilter, Tabled, Relations, Fine, Reforged, EncryptedOperator,
                  WithOneChild
    <3>3. Done("EncryptedJoin")
      BY <2>5, <3>2, EncryptedKept
    <3>4. QED BY <3>1, <3>3
  <2>6. CASE t.op = "Aggregate"
    <3>1. ConvertToOpaque(t) = ConvertAggregate(t)
      BY <2>0, <2>6 DEF ConvertEncrypted
    <3>2. 1 \in DOMAIN t.in
      BY <2>6, PlanFields DEF WithOneChild
    <3>3. QED BY <2>6, <3>1, <3>2, ConvertAggregateKept
  <2>7. CASE t.op = "Union" /\ Len(t.in) = 2
    <3>1. ConvertToOpaque(t) = Encrypted(t, "EncryptedUnion")
      BY <2>0, <2>7 DEF ConvertEncrypted
    <3>2. /\ ~ BareNode(t) /\ Fine(t) /\ "EncryptedUnion" \in Reforged
          /\ "EncryptedUnion" \notin WithOneChild
      BY <2>7 DEF BareNode, IsNullFilter, Tabled, Relations, Fine, Reforged, EncryptedOperator,
                  WithOneChild
    <3>3. Done("EncryptedUnion")
      BY <2>7, <3>2, EncryptedKept
    <3>4. QED BY <3>1, <3>3
  <2>8. CASE /\ t.op \notin {"Project", "Filter", "Join", "Aggregate"}
             /\ ~ (t.op = "Sort" /\ t.global)
             /\ ~ (t.op = "Union" /\ Len(t.in) = 2)
    <3>1. ConvertToOpaque(t) = t
      BY <2>0, <2>8 DEF ConvertEncrypted
    <3>2. Plannable(t) => t.op \in OpaqueOperator
      <4>1. Fine(t) => t.op \in OpaqueOperator
        BY <1>3, <2>8, Names DEF Fine, OpaqueOperator, EncryptedOperator
      <4>2. QED BY <4>1, ForEachOperator
    <3>3. Bare(t) => t.op = "EncryptedBlockRDD"
      <4>1. BareNode(t) => t.op = "EncryptedBlockRDD"
        BY <1>3, <2>8 DEF BareNode, IsNullFilter, Tabled
      <4>2. QED BY <4>1, ForEachOperator
    <3>4. QED BY <3>1, <3>2, <3>3, LeftSettled, KeptSame
  <2>9. QED BY <2>1, <2>2, <2>3, <2>4, <2>5, <2>6, <2>7, <2>8
<1>4. QED BY <1>1, <1>2, <1>3
---------------------------------------------------------------------------
(* The rules, over whole plans. *)

LEMMA ApplyPolicyRule ==
  ASSUME NEW p, IsPlan(p)
  PROVE  LET u == transformUp("ACPolicyApplyEncryptedBlockRDD", p)
         IN  Kept(p, u) /\ (AllSettled(p) => AllSettled(u) /\ AllApplied(u))
<1> DEFINE U(t) == transformUp("ACPolicyApplyEncryptedBlockRDD", t)
           Done(t) == Kept(t, U(t)) /\ (AllSettled(t) => AllSettled(U(t)) /\ AllApplied(U(t)))
           S == Subtrees(p)
           G == {t \in S : Done(t)}
<1>1. p \in S /\ Closed(S) /\ \A t \in S : IsPlan(t)
  BY PlanIs
<1>2. ASSUME NEW t \in S
      PROVE  U(t) = ApplyPolicy(WithChildren(t, [i \in DOMAIN t.in |-> U(t.in[i])]))
  <2> HIDE DEF S
  <2>1. U(t) = Convert("ACPolicyApplyEncryptedBlockRDD", t, [i \in DOMAIN t.in |-> U(t.in[i])])
    BY <1>1, TransformUpIs
  <2> HIDE DEF U
  <2>2. QED BY <2>1 DEF Convert
<1> HIDE DEF U
<1>3. ASSUME NEW t \in S, \A i \in DOMAIN t.in : Done(t.in[i]) PROVE Done(t)
  <2> DEFINE in == [i \in DOMAIN t.in |-> U(t.in[i])]
             T == WithChildren(t, in)
  <2>1. IsPlan(t) /\ in = [i \in DOMAIN t.in |-> in[i]]
        /\ \A i \in DOMAIN t.in : in[i] = U(t.in[i])
    BY <1>1
  <2>2. \A i \in DOMAIN t.in : Kept(t.in[i], in[i]) /\ IsPlan(in[i])
    BY <1>3, <2>1 DEF Kept
  <2>3. U(t) = ApplyPolicy(T)
    BY <1>2
  <2> HIDE DEF in
  <2>4. /\ IsPlan(T) /\ T.op = t.op /\ T.in = in /\ DOMAIN in = DOMAIN t.in
        /\ Kept(t, T)
    BY <2>1, <2>2, WithChildrenPlan, KeptOver
  <2> HIDE DEF T
  <2>5. /\ Kept(T, U(t))
        /\ AllSettled(T) /\ (\A i \in DOMAIN T.in : AllApplied(T.in[i])) =>
             AllSettled(U(t)) /\ AllApplied(U(t))
    BY <2>3, <2>4, ApplyPolicyKept
  <2>6. Kept(t, U(t))
    BY <2>4, <2>5, KeptTrans
  <2>7. ASSUME AllSettled(t) PROVE AllSettled(U(t)) /\ AllApplied(U(t))
    <3>1. Settled(t) /\ \A i \in DOMAIN t.in : AllSettled(t.in[i])
      BY <2>1, <2>7, ForEachOperator
    <3>2. \A i \in DOMAIN T.in : AllSettled(T.in[i]) /\ AllApplied(T.in[i])
      BY <1>3, <2>1, <2>4, <3>1
    <3>3. AllSettled(T)
      BY <2>1, <2>4, <3>1, <3>2, SettledOver
    <3>4. QED BY <2>5, <3>2, <3>3
  <2>8. QED BY <2>6, <2>7
<1>4. S \subseteq G
  <2>1. ASSUME NEW t \in S, \A i \in DOMAIN t.in : t.in[i] \in G PROVE t \in G
    BY <1>3, <2>1
  <2> HIDE DEF G, S
  <2>2. QED BY <1>1, <2>1, TreeInduction
<1>5. Done(p)
  BY <1>1, <1>4
<1>6. QED BY <1>5 DEF U

LEMMA ConvertToOpaqueRule ==
  ASSUME NEW p, IsPlan(p)
  PROVE  LET u == transformUp("ConvertToOpaqueOperators", p)
         IN  Kept(p, u) /\ AllSettled(u)
<1> DEFINE U(t) == transformUp("ConvertToOpaqueOperators", t)
           Done(t) == Kept(t, U(t)) /\ AllSettled(U(t))
           S == Subtrees(p)
           G == {t \in S : Done(t)}
<1>1. p \in S /\ Closed(S) /\ \A t \in S : IsPlan(t)
  BY PlanIs
<1>2. ASSUME NEW t \in S
      PROVE  U(t) = ConvertToOpaque(WithChildren(t, [i \in DOMAIN t.in |-> U(t.in[i])]))
  <2> HIDE DEF S
  <2>1. U(t) = Convert("ConvertToOpaqueOperators", t, [i \in DOMAIN t.in |-> U(t.in[i])])
    BY <1>1, TransformUpIs
  <2> HIDE DEF U
  <2>2. QED BY <2>1 DEF Convert
<1> HIDE DEF U
<1>3. ASSUME NEW t \in S, \A i \in DOMAIN t.in : Done(t.in[i]) PROVE Done(t)
  <2> DEFINE in == [i \in DOMAIN t.in |-> U(t.in[i])]
             T == WithChildren(t, in)
  <2>1. IsPlan(t) /\ in = [i \in DOMAIN t.in |-> in[i]]
        /\ \A i \in DOMAIN t.in : in[i] = U(t.in[i])
    BY <1>1
  <2>2. \A i \in DOMAIN t.in : Kept(t.in[i], in[i]) /\ IsPlan(in[i]) /\ AllSettled(in[i])
    BY <1>3, <2>1 DEF Kept
  <2>3. U(t) = ConvertToOpaque(T)
    BY <1>2
  <2> HIDE DEF in
  <2>4. /\ IsPlan(T) /\ T.in = in /\ DOMAIN in = DOMAIN t.in
        /\ Kept(t, T)
    BY <2>1, <2>2, WithChildrenPlan, KeptOver
  <2> HIDE DEF T
  <2>5. \A i \in DOMAIN T.in : AllSettled(T.in[i])
    BY <2>2, <2>4
  <2>6. Kept(T, U(t)) /\ AllSettled(U(t))
    BY <2>3, <2>4, <2>5, ConvertToOpaqueKept
  <2>7. QED BY <2>4, <2>6, KeptTrans
<1>4. S \subseteq G
  <2>1. ASSUME NEW t \in S, \A i \in DOMAIN t.in : t.in[i] \in G PROVE t \in G
    BY <1>3, <2>1
  <2> HIDE DEF G, S
  <2>2. QED BY <1>1, <2>1, TreeInduction
<1>5. Done(p)
  BY <1>1, <1>4
<1>6. QED BY <1>5 DEF U

LEMMA ConvertToQShieldRule ==
  ASSUME NEW p, IsPlan(p), AllSettled(p)
  PROVE  LET u == transformUp("ConvertToQShieldOperators", p)
         IN  Kept(p, u) /\ AllSettled(u) /\ AllPrepared(u)
<1> DEFINE U(t) == transformUp("ConvertToQShieldOperators", t)
           Done(t) == AllSettled(t) => Kept(t, U(t)) /\ AllSettled(U(t)) /\ AllPrepared(U(t))
           S == Subtrees(p)
           G == {t \in S : Done(t)}
<1>1. p \in S /\ Closed(S) /\ \A t \in S : IsPlan(t)
  BY PlanIs
<1>2. ASSUME NEW t \in S
      PROVE  U(t) = ConvertToQShield(WithChildren(t, [i \in DOMAIN t.in |-> U(t.in[i])]))
  <2> HIDE DEF S
  <2>1. U(t) = Convert("ConvertToQShieldOperators", t, [i \in DOMAIN t.in |-> U(t.in[i])])
    BY <1>1, TransformUpIs
  <2> HIDE DEF U
  <2>2. QED BY <2>1 DEF Convert
<1> HIDE DEF U
<1>3. ASSUME NEW t \in S, \A i \in DOMAIN t.in : Done(t.in[i]), AllSettled(t)
      PROVE  Kept(t, U(t)) /\ AllSettled(U(t)) /\ AllPrepared(U(t))
  <2> DEFINE in == [i \in DOMAIN t.in |-> U(t.in[i])]
             T == WithChildren(t, in)
  <2>1. IsPlan(t) /\ in = [i \in DOMAIN t.in |-> in[i]]
        /\ \A i \in DOMAIN t.in : in[i] = U(t.in[i])
    BY <1>1
  <2>2. Settled(t) /\ \A i \in DOMAIN t.in : AllSettled(t.in[i])
    BY <1>3, <2>1, ForEachOperator
  <2>3. \A i \in DOMAIN t.in : /\ Kept(t.in[i], in[i]) /\ IsPlan(in[i])
                               /\ AllSettled(in[i]) /\ AllPrepared(in[i])
    BY <1>3, <2>1, <2>2 DEF Kept
  <2>4. U(t) = ConvertToQShield(T)
    BY <1>2
  <2> HIDE DEF in
  <2>5. /\ IsPlan(T) /\ T.op = t.op /\ T.in = in /\ DOMAIN in = DOMAIN t.in
        /\ Kept(t, T)
    BY <2>1, <2>3, WithChildrenPlan, KeptOver
  <2> HIDE DEF T
  <2>6. \A i \in DOMAIN T.in : AllSettled(T.in[i]) /\ AllPrepared(T.in[i])
    BY <2>3, <2>5
  <2>7. AllSettled(T)
    BY <2>1, <2>2, <2>5, <2>6, SettledOver
  <2>8. Kept(T, U(t)) /\ AllSettled(U(t)) /\ AllPrepared(U(t))
    BY <2>4, <2>5, <2>6, <2>7, ConvertToQShieldKept
  <2>9. QED BY <2>5, <2>8, KeptTrans
<1>4. S \subseteq G
  <2>1. ASSUME NEW t \in S, \A i \in DOMAIN t.in : t.in[i] \in G PROVE t \in G
    BY <1>3, <2>1
  <2> HIDE DEF G, S
  <2>2. QED BY <1>1, <2>1, TreeInduction
<1>5. Done(p)
  BY <1>1, <1>4
<1>6. QED BY <1>5 DEF U
---------------------------------------------------------------------------
(* The strategies. *)

AllEnclave(p) == \A t \in Subtrees(p) : t.op \in EnclaveOperator

LEMMA OfEachExec ==
  ASSUME NEW p, IsPlan(p)
  PROVE  /\ AllEnclave(p) <=> p.op \in EnclaveOperator /\ \A i \in DOMAIN p.in : AllEnclave(p.in[i])
         /\ AllEnclave(p) => ~ Throws(p)
<1>1. \A t : t \in Subtrees(p) <=> t = p \/ \E i \in DOMAIN p.in : t \in Subtrees(p.in[i])
  BY PlanIs
<1>2. AllEnclave(p) <=> p.op \in EnclaveOperator /\ \A i \in DOMAIN p.in : AllEnclave(p.in[i])
  BY <1>1, Zenon DEF AllEnclave
<1>3. EnclaveOperator \cap Exceptions = {}
  BY DEF EnclaveOperator, Execs, Exceptions
<1>4. AllEnclave(p) => ~ Throws(p)
  BY <1>3 DEF AllEnclave, Throws
<1>5. QED BY <1>2, <1>4

(* The operators that the strategy for joins makes. *)
JoinExec ==
  {"QEncryptedProjectExec", "QEncryptedUnionExec", "QEncryptedSortExec",
   "QEncryptedSortMergeJoinExec", "QEncryptedFilterExec"}

LEMMA ExecNames ==
  /\ JoinExec \subseteq EnclaveOperator
  /\ \A op \in DOMAIN Execs : Execs[op] \in EnclaveOperator
  /\ \A op \in EnclaveOperator :
       Arguments(op) = {} /\ op \notin WithOneChild \cup {"Join", "EncryptedJoin"}
  /\ JoinExec \cap (Reading \cup {"ACPolicyApply"}) = {}
  /\ \A op \in DOMAIN Execs : /\ Execs[op] # "ACPolicyApply"
                              /\ Execs[op] \in Reading <=> op \in Reading
                              /\ Execs[op] \in Checked <=> op \in Checked
  /\ DOMAIN Execs = EncryptedOperator \ {"EncryptedJoin"}
<1>1. JoinExec \subseteq EnclaveOperator
  BY DEF JoinExec, EnclaveOperator, Execs
<1>2. \A op \in DOMAIN Execs : Execs[op] \in EnclaveOperator
  BY DEF EnclaveOperator
<1>3. \A op \in EnclaveOperator :
        Arguments(op) = {} /\ op \notin WithOneChild \cup {"Join", "EncryptedJoin"}
  <2>1. EnclaveOperator = {"ACPolicyAppliedEncryptedBlockRDDExec",
          "ResPreparedEncryptedBlockRDDExec", "QEncryptedBlockRDDScanExec",
          "QEncryptedProjectExec", "QEncryptedFilterExec", "QEncryptedAggregateExec",
          "QEncryptedSortExec", "QEncryptedUnionExec", "QEncryptedSortMergeJoinExec"}
    BY DEF EnclaveOperator, Execs
  <2>2. QED BY <2>1 DEF Arguments, Relations, WithOneChild
<1>4. JoinExec \cap (Reading \cup {"ACPolicyApply"}) = {}
  BY DEF JoinExec, Reading, Unchecked, Checked, Relations
<1>5. \A op \in DOMAIN Execs : /\ Execs[op] # "ACPolicyApply"
                               /\ Execs[op] \in Reading <=> op \in Reading
                               /\ Execs[op] \in Checked <=> op \in Checked
  BY DEF Execs, Reading, Unchecked, Checked, Relations
<1>6. DOMAIN Execs = EncryptedOperator \ {"EncryptedJoin"}
  BY DEF Execs, EncryptedOperator
<1>7. QED BY <1>1, <1>2, <1>3, <1>4, <1>5, <1>6

(* An operator of the enclave over plans. *)
LEMMA ExecOver ==
  ASSUME NEW n, n = [argument \in DOMAIN n |-> n[argument]],
         {"op", "in", "height"} \subseteq DOMAIN n, n.op \in JoinExec,
         NEW U, n.in \in Seq(U), \A i \in DOMAIN n.in : IsPlan(n.in[i]), n.height = Above(n.in)
  PROVE  /\ IsPlan(n)
         /\ AllEnclave(n) <=> \A i \in DOMAIN n.in : AllEnclave(n.in[i])
         /\ (\E i \in DOMAIN n.in : Throws(n.in[i])) => Throws(n)
         /\ Reads(n) = FlattenSeq([i \in DOMAIN n.in |-> Reads(n.in[i])])
<1>1. n.op \in EnclaveOperator
  BY ExecNames
<1>2. Arguments(n.op) = {} /\ n.op \notin WithOneChild \cup {"Join", "EncryptedJoin"}
  BY <1>1, ExecNames
<1>3. \A i \in DOMAIN n.in : n.in[i].height \in Nat
  BY DEF IsPlan
<1>4. n.height \in Nat /\ \A i \in DOMAIN n.in : n.in[i].height < n.height
  BY <1>3, AboveIs
<1>5. Shape(n)
  BY <1>2 DEF Shape
<1>6. IsPlan(n)
  BY <1>4, <1>5, PlanOver
<1>7. AllEnclave(n) <=> \A i \in DOMAIN n.in : AllEnclave(n.in[i])
  BY <1>1, <1>6, OfEachExec
<1>8. (\E i \in DOMAIN n.in : Throws(n.in[i])) => Throws(n)
  BY <1>6, ForEachOperator
<1>9. n.op \notin Reading \cup {"ACPolicyApply"}
  BY ExecNames
<1>10. Reads(n) = FlattenSeq([i \in DOMAIN n.in |-> Reads(n.in[i])])
  BY <1>6, <1>9, ReadsOfEachOperator
<1>11. QED BY <1>6, <1>7, <1>8, <1>10

(* What a plan over other plans has of theirs. *)
Joins(n, c, d) ==
  /\ IsPlan(n)
  /\ AllEnclave(n) <=> AllEnclave(c) /\ AllEnclave(d)
  /\ Throws(c) \/ Throws(d) => Throws(n)

OverBoth(n, c, d) == Joins(n, c, d) /\ Reads(n) = FlattenSeq(<<Reads(c), Reads(d)>>)
OverJust(n, c)    == Joins(n, c, c) /\ Reads(n) = Reads(c)

LEMMA ExecOverOne ==
  ASSUME NEW n, n = [argument \in DOMAIN n |-> n[argument]],
         {"op", "in", "height"} \subseteq DOMAIN n, n.op \in JoinExec,
         NEW c, IsPlan(c), n.in = <<c>>, n.height = Above(<<c>>)
  PROVE  OverJust(n, c)
<1>1. n.in \in Seq({c}) /\ DOMAIN n.in = {1} /\ n.in[1] = c
  <2>1. DOMAIN n.in = 1 .. 1 /\ 1 .. 1 = {1}
    OBVIOUS
  <2>2. QED BY <2>1
<1>2. \A i \in DOMAIN n.in : IsPlan(n.in[i])
  BY <1>1
<1>3. /\ IsPlan(n)
      /\ AllEnclave(n) <=> \A i \in DOMAIN n.in : AllEnclave(n.in[i])
      /\ (\E i \in DOMAIN n.in : Throws(n.in[i])) => Throws(n)
      /\ Reads(n) = FlattenSeq([i \in DOMAIN n.in |-> Reads(n.in[i])])
  BY <1>1, <1>2, ExecOver
<1>4. [i \in DOMAIN n.in |-> Reads(n.in[i])] = <<Reads(c)>>
  BY <1>1
<1>5. Joins(n, c, c)
  BY <1>1, <1>3 DEF Joins
<1>6. QED BY <1>3, <1>4, <1>5, FlattenOne DEF OverJust

LEMMA ExecOverTwo ==
  ASSUME NEW n, n = [argument \in DOMAIN n |-> n[argument]],
         {"op", "in", "height"} \subseteq DOMAIN n, n.op \in JoinExec,
         NEW c, IsPlan(c), NEW d, IsPlan(d), n.in = <<c, d>>, n.height = Above(<<c, d>>)
  PROVE  OverBoth(n, c, d)
<1>1. n.in \in Seq({c, d}) /\ DOMAIN n.in = {1, 2} /\ n.in[1] = c /\ n.in[2] = d
  <2>1. DOMAIN n.in = 1 .. 2 /\ 1 .. 2 = {1, 2}
    OBVIOUS
  <2>2. n.in[1] = c /\ n.in[2] = d /\ n.in \in Seq({c, d})
    OBVIOUS
  <2>3. QED BY <2>1, <2>2
<1>2. \A i \in DOMAIN n.in : IsPlan(n.in[i])
  BY <1>1
<1>3. /\ IsPlan(n)
      /\ AllEnclave(n) <=> \A i \in DOMAIN n.in : AllEnclave(n.in[i])
      /\ (\E i \in DOMAIN n.in : Throws(n.in[i])) => Throws(n)
      /\ Reads(n) = FlattenSeq([i \in DOMAIN n.in |-> Reads(n.in[i])])
  BY <1>1, <1>2, ExecOver
<1>4. [i \in DOMAIN n.in |-> Reads(n.in[i])] = <<Reads(c), Reads(d)>>
  BY <1>1
<1>5. Joins(n, c, d)
  BY <1>1, <1>3 DEF Joins
<1>6. QED BY <1>3, <1>4, <1>5 DEF OverBoth

LEMMA PlanJoinIs ==
  ASSUME NEW p, NEW in, IsPlan(in[1]), IsPlan(in[2])
  PROVE  OverBoth(PlanJoin(p, in), in[1], in[2])
<1> DEFINE sideKeys(s) == <<p.leftKeys, p.rightKeys>>[s]
           list(s) == tagForJoin(sideKeys(s), output(p.in[s]), s)
           keys(s) == attributes(keysProj(sideKeys(s), s))
           Proj(s) == [op |-> "QEncryptedProjectExec", projectList |-> list(s),
                       in |-> <<in[s]>>, height |-> Above(<<in[s]>>)]
           left  == Proj(1)
           right == Proj(2)
           unioned == [op |-> "QEncryptedUnionExec", in |-> <<left, right>>,
                       height |-> Above(<<left, right>>)]
           sorted == [op |-> "QEncryptedSortExec", in |-> <<unioned>>,
                      height |-> Above(<<unioned>>),
                      order |-> sortForJoin(keys(1), attribute(TagFor(1)))]
           joined == [op |-> "QEncryptedSortMergeJoinExec", in |-> <<sorted>>,
                      height |-> Above(<<sorted>>), leftKeys |-> keys(1), rightKeys |-> keys(2),
                      leftSchema |-> attributes(list(1)),
                      rightSchema |-> attributes(list(2))]
           dropped == [op |-> "QEncryptedProjectExec", in |-> <<joined>>,
                       height |-> Above(<<joined>>),
                       projectList |-> dropTags(output(p.in[1]), output(p.in[2]))]
           filtered == [op |-> "QEncryptedFilterExec", condition |-> p.condition[1],
                        in |-> <<dropped>>, height |-> Above(<<dropped>>)]
<1>1. PlanJoin(p, in) = IF p.condition = <<>> THEN dropped ELSE filtered
  BY DEF PlanJoin
<1> HIDE DEF list, keys
<1>2. ASSUME NEW s, IsPlan(in[s]) PROVE OverJust(Proj(s), in[s])
  <2> DEFINE n == Proj(s)
  <2>1. /\ n = [argument \in DOMAIN n |-> n[argument]] /\ {"op", "in", "height"} \subseteq DOMAIN n
        /\ n.op = "QEncryptedProjectExec" /\ n.in = <<in[s]>> /\ n.height = Above(<<in[s]>>)
    OBVIOUS
  <2> HIDE DEF n
  <2>2. n.op \in JoinExec
    BY <2>1 DEF JoinExec
  <2>3. OverJust(n, in[s])
    BY <1>2, <2>1, <2>2, ExecOverOne
  <2>4. QED BY <2>3 DEF n
<1>3. OverJust(left, in[1]) /\ OverJust(right, in[2])
  BY <1>2
<1> HIDE DEF left, right
<1>4. OverBoth(unioned, left, right)
  <2>1. /\ unioned = [argument \in DOMAIN unioned |-> unioned[argument]]
        /\ {"op", "in", "height"} \subseteq DOMAIN unioned
        /\ unioned.op = "QEncryptedUnionExec" /\ unioned.in = <<left, right>>
        /\ unioned.height = Above(<<left, right>>)
    OBVIOUS
  <2> HIDE DEF unioned
  <2>2. unioned.op \in JoinExec /\ IsPlan(left) /\ IsPlan(right)
    BY <1>3, <2>1 DEF JoinExec, OverJust, Joins
  <2>3. QED BY <2>1, <2>2, ExecOverTwo
<1>5. OverBoth(unioned, in[1], in[2])
  BY <1>3, <1>4 DEF OverBoth, OverJust, Joins
<1> HIDE DEF unioned
<1>6. OverJust(sorted, unioned)
  <2>1. /\ sorted = [argument \in DOMAIN sorted |-> sorted[argument]]
        /\ {"op", "in", "height"} \subseteq DOMAIN sorted
        /\ sorted.op = "QEncryptedSortExec" /\ sorted.in = <<unioned>>
        /\ sorted.height = Above(<<unioned>>)
    OBVIOUS
  <2> HIDE DEF sorted
  <2>2. sorted.op \in JoinExec /\ IsPlan(unioned)
    BY <1>5, <2>1 DEF JoinExec, OverBoth, Joins
  <2>3. QED BY <2>1, <2>2, ExecOverOne
<1> HIDE DEF sorted
<1>7. OverJust(joined, sorted)
  <2>1. /\ joined = [argument \in DOMAIN joined |-> joined[argument]]
        /\ {"op", "in", "height"} \subseteq DOMAIN joined
        /\ joined.op = "QEncryptedSortMergeJoinExec" /\ joined.in = <<sorted>>
        /\ joined.height = Above(<<sorted>>)
    OBVIOUS
  <2> HIDE DEF joined
  <2>2. joined.op \in JoinExec /\ IsPlan(sorted)
    BY <1>6, <2>1 DEF JoinExec, OverJust, Joins
  <2>3. QED BY <2>1, <2>2, ExecOverOne
<1> HIDE DEF joined
<1>8. OverJust(dropped, joined)
  <2>1. /\ dropped = [argument \in DOMAIN dropped |-> dropped[argument]]
        /\ {"op", "in", "height"} \subseteq DOMAIN dropped
        /\ dropped.op = "QEncryptedProjectExec" /\ dropped.in = <<joined>>
        /\ dropped.height = Above(<<joined>>)
    OBVIOUS
  <2> HIDE DEF dropped
  <2>2. dropped.op \in JoinExec /\ IsPlan(joined)
    BY <1>7, <2>1 DEF JoinExec, OverJust, Joins
  <2>3. QED BY <2>1, <2>2, ExecOverOne
<1> HIDE DEF dropped
<1>9. OverJust(filtered, dropped)
  <2>1. /\ filtered = [argument \in DOMAIN filtered |-> filtered[argument]]
        /\ {"op", "in", "height"} \subseteq DOMAIN filtered
        /\ filtered.op = "QEncryptedFilterExec" /\ filtered.in = <<dropped>>
        /\ filtered.height = Above(<<dropped>>)
    OBVIOUS
  <2> HIDE DEF filtered
  <2>2. filtered.op \in JoinExec /\ IsPlan(dropped)
    BY <1>8, <2>1 DEF JoinExec, OverJust, Joins
  <2>3. QED BY <2>1, <2>2, ExecOverOne
<1> HIDE DEF filtered
<1>10. OverBoth(dropped, in[1], in[2]) /\ OverBoth(filtered, in[1], in[2])
  BY <1>5, <1>6, <1>7, <1>8, <1>9 DEF OverBoth, OverJust, Joins
<1>11. QED BY <1>1, <1>10
LEMMA NoPlanThrows ==
  IsPlan(NoPlan) /\ Throws(NoPlan)
<1>1. IsPlan(NoPlan) /\ NoPlan.op \in Exceptions
  BY LeafPlan DEF NoPlan, Exceptions
<1>2. QED BY <1>1, ForEachOperator

(* What the strategies make of an operator. *)
LEMMA OperatorPlanned ==
  ASSUME NEW t, IsPlan(t), NEW in, in = [i \in DOMAIN t.in |-> in[i]],
         \A i \in DOMAIN t.in : IsPlan(in[i])
  PROVE  LET u == PlanOperator(t, in)
         IN  /\ IsPlan(u)
             /\ t.op \in EncryptedOperator /\ (t.op = "EncryptedJoin" => t.leftKeys # <<>>) =>
                  /\ AllEnclave(u) <=> \A i \in DOMAIN t.in : AllEnclave(in[i])
                  /\ (\E i \in DOMAIN t.in : Throws(in[i])) => Throws(u)
                  /\ Reads(u) = IF t.op \in Reading
                                  THEN <<[table |-> t.table, checked |-> t.op \in Checked]>>
                                  ELSE FlattenSeq([i \in DOMAIN t.in |-> Reads(in[i])])
             /\ \/ t.op \in {"ACPolicyApply", "ResPrepared"}
                \/ t.op = "EncryptedJoin" /\ t.leftKeys = <<>>
                => Throws(u)
<1> DEFINE u == PlanOperator(t, in)
           T == WithChildren(t, in)
<1>1. /\ IsPlan(T) /\ T.op = t.op /\ T.in = in /\ DOMAIN in = DOMAIN t.in
      /\ "table" \in DOMAIN t => T.table = t.table /\ "table" \in DOMAIN T
  BY WithChildrenPlan
<1>2. DOMAIN Execs = EncryptedOperator \ {"EncryptedJoin"}
  BY ExecNames
<1>3. CASE t.op \in DOMAIN Execs
  <2> DEFINE v == [T EXCEPT !.op = Execs[t.op]]
  <2>1. u = v
    <3>1. t.op # "EncryptedJoin" /\ t.op \notin {"ACPolicyApply", "ResPrepared"}
      BY <1>2, <1>3, Names
    <3>2. QED BY <1>3, <3>1 DEF PlanOperator
  <2>2. /\ Execs[t.op] \in EnclaveOperator
        /\ Execs[t.op] # "ACPolicyApply"
        /\ Execs[t.op] \in Reading <=> t.op \in Reading
        /\ (Execs[t.op] \in Checked) = (t.op \in Checked)
    BY <1>3, ExecNames
  <2>3. /\ Arguments(Execs[t.op]) = {}
        /\ Execs[t.op] \notin WithOneChild \cup {"Join", "EncryptedJoin"}
    BY <2>2, ExecNames
  <2> HIDE DEF T, u
  <2>4. /\ IsPlan(v) /\ v.op = Execs[t.op] /\ v.in = T.in
        /\ "table" \in DOMAIN T => v.table = T.table
    BY <1>1, <2>3, RenamedPlan
  <2> HIDE DEF v
  <2>5. AllEnclave(v) <=> \A i \in DOMAIN t.in : AllEnclave(in[i])
    BY <1>1, <2>2, <2>4, OfEachExec
  <2>6. (\E i \in DOMAIN t.in : Throws(in[i])) => Throws(v)
    BY <1>1, <2>4, ForEachOperator
  <2>7. Reads(v) = IF t.op \in Reading
                     THEN <<[table |-> t.table, checked |-> t.op \in Checked]>>
                     ELSE FlattenSeq([i \in DOMAIN t.in |-> Reads(in[i])])
    <3>1. CASE t.op \in Reading
      <4>1. t.op \in Tabled \cup {"ACPolicyAppliedEncryptedBlockRDD"}
        BY <1>2, <1>3, <3>1 DEF Reading, Unchecked, Checked, Tabled, EncryptedOperator
      <4>2. v.table = t.table
        BY <1>1, <2>4, <4>1, PlanFields
      <4>3. Reads(v) = <<[table |-> v.table, checked |-> v.op \in Checked]>>
        BY <2>2, <2>4, <3>1, ReadsOfEachOperator
      <4>4. QED BY <2>2, <2>4, <3>1, <4>2, <4>3
    <3>2. CASE t.op \notin Reading
      <4>1. Reads(v) = FlattenSeq([i \in DOMAIN v.in |-> Reads(v.in[i])])
        BY <2>2, <2>4, <3>2, ReadsOfEachOperator
      <4>2. [i \in DOMAIN v.in |-> Reads(v.in[i])] = [i \in DOMAIN t.in |-> Reads(in[i])]
        BY <1>1, <2>4
      <4>3. QED BY <3>2, <4>1, <4>2
    <3>3. QED BY <3>1, <3>2
  <2>8. t.op \notin {"ACPolicyApply", "ResPrepared", "EncryptedJoin"}
    BY <1>2, <1>3, Names
  <2>9. QED BY <2>1, <2>4, <2>5, <2>6, <2>7, <2>8 DEF u
<1>4. CASE t.op = "EncryptedJoin"
  <2>1. DOMAIN t.in = {1, 2}
    BY <1>4, PlanFields
  <2>2. IsPlan(in[1]) /\ IsPlan(in[2])
    BY <2>1
  <2>3. CASE t.leftKeys = <<>>
    <3>1. u = NoPlan
      BY <1>2, <1>4, <2>3 DEF PlanOperator
    <3>2. QED BY <1>4, <2>3, <3>1, NoPlanThrows
  <2>4. CASE t.leftKeys # <<>>
    <3>1. u = PlanJoin(t, in)
      BY <1>2, <1>4, <2>4 DEF PlanOperator
    <3> HIDE DEF u
    <3>2. Joins(u, in[1], in[2]) /\ Reads(u) = FlattenSeq(<<Reads(in[1]), Reads(in[2])>>)
      BY <2>2, <3>1, PlanJoinIs DEF OverBoth
    <3>3. [i \in DOMAIN t.in |-> Reads(in[i])] = <<Reads(in[1]), Reads(in[2])>>
      BY <2>1
    <3>4. /\ AllEnclave(u) <=> \A i \in DOMAIN t.in : AllEnclave(in[i])
          /\ (\E i \in DOMAIN t.in : Throws(in[i])) => Throws(u)
      BY <2>1, <3>2 DEF Joins
    <3>5. t.op \notin Reading
      BY <1>4 DEF Reading, Unchecked, Checked, Relations
    <3>6. QED BY <1>4, <2>4, <3>2, <3>3, <3>4, <3>5 DEF Joins, u
  <2>5. QED BY <2>3, <2>4
<1>5. CASE t.op \in {"ACPolicyApply", "ResPrepared"}
  <2>1. t.op \notin EncryptedOperator
    BY <1>5, Names
  <2>2. u = NoPlan
    BY <1>2, <1>5, <2>1 DEF PlanOperator
  <2>3. QED BY <2>1, <2>2, NoPlanThrows
<1>6. CASE /\ t.op \notin DOMAIN Execs /\ t.op # "EncryptedJoin"
           /\ t.op \notin {"ACPolicyApply", "ResPrepared"}
  <2>1. u = T
    BY <1>6 DEF PlanOperator
  <2>2. t.op \notin EncryptedOperator
    BY <1>2, <1>6
  <2>3. QED BY <1>1, <1>6, <2>1, <2>2
<1>7. QED BY <1>3, <1>4, <1>5, <1>6

(* A plan that is ready has nothing but operators that have a plan.        *)
Ready(p) == Plannable(p) /\ AllSettled(p) /\ AllApplied(p) /\ AllPrepared(p)

LEMMA ReadyOperators ==
  ASSUME NEW p, IsPlan(p), Ready(p)
  PROVE  /\ p.op \in EncryptedOperator
         /\ p.op = "EncryptedJoin" => p.leftKeys # <<>>
         /\ \A i \in DOMAIN p.in : Ready(p.in[i])
<1>1. Fine(p) /\ Settled(p) /\ Applied(p) /\ Prepared(p) /\ \A i \in DOMAIN p.in : Ready(p.in[i])
  BY ForEachOperator DEF Ready
<1>2. p.op \in OpaqueOperator
  BY <1>1 DEF Settled, Ready
<1>3. p.op # "ACPolicyApply"
  BY <1>1 DEF Fine, Applied
<1>4. p.op # "ResPrepared"
  <2>1. ASSUME p.op = "ResPrepared" PROVE FALSE
    <3>1. 1 \in DOMAIN p.in /\ IsPlan(p.in[1])
      BY <2>1, PlanFields DEF WithOneChild
    <3>2. Plannable(p.in[1]) /\ Settled(p.in[1])
      BY <1>1, <3>1, ForEachOperator DEF Ready
    <3>3. isEncrypted(p.in[1])
      BY <3>1, <3>2, ForEachOperator DEF Settled
    <3>4. QED BY <1>1, <2>1, <3>3 DEF Prepared
  <2>2. QED BY <2>1
<1>5. p.op \in EncryptedOperator
  BY <1>2, <1>3, <1>4 DEF OpaqueOperator
<1>6. p.op = "EncryptedJoin" => p.leftKeys # <<>>
  BY <1>1 DEF Fine
<1>7. QED BY <1>1, <1>5, <1>6

(* What an encrypted operator that has no plan is, or is over.             *)
LEMMA UnplannableOperator ==
  ASSUME NEW p, IsPlan(p), p.op \in OpaqueOperator, ~ Plannable(p), AllCast(p), ~ Throws(p)
  PROVE  \/ p.op \in {"ACPolicyApply", "ResPrepared"}
         \/ p.op = "EncryptedJoin" /\ p.leftKeys = <<>>
         \/ /\ p.op \in EncryptedOperator
            /\ p.op = "EncryptedJoin" => p.leftKeys # <<>>
            /\ \E i \in DOMAIN p.in : /\ p.in[i].op \in OpaqueOperator /\ ~ Plannable(p.in[i])
                                      /\ AllCast(p.in[i]) /\ ~ Throws(p.in[i])
<1> SUFFICES ASSUME p.op \notin {"ACPolicyApply", "ResPrepared"},
                    p.op = "EncryptedJoin" => p.leftKeys # <<>>
             PROVE  /\ p.op \in EncryptedOperator
                    /\ \E i \in DOMAIN p.in : /\ p.in[i].op \in OpaqueOperator
                                              /\ ~ Plannable(p.in[i])
                                              /\ AllCast(p.in[i]) /\ ~ Throws(p.in[i])
  OBVIOUS
<1>1. p.op \in EncryptedOperator
  BY DEF OpaqueOperator
<1>2. Fine(p)
  <2>1. p.op \notin {"Join", "Sort", "Union"}
    BY <1>1, Names
  <2>2. QED BY <1>1, <2>1 DEF Fine
<1>3. PICK i \in DOMAIN p.in : ~ Plannable(p.in[i])
  BY <1>2, ForEachOperator
<1>4. AllCast(p.in[i]) /\ ~ Throws(p.in[i]) /\ IsPlan(p.in[i]) /\ IsCast(p)
  BY ForEachOperator, PlanFields
<1>5. p.in[i].op \notin Exceptions
  BY <1>4, ForEachOperator
<1>6. p.in[i].op \in OpaqueOperator
  BY <1>1, <1>4, <1>5 DEF IsCast
<1>7. QED BY <1>1, <1>3, <1>4, <1>6

LEMMA StrategyPlans ==
  ASSUME NEW p, IsPlan(p)
  PROVE  LET u == transformUp("QShieldOperators", p)
         IN  /\ Ready(p) => AllEnclave(u) /\ Reads(u) = Reads(p)
             /\ p.op \in OpaqueOperator /\ ~ Plannable(p) /\ AllCast(p) /\ ~ Throws(p) => Throws(u)
<1> DEFINE U(t) == transformUp("QShieldOperators", t)
           Stuck(t) == t.op \in OpaqueOperator /\ ~ Plannable(t) /\ AllCast(t) /\ ~ Throws(t)
           Done(t) == /\ IsPlan(U(t))
                      /\ Ready(t) => AllEnclave(U(t)) /\ Reads(U(t)) = Reads(t)
                      /\ Stuck(t) => Throws(U(t))
           S == Subtrees(p)
           G == {t \in S : Done(t)}
<1>1. p \in S /\ Closed(S) /\ \A t \in S : IsPlan(t)
  BY PlanIs
<1>2. ASSUME NEW t \in S
      PROVE  U(t) = PlanOperator(t, [i \in DOMAIN t.in |-> U(t.in[i])])
  <2> HIDE DEF S
  <2>1. U(t) = Convert("QShieldOperators", t, [i \in DOMAIN t.in |-> U(t.in[i])])
    BY <1>1, TransformUpIs
  <2> HIDE DEF U
  <2>2. QED BY <2>1 DEF Convert
<1> HIDE DEF U
<1>3. ASSUME NEW t \in S, \A i \in DOMAIN t.in : Done(t.in[i]) PROVE Done(t)
  <2> DEFINE in == [i \in DOMAIN t.in |-> U(t.in[i])]
  <2>1. IsPlan(t) /\ in = [i \in DOMAIN t.in |-> in[i]]
        /\ \A i \in DOMAIN t.in : in[i] = U(t.in[i])
    BY <1>1
  <2>2. U(t) = PlanOperator(t, in)
    BY <1>2
  <2> HIDE DEF in
  <2>3. \A i \in DOMAIN t.in : IsPlan(in[i])
    BY <1>3, <2>1
  <2>4. /\ IsPlan(U(t))
        /\ t.op \in EncryptedOperator /\ (t.op = "EncryptedJoin" => t.leftKeys # <<>>) =>
             /\ AllEnclave(U(t)) <=> \A i \in DOMAIN t.in : AllEnclave(in[i])
             /\ (\E i \in DOMAIN t.in : Throws(in[i])) => Throws(U(t))
             /\ Reads(U(t)) = IF t.op \in Reading
                                THEN <<[table |-> t.table, checked |-> t.op \in Checked]>>
                                ELSE FlattenSeq([i \in DOMAIN t.in |-> Reads(in[i])])
        /\ \/ t.op \in {"ACPolicyApply", "ResPrepared"}
           \/ t.op = "EncryptedJoin" /\ t.leftKeys = <<>>
           => Throws(U(t))
    BY <2>1, <2>2, <2>3, OperatorPlanned
  <2>5. ASSUME Ready(t) PROVE AllEnclave(U(t)) /\ Reads(U(t)) = Reads(t)
    <3>1. /\ t.op \in EncryptedOperator /\ (t.op = "EncryptedJoin" => t.leftKeys # <<>>)
          /\ \A i \in DOMAIN t.in : Ready(t.in[i])
      BY <2>1, <2>5, ReadyOperators
    <3>2. \A i \in DOMAIN t.in : AllEnclave(in[i]) /\ Reads(in[i]) = Reads(t.in[i])
      BY <1>3, <2>1, <3>1
    <3>3. t.op # "ACPolicyApply"
      BY <3>1, Names
    <3>4. [i \in DOMAIN t.in |-> Reads(in[i])] = [i \in DOMAIN t.in |-> Reads(t.in[i])]
      BY <3>2
    <3>5. AllEnclave(U(t))
      BY <2>4, <3>1, <3>2
    <3>6. Reads(t) = IF t.op \in Reading
                       THEN <<[table |-> t.table, checked |-> t.op \in Checked]>>
                       ELSE FlattenSeq([i \in DOMAIN t.in |-> Reads(t.in[i])])
      BY <2>1, <3>3, ReadsOfEachOperator
    <3>7. QED BY <2>4, <3>1, <3>4, <3>5, <3>6
  <2>6. ASSUME Stuck(t) PROVE Throws(U(t))
    <3>1. \/ t.op \in {"ACPolicyApply", "ResPrepared"}
          \/ t.op = "EncryptedJoin" /\ t.leftKeys = <<>>
          \/ /\ t.op \in EncryptedOperator
             /\ t.op = "EncryptedJoin" => t.leftKeys # <<>>
             /\ \E i \in DOMAIN t.in : Stuck(t.in[i])
      BY <2>1, <2>6, UnplannableOperator
    <3>2. \A i \in DOMAIN t.in : Stuck(t.in[i]) => Throws(in[i])
      BY <1>3, <2>1
    <3> HIDE DEF Stuck
    <3>3. QED BY <2>4, <3>1, <3>2
  <2>7. QED BY <2>4, <2>5, <2>6
<1>4. S \subseteq G
  <2>1. ASSUME NEW t \in S, \A i \in DOMAIN t.in : t.in[i] \in G PROVE t \in G
    BY <1>3, <2>1
  <2> HIDE DEF G, S
  <2>2. QED BY <1>1, <2>1, TreeInduction
<1>5. Done(p)
  BY <1>1, <1>4
<1>6. QED BY <1>5 DEF U
---------------------------------------------------------------------------
(* Statements. *)

LEMMA StatementSubtrees ==
  ASSUME NEW q, IsStatement(q), NEW t \in Subtrees(q)
  PROVE  /\ IsPlan(t)
         /\ t.op \notin EncryptedOperator \cup Exceptions
         /\ Subtrees(t) \subseteq Subtrees(q)
         /\ \A i \in DOMAIN t.in : t.in[i] \in Subtrees(q)
<1>1. IsPlan(q) /\ Closed(Subtrees(q)) /\ IsPlan(t)
  BY PlanIs DEF IsStatement
<1>2. Subtrees(t) \subseteq Subtrees(q) /\ t.in \in Seq(Subtrees(q))
  BY <1>1, SubtreesClosed DEF Closed
<1>3. QED BY <1>1, <1>2 DEF IsStatement

LEMMA StatementIs ==
  ASSUME NEW q, IsStatement(q)
  PROVE  /\ IsPlan(q)
         /\ Plannable(q) <=> Supported(q)
         /\ AllCast(q)
         /\ ~ Throws(q)
         /\ q.op \in Castable
<1>1. IsPlan(q) /\ q.op \in Castable
  BY Names DEF IsStatement
<1>2. ASSUME NEW t \in Subtrees(q), t.op = "ACPolicyApply"
      PROVE  t.in[1] \in Subtrees(q) /\ Subtrees(t.in[1]) \subseteq Subtrees(q)
  <2>1. 1 \in DOMAIN t.in
    BY <1>2, StatementSubtrees, PlanFields
  <2>2. t.in[1] \in Subtrees(q)
    BY <2>1, StatementSubtrees
  <2>3. QED BY <2>2, StatementSubtrees
<1>3. \A t \in Subtrees(q) : t.op # "EncryptedBlockRDD" /\ (t.op \in Tabled <=> t.op \in Relations)
  BY StatementSubtrees, Names DEF Tabled
<1>4. ASSUME NEW t \in Subtrees(q), t.op = "ACPolicyApply"
      PROVE  Bare(t.in[1])
               <=> \A u \in Subtrees(t.in[1]) : u.op \in Relations \/ IsNullFilter(u)
  <2>1. \A u \in Subtrees(t.in[1]) : BareNode(u) <=> u.op \in Relations \/ IsNullFilter(u)
    BY <1>2, <1>3, <1>4 DEF BareNode
  <2>2. QED BY <2>1 DEF Bare
<1>5. Plannable(q) <=> Supported(q)
  <2> DEFINE Ok(t) ==
        CASE t.op = "ACPolicyApply" ->
               \A u \in Subtrees(t.in[1]) : u.op \in Relations \/ IsNullFilter(u)
          [] t.op = "Join"          -> t.leftKeys # <<>>
          [] t.op = "Sort"          -> t.global
          [] t.op = "Union"         -> Len(t.in) = 2
          [] OTHER -> t.op \in Relations \cup {"Project", "Filter", "Aggregate", "ResPrepared"}
  <2>1. ASSUME NEW t \in Subtrees(q) PROVE Fine(t) <=> Ok(t)
    <3>1. t.op \notin EncryptedOperator /\ t.op # "EncryptedJoin"
      BY StatementSubtrees DEF EncryptedOperator
    <3>2. CASE t.op = "ACPolicyApply"
      BY <1>4, <3>2 DEF Fine
    <3>3. CASE t.op # "ACPolicyApply"
      BY <3>1, <3>3 DEF Fine
    <3>4. QED BY <3>2, <3>3
  <2>2. Supported(q) <=> \A t \in Subtrees(q) : Ok(t)
    BY DEF Supported
  <2> HIDE DEF Ok
  <2>3. QED BY <2>1, <2>2 DEF Plannable
<1>6. AllCast(q) /\ ~ Throws(q)
  BY StatementSubtrees DEF AllCast, IsCast, Throws
<1>7. QED BY <1>1, <1>5, <1>6

(* A statement with a plan is not settled: it reads some table.            *)
LEMMA StatementUnsettled ==
  ASSUME NEW q, IsStatement(q), Plannable(q), AllSettled(q)
  PROVE  FALSE
<1>1. q \in Subtrees(q) /\ Closed(Subtrees(q))
  BY PlanIs DEF IsStatement
<1>2. ASSUME NEW t \in Subtrees(q) PROVE 1 \in DOMAIN t.in
  <2>1. /\ IsPlan(t) /\ t.op \notin EncryptedOperator /\ Subtrees(t) \subseteq Subtrees(q)
    BY StatementSubtrees
  <2>2. Plannable(t) /\ Settled(t)
    BY <2>1 DEF Plannable, AllSettled
  <2>3. t.op \in {"ACPolicyApply", "ResPrepared"}
    BY <2>1, <2>2 DEF Settled, OpaqueOperator
  <2>4. QED BY <2>1, <2>3, PlanFields DEF WithOneChild
<1> DEFINE S == Subtrees(q)
           G == {}
<1>3. q \in S /\ Closed(S) /\ \A t \in S : (\A i \in DOMAIN t.in : t.in[i] \in G) => t \in G
  BY <1>1, <1>2
<1>4. S \subseteq G
  <2> HIDE DEF S, G
  <2>1. QED BY <1>3, TreeInduction
<1>5. QED BY <1>3, <1>4

---------------------------------------------------------------------------
(* The optimizer's rounds. What the rules have left is as good as the      *)
(* statement; after a round, it is settled.                                *)
PlanSound ==
  /\ IsPlan(plan)
  /\ ~ Throws(plan)
  /\ AllCast(plan)
  /\ plan.op \in Castable
  /\ Plannable(plan) <=> Supported(query)
  /\ Supported(query) => Reads(plan) = Reads(query)

RoundSound ==
  /\ AllSettled(plan) \/ (rule \in {1, 2} /\ before = query)
  /\ rule # 1 => AllApplied(plan) \/ before = query
  /\ rule = 4 => AllPrepared(plan)

PlannerInv ==
  /\ query \in Queries
  /\ rule \in {1, 2, 3, 4}
  /\ outcome = "planning" => PlanSound /\ RoundSound
  /\ PlannedExactlyIfSupported
  /\ PolicyChecksKept

LEMMA PlannerInit ==
  ASSUME Init PROVE PlannerInv
<1>1. query \in Queries /\ IsStatement(query)
  BY QueriesAssumption DEF Init
<1>2. PlanSound
  BY <1>1, StatementIs DEF Init, PlanSound
<1>3. RoundSound
  <2>1. rule \in {1, 2} /\ ~ (rule # 1) /\ rule # 4
    BY DEF Init
  <2>2. before = query
    BY DEF Init
  <2>3. QED BY <2>1, <2>2, Zenon DEF RoundSound
<1>4. PlannedExactlyIfSupported /\ PolicyChecksKept
  BY DEF Init, PlannedExactlyIfSupported, PolicyChecksKept
<1>5. rule \in {1, 2, 3, 4}
  BY DEF Init
<1>6. QED BY <1>1, <1>2, <1>3, <1>4, <1>5, Zenon DEF PlannerInv

LEMMA RuleApplied ==
  ASSUME PlannerInv, outcome = "planning", rule <= Len(Rules),
         NEW u, u = transformUp(Rules[rule], plan)
  PROVE  /\ Kept(plan, u)
         /\ rule \in {1, 2, 3}
         /\ AllSettled(u) \/ (rule = 1 /\ before = query)
         /\ AllApplied(u) \/ before = query
         /\ rule = 3 => AllPrepared(u)
<1>1. rule \in {1, 2, 3} /\ IsPlan(plan) /\ RoundSound
  <2>1. rule \in {1, 2, 3, 4} /\ PlanSound /\ RoundSound
    BY Zenon DEF PlannerInv
  <2>2. Len(Rules) = 3
    BY DEF Rules
  <2>3. rule \in {1, 2, 3}
    <3>1. rule \in {1, 2, 3, 4}
      BY <2>1
    <3>2. QED BY <2>2, <3>1
  <2>4. IsPlan(plan)
    BY <2>1, Zenon DEF PlanSound
  <2>5. QED BY <2>1, <2>3, <2>4
<1>2. CASE rule = 1
  <2>1. u = transformUp("ACPolicyApplyEncryptedBlockRDD", plan)
    BY <1>2 DEF Rules
  <2>2. Kept(plan, u) /\ (AllSettled(plan) => AllSettled(u) /\ AllApplied(u))
    BY <1>1, <2>1, ApplyPolicyRule
  <2>3. QED BY <1>1, <1>2, <2>2 DEF RoundSound
<1>3. CASE rule = 2
  <2>1. u = transformUp("ConvertToOpaqueOperators", plan)
    BY <1>3 DEF Rules
  <2>2. Kept(plan, u) /\ AllSettled(u)
    BY <1>1, <2>1, ConvertToOpaqueRule
  <2>3. QED BY <1>1, <1>3, <2>2 DEF RoundSound, Kept
<1>4. CASE rule = 3
  <2>1. u = transformUp("ConvertToQShieldOperators", plan)
    BY <1>4 DEF Rules
  <2>2. AllSettled(plan)
    BY <1>4, <1>1 DEF RoundSound
  <2>3. Kept(plan, u) /\ AllSettled(u) /\ AllPrepared(u)
    BY <1>1, <2>1, <2>2, ConvertToQShieldRule
  <2>4. QED BY <1>1, <1>4, <2>3 DEF RoundSound, Kept
<1>5. QED BY <1>1, <1>2, <1>3, <1>4

(* A plan that throws is none of a statement that is supported.            *)
LEMMA ThrowingUnplannable ==
  ASSUME NEW p, Throws(p) PROVE ~ Plannable(p)
<1>1. PICK t \in Subtrees(p) : t.op \in Exceptions
  BY DEF Throws
<1>2. ~ Fine(t)
  BY <1>1 DEF Fine, Exceptions, Relations, EncryptedOperator
<1>3. QED BY <1>2 DEF Plannable

LEMMA PlannerStep ==
  ASSUME PlannerInv, [Next]_vars PROVE PlannerInv'
<1>1. CASE ApplyRule
  <2>1. /\ outcome = "planning" /\ rule <= Len(Rules) /\ plan' = transformUp(Rules[rule], plan)
        /\ query' = query /\ before' = before /\ rule' = rule + 1 /\ physical' = physical
        /\ outcome' = IF Throws(plan') THEN "exception" ELSE "planning"
    BY <1>1 DEF ApplyRule
  <2>2. /\ Kept(plan, plan')
        /\ rule \in 1 .. 3
        /\ AllSettled(plan') \/ (rule = 1 /\ before = query)
        /\ AllApplied(plan') \/ before = query
        /\ rule = 3 => AllPrepared(plan')
    BY <2>1, RuleApplied
  <2>3. PlanSound
    BY <2>1 DEF PlannerInv
  <2>4. outcome' = "planning" => PlanSound'
    BY <2>1, <2>2, <2>3 DEF PlanSound, Kept
  <2>5. outcome' = "planning" => RoundSound'
    BY <2>1, <2>2 DEF RoundSound
  <2>6. Throws(plan') => ~ Supported(query)
    BY <2>2, <2>3, ThrowingUnplannable DEF PlanSound, Kept
  <2>7. PlannedExactlyIfSupported' /\ PolicyChecksKept'
    BY <2>1, <2>6 DEF PlannedExactlyIfSupported, PolicyChecksKept
  <2>8. query' \in Queries /\ rule' \in 1 .. 4
    BY <2>1, <2>2 DEF PlannerInv
  <2>9. QED BY <2>4, <2>5, <2>7, <2>8 DEF PlannerInv
<1>2. CASE NextRound
  <2>1. /\ outcome = "planning" /\ rule > Len(Rules) /\ before' = plan /\ rule' = 1
        /\ query' = query /\ plan' = plan /\ physical' = physical /\ outcome' = outcome
    BY <1>2 DEF NextRound
  <2>2. rule = 4 /\ PlanSound /\ RoundSound
    BY <2>1 DEF PlannerInv, Rules
  <2>3. PlanSound'
    BY <2>1, <2>2 DEF PlanSound
  <2>4. RoundSound'
    BY <2>1, <2>2 DEF RoundSound
  <2>5. PlannedExactlyIfSupported' /\ PolicyChecksKept'
    BY <2>1 DEF PlannedExactlyIfSupported, PolicyChecksKept
  <2>6. QED BY <2>1, <2>3, <2>4, <2>5 DEF PlannerInv
<1>3. CASE PlanQuery
  <2>1. /\ outcome = "planning" /\ rule > Len(Rules) /\ plan = before
        /\ physical' = transformUp("QShieldOperators", plan)
        /\ outcome' = IF Throws(physical') THEN "exception" ELSE "planned"
        /\ query' = query /\ plan' = plan /\ before' = before /\ rule' = rule
    BY <1>3 DEF PlanQuery
  <2>2. rule = 4 /\ PlanSound /\ RoundSound /\ query \in Queries
    BY <2>1 DEF PlannerInv, Rules
  <2>3. AllSettled(plan) /\ AllPrepared(plan) /\ (AllApplied(plan) \/ plan = query)
    BY <2>1, <2>2 DEF RoundSound
  <2>4. plan.op \in OpaqueOperator
    <3>1. plan.op \notin Exceptions
      BY <2>2, ForEachOperator DEF PlanSound
    <3>2. QED BY <2>2, <3>1 DEF PlanSound, Castable
  <2>5. Supported(query) => Ready(plan)
    <3>1. ASSUME Supported(query) PROVE AllApplied(plan)
      <4>1. ASSUME plan = query PROVE FALSE
        <5>1. IsStatement(query)
          BY <2>2, QueriesAssumption
        <5>2. Plannable(query) /\ AllSettled(query)
          BY <2>2, <2>3, <3>1, <4>1 DEF PlanSound
        <5>3. QED BY <5>1, <5>2, StatementUnsettled
      <4>2. QED BY <2>3, <4>1
    <3>2. QED BY <2>2, <2>3, <3>1 DEF PlanSound, Ready
  <2>6. /\ Ready(plan) => AllEnclave(physical') /\ Reads(physical') = Reads(plan)
        /\ plan.op \in OpaqueOperator /\ ~ Plannable(plan) /\ AllCast(plan) /\ ~ Throws(plan) =>
             Throws(physical')
    BY <2>1, <2>2, StrategyPlans DEF PlanSound
  <2>7. ~ Supported(query) => Throws(physical')
    BY <2>2, <2>4, <2>6 DEF PlanSound
  <2>8. Supported(query) => /\ AllEnclave(physical') /\ Reads(physical') = Reads(query)
                            /\ ~ Throws(physical')
    <3>1. AllEnclave(physical') => ~ Throws(physical')
      <4>1. EnclaveOperator \cap Exceptions = {}
        BY DEF EnclaveOperator, Execs, Exceptions
      <4>2. QED BY <4>1 DEF AllEnclave, Throws
    <3>2. QED BY <2>2, <2>5, <2>6, <3>1 DEF PlanSound
  <2>9. PlannedExactlyIfSupported'
    BY <2>1, <2>7, <2>8 DEF PlannedExactlyIfSupported, AllEnclave
  <2>10. PolicyChecksKept'
    BY <2>1, <2>7, <2>8 DEF PolicyChecksKept
  <2>11. outcome' # "planning"
    BY <2>1
  <2>12. QED BY <2>1, <2>2, <2>9, <2>10, <2>11 DEF PlannerInv
<1>4. CASE UNCHANGED vars
  <2>1. /\ query' = query /\ plan' = plan /\ before' = before /\ rule' = rule
        /\ physical' = physical /\ outcome' = outcome
    BY <1>4 DEF vars
  <2>2. QED BY <2>1 DEF PlannerInv, PlanSound, RoundSound, PlannedExactlyIfSupported,
                        PolicyChecksKept
<1>5. QED BY <1>1, <1>2, <1>3, <1>4 DEF Next

(* A statement is planned if and only if it is of the kind that the rules  *)
(* and strategies (rules.scala, strategies.scala) are made for, and every  *)
(* operator of its plan runs in the enclave; every other statement is      *)
(* answered with an exception, whatever its shape and its size.            *)
THEOREM PlannedExactlyIfSupportedHolds == Spec => []PlannedExactlyIfSupported
<1>1. PlannerInv /\ [Next]_vars => PlannerInv'
  BY PlannerStep
<1>2. PlannerInv => PlannedExactlyIfSupported
  BY DEF PlannerInv
<1>3. QED BY PlannerInit, <1>1, <1>2, PTL DEF Spec

(* The plan of a statement reads its tables one for one, and checks the    *)
(* token in the enclave where the statement has one and nowhere else: no   *)
(* rule of the optimizer loses a token or moves it (rules.scala).          *)
THEOREM PolicyChecksKeptHolds == Spec => []PolicyChecksKept
<1>1. PlannerInv /\ [Next]_vars => PlannerInv'
  BY PlannerStep
<1>2. PlannerInv => PolicyChecksKept
  BY DEF PlannerInv
<1>3. QED BY PlannerInit, <1>1, <1>2, PTL DEF Spec

=============================================================================
