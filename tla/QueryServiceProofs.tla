------------------------ MODULE QueryServiceProofs ------------------------
(***************************************************************************)
(* For every set of requests, statements, tables and expressions, every    *)
(* bound and every interleaving of requests, tasks, outsourcing and lost   *)
(* executors. First the expressions: what the enclave's evaluator computes *)
(* is what Spark computes, for every value that the fields may carry, at   *)
(* one node, and by induction over the nodes for a whole expression. Then  *)
(* the stored tables by themselves, however many calls of QOutsource       *)
(* crash: a table that QOutsource has returned for is whole, and versions  *)
(* are never mixed. Then the REST service by itself. Then the two in the   *)
(* service, with the enclave calls: a query reads the tables extracted     *)
(* from its statement under the token of its own user, and answers with    *)
(* nothing that an enclave without attestation has computed; a call brings *)
(* what Spark would have computed of its block, or an exception; and an    *)
(* answer is all of the table as it was outsourced, unless that was done   *)
(* again meanwhile.                                                        *)
(***************************************************************************)
EXTENDS QueryService, CommonLemmas, FiniteSetTheorems

---------------------------------------------------------------------------
(* Expressions. *)

BooleanFields == {BooleanField(n, v) : n \in BOOLEAN, v \in BOOLEAN}

(* A null field carries a value that eval_helper computes with in places.  *)
(* Whatever it is, And, Or and Not are those of SQL's three truth values.  *)
THEOREM LogicIsThreeValued ==
  ASSUME NEW f \in BooleanFields, NEW g \in BooleanFields
  PROVE  /\ Visible(And(f, g)) = OfTruth(Smaller(Truth(f), Truth(g)))
         /\ Visible(Or(f, g)) = OfTruth(Larger(Truth(f), Truth(g)))
         /\ Visible(Not(f)) = OfTruth(2 - Truth(f))
<1>1. PICK fn \in BOOLEAN, fv \in BOOLEAN : f = BooleanField(fn, fv)
  BY DEF BooleanFields
<1>2. PICK gn \in BOOLEAN, gv \in BOOLEAN : g = BooleanField(gn, gv)
  BY DEF BooleanFields
<1>3. /\ f.type = "BooleanField" /\ f.is_null = fn /\ f.value = fv
      /\ g.type = "BooleanField" /\ g.is_null = gn /\ g.value = gv
  BY <1>1, <1>2 DEF BooleanField, Field
<1>4. \A n \in BOOLEAN, v \in BOOLEAN :
        Visible(BooleanField(n, v)) = IF n THEN BooleanField(TRUE, FALSE)
                                      ELSE BooleanField(FALSE, v)
  BY DEF Visible, BooleanField, Field
<1>5. /\ Truth(f) = IF fn THEN 1 ELSE IF fv THEN 2 ELSE 0
      /\ Truth(g) = IF gn THEN 1 ELSE IF gv THEN 2 ELSE 0
  BY <1>3 DEF Truth
<1>6. /\ OfTruth(0) = BooleanField(FALSE, FALSE)
      /\ OfTruth(1) = BooleanField(TRUE, FALSE)
      /\ OfTruth(2) = BooleanField(FALSE, TRUE)
  <2>1. /\ (0 = 1) = FALSE /\ (0 = 2) = FALSE /\ (1 = 1) = TRUE
        /\ (1 = 2) = FALSE /\ (2 = 1) = FALSE /\ (2 = 2) = TRUE
    OBVIOUS
  <2> QED BY <2>1, Zenon DEF OfTruth
<1>7. Visible(And(f, g)) = OfTruth(Smaller(Truth(f), Truth(g)))
  <2>1. And(f, g) = IF (~ fn /\ ~ fv) \/ (~ gn /\ ~ gv) THEN BooleanField(FALSE, FALSE)
                    ELSE IF ~ fn /\ ~ gn THEN BooleanField(FALSE, TRUE)
                    ELSE BooleanField(TRUE, FALSE)
    BY <1>3 DEF And
  <2>2. Smaller(Truth(f), Truth(g)) =
          IF (~ fn /\ ~ fv) \/ (~ gn /\ ~ gv) THEN 0 ELSE IF ~ fn /\ ~ gn THEN 2 ELSE 1
    BY <1>5 DEF Smaller
  <2> QED BY <2>1, <2>2, <1>4, <1>6
<1>8. Visible(Or(f, g)) = OfTruth(Larger(Truth(f), Truth(g)))
  <2>1. Or(f, g) = IF (~ fn /\ fv) \/ (~ gn /\ gv) THEN BooleanField(FALSE, TRUE)
                   ELSE IF ~ fn /\ ~ gn THEN BooleanField(FALSE, FALSE)
                   ELSE BooleanField(TRUE, FALSE)
    BY <1>3 DEF Or
  <2>2. Larger(Truth(f), Truth(g)) =
          IF (~ fn /\ fv) \/ (~ gn /\ gv) THEN 2 ELSE IF ~ fn /\ ~ gn THEN 0 ELSE 1
    BY <1>5 DEF Larger
  <2> QED BY <2>1, <2>2, <1>4, <1>6
<1>9. Visible(Not(f)) = OfTruth(2 - Truth(f))
  <2>1. Not(f) = BooleanField(fn, ~ fv)
    BY <1>3 DEF Not
  <2>2. 2 - Truth(f) = IF fn THEN 1 ELSE IF fv THEN 0 ELSE 2
    BY <1>5
  <2> QED BY <2>1, <2>2, <1>4, <1>6
<1> QED BY <1>7, <1>8, <1>9

(* The characters that Substring copies are inside the string, for a       *)
(* negative length and a position before or behind the string as well, and *)
(* are those that the positions name.                                      *)
THEOREM SubstringIsTheWindow ==
  ASSUME NEW length \in Nat, NEW pos \in Int, NEW len \in Int
  PROVE  LET start == SubstringStart(length, pos, len)
             end   == SubstringEnd(length, pos, len)
         IN  /\ start < end => 0 <= start /\ end <= length
             /\ {k \in 0 .. length - 1 : start <= k /\ k < end} = SparkWindow(length, pos, len)
<1> DEFINE raw == RawStart(length, pos)
<1>1. raw \in Int
  BY DEF RawStart
<1> HIDE DEF raw
<1>2. SubstringEnd(length, pos, len) = IF length - raw < len THEN length ELSE raw + len
  BY DEF SubstringEnd, raw
<1>3. SubstringStart(length, pos, len) =
        IF Larger(raw, 0) > SubstringEnd(length, pos, len)
          THEN SubstringEnd(length, pos, len) ELSE Larger(raw, 0)
  BY DEF SubstringStart, raw
<1>4. Larger(raw, 0) = IF raw < 0 THEN 0 ELSE raw
  BY DEF Larger
<1>5. SparkWindow(length, pos, len) = {k \in 0 .. length - 1 : raw <= k /\ k < raw + len}
  BY DEF SparkWindow, raw
<1> QED BY <1>1, <1>2, <1>3, <1>4, <1>5

(* Substring as a whole is Spark's, the type error aside.                  *)
LEMMA SubstringIsSparks ==
  ASSUME NEW str, NEW pos, NEW len,
         str.type = "StringField" /\ pos.type = "IntegerField" /\ len.type = "IntegerField",
         str.value \in Seq(Nat), pos.value \in Int, len.value \in Int
  PROVE  Substring(str, pos, len) = SparkSubstring(str, pos, len)
<1>1. CASE str.is_null \/ pos.is_null \/ len.is_null
  BY <1>1 DEF Substring, SparkSubstring
<1>2. CASE ~ (str.is_null \/ pos.is_null \/ len.is_null)
  <2> DEFINE s      == str.value
             n      == Len(s)
             start  == SubstringStart(n, pos.value, len.value)
             end    == SubstringEnd(n, pos.value, len.value)
             window == SparkWindow(n, pos.value, len.value)
             First  == CHOOSE k \in window : \A j \in window : k <= j
             Final  == CHOOSE k \in window : \A j \in window : j <= k
  <2>1. Substring(str, pos, len) = StringField(FALSE, SubSeq(s, start + 1, end))
    BY <1>2 DEF Substring
  <2>2. SparkSubstring(str, pos, len) =
          StringField(FALSE, IF window = {} THEN <<>> ELSE SubSeq(s, First + 1, Final + 1))
    BY <1>2 DEF SparkSubstring
  <2>3. n \in Nat
    OBVIOUS
  <2>4. /\ start < end => 0 <= start /\ end <= n
        /\ {k \in 0 .. n - 1 : start <= k /\ k < end} = window
    BY <2>3, SubstringIsTheWindow
  <2>5. start \in Int /\ end \in Int
    BY <2>3 DEF SubstringStart, SubstringEnd, RawStart, Larger
  <2> HIDE DEF s, n, start, end, window
  <2>6. \A k : k \in window <=> k \in 0 .. n - 1 /\ start <= k /\ k < end
    BY <2>4, Zenon
  <2>7. CASE start < end
    <3>1. \A k \in window : k \in Int /\ start <= k /\ k <= end - 1
      BY <2>3, <2>5, <2>6
    <3>2. start \in window /\ end - 1 \in window
      <4>1. 0 <= start /\ end <= n
        BY <2>4, <2>7
      <4>2. /\ start \in 0 .. n - 1 /\ start <= start
            /\ end - 1 \in 0 .. n - 1 /\ start <= end - 1 /\ end - 1 < end
        BY <2>3, <2>5, <2>7, <4>1
      <4> QED BY <2>6, <2>7, <4>2, Zenon
    <3>3. First = start
      <4>1. \A k \in window : (\A j \in window : k <= j) => k = start
        BY <2>5, <3>1, <3>2
      <4>2. \A j \in window : start <= j
        BY <3>1
      <4> QED BY <3>2, <4>1, <4>2, Zenon
    <3>4. Final = end - 1
      <4>1. \A k \in window : (\A j \in window : j <= k) => k = end - 1
        BY <2>5, <3>1, <3>2
      <4>2. \A j \in window : j <= end - 1
        BY <3>1
      <4> QED BY <3>2, <4>1, <4>2, Zenon
    <3> HIDE DEF First, Final
    <3>5. Final + 1 = end
      BY <2>5, <3>4
    <3> QED BY <2>1, <2>2, <3>2, <3>3, <3>5
  <2>8. CASE ~ (start < end)
    <3>1. window = {}
      BY <2>3, <2>5, <2>8, <2>6
    <3>2. SubSeq(s, start + 1, end) = <<>>
      <4>1. start + 1 > end
        BY <2>5, <2>8
      <4>2. s \in Seq(Nat) /\ start + 1 \in Int
        BY <2>5 DEF s
      <4> QED BY <2>5, <4>1, <4>2
    <3> QED BY <2>1, <2>2, <3>1, <3>2
  <2> QED BY <2>7, <2>8
<1> QED BY <1>1, <1>2

---------------------------------------------------------------------------
(* Fields. *)

(* What a field is made of.                                                *)
LEMMA FieldFacts ==
  ASSUME NEW f, IsField(f)
  PROVE  /\ f = Field(f.type, f.is_null, f.value)
         /\ f.is_null \in BOOLEAN
         /\ f.type # "throws"
         /\ f.type = "BooleanField" => f.value \in BOOLEAN /\ f \in BooleanFields
         /\ f.type \in {"IntegerField", "LongField", "DateField"} => f.value \in Int
         /\ f.type = "StringField" => f.value \in Seq(Nat)
<1>1. /\ f \in [type : {f.type}, is_null : BOOLEAN, value : ValuesOf(f.type)]
      /\ f.type \in {"BooleanField", "IntegerField", "LongField", "DateField", "StringField"}
  BY DEF IsField
<1>2. f.is_null \in BOOLEAN /\ f.value \in ValuesOf(f.type)
  BY <1>1
<1>3. f = Field(f.type, f.is_null, f.value)
  BY <1>1 DEF Field
<1>4. f.type = "BooleanField" => f.value \in BOOLEAN /\ f \in BooleanFields
  <2>1. f.type = "BooleanField" => ValuesOf(f.type) = BOOLEAN
    BY DEF ValuesOf
  <2> QED BY <1>2, <1>3, <2>1 DEF BooleanFields, BooleanField
<1>5. f.type \in {"IntegerField", "LongField", "DateField"} => ValuesOf(f.type) = Int
  BY DEF ValuesOf
<1>6. f.type = "StringField" => ValuesOf(f.type) = Seq(Nat)
  BY DEF ValuesOf
<1>7. f.type # "throws"
  BY <1>1
<1> QED BY <1>2, <1>3, <1>4, <1>5, <1>6, <1>7

(* Fields as the operators make them.                                      *)
LEMMA MadeFields ==
  ASSUME NEW n \in BOOLEAN
  PROVE  /\ \A v \in BOOLEAN : IsField(BooleanField(n, v))
         /\ \A v \in Int : /\ IsField(IntegerField(n, v))
                           /\ IsField(LongField(n, v))
                           /\ IsField(Field("DateField", n, v))
         /\ \A v \in Seq(Nat) : IsField(StringField(n, v))
<1>1. /\ ValuesOf("BooleanField") = BOOLEAN
      /\ ValuesOf("IntegerField") = Int
      /\ ValuesOf("LongField") = Int
      /\ ValuesOf("DateField") = Int
      /\ ValuesOf("StringField") = Seq(Nat)
  BY DEF ValuesOf
<1>2. ASSUME NEW type \in {"BooleanField", "IntegerField", "LongField", "DateField", "StringField"},
             NEW v \in ValuesOf(type)
      PROVE  IsField(Field(type, n, v))
  <2>1. Field(type, n, v).type = type
    BY DEF Field
  <2>2. Field(type, n, v) \in [type : {type}, is_null : BOOLEAN, value : ValuesOf(type)]
    BY DEF Field
  <2> QED BY <2>1, <2>2 DEF IsField
<1> QED BY <1>1, <1>2 DEF BooleanField, IntegerField, LongField, StringField

(* Fields that look the same are both null, or are the same.               *)
LEMMA SameFields ==
  ASSUME NEW f, NEW g, IsField(f), IsField(g), SameField(f, g)
  PROVE  /\ f.type = g.type
         /\ f.is_null = g.is_null
         /\ ~ f.is_null => f = g
<1>1. f.type = g.type /\ Visible(f) = Visible(g)
  BY DEF SameField
<1>2. f.is_null \in BOOLEAN /\ g.is_null \in BOOLEAN
  BY FieldFacts
<1>3. \A h : h.is_null => Visible(h).is_null = TRUE
  BY DEF Visible, BooleanField, StringField, Field
<1>4. \A h : ~ h.is_null => Visible(h) = h
  BY DEF Visible
<1>5. CASE f.is_null
  <2>1. g.is_null
    BY <1>1, <1>2, <1>3, <1>4, <1>5
  <2> QED BY <1>1, <1>2, <1>5, <2>1
<1>6. CASE ~ f.is_null
  <2>1. Visible(f) = f
    BY <1>4, <1>6
  <2>2. ~ g.is_null
    BY <1>1, <1>2, <1>3, <1>6, <2>1
  <2>3. Visible(g) = g
    BY <1>4, <2>2
  <2> QED BY <1>1, <2>1, <2>3, <1>6
<1> QED BY <1>5, <1>6

LEMMA NullFields ==
  ASSUME NEW f, NEW g, f.type = g.type, f.is_null, g.is_null
  PROVE  SameField(f, g)
BY DEF SameField, Visible

(* A field that the enclave has computed and the one that Spark has.       *)
Agree(f, g) == IsField(f) /\ IsField(g) /\ SameField(f, g)

LEMMA AgreeFacts ==
  ASSUME NEW f, NEW g, Agree(f, g)
  PROVE  /\ IsField(f) /\ IsField(g)
         /\ f.type = g.type /\ f.is_null = g.is_null
         /\ ~ f.is_null => f = g
BY SameFields DEF Agree

LEMMA EqualAgree ==
  ASSUME NEW f, IsField(f)
  PROVE  Agree(f, f)
BY DEF Agree, SameField

(* Both are null, of the same type.                                        *)
LEMMA NullAgree ==
  ASSUME NEW f, NEW g, IsField(f), IsField(g), f.type = g.type, f.is_null, g.is_null
  PROVE  Agree(f, g)
BY NullFields DEF Agree

LEMMA ThrowsIsNoField ==
  /\ Throws("runtime_error").type = "throws"
  /\ Throws("logic_error").type = "throws"
BY DEF Throws, Field

LEMMA WrapInt ==
  ASSUME NEW n \in Int
  PROVE  Wrap(IntegerMax, n) \in Int /\ Wrap(LongMax, n) \in Int
<1>1. IntegerMax \in Nat /\ LongMax \in Nat
  BY WidthAssumption
<1>2. ASSUME NEW max \in Nat PROVE Wrap(max, n) \in Int
  <2>1. (n + max + 1) \in Int /\ (2 * max + 2) \in Nat \ {0}
    OBVIOUS
  <2>2. (n + max + 1) % (2 * max + 2) \in Int
    BY <2>1
  <2> QED BY <2>2 DEF Wrap
<1> QED BY <1>1, <1>2

(* A sum, a difference, a product: the same number if no side is null, and *)
(* null otherwise, whatever was computed from what the nulls carry.        *)
LEMMA ArithmeticAgrees ==
  ASSUME NEW a, NEW b, NEW sa, NEW sb, Agree(a, sa), Agree(b, sb),
         NEW value, NEW svalue,
         a.value \in Int /\ b.value \in Int => value \in Int,
         sa.value \in Int /\ sb.value \in Int => svalue \in Int,
         a = sa /\ b = sb => value = svalue,
         Arithmetic(a, b, value).type # "throws"
  PROVE  Agree(Arithmetic(a, b, value), Arithmetic(sa, sb, svalue))
<1>1. /\ IsField(a) /\ IsField(b) /\ IsField(sa) /\ IsField(sb)
      /\ a.type = sa.type /\ a.is_null = sa.is_null /\ (~ a.is_null => a = sa)
      /\ b.type = sb.type /\ b.is_null = sb.is_null /\ (~ b.is_null => b = sb)
  BY AgreeFacts
<1>2. a.type = b.type /\ a.type \in {"IntegerField", "LongField"}
  BY ThrowsIsNoField DEF Arithmetic
<1>3. value \in Int /\ svalue \in Int /\ a.is_null \in BOOLEAN /\ b.is_null \in BOOLEAN
  BY <1>1, <1>2, FieldFacts
<1> DEFINE null == a.is_null \/ b.is_null
<1>4. /\ Arithmetic(a, b, value) = IF a.type = "IntegerField"
           THEN IntegerField(null, Wrap(IntegerMax, value))
           ELSE LongField(null, Wrap(LongMax, value))
      /\ Arithmetic(sa, sb, svalue) = IF a.type = "IntegerField"
           THEN IntegerField(null, Wrap(IntegerMax, svalue))
           ELSE LongField(null, Wrap(LongMax, svalue))
  BY <1>1, <1>2 DEF Arithmetic
<1>5. null \in BOOLEAN
  OBVIOUS
<1>6. ~ null => value = svalue
  BY <1>1
<1> HIDE DEF null
<1>7. /\ Wrap(IntegerMax, value) \in Int /\ Wrap(LongMax, value) \in Int
      /\ Wrap(IntegerMax, svalue) \in Int /\ Wrap(LongMax, svalue) \in Int
  BY <1>3, WrapInt
<1>8. IsField(Arithmetic(a, b, value)) /\ IsField(Arithmetic(sa, sb, svalue))
  BY <1>4, <1>5, <1>7, MadeFields
<1>9. CASE null
  <2>1. /\ Arithmetic(a, b, value).is_null /\ Arithmetic(sa, sb, svalue).is_null
        /\ Arithmetic(a, b, value).type = Arithmetic(sa, sb, svalue).type
    BY <1>4, <1>9 DEF IntegerField, LongField, Field
  <2> QED BY <1>8, <2>1, NullAgree
<1>10. CASE ~ null
  BY <1>4, <1>6, <1>8, <1>10, EqualAgree
<1> QED BY <1>5, <1>9, <1>10

(* Comparisons.                                                            *)
LEMMA ComparisonAgrees ==
  ASSUME NEW a, NEW b, NEW sa, NEW sb, Agree(a, sa), Agree(b, sb),
         NEW value \in BOOLEAN, NEW svalue \in BOOLEAN,
         a = sa /\ b = sb => value = svalue,
         Comparison(a, b, value).type # "throws"
  PROVE  Agree(Comparison(a, b, value), SparkComparison(sa, sb, svalue))
<1>1. /\ IsField(a) /\ IsField(b) /\ IsField(sa) /\ IsField(sb)
      /\ a.type = sa.type /\ a.is_null = sa.is_null /\ (~ a.is_null => a = sa)
      /\ b.type = sb.type /\ b.is_null = sb.is_null /\ (~ b.is_null => b = sb)
  BY AgreeFacts
<1>2. Comparison(a, b, value) = IF a.is_null \/ b.is_null THEN BooleanField(TRUE, FALSE)
                                ELSE BooleanField(FALSE, value)
  BY ThrowsIsNoField DEF Comparison
<1>3. SparkComparison(sa, sb, svalue) = Comparison(a, b, value)
  BY <1>1, <1>2 DEF SparkComparison
<1>4. IsField(Comparison(a, b, value))
  BY <1>2, MadeFields
<1> QED BY <1>3, <1>4, EqualAgree

LEMMA TruthFacts ==
  /\ \A n \in 0 .. 2 : IsField(OfTruth(n)) /\ Visible(OfTruth(n)) = OfTruth(n)
                       /\ OfTruth(n).type = "BooleanField"
  /\ \A f : IsField(f) /\ f.type = "BooleanField" => Truth(f) \in 0 .. 2
  /\ \A f, g : Agree(f, g) => Truth(f) = Truth(g)
<1>1. \A n \in 0 .. 2 : (n = 1) \in BOOLEAN /\ (n = 2) \in BOOLEAN
  OBVIOUS
<1>2. \A n \in 0 .. 2 : IsField(OfTruth(n)) /\ OfTruth(n).type = "BooleanField"
  BY <1>1, MadeFields DEF OfTruth, BooleanField, Field
<1>3. \A n \in 0 .. 2 : Visible(OfTruth(n)) = OfTruth(n)
  <2>1. \A n \in 0 .. 2 : n = 1 => (n = 1) = TRUE /\ (n = 2) = FALSE
    OBVIOUS
  <2>2. \A n : OfTruth(n).is_null = (n = 1) /\ OfTruth(n).type = "BooleanField"
    BY DEF OfTruth, BooleanField, Field
  <2>3. \A n \in 0 .. 2 : n = 1 => OfTruth(n) = BooleanField(TRUE, FALSE)
    BY <2>1, Zenon DEF OfTruth
  <2> QED BY <2>2, <2>3 DEF Visible
<1>4. \A f : IsField(f) /\ f.type = "BooleanField" => Truth(f) \in 0 .. 2
  BY DEF Truth
<1>5. \A f, g : Agree(f, g) => Truth(f) = Truth(g)
  BY AgreeFacts DEF Truth
<1> QED BY <1>2, <1>3, <1>4, <1>5

(* And, Or and Not.                                                        *)
LEMMA LogicAgrees ==
  ASSUME NEW a, NEW sa, Agree(a, sa)
  PROVE  /\ Not(a).type # "throws" => Agree(Not(a), OfTruth(2 - Truth(sa)))
         /\ \A b, sb : Agree(b, sb) =>
              /\ And(a, b).type # "throws" =>
                   Agree(And(a, b), OfTruth(Smaller(Truth(sa), Truth(sb))))
              /\ Or(a, b).type # "throws" =>
                   Agree(Or(a, b), OfTruth(Larger(Truth(sa), Truth(sb))))
<1>1. IsField(a) /\ Truth(a) = Truth(sa)
  BY AgreeFacts, TruthFacts
<1>2. ASSUME Not(a).type # "throws" PROVE Agree(Not(a), OfTruth(2 - Truth(sa)))
  <2>1. a.type = "BooleanField" /\ Not(a) = BooleanField(a.is_null, ~ a.value)
    BY <1>2, ThrowsIsNoField DEF Not
  <2>2. a \in BooleanFields /\ a.is_null \in BOOLEAN /\ (~ a.value) \in BOOLEAN
    BY <1>1, <2>1, FieldFacts
  <2>3. IsField(Not(a)) /\ Not(a).type = "BooleanField"
    <3>1. IsField(BooleanField(a.is_null, ~ a.value))
      BY <2>2, MadeFields, Zenon
    <3>2. BooleanField(a.is_null, ~ a.value).type = "BooleanField"
      BY DEF BooleanField, Field
    <3> QED BY <2>1, <3>1, <3>2
  <2>4. 2 - Truth(a) \in 0 .. 2
    BY <1>1, <2>1, TruthFacts
  <2>5. Visible(Not(a)) = OfTruth(2 - Truth(a))
    BY <2>2, LogicIsThreeValued
  <2> QED BY <1>1, <2>3, <2>4, <2>5, TruthFacts DEF Agree, SameField
<1>3. ASSUME NEW b, NEW sb, Agree(b, sb)
      PROVE  /\ And(a, b).type # "throws" =>
                  Agree(And(a, b), OfTruth(Smaller(Truth(sa), Truth(sb))))
             /\ Or(a, b).type # "throws" =>
                  Agree(Or(a, b), OfTruth(Larger(Truth(sa), Truth(sb))))
  <2>1. IsField(b) /\ Truth(b) = Truth(sb)
    BY <1>3, AgreeFacts, TruthFacts
  <2>2. CASE a.type = "BooleanField" /\ b.type = "BooleanField"
    <3>1. a \in BooleanFields /\ b \in BooleanFields
      BY <1>1, <2>1, <2>2, FieldFacts
    <3>2. Truth(a) \in 0 .. 2 /\ Truth(b) \in 0 .. 2
      BY <1>1, <2>1, <2>2, TruthFacts
    <3>3. Smaller(Truth(a), Truth(b)) \in 0 .. 2 /\ Larger(Truth(a), Truth(b)) \in 0 .. 2
      BY <3>2 DEF Smaller, Larger
    <3>4. /\ IsField(BooleanField(TRUE, FALSE)) /\ IsField(BooleanField(FALSE, FALSE))
          /\ IsField(BooleanField(FALSE, TRUE))
      BY MadeFields
    <3>5. /\ IsField(And(a, b)) /\ And(a, b).type = "BooleanField"
          /\ IsField(Or(a, b)) /\ Or(a, b).type = "BooleanField"
      BY <2>2, <3>4 DEF And, Or, BooleanField, Field
    <3>6. /\ Visible(And(a, b)) = OfTruth(Smaller(Truth(a), Truth(b)))
          /\ Visible(Or(a, b)) = OfTruth(Larger(Truth(a), Truth(b)))
      BY <3>1, LogicIsThreeValued
    <3> QED BY <1>1, <2>1, <3>3, <3>5, <3>6, TruthFacts DEF Agree, SameField
  <2>3. CASE ~ (a.type = "BooleanField" /\ b.type = "BooleanField")
    BY <2>3, ThrowsIsNoField DEF And, Or
  <2> QED BY <2>2, <2>3
<1> QED BY <1>2, <1>3

(* Casts: a string that is a clean number is that number for both.         *)
LEMMA NumberInt ==
  ASSUME NEW s \in Seq(Nat), NEW n \in 0 .. Len(s)
  PROVE  Number(s, n) \in Int
<1> DEFINE Digit(f) == \A i \in 0 .. n : f[i] = IF i = 0 THEN 0 ELSE 10 * f[i - 1] + (s[i] - 48)
           Value(f) == f = [i \in 0 .. n |-> IF i = 0 THEN 0 ELSE 10 * f[i - 1] + (s[i] - 48)]
           step == [x \in (1 .. n) \X Int |-> 10 * x[2] + (s[x[1]] - 48)]
<1>1. n \in Nat /\ \A i \in 1 .. n : s[i] \in Nat
  OBVIOUS
<1>2. step \in [(1 .. n) \X Int -> Int]
  BY <1>1
<1>3. PICK f : Recursion(f, n, Int, 0, step)
  <2> HIDE DEF step
  <2>1. 0 \in Int
    OBVIOUS
  <2> QED BY <1>1, <1>2, <2>1, RecursionExists, Zenon
<1>4. f \in [0 .. n -> Int] /\ f[0] = 0 /\ \A i \in 1 .. n : f[i] = step[<<i, f[i - 1]>>]
  BY <1>3 DEF Recursion
<1>5. \A i \in 1 .. n : i - 1 \in 0 .. n /\ f[i - 1] \in Int
  BY <1>1, <1>4
<1>6. \A i \in 1 .. n : f[i] = 10 * f[i - 1] + (s[i] - 48)
  BY <1>4, <1>5
<1>7. \A i \in 0 .. n : f[i] = IF i = 0 THEN 0 ELSE 10 * f[i - 1] + (s[i] - 48)
  BY <1>1, <1>4, <1>6
<1>8. Value(f)
  BY <1>4, <1>7
<1> DEFINE v == CHOOSE g : Value(g)
<1>9. Number(s, n) = v[n]
  BY DEF Number
<1>10. Value(v)
  BY <1>8
<1>11. \A i \in 0 .. n : v[i] = IF i = 0 THEN 0 ELSE 10 * v[i - 1] + (s[i] - 48)
  BY <1>10
<1> HIDE DEF v
<1> DEFINE S == {i \in 0 .. n : v[i] \in Int}
<1>12. 0 \in S
  BY <1>1, <1>11
<1>13. \A i \in 1 .. n : i - 1 \in S => i \in S
  <2> SUFFICES ASSUME NEW i \in 1 .. n, i - 1 \in S PROVE i \in S
    OBVIOUS
  <2>1. v[i] = 10 * v[i - 1] + (s[i] - 48) /\ i \in 0 .. n
    BY <1>1, <1>11
  <2> QED BY <1>1, <2>1
<1>14. \A i \in 0 .. n : i \in S
  <2> HIDE DEF S
  <2> QED BY <1>1, <1>12, <1>13, SetInduction
<1>15. n \in S
  BY <1>1, <1>14
<1> QED BY <1>9, <1>15

(* A string begins with some number of characters of C, none at least.     *)
LEMMA LeadingCount ==
  ASSUME NEW s \in Seq(Nat), NEW C
  PROVE  Leading(s, C) \in 0 .. Len(s) /\ \A i \in 1 .. Leading(s, C) : s[i] \in C
<1> DEFINE T == {k \in 0 .. Len(s) : \A i \in 1 .. k : s[i] \in C}
<1>1. Len(s) \in Nat /\ 0 \in T
  OBVIOUS
<1>2. PICK n \in T : \A m \in T : m <= n
  <2>1. T \subseteq 0 .. Len(s) /\ T # {}
    BY <1>1
  <2> HIDE DEF T
  <2> QED BY <1>1, <2>1, GreatestNatural
<1>3. \E k \in 0 .. Len(s) :
        /\ \A i \in 1 .. k : s[i] \in C
        /\ \A m \in 0 .. Len(s) : (\A i \in 1 .. m : s[i] \in C) => m <= k
  BY <1>2
<1> QED BY <1>3, Zenon DEF Leading

LEMMA SignedInt ==
  ASSUME NEW s \in Seq(Nat)
  PROVE  /\ Unsigned(s) \in Seq(Nat)
         /\ \A n \in 0 .. Len(Unsigned(s)) : Signed(s, n) \in Int
<1>1. Unsigned(s) \in Seq(Nat)
  BY DEF Unsigned, HasSign
<1>2. ASSUME NEW n \in 0 .. Len(Unsigned(s)) PROVE Signed(s, n) \in Int
  <2>1. Number(Unsigned(s), n) \in Int
    BY <1>1, NumberInt
  <2> QED BY <2>1 DEF Signed
<1> QED BY <1>1, <1>2

(* std::stol finds the whole of a string that is a number.                 *)
LEMMA CleanHasNoWhitespace ==
  ASSUME NEW s \in Seq(Nat), NEW type, CleanNumber(s, type)
  PROVE  SkipWhitespace(s) = s
<1> DEFINE k == Leading(s, Whitespace)
<1>1. /\ Unsigned(s) \in Seq(Nat)
      /\ Len(Unsigned(s)) > 0
      /\ \A i \in 1 .. Len(Unsigned(s)) : Unsigned(s)[i] \in Digits
  BY SignedInt, LeadingCount DEF CleanNumber
<1>2. Unsigned(s)[1] \in Digits
  BY <1>1
<1>3. s # <<>> /\ s[1] \notin Whitespace
  <2>1. CASE HasSign(s)
    BY <2>1 DEF HasSign, Plus, Minus, Whitespace
  <2>2. CASE ~ HasSign(s)
    BY <1>1, <1>2, <2>2 DEF Unsigned, Digits, Whitespace
  <2> QED BY <2>1, <2>2
<1>4. k \in 0 .. Len(s) /\ \A i \in 1 .. k : s[i] \in Whitespace
  BY LeadingCount
<1> HIDE DEF k
<1>5. k = 0
  BY <1>3, <1>4
<1>6. SkipWhitespace(s) = SubSeq(s, 1, Len(s))
  BY <1>5 DEF SkipWhitespace, k
<1> QED BY <1>6

LEMMA StoreFacts ==
  ASSUME NEW null \in BOOLEAN, NEW n \in Int, NEW type
  PROVE  /\ IsField(Store(null, n, type))
         /\ Store(null, n, type).is_null = null
         /\ Store(null, n, type).type =
              IF type = "IntegerType" THEN "IntegerField" ELSE "LongField"
<1>1. Wrap(IntegerMax, n) \in Int /\ Wrap(LongMax, n) \in Int
  BY WrapInt
<1>2. IsField(Store(null, n, type))
  BY <1>1, MadeFields DEF Store
<1> QED BY <1>2 DEF Store, IntegerField, LongField, Field

LEMMA CastAgrees ==
  ASSUME NEW a, NEW sa, Agree(a, sa), NEW type,
         Cast(a, type).type # "throws",
         ~ (sa.type = "StringField" /\ ~ sa.is_null /\ ~ CleanNumber(sa.value, type))
  PROVE  Agree(Cast(a, type), SparkCast(sa, type))
<1>1. /\ IsField(a) /\ IsField(sa)
      /\ a.type = sa.type /\ a.is_null = sa.is_null /\ (~ a.is_null => a = sa)
  BY AgreeFacts
<1>2. type \in {"IntegerType", "LongType"}
  BY ThrowsIsNoField DEF Cast
<1>3. a.is_null \in BOOLEAN
  BY <1>1, FieldFacts
<1>4. CASE a.type = "StringField"
  <2>1. Cast(a, type) = CastFromString(a, type)
    BY <1>2, <1>4 DEF Cast
  <2>2. CASE a.is_null
    <3>1. Cast(a, type) = Store(TRUE, 0, type)
      BY <2>1, <2>2 DEF CastFromString
    <3>2. SparkCast(sa, type) = Store(TRUE, 0, type)
      BY <1>1, <1>4, <2>2 DEF SparkCast
    <3>3. IsField(Store(TRUE, 0, type))
      <4>1. TRUE \in BOOLEAN /\ 0 \in Int
        OBVIOUS
      <4> QED BY <4>1, StoreFacts, Zenon
    <3> QED BY <3>1, <3>2, <3>3, EqualAgree, Zenon
  <2>3. CASE ~ a.is_null
    <3> DEFINE n == Leading(Unsigned(a.value), Digits)
               number == Signed(a.value, n)
               max == IF type = "IntegerType" THEN IntegerMax ELSE LongMax
    <3>1. CleanNumber(a.value, type) /\ sa = a /\ a.value \in Seq(Nat)
      BY <1>1, <1>4, <2>3, FieldFacts
    <3>2. n = Len(Unsigned(a.value)) /\ n # 0 /\ number \in (0 - max - 1) .. max
      BY <3>1 DEF CleanNumber
    <3>3. SkipWhitespace(a.value) = a.value
      BY <3>1, CleanHasNoWhitespace
    <3>4. SparkCast(sa, type) = Store(FALSE, number, type)
      BY <1>4, <2>3, <3>1, <3>2 DEF SparkCast
    <3>5. Cast(a, type) =
            IF n = 0 \/ number \notin (0 - LongMax - 1) .. LongMax THEN Throws("logic_error")
            ELSE Store(FALSE, number, type)
      BY <2>1, <2>3, <3>3 DEF CastFromString
    <3>6. max \in Nat /\ max <= LongMax /\ LongMax \in Nat
      BY WidthAssumption
    <3> HIDE DEF n, number, max
    <3>7. number \in Int /\ number \in (0 - LongMax - 1) .. LongMax
      BY <3>2, <3>6
    <3>8. Cast(a, type) = Store(FALSE, number, type)
      BY <3>2, <3>5, <3>7
    <3> QED BY <3>4, <3>7, <3>8, StoreFacts, EqualAgree
  <2> QED BY <1>3, <2>2, <2>3
<1>5. CASE a.type # "StringField"
  <2>1. a.type \in {"IntegerField", "LongField"}
    BY <1>2, <1>5, ThrowsIsNoField DEF Cast
  <2>2. Cast(a, type) = Store(a.is_null, a.value, type)
    BY <1>2, <1>5, <2>1 DEF Cast
  <2>3. SparkCast(sa, type) = Store(a.is_null, sa.value, type)
    BY <1>1, <1>5 DEF SparkCast
  <2>4. a.value \in Int /\ sa.value \in Int
    BY <1>1, <2>1, FieldFacts
  <2>5. IsField(Cast(a, type)) /\ IsField(SparkCast(sa, type))
    BY <1>3, <2>2, <2>3, <2>4, StoreFacts
  <2>6. CASE a.is_null
    <3>1. /\ Cast(a, type).is_null /\ SparkCast(sa, type).is_null
          /\ Cast(a, type).type = SparkCast(sa, type).type
      <4> DEFINE made == IF type = "IntegerType" THEN "IntegerField" ELSE "LongField"
      <4>1. /\ Store(a.is_null, a.value, type).is_null = a.is_null
            /\ Store(a.is_null, a.value, type).type = made
        BY <1>3, <2>4, StoreFacts, Zenon
      <4>2. /\ Store(a.is_null, sa.value, type).is_null = a.is_null
            /\ Store(a.is_null, sa.value, type).type = made
        BY <1>3, <2>4, StoreFacts, Zenon
      <4> QED BY <2>2, <2>3, <2>6, <4>1, <4>2
    <3> QED BY <2>5, <3>1, NullAgree
  <2>7. CASE ~ a.is_null
    BY <1>1, <2>2, <2>3, <2>5, <2>7, EqualAgree
  <2> QED BY <2>6, <2>7
<1> QED BY <1>4, <1>5

(* Strings.                                                                *)
LEMMA SubstringAgrees ==
  ASSUME NEW a, NEW b, NEW d, NEW sa, NEW sb, NEW sd,
         Agree(a, sa), Agree(b, sb), Agree(d, sd),
         Substring(a, b, d).type # "throws"
  PROVE  Agree(Substring(a, b, d), SparkSubstring(sa, sb, sd))
<1>1. /\ IsField(a) /\ IsField(b) /\ IsField(d)
      /\ a.type = sa.type /\ a.is_null = sa.is_null /\ (~ a.is_null => a = sa)
      /\ b.type = sb.type /\ b.is_null = sb.is_null /\ (~ b.is_null => b = sb)
      /\ d.type = sd.type /\ d.is_null = sd.is_null /\ (~ d.is_null => d = sd)
  BY AgreeFacts
<1>2. a.type = "StringField" /\ b.type = "IntegerField" /\ d.type = "IntegerField"
  BY ThrowsIsNoField DEF Substring
<1>3. a.value \in Seq(Nat) /\ b.value \in Int /\ d.value \in Int
  BY <1>1, <1>2, FieldFacts
<1>4. CASE a.is_null \/ b.is_null \/ d.is_null
  <2>1. Substring(a, b, d) = StringField(TRUE, <<>>)
    BY <1>2, <1>4 DEF Substring
  <2>2. SparkSubstring(sa, sb, sd) = StringField(TRUE, <<>>)
    BY <1>1, <1>4 DEF SparkSubstring
  <2>3. <<>> \in Seq(Nat)
    OBVIOUS
  <2>4. IsField(StringField(TRUE, <<>>))
    BY <2>3, MadeFields
  <2> QED BY <2>1, <2>2, <2>4, EqualAgree
<1>5. CASE ~ (a.is_null \/ b.is_null \/ d.is_null)
  <2>1. sa = a /\ sb = b /\ sd = d
    BY <1>1, <1>5
  <2>2. Substring(a, b, d) = SparkSubstring(sa, sb, sd)
    BY <1>2, <1>3, <2>1, SubstringIsSparks
  <2> DEFINE n     == Len(a.value)
             start == SubstringStart(n, b.value, d.value)
             end   == SubstringEnd(n, b.value, d.value)
  <2>3. Substring(a, b, d) = StringField(FALSE, SubSeq(a.value, start + 1, end))
    BY <1>2, <1>5 DEF Substring
  <2>4. n \in Nat /\ start \in Int /\ end \in Int
    BY <1>3 DEF SubstringStart, SubstringEnd, RawStart, Larger
  <2>5. start < end => 0 <= start /\ end <= n
    BY <1>3, <2>4, SubstringIsTheWindow
  <2>6. \A s \in Seq(Nat), i, j \in Int :
          (i < j => 0 <= i /\ j <= Len(s)) => SubSeq(s, i + 1, j) \in Seq(Nat)
    <3> SUFFICES ASSUME NEW s \in Seq(Nat), NEW i \in Int, NEW j \in Int,
                        i < j => 0 <= i /\ j <= Len(s)
                 PROVE  SubSeq(s, i + 1, j) \in Seq(Nat)
      OBVIOUS
    <3>1. CASE i < j
      BY <3>1
    <3>2. CASE ~ (i < j)
      <4>1. SubSeq(s, i + 1, j) = <<>>
        BY <3>2
      <4> QED BY <4>1
    <3> QED BY <3>1, <3>2
  <2>7. SubSeq(a.value, start + 1, end) \in Seq(Nat)
    <3> HIDE DEF start, end
    <3> QED BY <1>3, <2>4, <2>5, <2>6
  <2> HIDE DEF start, end
  <2>8. IsField(Substring(a, b, d))
    BY <2>3, <2>7, MadeFields
  <2> QED BY <2>2, <2>8, EqualAgree
<1> QED BY <1>4, <1>5

LEMMA ContainsAgrees ==
  ASSUME NEW a, NEW b, NEW sa, NEW sb, Agree(a, sa), Agree(b, sb),
         ContainsString(a, b).type # "throws",
         ~ (~ sb.is_null /\ sb.value = <<>>)
  PROVE  Agree(ContainsString(a, b),
               IF sa.is_null \/ sb.is_null THEN BooleanField(TRUE, FALSE)
               ELSE BooleanField(FALSE, Occurs(sb.value, sa.value)))
<1>1. /\ a.is_null = sa.is_null /\ (~ a.is_null => a = sa)
      /\ b.is_null = sb.is_null /\ (~ b.is_null => b = sb)
  BY AgreeFacts
<1> DEFINE found == b.value # <<>> /\ Occurs(b.value, a.value)
<1>2. ContainsString(a, b) = IF a.is_null \/ b.is_null THEN BooleanField(TRUE, FALSE)
                       ELSE BooleanField(FALSE, found)
  BY ThrowsIsNoField DEF ContainsString
<1>3. ~ a.is_null /\ ~ b.is_null => found = Occurs(sb.value, sa.value)
  BY <1>1 DEF Occurs
<1>4. found \in BOOLEAN
  OBVIOUS
<1> HIDE DEF found
<1>5. IsField(ContainsString(a, b))
  BY <1>2, <1>4, MadeFields
<1>6. ContainsString(a, b) = IF sa.is_null \/ sb.is_null THEN BooleanField(TRUE, FALSE)
                       ELSE BooleanField(FALSE, Occurs(sb.value, sa.value))
  BY <1>1, <1>2, <1>3
<1> QED BY <1>5, <1>6, EqualAgree

(* A number of days cut into cycles of unit days, of which there are at    *)
(* most last.                                                              *)
LEMMA Cycles ==
  ASSUME NEW n \in Nat, NEW last \in {3, 24},
         NEW unit \in {365, 1461, 36524}
  PROVE  LET k == Smaller(n \div unit, last)
         IN  /\ k \in 0 .. last
             /\ 0 <= n - unit * k
             /\ k < last => n - unit * k < unit
<1>1. CASE unit = 365
  BY <1>1 DEF Smaller
<1>2. CASE unit = 1461
  BY <1>2 DEF Smaller
<1>3. CASE unit = 36524
  BY <1>3 DEF Smaller
<1> QED BY <1>1, <1>2, <1>3

(* The cut of a number of days, which may be negative, into cycles of 400  *)
(* years rounds down, as the correction of the remainder in secs_to_tm does. *)
LEMMA FourCenturies ==
  ASSUME NEW n \in Int
  PROVE  /\ n \div 146097 \in Int
         /\ n % 146097 \in Nat
         /\ n % 146097 < 146097
         /\ n = 146097 * (n \div 146097) + (n % 146097)
<1>1. n \div 146097 \in Int /\ n % 146097 \in Nat
  OBVIOUS
<1>2. n % 146097 < 146097
  OBVIOUS
<1>3. n = 146097 * (n \div 146097) + (n % 146097)
  OBVIOUS
<1> QED BY <1>1, <1>2, <1>3

(* The first of January 2000 plus that many cycles, the first of January   *)
(* of a leap year if c and q and r are 0.                                  *)
YearAfter(qc, c, q, r) == 2000 + 400 * qc + 100 * c + 4 * q + r
DayAfter(qc, c, q, r) == 10957 + 146097 * qc + 36524 * c + 1461 * q + 365 * r

(* The leap days between the first of January of 2000 and that of a year   *)
(* that is n years after the March year.                                   *)
LEMMA Januaries ==
  ASSUME NEW qc \in Int, NEW c \in 0 .. 3, NEW q \in 0 .. 24, NEW r \in 0 .. 3
  PROVE  /\ DaysBefore(YearAfter(qc, c, q, r)) =
              IF r > 0 \/ (q = 0 /\ c > 0) THEN DayAfter(qc, c, q, r) + 1
                                         ELSE DayAfter(qc, c, q, r)
         /\ DaysBefore(YearAfter(qc, c, q, r) + 1) = DayAfter(qc, c, q, r) + 366
         /\ DaysBefore(YearAfter(qc, c, q, r) + 2) =
              IF r = 3 /\ (q < 24 \/ c = 3) THEN DayAfter(qc, c, q, r) + 732
                                          ELSE DayAfter(qc, c, q, r) + 731
<1> DEFINE years == 400 * qc + 100 * c + 4 * q + r
<1>1. /\ (1999 + years) \div 4 = 499 + 100 * qc + 25 * c + q + (IF r > 0 THEN 1 ELSE 0)
      /\ (2000 + years) \div 4 = 500 + 100 * qc + 25 * c + q
      /\ (2001 + years) \div 4 = 500 + 100 * qc + 25 * c + q + (IF r = 3 THEN 1 ELSE 0)
  OBVIOUS
<1>2. /\ (1999 + years) \div 100 = 19 + 4 * qc + c + (IF q + r > 0 THEN 1 ELSE 0)
      /\ (2000 + years) \div 100 = 20 + 4 * qc + c
      /\ (2001 + years) \div 100 =
           20 + 4 * qc + c + (IF q = 24 /\ r = 3 THEN 1 ELSE 0)
  OBVIOUS
<1>3. /\ (1999 + years) \div 400 = 4 + qc + (IF c + q + r > 0 THEN 1 ELSE 0)
      /\ (2000 + years) \div 400 = 5 + qc
      /\ (2001 + years) \div 400 =
           5 + qc + (IF c = 3 /\ q = 24 /\ r = 3 THEN 1 ELSE 0)
  OBVIOUS
<1>4. years \in Int
  OBVIOUS
<1> HIDE DEF years
<1>5. DaysBefore(2000 + years) =
        365 * (30 + years) + ((1999 + years) \div 4) - ((1999 + years) \div 100)
          + ((1999 + years) \div 400) - 477
  <2>1. (2000 + years) - 1970 = 30 + years /\ (2000 + years) - 1 = 1999 + years
    BY <1>4
  <2> QED BY <2>1 DEF DaysBefore
<1>6. /\ DaysBefore(2001 + years) =
          365 * (31 + years) + ((2000 + years) \div 4) - ((2000 + years) \div 100)
            + ((2000 + years) \div 400) - 477
      /\ DaysBefore(2002 + years) =
          365 * (32 + years) + ((2001 + years) \div 4) - ((2001 + years) \div 100)
            + ((2001 + years) \div 400) - 477
  <2>1. /\ (2001 + years) - 1970 = 31 + years /\ (2001 + years) - 1 = 2000 + years
        /\ (2002 + years) - 1970 = 32 + years /\ (2002 + years) - 1 = 2001 + years
    BY <1>4
  <2> QED BY <2>1 DEF DaysBefore
<1>7. years = 400 * qc + 100 * c + 4 * q + r
  BY DEF years
<1>8. DaysBefore(2000 + years) =
        IF r > 0 \/ (q = 0 /\ c > 0)
          THEN 10958 + 146097 * qc + 36524 * c + 1461 * q + 365 * r
          ELSE 10957 + 146097 * qc + 36524 * c + 1461 * q + 365 * r
  BY <1>1, <1>2, <1>3, <1>5, <1>6, <1>7
<1>9. DaysBefore(2001 + years) = 11323 + 146097 * qc + 36524 * c + 1461 * q + 365 * r
  BY <1>1, <1>2, <1>3, <1>5, <1>6, <1>7
<1>10. DaysBefore(2002 + years) =
        IF r = 3 /\ (q < 24 \/ c = 3)
          THEN 11689 + 146097 * qc + 36524 * c + 1461 * q + 365 * r
          ELSE 11688 + 146097 * qc + 36524 * c + 1461 * q + 365 * r
  BY <1>1, <1>2, <1>3, <1>5, <1>6, <1>7
<1>11. /\ YearAfter(qc, c, q, r) = 2000 + years
       /\ YearAfter(qc, c, q, r) + 1 = 2001 + years
       /\ YearAfter(qc, c, q, r) + 2 = 2002 + years
  BY <1>4, <1>7 DEF YearAfter
<1>12. /\ DayAfter(qc, c, q, r) + 1 = 10958 + 146097 * qc + 36524 * c + 1461 * q + 365 * r
       /\ DayAfter(qc, c, q, r) + 366 = 11323 + 146097 * qc + 36524 * c + 1461 * q + 365 * r
       /\ DayAfter(qc, c, q, r) + 731 = 11688 + 146097 * qc + 36524 * c + 1461 * q + 365 * r
       /\ DayAfter(qc, c, q, r) + 732 = 11689 + 146097 * qc + 36524 * c + 1461 * q + 365 * r
  BY DEF DayAfter
<1> QED BY <1>8, <1>9, <1>10, <1>11, <1>12 DEF DayAfter

(* secs_to_tm finds a year by cutting the days since 2000-03-01 into       *)
(* cycles of 400, 100, 4 and 1 years. It is the year of the Gregorian      *)
(* calendar that the day is in, for days before 1970 too.                  *)
THEOREM YearIsTheCalendars ==
  ASSUME NEW day \in Int
  PROVE  /\ DaysBefore(YearOfDay(day)) <= day
         /\ day < DaysBefore(YearOfDay(day) + 1)
<1> DEFINE days     == day - 11017
           qc       == days \div 146097
           in400    == days % 146097
           c        == Smaller(in400 \div 36524, 3)
           in100    == in400 - 36524 * c
           q        == Smaller(in100 \div 1461, 24)
           in4      == in100 - 1461 * q
           r        == Smaller(in4 \div 365, 3)
           remdays  == in4 - 365 * r
           january  == IF remdays >= 306 THEN 1 ELSE 0
<1>1. YearOfDay(day) = YearAfter(qc, c, q, r) + january
  BY DEF YearOfDay, YearAfter
<1>2. january = IF remdays >= 306 THEN 1 ELSE 0
  OBVIOUS
<1> HIDE DEF january
<1>3. remdays = in4 - 365 * r
  OBVIOUS
<1> HIDE DEF remdays
<1>4. in4 \in Nat => r \in 0 .. 3 /\ 0 <= in4 - 365 * r /\ (r < 3 => in4 - 365 * r < 365)
  BY Cycles
<1> HIDE DEF r
<1>5. in4 = in100 - 1461 * q
  OBVIOUS
<1> HIDE DEF in4
<1>6. in100 \in Nat =>
        q \in 0 .. 24 /\ 0 <= in100 - 1461 * q /\ (q < 24 => in100 - 1461 * q < 1461)
  BY Cycles
<1> HIDE DEF q
<1>7. in100 = in400 - 36524 * c
  OBVIOUS
<1> HIDE DEF in100
<1>8. in400 \in Nat =>
        c \in 0 .. 3 /\ 0 <= in400 - 36524 * c /\ (c < 3 => in400 - 36524 * c < 36524)
  BY Cycles
<1> HIDE DEF c
<1>9. days \in Int /\ days = day - 11017
  OBVIOUS
<1> HIDE DEF days
<1>10. qc \in Int /\ in400 \in Nat /\ in400 < 146097 /\ days = 146097 * qc + in400
  BY <1>9, FourCenturies
<1> HIDE DEF qc, in400
<1>11. c \in 0 .. 3 /\ in100 \in Nat /\ in100 <= 36524 /\ (c < 3 => in100 < 36524)
  BY <1>7, <1>8, <1>10
<1>12. q \in 0 .. 24 /\ in4 \in Nat /\ in4 <= 1460 /\ (q = 24 /\ c < 3 => in4 < 1460)
  BY <1>5, <1>6, <1>11
<1>13. /\ r \in 0 .. 3 /\ remdays \in 0 .. 365
       /\ remdays = 365 => r = 3 /\ (q < 24 \/ c = 3)
  BY <1>3, <1>4, <1>11, <1>12
<1>14. day = DayAfter(qc, c, q, r) + 60 + remdays
  <2>1. in100 = 1461 * q + 365 * r + remdays
    BY <1>3, <1>5, <1>11, <1>12, <1>13
  <2>2. days = 146097 * qc + 36524 * c + in100
    BY <1>7, <1>10, <1>11
  <2> QED BY <1>9, <1>10, <1>11, <1>12, <1>13, <2>1, <2>2 DEF DayAfter
<1> DEFINE march == YearAfter(qc, c, q, r)
           start == DayAfter(qc, c, q, r)
<1>15. /\ DaysBefore(march) = IF r > 0 \/ (q = 0 /\ c > 0) THEN start + 1 ELSE start
       /\ DaysBefore(march + 1) = start + 366
       /\ DaysBefore(march + 2) =
            IF r = 3 /\ (q < 24 \/ c = 3) THEN start + 732 ELSE start + 731
  BY <1>10, <1>11, <1>12, <1>13, Januaries, SMTT(30)
<1>16. march \in Int /\ start \in Int
  BY <1>10, <1>11, <1>12, <1>13 DEF YearAfter, DayAfter
<1>17. YearOfDay(day) = march + january /\ day = start + 60 + remdays
  BY <1>1, <1>14
<1> HIDE DEF march, start
<1>18. CASE remdays >= 306
  <2>1. YearOfDay(day) = march + 1 /\ YearOfDay(day) + 1 = march + 2
    BY <1>2, <1>16, <1>17, <1>18
  <2> QED BY <1>13, <1>15, <1>16, <1>17, <1>18, <2>1
<1>19. CASE ~ (remdays >= 306)
  <2>1. YearOfDay(day) = march /\ YearOfDay(day) + 1 = march + 1
    BY <1>2, <1>16, <1>17, <1>19
  <2> QED BY <1>13, <1>15, <1>16, <1>17, <1>19, <2>1
<1> QED BY <1>18, <1>19

(* ... and a year.                                                         *)
LEMMA YearInt ==
  ASSUME NEW day \in Int
  PROVE  YearOfDay(day) \in Int
BY DEF YearOfDay, Smaller

LEMMA YearAgrees ==
  ASSUME NEW a, NEW sa, Agree(a, sa), Year(a).type # "throws"
  PROVE  Agree(Year(a), Year(sa))
<1>1. /\ IsField(a) /\ IsField(sa)
      /\ a.type = sa.type /\ a.is_null = sa.is_null /\ (~ a.is_null => a = sa)
  BY AgreeFacts
<1>2. a.type = "DateField"
  BY ThrowsIsNoField DEF Year
<1>3. a.is_null \in BOOLEAN /\ a.value \in Int
  BY <1>1, <1>2, FieldFacts
<1>4. CASE a.is_null
  <2>1. Year(a) = IntegerField(TRUE, 0) /\ Year(sa) = IntegerField(TRUE, 0)
    BY <1>1, <1>2, <1>3, <1>4 DEF Year
  <2>2. IsField(IntegerField(TRUE, 0))
    <3>1. TRUE \in BOOLEAN /\ 0 \in Int
      OBVIOUS
    <3> QED BY <3>1, MadeFields, Zenon
  <2> QED BY <2>1, <2>2, EqualAgree
<1>5. CASE ~ a.is_null
  <2>1. Year(a) = IntegerField(FALSE, YearOfDay(a.value)) /\ Year(sa) = Year(a)
    BY <1>1, <1>2, <1>3, <1>5 DEF Year
  <2>2. YearOfDay(a.value) \in Int
    BY <1>3, YearInt
  <2>3. IsField(IntegerField(FALSE, YearOfDay(a.value)))
    BY <2>2, MadeFields
  <2> QED BY <2>1, <2>3, EqualAgree
<1> QED BY <1>4, <1>5

LEMMA IfAgrees ==
  ASSUME NEW a, NEW b, NEW d, NEW sa, NEW sb, NEW sd,
         Agree(a, sa), Agree(b, sb), Agree(d, sd),
         If(a, b, d).type # "throws", ~ sa.is_null
  PROVE  Agree(If(a, b, d), IF ~ sa.is_null /\ sa.value THEN sb ELSE sd)
<1>1. a = sa /\ ~ a.is_null
  BY AgreeFacts
<1>2. If(a, b, d) = IF a.value THEN b ELSE d
  BY <1>1, ThrowsIsNoField DEF If
<1> QED BY <1>1, <1>2

---------------------------------------------------------------------------
(* What a less-than or an equality gives is a Boolean.                     *)
LEMMA ComparedBoolean ==
  ASSUME NEW a, NEW b
  PROVE  /\ Less(a, b) \in BOOLEAN
         /\ LessOrEqual(a, b) \in BOOLEAN
         /\ Equal(a, b) \in BOOLEAN
<1>1. StringLess(a.value, b.value) \in BOOLEAN
  BY DEF StringLess
<1>2. (a.value < b.value) \in BOOLEAN
  OBVIOUS
<1>3. Less(a, b) \in BOOLEAN
  BY <1>1, <1>2 DEF Less
<1>4. Equal(a, b) \in BOOLEAN
  BY DEF Equal
<1> QED BY <1>3, <1>4 DEF LessOrEqual

(* A node as it is: its operator and its arguments.                        *)
NodeOver(e, row, n) ==
  /\ n \in 0 .. 3
  /\ e.op \in OperatorsOn(n)
  /\ e.op = "Literal" => IsField(e.value)
  /\ e.op = "Col" => IsField(row[e.col_num])

(* An operator on fields of any types gives what Spark gives, if it gives  *)
(* anything: it throws, or it is one of the three departures (Departs), or *)
(* type, null flag and value are Spark's. This is so as well where the two *)
(* work on nulls that carry different values along.                        *)
THEOREM NodesAgreeWithSpark ==
  ASSUME NEW e, NEW row, NEW n, NodeOver(e, row, n), NEW args, NEW sargs,
         \A i \in 1 .. n : Agree(args[i], sargs[i]),
         EvalNode(e, row, args).type # "throws",
         ~ Departs(e, sargs)
  PROVE  Agree(EvalNode(e, row, args), SparkNode(e, row, sargs))
<1>1. /\ OperatorsOn(0) = {"Col", "Literal"}
      /\ OperatorsOn(1) = {"Cast", "Not", "IsNull", "Year"}
      /\ OperatorsOn(2) = {"Add", "Subtract", "Multiply", "And", "Or", "LessThan",
                           "LessThanOrEqual", "GreaterThan", "GreaterThanOrEqual", "EqualTo",
                           "Contains"}
      /\ OperatorsOn(3) = {"Substring", "If"}
  BY DEF OperatorsOn
<1>2. n = 0 \/ n = 1 \/ n = 2 \/ n = 3
  BY DEF NodeOver
<1>3. CASE n = 0
  <2>1. CASE e.op = "Col"
    <3>1. EvalNode(e, row, args) = row[e.col_num] /\ SparkNode(e, row, sargs) = row[e.col_num]
      BY <2>1 DEF EvalNode, SparkNode
    <3> QED BY <2>1, <3>1, EqualAgree DEF NodeOver
  <2>2. CASE e.op = "Literal"
    <3>1. EvalNode(e, row, args) = e.value /\ SparkNode(e, row, sargs) = e.value
      BY <2>2 DEF EvalNode, SparkNode
    <3> QED BY <2>2, <3>1, EqualAgree DEF NodeOver
  <2> QED BY <1>1, <1>3, <2>1, <2>2 DEF NodeOver
<1>4. CASE n = 1
  <2> DEFINE a == args[1]  sa == sargs[1]
  <2>1. Agree(a, sa)
    BY <1>4
  <2>2. CASE e.op = "Cast"
    <3>1. /\ EvalNode(e, row, args) = Cast(a, e.target_type)
          /\ SparkNode(e, row, sargs) = SparkCast(sa, e.target_type)
      BY <2>2 DEF EvalNode, SparkNode
    <3>2. ~ (sa.type = "StringField" /\ ~ sa.is_null /\ ~ CleanNumber(sa.value, e.target_type))
      BY <2>2 DEF Departs
    <3> HIDE DEF a, sa
    <3> QED BY <2>1, <3>1, <3>2, CastAgrees
  <2>3. CASE e.op = "Not"
    <3>1. EvalNode(e, row, args) = Not(a) /\ SparkNode(e, row, sargs) = OfTruth(2 - Truth(sa))
      BY <2>3 DEF EvalNode, SparkNode
    <3> HIDE DEF a, sa
    <3> QED BY <2>1, <3>1, LogicAgrees
  <2>4. CASE e.op = "IsNull"
    <3>1. EvalNode(e, row, args) = IsNull(a) /\ SparkNode(e, row, sargs) = IsNull(sa)
      BY <2>4 DEF EvalNode, SparkNode
    <3> HIDE DEF a, sa
    <3>2. IsField(a) /\ a.is_null = sa.is_null
      BY <2>1, AgreeFacts
    <3>3. a.is_null \in BOOLEAN
      BY <3>2, FieldFacts
    <3>4. IsField(IsNull(a)) /\ IsNull(sa) = IsNull(a)
      BY <3>2, <3>3, MadeFields DEF IsNull
    <3> QED BY <3>1, <3>4, EqualAgree
  <2>5. CASE e.op = "Year"
    <3>1. EvalNode(e, row, args) = Year(a) /\ SparkNode(e, row, sargs) = Year(sa)
      BY <2>5 DEF EvalNode, SparkNode
    <3> HIDE DEF a, sa
    <3> QED BY <2>1, <3>1, YearAgrees
  <2> QED BY <1>1, <1>4, <2>2, <2>3, <2>4, <2>5 DEF NodeOver
<1>5. CASE n = 2
  <2> DEFINE a == args[1]  sa == sargs[1]
             b == args[2]  sb == sargs[2]
  <2>1. Agree(a, sa) /\ Agree(b, sb)
    BY <1>5
  <2>2. CASE e.op = "Add"
    <3>1. /\ EvalNode(e, row, args) = Arithmetic(a, b, a.value + b.value)
          /\ SparkNode(e, row, sargs) = Arithmetic(sa, sb, sa.value + sb.value)
      BY <2>2 DEF EvalNode, SparkNode
    <3> HIDE DEF a, sa, b, sb
    <3>2. /\ a.value \in Int /\ b.value \in Int => a.value + b.value \in Int
          /\ sa.value \in Int /\ sb.value \in Int => sa.value + sb.value \in Int
      OBVIOUS
    <3> QED BY <2>1, <3>1, <3>2, ArithmeticAgrees
  <2>3. CASE e.op = "Subtract"
    <3>1. /\ EvalNode(e, row, args) = Arithmetic(a, b, a.value - b.value)
          /\ SparkNode(e, row, sargs) = Arithmetic(sa, sb, sa.value - sb.value)
      BY <2>3 DEF EvalNode, SparkNode
    <3> HIDE DEF a, sa, b, sb
    <3>2. /\ a.value \in Int /\ b.value \in Int => a.value - b.value \in Int
          /\ sa.value \in Int /\ sb.value \in Int => sa.value - sb.value \in Int
      OBVIOUS
    <3> QED BY <2>1, <3>1, <3>2, ArithmeticAgrees
  <2>4. CASE e.op = "Multiply"
    <3>1. /\ EvalNode(e, row, args) = Arithmetic(a, b, a.value * b.value)
          /\ SparkNode(e, row, sargs) = Arithmetic(sa, sb, sa.value * sb.value)
      BY <2>4 DEF EvalNode, SparkNode
    <3> HIDE DEF a, sa, b, sb
    <3>2. /\ a.value \in Int /\ b.value \in Int => a.value * b.value \in Int
          /\ sa.value \in Int /\ sb.value \in Int => sa.value * sb.value \in Int
      OBVIOUS
    <3> QED BY <2>1, <3>1, <3>2, ArithmeticAgrees
  <2>5. CASE e.op = "And"
    <3>1. /\ EvalNode(e, row, args) = And(a, b)
          /\ SparkNode(e, row, sargs) = OfTruth(Smaller(Truth(sa), Truth(sb)))
      BY <2>5 DEF EvalNode, SparkNode
    <3> HIDE DEF a, sa, b, sb
    <3> QED BY <2>1, <3>1, LogicAgrees
  <2>6. CASE e.op = "Or"
    <3>1. /\ EvalNode(e, row, args) = Or(a, b)
          /\ SparkNode(e, row, sargs) = OfTruth(Larger(Truth(sa), Truth(sb)))
      BY <2>6 DEF EvalNode, SparkNode
    <3> HIDE DEF a, sa, b, sb
    <3> QED BY <2>1, <3>1, LogicAgrees
  <2>7. CASE e.op \in {"LessThan", "LessThanOrEqual", "GreaterThan", "GreaterThanOrEqual",
                       "EqualTo"}
    <3>1. PICK value \in BOOLEAN, svalue \in BOOLEAN :
            /\ EvalNode(e, row, args) = Comparison(a, b, value)
            /\ SparkNode(e, row, sargs) = SparkComparison(sa, sb, svalue)
            /\ a = sa /\ b = sb => value = svalue
      <4> HIDE DEF a, sa, b, sb
      <4>1. CASE e.op = "LessThan"
        <5>1. /\ EvalNode(e, row, args) = Comparison(a, b, Less(a, b))
              /\ SparkNode(e, row, sargs) = SparkComparison(sa, sb, Less(sa, sb))
          BY <4>1 DEF EvalNode, SparkNode, a, b, sa, sb
        <5> QED BY <5>1, ComparedBoolean
      <4>2. CASE e.op = "LessThanOrEqual"
        <5>1. /\ EvalNode(e, row, args) = Comparison(a, b, LessOrEqual(a, b))
              /\ SparkNode(e, row, sargs) = SparkComparison(sa, sb, LessOrEqual(sa, sb))
          BY <4>2 DEF EvalNode, SparkNode, a, b, sa, sb
        <5> QED BY <5>1, ComparedBoolean
      <4>3. CASE e.op = "GreaterThan"
        <5>1. /\ EvalNode(e, row, args) = Comparison(a, b, Less(b, a))
              /\ SparkNode(e, row, sargs) = SparkComparison(sa, sb, Less(sb, sa))
          BY <4>3 DEF EvalNode, SparkNode, a, b, sa, sb
        <5> QED BY <5>1, ComparedBoolean
      <4>4. CASE e.op = "GreaterThanOrEqual"
        <5>1. /\ EvalNode(e, row, args) = Comparison(a, b, LessOrEqual(b, a))
              /\ SparkNode(e, row, sargs) = SparkComparison(sa, sb, LessOrEqual(sb, sa))
          BY <4>4 DEF EvalNode, SparkNode, a, b, sa, sb
        <5> QED BY <5>1, ComparedBoolean
      <4>5. CASE e.op = "EqualTo"
        <5>1. /\ EvalNode(e, row, args) = Comparison(a, b, Equal(a, b))
              /\ SparkNode(e, row, sargs) = SparkComparison(sa, sb, Equal(sa, sb))
          BY <4>5 DEF EvalNode, SparkNode, a, b, sa, sb
        <5> QED BY <5>1, ComparedBoolean
      <4> QED BY <2>7, <4>1, <4>2, <4>3, <4>4, <4>5
    <3> HIDE DEF a, sa, b, sb
    <3> QED BY <2>1, <3>1, ComparisonAgrees
  <2>8. CASE e.op = "Contains"
    <3>1. /\ EvalNode(e, row, args) = ContainsString(a, b)
          /\ SparkNode(e, row, sargs) =
               IF sa.is_null \/ sb.is_null THEN BooleanField(TRUE, FALSE)
               ELSE BooleanField(FALSE, Occurs(sb.value, sa.value))
      BY <2>8 DEF EvalNode, SparkNode
    <3>2. ~ (~ sb.is_null /\ sb.value = <<>>)
      BY <2>8 DEF Departs
    <3> HIDE DEF a, sa, b, sb
    <3> QED BY <2>1, <3>1, <3>2, ContainsAgrees
  <2> QED BY <1>1, <1>5, <2>2, <2>3, <2>4, <2>5, <2>6, <2>7, <2>8 DEF NodeOver
<1>6. CASE n = 3
  <2> DEFINE a == args[1]  sa == sargs[1]
             b == args[2]  sb == sargs[2]
             d == args[3]  sd == sargs[3]
  <2>1. Agree(a, sa) /\ Agree(b, sb) /\ Agree(d, sd)
    BY <1>6
  <2>2. CASE e.op = "Substring"
    <3>1. /\ EvalNode(e, row, args) = Substring(a, b, d)
          /\ SparkNode(e, row, sargs) = SparkSubstring(sa, sb, sd)
      BY <2>2 DEF EvalNode, SparkNode
    <3> HIDE DEF a, sa, b, sb, d, sd
    <3> QED BY <2>1, <3>1, SubstringAgrees
  <2>3. CASE e.op = "If"
    <3>1. /\ EvalNode(e, row, args) = If(a, b, d)
          /\ SparkNode(e, row, sargs) = IF ~ sa.is_null /\ sa.value THEN sb ELSE sd
      BY <2>3 DEF EvalNode, SparkNode
    <3>2. ~ sa.is_null
      BY <2>3 DEF Departs
    <3> HIDE DEF a, sa, b, sb, d, sd
    <3> QED BY <2>1, <3>1, <3>2, IfAgrees
  <2> QED BY <1>1, <1>6, <2>2, <2>3 DEF NodeOver
<1> QED BY <1>2, <1>3, <1>4, <1>5, <1>6


---------------------------------------------------------------------------
LEMMA CastGivesField ==
  ASSUME NEW a, NEW type, IsField(a), a.type = "StringField", ~ a.is_null,
         Cast(a, type).type # "throws"
  PROVE  IsField(Cast(a, type))
<1>1. a.value \in Seq(Nat)
  BY FieldFacts
<1> DEFINE s == SkipWhitespace(a.value)
           n == Leading(Unsigned(s), Digits)
<1>2. Signed(s, n) \in Int
  <2>1. Leading(a.value, Whitespace) \in 0 .. Len(a.value)
    BY <1>1, LeadingCount
  <2>2. s \in Seq(Nat)
    BY <1>1, <2>1 DEF SkipWhitespace
  <2> HIDE DEF s
  <2>3. Unsigned(s) \in Seq(Nat) /\ n \in 0 .. Len(Unsigned(s))
    BY <2>2, SignedInt, LeadingCount
  <2> QED BY <2>2, <2>3, SignedInt
<1>3. Cast(a, type) = Store(FALSE, Signed(s, n), type)
  BY ThrowsIsNoField DEF Cast, CastFromString
<1> QED BY <1>2, <1>3, StoreFacts

LEMMA ContainsGivesField ==
  ASSUME NEW a, NEW b, ContainsString(a, b).type # "throws"
  PROVE  IsField(ContainsString(a, b))
<1>1. (b.value # <<>> /\ Occurs(b.value, a.value)) \in BOOLEAN
  BY DEF Occurs
<1>2. /\ IsField(BooleanField(TRUE, FALSE))
      /\ IsField(BooleanField(FALSE, b.value # <<>> /\ Occurs(b.value, a.value)))
  BY <1>1, MadeFields
<1> QED BY <1>2, ThrowsIsNoField DEF ContainsString

LEMMA IfGivesField ==
  ASSUME NEW a, NEW b, NEW d, IsField(b), IsField(d), If(a, b, d).type # "throws"
  PROVE  IsField(If(a, b, d))
<1>1. IsField([b EXCEPT !.is_null = TRUE])
  <2>1. b \in [type : {b.type}, is_null : BOOLEAN, value : ValuesOf(b.type)]
    BY DEF IsField
  <2>2. /\ [b EXCEPT !.is_null = TRUE].type = b.type
        /\ [b EXCEPT !.is_null = TRUE]
             \in [type : {b.type}, is_null : BOOLEAN, value : ValuesOf(b.type)]
    BY <2>1
  <2> QED BY <2>2 DEF IsField
<1>2. \/ If(a, b, d) = [b EXCEPT !.is_null = TRUE]
      \/ If(a, b, d) = b
      \/ If(a, b, d) = d
  BY ThrowsIsNoField DEF If
<1> QED BY <1>1, <1>2

(* Agreement or not, on fields a node that does not throw gives a field.   *)
LEMMA NodesGiveFields ==
  ASSUME NEW e, NEW row, NEW n, NodeOver(e, row, n), NEW args,
         \A i \in 1 .. n : IsField(args[i]),
         EvalNode(e, row, args).type # "throws"
  PROVE  IsField(EvalNode(e, row, args))
<1>1. CASE ~ Departs(e, args)
  <2>1. \A i \in 1 .. n : Agree(args[i], args[i])
    BY EqualAgree
  <2>2. Agree(EvalNode(e, row, args), SparkNode(e, row, args))
    BY <1>1, <2>1, NodesAgreeWithSpark
  <2> QED BY <2>2, AgreeFacts
<1>2. CASE Departs(e, args)
  <2>1. e.op \in {"Cast", "If", "Contains"}
    BY <1>2 DEF Departs
  <2>2. CASE e.op = "Cast"
    <3>1. n = 1 /\ EvalNode(e, row, args) = Cast(args[1], e.target_type)
      BY <2>2 DEF EvalNode, NodeOver, OperatorsOn
    <3>2. IsField(args[1])
      BY <3>1
    <3>3. args[1].type = "StringField" /\ ~ args[1].is_null
      BY <1>2, <2>2 DEF Departs
    <3> QED BY <3>1, <3>2, <3>3, CastGivesField
  <2>3. CASE e.op = "If"
    <3>1. n = 3 /\ EvalNode(e, row, args) = If(args[1], args[2], args[3])
      BY <2>3 DEF EvalNode, NodeOver, OperatorsOn
    <3>2. IsField(args[2]) /\ IsField(args[3])
      BY <3>1
    <3> QED BY <3>1, <3>2, IfGivesField
  <2>4. CASE e.op = "Contains"
    <3>1. EvalNode(e, row, args) = ContainsString(args[1], args[2])
      BY <2>4 DEF EvalNode
    <3> QED BY <3>1, ContainsGivesField
  <2> QED BY <2>1, <2>2, <2>3, <2>4
<1> QED BY <1>1, <1>2

(* Without agreement the enclave's operators give fields or throw one of   *)
(* the two classes of exceptions.                                          *)
Outcome(f) == IsField(f) \/ f \in {Throws("runtime_error"), Throws("logic_error")}

LEMMA NodesGive ==
  ASSUME NEW e, NEW row, NEW n, NodeOver(e, row, n), NEW args,
         \A i \in 1 .. n : IsField(args[i])
  PROVE  Outcome(EvalNode(e, row, args))
<1>1. CASE EvalNode(e, row, args).type = "throws"
  <2>0. \A f : f.type = "throws" => ~ IsField(f)
    BY FieldFacts
  <2>1. /\ \A null, v : /\ BooleanField(null, v).type # "throws"
                        /\ IntegerField(null, v).type # "throws"
                        /\ LongField(null, v).type # "throws"
                        /\ StringField(null, v).type # "throws"
        /\ \A null, v, type : Store(null, v, type).type # "throws"
    BY DEF BooleanField, IntegerField, LongField, StringField, Store, Field
  <2>2. e.op \in OperatorsOn(n) /\ (n = 0 \/ n = 1 \/ n = 2 \/ n = 3)
    BY DEF NodeOver
  <2>3. CASE n = 0
    <3>1. e.op \in {"Col", "Literal"}
      BY <2>2, <2>3 DEF OperatorsOn
    <3>2. IsField(EvalNode(e, row, args))
      BY <3>1 DEF EvalNode, NodeOver
    <3> QED BY <1>1, <2>0, <3>2
  <2>4. CASE n = 1
    <3>1. e.op \in {"Cast", "Not", "IsNull", "Year"}
      BY <2>2, <2>4 DEF OperatorsOn
    <3>2. \/ EvalNode(e, row, args) = Cast(args[1], e.target_type)
          \/ EvalNode(e, row, args) = Not(args[1])
          \/ EvalNode(e, row, args) = IsNull(args[1])
          \/ EvalNode(e, row, args) = Year(args[1])
      BY <3>1 DEF EvalNode
    <3>3. \A f, type : Cast(f, type).type = "throws" => Outcome(Cast(f, type))
      BY <2>1 DEF Cast, CastFromString, Outcome
    <3>4. \A f : /\ Not(f).type = "throws" => Outcome(Not(f))
                 /\ IsNull(f).type = "throws" => Outcome(IsNull(f))
                 /\ Year(f).type = "throws" => Outcome(Year(f))
      BY <2>1 DEF Not, IsNull, Year, Outcome
    <3> QED BY <1>1, <3>2, <3>3, <3>4
  <2>5. CASE n = 2
    <3>1. e.op \in {"Add", "Subtract", "Multiply", "And", "Or", "LessThan", "LessThanOrEqual",
                    "GreaterThan", "GreaterThanOrEqual", "EqualTo", "Contains"}
      BY <2>2, <2>5 DEF OperatorsOn
    <3>2. \/ \E value : EvalNode(e, row, args) = Arithmetic(args[1], args[2], value)
          \/ \E value : EvalNode(e, row, args) = Comparison(args[1], args[2], value)
          \/ EvalNode(e, row, args) = And(args[1], args[2])
          \/ EvalNode(e, row, args) = Or(args[1], args[2])
          \/ EvalNode(e, row, args) = ContainsString(args[1], args[2])
      BY <3>1 DEF EvalNode
    <3>3. \A f, g, value :
            /\ Arithmetic(f, g, value).type = "throws" => Outcome(Arithmetic(f, g, value))
            /\ Comparison(f, g, value).type = "throws" => Outcome(Comparison(f, g, value))
      <4> TAKE f, g, value
      <4>1. \/ Arithmetic(f, g, value) = Throws("runtime_error")
            \/ Arithmetic(f, g, value) =
                 IntegerField(f.is_null \/ g.is_null, Wrap(IntegerMax, value))
            \/ Arithmetic(f, g, value) =
                 LongField(f.is_null \/ g.is_null, Wrap(LongMax, value))
        BY DEF Arithmetic
      <4>2. \/ Comparison(f, g, value) = Throws("runtime_error")
            \/ Comparison(f, g, value) = BooleanField(TRUE, FALSE)
            \/ Comparison(f, g, value) = BooleanField(FALSE, value)
        BY DEF Comparison
      <4> QED BY <2>1, <4>1, <4>2, Zenon DEF Outcome
    <3>4. \A f, g :
            /\ And(f, g).type = "throws" => Outcome(And(f, g))
            /\ Or(f, g).type = "throws" => Outcome(Or(f, g))
            /\ ContainsString(f, g).type = "throws" => Outcome(ContainsString(f, g))
      BY <2>1 DEF And, Or, ContainsString, Outcome
    <3> QED BY <1>1, <3>2, <3>3, <3>4
  <2>6. CASE n = 3
    <3>1. e.op \in {"Substring", "If"}
      BY <2>2, <2>6 DEF OperatorsOn
    <3>2. \/ EvalNode(e, row, args) = Substring(args[1], args[2], args[3])
          \/ EvalNode(e, row, args) = If(args[1], args[2], args[3])
      BY <3>1 DEF EvalNode
    <3>3. \A f, g, h : Substring(f, g, h).type = "throws" => Outcome(Substring(f, g, h))
      <4> TAKE f, g, h
      <4>1. \/ Substring(f, g, h) = Throws("runtime_error")
            \/ Substring(f, g, h) = StringField(TRUE, <<>>)
            \/ \E s : Substring(f, g, h) = StringField(FALSE, s)
        BY DEF Substring
      <4> QED BY <2>1, <4>1, Zenon DEF Outcome
    <3>4. IsField(args[2]) /\ IsField(args[3])
      BY <2>6
    <3>5. \A f, g, h : IsField(g) /\ IsField(h) /\ If(f, g, h).type = "throws"
                         => Outcome(If(f, g, h))
      <4> TAKE f, g, h
      <4>1. IsField(g) => [g EXCEPT !.is_null = TRUE].type = g.type
        BY DEF IsField
      <4>2. /\ IsField(g) => g.type # "throws"
            /\ IsField(h) => h.type # "throws"
        BY FieldFacts
      <4> QED BY <4>1, <4>2 DEF If, Outcome
    <3> QED BY <1>1, <3>2, <3>3, <3>4, <3>5
  <2> QED BY <2>2, <2>3, <2>4, <2>5, <2>6
<1>2. CASE EvalNode(e, row, args).type # "throws"
  <2> QED BY <1>2, NodesGiveFields DEF Outcome
<1> QED BY <1>1, <1>2

---------------------------------------------------------------------------
(* The recursion over a tree. Three evaluations go through it: that of the *)
(* enclave, that of Spark, and whether the two agree so far.               *)

ArgsOf(Forms, f, n) == [i \in 1 .. Len(Forms[n].args) |-> f[Forms[n].args[i]]]

(* What a node gives once its arguments have been evaluated: the first of  *)
(* them that throws, or what its operator gives.                           *)
Thrown(m, args) == {i \in 1 .. m : args[i].type = "throws"}
FirstOf(m, args) == CHOOSE i \in Thrown(m, args) : \A j \in Thrown(m, args) : i <= j

EnclaveStep(e, row, m, args) ==
  IF Thrown(m, args) = {} THEN EvalNode(e, row, args) ELSE args[FirstOf(m, args)]

SparkStep(e, row, m, args) ==
  IF Thrown(m, args) = {} THEN SparkNode(e, row, args) ELSE args[FirstOf(m, args)]

AgreeStep(e, m, sargs, args) == (\A i \in 1 .. m : args[i]) /\ ~ Departs(e, sargs)

StepOf(evaluation, Forms, row, n, args) ==
  LET e == Forms[n]
      m == Len(e.args)
  IN  CASE evaluation = "enclave" -> EnclaveStep(e, row, m, args)
        [] evaluation = "spark"   -> SparkStep(e, row, m, args)
        [] evaluation = "agree"   ->
             AgreeStep(e, m, [i \in 1 .. m |-> SparkEval(Forms, row, e.args[i])], args)

(* The nodes up to m evaluated.                                            *)
Evaluated(evaluation, Forms, row, m, f) ==
  f = [n \in 1 .. m |-> StepOf(evaluation, Forms, row, n, ArgsOf(Forms, f, n))]

(* The arguments of a node come before it.                                 *)
LEMMA ArgsBefore ==
  ASSUME NEW Forms, NEW row, WellFormed(Forms, row), NEW n \in DOMAIN Forms
  PROVE  /\ Len(Forms[n].args) \in Nat
         /\ \A i \in 1 .. Len(Forms[n].args) :
              Forms[n].args[i] \in 1 .. n - 1 /\ Forms[n].args[i] \in DOMAIN Forms
<1>1. /\ Len(Forms) \in Nat /\ DOMAIN Forms = 1 .. Len(Forms)
      /\ Forms[n].args \in Seq(1 .. n - 1)
  BY DEF WellFormed
<1>2. \A D : \A s \in Seq(D) : Len(s) \in Nat /\ \A i \in 1 .. Len(s) : s[i] \in D
  OBVIOUS
<1>3. 1 .. n - 1 \subseteq DOMAIN Forms
  BY <1>1
<1> QED BY <1>1, <1>2, <1>3

(* Functions that give the same for what comes before give a node the same *)
(* arguments.                                                              *)
LEMMA SameArgs ==
  ASSUME NEW Forms, NEW row, WellFormed(Forms, row), NEW n \in DOMAIN Forms,
         NEW f, NEW g, \A j \in 1 .. n - 1 : f[j] = g[j]
  PROVE  ArgsOf(Forms, f, n) = ArgsOf(Forms, g, n)
<1>1. \A i \in 1 .. Len(Forms[n].args) : f[Forms[n].args[i]] = g[Forms[n].args[i]]
  BY ArgsBefore
<1> QED BY <1>1 DEF ArgsOf

LEMMA EvaluationExists ==
  ASSUME NEW evaluation, NEW Forms, NEW row, WellFormed(Forms, row),
         NEW m \in 0 .. Len(Forms)
  PROVE  \E f : Evaluated(evaluation, Forms, row, m, f)
<1> DEFINE Step(n, args) == StepOf(evaluation, Forms, row, n, args)
           S == {k \in 0 .. m : \E f : Evaluated(evaluation, Forms, row, k, f)}
<1>1. m \in Nat /\ \A n \in 1 .. m : n \in DOMAIN Forms
  BY DEF WellFormed
<1>2. 0 \in S
  <2>1. 1 .. 0 = {}
    OBVIOUS
  <2>2. Evaluated(evaluation, Forms, row, 0, <<>>)
    BY <2>1 DEF Evaluated
  <2> QED BY <1>1, <2>2
<1>3. ASSUME NEW k \in 1 .. m, k - 1 \in S PROVE k \in S
  <2>1. PICK f : Evaluated(evaluation, Forms, row, k - 1, f)
    BY <1>3
  <2> DEFINE g == [n \in 1 .. k |-> StepOf(evaluation, Forms, row, n, ArgsOf(Forms, f, n))]
  <2>2. ASSUME NEW n \in 1 .. k
        PROVE  ArgsOf(Forms, f, n) = ArgsOf(Forms, g, n)
    <3>1. \A j \in 1 .. n - 1 : j \in 1 .. k - 1 /\ j \in 1 .. k
      BY <1>1
    <3>2. \A j \in 1 .. k - 1 : f[j] = StepOf(evaluation, Forms, row, j, ArgsOf(Forms, f, j))
      BY <2>1, Zenon DEF Evaluated
    <3>3. \A j \in 1 .. k : g[j] = StepOf(evaluation, Forms, row, j, ArgsOf(Forms, f, j))
      OBVIOUS
    <3>4. \A j \in 1 .. n - 1 : f[j] = g[j]
      BY <3>1, <3>2, <3>3
    <3>5. n \in DOMAIN Forms
      BY <1>1
    <3> HIDE DEF g
    <3> QED BY <3>4, <3>5, SameArgs
  <2>3. Evaluated(evaluation, Forms, row, k, g)
    <3>1. g = [n \in 1 .. k |-> StepOf(evaluation, Forms, row, n, ArgsOf(Forms, f, n))]
      OBVIOUS
    <3> HIDE DEF g
    <3> QED BY <2>2, <3>1 DEF Evaluated
  <2>4. k \in 0 .. m
    BY <1>1
  <2> HIDE DEF g
  <2> QED BY <2>3, <2>4
<1>4. \A k \in 0 .. m : k \in S
  <2> HIDE DEF S
  <2> QED BY <1>1, <1>2, <1>3, SetInduction
<1>5. m \in 0 .. m
  BY <1>1
<1> QED BY <1>4, <1>5

LEMMA EvaluationsAgree ==
  ASSUME NEW evaluation, NEW Forms, NEW row, WellFormed(Forms, row),
         NEW m \in 0 .. Len(Forms), NEW k \in 0 .. m, NEW f, NEW g,
         Evaluated(evaluation, Forms, row, m, f),
         Evaluated(evaluation, Forms, row, k, g)
  PROVE  \A j \in 1 .. k : f[j] = g[j]
<1> DEFINE S == {i \in 0 .. k : \A j \in 1 .. i : f[j] = g[j]}
<1>1. /\ Len(Forms) \in Nat /\ DOMAIN Forms = 1 .. Len(Forms)
      /\ k \in Nat /\ \A n \in 1 .. k : n \in DOMAIN Forms /\ n \in 1 .. m
  BY DEF WellFormed
<1>2. 0 \in S
  BY <1>1
<1>3. ASSUME NEW i \in 1 .. k, i - 1 \in S PROVE i \in S
  <2>1. \A j \in 1 .. i - 1 : f[j] = g[j]
    BY <1>3
  <2>2. ArgsOf(Forms, f, i) = ArgsOf(Forms, g, i)
    BY <1>1, <2>1, SameArgs
  <2>3. f[i] = StepOf(evaluation, Forms, row, i, ArgsOf(Forms, f, i))
    BY <1>1, Zenon DEF Evaluated
  <2>4. g[i] = StepOf(evaluation, Forms, row, i, ArgsOf(Forms, g, i))
    BY Zenon DEF Evaluated
  <2>5. f[i] = g[i]
    BY <2>2, <2>3, <2>4
  <2>6. \A j \in 1 .. i : j = i \/ j \in 1 .. i - 1
    BY <1>1
  <2>7. i \in 0 .. k
    BY <1>1
  <2> QED BY <2>1, <2>5, <2>6, <2>7
<1>4. \A i \in 0 .. k : i \in S
  <2> HIDE DEF S
  <2> QED BY <1>1, <1>2, <1>3, SetInduction
<1>5. k \in S
  BY <1>1, <1>4
<1> QED BY <1>5

(* A tree is evaluated by one function for all of its nodes.               *)
LEMMA OneEvaluation ==
  ASSUME NEW evaluation, NEW Forms, NEW row, WellFormed(Forms, row),
         NEW result,
         \A expr \in DOMAIN Forms : \E g :
           Evaluated(evaluation, Forms, row, expr, g) /\ result[expr] = g[expr]
  PROVE  \A n \in DOMAIN Forms :
           result[n] = StepOf(evaluation, Forms, row, n, ArgsOf(Forms, result, n))
<1>1. /\ Len(Forms) \in Nat /\ DOMAIN Forms = 1 .. Len(Forms)
      /\ Len(Forms) \in 0 .. Len(Forms)
  BY DEF WellFormed
<1>2. PICK f : Evaluated(evaluation, Forms, row, Len(Forms), f)
  BY <1>1, EvaluationExists
<1>3. \A n \in DOMAIN Forms : result[n] = f[n]
  <2> TAKE n \in DOMAIN Forms
  <2>1. PICK g : Evaluated(evaluation, Forms, row, n, g) /\ result[n] = g[n]
    OBVIOUS
  <2>2. n \in 0 .. Len(Forms) /\ n \in 1 .. n
    BY <1>1
  <2>3. \A j \in 1 .. n : f[j] = g[j]
    BY <1>1, <1>2, <2>1, <2>2, EvaluationsAgree
  <2> QED BY <2>1, <2>2, <2>3
<1>4. ASSUME NEW n \in DOMAIN Forms
      PROVE  result[n] = StepOf(evaluation, Forms, row, n, ArgsOf(Forms, result, n))
  <2>1. \A j \in 1 .. n - 1 : result[j] = f[j]
    BY <1>1, <1>3
  <2>2. ArgsOf(Forms, result, n) = ArgsOf(Forms, f, n)
    BY <2>1, SameArgs
  <2>3. f[n] = StepOf(evaluation, Forms, row, n, ArgsOf(Forms, f, n))
    BY <1>1, <1>2, Zenon DEF Evaluated
  <2> QED BY <1>3, <2>2, <2>3
<1> QED BY <1>4

(* Equations that Eval, SparkEval and InAgreement satisfy.                 *)
LEMMA EvalEquation ==
  ASSUME NEW Forms, NEW row, WellFormed(Forms, row), NEW n \in DOMAIN Forms
  PROVE  LET m    == Len(Forms[n].args)
             args == [i \in 1 .. m |-> Eval(Forms, row, Forms[n].args[i])]
         IN  Eval(Forms, row, n) = EnclaveStep(Forms[n], row, m, args)
<1>1. ASSUME NEW expr \in DOMAIN Forms
      PROVE  \E g : Evaluated("enclave", Forms, row, expr, g) /\ Eval(Forms, row, expr) = g[expr]
  <2> DEFINE Body(g, k) ==
        LET e      == Forms[k]
            args   == [i \in 1 .. Len(e.args) |-> g[e.args[i]]]
            thrown == {i \in 1 .. Len(args) : args[i].type = "throws"}
        IN  IF thrown = {} THEN EvalNode(e, row, args)
            ELSE args[CHOOSE i \in thrown : \A j \in thrown : i <= j]
             Raw(g) == g = [k \in 1 .. expr |-> Body(g, k)]
             v == CHOOSE g : Raw(g)
  <2>1. Eval(Forms, row, expr) = v[expr]
    BY DEF Eval, Evaluate
  <2>2. expr \in 0 .. Len(Forms) /\ \A k \in 1 .. expr : k \in DOMAIN Forms
    BY DEF WellFormed
  <2>3. ASSUME NEW g, NEW k \in 1 .. expr
        PROVE  Body(g, k) = StepOf("enclave", Forms, row, k, ArgsOf(Forms, g, k))
    <3>1. Len(Forms[k].args) \in Nat
      BY <2>2, ArgsBefore
    <3>2. Len(ArgsOf(Forms, g, k)) = Len(Forms[k].args)
      BY <3>1 DEF ArgsOf
    <3>3. Body(g, k) =
            LET args == ArgsOf(Forms, g, k)
            IN  IF Thrown(Len(args), args) = {} THEN EvalNode(Forms[k], row, args)
                ELSE args[FirstOf(Len(args), args)]
      BY Zenon DEF ArgsOf, Thrown, FirstOf
    <3> HIDE DEF Body
    <3> QED BY <3>2, <3>3 DEF StepOf, EnclaveStep
  <2> HIDE DEF Body
  <2>4. \A g : Raw(g) <=> Evaluated("enclave", Forms, row, expr, g)
    BY <2>3, Zenon DEF Evaluated
  <2>5. \E g : Raw(g)
    BY <2>2, <2>4, EvaluationExists
  <2>6. Raw(v)
    BY <2>5, Zenon
  <2> HIDE DEF v, Raw
  <2> QED BY <2>1, <2>4, <2>6
<1> DEFINE result == [k \in DOMAIN Forms |-> Eval(Forms, row, k)]
<1>2. \A expr \in DOMAIN Forms : \E g :
        Evaluated("enclave", Forms, row, expr, g) /\ result[expr] = g[expr]
  BY <1>1
<1>3. \A k \in DOMAIN Forms : result[k] = Eval(Forms, row, k)
  OBVIOUS
<1> HIDE DEF result
<1>4. result[n] = StepOf("enclave", Forms, row, n, ArgsOf(Forms, result, n))
  BY <1>2, OneEvaluation
<1>5. ArgsOf(Forms, result, n) =
        [i \in 1 .. Len(Forms[n].args) |-> Eval(Forms, row, Forms[n].args[i])]
  BY <1>3, ArgsBefore DEF ArgsOf
<1> QED BY <1>3, <1>4, <1>5 DEF StepOf

LEMMA SparkEvalEquation ==
  ASSUME NEW Forms, NEW row, WellFormed(Forms, row), NEW n \in DOMAIN Forms
  PROVE  LET m    == Len(Forms[n].args)
             args == [i \in 1 .. m |-> SparkEval(Forms, row, Forms[n].args[i])]
         IN  SparkEval(Forms, row, n) = SparkStep(Forms[n], row, m, args)
<1>1. ASSUME NEW expr \in DOMAIN Forms
      PROVE  \E g : /\ Evaluated("spark", Forms, row, expr, g)
                    /\ SparkEval(Forms, row, expr) = g[expr]
  <2> DEFINE Body(g, k) ==
        LET e      == Forms[k]
            args   == [i \in 1 .. Len(e.args) |-> g[e.args[i]]]
            thrown == {i \in 1 .. Len(args) : args[i].type = "throws"}
        IN  IF thrown = {} THEN SparkNode(e, row, args)
            ELSE args[CHOOSE i \in thrown : \A j \in thrown : i <= j]
             Raw(g) == g = [k \in 1 .. expr |-> Body(g, k)]
             v == CHOOSE g : Raw(g)
  <2>1. SparkEval(Forms, row, expr) = v[expr]
    BY DEF SparkEval, Evaluate
  <2>2. expr \in 0 .. Len(Forms) /\ \A k \in 1 .. expr : k \in DOMAIN Forms
    BY DEF WellFormed
  <2>3. ASSUME NEW g, NEW k \in 1 .. expr
        PROVE  Body(g, k) = StepOf("spark", Forms, row, k, ArgsOf(Forms, g, k))
    <3>1. Len(Forms[k].args) \in Nat
      BY <2>2, ArgsBefore
    <3>2. Len(ArgsOf(Forms, g, k)) = Len(Forms[k].args)
      BY <3>1 DEF ArgsOf
    <3>3. Body(g, k) =
            LET args == ArgsOf(Forms, g, k)
            IN  IF Thrown(Len(args), args) = {} THEN SparkNode(Forms[k], row, args)
                ELSE args[FirstOf(Len(args), args)]
      BY Zenon DEF ArgsOf, Thrown, FirstOf
    <3> HIDE DEF Body
    <3> QED BY <3>2, <3>3 DEF StepOf, SparkStep
  <2> HIDE DEF Body
  <2>4. \A g : Raw(g) <=> Evaluated("spark", Forms, row, expr, g)
    BY <2>3, Zenon DEF Evaluated
  <2>5. \E g : Raw(g)
    BY <2>2, <2>4, EvaluationExists
  <2>6. Raw(v)
    BY <2>5, Zenon
  <2> HIDE DEF v, Raw
  <2> QED BY <2>1, <2>4, <2>6
<1> DEFINE result == [k \in DOMAIN Forms |-> SparkEval(Forms, row, k)]
<1>2. \A expr \in DOMAIN Forms : \E g :
        Evaluated("spark", Forms, row, expr, g) /\ result[expr] = g[expr]
  BY <1>1
<1>3. \A k \in DOMAIN Forms : result[k] = SparkEval(Forms, row, k)
  OBVIOUS
<1> HIDE DEF result
<1>4. result[n] = StepOf("spark", Forms, row, n, ArgsOf(Forms, result, n))
  BY <1>2, OneEvaluation
<1>5. ArgsOf(Forms, result, n) =
        [i \in 1 .. Len(Forms[n].args) |-> SparkEval(Forms, row, Forms[n].args[i])]
  BY <1>3, ArgsBefore DEF ArgsOf
<1> QED BY <1>3, <1>4, <1>5 DEF StepOf

LEMMA InAgreementEquation ==
  ASSUME NEW Forms, NEW row, WellFormed(Forms, row), NEW n \in DOMAIN Forms
  PROVE  LET m     == Len(Forms[n].args)
             sargs == [i \in 1 .. m |-> SparkEval(Forms, row, Forms[n].args[i])]
             args  == [i \in 1 .. m |-> InAgreement(Forms, row, Forms[n].args[i])]
         IN  InAgreement(Forms, row, n) = AgreeStep(Forms[n], m, sargs, args)
<1>1. ASSUME NEW expr \in DOMAIN Forms
      PROVE  \E g : /\ Evaluated("agree", Forms, row, expr, g)
                    /\ InAgreement(Forms, row, expr) = g[expr]
  <2> DEFINE Body(g, k) ==
        LET e    == Forms[k]
            args == [i \in 1 .. Len(e.args) |-> SparkEval(Forms, row, e.args[i])]
        IN  (\A i \in 1 .. Len(e.args) : g[e.args[i]]) /\ ~ Departs(e, args)
             Raw(g) == g = [k \in 1 .. expr |-> Body(g, k)]
             v == CHOOSE g : Raw(g)
  <2>1. InAgreement(Forms, row, expr) = v[expr]
    BY DEF InAgreement
  <2>2. expr \in 0 .. Len(Forms) /\ \A k \in 1 .. expr : k \in DOMAIN Forms
    BY DEF WellFormed
  <2>3. ASSUME NEW g, NEW k \in 1 .. expr
        PROVE  Body(g, k) = StepOf("agree", Forms, row, k, ArgsOf(Forms, g, k))
    <3>1. \A i \in 1 .. Len(Forms[k].args) : ArgsOf(Forms, g, k)[i] = g[Forms[k].args[i]]
      BY DEF ArgsOf
    <3>2. Body(g, k) =
            LET m     == Len(Forms[k].args)
                sargs == [i \in 1 .. m |-> SparkEval(Forms, row, Forms[k].args[i])]
            IN  AgreeStep(Forms[k], m, sargs, ArgsOf(Forms, g, k))
      BY <3>1, Zenon DEF AgreeStep
    <3> HIDE DEF Body
    <3> QED BY <3>2 DEF StepOf
  <2> HIDE DEF Body
  <2>4. \A g : Raw(g) <=> Evaluated("agree", Forms, row, expr, g)
    BY <2>3, Zenon DEF Evaluated
  <2>5. \E g : Raw(g)
    BY <2>2, <2>4, EvaluationExists
  <2>6. Raw(v)
    BY <2>5, Zenon
  <2> HIDE DEF v, Raw
  <2> QED BY <2>1, <2>4, <2>6
<1> DEFINE result == [k \in DOMAIN Forms |-> InAgreement(Forms, row, k)]
<1>2. \A expr \in DOMAIN Forms : \E g :
        Evaluated("agree", Forms, row, expr, g) /\ result[expr] = g[expr]
  BY <1>1
<1>3. \A k \in DOMAIN Forms : result[k] = InAgreement(Forms, row, k)
  OBVIOUS
<1> HIDE DEF result
<1>4. result[n] = StepOf("agree", Forms, row, n, ArgsOf(Forms, result, n))
  BY <1>2, OneEvaluation
<1>5. ArgsOf(Forms, result, n) =
        [i \in 1 .. Len(Forms[n].args) |-> InAgreement(Forms, row, Forms[n].args[i])]
  BY <1>3, ArgsBefore DEF ArgsOf
<1> QED BY <1>3, <1>4, <1>5 DEF StepOf

LEMMA FirstOfThrown ==
  ASSUME NEW m, NEW args, Thrown(m, args) # {}
  PROVE  FirstOf(m, args) \in 1 .. m /\ args[FirstOf(m, args)].type = "throws"
<1>1. Thrown(m, args) \subseteq Nat /\ Thrown(m, args) \subseteq 1 .. m
  BY DEF Thrown
<1>2. \E i \in Thrown(m, args) : \A j \in Thrown(m, args) : i <= j
  BY <1>1, LeastNatural
<1>3. FirstOf(m, args) \in Thrown(m, args)
  BY <1>2, Zenon DEF FirstOf
<1> QED BY <1>1, <1>3 DEF Thrown

LEMMA NodesAreOver ==
  ASSUME NEW Forms, NEW row, WellFormed(Forms, row), NEW n \in DOMAIN Forms
  PROVE  NodeOver(Forms[n], row, Len(Forms[n].args))
BY DEF WellFormed, NodeOver

(* Over a tree of operators and a row of fields of whatever types, the     *)
(* enclave's evaluator ends with a field or with one of its exceptions.    *)
LEMMA EvalGives ==
  ASSUME NEW Forms, NEW row, WellFormed(Forms, row), NEW expr \in DOMAIN Forms
  PROVE  Outcome(Eval(Forms, row, expr))
<1> DEFINE S == {k \in 0 .. Len(Forms) : \A n \in 1 .. k : Outcome(Eval(Forms, row, n))}
<1>1. Len(Forms) \in Nat /\ DOMAIN Forms = 1 .. Len(Forms)
  BY DEF WellFormed
<1>2. 0 \in S
  BY <1>1
<1>3. ASSUME NEW k \in 1 .. Len(Forms), k - 1 \in S PROVE k \in S
  <2> DEFINE m    == Len(Forms[k].args)
             args == [i \in 1 .. m |-> Eval(Forms, row, Forms[k].args[i])]
  <2>1. k \in DOMAIN Forms
    BY <1>1
  <2>2. Eval(Forms, row, k) = EnclaveStep(Forms[k], row, m, args)
    BY <2>1, EvalEquation
  <2>3. \A i \in 1 .. m : Outcome(args[i])
    BY <1>3, <2>1, ArgsBefore
  <2>4. NodeOver(Forms[k], row, m)
    BY <2>1, NodesAreOver
  <2> HIDE DEF m, args
  <2>5. CASE Thrown(m, args) = {}
    <3>1. \A i \in 1 .. m : args[i].type # "throws"
      BY <2>5 DEF Thrown
    <3>2. \A i \in 1 .. m : IsField(args[i])
      BY <2>3, <3>1, ThrowsIsNoField DEF Outcome
    <3>3. Eval(Forms, row, k) = EvalNode(Forms[k], row, args)
      BY <2>2, <2>5 DEF EnclaveStep
    <3>4. Outcome(EvalNode(Forms[k], row, args))
      BY <2>4, <3>2, NodesGive
    <3> QED BY <1>1, <1>3, <3>3, <3>4
  <2>6. CASE Thrown(m, args) # {}
    <3>1. FirstOf(m, args) \in 1 .. m
      BY <2>6, FirstOfThrown
    <3>2. Eval(Forms, row, k) = args[FirstOf(m, args)]
      BY <2>2, <2>6 DEF EnclaveStep
    <3>3. Outcome(Eval(Forms, row, k))
      BY <2>3, <3>1, <3>2
    <3> QED BY <1>1, <1>3, <3>3
  <2> QED BY <2>5, <2>6
<1>4. \A k \in 0 .. Len(Forms) : k \in S
  <2> HIDE DEF S
  <2> QED BY <1>1, <1>2, <1>3, SetInduction
<1>5. expr \in S /\ expr \in 1 .. expr
  BY <1>1, <1>4
<1> QED BY <1>5

(* A whole expression, however deep: unless one of its nodes departs from  *)
(* Spark on the row (Departs), what the enclave's evaluator gives without  *)
(* an exception is Spark's value: the same type, null where Spark has a    *)
(* null, and the same value otherwise. What null fields carry along on the *)
(* way never gets out.                                                     *)
THEOREM ExpressionsAgreeWithSpark ==
  ASSUME NEW Forms, NEW row, WellFormed(Forms, row), NEW expr \in DOMAIN Forms,
         InAgreement(Forms, row, expr),
         Eval(Forms, row, expr).type # "throws"
  PROVE  Agree(Eval(Forms, row, expr), SparkEval(Forms, row, expr))
<1> DEFINE Holds(n) == InAgreement(Forms, row, n) /\ Eval(Forms, row, n).type # "throws"
                         => Agree(Eval(Forms, row, n), SparkEval(Forms, row, n))
           S == {k \in 0 .. Len(Forms) : \A n \in 1 .. k : Holds(n)}
<1>1. Len(Forms) \in Nat /\ DOMAIN Forms = 1 .. Len(Forms)
  BY DEF WellFormed
<1>2. 0 \in S
  BY <1>1
<1>3. ASSUME NEW k \in 1 .. Len(Forms), k - 1 \in S PROVE k \in S
  <2>0. ASSUME InAgreement(Forms, row, k), Eval(Forms, row, k).type # "throws"
        PROVE  Agree(Eval(Forms, row, k), SparkEval(Forms, row, k))
    <3> DEFINE m     == Len(Forms[k].args)
               args  == [i \in 1 .. m |-> Eval(Forms, row, Forms[k].args[i])]
               sargs == [i \in 1 .. m |-> SparkEval(Forms, row, Forms[k].args[i])]
               agree == [i \in 1 .. m |-> InAgreement(Forms, row, Forms[k].args[i])]
    <3>1. k \in DOMAIN Forms
      BY <1>1
    <3>2. /\ Eval(Forms, row, k) = EnclaveStep(Forms[k], row, m, args)
          /\ SparkEval(Forms, row, k) = SparkStep(Forms[k], row, m, sargs)
      BY <3>1, EvalEquation, SparkEvalEquation
    <3>3. InAgreement(Forms, row, k) = AgreeStep(Forms[k], m, sargs, agree)
      BY <3>1, InAgreementEquation
    <3>4. (\A i \in 1 .. m : agree[i]) /\ ~ Departs(Forms[k], sargs)
      BY <2>0, <3>3 DEF AgreeStep
    <3>5. NodeOver(Forms[k], row, m)
      BY <3>1, NodesAreOver
    <3>6. Thrown(m, args) = {}
      <4> HIDE DEF args
      <4> SUFFICES ASSUME Thrown(m, args) # {} PROVE FALSE
        OBVIOUS
      <4>1. Eval(Forms, row, k) = args[FirstOf(m, args)]
        BY <3>2 DEF EnclaveStep
      <4>2. args[FirstOf(m, args)].type = "throws"
        BY FirstOfThrown
      <4> QED BY <2>0, <4>1, <4>2
    <3>7. \A i \in 1 .. m : args[i].type # "throws"
      BY <3>6 DEF Thrown
    <3>8. \A i \in 1 .. m : Agree(args[i], sargs[i])
      <4> TAKE i \in 1 .. m
      <4>1. Forms[k].args[i] \in 1 .. k - 1
        BY <3>1, ArgsBefore
      <4>2. Holds(Forms[k].args[i])
        BY <1>3, <4>1
      <4>3. /\ args[i] = Eval(Forms, row, Forms[k].args[i])
            /\ sargs[i] = SparkEval(Forms, row, Forms[k].args[i])
            /\ agree[i] = InAgreement(Forms, row, Forms[k].args[i])
        OBVIOUS
      <4> HIDE DEF m, args, sargs, agree
      <4> QED BY <3>4, <3>7, <4>2, <4>3
    <3> HIDE DEF m, args, sargs, agree
    <3>9. Thrown(m, sargs) = {}
      BY <3>7, <3>8, AgreeFacts DEF Thrown
    <3>10. /\ Eval(Forms, row, k) = EvalNode(Forms[k], row, args)
           /\ SparkEval(Forms, row, k) = SparkNode(Forms[k], row, sargs)
      BY <3>2, <3>6, <3>9 DEF EnclaveStep, SparkStep
    <3>11. EvalNode(Forms[k], row, args).type # "throws"
      BY <2>0, <3>10
    <3>12. Agree(EvalNode(Forms[k], row, args), SparkNode(Forms[k], row, sargs))
      BY <3>4, <3>5, <3>8, <3>11, NodesAgreeWithSpark
    <3> QED BY <3>10, <3>12
  <2>1. Holds(k)
    BY <2>0
  <2>2. \A n \in 1 .. k : n = k \/ n \in 1 .. k - 1
    BY <1>1
  <2>3. \A n \in 1 .. k - 1 : Holds(n)
    BY <1>3
  <2> HIDE DEF Holds
  <2> QED BY <1>1, <2>1, <2>2, <2>3
<1>4. \A k \in 0 .. Len(Forms) : k \in S
  <2> HIDE DEF S
  <2> QED BY <1>1, <1>2, <1>3, SetInduction
<1>5. expr \in S /\ expr \in 1 .. expr
  BY <1>1, <1>4
<1>6. Holds(expr)
  BY <1>5
<1> QED BY <1>6

---------------------------------------------------------------------------
(* The slices of positions tile the rows. *)

(* A quotient is below m just when the dividend is below m divisors.       *)
LEMMA DivBelow ==
  ASSUME NEW a \in Nat, NEW n \in Nat \ {0}, NEW m \in Nat
  PROVE  /\ a \div n \in Nat
         /\ a \div n < m <=> a < m * n
<1> DEFINE q == a \div n
<1>1. q \in Nat /\ a = n * q + (a % n) /\ a % n \in 0 .. n - 1
  BY DivBound
<1>2. q < m => a < m * n
  <2> SUFFICES ASSUME q < m PROVE a < m * n
    OBVIOUS
  <2>1. (q + 1) * n <= m * n
    BY <1>1, MulMonotone
  <2>2. (q + 1) * n = n * q + n
    BY <1>1
  <2>3. m * n \in Nat
    OBVIOUS
  <2>4. QED BY <1>1, <2>1, <2>2, <2>3
<1>3. a < m * n => q < m
  <2> SUFFICES ASSUME a < m * n, m <= q PROVE FALSE
    BY <1>1
  <2>1. m * n <= q * n
    BY <1>1, MulMonotone
  <2>2. q * n = n * q /\ n * q \in Nat /\ m * n \in Nat
    BY <1>1
  <2>3. QED BY <1>1, <2>1, <2>2
<1>4. QED BY <1>1, <1>2, <1>3

(* Every row is in the slice of some i ...                                 *)
LEMMA SlicesCover ==
  ASSUME NEW length \in Nat, NEW n \in Nat \ {0}, NEW row \in 0 .. length - 1
  PROVE  \E i \in 1 .. n :
           positions(length, n, i).start <= row /\ row < positions(length, n, i).end
<1> DEFINE x == (row + 1) * n
           i == ((x - 1) \div length) + 1
<1>0. length \in Nat \ {0} /\ row \in Nat
  OBVIOUS
<1>1. x \in Nat /\ x >= 1
  <2>1. 1 * n <= (row + 1) * n
    BY <1>0, MulMonotone
  <2>2. x \in Nat
    BY <1>0
  <2>3. QED BY <2>1, <2>2
<1>2. i \in Nat /\ i >= 1
  BY <1>0, <1>1, DivBelow
<1>3. x <= i * length
  <2>1. (x - 1) \div length < i
    BY <1>0, <1>1, DivBelow
  <2>2. x - 1 < i * length
    BY <1>0, <1>1, <1>2, <2>1, DivBelow
  <2>3. i * length \in Nat
    BY <1>0, <1>2
  <2>4. QED BY <1>1, <2>2, <2>3
<1>4. (i - 1) * length < x
  <2>1. i - 1 \in Nat /\ ~ ((x - 1) \div length < i - 1)
    BY <1>2
  <2>2. ~ (x - 1 < (i - 1) * length)
    BY <1>0, <1>1, <2>1, DivBelow
  <2>3. (i - 1) * length \in Nat
    BY <1>0, <2>1
  <2>4. QED BY <1>1, <2>2, <2>3
<1>5. i <= n
  <2>1. x <= length * n
    BY <1>0, MulMonotone
  <2>2. x - 1 < n * length
    <3>1. length * n = n * length /\ n * length \in Nat
      BY <1>0
    <3>2. QED BY <1>1, <2>1, <3>1
  <2>3. (x - 1) \div length < n
    BY <1>0, <1>1, <2>2, DivBelow
  <2>4. QED BY <1>0, <1>1, <2>3, DivBelow
<1>6. ((i - 1) * length) \div n < row + 1
  <2>1. (i - 1) * length \in Nat
    BY <1>0, <1>2
  <2>2. QED BY <1>0, <1>4, <2>1, DivBelow
<1>7. ~ ((i * length) \div n < row + 1)
  <2>1. i * length \in Nat
    BY <1>0, <1>2
  <2>2. ~ (i * length < x)
    BY <1>1, <1>3, <2>1
  <2>3. QED BY <1>0, <2>1, <2>2, DivBelow
<1>8. ((i - 1) * length) \div n \in Nat /\ (i * length) \div n \in Nat
  <2>1. (i - 1) * length \in Nat /\ i * length \in Nat
    BY <1>0, <1>2
  <2>2. QED BY <2>1, DivBelow
<1>9. /\ positions(length, n, i).start = ((i - 1) * length) \div n
      /\ positions(length, n, i).end = (i * length) \div n
  BY DEF positions
<1>10. positions(length, n, i).start <= row /\ row < positions(length, n, i).end
  <2> HIDE DEF x, i
  <2>1. QED BY <1>0, <1>6, <1>7, <1>8, <1>9
<1>11. i \in 1 .. n
  BY <1>2, <1>5
<1>12. QED BY <1>10, <1>11

(* ... and of no other: a slice ends where the next one starts.            *)
LEMMA SlicesDisjoint ==
  ASSUME NEW length \in Nat, NEW n \in Nat \ {0},
         NEW i \in 1 .. n, NEW j \in 1 .. n, i < j
  PROVE  positions(length, n, i).end <= positions(length, n, j).start
<1>1. i * length <= (j - 1) * length
  BY MulMonotone
<1> DEFINE a == i * length
           b == (j - 1) * length
<1>2. a \in Nat /\ b \in Nat /\ a <= b
  BY <1>1
<1>3. positions(length, n, i).end = a \div n /\ positions(length, n, j).start = b \div n
  BY DEF positions
<1> HIDE DEF a, b
<1>4. a \div n \in Nat /\ b \div n \in Nat
  BY <1>2, DivBelow
<1>5. b < ((b \div n) + 1) * n
  BY <1>2, <1>4, DivBelow
<1>6. a < ((b \div n) + 1) * n
  <2>1. ((b \div n) + 1) * n \in Nat
    BY <1>4
  <2>2. QED BY <1>2, <1>5, <2>1
<1>7. a \div n < (b \div n) + 1
  BY <1>2, <1>4, <1>6, DivBelow
<1>8. QED BY <1>3, <1>4, <1>7

(* Positions are within the rows.                                          *)
LEMMA PositionsInInt ==
  ASSUME NEW length \in Nat, NEW n \in Nat \ {0}, NEW i \in 1 .. n
  PROVE  positions(length, n, i).start \in Int /\ positions(length, n, i).end \in Int
<1>1. (i - 1) * length \in Nat /\ i * length \in Nat
  <2>1. i - 1 \in Nat /\ i \in Nat
    OBVIOUS
  <2>2. QED BY <2>1
<1>2. ((i - 1) * length) \div n \in Nat /\ (i * length) \div n \in Nat
  BY <1>1, DivBelow
<1>3. QED BY <1>2 DEF positions

(* The part files of whole data hold every row once.                      *)
LEMMA WholeDataIsWhole ==
  ASSUME NEW t \in Tables, NEW version \in Nat \ {0}, NEW n \in Slices,
         data[t] = WholeData(version, n)
  PROVE  IsWhole(t, version)
<1> USE StoreAssumption DEF Slices
<1>1. \A i \in 1 .. n :
        /\ data[t].parts[i].version = version
        /\ data[t].parts[i].start = positions(NumRows, n, i).start
        /\ data[t].parts[i].end = positions(NumRows, n, i).end
  BY DEF WholeData, Slice, Part
<1>2. Present(t) = 1 .. n
  <2>1. \A i \in 1 .. n : data[t].parts[i] # NoPart
    BY <1>1 DEF NoPart, Part
  <2>2. \A i \in Slices : i \notin 1 .. n => data[t].parts[i] = NoPart
    BY DEF WholeData
  <2>3. QED BY <2>1, <2>2 DEF Present
<1>3. data[t].exists
  BY DEF WholeData
<1>4. n \in Nat \ {0}
  OBVIOUS
<1>5. ASSUME NEW row \in 0 .. NumRows - 1
      PROVE  \E i \in Present(t) :
               /\ row \in RowsOf(data[t].parts[i])
               /\ \A j \in Present(t) \ {i} : row \notin RowsOf(data[t].parts[j])
  <2>1. PICK i \in 1 .. n :
          positions(NumRows, n, i).start <= row /\ row < positions(NumRows, n, i).end
    BY <1>4, SlicesCover
  <2>2. row \in RowsOf(data[t].parts[i])
    BY <1>1, <2>1 DEF RowsOf
  <2>3. ASSUME NEW j \in 1 .. n, j # i, row \in RowsOf(data[t].parts[j])
        PROVE  FALSE
    <3>1. positions(NumRows, n, j).start <= row /\ row < positions(NumRows, n, j).end
      BY <1>1, <2>3 DEF RowsOf
    <3>2. /\ i < j => positions(NumRows, n, i).end <= positions(NumRows, n, j).start
          /\ j < i => positions(NumRows, n, j).end <= positions(NumRows, n, i).start
      BY <1>4, SlicesDisjoint
    <3>3. i < j \/ j < i
      BY <2>3
    <3>4. /\ positions(NumRows, n, i).start \in Int /\ positions(NumRows, n, i).end \in Int
          /\ positions(NumRows, n, j).start \in Int /\ positions(NumRows, n, j).end \in Int
      BY <1>4, PositionsInInt
    <3>5. QED BY <2>1, <3>1, <3>2, <3>3, <3>4
  <2>4. QED BY <1>2, <2>2, <2>3
<1>6. QED BY <1>1, <1>2, <1>3, <1>5 DEF IsWhole

---------------------------------------------------------------------------
(* The strengthening. What is on disk was written by the calls so far, the *)
(* data by one of them; how far the call in progress is says what it has   *)
(* deleted and written; a table that is complete is as the last call left  *)
(* it and no call is at work on it.                                        *)

StoreTypeOK ==
  /\ data \in [Tables -> [exists : BOOLEAN,
                          parts : [Slices -> [version : Nat, start : Int, end : Int]]]]
  /\ schema \in [Tables -> Nat \cup {EmptySchema}]
  /\ owner \in [pc : {"idle", "deleteData", "saveData", "commitData", "deleteSchema",
                      "createSchema", "writeSchema", "return"},
                table : Tables \cup {NoTable}, slices : Nat]
  /\ outsourcings \in [Tables -> Nat]
  /\ complete \in [Tables -> Nat]

OwnerAtTable ==
  ~ At("idle") => /\ owner.table \in Tables
                  /\ owner.slices \in Slices
                  /\ outsourcings[owner.table] > 0
                  /\ complete[owner.table] = 0

OneVersion(t) ==
  /\ \A i \in Present(t) : data[t].parts[i].version <= outsourcings[t]
  /\ \A i, j \in Present(t) : data[t].parts[i].version = data[t].parts[j].version
  /\ schema[t] <= outsourcings[t]
  /\ \A i \in Present(t) : schema[t] <= data[t].parts[i].version

Progress ==
  /\ At("saveData") => Present(owner.table) = {}
  /\ At("commitData") =>
       /\ data[owner.table].exists
       /\ \A i \in Present(owner.table) :
            i <= owner.slices /\ data[owner.table].parts[i] = Slice(TheVersion, owner.slices, i)
  /\ owner.pc \in {"deleteSchema", "createSchema", "writeSchema", "return"} =>
       data[owner.table] = WholeData(TheVersion, owner.slices)
  /\ At("return") => schema[owner.table] = TheVersion

CompleteIsLatest ==
  \A t \in Tables : complete[t] # 0 =>
    /\ complete[t] = outsourcings[t]
    /\ schema[t] = complete[t]
    /\ \E n \in Slices : data[t] = WholeData(complete[t], n)

StoreInv ==
  /\ StoreTypeOK
  /\ OwnerAtTable
  /\ \A t \in Tables : OneVersion(t)
  /\ Progress
  /\ CompleteIsLatest

LEMMA SliceIsPart ==
  ASSUME NEW version \in Nat, NEW n \in Slices, NEW i \in 1 .. n
  PROVE  /\ Slice(version, n, i) \in [version : Nat, start : Int, end : Int]
         /\ Slice(version, n, i).version = version
<1>1. n \in Nat \ {0} /\ NumRows \in Nat
  BY StoreAssumption DEF Slices
<1>2. /\ positions(NumRows, n, i).start \in Int
      /\ positions(NumRows, n, i).end \in Int
  BY <1>1, PositionsInInt
<1>3. QED BY <1>2 DEF Slice, Part

LEMMA NoPartIsPart ==
  /\ NoPart \in [version : Nat, start : Int, end : Int]
  /\ NoPart.version = 0
BY DEF NoPart, Part

(* In whole data the part files are those of the slices.                   *)
LEMMA WholeDataParts ==
  ASSUME NEW version \in Nat \ {0}, NEW n \in Slices
  PROVE  /\ WholeData(version, n) \in [exists : BOOLEAN,
              parts : [Slices -> [version : Nat, start : Int, end : Int]]]
         /\ WholeData(version, n).exists
         /\ \A i \in Slices : WholeData(version, n).parts[i] # NoPart =>
              WholeData(version, n).parts[i].version = version
<1>1. \A i \in Slices : i <= n =>
        /\ Slice(version, n, i) \in [version : Nat, start : Int, end : Int]
        /\ Slice(version, n, i).version = version
  BY SliceIsPart, StoreAssumption DEF Slices
<1>2. QED BY <1>1, NoPartIsPart DEF WholeData

LEMMA StoreInitInv == StoreInit => StoreInv
<1> SUFFICES ASSUME StoreInit PROVE StoreInv
  OBVIOUS
<1>1. PICK outsourced \in SUBSET {t \in Tables : MaxOutsourcings > 0}, numSlices \in Slices :
        /\ data = [t \in Tables |-> IF t \in outsourced THEN WholeData(1, numSlices) ELSE NoData]
        /\ schema = [t \in Tables |-> IF t \in outsourced THEN 1 ELSE NoSchema]
        /\ outsourcings = [t \in Tables |-> IF t \in outsourced THEN 1 ELSE 0]
  BY DEF StoreInit
<1>2. owner = Idle /\ complete = outsourcings
  BY DEF StoreInit
<1>3. /\ NoData \in [exists : BOOLEAN,
                     parts : [Slices -> [version : Nat, start : Int, end : Int]]]
      /\ \A i \in Slices : NoData.parts[i] = NoPart
  BY NoPartIsPart DEF NoData
<1>4. StoreTypeOK
  <2>1. data \in [Tables -> [exists : BOOLEAN,
                    parts : [Slices -> [version : Nat, start : Int, end : Int]]]]
    BY <1>1, <1>3, WholeDataParts
  <2>2. owner \in [pc : {"idle", "deleteData", "saveData", "commitData", "deleteSchema",
                         "createSchema", "writeSchema", "return"},
                   table : Tables \cup {NoTable}, slices : Nat]
    BY <1>2 DEF Idle
  <2>3. QED BY <1>1, <1>2, <2>1, <2>2 DEF StoreTypeOK, NoSchema, EmptySchema
<1>5. OwnerAtTable
  BY <1>2 DEF OwnerAtTable, At, Idle
<1>6. ASSUME NEW t \in Tables PROVE OneVersion(t)
  <2>1. CASE t \in outsourced
    <3>1. data[t] = WholeData(1, numSlices) /\ schema[t] = 1 /\ outsourcings[t] = 1
      BY <1>1, <2>1
    <3>2. \A i \in Present(t) : data[t].parts[i].version = 1
      BY <3>1, WholeDataParts DEF Present
    <3>3. QED BY <3>1, <3>2 DEF OneVersion
  <2>2. CASE t \notin outsourced
    <3>1. data[t] = NoData /\ schema[t] = 0 /\ outsourcings[t] = 0
      BY <1>1, <2>2 DEF NoSchema
    <3>2. Present(t) = {}
      BY <1>3, <3>1 DEF Present
    <3>3. QED BY <3>1, <3>2 DEF OneVersion
  <2>3. QED BY <2>1, <2>2
<1>7. Progress
  BY <1>2 DEF Progress, At, Idle
<1>8. CompleteIsLatest
  BY <1>1, <1>2 DEF CompleteIsLatest
<1>9. QED BY <1>4, <1>5, <1>6, <1>7, <1>8 DEF StoreInv

---------------------------------------------------------------------------
(* Each step keeps the invariant. *)

(* A step that leaves the files of a table alone leaves it one version.    *)
LEMMA OneVersionUnchanged ==
  ASSUME NEW t \in Tables, OneVersion(t), StoreTypeOK,
         data'[t] = data[t], schema'[t] = schema[t],
         outsourcings'[t] \in Nat, outsourcings[t] <= outsourcings'[t]
  PROVE  OneVersion(t)'
<1>1. Present(t)' = Present(t)
  BY DEF Present
<1>2. \A i \in Present(t) : data[t].parts[i].version \in Nat
  BY DEF Present, StoreTypeOK
<1>3. outsourcings[t] \in Nat /\ schema[t] \in Int
  BY DEF StoreTypeOK, EmptySchema
<1>4. QED BY <1>1, <1>2, <1>3 DEF OneVersion

LEMMA StartCallInv ==
  ASSUME StoreInv, NEW u \in Tables, StartCall(u)
  PROVE  StoreInv'
<1> USE DEF StoreInv
<1>1. PICK numSlices \in Slices :
        owner' = [pc |-> "deleteData", table |-> u, slices |-> numSlices]
  BY DEF StartCall
<1>2. /\ outsourcings' = [outsourcings EXCEPT ![u] = @ + 1]
      /\ complete' = [complete EXCEPT ![u] = 0]
      /\ data' = data /\ schema' = schema
  BY DEF StartCall
<1>3. StoreTypeOK'
  <2>1. numSlices \in Nat
    BY StoreAssumption DEF Slices
  <2>2. outsourcings' \in [Tables -> Nat] /\ complete' \in [Tables -> Nat]
    BY <1>2 DEF StoreTypeOK
  <2>3. QED BY <1>1, <1>2, <2>1, <2>2 DEF StoreTypeOK
<1>4. OwnerAtTable'
  BY <1>1, <1>2 DEF OwnerAtTable, At, StoreTypeOK
<1>5. ASSUME NEW t \in Tables PROVE OneVersion(t)'
  <2>1. outsourcings'[t] \in Nat /\ outsourcings[t] <= outsourcings'[t]
    BY <1>2 DEF StoreTypeOK
  <2>2. StoreTypeOK /\ OneVersion(t) /\ data'[t] = data[t] /\ schema'[t] = schema[t]
    BY <1>2
  <2>3. QED BY <2>1, <2>2, OneVersionUnchanged
<1>6. Progress'
  BY <1>1 DEF Progress, At
<1>7. CompleteIsLatest'
  BY <1>2 DEF CompleteIsLatest, StoreTypeOK, WholeData, Slice, positions, Part, NoPart
<1>8. QED BY <1>3, <1>4, <1>5, <1>6, <1>7

(* A step on the data of the owner's table, with the call incomplete.      *)
LEMMA DataStep ==
  ASSUME StoreInv, ~ At("idle"),
         NEW d \in [exists : BOOLEAN,
                    parts : [Slices -> [version : Nat, start : Int, end : Int]]],
         data' = [data EXCEPT ![owner.table] = d],
         UNCHANGED <<schema, outsourcings, complete>>,
         owner'.table = owner.table, owner'.slices = owner.slices,
         StoreTypeOK', ~ At("idle")',
         OneVersion(owner.table)', Progress'
  PROVE  StoreInv'
<1> USE DEF StoreInv
<1>1. owner.table \in Tables /\ complete[owner.table] = 0
  BY DEF OwnerAtTable
<1>2. OwnerAtTable'
  BY DEF OwnerAtTable
<1>3. ASSUME NEW t \in Tables PROVE OneVersion(t)'
  <2>1. CASE t = owner.table
    BY <2>1
  <2>2. CASE t # owner.table
    <3>1. data'[t] = data[t]
      BY <2>2 DEF StoreTypeOK
    <3>2. /\ StoreTypeOK /\ OneVersion(t) /\ schema'[t] = schema[t]
          /\ outsourcings'[t] = outsourcings[t] /\ outsourcings[t] \in Nat
      BY DEF StoreTypeOK
    <3>3. outsourcings'[t] \in Nat /\ outsourcings[t] <= outsourcings'[t]
      BY <3>2
    <3>4. QED BY <3>1, <3>2, <3>3, OneVersionUnchanged
  <2>3. QED BY <2>1, <2>2
<1>4. CompleteIsLatest'
  <2>1. \A t \in Tables : complete[t] # 0 => data'[t] = data[t]
    BY <1>1 DEF StoreTypeOK
  <2>2. SUFFICES ASSUME NEW t \in Tables, complete'[t] # 0
                 PROVE  /\ complete'[t] = outsourcings'[t]
                        /\ schema'[t] = complete'[t]
                        /\ \E n \in Slices : data'[t] = WholeData(complete'[t], n)
    BY DEF CompleteIsLatest
  <2>3. QED BY <2>1, <2>2 DEF CompleteIsLatest
<1>5. QED BY <1>2, <1>3, <1>4

LEMMA DeletePartInv ==
  ASSUME StoreInv, DeletePart
  PROVE  StoreInv'
<1> USE DEF StoreInv
<1> DEFINE t == owner.table
<1>1. PICK i \in Present(t) : data' = [data EXCEPT ![t].parts[i] = NoPart]
  BY DEF DeletePart
<1>2. /\ UNCHANGED <<schema, owner, outsourcings, complete>>
      /\ At("deleteData")
  BY DEF DeletePart
<1>3. t \in Tables /\ i \in Slices
  BY <1>2 DEF OwnerAtTable, At, Present
<1> DEFINE d == [data[t] EXCEPT !.parts[i] = NoPart]
<1>4. /\ d \in [exists : BOOLEAN,
                parts : [Slices -> [version : Nat, start : Int, end : Int]]]
      /\ d.parts = [data[t].parts EXCEPT ![i] = NoPart]
  <2>1. data[t] \in [exists : BOOLEAN,
                     parts : [Slices -> [version : Nat, start : Int, end : Int]]]
    BY <1>3 DEF StoreTypeOK
  <2>2. QED BY <1>3, <2>1, NoPartIsPart
<1>5. data' = [data EXCEPT ![t] = d]
  BY <1>1
<1>6. StoreTypeOK'
  BY <1>2, <1>3, <1>4, <1>5 DEF StoreTypeOK
<1>7. data'[t] = d
  BY <1>3, <1>5 DEF StoreTypeOK
<1>8. /\ Present(t)' = Present(t) \ {i}
      /\ \A j \in Present(t) \ {i} : data'[t].parts[j] = data[t].parts[j]
  <2>1. \A j \in Slices : d.parts[j] = IF j = i THEN NoPart ELSE data[t].parts[j]
    BY <1>3, <1>4 DEF StoreTypeOK
  <2>2. QED BY <1>2, <1>7, <2>1 DEF Present
<1>9. OneVersion(t)'
  BY <1>2, <1>3, <1>8 DEF OneVersion
<1>10. Progress'
  BY <1>2 DEF Progress, At
<1>11. ~ At("idle") /\ ~ At("idle")'
  BY <1>2 DEF At
<1> HIDE DEF d
<1>12. QED BY <1>2, <1>4, <1>5, <1>6, <1>9, <1>10, <1>11, DataStep

LEMMA DeleteDataDirInv ==
  ASSUME StoreInv, DeleteDataDir
  PROVE  StoreInv'
<1> USE DEF StoreInv
<1> DEFINE t == owner.table
           d == [data[t] EXCEPT !.exists = FALSE]
<1>1. /\ At("deleteData") /\ Present(t) = {}
      /\ data' = [data EXCEPT ![t] = d]
      /\ owner' = [owner EXCEPT !.pc = "saveData"]
      /\ UNCHANGED <<schema, outsourcings, complete>>
  BY DEF DeleteDataDir, Goto
<1>2. t \in Tables
  BY <1>1 DEF OwnerAtTable, At
<1>3. /\ d \in [exists : BOOLEAN,
                parts : [Slices -> [version : Nat, start : Int, end : Int]]]
      /\ d.parts = data[t].parts
  <2>1. data[t] \in [exists : BOOLEAN,
                     parts : [Slices -> [version : Nat, start : Int, end : Int]]]
    BY <1>2 DEF StoreTypeOK
  <2>2. QED BY <2>1
<1>4. /\ owner' \in [pc : {"idle", "deleteData", "saveData", "commitData", "deleteSchema",
                           "createSchema", "writeSchema", "return"},
                     table : Tables \cup {NoTable}, slices : Nat]
      /\ owner'.pc = "saveData" /\ owner'.table = t /\ owner'.slices = owner.slices
  BY <1>1 DEF StoreTypeOK
<1>5. StoreTypeOK' /\ data'[t] = d
  BY <1>1, <1>2, <1>3, <1>4 DEF StoreTypeOK
<1>6. Present(t)' = {}
  BY <1>1, <1>3, <1>4, <1>5 DEF Present
<1>7. OneVersion(t)'
  BY <1>1, <1>2, <1>4, <1>6 DEF OneVersion
<1>8. Progress'
  BY <1>4, <1>6 DEF Progress, At
<1>9. ~ At("idle") /\ ~ At("idle")'
  BY <1>1, <1>4 DEF At
<1> HIDE DEF d
<1>10. QED BY <1>1, <1>3, <1>4, <1>5, <1>7, <1>8, <1>9, DataStep

LEMMA CreateDataDirInv ==
  ASSUME StoreInv, CreateDataDir
  PROVE  StoreInv'
<1> USE DEF StoreInv
<1> DEFINE t == owner.table
           d == [data[t] EXCEPT !.exists = TRUE]
<1>1. /\ At("saveData")
      /\ data' = [data EXCEPT ![t] = d]
      /\ owner' = [owner EXCEPT !.pc = "commitData"]
      /\ UNCHANGED <<schema, outsourcings, complete>>
  BY DEF CreateDataDir, Goto
<1>2. t \in Tables /\ Present(t) = {}
  BY <1>1 DEF OwnerAtTable, Progress, At
<1>3. /\ d \in [exists : BOOLEAN,
                parts : [Slices -> [version : Nat, start : Int, end : Int]]]
      /\ d.parts = data[t].parts /\ d.exists
  <2>1. data[t] \in [exists : BOOLEAN,
                     parts : [Slices -> [version : Nat, start : Int, end : Int]]]
    BY <1>2 DEF StoreTypeOK
  <2>2. QED BY <2>1
<1>4. /\ owner' \in [pc : {"idle", "deleteData", "saveData", "commitData", "deleteSchema",
                           "createSchema", "writeSchema", "return"},
                     table : Tables \cup {NoTable}, slices : Nat]
      /\ owner'.pc = "commitData" /\ owner'.table = t /\ owner'.slices = owner.slices
  BY <1>1 DEF StoreTypeOK
<1>5. StoreTypeOK' /\ data'[t] = d
  BY <1>1, <1>2, <1>3, <1>4 DEF StoreTypeOK
<1>6. Present(t)' = {}
  BY <1>2, <1>3, <1>4, <1>5 DEF Present
<1>7. OneVersion(t)'
  BY <1>1, <1>2, <1>4, <1>6 DEF OneVersion
<1>8. Progress'
  BY <1>3, <1>4, <1>5, <1>6 DEF Progress, At
<1>9. ~ At("idle") /\ ~ At("idle")'
  BY <1>1, <1>4 DEF At
<1> HIDE DEF d
<1>10. QED BY <1>1, <1>3, <1>4, <1>5, <1>7, <1>8, <1>9, DataStep

LEMMA CommitPartInv ==
  ASSUME StoreInv, CommitPart
  PROVE  StoreInv'
<1> USE DEF StoreInv
<1> DEFINE t == owner.table
<1>1. PICK i \in (1 .. owner.slices) \ Present(t) :
        data' = [data EXCEPT ![t].parts[i] = Slice(TheVersion, owner.slices, i)]
  BY DEF CommitPart
<1> DEFINE part == Slice(TheVersion, owner.slices, i)
           d == [data[t] EXCEPT !.parts[i] = part]
<1>2. /\ UNCHANGED <<schema, owner, outsourcings, complete>>
      /\ At("commitData")
  BY DEF CommitPart
<1>3. /\ t \in Tables /\ i \in Slices /\ owner.slices \in Slices
      /\ TheVersion \in Nat \ {0} /\ TheVersion = outsourcings[t]
      /\ schema[t] <= TheVersion
  BY <1>2, StoreAssumption DEF OwnerAtTable, At, TheVersion, StoreTypeOK, Slices, OneVersion
<1>4. /\ part \in [version : Nat, start : Int, end : Int]
      /\ part.version = TheVersion
      /\ part # NoPart
  <2>1. part \in [version : Nat, start : Int, end : Int] /\ part.version = TheVersion
    BY <1>3, SliceIsPart
  <2>2. part # NoPart
    BY <1>3, <2>1, NoPartIsPart
  <2>3. QED BY <2>1, <2>2
<1>5. /\ d \in [exists : BOOLEAN,
                parts : [Slices -> [version : Nat, start : Int, end : Int]]]
      /\ d.exists = data[t].exists
      /\ d.parts = [data[t].parts EXCEPT ![i] = part]
  <2>1. data[t] \in [exists : BOOLEAN,
                     parts : [Slices -> [version : Nat, start : Int, end : Int]]]
    BY <1>3 DEF StoreTypeOK
  <2> HIDE DEF part
  <2>2. QED BY <1>3, <1>4, <2>1
<1>6. data' = [data EXCEPT ![t] = d]
  BY <1>1
<1>7. StoreTypeOK' /\ data'[t] = d
  BY <1>2, <1>3, <1>5, <1>6 DEF StoreTypeOK
<1>8. \A j \in Slices : data'[t].parts[j] = IF j = i THEN part ELSE data[t].parts[j]
  BY <1>3, <1>5, <1>7 DEF StoreTypeOK
<1>9. Present(t)' = Present(t) \cup {i}
  <2> HIDE DEF part
  <2>1. QED BY <1>2, <1>3, <1>4, <1>8 DEF Present
<1>10. ASSUME NEW j \in Present(t)'
       PROVE  /\ j <= owner.slices
              /\ data'[t].parts[j] = Slice(TheVersion, owner.slices, j)
              /\ data'[t].parts[j].version = TheVersion
  <2>1. CASE j = i
    BY <1>3, <1>4, <1>8, <2>1
  <2>2. CASE j # i
    <3>1. j \in Present(t) /\ j \in Slices
      BY <1>9, <2>2 DEF Present
    <3>2. j <= owner.slices /\ data[t].parts[j] = Slice(TheVersion, owner.slices, j)
      BY <1>2, <3>1 DEF Progress
    <3>3. j \in 1 .. owner.slices
      BY <3>1, <3>2 DEF Slices
    <3>4. Slice(TheVersion, owner.slices, j).version = TheVersion
      BY <1>3, <3>3, SliceIsPart
    <3>5. QED BY <1>8, <2>2, <3>1, <3>2, <3>4
  <2>3. QED BY <2>1, <2>2
<1> HIDE DEF d, part
<1>11. OneVersion(t)'
  BY <1>2, <1>3, <1>10 DEF OneVersion
<1>12. Progress'
  BY <1>2, <1>5, <1>7, <1>10 DEF Progress, At, TheVersion, Slice, Part, positions
<1>13. ~ At("idle") /\ ~ At("idle")'
  BY <1>2 DEF At
<1>14. QED BY <1>2, <1>5, <1>6, <1>7, <1>11, <1>12, <1>13, DataStep

(* A job that is committed has written the data whole.                     *)
LEMMA CommittedIsWhole ==
  ASSUME StoreInv, JobCommitted
  PROVE  data[owner.table] = WholeData(TheVersion, owner.slices)
<1> USE DEF StoreInv
<1> DEFINE t == owner.table
           n == owner.slices
           whole == [i \in Slices |-> IF i <= n THEN Slice(TheVersion, n, i) ELSE NoPart]
<1>1. /\ At("commitData") /\ 1 .. n \subseteq Present(t)
      /\ t \in Tables /\ n \in Slices
  BY DEF JobCommitted, OwnerAtTable, At
<1>2. /\ data[t].exists
      /\ \A i \in Present(t) : i <= n /\ data[t].parts[i] = Slice(TheVersion, n, i)
  BY <1>1 DEF Progress
<1>3. /\ data[t] = [exists |-> data[t].exists, parts |-> data[t].parts]
      /\ data[t].exists = TRUE
      /\ data[t].parts = [i \in Slices |-> data[t].parts[i]]
  BY <1>1, <1>2 DEF StoreTypeOK
<1>4. \A i \in Slices : data[t].parts[i] = whole[i]
  <2> SUFFICES ASSUME NEW i \in Slices PROVE data[t].parts[i] = whole[i]
    OBVIOUS
  <2>1. CASE i <= n
    <3>1. i \in Present(t)
      BY <1>1, <2>1 DEF Slices
    <3>2. QED BY <1>2, <2>1, <3>1
  <2>2. CASE ~ i <= n
    <3>1. i \notin Present(t)
      BY <1>2, <2>2
    <3>2. QED BY <2>2, <3>1 DEF Present
  <2>3. QED BY <2>1, <2>2
<1>5. data[t].parts = whole
  BY <1>3, <1>4
<1>6. QED BY <1>3, <1>5 DEF WholeData

(* A step of the call in progress that leaves the data alone.              *)
LEMMA SchemaStep ==
  ASSUME StoreInv, ~ At("idle"),
         NEW v \in Nat \cup {EmptySchema},
         v <= outsourcings[owner.table],
         \A i \in Present(owner.table) : v <= data[owner.table].parts[i].version,
         schema' = [schema EXCEPT ![owner.table] = v],
         UNCHANGED <<data, outsourcings, complete>>,
         NEW pc \in {"deleteSchema", "createSchema", "writeSchema", "return"},
         owner' = [owner EXCEPT !.pc = pc],
         data[owner.table] = WholeData(TheVersion, owner.slices),
         pc = "return" => v = TheVersion
  PROVE  StoreInv'
<1> USE DEF StoreInv
<1> DEFINE t == owner.table
<1>1. t \in Tables /\ complete[t] = 0
  BY DEF OwnerAtTable
<1>2. /\ owner' \in [pc : {"idle", "deleteData", "saveData", "commitData", "deleteSchema",
                           "createSchema", "writeSchema", "return"},
                     table : Tables \cup {NoTable}, slices : Nat]
      /\ owner'.pc = pc /\ owner'.table = t /\ owner'.slices = owner.slices
  BY DEF StoreTypeOK
<1>3. StoreTypeOK' /\ \A u \in Tables : schema'[u] = IF u = t THEN v ELSE schema[u]
  BY <1>1, <1>2 DEF StoreTypeOK
<1>4. OwnerAtTable'
  BY <1>2 DEF OwnerAtTable, At
<1>5. ASSUME NEW u \in Tables PROVE OneVersion(u)'
  <2>1. Present(u)' = Present(u)
    BY DEF Present
  <2>2. QED BY <1>3, <2>1 DEF OneVersion
<1>6. Progress'
  BY <1>1, <1>2, <1>3 DEF Progress, At, TheVersion, WholeData, Slice, positions, Part, NoPart
<1>7. CompleteIsLatest'
  <2>1. SUFFICES ASSUME NEW u \in Tables, complete'[u] # 0
                 PROVE  /\ complete'[u] = outsourcings'[u]
                        /\ schema'[u] = complete'[u]
                        /\ \E n \in Slices : data'[u] = WholeData(complete'[u], n)
    BY DEF CompleteIsLatest
  <2>2. u # t
    BY <1>1, <2>1
  <2>3. QED BY <1>3, <2>1, <2>2 DEF CompleteIsLatest
<1>8. QED BY <1>3, <1>4, <1>5, <1>6, <1>7

(* Versions in whole data, as the schema has to fit them.                  *)
LEMMA WholeVersions ==
  ASSUME StoreInv, ~ At("idle"), data[owner.table] = WholeData(TheVersion, owner.slices)
  PROVE  /\ TheVersion \in Nat \ {0}
         /\ \A i \in Present(owner.table) : data[owner.table].parts[i].version = TheVersion
<1>1. TheVersion \in Nat \ {0} /\ owner.slices \in Slices
  BY DEF StoreInv, OwnerAtTable, StoreTypeOK, TheVersion
<1>2. QED BY <1>1, WholeDataParts DEF Present

LEMMA SchemaStepsInv ==
  ASSUME StoreInv, DeleteSchema \/ CreateSchema \/ WriteSchema
  PROVE  StoreInv'
<1>1. /\ ~ At("idle")
      /\ data[owner.table] = WholeData(TheVersion, owner.slices)
  BY DEF StoreInv, Progress, At, DeleteSchema, CreateSchema, WriteSchema
<1>2. /\ TheVersion \in Nat \ {0} /\ TheVersion = outsourcings[owner.table]
      /\ \A i \in Present(owner.table) : data[owner.table].parts[i].version = TheVersion
  BY <1>1, WholeVersions DEF TheVersion
<1>3. CASE DeleteSchema
  <2>1. /\ schema' = [schema EXCEPT ![owner.table] = NoSchema]
        /\ owner' = [owner EXCEPT !.pc = "createSchema"]
        /\ UNCHANGED <<data, outsourcings, complete>>
    BY <1>3 DEF DeleteSchema, Goto
  <2>2. /\ NoSchema \in Nat \cup {EmptySchema}
        /\ NoSchema <= outsourcings[owner.table]
        /\ \A i \in Present(owner.table) : NoSchema <= data[owner.table].parts[i].version
    BY <1>2 DEF NoSchema
  <2>3. QED BY <1>1, <2>1, <2>2, SchemaStep
<1>4. CASE CreateSchema
  <2>1. /\ schema' = [schema EXCEPT ![owner.table] = EmptySchema]
        /\ owner' = [owner EXCEPT !.pc = "writeSchema"]
        /\ UNCHANGED <<data, outsourcings, complete>>
    BY <1>4 DEF CreateSchema, Goto
  <2>2. /\ EmptySchema \in Nat \cup {EmptySchema}
        /\ EmptySchema <= outsourcings[owner.table]
        /\ \A i \in Present(owner.table) : EmptySchema <= data[owner.table].parts[i].version
    BY <1>2 DEF EmptySchema
  <2>3. QED BY <1>1, <2>1, <2>2, SchemaStep
<1>5. CASE WriteSchema
  <2>1. /\ schema' = [schema EXCEPT ![owner.table] = TheVersion]
        /\ owner' = [owner EXCEPT !.pc = "return"]
        /\ UNCHANGED <<data, outsourcings, complete>>
    BY <1>5 DEF WriteSchema, Goto
  <2>2. /\ TheVersion \in Nat \cup {EmptySchema}
        /\ TheVersion <= outsourcings[owner.table]
        /\ \A i \in Present(owner.table) : TheVersion <= data[owner.table].parts[i].version
    BY <1>2
  <2>3. QED BY <1>1, <2>1, <2>2, SchemaStep
<1>6. QED BY <1>3, <1>4, <1>5

LEMMA JobCommittedInv ==
  ASSUME StoreInv, JobCommitted
  PROVE  StoreInv'
<1>1. data[owner.table] = WholeData(TheVersion, owner.slices)
  BY CommittedIsWhole
<1>2. /\ ~ At("idle") /\ owner' = [owner EXCEPT !.pc = "deleteSchema"]
      /\ UNCHANGED <<data, schema, outsourcings, complete>>
  BY DEF JobCommitted, Goto, At
<1>3. /\ schema' = [schema EXCEPT ![owner.table] = schema[owner.table]]
      /\ schema[owner.table] \in Nat \cup {EmptySchema}
      /\ schema[owner.table] <= outsourcings[owner.table]
      /\ \A i \in Present(owner.table) :
           schema[owner.table] <= data[owner.table].parts[i].version
  BY <1>2 DEF StoreInv, StoreTypeOK, OwnerAtTable, OneVersion
<1>4. QED BY <1>1, <1>2, <1>3, SchemaStep

LEMMA ReturnInv ==
  ASSUME StoreInv, Return
  PROVE  StoreInv'
<1> USE DEF StoreInv
<1> DEFINE t == owner.table
<1>1. /\ complete' = [complete EXCEPT ![t] = TheVersion]
      /\ owner' = Idle
      /\ UNCHANGED <<data, schema, outsourcings>>
  BY DEF Return
<1>2. /\ t \in Tables /\ owner.slices \in Slices
      /\ schema[t] = TheVersion /\ TheVersion = outsourcings[t]
      /\ data[t] = WholeData(TheVersion, owner.slices)
  BY DEF Return, OwnerAtTable, Progress, At, TheVersion
<1>3. StoreTypeOK'
  <2>1. Idle \in [pc : {"idle", "deleteData", "saveData", "commitData", "deleteSchema",
                        "createSchema", "writeSchema", "return"},
                  table : Tables \cup {NoTable}, slices : Nat]
    BY DEF Idle
  <2>2. complete' \in [Tables -> Nat]
    BY <1>1, <1>2 DEF StoreTypeOK
  <2>3. QED BY <1>1, <2>1, <2>2 DEF StoreTypeOK
<1>4. OwnerAtTable' /\ Progress'
  BY <1>1 DEF OwnerAtTable, Progress, At, Idle
<1>5. ASSUME NEW u \in Tables PROVE OneVersion(u)'
  <2>1. Present(u)' = Present(u)
    BY <1>1 DEF Present
  <2>2. QED BY <1>1, <2>1 DEF OneVersion
<1>6. CompleteIsLatest'
  <2>1. SUFFICES ASSUME NEW u \in Tables, complete'[u] # 0
                 PROVE  /\ complete'[u] = outsourcings'[u]
                        /\ schema'[u] = complete'[u]
                        /\ \E n \in Slices : data'[u] = WholeData(complete'[u], n)
    BY DEF CompleteIsLatest
  <2>2. CASE u = t
    <3>1. complete'[u] = TheVersion
      BY <1>1, <1>2, <2>2 DEF StoreTypeOK
    <3>2. QED BY <1>1, <1>2, <2>2, <3>1
  <2>3. CASE u # t
    <3>1. complete'[u] = complete[u]
      BY <1>1, <2>3 DEF StoreTypeOK
    <3>2. QED BY <1>1, <2>1, <3>1 DEF CompleteIsLatest
  <2>4. QED BY <2>2, <2>3
<1>7. QED BY <1>3, <1>4, <1>5, <1>6

LEMMA StandingStillInv ==
  ASSUME StoreInv, Crash \/ UNCHANGED storeVars
  PROVE  StoreInv'
<1> USE DEF StoreInv
<1>1. /\ owner' = Idle \/ owner' = owner
      /\ UNCHANGED <<data, schema, outsourcings, complete>>
  BY DEF Crash, storeVars
<1>2. StoreTypeOK'
  <2>1. Idle \in [pc : {"idle", "deleteData", "saveData", "commitData", "deleteSchema",
                        "createSchema", "writeSchema", "return"},
                  table : Tables \cup {NoTable}, slices : Nat]
    BY DEF Idle
  <2>2. QED BY <1>1, <2>1 DEF StoreTypeOK
<1>3. OwnerAtTable' /\ Progress'
  <2>1. CASE owner' = Idle
    BY <2>1 DEF OwnerAtTable, Progress, At, Idle
  <2>2. CASE owner' = owner
    <3>1. OwnerAtTable'
      BY <1>1, <2>2 DEF OwnerAtTable, At
    <3>2. Progress'
      BY <1>1, <2>2 DEF Progress, At, Present, TheVersion, WholeData, Slice, positions, Part, NoPart
    <3>3. QED BY <3>1, <3>2
  <2>3. QED BY <1>1, <2>1, <2>2
<1>4. ASSUME NEW u \in Tables PROVE OneVersion(u)'
  <2>1. Present(u)' = Present(u)
    BY <1>1 DEF Present
  <2>2. QED BY <1>1, <2>1 DEF OneVersion
<1>5. CompleteIsLatest'
  <2>1. SUFFICES ASSUME NEW u \in Tables, complete'[u] # 0
                 PROVE  /\ complete'[u] = outsourcings'[u]
                        /\ schema'[u] = complete'[u]
                        /\ \E n \in Slices : data'[u] = WholeData(complete'[u], n)
    BY DEF CompleteIsLatest
  <2>2. QED BY <1>1, <2>1 DEF CompleteIsLatest
<1>6. QED BY <1>2, <1>3, <1>4, <1>5

LEMMA StoreStepInv ==
  ASSUME StoreInv, [StoreNext]_storeVars
  PROVE  StoreInv'
BY StartCallInv, DeletePartInv, DeleteDataDirInv, CreateDataDirInv, CommitPartInv,
   JobCommittedInv, SchemaStepsInv, ReturnInv, StandingStillInv DEF StoreNext

THEOREM StoreInvariant == StoreSpec => []StoreInv
BY StoreInitInv, StoreStepInv, PTL DEF StoreSpec

---------------------------------------------------------------------------
LEMMA InvImpliesWhole == StoreInv => ReturnedTableIsWhole
<1> SUFFICES ASSUME StoreInv, NEW t \in Tables, complete[t] # 0
             PROVE  IsWhole(t, complete[t]) /\ schema[t] = complete[t]
  BY DEF ReturnedTableIsWhole
<1>1. PICK n \in Slices : data[t] = WholeData(complete[t], n)
  BY DEF StoreInv, CompleteIsLatest
<1>2. complete[t] \in Nat \ {0} /\ schema[t] = complete[t]
  BY DEF StoreInv, StoreTypeOK, CompleteIsLatest
<1>3. IsWhole(t, complete[t])
  BY <1>1, <1>2, WholeDataIsWhole
<1>4. QED BY <1>2, <1>3

(* For any number of rows, slices and crashed calls, a table whose call    *)
(* has returned is the rows it was called with, each in one part file.     *)
THEOREM WholeWhenReturned == StoreSpec => []ReturnedTableIsWhole
<1>1. QED BY StoreInvariant, InvImpliesWhole, PTL

LEMMA InvImpliesNotOlder == StoreInv => DataNotOlderThanSchema
BY DEF StoreInv, OneVersion, DataNotOlderThanSchema

(* For any sequence of calls that crash, the part files of a table are of  *)
(* one version and the schema is not one for later data.                   *)
THEOREM SchemaNeverAhead == StoreSpec => []DataNotOlderThanSchema
<1>1. QED BY StoreInvariant, InvImpliesNotOlder, PTL

---------------------------------------------------------------------------
(* The REST service by itself. A request that registers views has the      *)
(* loop; the tables it registers are under its token or still to come.     *)

Statuses == {0, 200, 400, 500}

RequestType ==
  [pc : Pcs, statement : Statements, tables : Seq(Models),
   sources : [Models -> Requests \cup {Nobody}], status : Statuses]

RestTypeOK ==
  /\ loop \in Requests \cup {Nobody}
  /\ views \in [Models -> Requests \cup {Nobody}]
  /\ requests \in [Requests -> RequestType]

RegisteringHasLoop == \A r \in Requests : requests[r].pc = "registering" => loop = r

OwnViews ==
  \A r \in Requests :
    requests[r].pc = "registering" /\ requests[r].statement.handler = "query" =>
      \A t \in OwnTables(requests[r].statement) :
        views[t] = r \/ \E i \in DOMAIN requests[r].tables : requests[r].tables[i] = t

RestInv ==
  /\ RestTypeOK
  /\ RegisteringHasLoop
  /\ OwnViews
  /\ ExtractedTablesUnderOwnToken

(* How requests are changed.                                               *)
LEMMA RequestChanges ==
  ASSUME NEW request \in RequestType, NEW pc \in Pcs
  PROVE  /\ \A status \in Statuses : [request EXCEPT !.pc = pc, !.status = status] \in RequestType
         /\ \A tables \in Seq(Models) :
              [request EXCEPT !.pc = pc, !.tables = tables] \in RequestType
         /\ \A sources \in [Models -> Requests \cup {Nobody}] :
              [request EXCEPT !.pc = pc, !.sources = sources] \in RequestType
<1> DEFINE later == [request EXCEPT !.pc = pc]
<1>1. later \in RequestType
  BY DEF RequestType
<1>2. /\ \A status : [request EXCEPT !.pc = pc, !.status = status] = [later EXCEPT !.status = status]
      /\ \A tables : [request EXCEPT !.pc = pc, !.tables = tables] = [later EXCEPT !.tables = tables]
      /\ \A sources :
           [request EXCEPT !.pc = pc, !.sources = sources] = [later EXCEPT !.sources = sources]
  BY DEF RequestType
<1> HIDE DEF later
<1>3. QED BY <1>1, <1>2 DEF RequestType

(* What is extracted from a statement are tables it mentions.              *)
LEMMA ExtractedTables ==
  ASSUME NEW s \in Statements
  PROVE  /\ extract_tables(s) \in Seq(Models)
         /\ {extract_tables(s)[i] : i \in DOMAIN extract_tables(s)} \subseteq Mentioned(s)
<1>1. s.tables \in Seq(Models) /\ (s.form = "join" => s.tables # <<>>)
  BY RestAssumption
<1>2. CASE s.form = "join"
  <2>1. extract_tables(s) = SubSeq(s.tables, 1, 1)
    BY <1>2 DEF extract_tables
  <2>2. Len(s.tables) \in Nat /\ Len(s.tables) >= 1
    BY <1>1, <1>2
  <2>3. /\ SubSeq(s.tables, 1, 1) \in Seq(Models)
        /\ DOMAIN SubSeq(s.tables, 1, 1) = 1 .. 1
        /\ SubSeq(s.tables, 1, 1)[1] = s.tables[1]
    BY <1>1, <2>2
  <2>4. 1 \in DOMAIN s.tables
    BY <1>1, <2>2
  <2>5. QED BY <2>1, <2>3, <2>4 DEF Mentioned
<1>3. CASE s.form # "join"
  BY <1>1, <1>3 DEF extract_tables, Mentioned
<1>4. QED BY <1>2, <1>3

LEMMA MentionedAreModels ==
  ASSUME NEW s \in Statements
  PROVE  Mentioned(s) \subseteq Models
BY RestAssumption DEF Mentioned

LEMMA NobodyIsNoRequest == \A r \in Requests : r # Nobody
BY RestAssumption

(* A step of one request leaves the views of no other in the making.       *)
LEMMA OthersNotRegistering ==
  ASSUME RegisteringHasLoop, NEW r \in Requests, loop \in {r, Nobody},
         \A q \in Requests \ {r} : requests'[q] = requests[q]
  PROVE  \A q \in Requests \ {r} : requests'[q].pc # "registering"
BY NobodyIsNoRequest DEF RegisteringHasLoop

(* ... and what it and they read is under their own token if its own is.   *)
LEMMA ReadsAreOwn ==
  ASSUME ExtractedTablesUnderOwnToken, NEW r \in Requests,
         \A q \in Requests \ {r} : requests'[q] = requests[q],
         requests'[r].pc = "awaiting" =>
           \A t \in OwnTables(requests'[r].statement) : requests'[r].sources[t] = r
  PROVE  ExtractedTablesUnderOwnToken'
<1>1. SUFFICES ASSUME NEW q \in Requests, requests'[q].pc = "awaiting",
                      NEW t \in OwnTables(requests'[q].statement)
               PROVE  requests'[q].sources[t] = q
  BY DEF ExtractedTablesUnderOwnToken
<1>2. CASE q = r
  BY <1>1, <1>2
<1>3. CASE q # r
  BY <1>1, <1>3 DEF ExtractedTablesUnderOwnToken
<1>4. QED BY <1>2, <1>3

LEMMA RestInitInv == RestInit => RestInv
<1> SUFFICES ASSUME RestInit PROVE RestInv
  OBVIOUS
<1>1. /\ NoSources \in [Models -> Requests \cup {Nobody}]
      /\ <<>> \in Seq(Models)
  BY DEF NoSources
<1>2. \A r \in Requests : \E s \in Statements :
        requests[r] = [pc |-> "received", statement |-> s, tables |-> <<>>,
                       sources |-> NoSources, status |-> 0]
  BY DEF RestInit
<1>3. RestTypeOK
  <2> DEFINE start(s) == [pc |-> "received", statement |-> s, tables |-> <<>>,
                          sources |-> NoSources, status |-> 0]
  <2>1. ASSUME NEW s \in Statements PROVE start(s) \in RequestType
    BY <1>1 DEF Pcs, RequestType, Statuses
  <2>2. requests \in [Requests -> {start(s) : s \in Statements}]
    BY DEF RestInit
  <2>3. {start(s) : s \in Statements} \subseteq RequestType
    BY <2>1
  <2> HIDE DEF start
  <2>4. requests \in [Requests -> RequestType]
    BY <2>2, <2>3
  <2>5. loop = Nobody /\ views = NoSources
    BY DEF RestInit
  <2>6. QED BY <1>1, <2>4, <2>5 DEF RestTypeOK
<1>4. \A r \in Requests : requests[r].pc = "received"
  <2>1. SUFFICES ASSUME NEW r \in Requests PROVE requests[r].pc = "received"
    OBVIOUS
  <2>2. PICK s \in Statements :
          requests[r] = [pc |-> "received", statement |-> s, tables |-> <<>>,
                         sources |-> NoSources, status |-> 0]
    BY <1>2
  <2>3. QED BY <2>2
<1>5. QED BY <1>3, <1>4
      DEF RestInv, RegisteringHasLoop, OwnViews, ExtractedTablesUnderOwnToken

(* A request that is not in a handler keeps what it registered and reads.  *)
LEMMA AnsweredInv ==
  ASSUME RestInv, NEW r \in Requests, NEW status \in Statuses, Answered(r, status),
         loop' \in {loop, Nobody}, loop \in {r, Nobody}, views' = views
  PROVE  RestInv'
<1> USE DEF RestInv
<1>1. /\ requests' = [requests EXCEPT ![r].pc = "answered", ![r].status = status]
      /\ requests'[r].pc = "answered"
      /\ \A q \in Requests \ {r} : requests'[q] = requests[q]
  BY DEF Answered, RestTypeOK, RequestType
<1>2. RestTypeOK'
  <2>1. "answered" \in Pcs /\ requests[r] \in RequestType
    BY DEF Pcs, RestTypeOK, RequestType
  <2>2. [requests[r] EXCEPT !.pc = "answered", !.status = status] \in RequestType
    BY <2>1, RequestChanges
  <2>3. requests' = [requests EXCEPT ![r] =
                       [requests[r] EXCEPT !.pc = "answered", !.status = status]]
    BY <1>1 DEF RestTypeOK, RequestType
  <2>4. QED BY <2>2, <2>3 DEF RestTypeOK, RequestType
<1>3. RegisteringHasLoop'
  BY <1>1, OthersNotRegistering DEF RegisteringHasLoop
<1>5. OwnViews'
  BY <1>1, OthersNotRegistering DEF OwnViews
<1>6. ExtractedTablesUnderOwnToken'
  BY <1>1, ReadsAreOwn
<1>7. QED BY <1>2, <1>3, <1>5, <1>6

LEMMA HandleInv ==
  ASSUME RestInv, NEW r \in Requests, Handle(r)
  PROVE  RestInv'
<1> USE DEF RestInv
<1> DEFINE s == requests[r].statement
           tables == IF s.handler = "query" THEN extract_tables(s) ELSE <<>>
<1>1. /\ loop = Nobody /\ loop' = r /\ views' = views
      /\ requests' = [requests EXCEPT ![r].pc = "registering", ![r].tables = tables]
      /\ s \in Statements /\ s.form \in {"list", "join"}
  BY DEF Handle, RestTypeOK, RequestType
<1>2. tables \in Seq(Models)
  BY <1>1, ExtractedTables
<1>3. /\ requests'[r] = [requests[r] EXCEPT !.pc = "registering", !.tables = tables]
      /\ \A q \in Requests \ {r} : requests'[q] = requests[q]
  BY <1>1 DEF RestTypeOK, RequestType
<1>4. /\ requests'[r].pc = "registering" /\ requests'[r].tables = tables
      /\ requests'[r].statement = s
  BY <1>3 DEF RestTypeOK, RequestType
<1>5. RestTypeOK'
  <2>1. "registering" \in Pcs /\ requests[r] \in RequestType
    BY DEF Pcs, RestTypeOK, RequestType
  <2>2. requests' = [requests EXCEPT ![r] =
                       [requests[r] EXCEPT !.pc = "registering", !.tables = tables]]
    BY <1>1 DEF RestTypeOK, RequestType
  <2> HIDE DEF tables
  <2>3. [requests[r] EXCEPT !.pc = "registering", !.tables = tables] \in RequestType
    BY <1>2, <2>1, RequestChanges
  <2>4. QED BY <1>1, <2>2, <2>3 DEF RestTypeOK, RequestType
<1>6. RegisteringHasLoop'
  BY <1>1, <1>3, <1>4, OthersNotRegistering DEF RegisteringHasLoop
<1>8. OwnViews'
  <2>1. \A q \in Requests \ {r} : requests'[q].pc # "registering"
    BY <1>1, <1>3, OthersNotRegistering
  <2>2. s.handler = "query" => OwnTables(requests[r].statement) = {tables[i] : i \in DOMAIN tables}
    BY DEF OwnTables
  <2> HIDE DEF tables
  <2>3. QED BY <1>4, <2>1, <2>2 DEF OwnViews
<1>9. ExtractedTablesUnderOwnToken'
  BY <1>3, <1>4, ReadsAreOwn
<1>10. QED BY <1>5, <1>6, <1>8, <1>9

LEMMA RegisterViewInv ==
  ASSUME RestInv, NEW r \in Requests, RegisterView(r)
  PROVE  RestInv'
<1> USE DEF RestInv
<1> DEFINE tables == requests[r].tables
<1>1. /\ loop = r /\ loop' = r /\ tables # <<>>
      /\ views' = [views EXCEPT ![Head(tables)] = r]
      /\ requests' = [requests EXCEPT ![r].tables = Tail(@)]
      /\ requests[r].pc = "registering"
  BY DEF RegisterView
<1>2. /\ tables \in Seq(Models) /\ Tail(tables) \in Seq(Models) /\ Head(tables) \in Models
      /\ \A i \in DOMAIN tables :
           tables[i] = Head(tables) \/ \E j \in DOMAIN Tail(tables) : Tail(tables)[j] = tables[i]
  <2>1. tables \in Seq(Models)
    BY DEF RestTypeOK, RequestType
  <2>2. Tail(tables) \in Seq(Models) /\ Head(tables) \in Models /\ Head(tables) = tables[1]
    BY <1>1, <2>1
  <2>3. ASSUME NEW i \in DOMAIN tables, i # 1
        PROVE  i - 1 \in DOMAIN Tail(tables) /\ Tail(tables)[i - 1] = tables[i]
    <3>1. /\ Len(tables) \in Nat /\ i \in 1 .. Len(tables)
          /\ Len(Tail(tables)) = Len(tables) - 1 /\ DOMAIN Tail(tables) = 1 .. Len(tables) - 1
      BY <1>1, <2>1
    <3> HIDE DEF tables
    <3>2. QED BY <2>1, <2>3, <3>1
  <2>4. QED BY <2>1, <2>2, <2>3
<1>3. /\ requests'[r] = [requests[r] EXCEPT !.tables = Tail(tables)]
      /\ \A q \in Requests \ {r} : requests'[q] = requests[q]
  BY <1>1 DEF RestTypeOK, RequestType
<1>4. /\ requests'[r].pc = "registering" /\ requests'[r].tables = Tail(tables)
      /\ requests'[r].statement = requests[r].statement
  BY <1>1, <1>3 DEF RestTypeOK, RequestType
<1>5. RestTypeOK'
  BY <1>1, <1>2 DEF RestTypeOK, RequestType
<1>6. RegisteringHasLoop'
  BY <1>1, <1>3, <1>4 DEF RegisteringHasLoop
<1>8. OwnViews'
  <2>1. \A q \in Requests \ {r} : requests'[q].pc # "registering"
    BY <1>1, <1>3, OthersNotRegistering
  <2>2. SUFFICES ASSUME requests[r].statement.handler = "query",
                        NEW t \in OwnTables(requests[r].statement)
                 PROVE  \/ views'[t] = r
                        \/ \E j \in DOMAIN Tail(tables) : Tail(tables)[j] = t
    <3> HIDE DEF tables
    <3>1. QED BY <1>4, <2>1 DEF OwnViews
  <2>3. CASE views[t] = r
    BY <1>1, <1>2, <2>3 DEF RestTypeOK, RequestType
  <2>4. CASE views[t] # r
    <3>1. PICK i \in DOMAIN tables : tables[i] = t
      BY <1>1, <2>2, <2>4 DEF OwnViews
    <3>2. CASE t = Head(tables)
      BY <1>1, <1>2, <3>2 DEF RestTypeOK, RequestType
    <3>3. CASE t # Head(tables)
      BY <1>2, <3>1, <3>3
    <3>4. QED BY <3>2, <3>3
  <2>5. QED BY <2>3, <2>4
<1>9. ExtractedTablesUnderOwnToken'
  BY <1>3, <1>4, ReadsAreOwn
<1>10. QED BY <1>5, <1>6, <1>8, <1>9

LEMMA AnalyseInv ==
  ASSUME RestInv, NEW r \in Requests, Analyse(r)
  PROVE  RestInv'
<1> USE DEF RestInv
<1> DEFINE s == requests[r].statement
<1>1. /\ loop = r /\ loop' = Nobody /\ views' = views
      /\ requests[r].pc = "registering" /\ requests[r].tables = <<>>
      /\ requests' = [requests EXCEPT ![r].pc = "awaiting", ![r].sources = Sources(r)]
  BY DEF Analyse
<1>2. Sources(r) \in [Models -> Requests \cup {Nobody}]
  BY DEF Sources, RestTypeOK, RequestType
<1>3. /\ requests'[r] = [requests[r] EXCEPT !.pc = "awaiting", !.sources = Sources(r)]
      /\ \A q \in Requests \ {r} : requests'[q] = requests[q]
  BY <1>1 DEF RestTypeOK, RequestType
<1>4. /\ requests'[r].pc = "awaiting" /\ requests'[r].sources = Sources(r)
      /\ requests'[r].statement = s
  BY <1>3 DEF RestTypeOK, RequestType
<1>5. RestTypeOK'
  <2>1. "awaiting" \in Pcs /\ requests[r] \in RequestType
    BY DEF Pcs, RestTypeOK, RequestType
  <2>2. requests' = [requests EXCEPT ![r] =
                       [requests[r] EXCEPT !.pc = "awaiting", !.sources = Sources(r)]]
    BY <1>1 DEF RestTypeOK, RequestType
  <2>3. [requests[r] EXCEPT !.pc = "awaiting", !.sources = Sources(r)] \in RequestType
    BY <1>2, <2>1, RequestChanges
  <2>4. QED BY <1>1, <2>2, <2>3 DEF RestTypeOK, RequestType
<1>6. RegisteringHasLoop'
  BY <1>1, <1>3, <1>4, OthersNotRegistering DEF RegisteringHasLoop
<1>8. OwnViews'
  <2>1. \A q \in Requests : requests'[q].pc # "registering"
    BY <1>1, <1>3, <1>4, OthersNotRegistering
  <2>2. QED BY <2>1 DEF OwnViews
<1>9. \A t \in OwnTables(requests[r].statement) : Sources(r)[t] = r
  <2>1. SUFFICES ASSUME NEW t \in OwnTables(requests[r].statement) PROVE Sources(r)[t] = r
    OBVIOUS
  <2>2. CASE s.handler = "query"
    <3>1. views[t] = r
      BY <1>1, <2>2 DEF OwnViews
    <3>2. t \in Mentioned(s) /\ Mentioned(s) \subseteq Models
      BY <2>2, ExtractedTables, MentionedAreModels DEF OwnTables, RestTypeOK, RequestType
    <3>3. QED BY <2>2, <3>1, <3>2 DEF Sources
  <2>3. CASE s.handler # "query"
    <3>1. t \in Mentioned(s) /\ Mentioned(s) \subseteq Models
      BY <2>3, MentionedAreModels DEF OwnTables, RestTypeOK, RequestType
    <3>2. QED BY <2>3, <3>1 DEF Sources
  <2>4. QED BY <2>2, <2>3
<1>10. ExtractedTablesUnderOwnToken'
  BY <1>3, <1>4, <1>9, ReadsAreOwn
<1>11. QED BY <1>5, <1>6, <1>8, <1>10

LEMMA RestStepInv ==
  ASSUME RestInv, [RestNext]_restVars
  PROVE  RestInv'
<1>1. CASE UNCHANGED restVars
  BY <1>1 DEF RestInv, RestTypeOK, RequestType, RegisteringHasLoop, OwnViews,
              ExtractedTablesUnderOwnToken, restVars
<1>2. CASE RestNext
  <2>1. PICK r \in Requests : HandlerStep(r) \/ \E status \in {200, 500} : Respond(r, status)
    BY <1>2 DEF RestNext
  <2>2. CASE Refuse(r)
    <3>1. PICK status \in {400, 500} : Answered(r, status)
      BY <2>2 DEF Refuse, Refused
    <3>2. QED BY <2>2, <3>1, AnsweredInv DEF Refuse, Statuses
  <2>3. CASE AnalysisFails(r)
    BY <2>3, AnsweredInv DEF AnalysisFails, Statuses
  <2>4. CASE \E status \in {200, 500} : Respond(r, status)
    BY <2>4, AnsweredInv DEF Respond, Statuses
  <2>5. QED BY <2>1, <2>2, <2>3, <2>4, HandleInv, RegisterViewInv, AnalyseInv DEF HandlerStep
<1>3. QED BY <1>1, <1>2

(* Of the REST service alone: whatever requests register in between, a     *)
(* request reads its tables under its own token.                           *)
THEOREM OwnTokenInRestService == RestSpec => []ExtractedTablesUnderOwnToken
<1>1. RestSpec => []RestInv
  BY RestInitInv, RestStepInv, PTL DEF RestSpec
<1>2. RestInv => ExtractedTablesUnderOwnToken
  BY DEF RestInv
<1>3. QED BY <1>1, <1>2, PTL

---------------------------------------------------------------------------
(* The service implements its parts: what it does to the tables is what    *)
(* the owner does, what it does with requests the REST service alone.      *)

LEMMA StepOfParts ==
  ASSUME [Next]_vars
  PROVE  [StoreNext]_storeVars /\ [RestNext]_restVars
<1>1. CASE UNCHANGED vars
  BY <1>1 DEF vars
<1>2. CASE OwnerStep
  BY <1>2 DEF OwnerStep
<1>3. CASE ExecutorLost
  BY <1>3 DEF ExecutorLost
<1>4. ASSUME NEW r \in Requests, RequestStep(r)
      PROVE  [StoreNext]_storeVars /\ [RestNext]_restVars
  <2>1. CASE Serve(r)
    BY <2>1 DEF Serve, RestNext
  <2>2. CASE ListFiles(r)
    BY <2>2 DEF ListFiles
  <2>3. CASE NextJob(r)
    BY <2>3 DEF NextJob
  <2>4. CASE Answer(r)
    BY <2>4 DEF Answer, RestNext
  <2>5. CASE JobFailed(r)
    BY <2>5 DEF JobFailed, RestNext
  <2>6. QED BY <1>4, <2>1, <2>2, <2>3, <2>4, <2>5 DEF RequestStep
<1>5. ASSUME NEW r \in Requests, NEW t \in Models, NEW p \in Slices, TaskStep(r, t, p)
      PROVE  [StoreNext]_storeVars /\ [RestNext]_restVars
  BY <1>5 DEF TaskStep, CallEnds, TakeResult, ReadPart, MakeCall
<1>6. QED BY <1>1, <1>2, <1>3, <1>4, <1>5 DEF Next, ServiceStep

(* Refinement: every behaviour of the service is one of the table store.   *)
THEOREM ImplementsStore == Spec => StoreSpec
<1>1. Init => StoreInit
  BY DEF Init
<1>2. [Next]_vars => [StoreNext]_storeVars
  BY StepOfParts
<1>3. QED BY <1>1, <1>2, PTL DEF Spec, StoreSpec

(* Refinement: every behaviour of the service is one of the REST service,  *)
(* in which results may come at any time and be of any kind.               *)
THEOREM ImplementsRest == Spec => RestSpec
<1>1. Init => RestInit
  BY DEF Init
<1>2. [Next]_vars => [RestNext]_restVars
  BY StepOfParts
<1>3. QED BY <1>1, <1>2, PTL DEF Spec, RestSpec

(* Queries and lost executors do not disturb QOutsource.                   *)
THEOREM TablesWholeInService == Spec => []ReturnedTableIsWhole
<1>1. QED BY ImplementsStore, WholeWhenReturned, PTL

THEOREM SchemaNeverAheadInService == Spec => []DataNotOlderThanSchema
<1>1. QED BY ImplementsStore, SchemaNeverAhead, PTL

(* In the service as in the REST service alone a request reads its tables  *)
(* under its own token.                                                    *)
THEOREM OwnToken == Spec => []ExtractedTablesUnderOwnToken
<1>1. QED BY ImplementsRest, OwnTokenInRestService, PTL

---------------------------------------------------------------------------
(* The calls into the enclave. Attestation is lost with the first JVM, and *)
(* a call comes back well only if it was made before that and is over: the *)
(* calls in progress are lost with their executor.                         *)

ExecutorTypeOK ==
  /\ executor \in [jvm : Nat, enclave : {"none", "running", "crashed"}, attested : BOOLEAN]
  /\ executor.attested <=> executor.jvm = 0
  /\ calls = [c \in Callers |-> calls[c]]

GoodCall(call) ==
  \/ call.pc = "inside" /\ call.result.outcome = "ok"
  \/ call.pc = "returned" /\ ~ call.exception

GoodCallsAttested == \A c \in Callers : GoodCall(calls[c]) => executor.attested

CallInv == ExecutorTypeOK /\ GoodCallsAttested

LEMMA CallInitInv == CallInit => CallInv
BY DEF CallInit, CallInv, ExecutorTypeOK, GoodCallsAttested, GoodCall, NoCall

(* A new state of one call that is good only in an attested enclave.       *)
LEMMA OneCallInv ==
  ASSUME CallInv, NEW c \in Callers, NEW call,
         calls' = [calls EXCEPT ![c] = call],
         NEW enclave \in {"none", "running", "crashed"},
         executor' = [executor EXCEPT !.enclave = enclave],
         GoodCall(call) => executor.attested
  PROVE  CallInv' /\ executor'.jvm = executor.jvm
<1> USE DEF CallInv
<1>1. /\ executor' \in [jvm : Nat, enclave : {"none", "running", "crashed"}, attested : BOOLEAN]
      /\ executor'.jvm = executor.jvm /\ executor'.attested = executor.attested
  BY DEF ExecutorTypeOK
<1>2. /\ calls' = [k \in Callers |-> calls'[k]]
      /\ \A k \in Callers : calls'[k] = IF k = c THEN call ELSE calls[k]
  BY DEF ExecutorTypeOK
<1>3. ExecutorTypeOK'
  BY <1>1, <1>2 DEF ExecutorTypeOK
<1>4. GoodCallsAttested'
  BY <1>1, <1>2 DEF GoodCallsAttested
<1>5. QED BY <1>1, <1>3, <1>4

(* The executor is lost and all calls with it.                             *)
LEMMA LossInv ==
  ASSUME CallInv, executor' = LostExecutor, calls' = [k \in Callers |-> NoCall]
  PROVE  CallInv' /\ executor'.jvm = executor.jvm + 1
<1>1. /\ executor'.jvm = executor.jvm + 1 /\ executor.jvm \in Nat
      /\ executor' \in [jvm : Nat, enclave : {"none", "running", "crashed"}, attested : BOOLEAN]
      /\ executor'.attested = FALSE
  BY DEF CallInv, ExecutorTypeOK, LostExecutor
<1>2. \A k \in Callers : ~ GoodCall(calls'[k])
  BY DEF GoodCall, NoCall
<1>3. QED BY <1>1, <1>2 DEF CallInv, ExecutorTypeOK, GoodCallsAttested

LEMMA ReturnNothingInv ==
  ASSUME CallInv, NEW c \in Callers, NEW op, NEW block, NEW status, NEW thrown,
         NEW enclave \in {"none", "running", "crashed"},
         status # "SGX_SUCCESS" \/ thrown = TRUE,
         ReturnNothing(c, op, block, status, thrown, enclave)
  PROVE  CallInv'
<1>1. ~ GoodCall(JniReturn(op, block, status, thrown, NoBlock))
  BY DEF GoodCall, JniReturn
<1>2. CASE /\ calls' = [calls EXCEPT ![c] = JniReturn(op, block, status, thrown, NoBlock)]
           /\ executor' = [executor EXCEPT !.enclave = enclave]
  BY <1>1, <1>2, OneCallInv
<1>3. CASE executor' = LostExecutor /\ calls' = [k \in Callers |-> NoCall]
  BY <1>3, LossInv
<1>4. QED BY <1>2, <1>3 DEF ReturnNothing

(* An ecall gives a block only to an attested enclave.                     *)
LEMMA OkIfAttested ==
  ASSUME NEW op, NEW block, Ecall(op, block).outcome = "ok"
  PROVE  executor.attested
BY DEF Ecall, Fails

LEMMA CallStepInv ==
  ASSUME CallInv, NEW c \in Callers,
         \/ \E op, block : Call(c, op, block)
         \/ Leave(c) \/ Take(c) \/ LoseExecutor \/ UNCHANGED callVars
  PROVE  CallInv'
<1>0. /\ executor.enclave \in {"none", "running", "crashed"}
      /\ initEnclave \in {"none", "running", "crashed"}
      /\ executor = [executor EXCEPT !.enclave = executor.enclave]
  BY DEF CallInv, ExecutorTypeOK, initEnclave
<1>1. ASSUME NEW op, NEW block, Enter(c, op, block) PROVE CallInv'
  <2> DEFINE call == [pc |-> "inside", op |-> op, input |-> block, result |-> Ecall(op, block)]
  <2>1. /\ calls' = [calls EXCEPT ![c] = call]
        /\ executor' = [executor EXCEPT !.enclave = "running"]
    BY <1>1 DEF Enter
  <2>2. GoodCall(call) => executor.attested
    BY OkIfAttested DEF GoodCall
  <2> HIDE DEF call
  <2>3. QED BY <2>1, <2>2, OneCallInv
<1>2. ASSUME NEW op, NEW block, TurnedAway(c, op, block) PROVE CallInv'
  <2>1. \/ ReturnNothing(c, op, block, "SGX_ERROR_ENCLAVE_CRASHED", FALSE, initEnclave)
        \/ ReturnNothing(c, op, block, "SGX_ERROR_OUT_OF_TCS", FALSE, initEnclave)
    BY <1>2 DEF TurnedAway
  <2>2. /\ "SGX_ERROR_ENCLAVE_CRASHED" # "SGX_SUCCESS"
        /\ "SGX_ERROR_OUT_OF_TCS" # "SGX_SUCCESS"
    OBVIOUS
  <2>3. QED BY <1>0, <2>1, <2>2, ReturnNothingInv
<1>3. ASSUME NEW op, NEW block, NoInputArray(c, op, block) PROVE CallInv'
  <2>1. ReturnNothing(c, op, block, "SGX_SUCCESS", TRUE, initEnclave)
    BY <1>3 DEF NoInputArray
  <2>2. QED BY <1>0, <2>1, ReturnNothingInv
<1>4. CASE LeaveOk(c)
  <2> DEFINE call == JniReturn(calls[c].op, calls[c].input, "SGX_SUCCESS", FALSE, calls[c].result.block)
  <2>1. calls' = [calls EXCEPT ![c] = call] /\ executor' = executor
    BY <1>4 DEF LeaveOk
  <2>2. executor.attested
    BY <1>4 DEF LeaveOk, CallInv, GoodCallsAttested, GoodCall
  <2> HIDE DEF call
  <2>3. QED BY <1>0, <2>1, <2>2, OneCallInv
<1>5. CASE LeaveThrowing(c)
  BY <1>0, <1>5, ReturnNothingInv DEF LeaveThrowing
<1>6. CASE LeaveCrashing(c) \/ LeaveCrashed(c)
  <2>1. ReturnNothing(c, calls[c].op, calls[c].input, "SGX_ERROR_ENCLAVE_CRASHED", FALSE, "crashed")
    BY <1>6 DEF LeaveCrashing, LeaveCrashed
  <2>2. "SGX_ERROR_ENCLAVE_CRASHED" # "SGX_SUCCESS"
    OBVIOUS
  <2>3. QED BY <2>1, <2>2, ReturnNothingInv
<1>7. CASE Take(c)
  <2>1. calls' = [calls EXCEPT ![c] = NoCall] /\ executor' = executor
    BY <1>7 DEF Take
  <2>2. ~ GoodCall(NoCall)
    BY DEF GoodCall, NoCall
  <2>3. QED BY <1>0, <2>1, <2>2, OneCallInv
<1>8. CASE LoseExecutor
  BY <1>8, LossInv DEF LoseExecutor
<1>9. CASE UNCHANGED callVars
  BY <1>9 DEF callVars, CallInv, ExecutorTypeOK, GoodCallsAttested
<1>10. QED BY <1>1, <1>2, <1>3, <1>4, <1>5, <1>6, <1>7, <1>8, <1>9 DEF Call, Leave

---------------------------------------------------------------------------
(* The jobs. A cached block that has been through more than its scan was   *)
(* computed in the first JVM, and every block of an answer has been        *)
(* through the last operator.                                              *)

CachedType(B) == [stage : Nat, block : B, jvm : Nat]

JobType(B) ==
  [stage : Nat, failed : BOOLEAN, undisturbed : BOOLEAN,
   files : [Models -> SUBSET (Slices \cup NotListed)],
   cached : [Models \X Slices -> CachedType(B)],
   failures : [Models \X Slices -> Nat],
   version : [Models -> Nat]]

ComputedByFirst(r, job) ==
  \A t \in Models, p \in Slices :
    /\ job.cached[<<t, p>>].stage <= LastStage(r)
    /\ job.cached[<<t, p>>].stage # 0 /\ OpOf(r, job.cached[<<t, p>>].stage) # Scan
         => job.cached[<<t, p>>].jvm = 0

AllPrepared(r, job) ==
  \A t \in Mentioned(requests[r].statement) : \A p \in job.files[t] \ NotListed :
    LastStage(r) <= job.cached[<<t, p>>].stage

JobsInv ==
  /\ \E B : jobs \in [Requests -> JobType(B)]
  /\ \A r \in Requests :
       /\ ComputedByFirst(r, jobs[r])
       /\ Answered200(r) => AllPrepared(r, jobs[r])

LEMMA JobTypeGrows ==
  ASSUME NEW B, NEW C, B \subseteq C
  PROVE  JobType(B) \subseteq JobType(C)
<1>1. CachedType(B) \subseteq CachedType(C)
  BY DEF CachedType
<1>2. [Models \X Slices -> CachedType(B)] \subseteq [Models \X Slices -> CachedType(C)]
  BY <1>1
<1>3. QED BY <1>2 DEF JobType

(* How many operators a query has and which they are does not change.      *)
LEMMA ShapeKept ==
  ASSUME RestInv, [RestNext]_restVars
  PROVE  \A r \in Requests :
           /\ requests'[r].statement = requests[r].statement
           /\ LastStage(r)' = LastStage(r)
           /\ \A k : OpOf(r, k)' = OpOf(r, k)
<1>1. ASSUME NEW r \in Requests PROVE requests'[r].statement = requests[r].statement
  <2>1. CASE UNCHANGED restVars
    BY <2>1 DEF restVars
  <2>2. CASE RestNext
    <3>1. requests \in [Requests -> RequestType]
      BY DEF RestInv, RestTypeOK, RequestType
    <3>2. PICK q \in Requests : HandlerStep(q) \/ \E status \in {200, 500} : Respond(q, status)
      BY <2>2 DEF RestNext
    <3>3. CASE Refuse(q)
      BY <3>1, <3>3 DEF Refuse, Answered
    <3>4. CASE Handle(q)
      BY <3>1, <3>4 DEF Handle
    <3>5. CASE RegisterView(q)
      BY <3>1, <3>5 DEF RegisterView
    <3>6. CASE Analyse(q)
      BY <3>1, <3>6 DEF Analyse
    <3>7. CASE AnalysisFails(q) \/ \E status \in {200, 500} : Respond(q, status)
      <4>1. PICK status \in {200, 500} : Answered(q, status)
        BY <3>7 DEF AnalysisFails, Respond
      <4>2. QED BY <3>1, <4>1 DEF Answered
    <3>8. QED BY <3>2, <3>3, <3>4, <3>5, <3>6, <3>7 DEF HandlerStep
  <2>3. QED BY <2>1, <2>2
<1>2. QED BY <1>1 DEF LastStage, OpOf, Scans, Scan, ACPolicyApplied, ResPrepared

LEMMA LastIsNat ==
  ASSUME RestInv, NEW r \in Requests
  PROVE  /\ Scans(r) \in Nat /\ LastStage(r) \in Nat \ {0}
         /\ OpOf(r, LastStage(r)) # Scan
         /\ Under(r, LastStage(r)) = Mentioned(requests[r].statement)
         /\ Mentioned(requests[r].statement) \subseteq Models
<1>1. requests[r].statement \in Statements
  BY DEF RestInv, RestTypeOK, RequestType
<1>2. Len(requests[r].statement.tables) \in Nat
  BY <1>1, RestAssumption
<1>3. Scans(r) \in Nat /\ LastStage(r) = Scans(r) + 2
  BY <1>2 DEF Scans, LastStage
<1>4. OpOf(r, LastStage(r)) = ResPrepared
  BY <1>3 DEF OpOf
<1>5. ResPrepared # Scan
  <2>1. ResPrepared.name # Scan.name
    BY DEF ResPrepared, Scan
  <2>2. QED BY <2>1
<1>6. QED BY <1>1, <1>3, <1>4, <1>5, MentionedAreModels DEF Under

(* A step of one request's job.                                            *)
LEMMA JobStep ==
  ASSUME RestInv, JobsInv, [RestNext]_restVars, NEW r \in Requests,
         NEW B, NEW job \in JobType(B),
         jobs' = [jobs EXCEPT ![r] = job],
         \A q \in Requests \ {r} : requests'[q] = requests[q],
         ComputedByFirst(r, job),
         Answered200(r)' => AllPrepared(r, job)
  PROVE  JobsInv'
<1>1. PICK C : jobs \in [Requests -> JobType(C)]
  BY DEF JobsInv
<1>2. JobType(B) \subseteq JobType(B \cup C) /\ JobType(C) \subseteq JobType(B \cup C)
  BY JobTypeGrows
<1>3. jobs' \in [Requests -> JobType(B \cup C)]
  BY <1>1, <1>2
<1>4. \A q \in Requests : jobs'[q] = IF q = r THEN job ELSE jobs[q]
  BY <1>1
<1>5. ASSUME NEW q \in Requests
      PROVE  /\ ComputedByFirst(q, jobs[q])'
             /\ Answered200(q)' => AllPrepared(q, jobs[q])'
  <2>1. /\ requests'[q].statement = requests[q].statement
        /\ LastStage(q)' = LastStage(q)
        /\ \A k : OpOf(q, k)' = OpOf(q, k)
    BY ShapeKept
  <2>2. CASE q = r
    <3>1. jobs'[q] = job
      BY <1>4, <2>2
    <3>2. QED BY <2>1, <2>2, <3>1 DEF ComputedByFirst, AllPrepared
  <2>3. CASE q # r
    <3>1. jobs'[q] = jobs[q] /\ requests'[q] = requests[q]
      BY <1>4, <2>3
    <3>2. QED BY <2>1, <3>1 DEF JobsInv, ComputedByFirst, AllPrepared, Answered200
  <2>4. QED BY <2>2, <2>3
<1>6. QED BY <1>3, <1>5 DEF JobsInv

(* A step that is not about requests leaves every job, or takes the blocks *)
(* of those that are not answered.                                         *)
LEMMA LossStep ==
  ASSUME RestInv, JobsInv, UNCHANGED restVars, jobs' = jobs \/ jobs' = AfterLoss
  PROVE  JobsInv'
<1>0. /\ [RestNext]_restVars /\ requests' = requests
  BY DEF restVars
<1>1. PICK B : jobs \in [Requests -> JobType(B)]
  BY DEF JobsInv
<1> DEFINE C == B \cup {NoBlock}
           lost(r) == [jobs[r] EXCEPT !.cached = [tp \in Models \X Slices |-> NotCached]]
<1>2. jobs \in [Requests -> JobType(C)]
  <2>1. JobType(B) \subseteq JobType(C)
    BY JobTypeGrows
  <2>2. QED BY <1>1, <2>1
<1>3. ASSUME NEW r \in Requests
      PROVE  /\ lost(r) \in JobType(C)
             /\ lost(r).files = jobs[r].files
             /\ lost(r).cached = [tp \in Models \X Slices |-> NotCached]
  <2>1. [tp \in Models \X Slices |-> NotCached] \in [Models \X Slices -> CachedType(C)]
    BY DEF NotCached, CachedType
  <2> HIDE DEF C
  <2>2. QED BY <1>2, <2>1 DEF JobType
<1>4. ASSUME NEW r \in Requests
      PROVE  ComputedByFirst(r, lost(r))
  BY <1>3, LastIsNat DEF ComputedByFirst, NotCached
<1>5. ASSUME NEW r \in Requests
      PROVE  /\ jobs'[r] \in JobType(C)
             /\ jobs'[r] = jobs[r] \/ (jobs'[r] = lost(r) /\ requests[r].pc # "answered")
  <2> HIDE DEF C
  <2>1. CASE jobs' = jobs
    BY <1>2, <2>1
  <2>2. CASE jobs' = AfterLoss
    <3> HIDE DEF lost
    <3>1. jobs'[r] = IF requests[r].pc = "answered" THEN jobs[r] ELSE lost(r)
      BY <2>2 DEF AfterLoss, lost
    <3>2. QED BY <1>2, <1>3, <3>1
  <2>3. QED BY <2>1, <2>2
<1>6. jobs' \in [Requests -> JobType(C)]
  <2> HIDE DEF C
  <2>1. jobs' = [r \in Requests |-> jobs'[r]]
    BY <1>1 DEF AfterLoss
  <2>2. QED BY <1>5, <2>1
<1>7. ASSUME NEW r \in Requests
      PROVE  /\ ComputedByFirst(r, jobs[r])'
             /\ Answered200(r)' => AllPrepared(r, jobs[r])'
  <2>1. /\ LastStage(r)' = LastStage(r)
        /\ \A k : OpOf(r, k)' = OpOf(r, k)
    BY <1>0, ShapeKept
  <2>2. ComputedByFirst(r, jobs'[r])
    BY <1>4, <1>5 DEF JobsInv
  <2>3. ComputedByFirst(r, jobs[r])'
    BY <2>1, <2>2 DEF ComputedByFirst
  <2>4. ASSUME Answered200(r)' PROVE AllPrepared(r, jobs[r])'
    <3>1. Answered200(r) /\ jobs'[r] = jobs[r]
      BY <1>0, <1>5, <2>4 DEF Answered200
    <3>2. QED BY <1>0, <2>1, <3>1 DEF JobsInv, AllPrepared
  <2>5. QED BY <2>3, <2>4
<1>8. QED BY <1>6, <1>7 DEF JobsInv

(* No handler answers 200, and none runs for a request that is answered.   *)
LEMMA HandlerNot200 ==
  ASSUME RestInv, NEW r \in Requests, HandlerStep(r)
  PROVE  /\ ~ Answered200(r)'
         /\ \A q \in Requests \ {r} : requests'[q] = requests[q]
<1>1. requests \in [Requests -> RequestType]
  BY DEF RestInv, RestTypeOK, RequestType
<1>2. CASE Refuse(r) \/ AnalysisFails(r)
  <2>1. PICK status \in {400, 500} : Answered(r, status)
    BY <1>2 DEF Refuse, Refused, AnalysisFails
  <2>2. QED BY <1>1, <2>1 DEF Answered, Answered200
<1>3. CASE Handle(r)
  BY <1>1, <1>3 DEF Handle, Answered200
<1>4. CASE RegisterView(r)
  BY <1>1, <1>4 DEF RegisterView, Answered200
<1>5. CASE Analyse(r)
  BY <1>1, <1>5 DEF Analyse, Answered200
<1>6. QED BY <1>2, <1>3, <1>4, <1>5 DEF HandlerStep

ServiceInv ==
  /\ RestInv
  /\ StoreInv
  /\ CallInv
  /\ JobsInv

LEMMA ServeInv ==
  ASSUME ServiceInv, NEW r \in Requests, Serve(r)
  PROVE  JobsInv'
<1> USE DEF ServiceInv
<1>1. HandlerStep(r) /\ [RestNext]_restVars
  BY DEF Serve, RestNext
<1>2. /\ ~ Answered200(r)'
      /\ \A q \in Requests \ {r} : requests'[q] = requests[q]
  BY <1>1, HandlerNot200
<1>3. PICK B : jobs \in [Requests -> JobType(B)]
  BY DEF JobsInv
<1>4. CASE jobs' = jobs
  <2>1. jobs' = [jobs EXCEPT ![r] = jobs[r]] /\ jobs[r] \in JobType(B)
    BY <1>3, <1>4
  <2>2. ComputedByFirst(r, jobs[r])
    BY DEF JobsInv
  <2>3. QED BY <1>1, <1>2, <2>1, <2>2, JobStep
<1>5. CASE jobs' = [jobs EXCEPT ![r] = Submitted]
  <2>1. NotCached \in CachedType({NoBlock})
    BY DEF NotCached, CachedType
  <2>2. [t \in Models |-> complete[t]] \in [Models -> Nat]
    BY ServiceAssumption DEF StoreInv, StoreTypeOK
  <2>3. NoJob \in JobType({NoBlock})
    BY <2>1 DEF NoJob, JobType, NotListed
  <2>4. /\ Submitted \in JobType({NoBlock})
        /\ Submitted.cached = [tp \in Models \X Slices |-> NotCached]
    BY <2>2, <2>3 DEF Submitted, JobType, NoJob
  <2>5. ComputedByFirst(r, Submitted)
    BY <2>4, LastIsNat DEF ComputedByFirst, NotCached
  <2>6. QED BY <1>1, <1>2, <1>5, <2>4, <2>5, JobStep
<1>6. QED BY <1>4, <1>5 DEF Serve

(* What a step may do to a job in progress: it is not answered then.       *)
LEMMA RunningStep ==
  ASSUME ServiceInv, NEW r \in Requests, Running(r), UNCHANGED restVars,
         NEW B, NEW job \in JobType(B),
         jobs' = [jobs EXCEPT ![r] = job], ComputedByFirst(r, job)
  PROVE  JobsInv'
<1>1. [RestNext]_restVars /\ requests' = requests
  BY DEF restVars
<1>2. ~ Answered200(r)'
  BY <1>1 DEF Running, Answered200
<1>3. QED BY <1>1, <1>2, JobStep DEF ServiceInv

LEMMA ListFilesInv ==
  ASSUME ServiceInv, NEW r \in Requests, ListFiles(r)
  PROVE  JobsInv'
<1> USE DEF ServiceInv
<1>1. PICK B : jobs \in [Requests -> JobType(B)]
  BY DEF JobsInv
<1>2. PICK t \in Models :
        \/ jobs' = [jobs EXCEPT ![r].files[t] = Present(t)]
        \/ jobs' = [jobs EXCEPT ![r].failed = TRUE]
  BY DEF ListFiles
<1>3. Running(r) /\ UNCHANGED restVars /\ ComputedByFirst(r, jobs[r])
  BY DEF ListFiles, JobsInv
<1>4. CASE jobs' = [jobs EXCEPT ![r].files[t] = Present(t)]
  <2> DEFINE job == [jobs[r] EXCEPT !.files[t] = Present(t)]
  <2>1. Present(t) \in SUBSET (Slices \cup NotListed)
    BY DEF Present
  <2>2. job \in JobType(B) /\ job.cached = jobs[r].cached
    BY <1>1, <2>1 DEF JobType
  <2>3. jobs' = [jobs EXCEPT ![r] = job]
    BY <1>4
  <2> HIDE DEF job
  <2>4. ComputedByFirst(r, job)
    BY <1>3, <2>2 DEF ComputedByFirst
  <2>5. QED BY <1>3, <2>2, <2>3, <2>4, RunningStep
<1>5. CASE jobs' = [jobs EXCEPT ![r].failed = TRUE]
  <2> DEFINE job == [jobs[r] EXCEPT !.failed = TRUE]
  <2>1. job \in JobType(B) /\ job.cached = jobs[r].cached
    BY <1>1 DEF JobType
  <2>2. jobs' = [jobs EXCEPT ![r] = job]
    BY <1>5
  <2> HIDE DEF job
  <2>3. ComputedByFirst(r, job)
    BY <1>3, <2>1 DEF ComputedByFirst
  <2>4. QED BY <1>3, <2>1, <2>2, <2>3, RunningStep
<1>6. QED BY <1>2, <1>4, <1>5

LEMMA NextJobInv ==
  ASSUME ServiceInv, NEW r \in Requests, NextJob(r)
  PROVE  JobsInv'
<1> USE DEF ServiceInv
<1> DEFINE none == [tp \in Models \X Slices |-> 0]
           job == [jobs[r] EXCEPT !.stage = @ + 1, !.failures = none]
<1>1. PICK B : jobs \in [Requests -> JobType(B)]
  BY DEF JobsInv
<1>2. Running(r) /\ UNCHANGED restVars /\ ComputedByFirst(r, jobs[r])
  BY DEF NextJob, JobsInv
<1>3. none \in [Models \X Slices -> Nat]
  OBVIOUS
<1>4. jobs' = [jobs EXCEPT ![r].stage = @ + 1, ![r].failures = none]
  BY DEF NextJob
<1> HIDE DEF none
<1>5. job \in JobType(B) /\ job.cached = jobs[r].cached
  <2> DEFINE moved == [jobs[r] EXCEPT !.stage = @ + 1]
  <2>1. jobs[r] \in JobType(B)
    BY <1>1
  <2>2. moved \in JobType(B) /\ moved.cached = jobs[r].cached
    BY <2>1 DEF JobType
  <2>3. job = [moved EXCEPT !.failures = none]
    BY <2>1 DEF JobType
  <2> HIDE DEF moved, job
  <2>4. QED BY <1>3, <2>2, <2>3 DEF JobType
<1>6. jobs' = [jobs EXCEPT ![r] = job]
  BY <1>1, <1>4 DEF JobType
<1> HIDE DEF job
<1>7. ComputedByFirst(r, job)
  BY <1>2, <1>5 DEF ComputedByFirst
<1>8. QED BY <1>2, <1>5, <1>6, <1>7, RunningStep

LEMMA AnswerInv ==
  ASSUME ServiceInv, NEW r \in Requests, Answer(r)
  PROVE  JobsInv'
<1> USE DEF ServiceInv
<1> DEFINE still == \A t \in Under(r, LastStage(r)) :
                      complete[t] # 0 /\ complete[t] = jobs[r].version[t]
           job == [jobs[r] EXCEPT !.undisturbed = still]
<1>1. PICK B : jobs \in [Requests -> JobType(B)]
  BY DEF JobsInv
<1>2. /\ [RestNext]_restVars /\ Respond(r, 200) /\ StageComplete(r, LastStage(r))
      /\ ComputedByFirst(r, jobs[r])
      /\ jobs' = [jobs EXCEPT ![r].undisturbed = still]
  BY DEF Answer, RestNext, JobsInv
<1>3. still \in BOOLEAN
  OBVIOUS
<1> HIDE DEF still
<1>4. /\ job \in JobType(B)
      /\ job.cached = jobs[r].cached /\ job.files = jobs[r].files
  BY <1>1, <1>3 DEF JobType
<1>5. jobs' = [jobs EXCEPT ![r] = job]
  BY <1>2
<1> HIDE DEF job
<1>6. ComputedByFirst(r, job)
  BY <1>2, <1>4 DEF ComputedByFirst
<1>7. AllPrepared(r, job)
  BY <1>2, <1>4, LastIsNat DEF AllPrepared, StageComplete, Partitions
<1>8. \A q \in Requests \ {r} : requests'[q] = requests[q]
  BY <1>2 DEF Respond, Answered, RestInv, RestTypeOK, RequestType
<1>9. QED BY <1>2, <1>4, <1>5, <1>6, <1>7, <1>8, JobStep

LEMMA JobFailedInv ==
  ASSUME ServiceInv, NEW r \in Requests, JobFailed(r)
  PROVE  JobsInv'
<1> USE DEF ServiceInv
<1>1. PICK B : jobs \in [Requests -> JobType(B)]
  BY DEF JobsInv
<1>2. /\ [RestNext]_restVars /\ Answered(r, 500) /\ ComputedByFirst(r, jobs[r])
      /\ jobs' = [jobs EXCEPT ![r] = jobs[r]] /\ jobs[r] \in JobType(B)
  BY <1>1 DEF JobFailed, Respond, RestNext, JobsInv
<1>3. /\ ~ Answered200(r)'
      /\ \A q \in Requests \ {r} : requests'[q] = requests[q]
  BY <1>2 DEF Answered, Answered200, RestInv, RestTypeOK, RequestType
<1>4. QED BY <1>2, <1>3, JobStep

(* A task that fails.                                                      *)
LEMMA FailureStep ==
  ASSUME ServiceInv, NEW r \in Requests, NEW t \in Models, NEW p \in Slices,
         Running(r), UNCHANGED restVars,
         jobs' = [jobs EXCEPT ![r] = AfterFailure(r, t, p)]
  PROVE  JobsInv'
<1> USE DEF ServiceInv
<1>1. PICK B : jobs \in [Requests -> JobType(B)]
  BY DEF JobsInv
<1>2. [jobs[r] EXCEPT !.failed = TRUE] \in JobType(B)
  <2>1. jobs[r] \in JobType(B)
    BY <1>1
  <2>2. QED BY <2>1 DEF JobType
<1>3. [jobs[r] EXCEPT !.failures[<<t, p>>] = @ + 1] \in JobType(B)
  <2> DEFINE failures == [jobs[r].failures EXCEPT ![<<t, p>>] = @ + 1]
  <2>1. jobs[r] \in JobType(B) /\ jobs[r].failures \in [Models \X Slices -> Nat]
    BY <1>1 DEF JobType
  <2>2. failures \in [Models \X Slices -> Nat]
    BY <2>1
  <2>3. [jobs[r] EXCEPT !.failures[<<t, p>>] = @ + 1] = [jobs[r] EXCEPT !.failures = failures]
    OBVIOUS
  <2> HIDE DEF failures
  <2>4. QED BY <2>1, <2>2, <2>3 DEF JobType
<1>4. AfterFailure(r, t, p) \in JobType(B) /\ AfterFailure(r, t, p).cached = jobs[r].cached
  <2>1. AfterFailure(r, t, p) \in JobType(B)
    BY <1>2, <1>3 DEF AfterFailure
  <2>2. jobs[r] \in JobType(B)
    BY <1>1
  <2>3. /\ [jobs[r] EXCEPT !.failed = TRUE].cached = jobs[r].cached
        /\ [jobs[r] EXCEPT !.failures[<<t, p>>] = @ + 1].cached = jobs[r].cached
    BY <2>2 DEF JobType
  <2>4. QED BY <2>1, <2>3 DEF AfterFailure
<1>5. ComputedByFirst(r, AfterFailure(r, t, p))
  BY <1>4 DEF ComputedByFirst, JobsInv
<1>6. QED BY <1>4, <1>5, RunningStep

(* A task that succeeds.                                                   *)
LEMMA CacheStep ==
  ASSUME ServiceInv, NEW r \in Requests, NEW t \in Models, NEW p \in Slices,
         Running(r), UNCHANGED restVars,
         NEW k \in 1 .. LastStage(r), NEW block,
         Cache(r, t, p, k, block),
         OpOf(r, k) = Scan \/ executor.attested
  PROVE  JobsInv'
<1> USE DEF ServiceInv
<1> DEFINE entry == [stage |-> k, jvm |-> executor.jvm, block |-> block]
           job == [jobs[r] EXCEPT !.cached[<<t, p>>] = entry]
<1>1. PICK C : jobs \in [Requests -> JobType(C)]
  BY DEF JobsInv
<1>2. jobs \in [Requests -> JobType(C \cup {block})]
  <2>1. JobType(C) \subseteq JobType(C \cup {block})
    BY JobTypeGrows
  <2>2. QED BY <1>1, <2>1
<1>3. executor.jvm \in Nat /\ (executor.attested => executor.jvm = 0)
  BY DEF CallInv, ExecutorTypeOK
<1>4. entry \in CachedType(C \cup {block})
  BY <1>3, LastIsNat DEF CachedType
<1>5. jobs' = [jobs EXCEPT ![r] = job]
  BY DEF Cache
<1>6. entry.stage = k /\ entry.jvm = executor.jvm
  OBVIOUS
<1> HIDE DEF entry
<1>7. /\ job \in JobType(C \cup {block})
      /\ job.cached = [jobs[r].cached EXCEPT ![<<t, p>>] = entry]
  BY <1>2, <1>4 DEF JobType
<1>8. \A u \in Models, q \in Slices :
        job.cached[<<u, q>>] = IF <<u, q>> = <<t, p>> THEN entry ELSE jobs[r].cached[<<u, q>>]
  BY <1>2, <1>7 DEF JobType
<1> HIDE DEF job
<1>9. k <= LastStage(r) /\ (OpOf(r, k) # Scan => executor.jvm = 0)
  BY <1>3, LastIsNat
<1>10. ComputedByFirst(r, job)
  <2>1. SUFFICES ASSUME NEW u \in Models, NEW q \in Slices
                 PROVE  LET cached == job.cached[<<u, q>>]
                        IN  /\ cached.stage <= LastStage(r)
                            /\ cached.stage # 0 /\ OpOf(r, cached.stage) # Scan
                                 => cached.jvm = 0
    BY DEF ComputedByFirst
  <2>2. CASE job.cached[<<u, q>>] = entry
    BY <1>6, <1>9, <2>2
  <2>3. CASE job.cached[<<u, q>>] = jobs[r].cached[<<u, q>>]
    BY <2>3 DEF ComputedByFirst, JobsInv
  <2>4. QED BY <1>8, <2>2, <2>3
<1>11. QED BY <1>5, <1>7, <1>10, RunningStep

LEMMA ReadPartInv ==
  ASSUME ServiceInv, NEW r \in Requests, NEW t \in Models, NEW p \in Slices,
         NEW k \in 1 .. LastStage(r), ReadPart(r, t, p, k)
  PROVE  JobsInv'
<1>1. Running(r) /\ OpOf(r, k) = Scan /\ UNCHANGED restVars
  BY DEF ReadPart, Wanted
<1>2. CASE Cache(r, t, p, k, BlockOf(data[t].parts[p]))
  BY <1>1, <1>2, CacheStep
<1>3. CASE jobs' = [jobs EXCEPT ![r] = AfterFailure(r, t, p)]
  BY <1>1, <1>3, FailureStep
<1>4. QED BY <1>2, <1>3 DEF ReadPart

LEMMA TakeResultInv ==
  ASSUME ServiceInv, NEW r \in Requests, NEW t \in Models, NEW p \in Slices,
         TakeResult(r, t, p)
  PROVE  JobsInv'
<1>1. UNCHANGED restVars
  BY DEF TakeResult
<1>2. CASE UNCHANGED jobs
  BY <1>1, <1>2, LossStep DEF ServiceInv
<1>3. CASE Running(r) /\ jobs' = [jobs EXCEPT ![r] = AfterFailure(r, t, p)]
  BY <1>1, <1>3, FailureStep
<1>4. CASE /\ ~ calls[<<r, t, p>>].exception
           /\ \E k \in 1 .. LastStage(r) :
                Wanted(r, t, p, k) /\ Cache(r, t, p, k, calls[<<r, t, p>>].output)
  <2>1. <<r, t, p>> \in Callers /\ calls[<<r, t, p>>].pc = "returned"
    BY ServiceAssumption DEF TakeResult, Take
  <2>2. executor.attested
    BY <1>4, <2>1 DEF ServiceInv, CallInv, GoodCallsAttested, GoodCall
  <2>3. PICK k \in 1 .. LastStage(r) :
          Running(r) /\ Cache(r, t, p, k, calls[<<r, t, p>>].output)
    BY <1>4 DEF Wanted
  <2>4. QED BY <1>1, <2>2, <2>3, CacheStep
<1>5. QED BY <1>2, <1>3, <1>4 DEF TakeResult

(* What may lose the executor.                                             *)
LEMMA WithLossInv ==
  ASSUME ServiceInv, WithLoss, UNCHANGED restVars
  PROVE  JobsInv'
BY LossStep DEF WithLoss, ServiceInv

LEMMA JobsStepInv ==
  ASSUME ServiceInv, [Next]_vars
  PROVE  JobsInv'
<1>1. CASE UNCHANGED vars \/ OwnerStep
  BY <1>1, LossStep DEF vars, OwnerStep, ServiceInv
<1>2. CASE ExecutorLost
  BY <1>2, WithLossInv DEF ExecutorLost
<1>3. ASSUME NEW r \in Requests, RequestStep(r) PROVE JobsInv'
  BY <1>3, ServeInv, ListFilesInv, NextJobInv, AnswerInv, JobFailedInv DEF RequestStep
<1>4. ASSUME NEW r \in Requests, NEW t \in Models, NEW p \in Slices, TaskStep(r, t, p)
      PROVE  JobsInv'
  <2>1. CASE CallEnds(<<r, t, p>>)
    BY <2>1, WithLossInv DEF CallEnds
  <2>2. CASE TakeResult(r, t, p)
    BY <2>2, TakeResultInv
  <2>3. ASSUME NEW k \in 1 .. LastStage(r), ReadPart(r, t, p, k) PROVE JobsInv'
    BY <2>3, ReadPartInv
  <2>4. ASSUME NEW k \in 1 .. LastStage(r), MakeCall(r, t, p, k) PROVE JobsInv'
    BY <2>4, WithLossInv DEF MakeCall
  <2>5. QED BY <1>4, <2>1, <2>2, <2>3, <2>4 DEF TaskStep
<1>5. QED BY <1>1, <1>2, <1>3, <1>4 DEF Next, ServiceStep

(* Every step is one of a caller's call, or leaves the calls.              *)
LEMMA CallsStepInv ==
  ASSUME CallInv, [Next]_vars
  PROVE  CallInv'
<1>1. CASE UNCHANGED callVars
  BY <1>1 DEF callVars, CallInv, ExecutorTypeOK, GoodCallsAttested
<1>2. CASE ExecutorLost
  BY <1>2, LossInv DEF ExecutorLost, LoseExecutor
<1>3. ASSUME NEW r \in Requests, NEW t \in Models, NEW p \in Slices, TaskStep(r, t, p)
      PROVE  CallInv'
  <2>1. <<r, t, p>> \in Callers
    BY ServiceAssumption
  <2>2. CASE CallEnds(<<r, t, p>>)
    BY <2>1, <2>2, CallStepInv DEF CallEnds
  <2>3. CASE TakeResult(r, t, p)
    BY <2>1, <2>3, CallStepInv DEF TakeResult
  <2>4. ASSUME NEW k \in 1 .. LastStage(r), ReadPart(r, t, p, k) PROVE CallInv'
    BY <1>1, <2>4 DEF ReadPart
  <2>5. ASSUME NEW k \in 1 .. LastStage(r), MakeCall(r, t, p, k) PROVE CallInv'
    BY <2>1, <2>5, CallStepInv DEF MakeCall
  <2>6. QED BY <1>3, <2>2, <2>3, <2>4, <2>5 DEF TaskStep
<1>4. ASSUME NEW r \in Requests, RequestStep(r) PROVE UNCHANGED callVars
  BY <1>4 DEF RequestStep, Serve, ListFiles, NextJob, Answer, JobFailed
<1>5. CASE UNCHANGED vars \/ OwnerStep
  BY <1>1, <1>5 DEF vars, OwnerStep
<1>6. QED BY <1>1, <1>2, <1>3, <1>4, <1>5 DEF Next, ServiceStep

LEMMA ServiceInitInv == Init => ServiceInv
<1> SUFFICES ASSUME Init PROVE ServiceInv
  OBVIOUS
<1>1. RestInv /\ StoreInv /\ CallInv
  BY RestInitInv, StoreInitInv, CallInitInv DEF Init
<1>2. NoJob \in JobType({NoBlock})
  BY DEF NoJob, JobType, NotListed, NotCached, CachedType
<1>3. jobs = [r \in Requests |-> NoJob]
  BY DEF Init
<1>4. ASSUME NEW r \in Requests
      PROVE  ComputedByFirst(r, jobs[r]) /\ ~ Answered200(r)
  <2>1. ComputedByFirst(r, NoJob)
    BY <1>1, LastIsNat DEF ComputedByFirst, NoJob, NotCached
  <2>2. requests[r].pc = "received"
    BY DEF Init, RestInit
  <2>3. QED BY <1>3, <2>1, <2>2 DEF Answered200
<1>5. jobs \in [Requests -> JobType({NoBlock})]
  BY <1>2, <1>3
<1>6. QED BY <1>1, <1>4, <1>5 DEF ServiceInv, JobsInv

THEOREM ServiceInvariant == Spec => []ServiceInv
<1>1. ServiceInv /\ [Next]_vars => ServiceInv'
  <2> SUFFICES ASSUME ServiceInv, [Next]_vars PROVE ServiceInv'
    OBVIOUS
  <2>1. RestInv' /\ StoreInv'
    BY StepOfParts, RestStepInv, StoreStepInv DEF ServiceInv
  <2>2. CallInv' /\ JobsInv'
    BY CallsStepInv, JobsStepInv DEF ServiceInv
  <2>3. QED BY <2>1, <2>2 DEF ServiceInv
<1>2. QED BY ServiceInitInv, <1>1, PTL DEF Spec

(* For any number of requests, tasks and lost executors: access control    *)
(* and everything after it was computed in the enclave of the first JVM,   *)
(* the one that was attested, for every block of an answer.                *)
THEOREM AttestedAnswers == Spec => []AnswersOnlyFromAttestedEnclave
<1>1. ServiceInv => AnswersOnlyFromAttestedEnclave
  <2> SUFFICES ASSUME ServiceInv, NEW r \in Requests, Answered200(r),
                      NEW t \in Mentioned(requests[r].statement),
                      NEW p \in Partitions(r, t)
               PROVE  jobs[r].cached[<<t, p>>].jvm = 0
    BY DEF AnswersOnlyFromAttestedEnclave
  <2>1. PICK B : jobs \in [Requests -> JobType(B)]
    BY DEF ServiceInv, JobsInv
  <2>2. t \in Models
    BY LastIsNat DEF ServiceInv
  <2>3. p \in Slices /\ p \in jobs[r].files[t] \ NotListed
    BY <2>1, <2>2 DEF Partitions, JobType
  <2>4. jobs[r].cached[<<t, p>>].stage \in Nat
    BY <2>1, <2>2, <2>3 DEF JobType, CachedType
  <2>5. /\ LastStage(r) <= jobs[r].cached[<<t, p>>].stage
        /\ ComputedByFirst(r, jobs[r])
    BY <2>3 DEF ServiceInv, JobsInv, AllPrepared
  <2>6. jobs[r].cached[<<t, p>>].stage = LastStage(r) /\ LastStage(r) # 0 /\ OpOf(r, LastStage(r)) # Scan
    BY <2>2, <2>3, <2>4, <2>5, LastIsNat DEF ServiceInv, ComputedByFirst
  <2>7. QED BY <2>2, <2>3, <2>5, <2>6 DEF ComputedByFirst
<1>2. QED BY ServiceInvariant, <1>1, PTL

---------------------------------------------------------------------------
(* What the enclave computes of a block, row by row, is what Spark does.   *)

Operators == {ACPolicyApplied, ResPrepared} \cup {s.op : s \in Statements}

(* The result of an ecall into an attested enclave ...                     *)
Computed(op, block) ==
  CASE op.name = "QFilter"  -> QFilter(op.expr, block)
    [] op.name = "QProject" -> QProject(op.expr, block)
    [] OTHER                -> Ok(block)

(* ... and what it is if no row throws.                                    *)
RowByRow(op, block) ==
  CASE op.name = "QFilter"  ->
         [x \in {y \in DOMAIN block : EvalOnRow[op.expr][y].value} |-> block[x]]
    [] op.name = "QProject" -> [x \in DOMAIN block |-> <<EvalOnRow[op.expr][x]>>]
    [] OTHER                -> block

NoneThrows(op, block) ==
  /\ op.name \in {"QFilter", "QProject"} =>
       \A x \in DOMAIN block : IsField(EvalOnRow[op.expr][x])
  /\ op.name = "QFilter" =>
       \A x \in DOMAIN block : /\ EvalOnRow[op.expr][x].type = "BooleanField"
                               /\ ~ EvalOnRow[op.expr][x].is_null

LEMMA OperatorFacts ==
  /\ \A op \in Operators :
       op.name \in {"QFilter", "QProject"} => op.expr \in DOMAIN Exprs
  /\ \A op \in Operators : op # Scan
  /\ \A block : /\ Computed(ACPolicyApplied, block) = Ok(block)
                /\ Computed(ResPrepared, block) = Ok(block)
<1>1. /\ ACPolicyApplied.name = "ACPolicyApplied" /\ ResPrepared.name = "ResPrepared"
      /\ Scan.name = "Scan"
  BY DEF ACPolicyApplied, ResPrepared, Scan
<1>2. \A s \in Statements :
        /\ s.op.name \in {"QFilter", "QProject", "QPartitionForSort"}
        /\ s.op.name \in {"QFilter", "QProject"} => s.op.expr \in DOMAIN Exprs
  BY ServiceAssumption
<1>3. ASSUME NEW op \in Operators
      PROVE  /\ op.name \in {"QFilter", "QProject"} => op.expr \in DOMAIN Exprs
             /\ op # Scan
  <2>1. CASE op \in {ACPolicyApplied, ResPrepared}
    BY <1>1, <2>1
  <2>2. CASE op \in {s.op : s \in Statements}
    BY <1>1, <1>2, <2>2
  <2>3. QED BY <2>1, <2>2 DEF Operators
<1>4. QED BY <1>1, <1>3 DEF Computed

(* One expression on one row.                                              *)
LEMMA RowResults ==
  ASSUME NEW expr \in DOMAIN Exprs, NEW x \in DOMAIN Content
  PROVE  /\ Outcome(EvalOnRow[expr][x])
         /\ x \in AgreeOnRow[expr] /\ IsField(EvalOnRow[expr][x])
              => Agree(EvalOnRow[expr][x], SparkOnRow[expr][x])
<1>1. WellFormed(Exprs, Content[x])
  BY ContentAssumption
<1>2. /\ EvalOnRow[expr][x] = Eval(Exprs, Content[x], expr)
      /\ SparkOnRow[expr][x] = SparkEval(Exprs, Content[x], expr)
      /\ x \in AgreeOnRow[expr] => InAgreement(Exprs, Content[x], expr)
  BY DEF EvalOnRow, SparkOnRow, AgreeOnRow
<1>3. \A f : IsField(f) => f.type # "throws"
  BY FieldFacts
<1>4. QED BY <1>1, <1>2, <1>3, EvalGives, ExpressionsAgreeWithSpark

(* A call that a row ends with an exception does not end well.             *)
LEMMA FirstThrownIsError ==
  ASSUME NEW results, DOMAIN results \subseteq Nat,
         \E x \in DOMAIN results : results[x].type = "throws",
         \A x \in DOMAIN results : results[x].type = "throws" =>
           results[x] \in {Throws("runtime_error"), Throws("logic_error")}
  PROVE  FirstThrown(results) # "ok"
<1> DEFINE T == {x \in DOMAIN results : results[x].type = "throws"}
           First(x) == /\ results[x].type = "throws"
                       /\ \A y \in DOMAIN results : results[y].type = "throws" => x <= y
           first == CHOOSE x \in DOMAIN results : First(x)
<1>1. PICK x \in T : \A y \in T : x <= y
  <2>1. T \subseteq Nat /\ T # {}
    OBVIOUS
  <2> HIDE DEF T
  <2>2. QED BY <2>1, LeastNatural
<1>2. x \in DOMAIN results /\ First(x)
  BY <1>1
<1>3. first \in DOMAIN results /\ First(first)
  <2> HIDE DEF First
  <2>1. QED BY <1>2, Zenon
<1>4. FirstThrown(results) = results[first].value
  BY Zenon DEF FirstThrown
<1> HIDE DEF first
<1>5. results[first] \in {Throws("runtime_error"), Throws("logic_error")}
  BY <1>3
<1>6. QED BY <1>4, <1>5 DEF Throws, Field

LEMMA ComputedRowByRow ==
  ASSUME NEW op \in Operators, NEW block, DOMAIN block \subseteq DOMAIN Content,
         NEW output, Computed(op, block) = Ok(output)
  PROVE  output = RowByRow(op, block) /\ NoneThrows(op, block)
<1>0. /\ DOMAIN block \subseteq Nat
      /\ \A expr \in DOMAIN Exprs : \A x \in DOMAIN block : Outcome(EvalOnRow[expr][x])
      /\ \A f : Outcome(f) => \/ IsField(f) /\ f.type # "throws"
                              \/ /\ f.type = "throws"
                                 /\ f \in {Throws("runtime_error"), Throws("logic_error")}
  BY ContentAssumption, RowResults, FieldFacts, ThrowsIsNoField DEF Outcome
<1>1. \A b, e : Ok(b) = Ok(output) => b = output
  BY DEF Ok
<1>2. \A b, outcome : Fails(outcome) = Ok(b) => outcome = "ok"
  BY DEF Ok, Fails
<1>3. CASE op.name = "QProject"
  <2> DEFINE results == [x \in DOMAIN block |-> EvalOnRow[op.expr][x]]
  <2>1. op.expr \in DOMAIN Exprs
    BY <1>3, OperatorFacts
  <2>2. QProject(op.expr, block) = Ok(output)
    BY <1>3 DEF Computed
  <2>3. ~ \E x \in DOMAIN block : results[x].type = "throws"
    <3> SUFFICES ASSUME \E x \in DOMAIN block : results[x].type = "throws" PROVE FALSE
      OBVIOUS
    <3>1. QProject(op.expr, block) = Fails(FirstThrown(results))
      BY Zenon DEF QProject
    <3>2. \A x \in DOMAIN results : results[x].type = "throws" =>
            results[x] \in {Throws("runtime_error"), Throws("logic_error")}
      BY <1>0, <2>1
    <3>3. DOMAIN results = DOMAIN block
      OBVIOUS
    <3> HIDE DEF results
    <3>4. FirstThrown(results) # "ok"
      BY <1>0, <3>2, <3>3, FirstThrownIsError
    <3>5. QED BY <1>2, <2>2, <3>1, <3>4
  <2>4. QProject(op.expr, block) = Ok([x \in DOMAIN block |-> <<results[x]>>])
    BY <2>3, Zenon DEF QProject
  <2>5. output = [x \in DOMAIN block |-> <<EvalOnRow[op.expr][x]>>]
    BY <1>1, <2>2, <2>4
  <2>6. NoneThrows(op, block)
    BY <1>0, <1>3, <2>1, <2>3 DEF NoneThrows
  <2>7. QED BY <1>3, <2>5, <2>6 DEF RowByRow
<1>4. CASE op.name = "QFilter"
  <2> DEFINE results == [x \in DOMAIN block |-> Condition(EvalOnRow[op.expr][x])]
  <2>1. op.expr \in DOMAIN Exprs
    BY <1>4, OperatorFacts
  <2>2. QFilter(op.expr, block) = Ok(output)
    BY <1>4 DEF Computed
  <2>3. ~ \E x \in DOMAIN block : results[x].type = "throws"
    <3> SUFFICES ASSUME \E x \in DOMAIN block : results[x].type = "throws" PROVE FALSE
      OBVIOUS
    <3>1. QFilter(op.expr, block) = Fails(FirstThrown(results))
      BY Zenon DEF QFilter
    <3>2. \A x \in DOMAIN results : results[x].type = "throws" =>
            results[x] \in {Throws("runtime_error"), Throws("logic_error")}
      <4>1. \A f : Condition(f) = f \/ Condition(f) = Throws("runtime_error")
        BY DEF Condition
      <4>2. QED BY <1>0, <2>1, <4>1
    <3>3. DOMAIN results = DOMAIN block
      OBVIOUS
    <3> HIDE DEF results
    <3>4. FirstThrown(results) # "ok"
      BY <1>0, <3>2, <3>3, FirstThrownIsError
    <3>5. QED BY <1>2, <2>2, <3>1, <3>4
  <2>4. QFilter(op.expr, block) = Ok([x \in {y \in DOMAIN block : results[y].value} |-> block[x]])
    BY <2>3, Zenon DEF QFilter
  <2>5. \A x \in DOMAIN block :
          /\ results[x] = EvalOnRow[op.expr][x]
          /\ IsField(EvalOnRow[op.expr][x])
          /\ EvalOnRow[op.expr][x].type = "BooleanField" /\ ~ EvalOnRow[op.expr][x].is_null
    <3> TAKE x \in DOMAIN block
    <3>1. /\ results[x] = Condition(EvalOnRow[op.expr][x])
          /\ results[x].type # "throws"
      BY <2>3
    <3>2. Outcome(EvalOnRow[op.expr][x])
      BY <1>0, <2>1
    <3> HIDE DEF results
    <3>3. \A f : Condition(f).type # "throws" => 
            /\ Condition(f) = f
            /\ f.type = "throws" \/ (f.type = "BooleanField" /\ ~ f.is_null)
      BY ThrowsIsNoField DEF Condition
    <3>4. QED BY <1>0, <3>1, <3>2, <3>3
  <2>6. {y \in DOMAIN block : results[y].value} = {y \in DOMAIN block : EvalOnRow[op.expr][y].value}
    BY <2>5
  <2>7. output = [x \in {y \in DOMAIN block : EvalOnRow[op.expr][y].value} |-> block[x]]
    <3> HIDE DEF results
    <3>1. QED BY <1>1, <2>2, <2>4, <2>6
  <2>8. NoneThrows(op, block)
    BY <1>4, <2>5 DEF NoneThrows
  <2>9. QED BY <1>4, <2>7, <2>8 DEF RowByRow
<1>5. CASE op.name \notin {"QFilter", "QProject"}
  <2>1. Ok(block) = Ok(output)
    BY <1>5 DEF Computed
  <2>2. QED BY <1>1, <1>5, <2>1 DEF RowByRow, NoneThrows
<1>6. QED BY <1>3, <1>4, <1>5

LEMMA RowByRowIsSparks ==
  ASSUME NEW op \in Operators, NEW block,
         NoneThrows(op, block), BlockInAgreement(op, block)
  PROVE  SameBlock(RowByRow(op, block), SparkResult(op, block))
<1>1. CASE op.name \in {"QFilter", "QProject"}
  <2> DEFINE expr == op.expr
  <2>1. expr \in DOMAIN Exprs
    BY <1>1, OperatorFacts
  <2>2. DOMAIN block \subseteq AgreeOnRow[expr]
    BY <1>1 DEF BlockInAgreement
  <2>3. DOMAIN block \subseteq DOMAIN Content
    BY <2>1, <2>2 DEF AgreeOnRow
  <2>4. \A x \in DOMAIN block : Agree(EvalOnRow[expr][x], SparkOnRow[expr][x])
    BY <1>1, <2>1, <2>2, <2>3, RowResults DEF NoneThrows
  <2>5. CASE op.name = "QProject"
    <3> DEFINE b == [x \in DOMAIN block |-> <<EvalOnRow[expr][x]>>]
               s == [x \in DOMAIN block |-> <<SparkOnRow[expr][x]>>]
    <3>1. RowByRow(op, block) = b /\ SparkResult(op, block) = s
      BY <2>5 DEF RowByRow, SparkResult
    <3>2. \A x \in DOMAIN block :
            /\ Len(b[x]) = 1 /\ b[x][1] = EvalOnRow[expr][x]
            /\ Len(s[x]) = 1 /\ s[x][1] = SparkOnRow[expr][x]
      OBVIOUS
    <3>3. DOMAIN b = DOMAIN block /\ DOMAIN s = DOMAIN block
      OBVIOUS
    <3> HIDE DEF b, s
    <3>4. \A k \in 1 .. 1 : k = 1
      OBVIOUS
    <3>5. QED BY <2>4, <3>1, <3>2, <3>3, <3>4 DEF SameBlock, Agree
  <2>6. CASE op.name = "QFilter"
    <3>1. \A x \in DOMAIN block :
            EvalOnRow[expr][x].value <=> ~ SparkOnRow[expr][x].is_null /\ SparkOnRow[expr][x].value
      <4>1. \A x \in DOMAIN block : ~ EvalOnRow[expr][x].is_null
        BY <2>6 DEF NoneThrows
      <4>2. QED BY <2>4, <4>1, AgreeFacts
    <3>2. {y \in DOMAIN block : EvalOnRow[expr][y].value} =
            {y \in DOMAIN block : ~ SparkOnRow[expr][y].is_null /\ SparkOnRow[expr][y].value}
      BY <3>1
    <3>3. /\ RowByRow(op, block) =
               [x \in {y \in DOMAIN block : EvalOnRow[expr][y].value} |-> block[x]]
          /\ SparkResult(op, block) =
               [x \in {y \in DOMAIN block :
                         ~ SparkOnRow[expr][y].is_null /\ SparkOnRow[expr][y].value} |-> block[x]]
      BY <2>6 DEF RowByRow, SparkResult
    <3>4. RowByRow(op, block) = SparkResult(op, block)
      BY <3>2, <3>3
    <3>5. QED BY <3>4 DEF SameBlock, SameField
  <2>7. QED BY <1>1, <2>5, <2>6
<1>2. CASE op.name \notin {"QFilter", "QProject"}
  <2>1. RowByRow(op, block) = block /\ SparkResult(op, block) = block
    BY <1>2 DEF RowByRow, SparkResult
  <2>2. QED BY <2>1 DEF SameBlock, SameField
<1>3. QED BY <1>1, <1>2

---------------------------------------------------------------------------
(* A call comes back without an exception only with what its ecall has     *)
(* computed, and the enclave has no more threads than it takes.            *)

CallComputes(call) ==
  /\ call.pc # "none" => call.op \in Operators
  /\ call.pc = "inside" /\ call.result.outcome = "ok" =>
       call.result = Computed(call.op, call.input)
  /\ call.pc = "returned" /\ ~ call.exception =>
       Ok(call.output) = Computed(call.op, call.input)

CallsCompute ==
  /\ \A c \in Callers : CallComputes(calls[c])
  /\ IsFiniteSet(Inside) /\ Cardinality(Inside) <= TCSNum

AllLost == executor'.jvm = executor.jvm + 1 /\ calls' = [c \in Callers |-> NoCall]

Becomes(c, call) == calls' = [calls EXCEPT ![c] = call] /\ executor'.jvm = executor.jvm

(* The call comes back with an exception.                                  *)
Excepted(c, op, block) ==
  \E call : /\ Becomes(c, call)
            /\ call.pc = "returned" /\ call.op = op /\ call.input = block
            /\ call.exception

(* What becomes of a call that ends in nothing ...                         *)
LEMMA NothingReturned ==
  ASSUME CallInv, NEW c \in Callers, NEW op, NEW block, NEW status, NEW thrown, NEW enclave,
         status # "SGX_SUCCESS" \/ thrown = TRUE,
         ReturnNothing(c, op, block, status, thrown, enclave)
  PROVE  AllLost \/ Excepted(c, op, block)
<1>0. executor \in [jvm : Nat, enclave : {"none", "running", "crashed"}, attested : BOOLEAN]
  BY DEF CallInv, ExecutorTypeOK
<1>1. CASE /\ calls' = [calls EXCEPT ![c] = JniReturn(op, block, status, thrown, NoBlock)]
           /\ executor' = [executor EXCEPT !.enclave = enclave]
  <2> DEFINE call == JniReturn(op, block, status, thrown, NoBlock)
  <2>1. /\ call.pc = "returned" /\ call.op = op /\ call.input = block
        /\ call.exception
    BY DEF JniReturn
  <2>2. executor'.jvm = executor.jvm
    BY <1>0, <1>1
  <2>3. calls' = [calls EXCEPT ![c] = call]
    BY <1>1
  <2> HIDE DEF call
  <2>4. QED BY <2>1, <2>2, <2>3 DEF Becomes, Excepted
<1>2. CASE executor' = LostExecutor /\ calls' = [k \in Callers |-> NoCall]
  BY <1>2 DEF AllLost, LostExecutor
<1>3. QED BY <1>1, <1>2 DEF ReturnNothing

(* ... of one that a task makes ...                                        *)
LEMMA CallMade ==
  ASSUME CallInv, NEW c \in Callers, NEW op, NEW block, Call(c, op, block)
  PROVE  /\ calls[c].pc = "none"
         /\ \/ AllLost
            \/ \E call : /\ Becomes(c, call)
                         /\ call.op = op /\ call.input = block
                         /\ \/ /\ call.pc = "inside" /\ call.result = Ecall(op, block)
                               /\ Cardinality(Inside) < TCSNum
                            \/ call.pc = "returned" /\ call.exception
<1>0. executor \in [jvm : Nat, enclave : {"none", "running", "crashed"}, attested : BOOLEAN]
  BY DEF CallInv, ExecutorTypeOK
<1>1. CASE Enter(c, op, block)
  <2> DEFINE call == [pc |-> "inside", op |-> op, input |-> block, result |-> Ecall(op, block)]
  <2>1. /\ call.pc = "inside" /\ call.op = op /\ call.input = block
        /\ call.result = Ecall(op, block)
    OBVIOUS
  <2>2. /\ calls' = [calls EXCEPT ![c] = call]
        /\ Cardinality(Inside) < TCSNum /\ calls[c].pc = "none"
        /\ executor' = [executor EXCEPT !.enclave = "running"]
    BY <1>1 DEF Enter
  <2>3. executor'.jvm = executor.jvm
    BY <1>0, <2>2
  <2> HIDE DEF call
  <2>4. QED BY <2>1, <2>2, <2>3 DEF Becomes
<1>2. CASE TurnedAway(c, op, block)
  <2>1. \/ ReturnNothing(c, op, block, "SGX_ERROR_ENCLAVE_CRASHED", FALSE, initEnclave)
        \/ ReturnNothing(c, op, block, "SGX_ERROR_OUT_OF_TCS", FALSE, initEnclave)
    BY <1>2 DEF TurnedAway
  <2>2. /\ "SGX_ERROR_ENCLAVE_CRASHED" # "SGX_SUCCESS"
        /\ "SGX_ERROR_OUT_OF_TCS" # "SGX_SUCCESS"
    OBVIOUS
  <2>3. calls[c].pc = "none"
    BY <1>2 DEF TurnedAway
  <2>4. AllLost \/ Excepted(c, op, block)
    BY <2>1, <2>2, NothingReturned
  <2>5. QED BY <2>3, <2>4 DEF Excepted
<1>3. CASE NoInputArray(c, op, block)
  <2>1. ReturnNothing(c, op, block, "SGX_SUCCESS", TRUE, initEnclave) /\ calls[c].pc = "none"
    BY <1>3 DEF NoInputArray
  <2>2. AllLost \/ Excepted(c, op, block)
    BY <2>1, NothingReturned
  <2>3. QED BY <2>1, <2>2 DEF Excepted
<1>4. QED BY <1>1, <1>2, <1>3 DEF Call

(* ... and of one that leaves the enclave.                                 *)
LEMMA CallLeft ==
  ASSUME CallInv, NEW c \in Callers, Leave(c)
  PROVE  /\ calls[c].pc = "inside"
         /\ \/ AllLost
            \/ \E call : /\ Becomes(c, call)
                         /\ call.pc = "returned"
                         /\ call.op = calls[c].op /\ call.input = calls[c].input
                         /\ \/ call.exception
                            \/ /\ calls[c].result.outcome = "ok"
                               /\ call.output = calls[c].result.block
<1>1. CASE LeaveOk(c)
  <2> DEFINE call == JniReturn(calls[c].op, calls[c].input, "SGX_SUCCESS", FALSE, calls[c].result.block)
  <2>1. /\ calls' = [calls EXCEPT ![c] = call] /\ executor' = executor
        /\ calls[c].pc = "inside" /\ calls[c].result.outcome = "ok"
    BY <1>1 DEF LeaveOk
  <2>2. /\ call.pc = "returned"
        /\ call.op = calls[c].op /\ call.input = calls[c].input
        /\ call.output = calls[c].result.block
    BY DEF JniReturn
  <2> HIDE DEF call
  <2>3. QED BY <2>1, <2>2 DEF Becomes
<1>2. CASE LeaveThrowing(c) \/ LeaveCrashing(c) \/ LeaveCrashed(c)
  <2>1. /\ calls[c].pc = "inside"
        /\ \/ ReturnNothing(c, calls[c].op, calls[c].input, "SGX_SUCCESS", TRUE, executor.enclave)
           \/ ReturnNothing(c, calls[c].op, calls[c].input, "SGX_ERROR_ENCLAVE_CRASHED", FALSE,
                            "crashed")
    BY <1>2 DEF LeaveThrowing, LeaveCrashing, LeaveCrashed
  <2>2. "SGX_ERROR_ENCLAVE_CRASHED" # "SGX_SUCCESS"
    OBVIOUS
  <2>3. AllLost \/ Excepted(c, calls[c].op, calls[c].input)
    BY <2>1, <2>2, NothingReturned
  <2>4. QED BY <2>1, <2>3 DEF Excepted
<1>3. QED BY <1>1, <1>2 DEF Leave

LEMMA EcallComputes ==
  ASSUME NEW op, NEW block, Ecall(op, block).outcome = "ok"
  PROVE  Ecall(op, block) = Computed(op, block)
BY DEF Ecall, Computed, Fails

(* What ends well is a block.                                              *)
LEMMA ComputedOk ==
  ASSUME NEW op, NEW block, Computed(op, block).outcome = "ok"
  PROVE  Computed(op, block) = Ok(Computed(op, block).block)
<1>1. \A b : Ok(b) = Ok(Ok(b).block)
  BY DEF Ok
<1>2. \A outcome : Fails(outcome).outcome = "ok" => Fails(outcome) = Ok(Fails(outcome).block)
  BY DEF Fails, Ok
<1>3. \A expr : QFilter(expr, block).outcome = "ok" =>
                  QFilter(expr, block) = Ok(QFilter(expr, block).block)
  BY <1>1, <1>2 DEF QFilter
<1>4. \A expr : QProject(expr, block).outcome = "ok" =>
                  QProject(expr, block) = Ok(QProject(expr, block).block)
  BY <1>1, <1>2 DEF QProject
<1>5. QED BY <1>1, <1>3, <1>4 DEF Computed

LEMMA OneCallComputes ==
  ASSUME CallInv, CallsCompute, NEW c \in Callers, NEW call, Becomes(c, call),
         CallComputes(call),
         call.pc = "inside" => Cardinality(Inside) < TCSNum
  PROVE  CallsCompute'
<1>1. \A k \in Callers : calls'[k] = IF k = c THEN call ELSE calls[k]
  BY DEF Becomes, CallInv, ExecutorTypeOK
<1>2. \A k \in Callers : CallComputes(calls[k])'
  BY <1>1 DEF CallsCompute, CallComputes
<1>3. IsFiniteSet(Inside) /\ Cardinality(Inside) \in Nat /\ Cardinality(Inside) <= TCSNum
  BY FS_CardinalityType DEF CallsCompute
<1>4. TCSNum \in Nat
  BY CallAssumption
<1>5. CASE call.pc = "inside"
  <2>1. Inside' \subseteq Inside \cup {c}
    BY <1>1 DEF Inside
  <2>2. /\ IsFiniteSet(Inside \cup {c})
        /\ Cardinality(Inside \cup {c}) = Cardinality(Inside)
           \/ Cardinality(Inside \cup {c}) = Cardinality(Inside) + 1
    BY <1>3, FS_AddElement
  <2>3. Cardinality(Inside \cup {c}) \in Nat /\ Cardinality(Inside \cup {c}) <= TCSNum
    BY <1>3, <1>4, <1>5, <2>2
  <2>4. IsFiniteSet(Inside') /\ Cardinality(Inside') <= Cardinality(Inside \cup {c})
    BY <2>1, <2>2, FS_Subset
  <2>5. Cardinality(Inside') \in Nat
    BY <2>4, FS_CardinalityType
  <2>6. QED BY <1>2, <1>4, <2>3, <2>4, <2>5 DEF CallsCompute
<1>6. CASE call.pc # "inside"
  <2>1. Inside' \subseteq Inside
    BY <1>1, <1>6 DEF Inside
  <2>2. IsFiniteSet(Inside') /\ Cardinality(Inside') <= Cardinality(Inside)
    BY <1>3, <2>1, FS_Subset
  <2>3. Cardinality(Inside') \in Nat
    BY <2>2, FS_CardinalityType
  <2>4. QED BY <1>2, <1>3, <1>4, <2>2, <2>3 DEF CallsCompute
<1>7. QED BY <1>5, <1>6

LEMMA LostCallsCompute ==
  ASSUME calls' = [c \in Callers |-> NoCall]
  PROVE  CallsCompute'
<1>1. Inside' = {}
  BY DEF Inside, NoCall
<1>2. IsFiniteSet(Inside') /\ Cardinality(Inside') = 0
  BY <1>1, FS_EmptySet
<1>3. TCSNum \in Nat
  BY CallAssumption
<1>4. \A c \in Callers : CallComputes(calls[c])'
  BY DEF CallComputes, NoCall
<1>5. QED BY <1>2, <1>3, <1>4 DEF CallsCompute

LEMMA CallMadeComputes ==
  ASSUME CallInv, CallsCompute, NEW c \in Callers, NEW op \in Operators, NEW block,
         Call(c, op, block)
  PROVE  CallsCompute'
<1>1. CASE AllLost
  BY <1>1, LostCallsCompute DEF AllLost
<1>2. CASE \E call : /\ Becomes(c, call)
                     /\ call.op = op /\ call.input = block
                     /\ \/ /\ call.pc = "inside" /\ call.result = Ecall(op, block)
                           /\ Cardinality(Inside) < TCSNum
                        \/ call.pc = "returned" /\ call.exception
  <2>1. PICK call : /\ Becomes(c, call)
                    /\ call.op = op /\ call.input = block
                    /\ \/ /\ call.pc = "inside" /\ call.result = Ecall(op, block)
                          /\ Cardinality(Inside) < TCSNum
                       \/ call.pc = "returned" /\ call.exception
    BY <1>2
  <2>2. CallComputes(call)
    BY <2>1, EcallComputes DEF CallComputes
  <2>3. call.pc = "inside" => Cardinality(Inside) < TCSNum
    BY <2>1
  <2>4. QED BY <2>1, <2>2, <2>3, OneCallComputes
<1>3. QED BY <1>1, <1>2, CallMade

LEMMA CallLeftComputes ==
  ASSUME CallInv, CallsCompute, NEW c \in Callers, Leave(c)
  PROVE  CallsCompute'
<1>0. calls[c].pc = "inside" /\ CallComputes(calls[c])
  BY CallLeft DEF CallsCompute
<1>1. CASE AllLost
  BY <1>1, LostCallsCompute DEF AllLost
<1>2. CASE \E call : /\ Becomes(c, call)
                     /\ call.pc = "returned"
                     /\ call.op = calls[c].op /\ call.input = calls[c].input
                     /\ \/ call.exception
                        \/ /\ calls[c].result.outcome = "ok"
                           /\ call.output = calls[c].result.block
  <2>1. PICK call : /\ Becomes(c, call)
                    /\ call.pc = "returned"
                    /\ call.op = calls[c].op /\ call.input = calls[c].input
                    /\ \/ call.exception
                       \/ /\ calls[c].result.outcome = "ok"
                          /\ call.output = calls[c].result.block
    BY <1>2
  <2>2. ~ call.exception => Ok(call.output) = Computed(call.op, call.input)
    <3>1. SUFFICES ASSUME ~ call.exception
                   PROVE  Ok(call.output) = Computed(call.op, call.input)
      OBVIOUS
    <3>2. calls[c].result = Computed(call.op, call.input) /\ calls[c].result.outcome = "ok"
      BY <1>0, <2>1, <3>1 DEF CallComputes
    <3>3. QED BY <2>1, <3>1, <3>2, ComputedOk
  <2>3. CallComputes(call)
    BY <1>0, <2>1, <2>2 DEF CallComputes
  <2>4. call.pc # "inside"
    BY <2>1
  <2>5. QED BY <2>1, <2>3, <2>4, OneCallComputes
<1>3. QED BY <1>1, <1>2, CallLeft

LEMMA CallTakenComputes ==
  ASSUME CallInv, CallsCompute, NEW c \in Callers, Take(c)
  PROVE  CallsCompute'
<1>1. Becomes(c, NoCall)
  BY DEF Take, Becomes
<1>2. NoCall.pc = "none"
  BY DEF NoCall
<1>3. CallComputes(NoCall)
  BY <1>2 DEF CallComputes
<1>4. QED BY <1>1, <1>2, <1>3, OneCallComputes

LEMMA OperatorOf ==
  ASSUME RestInv, NEW r \in Requests, NEW k, OpOf(r, k) # Scan
  PROVE  OpOf(r, k) \in Operators
<1>1. requests[r].statement \in Statements
  BY DEF RestInv, RestTypeOK, RequestType
<1>2. QED BY <1>1 DEF OpOf, Operators

LEMMA CallsComputeStep ==
  ASSUME ServiceInv, CallsCompute, [Next]_vars
  PROVE  CallsCompute'
<1> USE DEF ServiceInv
<1>1. CASE UNCHANGED callVars
  BY <1>1 DEF callVars, CallsCompute, CallComputes, Inside
<1>2. CASE ExecutorLost
  BY <1>2, LostCallsCompute DEF ExecutorLost, LoseExecutor
<1>3. ASSUME NEW r \in Requests, NEW t \in Models, NEW p \in Slices, TaskStep(r, t, p)
      PROVE  CallsCompute'
  <2>1. <<r, t, p>> \in Callers
    BY ServiceAssumption
  <2>2. CASE CallEnds(<<r, t, p>>)
    BY <2>1, <2>2, CallLeftComputes DEF CallEnds
  <2>3. CASE TakeResult(r, t, p)
    BY <2>1, <2>3, CallTakenComputes DEF TakeResult
  <2>4. ASSUME NEW k \in 1 .. LastStage(r), ReadPart(r, t, p, k) PROVE CallsCompute'
    BY <1>1, <2>4 DEF ReadPart
  <2>5. ASSUME NEW k \in 1 .. LastStage(r), MakeCall(r, t, p, k) PROVE CallsCompute'
    <3>1. /\ OpOf(r, k) \in Operators
          /\ Call(<<r, t, p>>, OpOf(r, k), jobs[r].cached[<<t, p>>].block)
      BY <2>5, OperatorOf DEF MakeCall
    <3>2. QED BY <2>1, <3>1, CallMadeComputes
  <2>6. QED BY <1>3, <2>2, <2>3, <2>4, <2>5 DEF TaskStep
<1>4. ASSUME NEW r \in Requests, RequestStep(r) PROVE UNCHANGED callVars
  BY <1>4 DEF RequestStep, Serve, ListFiles, NextJob, Answer, JobFailed
<1>5. CASE UNCHANGED vars \/ OwnerStep
  BY <1>1, <1>5 DEF vars, OwnerStep
<1>6. QED BY <1>1, <1>2, <1>3, <1>4, <1>5 DEF Next, ServiceStep

LEMMA CallsComputeInit == Init => CallsCompute
<1> SUFFICES ASSUME Init PROVE CallsCompute
  OBVIOUS
<1>1. calls = [c \in Callers |-> NoCall]
  BY DEF Init, CallInit
<1>2. Inside = {}
  BY <1>1 DEF Inside, NoCall
<1>3. IsFiniteSet(Inside) /\ Cardinality(Inside) = 0 /\ TCSNum \in Nat
  BY <1>2, FS_EmptySet, CallAssumption
<1>4. \A c \in Callers : CallComputes(calls[c])
  BY <1>1 DEF CallComputes, NoCall
<1>5. QED BY <1>3, <1>4 DEF CallsCompute

(* For any expressions, rows, threads and crashes: a call that comes back  *)
(* without an exception brings what Spark would have computed of the same  *)
(* block, unless a row of it meets a departure of the evaluator's.         *)
THEOREM NoResultOrSparks == Spec => []ResultOrException
<1>1. CallsCompute => ResultOrException
  <2> SUFFICES ASSUME CallsCompute, NEW c \in Callers,
                      calls[c].pc = "returned", ~ calls[c].exception,
                      BlockInAgreement(calls[c].op, calls[c].input)
               PROVE  SameBlock(calls[c].output, SparkResult(calls[c].op, calls[c].input))
    BY DEF ResultOrException
  <2> DEFINE op == calls[c].op
             input == calls[c].input
             output == calls[c].output
  <2>1. op \in Operators /\ Ok(output) = Computed(op, input)
    BY DEF CallsCompute, CallComputes
  <2>2. BlockInAgreement(op, input)
    OBVIOUS
  <2> HIDE DEF op, input, output
  <2>3. CASE op.name \in {"QFilter", "QProject"}
    <3>1. op.expr \in DOMAIN Exprs /\ DOMAIN input \subseteq AgreeOnRow[op.expr]
      BY <2>1, <2>2, <2>3, OperatorFacts DEF BlockInAgreement
    <3>2. DOMAIN input \subseteq DOMAIN Content
      BY <3>1 DEF AgreeOnRow
    <3>3. output = RowByRow(op, input) /\ NoneThrows(op, input)
      BY <2>1, <3>2, ComputedRowByRow
    <3>4. SameBlock(output, SparkResult(op, input))
      BY <2>1, <2>2, <3>3, RowByRowIsSparks
    <3>5. QED BY <3>4 DEF op, input, output
  <2>4. CASE op.name \notin {"QFilter", "QProject"}
    <3>1. Ok(output) = Ok(input) /\ SparkResult(op, input) = input
      BY <2>1, <2>4 DEF Computed, SparkResult
    <3>2. output = input
      BY <3>1 DEF Ok
    <3>3. SameBlock(output, SparkResult(op, input))
      BY <3>1, <3>2 DEF SameBlock, SameField
    <3>4. QED BY <3>3 DEF op, input, output
  <2>5. QED BY <2>3, <2>4
<1>2. ServiceInv /\ CallsCompute /\ [Next]_vars => CallsCompute'
  BY CallsComputeStep
<1>3. QED BY ServiceInvariant, CallsComputeInit, <1>1, <1>2, PTL DEF Spec

---------------------------------------------------------------------------
(* The bounds of the model, and the types.                                 *)

WithinBounds ==
  /\ scenario \in Scenarios
  /\ \A t \in Tables : outsourcings[t] <= MaxOutsourcings
  /\ \A r \in Requests : jobs[r].stage <= LastStage(r) + 1

LEMMA CallsOfOwnerBounded ==
  ASSUME StoreInv, [StoreNext]_storeVars,
         \A t \in Tables : outsourcings[t] <= MaxOutsourcings
  PROVE  \A t \in Tables : outsourcings'[t] <= MaxOutsourcings
<1>1. outsourcings \in [Tables -> Nat] /\ MaxOutsourcings \in Nat
  BY StoreAssumption DEF StoreInv, StoreTypeOK
<1>2. ASSUME NEW t \in Tables, StartCall(t)
      PROVE  \A u \in Tables : outsourcings'[u] <= MaxOutsourcings
  BY <1>1, <1>2 DEF StartCall
<1>3. CASE outsourcings' = outsourcings
  BY <1>3
<1>4. QED BY <1>2, <1>3 DEF StoreNext, storeVars, DeletePart, DeleteDataDir, CreateDataDir,
        CommitPart, JobCommitted, DeleteSchema, CreateSchema, WriteSchema, Return, Crash

LEMMA JobsAreRecords ==
  ASSUME ServiceInv, NEW r \in Requests
  PROVE  /\ jobs = [q \in Requests |-> jobs[q]]
         /\ jobs[r].stage \in Nat /\ jobs[r].failed \in BOOLEAN
         /\ jobs[r].version \in [Models -> Nat]
         /\ jobs[r].files \in [Models -> SUBSET (Slices \cup NotListed)]
         /\ jobs[r].cached = [tp \in Models \X Slices |-> jobs[r].cached[tp]]
         /\ \A tp \in Models \X Slices : jobs[r].cached[tp].stage \in Nat
         /\ \E B : jobs[r] \in JobType(B)
<1>1. PICK B : jobs \in [Requests -> JobType(B)]
  BY DEF ServiceInv, JobsInv
<1>2. jobs[r] \in JobType(B) /\ jobs = [q \in Requests |-> jobs[q]]
  BY <1>1
<1>3. jobs[r].cached \in [Models \X Slices -> CachedType(B)]
  BY <1>2 DEF JobType
<1>4. \A tp \in Models \X Slices : jobs[r].cached[tp].stage \in Nat
  BY <1>3 DEF CachedType
<1>5. QED BY <1>2, <1>3, <1>4 DEF JobType

LEMMA WithinBoundsInit == Init => WithinBounds
<1> SUFFICES ASSUME Init PROVE WithinBounds
  OBVIOUS
<1>0. \A t \in Tables :
        outsourcings[t] = 0 \/ (outsourcings[t] = 1 /\ MaxOutsourcings > 0)
  <2>0. StoreInit
    BY DEF Init
  <2>1. PICK outsourced \in SUBSET {t \in Tables : MaxOutsourcings > 0}, numSlices \in Slices :
          outsourcings = [t \in Tables |-> IF t \in outsourced THEN 1 ELSE 0]
    BY <2>0, Zenon DEF StoreInit
  <2>2. \A t \in Tables : outsourcings[t] = IF t \in outsourced THEN 1 ELSE 0
    BY <2>1
  <2>3. \A t \in outsourced : MaxOutsourcings > 0
    OBVIOUS
  <2>4. QED BY <2>2, <2>3, Zenon
<1>1. ASSUME NEW t \in Tables PROVE outsourcings[t] <= MaxOutsourcings
  <2>1. MaxOutsourcings \in Nat
    BY StoreAssumption
  <2>2. outsourcings[t] = 0 \/ (outsourcings[t] = 1 /\ MaxOutsourcings > 0)
    BY <1>0
  <2>3. QED BY <2>1, <2>2
<1>2. \A r \in Requests : LastStage(r) \in Nat
  BY ServiceInitInv, LastIsNat DEF ServiceInv
<1>3. \A r \in Requests : jobs[r].stage = 0
  BY DEF Init, NoJob
<1>4. scenario \in Scenarios
  BY DEF Init
<1>5. QED BY <1>1, <1>2, <1>3, <1>4 DEF WithinBounds

(* How the stage of a job changes.                                         *)
LEMMA StagesStep ==
  ASSUME ServiceInv, [Next]_vars, NEW r \in Requests
  PROVE  \/ jobs'[r].stage = jobs[r].stage
         \/ jobs'[r].stage = 1
         \/ jobs[r].stage <= LastStage(r) /\ jobs'[r].stage = jobs[r].stage + 1
<1> USE JobsAreRecords
<1> DEFINE Goal == \/ jobs'[r].stage = jobs[r].stage
                   \/ jobs'[r].stage = 1
                   \/ jobs[r].stage <= LastStage(r) /\ jobs'[r].stage = jobs[r].stage + 1
<1>1. PICK B : jobs \in [Requests -> JobType(B)]
  BY DEF ServiceInv, JobsInv
<1>2. CASE jobs' = jobs
  BY <1>2
<1>3. CASE jobs' = AfterLoss
  <2>1. jobs'[r] = IF requests[r].pc = "answered" THEN jobs[r]
                   ELSE [jobs[r] EXCEPT !.cached = [tp \in Models \X Slices |-> NotCached]]
    BY <1>3 DEF AfterLoss
  <2>2. jobs[r] \in JobType(B)
    BY <1>1
  <2>3. QED BY <2>1, <2>2 DEF JobType
<1>4. ASSUME NEW q \in Requests, NEW job, jobs' = [jobs EXCEPT ![q] = job],
             job.stage = jobs[q].stage
      PROVE  Goal
  BY <1>1, <1>4
<1>5. ASSUME NEW q \in Requests, RequestStep(q) PROVE Goal
  <2>1. CASE Serve(q)
    <3>1. CASE jobs' = [jobs EXCEPT ![q] = Submitted]
      BY <1>1, <3>1 DEF Submitted, NoJob
    <3>2. QED BY <1>2, <2>1, <3>1 DEF Serve
  <2>2. CASE ListFiles(q)
    <3>1. PICK t \in Models :
            \/ jobs' = [jobs EXCEPT ![q].files[t] = Present(t)]
            \/ jobs' = [jobs EXCEPT ![q].failed = TRUE]
      BY <2>2 DEF ListFiles
    <3>2. jobs[q] \in JobType(B)
      BY <1>1
    <3>3. CASE jobs' = [jobs EXCEPT ![q].files[t] = Present(t)]
      <4> DEFINE job == [jobs[q] EXCEPT !.files[t] = Present(t)]
      <4>1. jobs' = [jobs EXCEPT ![q] = job] /\ job.stage = jobs[q].stage
        BY <3>2, <3>3 DEF JobType
      <4> HIDE DEF job, Goal
      <4>2. QED BY <1>4, <4>1
    <3>4. CASE jobs' = [jobs EXCEPT ![q].failed = TRUE]
      <4> DEFINE job == [jobs[q] EXCEPT !.failed = TRUE]
      <4>1. jobs' = [jobs EXCEPT ![q] = job] /\ job.stage = jobs[q].stage
        BY <3>2, <3>4 DEF JobType
      <4> HIDE DEF job, Goal
      <4>2. QED BY <1>4, <4>1
    <3>5. QED BY <3>1, <3>3, <3>4
  <2>3. CASE NextJob(q)
    BY <1>1, <2>3 DEF NextJob, JobType
  <2>4. CASE Answer(q)
    <3>1. jobs[q] \in JobType(B)
      BY <1>1
    <3>2. QED BY <1>1, <2>4, <3>1 DEF Answer, JobType
  <2>5. CASE JobFailed(q)
    BY <1>2, <2>5 DEF JobFailed
  <2>6. QED BY <1>5, <2>1, <2>2, <2>3, <2>4, <2>5 DEF RequestStep
<1>6. ASSUME NEW q \in Requests, NEW t \in Models, NEW p \in Slices, TaskStep(q, t, p)
      PROVE  Goal
  <2>1. jobs[q] \in JobType(B)
    BY <1>1
  <2>2. CASE WithLoss
    BY <1>2, <1>3, <2>2 DEF WithLoss
  <2>3. CASE jobs' = [jobs EXCEPT ![q] = AfterFailure(q, t, p)]
    <3>1. AfterFailure(q, t, p).stage = jobs[q].stage
      BY <2>1 DEF AfterFailure, JobType
    <3>2. QED BY <1>4, <2>3, <3>1
  <2>4. ASSUME NEW k, NEW block, Cache(q, t, p, k, block) PROVE Goal
    BY <1>1, <2>1, <2>4 DEF Cache, JobType
  <2>5. QED BY <1>2, <1>6, <2>2, <2>3, <2>4 DEF TaskStep, CallEnds, MakeCall, ReadPart, TakeResult
<1>7. CASE OwnerStep \/ ExecutorLost \/ UNCHANGED vars
  BY <1>2, <1>3, <1>7 DEF OwnerStep, ExecutorLost, WithLoss, vars
<1>8. QED BY <1>5, <1>6, <1>7 DEF Next, ServiceStep

LEMMA WithinBoundsStep ==
  ASSUME ServiceInv, WithinBounds, [Next]_vars
  PROVE  WithinBounds'
<1>1. \A t \in Tables : outsourcings'[t] <= MaxOutsourcings
  BY StepOfParts, CallsOfOwnerBounded DEF ServiceInv, WithinBounds
<1>2. scenario' = scenario
  <2>1. ASSUME NEW r \in Requests, RequestStep(r) PROVE scenario' = scenario
    BY <2>1 DEF RequestStep, Serve, ListFiles, NextJob, Answer, JobFailed
  <2>2. ASSUME NEW r \in Requests, NEW t \in Models, NEW p \in Slices, TaskStep(r, t, p)
        PROVE  scenario' = scenario
    BY <2>2 DEF TaskStep, CallEnds, TakeResult, ReadPart, MakeCall
  <2>3. QED BY <2>1, <2>2 DEF Next, ServiceStep, OwnerStep, ExecutorLost, vars
<1>3. ASSUME NEW r \in Requests PROVE jobs'[r].stage <= LastStage(r)' + 1
  <2>1. LastStage(r)' = LastStage(r) /\ LastStage(r) \in Nat
    BY StepOfParts, ShapeKept, LastIsNat DEF ServiceInv
  <2>2. jobs[r].stage \in Nat /\ jobs[r].stage <= LastStage(r) + 1
    BY JobsAreRecords DEF WithinBounds
  <2>3. \/ jobs'[r].stage = jobs[r].stage
        \/ jobs'[r].stage = 1
        \/ jobs[r].stage <= LastStage(r) /\ jobs'[r].stage = jobs[r].stage + 1
    BY StagesStep
  <2>4. QED BY <2>1, <2>2, <2>3
<1>4. QED BY <1>1, <1>2, <1>3 DEF WithinBounds

(* For every value of the constants: the state is well-typed, within the   *)
(* bounds, and the enclave has no more threads than it takes.              *)
THEOREM TypesInService == Spec => []TypeOK
<1>1. ServiceInv /\ CallsCompute /\ WithinBounds => TypeOK
  <2> SUFFICES ASSUME ServiceInv, CallsCompute, WithinBounds PROVE TypeOK
    OBVIOUS
  <2>1. /\ loop \in Requests \cup {Nobody}
        /\ views \in [Models -> Requests \cup {Nobody}]
        /\ \A r \in Requests :
             /\ requests[r].pc \in Pcs
             /\ requests[r].status \in {0, 200, 400, 500}
             /\ requests[r].sources \in [Models -> Requests \cup {Nobody}]
    BY DEF ServiceInv, RestInv, RestTypeOK, RequestType, Statuses
  <2>2. \A r \in Requests :
          /\ jobs[r].stage \in 0 .. LastStage(r) + 1
          /\ \A t \in Models : jobs[r].files[t] \subseteq Slices \cup NotListed
    <3> TAKE r \in Requests
    <3>1. LastStage(r) \in Nat
      BY LastIsNat DEF ServiceInv
    <3>2. jobs[r].stage \in Nat /\ jobs[r].files \in [Models -> SUBSET (Slices \cup NotListed)]
      BY JobsAreRecords
    <3>3. QED BY <3>1, <3>2 DEF WithinBounds
  <2>3. /\ owner.table \in Tables \cup {NoTable}
        /\ complete \in [Tables -> Nat] /\ outsourcings \in [Tables -> Nat]
        /\ schema \in [Tables -> Nat \cup {EmptySchema}]
        /\ MaxOutsourcings \in Nat
    BY StoreAssumption DEF ServiceInv, StoreInv, StoreTypeOK
  <2>4. \A t \in Tables : complete[t] \in 0 .. MaxOutsourcings
    <3> TAKE t \in Tables
    <3>1. complete[t] # 0 => complete[t] = outsourcings[t]
      BY DEF ServiceInv, StoreInv, CompleteIsLatest
    <3>2. outsourcings[t] <= MaxOutsourcings
      BY DEF WithinBounds
    <3>3. QED BY <2>3, <3>1, <3>2
  <2>5. \A t \in Tables : schema[t] \in Versions \cup {NoSchema, EmptySchema}
    <3> TAKE t \in Tables
    <3>1. schema[t] <= outsourcings[t] /\ outsourcings[t] <= MaxOutsourcings
      BY DEF ServiceInv, StoreInv, OneVersion, WithinBounds
    <3>2. schema[t] \in Nat \cup {EmptySchema} /\ outsourcings[t] \in Nat
      BY <2>3
    <3>3. QED BY <2>3, <3>1, <3>2 DEF Versions, NoSchema
  <2>6. /\ complete \in [Tables -> 0 .. MaxOutsourcings]
        /\ schema \in [Tables -> Versions \cup {NoSchema, EmptySchema}]
    BY <2>3, <2>4, <2>5
  <2>7. executor.enclave \in {"none", "running", "crashed"} /\ Cardinality(Inside) <= TCSNum
    BY DEF ServiceInv, CallInv, ExecutorTypeOK, CallsCompute
  <2>8. scenario \in Scenarios
    BY DEF WithinBounds
  <2>9. QED BY <2>1, <2>2, <2>3, <2>6, <2>7, <2>8 DEF TypeOK
<1>2. ServiceInv /\ CallsCompute /\ WithinBounds /\ [Next]_vars => CallsCompute' /\ WithinBounds'
  BY CallsComputeStep, WithinBoundsStep
<1>3. Init => CallsCompute /\ WithinBounds
  BY CallsComputeInit, WithinBoundsInit
<1>4. QED BY ServiceInvariant, <1>1, <1>2, <1>3, PTL DEF Spec

---------------------------------------------------------------------------
(* The part files of a table that is whole, each computed by itself, make  *)
(* the result for all rows: which rows an operator keeps, and what it      *)
(* makes of them, does not depend on the block they are in.                *)

Keeps(op, x) == op.name = "QFilter" => EvalOnRow[op.expr][x].value
RowOf(op, x) == IF op.name = "QProject" THEN <<EvalOnRow[op.expr][x]>> ELSE Content[x]

OfContent(block) == block = [x \in DOMAIN block |-> Content[x]]

LEMMA RowsKept ==
  ASSUME NEW op, NEW block, OfContent(block)
  PROVE  RowByRow(op, block) = [x \in {y \in DOMAIN block : Keeps(op, y)} |-> RowOf(op, x)]
<1>1. \A x \in DOMAIN block : block[x] = Content[x]
  BY DEF OfContent
<1>2. CASE op.name = "QFilter"
  <2>1. {y \in DOMAIN block : Keeps(op, y)} = {y \in DOMAIN block : EvalOnRow[op.expr][y].value}
    BY <1>2 DEF Keeps
  <2>2. \A x \in DOMAIN block : RowOf(op, x) = block[x]
    BY <1>1, <1>2 DEF RowOf
  <2>3. RowByRow(op, block) =
          [x \in {y \in DOMAIN block : EvalOnRow[op.expr][y].value} |-> block[x]]
    BY <1>2 DEF RowByRow
  <2>4. QED BY <2>1, <2>2, <2>3
<1>3. CASE op.name = "QProject"
  <2>1. {y \in DOMAIN block : Keeps(op, y)} = DOMAIN block
    BY <1>3 DEF Keeps
  <2>2. \A x \in DOMAIN block : RowOf(op, x) = <<EvalOnRow[op.expr][x]>>
    BY <1>3 DEF RowOf
  <2>3. RowByRow(op, block) = [x \in DOMAIN block |-> <<EvalOnRow[op.expr][x]>>]
    BY <1>3 DEF RowByRow
  <2>4. QED BY <2>1, <2>2, <2>3
<1>4. CASE op.name \notin {"QFilter", "QProject"}
  <2>1. {y \in DOMAIN block : Keeps(op, y)} = DOMAIN block
    BY <1>4 DEF Keeps
  <2>2. \A x \in DOMAIN block : RowOf(op, x) = Content[x]
    BY <1>4 DEF RowOf
  <2>3. RowByRow(op, block) = block /\ block = [x \in DOMAIN block |-> Content[x]]
    BY <1>4 DEF RowByRow, OfContent
  <2>4. QED BY <2>1, <2>2, <2>3
<1>5. QED BY <1>2, <1>3, <1>4

LEMMA BlockOfContent ==
  ASSUME NEW part
  PROVE  /\ OfContent(BlockOf(part))
         /\ DOMAIN BlockOf(part) = {part.version * NumRows + row : row \in RowsOf(part)}
BY DEF OfContent, BlockOf

(* The numbers of the rows of a version are those of no other row of it.   *)
LEMMA RowNumbers ==
  ASSUME NEW v \in Nat, NEW i \in Nat, NEW j \in Nat, v * NumRows + i = v * NumRows + j
  PROVE  i = j
<1>1. v * NumRows \in Nat
  BY StoreAssumption
<1> DEFINE n == v * NumRows
<1> HIDE DEF n
<1>2. n \in Nat /\ n + i = n + j
  BY <1>1 DEF n
<1>3. QED BY <1>2

LEMMA RowsOfWholeTable ==
  ASSUME NEW v
  PROVE  /\ RowsOf(Part(v, 0, NumRows)) = 0 .. NumRows - 1
         /\ Part(v, 0, NumRows).version = v
<1>1. /\ Part(v, 0, NumRows).start = 0 /\ Part(v, 0, NumRows).end = NumRows
      /\ Part(v, 0, NumRows).version = v
  BY DEF Part
<1>2. NumRows \in Nat
  BY StoreAssumption
<1>3. RowsOf(Part(v, 0, NumRows)) = {row \in 0 .. NumRows - 1 : 0 <= row /\ row < NumRows}
  BY <1>1 DEF RowsOf
<1>4. \A row \in 0 .. NumRows - 1 : 0 <= row /\ row < NumRows
  BY <1>2
<1>5. {row \in 0 .. NumRows - 1 : 0 <= row /\ row < NumRows} = 0 .. NumRows - 1
  BY <1>4
<1>6. QED BY <1>1, <1>3, <1>5

(* The rows of a table that is whole are the disjoint union of those of    *)
(* its part files.                                                         *)
LEMMA PartsTileTable ==
  ASSUME NEW t \in Tables, NEW v \in Nat, IsWhole(t, v)
  PROVE  /\ \A p, q \in Present(t) : p # q =>
              DOMAIN BlockOf(data[t].parts[p]) \cap DOMAIN BlockOf(data[t].parts[q]) = {}
         /\ UNION {DOMAIN BlockOf(data[t].parts[p]) : p \in Present(t)} = DOMAIN WholeTable(v)
<1> DEFINE part(p) == data[t].parts[p]
<1>1. /\ \A p \in Present(t) : part(p).version = v
      /\ \A row \in 0 .. NumRows - 1 :
           \E p \in Present(t) :
             /\ row \in RowsOf(part(p))
             /\ \A q \in Present(t) \ {p} : row \notin RowsOf(part(q))
  BY DEF IsWhole
<1>2. \A p \in Present(t) : DOMAIN BlockOf(part(p)) = {v * NumRows + row : row \in RowsOf(part(p))}
  <2> TAKE p \in Present(t)
  <2>1. DOMAIN BlockOf(part(p)) = {part(p).version * NumRows + row : row \in RowsOf(part(p))}
    BY BlockOfContent
  <2>2. part(p).version = v
    BY <1>1
  <2> HIDE DEF part
  <2>3. QED BY <2>1, <2>2
<1>3. \A p : RowsOf(part(p)) \subseteq 0 .. NumRows - 1
  BY DEF RowsOf
<1>4. DOMAIN WholeTable(v) = {v * NumRows + row : row \in 0 .. NumRows - 1}
  <2> DEFINE whole == Part(v, 0, NumRows)
  <2>1. DOMAIN BlockOf(whole) = {whole.version * NumRows + row : row \in RowsOf(whole)}
    BY BlockOfContent
  <2>2. RowsOf(whole) = 0 .. NumRows - 1 /\ whole.version = v
    BY RowsOfWholeTable
  <2>3. WholeTable(v) = BlockOf(whole)
    BY DEF WholeTable
  <2> HIDE DEF whole
  <2>4. QED BY <2>1, <2>2, <2>3
<1>5. NumRows \in Nat
  BY StoreAssumption
<1> HIDE DEF part
<1>6. ASSUME NEW p \in Present(t), NEW q \in Present(t), p # q,
             NEW x \in DOMAIN BlockOf(part(p)) \cap DOMAIN BlockOf(part(q))
      PROVE  FALSE
  <2>1. PICK i \in RowsOf(part(p)) : x = v * NumRows + i
    BY <1>2, <1>6
  <2>2. PICK j \in RowsOf(part(q)) : x = v * NumRows + j
    BY <1>2, <1>6
  <2>3. i \in 0 .. NumRows - 1 /\ j \in 0 .. NumRows - 1 /\ i \in Nat /\ j \in Nat
    BY <1>3, <1>5
  <2>4. i = j
    BY <2>1, <2>2, <2>3, RowNumbers
  <2>5. QED BY <1>1, <1>6, <2>3, <2>4
<1>7. ASSUME NEW p \in Present(t) PROVE DOMAIN BlockOf(part(p)) \subseteq DOMAIN WholeTable(v)
  <2>1. RowsOf(part(p)) \subseteq 0 .. NumRows - 1
    BY <1>3
  <2>2. DOMAIN BlockOf(part(p)) = {v * NumRows + row : row \in RowsOf(part(p))}
    BY <1>2
  <2> HIDE DEF part
  <2>3. QED BY <1>4, <2>1, <2>2
<1>8. ASSUME NEW x \in DOMAIN WholeTable(v) PROVE \E p \in Present(t) : x \in DOMAIN BlockOf(part(p))
  <2>1. PICK row \in 0 .. NumRows - 1 : x = v * NumRows + row
    BY <1>4
  <2>2. PICK p \in Present(t) : row \in RowsOf(part(p))
    BY <1>1
  <2>3. QED BY <1>2, <2>1, <2>2
<1>9. QED BY <1>6, <1>7, <1>8 DEF part

(* The answer of blocks that are each a part of one block.                 *)
LEMMA BlocksTogether ==
  ASSUME NEW r \in Requests, NEW t \in Models, NEW whole,
         whole = [x \in DOMAIN whole |-> whole[x]],
         UNION {DOMAIN BlockAt(r, t, p) : p \in Partitions(r, t)} = DOMAIN whole,
         \A p \in Partitions(r, t) : \A x \in DOMAIN BlockAt(r, t, p) :
           BlockAt(r, t, p)[x] = whole[x]
  PROVE  AnswerOf(r, t) = whole
<1> DEFINE P == Partitions(r, t)
           D == UNION {DOMAIN BlockAt(r, t, p) : p \in P}
           row(x) == BlockAt(r, t, CHOOSE p \in P : x \in DOMAIN BlockAt(r, t, p))[x]
<1>1. AnswerOf(r, t) = [x \in D |-> row(x)]
  BY DEF AnswerOf
<1>2. ASSUME NEW x \in D PROVE row(x) = whole[x]
  <2> DEFINE q == CHOOSE p \in P : x \in DOMAIN BlockAt(r, t, p)
  <2>1. \E p \in P : x \in DOMAIN BlockAt(r, t, p)
    OBVIOUS
  <2>2. q \in P /\ x \in DOMAIN BlockAt(r, t, q)
    BY <2>1, Zenon
  <2> HIDE DEF q, P
  <2>3. BlockAt(r, t, q)[x] = whole[x]
    BY <2>2 DEF P
  <2>4. QED BY <2>3 DEF q
<1> HIDE DEF row
<1>3. [x \in D |-> row(x)] = [x \in DOMAIN whole |-> whole[x]]
  BY <1>2
<1>4. QED BY <1>1, <1>3

---------------------------------------------------------------------------
(* Exact answers. While a request waits and nobody has outsourced a table  *)
(* of it anew, every cached block is what its stage makes of the part file *)
(* that the table still has, and a call is made for the next operator, on  *)
(* the block that is cached.                                               *)

Through(r, s, block) ==
  IF s <= Scans(r) THEN Ok(block) ELSE Computed(requests[r].statement.op, block)

Undisturbed(r, t) == complete[t] # 0 /\ complete[t] = jobs[r].version[t]

(* A version that is complete no more will not be complete again.          *)
VersionPast(r) ==
  \A t \in Models : jobs[r].version[t] # 0 =>
    /\ jobs[r].version[t] <= outsourcings[t]
    /\ complete[t] # jobs[r].version[t] => jobs[r].version[t] < outsourcings[t]

CallOfNext(r, t, p) ==
  calls[<<r, t, p>>].pc # "none" =>
    /\ requests[r].pc \in {"awaiting", "answered"}
    /\ Running(r) => \E k \in 1 .. LastStage(r) :
         /\ IsNext(r, t, p, k)
         /\ OpOf(r, k) # Scan
         /\ calls[<<r, t, p>>].op = OpOf(r, k)
         /\ calls[<<r, t, p>>].input = BlockAt(r, t, p)

FilesListed(r, t) ==
  Undisturbed(r, t) /\ jobs[r].files[t] # NotListed => jobs[r].files[t] = Present(t)

BlockOfPart(r, t, p) ==
  LET stage == jobs[r].cached[<<t, p>>].stage
  IN  Undisturbed(r, t) /\ stage # 0 =>
        Ok(BlockAt(r, t, p)) = Through(r, stage, BlockOf(data[t].parts[p]))

(* What AnswersAreExact says of one request, whose answer stays what it is *)
(* when it has been given.                                                 *)
ExactJob(s, job) ==
  LET block(t, p)   == job.cached[<<t, p>>].block
      partitions(t) == job.files[t] \ NotListed
      whole(t)      == WholeTable(job.version[t])
      answer(t)     == [x \in UNION {DOMAIN block(t, p) : p \in partitions(t)} |->
                          block(t, CHOOSE p \in partitions(t) : x \in DOMAIN block(t, p))[x]]
  IN  \A t \in Mentioned(s) :
        /\ \A p, q \in partitions(t) :
             p # q => DOMAIN block(t, p) \cap DOMAIN block(t, q) = {}
        /\ BlockInAgreement(s.op, whole(t)) => SameBlock(answer(t), SparkResult(s.op, whole(t)))

Exact(r) == ExactJob(requests[r].statement, jobs[r])

JobExact(r) ==
  /\ VersionPast(r)
  /\ \A t \in Models, p \in Slices : CallOfNext(r, t, p)
  /\ requests[r].pc = "awaiting" =>
       \A t \in Models : FilesListed(r, t) /\ \A p \in Slices : BlockOfPart(r, t, p)
  /\ Answered200(r) /\ jobs[r].undisturbed => Exact(r)

(* What the owner does to the version that a job has seen.                 *)
LEMMA VersionStep ==
  ASSUME StoreInv, [StoreNext]_storeVars, NEW t \in Tables, NEW v \in Nat \ {0},
         v <= outsourcings[t], complete[t] # v => v < outsourcings[t]
  PROVE  /\ v <= outsourcings'[t]
         /\ complete'[t] # v => v < outsourcings'[t]
         /\ complete'[t] = v => complete[t] = v /\ data'[t] = data[t]
<1> USE DEF StoreInv
<1>1. /\ outsourcings \in [Tables -> Nat] /\ complete \in [Tables -> Nat]
      /\ data = [u \in Tables |-> data[u]]
  BY DEF StoreTypeOK
<1>2. CASE UNCHANGED <<data, outsourcings, complete>>
  BY <1>2
<1>3. ASSUME NEW u \in Tables, StartCall(u)
      PROVE  /\ v <= outsourcings'[t]
             /\ complete'[t] # v => v < outsourcings'[t]
             /\ complete'[t] = v => complete[t] = v /\ data'[t] = data[t]
  <2>1. /\ outsourcings' = [outsourcings EXCEPT ![u] = @ + 1]
        /\ complete' = [complete EXCEPT ![u] = 0]
        /\ data' = data
    BY <1>3 DEF StartCall
  <2>2. CASE t = u
    <3>1. outsourcings'[t] = outsourcings[t] + 1 /\ complete'[t] = 0 /\ outsourcings[t] \in Nat
      BY <1>1, <2>1, <2>2
    <3>2. QED BY <3>1
  <2>3. CASE t # u
    <3>1. outsourcings'[t] = outsourcings[t] /\ complete'[t] = complete[t] /\ data'[t] = data[t]
      BY <1>1, <2>1, <2>3
    <3>2. QED BY <3>1
  <2>4. QED BY <2>2, <2>3
<1>4. CASE DeletePart \/ DeleteDataDir \/ CreateDataDir \/ CommitPart
  <2>1. /\ ~ At("idle") /\ UNCHANGED <<outsourcings, complete>>
        /\ \A u \in Tables : u # owner.table => data'[u] = data[u]
    <3>1. CASE DeletePart
      BY <1>1, <3>1 DEF DeletePart, At
    <3>2. CASE DeleteDataDir
      BY <1>1, <3>2 DEF DeleteDataDir, At
    <3>3. CASE CreateDataDir
      BY <1>1, <3>3 DEF CreateDataDir, At
    <3>4. CASE CommitPart
      BY <1>1, <3>4 DEF CommitPart, At
    <3>5. QED BY <1>4, <3>1, <3>2, <3>3, <3>4
  <2>2. complete[owner.table] = 0
    BY <2>1 DEF OwnerAtTable
  <2>3. QED BY <2>1, <2>2
<1>5. CASE Return
  <2>1. /\ complete' = [complete EXCEPT ![owner.table] = outsourcings[owner.table]]
        /\ UNCHANGED <<data, outsourcings>>
        /\ complete[owner.table] = 0
    BY <1>5 DEF Return, TheVersion, OwnerAtTable, At
  <2>2. CASE t = owner.table
    <3>1. complete'[t] = outsourcings[t] /\ complete[t] = 0 /\ outsourcings'[t] = outsourcings[t]
      BY <1>1, <2>1, <2>2
    <3>2. v < outsourcings[t] /\ outsourcings[t] \in Nat
      BY <1>1, <3>1
    <3>3. QED BY <3>1, <3>2
  <2>3. CASE t # owner.table
    BY <1>1, <2>1, <2>3
  <2>4. QED BY <2>2, <2>3
<1>6. CASE JobCommitted \/ DeleteSchema \/ CreateSchema \/ WriteSchema \/ Crash \/ UNCHANGED storeVars
  BY <1>2, <1>6 DEF JobCommitted, DeleteSchema, CreateSchema, WriteSchema, Crash, storeVars
<1>7. QED BY <1>3, <1>4, <1>5, <1>6 DEF StoreNext

LEMMA VersionsKept ==
  ASSUME ServiceInv, [Next]_vars, NEW r \in Requests, VersionPast(r),
         jobs'[r].version = jobs[r].version
  PROVE  /\ VersionPast(r)'
         /\ \A t \in Models : Undisturbed(r, t)' => Undisturbed(r, t) /\ data'[t] = data[t]
<1>1. ASSUME NEW t \in Models
      PROVE  /\ jobs'[r].version[t] # 0 =>
                  /\ jobs'[r].version[t] <= outsourcings'[t]
                  /\ complete'[t] # jobs'[r].version[t] => jobs'[r].version[t] < outsourcings'[t]
             /\ Undisturbed(r, t)' => Undisturbed(r, t) /\ data'[t] = data[t]
  <2> DEFINE v == jobs[r].version[t]
  <2>1. t \in Tables /\ v \in Nat
    BY ServiceAssumption, JobsAreRecords
  <2>2. v # 0 => v <= outsourcings[t] /\ (complete[t] # v => v < outsourcings[t])
    BY DEF VersionPast
  <2>3. jobs'[r].version[t] = v
    OBVIOUS
  <2>4. Undisturbed(r, t)' => complete'[t] = v /\ v # 0
    BY DEF Undisturbed
  <2>5. complete[t] = v /\ v # 0 => Undisturbed(r, t)
    BY DEF Undisturbed
  <2> HIDE DEF v
  <2>6. v # 0 => /\ v <= outsourcings'[t]
                 /\ complete'[t] # v => v < outsourcings'[t]
                 /\ complete'[t] = v => complete[t] = v /\ data'[t] = data[t]
    BY <2>1, <2>2, StepOfParts, VersionStep DEF ServiceInv
  <2>7. QED BY <2>3, <2>4, <2>5, <2>6
<1>2. QED BY <1>1 DEF VersionPast

(* The operators of a query stay what they are.                            *)
LEMMA QueryKept ==
  ASSUME ServiceInv, [Next]_vars, NEW r \in Requests
  PROVE  /\ requests'[r].statement = requests[r].statement
         /\ LastStage(r)' = LastStage(r) /\ Scans(r)' = Scans(r)
         /\ \A k : OpOf(r, k)' = OpOf(r, k)
         /\ \A k : Under(r, k)' = Under(r, k)
<1>1. /\ requests'[r].statement = requests[r].statement
      /\ LastStage(r)' = LastStage(r)
      /\ \A k : OpOf(r, k)' = OpOf(r, k)
  BY StepOfParts, ShapeKept DEF ServiceInv
<1>2. Scans(r)' = Scans(r)
  BY <1>1 DEF Scans
<1>3. \A k : Under(r, k)' = Under(r, k)
  BY <1>1, <1>2 DEF Under
<1>4. QED BY <1>1, <1>2, <1>3

(* What a partition goes through next depends on its cached block alone.   *)
LEMMA NextKept ==
  ASSUME ServiceInv, [Next]_vars, NEW r \in Requests, NEW t \in Models, NEW p \in Slices,
         jobs'[r].cached[<<t, p>>] = jobs[r].cached[<<t, p>>]
  PROVE  /\ \A k : IsNext(r, t, p, k)' <=> IsNext(r, t, p, k)
         /\ BlockAt(r, t, p)' = BlockAt(r, t, p)
BY QueryKept DEF IsNext, BlockAt

QuietCall(c) ==
  \/ calls'[c].pc = "none"
  \/ /\ calls[c].pc # "none"
     /\ calls'[c].op = calls[c].op /\ calls'[c].input = calls[c].input

(* A step that does nothing to the blocks of a request.                    *)
LEMMA QuietStep ==
  ASSUME ServiceInv, [Next]_vars, NEW r \in Requests, JobExact(r),
         requests'[r] = requests[r],
         \A t \in Models, p \in Slices : QuietCall(<<r, t, p>>),
         \/ jobs'[r] = jobs[r]
         \/ /\ requests[r].pc = "awaiting"
            /\ jobs'[r].cached = jobs[r].cached /\ jobs'[r].version = jobs[r].version
            /\ jobs[r].failed => jobs'[r].failed
            /\ \A t \in Models :
                 jobs'[r].files[t] = jobs[r].files[t] \/ jobs'[r].files[t] = Present(t)'
  PROVE  JobExact(r)'
<1>1. /\ jobs'[r].cached = jobs[r].cached /\ jobs'[r].version = jobs[r].version
      /\ jobs[r].failed => jobs'[r].failed
  OBVIOUS
<1>2. VersionPast(r)' /\ \A t \in Models : Undisturbed(r, t)' => Undisturbed(r, t) /\ data'[t] = data[t]
  BY <1>1, VersionsKept DEF JobExact
<1>3. ASSUME NEW t \in Models, NEW p \in Slices PROVE CallOfNext(r, t, p)'
  <2> DEFINE c == <<r, t, p>>
  <2>1. /\ \A k : IsNext(r, t, p, k)' <=> IsNext(r, t, p, k)
        /\ BlockAt(r, t, p)' = BlockAt(r, t, p)
        /\ LastStage(r)' = LastStage(r)
        /\ \A k : OpOf(r, k)' = OpOf(r, k)
    BY <1>1, NextKept, QueryKept
  <2>2. CallOfNext(r, t, p) /\ QuietCall(c)
    BY DEF JobExact
  <2>3. Running(r)' => Running(r)
    BY <1>1 DEF Running
  <2>4. QED BY <2>1, <2>2, <2>3 DEF CallOfNext, QuietCall
<1>4. ASSUME requests'[r].pc = "awaiting", NEW t \in Models PROVE FilesListed(r, t)'
  <2>1. FilesListed(r, t)
    BY <1>4 DEF JobExact
  <2>2. SUFFICES ASSUME Undisturbed(r, t)', jobs'[r].files[t] # NotListed
                 PROVE  jobs'[r].files[t] = Present(t)'
    BY DEF FilesListed, NotListed
  <2>3. Undisturbed(r, t) /\ Present(t)' = Present(t)
    BY <1>2, <2>2 DEF Present
  <2>4. QED BY <2>1, <2>2, <2>3 DEF FilesListed
<1>5. ASSUME requests'[r].pc = "awaiting", NEW t \in Models, NEW p \in Slices
      PROVE  BlockOfPart(r, t, p)'
  <2>1. BlockOfPart(r, t, p)
    BY <1>5 DEF JobExact
  <2>2. /\ Undisturbed(r, t)' => Undisturbed(r, t) /\ data'[t] = data[t]
        /\ BlockAt(r, t, p)' = BlockAt(r, t, p)
        /\ Scans(r)' = Scans(r) /\ requests'[r].statement = requests[r].statement
    BY <1>1, <1>2, NextKept, QueryKept
  <2>3. jobs'[r].cached[<<t, p>>] = jobs[r].cached[<<t, p>>]
    BY <1>1
  <2>4. QED BY <2>1, <2>2, <2>3, Zenon DEF BlockOfPart, Through
<1>6. ASSUME Answered200(r)', jobs'[r].undisturbed PROVE Exact(r)'
  <2>1. jobs'[r] = jobs[r] /\ Answered200(r)
    BY <1>6 DEF Answered200
  <2>2. Exact(r)
    BY <1>6, <2>1 DEF JobExact
  <2>3. QED BY <2>1, <2>2 DEF Exact
<1>7. QED BY <1>2, <1>3, <1>4, <1>5, <1>6 DEF JobExact

LEMMA ExactIsExact ==
  ASSUME NEW r \in Requests
  PROVE  Exact(r) <=>
    \A t \in Mentioned(requests[r].statement) :
      /\ \A p, q \in Partitions(r, t) :
           p # q => DOMAIN BlockAt(r, t, p) \cap DOMAIN BlockAt(r, t, q) = {}
      /\ BlockInAgreement(requests[r].statement.op, WholeTable(jobs[r].version[t]))
           => SameBlock(AnswerOf(r, t), SparkAnswer(r, t))
BY DEF Exact, ExactJob, Partitions, BlockAt, AnswerOf, SparkAnswer

(* A step that takes the cached blocks of a request that is not answered,  *)
(* and its calls.                                                          *)
LEMMA BlocksLostStep ==
  ASSUME ServiceInv, [Next]_vars, NEW r \in Requests, JobExact(r),
         requests'[r] = requests[r], requests[r].pc # "answered",
         \A t \in Models, p \in Slices : calls'[<<r, t, p>>].pc = "none",
         jobs'[r] = [jobs[r] EXCEPT !.cached = [tp \in Models \X Slices |-> NotCached]]
  PROVE  JobExact(r)'
<1>1. /\ jobs'[r].cached = [tp \in Models \X Slices |-> NotCached]
      /\ jobs'[r].version = jobs[r].version /\ jobs'[r].files = jobs[r].files
  <2>1. PICK B : jobs[r] \in JobType(B)
    BY JobsAreRecords
  <2>2. QED BY <2>1 DEF JobType
<1>2. VersionPast(r)' /\ \A t \in Models : Undisturbed(r, t)' => Undisturbed(r, t) /\ data'[t] = data[t]
  BY <1>1, VersionsKept DEF JobExact
<1>3. \A t \in Models, p \in Slices : CallOfNext(r, t, p)'
  BY DEF CallOfNext
<1>4. ASSUME requests'[r].pc = "awaiting", NEW t \in Models PROVE FilesListed(r, t)'
  <2>1. FilesListed(r, t)
    BY <1>4 DEF JobExact
  <2>2. Undisturbed(r, t)' => Undisturbed(r, t) /\ Present(t)' = Present(t)
    BY <1>2 DEF Present
  <2>3. QED BY <1>1, <2>1, <2>2 DEF FilesListed, NotListed
<1>5. ASSUME NEW t \in Models, NEW p \in Slices PROVE BlockOfPart(r, t, p)'
  <2>1. jobs'[r].cached[<<t, p>>].stage = 0
    BY <1>1 DEF NotCached
  <2>2. QED BY <2>1 DEF BlockOfPart
<1>6. ~ Answered200(r)'
  BY DEF Answered200
<1>7. QED BY <1>2, <1>3, <1>4, <1>5, <1>6 DEF JobExact

(* A handler starts the job of a request or answers it with an error.      *)
LEMMA ServeExact ==
  ASSUME ServiceInv, [Next]_vars, NEW r \in Requests, JobExact(r), Serve(r)
  PROVE  JobExact(r)'
<1>1. /\ HandlerStep(r) /\ UNCHANGED <<storeVars, callVars>>
      /\ jobs' = IF requests'[r].pc = "awaiting" THEN [jobs EXCEPT ![r] = Submitted] ELSE jobs
  BY DEF Serve
<1>2. ~ Answered200(r)'
  BY <1>1, HandlerNot200 DEF ServiceInv
<1>3. requests[r].pc \in {"received", "registering"}
  BY <1>1 DEF HandlerStep, Refuse, Handle, RegisterView, Analyse, AnalysisFails
<1>4. \A t \in Models, p \in Slices : calls'[<<r, t, p>>].pc = "none"
  <2>1. \A t \in Models, p \in Slices : CallOfNext(r, t, p)
    BY DEF JobExact
  <2>2. QED BY <1>1, <1>3, <2>1 DEF CallOfNext, callVars
<1>5. \A t \in Models, p \in Slices : CallOfNext(r, t, p)'
  BY <1>4 DEF CallOfNext
<1>6. CASE requests'[r].pc = "awaiting"
  <2>1. jobs'[r] = Submitted
    BY <1>1, <1>6, JobsAreRecords
  <2>2. /\ Submitted.version = [t \in Models |-> complete[t]]
        /\ Submitted.files = [t \in Models |-> NotListed]
        /\ Submitted.cached = [tp \in Models \X Slices |-> NotCached]
    BY DEF Submitted, NoJob
  <2>3. VersionPast(r)'
    <3>1. SUFFICES ASSUME NEW t \in Models, complete[t] # 0
                   PROVE  complete[t] <= outsourcings[t]
      BY <1>1, <2>1, <2>2 DEF VersionPast, storeVars
    <3>2. t \in Tables
      BY ServiceAssumption
    <3>3. complete[t] = outsourcings[t] /\ complete[t] \in Nat
      BY <3>1, <3>2 DEF ServiceInv, StoreInv, StoreTypeOK, CompleteIsLatest
    <3>4. QED BY <3>3
  <2>4. ASSUME NEW t \in Models PROVE FilesListed(r, t)'
    BY <2>1, <2>2 DEF FilesListed, NotListed
  <2>5. ASSUME NEW t \in Models, NEW p \in Slices PROVE BlockOfPart(r, t, p)'
    <3>1. jobs'[r].cached[<<t, p>>].stage = 0
      BY <2>1, <2>2 DEF NotCached
    <3>2. QED BY <3>1 DEF BlockOfPart
  <2>6. QED BY <1>2, <1>5, <2>3, <2>4, <2>5 DEF JobExact
<1>7. CASE requests'[r].pc # "awaiting"
  <2>1. VersionPast(r)'
    BY <1>1, <1>7, VersionsKept DEF JobExact
  <2>2. QED BY <1>2, <1>5, <1>7, <2>1 DEF JobExact
<1>8. QED BY <1>6, <1>7

(* The answer to a request is not changed by what becomes of its calls.    *)
LEMMA AnsweredExact ==
  ASSUME ServiceInv, [Next]_vars, NEW r \in Requests, JobExact(r),
         requests'[r].pc = "answered", UNCHANGED callVars,
         requests[r].pc = "awaiting",
         jobs'[r].version = jobs[r].version,
         Answered200(r)' /\ jobs'[r].undisturbed => Exact(r)'
  PROVE  JobExact(r)'
<1>1. VersionPast(r)'
  BY VersionsKept DEF JobExact
<1>2. \A t \in Models, p \in Slices : CallOfNext(r, t, p)'
  BY DEF CallOfNext, Running
<1>3. QED BY <1>1, <1>2 DEF JobExact

(* At most one operator is the next one for a partition ...                *)
LEMMA NextIsOne ==
  ASSUME ServiceInv, NEW r \in Requests, NEW t \in Models, NEW p \in Slices,
         NEW i \in 1 .. LastStage(r), NEW j \in 1 .. LastStage(r),
         IsNext(r, t, p, i), IsNext(r, t, p, j)
  PROVE  i = j
<1> DEFINE stage == jobs[r].cached[<<t, p>>].stage
<1>1. stage \in Nat /\ LastStage(r) \in Nat
  BY JobsAreRecords, LastIsNat DEF ServiceInv
<1>2. /\ stage < i /\ t \in Under(r, i) /\ \A l \in stage + 1 .. i - 1 : t \notin Under(r, l)
      /\ stage < j /\ t \in Under(r, j) /\ \A l \in stage + 1 .. j - 1 : t \notin Under(r, l)
  BY DEF IsNext
<1> HIDE DEF stage
<1>3. i < j => i \in stage + 1 .. j - 1
  BY <1>1, <1>2
<1>4. j < i => j \in stage + 1 .. i - 1
  BY <1>1, <1>2
<1>5. i \in Int /\ j \in Int
  BY <1>1
<1>6. QED BY <1>2, <1>3, <1>4, <1>5

(* ... and one in the enclave comes after the scan: the access control     *)
(* after the scan of the table, the operator of the query after the access *)
(* control, the preparation of the result after the operator.              *)
LEMMA NextAfterScan ==
  ASSUME ServiceInv, NEW r \in Requests, NEW t \in Models, NEW p \in Slices,
         NEW k \in 1 .. LastStage(r), IsNext(r, t, p, k), OpOf(r, k) # Scan
  PROVE  LET stage == jobs[r].cached[<<t, p>>].stage
         IN  /\ stage \in Nat \ {0}
             /\ \/ /\ k <= Scans(r) /\ stage <= Scans(r) /\ OpOf(r, k) = ACPolicyApplied
                \/ /\ k = Scans(r) + 1 /\ stage <= Scans(r)
                   /\ OpOf(r, k) = requests[r].statement.op
                \/ k = LastStage(r) /\ stage = Scans(r) + 1 /\ OpOf(r, k) = ResPrepared
<1> DEFINE stage == jobs[r].cached[<<t, p>>].stage
           tables == requests[r].statement.tables
           n == Len(tables)
<1>1. /\ stage \in Nat /\ n \in Nat /\ tables \in Seq(Models)
      /\ Scans(r) = 2 * n /\ LastStage(r) = 2 * n + 2
  <2>1. requests[r].statement \in Statements
    BY DEF ServiceInv, RestInv, RestTypeOK, RequestType
  <2>2. tables \in Seq(Models)
    BY <2>1, RestAssumption
  <2>3. stage \in Nat
    BY JobsAreRecords
  <2>4. Scans(r) = 2 * n /\ LastStage(r) = 2 * n + 2
    BY DEF Scans, LastStage
  <2>5. QED BY <2>2, <2>3, <2>4
<1>2. stage < k /\ t \in Under(r, k) /\ \A j \in stage + 1 .. k - 1 : t \notin Under(r, j)
  BY DEF IsNext
<1>3. DOMAIN tables = 1 .. n
  BY <1>1
<1> HIDE DEF stage, n
<1>4. CASE k <= 2 * n
  <2>1. k % 2 # 1 /\ OpOf(r, k) = ACPolicyApplied
    BY <1>1, <1>4 DEF OpOf
  <2>2. k \in Nat /\ k % 2 = 0 /\ k >= 2
    BY <1>1, <2>1
  <2>3. ((k - 1) + 1) \div 2 = (k + 1) \div 2 /\ k - 1 \in 1 .. 2 * n
    BY <1>1, <1>4, <2>2
  <2>4. Under(r, k - 1) = Under(r, k)
    BY <1>1, <1>4, <2>2, <2>3 DEF Under
  <2>5. k - 1 \notin stage + 1 .. k - 1
    BY <1>2, <2>4
  <2>6. stage = k - 1
    BY <1>1, <1>2, <2>2, <2>5
  <2>7. QED BY <1>1, <1>4, <2>1, <2>2, <2>6 DEF stage
<1>5. CASE k > 2 * n
  <2>1. k = 2 * n + 1 \/ k = 2 * n + 2
    BY <1>1, <1>5
  <2>2. t \in Mentioned(requests[r].statement)
    BY <1>1, <1>2, <1>5 DEF Under
  <2>3. CASE k = 2 * n + 1
    <3>1. OpOf(r, k) = requests[r].statement.op
      BY <1>1, <2>3 DEF OpOf
    <3>2. PICK i \in 1 .. n : t = tables[i]
      BY <1>3, <2>2 DEF Mentioned
    <3>3. 2 * i \in 1 .. 2 * n /\ (2 * i + 1) \div 2 = i
      BY <1>1
    <3>4. t \in Under(r, 2 * i)
      <4>1. 2 * i <= Scans(r)
        BY <1>1, <3>3
      <4>2. Under(r, 2 * i) = {tables[(2 * i + 1) \div 2]}
        BY <4>1 DEF Under
      <4>3. QED BY <3>2, <3>3, <4>2
    <3>5. 2 * i \notin stage + 1 .. k - 1
      BY <1>2, <3>4
    <3>6. stage >= 2 * i
      BY <1>1, <2>3, <3>3, <3>5
    <3>7. stage \in Nat \ {0} /\ stage <= 2 * n
      BY <1>1, <1>2, <2>3, <3>3, <3>6
    <3>8. QED BY <1>1, <2>3, <3>1, <3>7 DEF stage
  <2>4. CASE k = 2 * n + 2
    <3>1. OpOf(r, k) = ResPrepared
      BY <1>1, <2>4 DEF OpOf
    <3>2. t \in Under(r, 2 * n + 1)
      <4>1. ~ (2 * n + 1 <= Scans(r))
        BY <1>1
      <4>2. QED BY <2>2, <4>1 DEF Under
    <3>3. 2 * n + 1 \notin stage + 1 .. k - 1
      BY <1>2, <3>2
    <3>4. stage = 2 * n + 1
      BY <1>1, <1>2, <2>4, <3>3
    <3>5. QED BY <1>1, <2>4, <3>1, <3>4 DEF stage
  <2>5. QED BY <2>1, <2>3, <2>4
<1>6. QED BY <1>1, <1>4, <1>5

(* A task that succeeds: the block is what its stage makes of the part.    *)
LEMMA BlockCachedStep ==
  ASSUME ServiceInv, [Next]_vars, NEW r \in Requests, NEW t \in Models, NEW p \in Slices,
         JobExact(r), Running(r), UNCHANGED <<storeVars, restVars>>,
         NEW k \in 1 .. LastStage(r), NEW block,
         Cache(r, t, p, k, block),
         \A u \in Models, q \in Slices : QuietCall(<<r, u, q>>),
         calls'[<<r, t, p>>].pc = "none",
         Undisturbed(r, t) => Ok(block) = Through(r, k, BlockOf(data[t].parts[p]))
  PROVE  JobExact(r)'
<1> DEFINE entry == [stage |-> k, jvm |-> executor.jvm, block |-> block]
<1>1. /\ jobs'[r].cached = [jobs[r].cached EXCEPT ![<<t, p>>] = entry]
      /\ jobs'[r].version = jobs[r].version /\ jobs'[r].files = jobs[r].files
      /\ jobs'[r].failed = jobs[r].failed
  <2>1. PICK B : jobs[r] \in JobType(B)
    BY JobsAreRecords
  <2>2. jobs'[r] = [jobs[r] EXCEPT !.cached[<<t, p>>] = entry]
    BY JobsAreRecords DEF Cache
  <2> HIDE DEF entry
  <2>3. QED BY <2>1, <2>2 DEF JobType
<1>2. /\ jobs'[r].cached[<<t, p>>] = entry
      /\ \A u \in Models, q \in Slices :
           <<u, q>> # <<t, p>> => jobs'[r].cached[<<u, q>>] = jobs[r].cached[<<u, q>>]
  <2> HIDE DEF entry
  <2>1. <<t, p>> \in Models \X Slices
    OBVIOUS
  <2>2. jobs[r].cached = [tp \in Models \X Slices |-> jobs[r].cached[tp]]
    BY JobsAreRecords
  <2>3. QED BY <1>1, <2>1, <2>2
<1>3. /\ requests' = requests
      /\ data' = data /\ complete' = complete
      /\ Scans(r)' = Scans(r) /\ LastStage(r)' = LastStage(r)
      /\ \A j : OpOf(r, j)' = OpOf(r, j)
  BY QueryKept DEF storeVars, restVars
<1>4. VersionPast(r)'
  BY <1>1, VersionsKept DEF JobExact
<1>5. requests[r].pc = "awaiting" /\ ~ Answered200(r)'
  BY <1>3 DEF Running, Answered200
<1>6. ASSUME NEW u \in Models, NEW q \in Slices PROVE CallOfNext(r, u, q)'
  <2>1. CASE <<u, q>> = <<t, p>>
    <3>1. calls'[<<r, u, q>>].pc = "none"
      BY <2>1
    <3>2. QED BY <3>1 DEF CallOfNext
  <2>2. CASE <<u, q>> # <<t, p>>
    <3>1. jobs'[r].cached[<<u, q>>] = jobs[r].cached[<<u, q>>]
      BY <1>2, <2>2
    <3>2. /\ \A j : IsNext(r, u, q, j)' <=> IsNext(r, u, q, j)
          /\ BlockAt(r, u, q)' = BlockAt(r, u, q)
      BY <3>1, NextKept
    <3>3. CallOfNext(r, u, q) /\ QuietCall(<<r, u, q>>)
      BY DEF JobExact
    <3>4. Running(r)' => Running(r)
      BY <1>1, <1>3 DEF Running
    <3>5. QED BY <1>3, <3>2, <3>3, <3>4 DEF CallOfNext, QuietCall
  <2>3. QED BY <2>1, <2>2
<1>7. ASSUME NEW u \in Models PROVE FilesListed(r, u)'
  <2>1. FilesListed(r, u)
    BY <1>5 DEF JobExact
  <2>2. Undisturbed(r, u)' <=> Undisturbed(r, u)
    BY <1>1, <1>3 DEF Undisturbed
  <2>3. Present(u)' = Present(u)
    BY <1>3 DEF Present
  <2>4. QED BY <1>1, <2>1, <2>2, <2>3 DEF FilesListed, NotListed
<1>8. ASSUME NEW u \in Models, NEW q \in Slices PROVE BlockOfPart(r, u, q)'
  <2>1. Undisturbed(r, u)' <=> Undisturbed(r, u)
    BY <1>1, <1>3 DEF Undisturbed
  <2>2. CASE <<u, q>> = <<t, p>>
    <3>1. u = t /\ q = p
      BY <2>2
    <3>2. BlockAt(r, u, q)' = block /\ jobs'[r].cached[<<u, q>>].stage = k
      BY <1>2, <3>1 DEF BlockAt
    <3>3. Undisturbed(r, u) => Ok(block) = Through(r, k, BlockOf(data[u].parts[q]))
      BY <3>1
    <3> HIDE DEF entry
    <3>4. QED BY <1>3, <2>1, <3>2, <3>3, Zenon DEF BlockOfPart, Through
  <2>3. CASE <<u, q>> # <<t, p>>
    <3>1. jobs'[r].cached[<<u, q>>] = jobs[r].cached[<<u, q>>]
      BY <1>2, <2>3
    <3>2. BlockAt(r, u, q)' = BlockAt(r, u, q)
      BY <3>1 DEF BlockAt
    <3>3. BlockOfPart(r, u, q)
      BY <1>5 DEF JobExact
    <3> HIDE DEF entry
    <3>4. QED BY <1>3, <2>1, <3>1, <3>2, <3>3, Zenon DEF BlockOfPart, Through
  <2>4. QED BY <2>2, <2>3
<1>9. QED BY <1>4, <1>5, <1>6, <1>7, <1>8 DEF JobExact

(* No call is in progress for a partition that is to be scanned.           *)
LEMMA NoCallWhileScanning ==
  ASSUME ServiceInv, NEW r \in Requests, NEW t \in Models, NEW p \in Slices,
         JobExact(r), NEW k \in 1 .. LastStage(r), Wanted(r, t, p, k), OpOf(r, k) = Scan
  PROVE  calls[<<r, t, p>>].pc = "none"
<1>1. SUFFICES ASSUME calls[<<r, t, p>>].pc # "none" PROVE FALSE
  OBVIOUS
<1>2. Running(r) /\ IsNext(r, t, p, k) /\ CallOfNext(r, t, p)
  BY DEF Wanted, JobExact
<1>3. PICK i \in 1 .. LastStage(r) : IsNext(r, t, p, i) /\ OpOf(r, i) # Scan
  BY <1>1, <1>2 DEF CallOfNext
<1>4. i = k
  BY <1>2, <1>3, NextIsOne
<1>5. QED BY <1>3, <1>4

LEMMA ReadExact ==
  ASSUME ServiceInv, [Next]_vars, NEW r \in Requests, NEW t \in Models, NEW p \in Slices,
         JobExact(r), NEW k \in 1 .. LastStage(r), ReadPart(r, t, p, k),
         Cache(r, t, p, k, BlockOf(data[t].parts[p]))
  PROVE  JobExact(r)'
<1>1. /\ Wanted(r, t, p, k) /\ OpOf(r, k) = Scan /\ Running(r)
      /\ UNCHANGED <<storeVars, restVars, callVars>>
  BY DEF ReadPart, Wanted
<1>2. calls'[<<r, t, p>>].pc = "none"
  BY <1>1, NoCallWhileScanning DEF callVars
<1>3. \A u \in Models, q \in Slices : QuietCall(<<r, u, q>>)
  BY <1>1 DEF callVars, QuietCall
<1>4. k <= Scans(r)
  <2>1. Scans(r) \in Nat /\ LastStage(r) = Scans(r) + 2
    BY LastIsNat DEF ServiceInv, LastStage
  <2>2. SUFFICES ASSUME k > Scans(r) PROVE FALSE
    BY <2>1
  <2>3. OpOf(r, k) \in {requests[r].statement.op, ResPrepared}
    BY <2>1, <2>2 DEF OpOf
  <2>4. requests[r].statement.op \in Operators /\ ResPrepared \in Operators
    BY DEF Operators, ServiceInv, RestInv, RestTypeOK, RequestType
  <2>5. QED BY <1>1, <2>3, <2>4, OperatorFacts
<1>5. Ok(BlockOf(data[t].parts[p])) = Through(r, k, BlockOf(data[t].parts[p]))
  BY <1>4 DEF Through
<1>6. QED BY <1>1, <1>2, <1>3, <1>5, BlockCachedStep

(* A result that a task takes is of the operator that is next.             *)
LEMMA TakeExact ==
  ASSUME ServiceInv, CallsCompute, [Next]_vars,
         NEW r \in Requests, NEW t \in Models, NEW p \in Slices,
         JobExact(r), TakeResult(r, t, p), ~ calls[<<r, t, p>>].exception,
         NEW k \in 1 .. LastStage(r), Wanted(r, t, p, k),
         Cache(r, t, p, k, calls[<<r, t, p>>].output), UNCHANGED storeVars
  PROVE  JobExact(r)'
<1> DEFINE c == <<r, t, p>>
           output == calls[c].output
           stage == jobs[r].cached[<<t, p>>].stage
           cached == BlockAt(r, t, p)
           part == BlockOf(data[t].parts[p])
<1>1. /\ Running(r) /\ IsNext(r, t, p, k)
      /\ UNCHANGED restVars /\ calls[c].pc = "returned"
      /\ calls' = [calls EXCEPT ![c] = NoCall]
      /\ requests[r].pc = "awaiting"
  BY DEF TakeResult, Take, Wanted, Running
<1>2. /\ c \in Callers /\ calls'[c] = NoCall
      /\ \A d \in Callers : d # c => calls'[d] = calls[d]
      /\ \A u \in Models, q \in Slices : <<r, u, q>> \in Callers
  BY <1>1, ServiceAssumption DEF ServiceInv, CallInv, ExecutorTypeOK
<1>3. \A u \in Models, q \in Slices : QuietCall(<<r, u, q>>)
  BY <1>2 DEF QuietCall, NoCall
<1>4. /\ OpOf(r, k) # Scan
      /\ calls[c].op = OpOf(r, k) /\ calls[c].input = cached
  <2>1. CallOfNext(r, t, p) /\ calls[c].pc # "none"
    BY <1>1 DEF JobExact
  <2>2. PICK i \in 1 .. LastStage(r) : /\ IsNext(r, t, p, i) /\ OpOf(r, i) # Scan
                                  /\ calls[c].op = OpOf(r, i) /\ calls[c].input = cached
    BY <1>1, <2>1 DEF CallOfNext
  <2>3. i = k
    BY <1>1, <2>2, NextIsOne
  <2>4. QED BY <2>2, <2>3
<1>5. Ok(output) = Computed(OpOf(r, k), cached)
  BY <1>1, <1>2, <1>4 DEF CallsCompute, CallComputes
<1>6. ASSUME Undisturbed(r, t) PROVE Ok(output) = Through(r, k, part)
  <2>1. /\ stage \in Nat \ {0}
        /\ \/ /\ k <= Scans(r) /\ stage <= Scans(r) /\ OpOf(r, k) = ACPolicyApplied
           \/ /\ k = Scans(r) + 1 /\ stage <= Scans(r)
              /\ OpOf(r, k) = requests[r].statement.op
           \/ k = LastStage(r) /\ stage = Scans(r) + 1 /\ OpOf(r, k) = ResPrepared
    BY <1>1, <1>4, NextAfterScan
  <2>2. Ok(cached) = Through(r, stage, part)
    <3>1. BlockOfPart(r, t, p)
      BY <1>1 DEF JobExact
    <3>2. QED BY <1>6, <2>1, <3>1 DEF BlockOfPart
  <2>3. Scans(r) \in Nat /\ LastStage(r) = Scans(r) + 2
    BY LastIsNat DEF ServiceInv, LastStage
  <2>4. \A b1, b2 : Ok(b1) = Ok(b2) => b1 = b2
    BY DEF Ok
  <2> HIDE DEF output, stage, cached, part
  <2>5. CASE k <= Scans(r) /\ stage <= Scans(r) /\ OpOf(r, k) = ACPolicyApplied
    <3>1. Ok(output) = Ok(cached)
      BY <1>5, <2>5, OperatorFacts
    <3>2. Ok(cached) = Ok(part) /\ Through(r, k, part) = Ok(part)
      BY <2>2, <2>5 DEF Through
    <3>3. QED BY <3>1, <3>2
  <2>6. CASE k = Scans(r) + 1 /\ stage <= Scans(r) /\ OpOf(r, k) = requests[r].statement.op
    <3>1. Ok(cached) = Ok(part)
      BY <2>2, <2>6 DEF Through
    <3>2. cached = part
      BY <2>4, <3>1
    <3>3. ~ k <= Scans(r)
      BY <2>3, <2>6
    <3>4. Through(r, k, part) = Computed(requests[r].statement.op, part)
      BY <3>3 DEF Through
    <3>5. QED BY <1>5, <2>6, <3>2, <3>4
  <2>7. CASE k = LastStage(r) /\ stage = Scans(r) + 1 /\ OpOf(r, k) = ResPrepared
    <3>1. Ok(output) = Ok(cached)
      BY <1>5, <2>7, OperatorFacts
    <3>2. ~ k <= Scans(r) /\ ~ stage <= Scans(r)
      BY <2>3, <2>7
    <3>3. Through(r, k, part) = Through(r, stage, part)
      BY <3>2 DEF Through
    <3>4. QED BY <2>2, <3>1, <3>3
  <2>8. QED BY <2>1, <2>5, <2>6, <2>7
<1>7. calls'[c].pc = "none"
  BY <1>2 DEF NoCall
<1>8. QED BY <1>1, <1>3, <1>6, <1>7, BlockCachedStep

(* A call that a task makes is for the operator that is next.              *)
LEMMA MakeExact ==
  ASSUME ServiceInv, [Next]_vars, NEW r \in Requests, NEW t \in Models, NEW p \in Slices,
         JobExact(r), NEW k \in 1 .. LastStage(r), MakeCall(r, t, p, k),
         NEW call, Becomes(<<r, t, p>>, call),
         call.op = OpOf(r, k), call.input = BlockAt(r, t, p)
  PROVE  JobExact(r)'
<1> DEFINE c == <<r, t, p>>
<1>1. /\ Running(r) /\ IsNext(r, t, p, k) /\ OpOf(r, k) # Scan
      /\ UNCHANGED <<storeVars, restVars>> /\ jobs' = jobs /\ requests' = requests
      /\ requests[r].pc = "awaiting"
  BY DEF MakeCall, Wanted, WithLoss, Becomes, restVars, Running
<1>2. /\ c \in Callers /\ calls'[c] = call
      /\ \A d \in Callers : d # c => calls'[d] = calls[d]
      /\ \A u \in Models, q \in Slices : <<r, u, q>> \in Callers
  BY ServiceAssumption DEF Becomes, ServiceInv, CallInv, ExecutorTypeOK
<1>3. /\ \A u \in Models, q \in Slices : \A j :
           /\ IsNext(r, u, q, j)' <=> IsNext(r, u, q, j)
           /\ BlockAt(r, u, q)' = BlockAt(r, u, q)
      /\ Scans(r)' = Scans(r) /\ LastStage(r)' = LastStage(r)
      /\ \A j : OpOf(r, j)' = OpOf(r, j)
  BY <1>1, NextKept, QueryKept
<1>4. ASSUME NEW u \in Models, NEW q \in Slices PROVE CallOfNext(r, u, q)'
  <2>1. CASE <<u, q>> = <<t, p>>
    <3>1. u = t /\ q = p
      BY <2>1
    <3>2. /\ IsNext(r, u, q, k)' /\ OpOf(r, k)' # Scan /\ k \in 1 .. LastStage(r)'
          /\ calls'[<<r, u, q>>].op = OpOf(r, k)'
          /\ calls'[<<r, u, q>>].input = BlockAt(r, u, q)'
      BY <1>1, <1>2, <1>3, <3>1
    <3>3. requests'[r].pc \in {"awaiting", "answered"}
      BY <1>1
    <3>4. Scan' = Scan
      BY DEF Scan
    <3>5. QED BY <3>2, <3>3 DEF CallOfNext
  <2>2. CASE <<u, q>> # <<t, p>>
    <3>1. <<r, u, q>> # c
      BY <2>2
    <3>2. calls'[<<r, u, q>>] = calls[<<r, u, q>>]
      BY <1>2, <3>1
    <3>3. CallOfNext(r, u, q)
      BY DEF JobExact
    <3>4. Running(r)' <=> Running(r)
      BY <1>1 DEF Running
    <3>5. QED BY <1>1, <1>3, <3>2, <3>3, <3>4 DEF CallOfNext
  <2>3. QED BY <2>1, <2>2
<1>5. VersionPast(r)'
  BY <1>1, VersionsKept DEF JobExact
<1>6. data' = data /\ complete' = complete
  BY <1>1 DEF storeVars
<1>7. ASSUME NEW u \in Models PROVE FilesListed(r, u)'
  <2>1. FilesListed(r, u)
    BY <1>1 DEF JobExact
  <2>2. QED BY <1>1, <1>6, <2>1 DEF FilesListed, NotListed, Undisturbed, Present
<1>8. ASSUME NEW u \in Models, NEW q \in Slices PROVE BlockOfPart(r, u, q)'
  <2>1. BlockOfPart(r, u, q)
    BY <1>1 DEF JobExact
  <2>2. BlockAt(r, u, q)' = BlockAt(r, u, q)
    BY <1>3
  <2>3. Undisturbed(r, u)' <=> Undisturbed(r, u)
    BY <1>1, <1>6 DEF Undisturbed
  <2>4. QED BY <1>1, <1>3, <1>6, <2>1, <2>2, <2>3, Zenon DEF BlockOfPart, Through
<1>9. ~ Answered200(r)'
  BY <1>1 DEF Answered200
<1>10. QED BY <1>4, <1>5, <1>7, <1>8, <1>9 DEF JobExact
(* The rows of every version that can be complete are stored.              *)
LEMMA WholeTableIsStored ==
  ASSUME NEW v \in 1 .. MaxOutsourcings
  PROVE  DOMAIN WholeTable(v) \subseteq DOMAIN Content
<1>1. NumRows \in Nat /\ MaxOutsourcings \in Nat /\ v \in Nat
  BY StoreAssumption
<1>2. DOMAIN WholeTable(v) = {v * NumRows + row : row \in 0 .. NumRows - 1}
  <2> DEFINE whole == Part(v, 0, NumRows)
  <2>1. DOMAIN BlockOf(whole) = {whole.version * NumRows + row : row \in RowsOf(whole)}
    BY BlockOfContent
  <2>2. RowsOf(whole) = 0 .. NumRows - 1 /\ whole.version = v
    BY RowsOfWholeTable
  <2>3. WholeTable(v) = BlockOf(whole)
    BY DEF WholeTable
  <2> HIDE DEF whole
  <2>4. QED BY <2>1, <2>2, <2>3
<1>3. SUFFICES ASSUME NEW row \in 0 .. NumRows - 1
               PROVE  v * NumRows + row \in NumRows .. NumRows * (MaxOutsourcings + 1) - 1
  BY <1>2, ServiceAssumption
<1>4. 1 * NumRows <= v * NumRows
  BY <1>1, MulMonotone
<1>5. (v + 1) * NumRows <= (MaxOutsourcings + 1) * NumRows
  BY <1>1, MulMonotone
<1>6. (v + 1) * NumRows = v * NumRows + NumRows /\ 1 * NumRows = NumRows
  BY <1>1
<1>7. NumRows * (MaxOutsourcings + 1) = (MaxOutsourcings + 1) * NumRows
  BY <1>1
<1>8. v * NumRows \in Nat /\ (MaxOutsourcings + 1) * NumRows \in Nat
  BY <1>1
<1> DEFINE low == v * NumRows
           high == (MaxOutsourcings + 1) * NumRows
<1>9. /\ low \in Nat /\ high \in Nat
      /\ NumRows <= low /\ low + NumRows <= high
  BY <1>4, <1>5, <1>6, <1>8
<1> HIDE DEF low, high
<1>10. low + row \in NumRows .. high - 1
  BY <1>1, <1>9
<1>11. QED BY <1>7, <1>10 DEF low, high

(* The rows that the blocks of a table's part files come to, each through  *)
(* the operator by itself, are those of the whole table through it.        *)
LEMMA PartsComputeWhole ==
  ASSUME NEW r \in Requests, NEW t \in Models, NEW v \in 1 .. MaxOutsourcings,
         NEW op \in Operators, IsWhole(t, v), Partitions(r, t) = Present(t),
         \A p \in Present(t) : Ok(BlockAt(r, t, p)) = Computed(op, BlockOf(data[t].parts[p]))
  PROVE  /\ \A p, q \in Partitions(r, t) :
              p # q => DOMAIN BlockAt(r, t, p) \cap DOMAIN BlockAt(r, t, q) = {}
         /\ AnswerOf(r, t) = RowByRow(op, WholeTable(v))
         /\ NoneThrows(op, WholeTable(v))
<1> DEFINE P == Present(t)
           part(p) == BlockOf(data[t].parts[p])
           D == DOMAIN WholeTable(v)
           K(B) == {y \in B : Keeps(op, y)}
<1>1. t \in Tables /\ v \in Nat
  BY ServiceAssumption
<1>2. /\ \A p, q \in P : p # q => DOMAIN part(p) \cap DOMAIN part(q) = {}
      /\ UNION {DOMAIN part(p) : p \in P} = D
  BY <1>1, PartsTileTable
<1>3. D \subseteq DOMAIN Content
  BY WholeTableIsStored
<1>4. \A p \in P : OfContent(part(p)) /\ OfContent(WholeTable(v))
  BY BlockOfContent DEF WholeTable
<1>5. OfContent(WholeTable(v))
  BY BlockOfContent DEF WholeTable
<1>6. \A p \in P : Ok(BlockAt(r, t, p)) = Computed(op, part(p))
  OBVIOUS
<1> HIDE DEF part, D
<1>7. ASSUME NEW p \in P
      PROVE  /\ BlockAt(r, t, p) = [x \in K(DOMAIN part(p)) |-> RowOf(op, x)]
             /\ NoneThrows(op, part(p))
  <2>1. DOMAIN part(p) \subseteq DOMAIN Content
    BY <1>2, <1>3
  <2>2. Computed(op, part(p)) = Ok(BlockAt(r, t, p))
    BY <1>6
  <2>3. BlockAt(r, t, p) = RowByRow(op, part(p)) /\ NoneThrows(op, part(p))
    BY <2>1, <2>2, ComputedRowByRow
  <2>4. RowByRow(op, part(p)) = [x \in K(DOMAIN part(p)) |-> RowOf(op, x)]
    BY <1>4, RowsKept
  <2>5. QED BY <2>3, <2>4
<1>8. RowByRow(op, WholeTable(v)) = [x \in K(D) |-> RowOf(op, x)]
  BY <1>5, RowsKept DEF D
<1>9. \A p \in P : DOMAIN BlockAt(r, t, p) = K(DOMAIN part(p))
  BY <1>7
<1>10. ASSUME NEW p \in P, NEW q \in P, p # q
       PROVE  DOMAIN BlockAt(r, t, p) \cap DOMAIN BlockAt(r, t, q) = {}
  BY <1>2, <1>9, <1>10
<1> DEFINE whole == [x \in K(D) |-> RowOf(op, x)]
<1>11. UNION {DOMAIN BlockAt(r, t, p) : p \in P} = K(D)
  <2>1. ASSUME NEW x \in K(D) PROVE \E p \in P : x \in DOMAIN BlockAt(r, t, p)
    <3>1. PICK p \in P : x \in DOMAIN part(p)
      BY <1>2
    <3>2. QED BY <1>9, <3>1
  <2>2. ASSUME NEW p \in P, NEW x \in DOMAIN BlockAt(r, t, p) PROVE x \in K(D)
    <3>1. x \in K(DOMAIN part(p))
      BY <1>9, <2>2
    <3>2. QED BY <1>2, <3>1
  <2>3. QED BY <2>1, <2>2
<1>12. \A p \in P : \A x \in DOMAIN BlockAt(r, t, p) : BlockAt(r, t, p)[x] = whole[x]
  <2> TAKE p \in P
  <2> TAKE x \in DOMAIN BlockAt(r, t, p)
  <2>1. x \in K(D)
    BY <1>11
  <2>2. x \in K(DOMAIN part(p))
    BY <1>9
  <2>3. BlockAt(r, t, p)[x] = RowOf(op, x)
    BY <1>7, <2>2
  <2>4. QED BY <2>1, <2>3
<1>13. AnswerOf(r, t) = whole
  <2>1. whole = [x \in DOMAIN whole |-> whole[x]] /\ DOMAIN whole = K(D)
    OBVIOUS
  <2> HIDE DEF whole, K
  <2>2. QED BY <1>11, <1>12, <2>1, BlocksTogether
<1>14. NoneThrows(op, WholeTable(v))
  <2>1. \A x \in D : \E p \in P : x \in DOMAIN part(p) /\ NoneThrows(op, part(p))
    BY <1>2, <1>7
  <2>2. QED BY <2>1 DEF NoneThrows, D
<1>15. QED BY <1>8, <1>10, <1>13, <1>14

(* What collect brings when nobody has outsourced the table anew is what   *)
(* Spark makes of it.                                                      *)
LEMMA CollectedIsExact ==
  ASSUME ServiceInv, WithinBounds, NEW r \in Requests, NEW t \in Mentioned(requests[r].statement),
         JobExact(r), Running(r), StageComplete(r, LastStage(r)), Undisturbed(r, t)
  PROVE  /\ \A p, q \in Partitions(r, t) :
              p # q => DOMAIN BlockAt(r, t, p) \cap DOMAIN BlockAt(r, t, q) = {}
         /\ BlockInAgreement(requests[r].statement.op, WholeTable(jobs[r].version[t]))
              => SameBlock(AnswerOf(r, t), SparkAnswer(r, t))
<1> DEFINE op == requests[r].statement.op
           v == jobs[r].version[t]
<1>1. /\ t \in Models /\ t \in Tables /\ t \in Under(r, LastStage(r))
      /\ LastStage(r) = Scans(r) + 2 /\ Scans(r) \in Nat
  BY LastIsNat, ServiceAssumption DEF ServiceInv, LastStage
<1>2. /\ jobs[r].files[t] # NotListed
      /\ \A p \in Partitions(r, t) : LastStage(r) <= jobs[r].cached[<<t, p>>].stage
  BY <1>1 DEF StageComplete
<1>3. requests[r].pc = "awaiting"
  BY DEF Running
<1>4. Partitions(r, t) = Present(t)
  <2>1. jobs[r].files[t] = Present(t)
    BY <1>1, <1>2, <1>3 DEF JobExact, FilesListed
  <2>2. 0 \notin Present(t)
    BY StoreAssumption DEF Present, Slices
  <2>3. QED BY <2>1, <2>2 DEF Partitions, NotListed
<1>5. op \in Operators
  BY DEF Operators, ServiceInv, RestInv, RestTypeOK, RequestType
<1>6. ASSUME NEW p \in Present(t)
      PROVE  Ok(BlockAt(r, t, p)) = Computed(op, BlockOf(data[t].parts[p]))
  <2> DEFINE stage == jobs[r].cached[<<t, p>>].stage
  <2>1. p \in Slices
    BY DEF Present
  <2>2. BlockOfPart(r, t, p)
    BY <1>1, <1>3, <2>1 DEF JobExact
  <2>3. stage \in Nat /\ LastStage(r) <= stage
    BY <1>1, <1>2, <1>4, <2>1, JobsAreRecords
  <2>4. stage # 0 /\ ~ stage <= Scans(r)
    BY <1>1, <2>3
  <2>5. Ok(BlockAt(r, t, p)) = Through(r, stage, BlockOf(data[t].parts[p]))
    BY <2>2, <2>4 DEF BlockOfPart
  <2>6. QED BY <2>4, <2>5 DEF Through
<1>7. v \in 1 .. MaxOutsourcings /\ IsWhole(t, v)
  <2>1. complete[t] # 0 /\ complete[t] = v
    BY DEF Undisturbed
  <2>2. complete[t] = outsourcings[t] /\ outsourcings[t] \in Nat
    BY <1>1, <2>1 DEF ServiceInv, StoreInv, StoreTypeOK, CompleteIsLatest
  <2>3. outsourcings[t] <= MaxOutsourcings /\ MaxOutsourcings \in Nat
    BY <1>1, StoreAssumption DEF WithinBounds
  <2>4. IsWhole(t, complete[t])
    BY <1>1, <2>1, InvImpliesWhole DEF ServiceInv, ReturnedTableIsWhole
  <2>5. QED BY <2>1, <2>2, <2>3, <2>4
<1> HIDE DEF op, v
<1>8. /\ \A p, q \in Partitions(r, t) :
           p # q => DOMAIN BlockAt(r, t, p) \cap DOMAIN BlockAt(r, t, q) = {}
      /\ AnswerOf(r, t) = RowByRow(op, WholeTable(v))
      /\ NoneThrows(op, WholeTable(v))
  BY <1>1, <1>4, <1>5, <1>6, <1>7, PartsComputeWhole
<1>9. ASSUME BlockInAgreement(op, WholeTable(v))
      PROVE  SameBlock(RowByRow(op, WholeTable(v)), SparkResult(op, WholeTable(v)))
  BY <1>5, <1>8, <1>9, RowByRowIsSparks
<1>10. QED BY <1>8, <1>9 DEF SparkAnswer, op, v

(* An answer is as exact for a job that differs in nothing that was        *)
(* collected.                                                              *)
LEMMA SameCollected ==
  ASSUME NEW s, NEW j1, NEW j2,
         j2.cached = j1.cached, j2.files = j1.files, j2.version = j1.version
  PROVE  ExactJob(s, j1) <=> ExactJob(s, j2)
BY DEF ExactJob

LEMMA AnswerExact ==
  ASSUME ServiceInv, WithinBounds, [Next]_vars, NEW r \in Requests, JobExact(r), Answer(r)
  PROVE  JobExact(r)'
<1> DEFINE still == \A t \in Under(r, LastStage(r)) :
                      complete[t] # 0 /\ complete[t] = jobs[r].version[t]
<1>1. /\ Running(r) /\ StageComplete(r, LastStage(r)) /\ Respond(r, 200)
      /\ UNCHANGED callVars
      /\ jobs' = [jobs EXCEPT ![r].undisturbed = still]
  BY DEF Answer
<1>2. still \in BOOLEAN
  OBVIOUS
<1>3. /\ requests[r].pc = "awaiting" /\ requests'[r].pc = "answered"
      /\ requests'[r].statement = requests[r].statement
  BY <1>1 DEF Respond, Answered, ServiceInv, RestInv, RestTypeOK, RequestType
<1>4. Under(r, LastStage(r)) = Mentioned(requests[r].statement)
  BY LastIsNat DEF ServiceInv
<1>5. /\ jobs'[r].cached = jobs[r].cached /\ jobs'[r].files = jobs[r].files
      /\ jobs'[r].version = jobs[r].version /\ jobs'[r].undisturbed = still
  <2>1. PICK B : jobs[r] \in JobType(B)
    BY JobsAreRecords
  <2> HIDE DEF still
  <2>2. jobs'[r] = [jobs[r] EXCEPT !.undisturbed = still]
    BY <1>1, JobsAreRecords
  <2>3. QED BY <2>1, <2>2 DEF JobType
<1>6. ASSUME jobs'[r].undisturbed PROVE Exact(r)'
  <2>1. \A t \in Mentioned(requests[r].statement) : Undisturbed(r, t)
    BY <1>4, <1>5, <1>6 DEF Undisturbed
  <2> HIDE DEF still
  <2>2. Exact(r)
    BY <1>1, <2>1, CollectedIsExact, ExactIsExact
  <2>3. ExactJob(requests[r].statement, jobs'[r])
    BY <1>5, <2>2, SameCollected DEF Exact
  <2>4. QED BY <1>3, <2>3 DEF Exact
<1>7. QED BY <1>1, <1>3, <1>5, <1>6, AnsweredExact
---------------------------------------------------------------------------
(* Every step, for the request it is of and for the others.                *)

(* A step that leaves a request, its job and all calls.                    *)
LEMMA UntouchedExact ==
  ASSUME ServiceInv, [Next]_vars, NEW q \in Requests, JobExact(q),
         requests'[q] = requests[q], jobs'[q] = jobs[q], UNCHANGED callVars
  PROVE  JobExact(q)'
<1>1. \A t \in Models, p \in Slices : QuietCall(<<q, t, p>>)
  BY DEF callVars, QuietCall
<1>2. QED BY <1>1, QuietStep

(* The executor is lost.                                                   *)
LEMMA LossExact ==
  ASSUME ServiceInv, [Next]_vars, NEW q \in Requests, JobExact(q),
         UNCHANGED restVars, AllLost, WithLoss
  PROVE  JobExact(q)'
<1>1. executor.jvm \in Nat
  BY DEF ServiceInv, CallInv, ExecutorTypeOK
<1>2. jobs' = AfterLoss /\ requests' = requests
  BY <1>1 DEF AllLost, WithLoss, restVars
<1>3. \A t \in Models, p \in Slices : calls'[<<q, t, p>>].pc = "none"
  BY ServiceAssumption DEF AllLost, NoCall
<1>4. CASE requests[q].pc = "answered"
  <2>1. jobs'[q] = jobs[q]
    BY <1>2, <1>4 DEF AfterLoss
  <2>2. \A t \in Models, p \in Slices : QuietCall(<<q, t, p>>)
    BY <1>3 DEF QuietCall
  <2>3. QED BY <1>2, <2>1, <2>2, QuietStep
<1>5. CASE requests[q].pc # "answered"
  <2>1. jobs'[q] = [jobs[q] EXCEPT !.cached = [tp \in Models \X Slices |-> NotCached]]
    BY <1>2, <1>5 DEF AfterLoss
  <2>2. QED BY <1>2, <1>3, <1>5, <2>1, BlocksLostStep
<1>6. QED BY <1>4, <1>5

(* One call is made, comes back or is taken.                               *)
LEMMA OneCallExact ==
  ASSUME ServiceInv, [Next]_vars, NEW q \in Requests, JobExact(q),
         UNCHANGED restVars, jobs'[q] = jobs[q],
         NEW c \in Callers, NEW call, calls' = [calls EXCEPT ![c] = call],
         \/ \A t \in Models, p \in Slices : <<q, t, p>> # c
         \/ call.pc = "none"
         \/ calls[c].pc # "none" /\ call.op = calls[c].op /\ call.input = calls[c].input
  PROVE  JobExact(q)'
<1>1. requests' = requests
  BY DEF restVars
<1>2. /\ calls'[c] = call
      /\ \A d \in Callers : d # c => calls'[d] = calls[d]
  BY DEF ServiceInv, CallInv, ExecutorTypeOK
<1>3. ASSUME NEW t \in Models, NEW p \in Slices PROVE QuietCall(<<q, t, p>>)
  <2>1. <<q, t, p>> \in Callers
    BY ServiceAssumption
  <2>2. CASE <<q, t, p>> # c
    BY <1>2, <2>1, <2>2 DEF QuietCall
  <2>3. CASE <<q, t, p>> = c
    BY <1>2, <2>3 DEF QuietCall
  <2>4. QED BY <2>2, <2>3
<1>4. QED BY <1>1, <1>3, QuietStep

(* A step that changes the job of a request in progress, and no block.     *)
LEMMA NoBlockExact ==
  ASSUME ServiceInv, [Next]_vars, NEW r \in Requests, JobExact(r), Running(r),
         UNCHANGED restVars, \A t \in Models, p \in Slices : QuietCall(<<r, t, p>>),
         jobs'[r].cached = jobs[r].cached, jobs'[r].version = jobs[r].version,
         \A t \in Models :
           jobs'[r].files[t] = jobs[r].files[t] \/ jobs'[r].files[t] = Present(t)'
  PROVE  JobExact(r)'
<1>1. /\ requests'[r] = requests[r] /\ requests[r].pc = "awaiting" /\ ~ jobs[r].failed
  BY DEF restVars, Running
<1>2. QED BY <1>1, QuietStep

LEMMA ListFilesExact ==
  ASSUME ServiceInv, [Next]_vars, NEW r \in Requests, JobExact(r), ListFiles(r)
  PROVE  JobExact(r)'
<1>1. PICK u \in Models :
        /\ Running(r) /\ UNCHANGED <<storeVars, restVars, callVars>>
        /\ \/ jobs' = [jobs EXCEPT ![r].files[u] = Present(u)]
           \/ jobs' = [jobs EXCEPT ![r].failed = TRUE]
  BY DEF ListFiles
<1>2. PICK B : jobs[r] \in JobType(B)
  BY JobsAreRecords
<1>3. jobs = [q \in Requests |-> jobs[q]]
  BY JobsAreRecords
<1> DEFINE listed == [jobs[r] EXCEPT !.files[u] = Present(u)]
           refused == [jobs[r] EXCEPT !.failed = TRUE]
<1>4. /\ listed.cached = jobs[r].cached /\ listed.version = jobs[r].version
      /\ \A t \in Models : listed.files[t] = jobs[r].files[t] \/ listed.files[t] = Present(t)
  BY <1>2 DEF JobType
<1>5. refused.cached = jobs[r].cached /\ refused.version = jobs[r].version
      /\ refused.files = jobs[r].files
  BY <1>2 DEF JobType
<1>6. jobs'[r] = listed \/ jobs'[r] = refused
  BY <1>1, <1>3
<1>7. \A t : Present(t)' = Present(t)
  BY <1>1 DEF Present, storeVars
<1> HIDE DEF listed, refused
<1>8. \A t \in Models, p \in Slices : QuietCall(<<r, t, p>>)
  BY <1>1 DEF callVars, QuietCall
<1>9. QED BY <1>1, <1>4, <1>5, <1>6, <1>7, <1>8, NoBlockExact

LEMMA NextJobExact ==
  ASSUME ServiceInv, [Next]_vars, NEW r \in Requests, JobExact(r), NextJob(r)
  PROVE  JobExact(r)'
<1>1. /\ Running(r) /\ UNCHANGED <<storeVars, restVars, callVars>>
      /\ jobs' = [jobs EXCEPT ![r].stage = @ + 1,
                    ![r].failures = [tp \in Models \X Slices |-> 0]]
  BY DEF NextJob
<1>2. PICK B : jobs[r] \in JobType(B)
  BY JobsAreRecords
<1>3. jobs = [q \in Requests |-> jobs[q]]
  BY JobsAreRecords
<1> DEFINE job == [jobs[r] EXCEPT !.stage = @ + 1,
                     !.failures = [tp \in Models \X Slices |-> 0]]
<1>4. /\ job.cached = jobs[r].cached /\ job.version = jobs[r].version
      /\ job.files = jobs[r].files
  BY <1>2 DEF JobType
<1>5. jobs'[r] = job
  BY <1>1, <1>2, <1>3 DEF JobType
<1> HIDE DEF job
<1>6. \A t \in Models, p \in Slices : QuietCall(<<r, t, p>>)
  BY <1>1 DEF callVars, QuietCall
<1>7. QED BY <1>1, <1>4, <1>5, <1>6, NoBlockExact

LEMMA JobFailedExact ==
  ASSUME ServiceInv, [Next]_vars, NEW r \in Requests, JobExact(r), JobFailed(r)
  PROVE  JobExact(r)'
<1>1. /\ requests[r].pc = "awaiting" /\ Answered(r, 500) /\ UNCHANGED callVars /\ jobs' = jobs
  BY DEF JobFailed, Respond
<1>2. requests'[r].pc = "answered" /\ requests'[r].status = 500
  BY <1>1 DEF Answered, ServiceInv, RestInv, RestTypeOK, RequestType
<1>3. ~ Answered200(r)'
  BY <1>2 DEF Answered200
<1>4. QED BY <1>1, <1>2, <1>3, AnsweredExact

LEMMA FailureExact ==
  ASSUME ServiceInv, [Next]_vars, NEW r \in Requests, NEW u \in Models, NEW i \in Slices,
         JobExact(r), Running(r), UNCHANGED restVars,
         \A t \in Models, p \in Slices : QuietCall(<<r, t, p>>),
         jobs' = [jobs EXCEPT ![r] = AfterFailure(r, u, i)]
  PROVE  JobExact(r)'
<1>1. PICK B : jobs[r] \in JobType(B)
  BY JobsAreRecords
<1>2. jobs'[r] = AfterFailure(r, u, i)
  BY JobsAreRecords
<1> DEFINE job1 == [jobs[r] EXCEPT !.failed = TRUE]
           job2 == [jobs[r] EXCEPT !.failures[<<u, i>>] = @ + 1]
<1>3. job1.cached = jobs[r].cached /\ job1.version = jobs[r].version /\ job1.files = jobs[r].files
  BY <1>1 DEF JobType
<1>4. job2.cached = jobs[r].cached /\ job2.version = jobs[r].version /\ job2.files = jobs[r].files
  BY <1>1 DEF JobType
<1>5. jobs'[r] = job1 \/ jobs'[r] = job2
  BY <1>2 DEF AfterFailure
<1> HIDE DEF job1, job2
<1>6. QED BY <1>3, <1>4, <1>5, NoBlockExact

(* The steps of a request.                                                 *)
LEMMA RequestStepExact ==
  ASSUME ServiceInv, WithinBounds, [Next]_vars, NEW r \in Requests, RequestStep(r),
         NEW q \in Requests, JobExact(q)
  PROVE  JobExact(q)'
<1>1. CASE q = r
  BY <1>1, ServeExact, ListFilesExact, NextJobExact, AnswerExact, JobFailedExact DEF RequestStep
<1>2. CASE q # r
  <2>1. UNCHANGED callVars
    BY DEF RequestStep, Serve, ListFiles, NextJob, Answer, JobFailed
  <2>2. jobs = [s \in Requests |-> jobs[s]]
    BY JobsAreRecords
  <2>3. requests \in [Requests -> RequestType]
    BY DEF ServiceInv, RestInv, RestTypeOK
  <2>4. CASE Serve(r)
    <3>1. requests'[q] = requests[q]
      BY <1>2, <2>4, HandlerNot200 DEF Serve, ServiceInv
    <3>2. jobs'[q] = jobs[q]
      BY <1>2, <2>2, <2>4 DEF Serve
    <3>3. QED BY <2>1, <3>1, <3>2, UntouchedExact
  <2>5. CASE ListFiles(r) \/ NextJob(r)
    <3>1. requests'[q] = requests[q]
      BY <2>5 DEF ListFiles, NextJob, restVars
    <3>2. jobs'[q] = jobs[q]
      BY <1>2, <2>2, <2>5 DEF ListFiles, NextJob
    <3>3. QED BY <2>1, <3>1, <3>2, UntouchedExact
  <2>6. CASE Answer(r) \/ JobFailed(r)
    <3>1. requests'[q] = requests[q]
      BY <1>2, <2>3, <2>6 DEF Answer, JobFailed, Respond, Answered
    <3>2. jobs'[q] = jobs[q]
      BY <1>2, <2>2, <2>6 DEF Answer, JobFailed
    <3>3. QED BY <2>1, <3>1, <3>2, UntouchedExact
  <2>7. QED BY <2>4, <2>5, <2>6 DEF RequestStep
<1>3. QED BY <1>1, <1>2

(* The steps of a task.                                                    *)
LEMMA TakeResultExact ==
  ASSUME ServiceInv, CallsCompute, [Next]_vars,
         NEW r \in Requests, NEW t \in Models, NEW p \in Slices, TakeResult(r, t, p),
         NEW q \in Requests, JobExact(q)
  PROVE  JobExact(q)'
<1> DEFINE c == <<r, t, p>>
<1>1. /\ c \in Callers /\ calls' = [calls EXCEPT ![c] = NoCall] /\ NoCall.pc = "none"
      /\ UNCHANGED <<storeVars, restVars>>
  BY ServiceAssumption DEF TakeResult, Take, NoCall
<1>2. CASE jobs'[q] = jobs[q]
  BY <1>1, <1>2, OneCallExact
<1>3. CASE q = r
  <2>1. CASE UNCHANGED jobs
    BY <1>2, <2>1
  <2>2. CASE Running(r) /\ jobs' = [jobs EXCEPT ![r] = AfterFailure(r, t, p)]
    <3>1. \A u \in Models, i \in Slices : QuietCall(<<r, u, i>>)
      <4> SUFFICES ASSUME NEW u \in Models, NEW i \in Slices PROVE QuietCall(<<r, u, i>>)
        OBVIOUS
      <4>1. <<r, u, i>> \in Callers
        BY ServiceAssumption
      <4>2. calls'[<<r, u, i>>] = NoCall \/ calls'[<<r, u, i>>] = calls[<<r, u, i>>]
        BY <1>1, <4>1 DEF ServiceInv, CallInv, ExecutorTypeOK
      <4>3. QED BY <1>1, <4>2 DEF QuietCall
    <3>2. QED BY <1>1, <1>3, <2>2, <3>1, FailureExact
  <2>3. ASSUME ~ calls[c].exception, NEW k \in 1 .. LastStage(r), Wanted(r, t, p, k),
               Cache(r, t, p, k, calls[c].output)
        PROVE  JobExact(q)'
    BY <1>1, <1>3, <2>3, TakeExact
  <2>4. QED BY <2>1, <2>2, <2>3 DEF TakeResult
<1>4. CASE q # r
  <2>1. jobs'[q] = jobs[q]
    BY <1>4, JobsAreRecords DEF TakeResult, Cache
  <2>2. QED BY <1>2, <2>1
<1>5. QED BY <1>3, <1>4

LEMMA ReadPartExact ==
  ASSUME ServiceInv, [Next]_vars,
         NEW r \in Requests, NEW t \in Models, NEW p \in Slices, NEW k \in 1 .. LastStage(r),
         ReadPart(r, t, p, k), NEW q \in Requests, JobExact(q)
  PROVE  JobExact(q)'
<1>1. /\ Running(r) /\ UNCHANGED <<storeVars, restVars, callVars>>
      /\ \/ Cache(r, t, p, k, BlockOf(data[t].parts[p]))
         \/ jobs' = [jobs EXCEPT ![r] = AfterFailure(r, t, p)]
  BY DEF ReadPart, Wanted
<1>2. CASE q = r
  <2>1. \A u \in Models, i \in Slices : QuietCall(<<r, u, i>>)
    BY <1>1 DEF callVars, QuietCall
  <2>2. CASE Cache(r, t, p, k, BlockOf(data[t].parts[p]))
    BY <1>2, <2>2, ReadExact
  <2>3. CASE jobs' = [jobs EXCEPT ![r] = AfterFailure(r, t, p)]
    BY <1>1, <1>2, <2>1, <2>3, FailureExact
  <2>4. QED BY <1>1, <2>2, <2>3
<1>3. CASE q # r
  <2>1. jobs'[q] = jobs[q]
    BY <1>1, <1>3, JobsAreRecords DEF Cache
  <2>2. requests'[q] = requests[q]
    BY <1>1 DEF restVars
  <2>3. QED BY <1>1, <2>1, <2>2, UntouchedExact
<1>4. QED BY <1>2, <1>3

LEMMA MakeCallExact ==
  ASSUME ServiceInv, [Next]_vars,
         NEW r \in Requests, NEW t \in Models, NEW p \in Slices, NEW k \in 1 .. LastStage(r),
         MakeCall(r, t, p, k), NEW q \in Requests, JobExact(q)
  PROVE  JobExact(q)'
<1> DEFINE c == <<r, t, p>>
<1>1. /\ c \in Callers /\ CallInv /\ WithLoss /\ UNCHANGED <<storeVars, restVars>>
      /\ Call(c, OpOf(r, k), BlockAt(r, t, p))
  BY ServiceAssumption DEF MakeCall, ServiceInv, BlockAt
<1>2. CASE AllLost
  BY <1>1, <1>2, LossExact
<1>3. ASSUME NEW call, Becomes(c, call), call.op = OpOf(r, k), call.input = BlockAt(r, t, p)
      PROVE  JobExact(q)'
  <2>1. CASE q = r
    BY <1>3, <2>1, MakeExact
  <2>2. CASE q # r
    <3>1. /\ jobs'[q] = jobs[q] /\ calls' = [calls EXCEPT ![c] = call]
      BY <1>1, <1>3 DEF Becomes, WithLoss
    <3>2. \A u \in Models, i \in Slices : <<q, u, i>> # c
      BY <2>2
    <3>3. QED BY <1>1, <3>1, <3>2, OneCallExact
  <2>3. QED BY <2>1, <2>2
<1>4. QED BY <1>1, <1>2, <1>3, CallMade

LEMMA CallEndsExact ==
  ASSUME ServiceInv, [Next]_vars, NEW c \in Callers, CallEnds(c),
         NEW q \in Requests, JobExact(q)
  PROVE  JobExact(q)'
<1>1. CallInv /\ Leave(c) /\ WithLoss /\ UNCHANGED restVars
  BY DEF CallEnds, ServiceInv
<1>2. CASE AllLost
  BY <1>1, <1>2, LossExact
<1>3. ASSUME NEW call, Becomes(c, call), calls[c].pc = "inside",
             call.op = calls[c].op, call.input = calls[c].input
      PROVE  JobExact(q)'
  <2>1. jobs'[q] = jobs[q] /\ calls' = [calls EXCEPT ![c] = call] /\ calls[c].pc # "none"
    BY <1>1, <1>3 DEF Becomes, WithLoss
  <2>2. QED BY <1>1, <1>3, <2>1, OneCallExact
<1>4. QED BY <1>1, <1>2, <1>3, CallLeft

LEMMA JobExactStep ==
  ASSUME ServiceInv, CallsCompute, WithinBounds, [Next]_vars, NEW q \in Requests, JobExact(q)
  PROVE  JobExact(q)'
<1>1. CASE UNCHANGED vars \/ OwnerStep
  <2>1. requests' = requests /\ jobs' = jobs /\ UNCHANGED callVars
    BY <1>1 DEF vars, OwnerStep, restVars
  <2>2. QED BY <2>1, UntouchedExact
<1>2. CASE ExecutorLost
  BY <1>2, LossExact DEF ExecutorLost, LoseExecutor, LostExecutor, AllLost, ServiceInv, CallInv,
     ExecutorTypeOK
<1>3. ASSUME NEW r \in Requests, RequestStep(r) PROVE JobExact(q)'
  BY <1>3, RequestStepExact
<1>4. ASSUME NEW r \in Requests, NEW t \in Models, NEW p \in Slices, TaskStep(r, t, p)
      PROVE  JobExact(q)'
  <2>1. <<r, t, p>> \in Callers
    BY ServiceAssumption
  <2>2. QED BY <1>4, <2>1, CallEndsExact, TakeResultExact, ReadPartExact, MakeCallExact
            DEF TaskStep
<1>5. QED BY <1>1, <1>2, <1>3, <1>4 DEF Next, ServiceStep

LEMMA JobExactInit ==
  ASSUME Init, NEW q \in Requests
  PROVE  JobExact(q)
<1>1. /\ jobs[q] = NoJob /\ requests[q].pc = "received"
      /\ \A c \in Callers : calls[c].pc = "none"
  BY DEF Init, RestInit, CallInit, NoCall
<1>2. \A t \in Models : jobs[q].version[t] = 0
  BY <1>1 DEF NoJob
<1>3. VersionPast(q)
  BY <1>2 DEF VersionPast
<1>4. \A t \in Models, p \in Slices : CallOfNext(q, t, p)
  BY <1>1, ServiceAssumption DEF CallOfNext
<1>5. QED BY <1>1, <1>3, <1>4 DEF JobExact, Answered200

(* For any tables, slices, expressions, requests, cores and retries, any   *)
(* number of executors lost and of outsourcings, and every interleaving of *)
(* them: a request that is answered with a result, whose tables nobody has *)
(* outsourced anew since it was analysed, is answered with all of it, every *)
(* row once and as Spark computes it.                                      *)
THEOREM ExactAnswers == Spec => []AnswersAreExact
<1> DEFINE AllExact == \A r \in Requests : JobExact(r)
<1>1. AllExact => AnswersAreExact
  BY ExactIsExact DEF AnswersAreExact, JobExact
<1>2. ServiceInv /\ CallsCompute /\ WithinBounds /\ [Next]_vars
        => CallsCompute' /\ WithinBounds'
  BY CallsComputeStep, WithinBoundsStep
<1>3. ServiceInv /\ CallsCompute /\ WithinBounds /\ AllExact /\ [Next]_vars => AllExact'
  BY JobExactStep
<1>4. Init => CallsCompute /\ WithinBounds /\ AllExact
  BY CallsComputeInit, WithinBoundsInit, JobExactInit
<1> HIDE DEF AllExact
<1>5. QED BY ServiceInvariant, <1>1, <1>2, <1>3, <1>4, PTL DEF Spec

=============================================================================
