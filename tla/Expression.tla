----------------------------- MODULE Expression -----------------------------
(***************************************************************************)
(* The expression evaluator of the enclave (FlatbuffersExpressionEvaluator *)
(* in core/src/native/Enclave/ExpressionEvaluation.h) and, under the rule, *)
(* what Spark computes for the same expression.                            *)
(*                                                                         *)
(* A field has a type, a null flag and a value; a null field still carries *)
(* a value, which the code computes with in places. A thrown exception is  *)
(* a field of type "throws" whose value says whether the class is derived  *)
(* from std::runtime_error or from std::logic_error (std::invalid_argument *)
(* and std::out_of_range are), because only the first is caught.           *)
(* Characters are their codes; a string is a sequence of them. Left out:   *)
(* floating point, arrays and maps, division, and casts of dates and to    *)
(* strings.                                                                *)
(***************************************************************************)
EXTENDS Integers, Sequences

CONSTANTS
  IntegerMax,   \* the largest IntegerField
  LongMax       \* the largest LongField, where std::stol gives up

ASSUME WidthAssumption ==
  IntegerMax \in Nat \ {0} /\ LongMax \in Nat /\ IntegerMax <= LongMax

Field(type, is_null, value) == [type |-> type, is_null |-> is_null, value |-> value]
Throws(class) == Field("throws", FALSE, class)

BooleanField(is_null, value) == Field("BooleanField", is_null, value)
IntegerField(is_null, value) == Field("IntegerField", is_null, value)
LongField(is_null, value)    == Field("LongField", is_null, value)
StringField(is_null, value)  == Field("StringField", is_null, value)

(* The fields of a row: a value of the type beside the null flag, which is *)
(* there as well when the field is null.                                   *)
ValuesOf(type) ==
  CASE type = "BooleanField" -> BOOLEAN
    [] type \in {"IntegerField", "LongField", "DateField"} -> Int
    [] type = "StringField" -> Seq(Nat)

IsField(f) ==
  /\ f.type \in {"BooleanField", "IntegerField", "LongField", "DateField", "StringField"}
  /\ f \in [type : {f.type}, is_null : BOOLEAN, value : ValuesOf(f.type)]

(* What a number is after it has been stored in the width of max.          *)
Wrap(max, n) == ((n + max + 1) % (2 * max + 2)) - max - 1

(* eval_binary_arithmetic_op: computed whether or not a side is null.      *)
Arithmetic(left, right, value) ==
  LET is_null == left.is_null \/ right.is_null
  IN  IF left.type # right.type THEN Throws("runtime_error")
      ELSE IF left.type = "IntegerField" THEN IntegerField(is_null, Wrap(IntegerMax, value))
      ELSE IF left.type = "LongField" THEN LongField(is_null, Wrap(LongMax, value))
      ELSE Throws("runtime_error")

(* The order of std::string.                                               *)
StringLess(s, t) ==
  \/ \E n \in 0 .. Len(s) :
       /\ n < Len(t)
       /\ \A i \in 1 .. n : s[i] = t[i]
       /\ n = Len(s) \/ s[n + 1] < t[n + 1]

Less(left, right) ==
  IF left.type = "StringField" THEN StringLess(left.value, right.value)
                               ELSE left.value < right.value

Equal(left, right) == left.value = right.value
LessOrEqual(left, right) == Less(left, right) \/ Equal(left, right)

(* eval_binary_comparison: dates and Booleans are not compared.            *)
Comparison(left, right, value) ==
  IF left.type # right.type THEN Throws("runtime_error")
  ELSE IF left.is_null \/ right.is_null THEN BooleanField(TRUE, FALSE)
  ELSE IF left.type \in {"IntegerField", "LongField", "StringField"}
    THEN BooleanField(FALSE, value)
  ELSE Throws("runtime_error")

(* Fault: a null left side decides as if it were false.                    *)
AndNullIsFalse(left, right) ==
  IF left.type # "BooleanField" \/ right.type # "BooleanField"
    THEN Throws("runtime_error")
  ELSE IF ~ left.value \/ (~ right.is_null /\ ~ right.value)
    THEN BooleanField(FALSE, FALSE)
  ELSE IF ~ left.is_null /\ ~ right.is_null THEN BooleanField(FALSE, TRUE)
  ELSE BooleanField(TRUE, FALSE)

(* Both sides have been evaluated: a false one decides.                    *)
And(left, right) ==
  IF left.type # "BooleanField" \/ right.type # "BooleanField"
    THEN Throws("runtime_error")
  ELSE IF (~ left.is_null /\ ~ left.value) \/ (~ right.is_null /\ ~ right.value)
    THEN BooleanField(FALSE, FALSE)
  ELSE IF ~ left.is_null /\ ~ right.is_null THEN BooleanField(FALSE, TRUE)
  ELSE BooleanField(TRUE, FALSE)

Or(left, right) ==
  IF left.type # "BooleanField" \/ right.type # "BooleanField"
    THEN Throws("runtime_error")
  ELSE IF (~ left.is_null /\ left.value) \/ (~ right.is_null /\ right.value)
    THEN BooleanField(FALSE, TRUE)
  ELSE IF ~ left.is_null /\ ~ right.is_null THEN BooleanField(FALSE, FALSE)
  ELSE BooleanField(TRUE, FALSE)

Not(child) ==
  IF child.type # "BooleanField" THEN Throws("runtime_error")
                                 ELSE BooleanField(child.is_null, ~ child.value)

IsNull(child) == BooleanField(FALSE, child.is_null)

(* Both branches have been evaluated; a null predicate gives a null.       *)
If(predicate, true_value, false_value) ==
  IF predicate.type # "BooleanField" \/ true_value.type # false_value.type
    THEN Throws("runtime_error")
  ELSE IF predicate.is_null THEN [true_value EXCEPT !.is_null = TRUE]
  ELSE IF predicate.value THEN true_value ELSE false_value

---------------------------------------------------------------------------
(* Strings. *)

Digits     == 48 .. 57
Whitespace == (9 .. 13) \cup {32}
Plus       == 43
Minus      == 45

(* How many characters of C a string begins with.                          *)
Leading(s, C) ==
  LET AllIn(n) == \A i \in 1 .. n : s[i] \in C
  IN  CHOOSE n \in 0 .. Len(s) : AllIn(n) /\ \A m \in 0 .. Len(s) : AllIn(m) => m <= n

(* The number that the first n digits are, after the sign if there is one. *)
Number(s, n) ==
  LET value[i \in 0 .. n] == IF i = 0 THEN 0 ELSE 10 * value[i - 1] + (s[i] - 48)
  IN  value[n]

HasSign(s)   == s # <<>> /\ s[1] \in {Plus, Minus}
Unsigned(s)  == IF HasSign(s) THEN Tail(s) ELSE s
Signed(s, n) == IF HasSign(s) /\ s[1] = Minus THEN 0 - Number(Unsigned(s), n)
                                              ELSE Number(Unsigned(s), n)

(* A number is stored in the width of its new type (flatbuffers_cast).     *)
Store(is_null, n, target_type) ==
  IF target_type = "IntegerType" THEN IntegerField(is_null, Wrap(IntegerMax, n))
                                 ELSE LongField(is_null, Wrap(LongMax, n))

(* std::stol skips whitespace, reads a sign and as many digits as there    *)
(* are, and ignores what follows; for an IntegerField the long is then cut *)
(* down to 32 bits.                                                        *)
SkipWhitespace(s) == SubSeq(s, Leading(s, Whitespace) + 1, Len(s))

CastFromString(str, target_type) ==
  LET s == SkipWhitespace(str.value)
      n == Leading(Unsigned(s), Digits)
  IN  IF str.is_null THEN Store(TRUE, 0, target_type)
      ELSE IF n = 0 \/ Signed(s, n) \notin (0 - LongMax - 1) .. LongMax
        THEN Throws("logic_error")
      ELSE Store(FALSE, Signed(s, n), target_type)

Cast(value, target_type) ==
  IF target_type \notin {"IntegerType", "LongType"} THEN Throws("runtime_error")
  ELSE IF value.type = "StringField" THEN CastFromString(value, target_type)
  ELSE IF value.type \in {"IntegerField", "LongField"}
    THEN Store(value.is_null, value.value, target_type)
  ELSE Throws("runtime_error")

Larger(m, n) == IF m < n THEN n ELSE m

(* Where the substring of a string of that length begins, before it is     *)
(* moved into the string, and where it ends (both counted from 0).         *)
RawStart(length, pos) ==
  IF pos > 0 THEN pos - 1 ELSE IF pos < 0 THEN length + pos ELSE 0

SubstringEnd(length, pos, len) ==
  IF length - RawStart(length, pos) < len THEN length ELSE RawStart(length, pos) + len

SubstringStart(length, pos, len) ==
  LET start == Larger(RawStart(length, pos), 0)
  IN  IF start > SubstringEnd(length, pos, len) THEN SubstringEnd(length, pos, len)
                                                ELSE start

Substring(str, pos, len) ==
  IF str.type # "StringField" \/ pos.type # "IntegerField" \/ len.type # "IntegerField"
    THEN Throws("runtime_error")
  ELSE IF str.is_null \/ pos.is_null \/ len.is_null THEN StringField(TRUE, <<>>)
  ELSE LET n == Len(str.value)
       IN  StringField(FALSE, SubSeq(str.value,
                                     SubstringStart(n, pos.value, len.value) + 1,
                                     SubstringEnd(n, pos.value, len.value)))

Occurs(t, s) ==
  \E k \in 0 .. Len(s) - Len(t) : \A i \in 1 .. Len(t) : s[k + i] = t[i]

(* std::find_end answers "not found" for an empty needle.                  *)
ContainsString(left, right) ==
  IF left.type # "StringField" \/ right.type # "StringField"
    THEN Throws("runtime_error")
  ELSE IF left.is_null \/ right.is_null THEN BooleanField(TRUE, FALSE)
  ELSE BooleanField(FALSE, right.value # <<>> /\ Occurs(right.value, left.value))

---------------------------------------------------------------------------
(* Dates: days since 1970-01-01. *)

Smaller(m, n) == IF m < n THEN m ELSE n

(* secs_to_tm: the years since 2000-03-01 are found in cycles of 400, 100, *)
(* 4 and 1 years that each end with their leap day.                        *)
YearOfDay(day) ==
  LET days     == day - 11017
      qc       == days \div 146097
      in400    == days % 146097
      c        == Smaller(in400 \div 36524, 3)
      in100    == in400 - 36524 * c
      q        == Smaller(in100 \div 1461, 24)
      in4      == in100 - 1461 * q
      remyears == Smaller(in4 \div 365, 3)
      remdays  == in4 - 365 * remyears
      january  == IF remdays >= 306 THEN 1 ELSE 0
  IN  2000 + 400 * qc + 100 * c + 4 * q + remyears + january

Year(child) ==
  IF child.type # "DateField" THEN Throws("runtime_error")
  ELSE IntegerField(child.is_null, IF child.is_null THEN 0 ELSE YearOfDay(child.value))

---------------------------------------------------------------------------
(* Expressions: Exprs is a sequence of nodes, each with an operator op and *)
(* the numbers args of the nodes before it that it is applied to; a number *)
(* is an expression. *)

(* eval_helper on one node, once its arguments have been evaluated.        *)
EvalNode(e, row, args) ==
  CASE e.op = "Col"                -> row[e.col_num]
    [] e.op = "Literal"            -> e.value
    [] e.op = "Cast"               -> Cast(args[1], e.target_type)
    [] e.op = "Add"                -> Arithmetic(args[1], args[2], args[1].value + args[2].value)
    [] e.op = "Subtract"           -> Arithmetic(args[1], args[2], args[1].value - args[2].value)
    [] e.op = "Multiply"           -> Arithmetic(args[1], args[2], args[1].value * args[2].value)
    [] e.op = "And"                -> And(args[1], args[2])
    [] e.op = "Or"                 -> Or(args[1], args[2])
    [] e.op = "Not"                -> Not(args[1])
    [] e.op = "LessThan"           -> Comparison(args[1], args[2], Less(args[1], args[2]))
    [] e.op = "LessThanOrEqual"    -> Comparison(args[1], args[2], LessOrEqual(args[1], args[2]))
    [] e.op = "GreaterThan"        -> Comparison(args[1], args[2], Less(args[2], args[1]))
    [] e.op = "GreaterThanOrEqual" -> Comparison(args[1], args[2], LessOrEqual(args[2], args[1]))
    [] e.op = "EqualTo"            -> Comparison(args[1], args[2], Equal(args[1], args[2]))
    [] e.op = "Substring"          -> Substring(args[1], args[2], args[3])
    [] e.op = "Contains"           -> ContainsString(args[1], args[2])
    [] e.op = "If"                 -> If(args[1], args[2], args[3])
    [] e.op = "IsNull"             -> IsNull(args[1])
    [] e.op = "Year"               -> Year(args[1])

(* The operators by the number of their arguments.                         *)
OperatorsOn(n) ==
  CASE n = 0 -> {"Col", "Literal"}
    [] n = 1 -> {"Cast", "Not", "IsNull", "Year"}
    [] n = 2 -> {"Add", "Subtract", "Multiply", "And", "Or", "LessThan", "LessThanOrEqual",
                 "GreaterThan", "GreaterThanOrEqual", "EqualTo", "Contains"}
    [] n = 3 -> {"Substring", "If"}

(* The nodes are the serialised trees of Expr.fbs, over rows that have the *)
(* columns they ask for. Which types go together is not checked before the *)
(* evaluation.                                                             *)
WellFormed(Exprs, row) ==
  /\ Len(Exprs) \in Nat /\ DOMAIN Exprs = 1 .. Len(Exprs)
  /\ \A n \in DOMAIN Exprs :
       /\ Exprs[n].args \in Seq(1 .. n - 1)
       /\ Len(Exprs[n].args) \in 0 .. 3
       /\ Exprs[n].op \in OperatorsOn(Len(Exprs[n].args))
       /\ Exprs[n].op = "Literal" => IsField(Exprs[n].value)
       /\ Exprs[n].op = "Col" => IsField(row[Exprs[n].col_num])

(* A tree is evaluated from its leaves; the first argument that throws     *)
(* ends the evaluation.                                                    *)
Evaluate(Node(_, _, _), Exprs, row, expr) ==
  LET result[n \in 1 .. expr] ==
        LET e      == Exprs[n]
            args   == [i \in 1 .. Len(e.args) |-> result[e.args[i]]]
            Thrown == {i \in 1 .. Len(args) : args[i].type = "throws"}
        IN  IF Thrown = {} THEN Node(e, row, args)
            ELSE args[CHOOSE i \in Thrown : \A j \in Thrown : i <= j]
  IN  result[expr]

Eval(Exprs, row, expr) == Evaluate(EvalNode, Exprs, row, expr)

---------------------------------------------------------------------------
(* What Spark computes. *)

(* A field without the value that a null carries along.                    *)
Visible(f) ==
  IF ~ f.is_null THEN f
  ELSE CASE f.type = "BooleanField" -> BooleanField(TRUE, FALSE)
         [] f.type = "StringField"  -> StringField(TRUE, <<>>)
         [] OTHER                   -> Field(f.type, TRUE, 0)

SameField(f, g) == f.type = g.type /\ Visible(f) = Visible(g)

(* SQL's three truth values as numbers: false, unknown, true.              *)
Truth(f) == IF f.is_null THEN 1 ELSE IF f.value THEN 2 ELSE 0
OfTruth(n) == BooleanField(n = 1, n = 2)

SparkComparison(left, right, value) ==
  IF left.is_null \/ right.is_null THEN BooleanField(TRUE, FALSE)
                                   ELSE BooleanField(FALSE, value)

(* Only a string that is a number altogether, and one that fits, is cast. *)
(* (Fractions, which both cut off, are left out.)                          *)
CleanNumber(s, target_type) ==
  LET n   == Len(Unsigned(s))
      max == IF target_type = "IntegerType" THEN IntegerMax ELSE LongMax
  IN  /\ n > 0
      /\ Leading(Unsigned(s), Digits) = n
      /\ Signed(s, n) \in (0 - max - 1) .. max

SparkCast(value, target_type) ==
  IF value.type # "StringField" THEN Store(value.is_null, value.value, target_type)
  ELSE IF ~ value.is_null /\ CleanNumber(value.value, target_type)
    THEN Store(FALSE, Signed(value.value, Len(Unsigned(value.value))), target_type)
  ELSE Store(TRUE, 0, target_type)

(* The characters at the positions from start on, len of them, that exist. *)
SparkWindow(length, pos, len) ==
  {k \in 0 .. length - 1 : RawStart(length, pos) <= k /\ k < RawStart(length, pos) + len}

SparkSubstring(str, pos, len) ==
  IF str.is_null \/ pos.is_null \/ len.is_null THEN StringField(TRUE, <<>>)
  ELSE LET n      == Len(str.value)
           window == SparkWindow(n, pos.value, len.value)
           First  == CHOOSE k \in window : \A j \in window : k <= j
           Last   == CHOOSE k \in window : \A j \in window : j <= k
       IN  StringField(FALSE, IF window = {} THEN <<>>
                              ELSE SubSeq(str.value, First + 1, Last + 1))

(* Days from 1970-01-01 to the first of January of a year.                 *)
DaysBefore(year) ==
  365 * (year - 1970)
    + ((year - 1) \div 4) - ((year - 1) \div 100) + ((year - 1) \div 400) - 477

SparkNode(e, row, args) ==
  CASE e.op = "And" -> OfTruth(Smaller(Truth(args[1]), Truth(args[2])))
    [] e.op = "Or"  -> OfTruth(Larger(Truth(args[1]), Truth(args[2])))
    [] e.op = "Not" -> OfTruth(2 - Truth(args[1]))
    [] e.op = "LessThan"  -> SparkComparison(args[1], args[2], Less(args[1], args[2]))
    [] e.op = "LessThanOrEqual" ->
         SparkComparison(args[1], args[2], LessOrEqual(args[1], args[2]))
    [] e.op = "GreaterThan" -> SparkComparison(args[1], args[2], Less(args[2], args[1]))
    [] e.op = "GreaterThanOrEqual" ->
         SparkComparison(args[1], args[2], LessOrEqual(args[2], args[1]))
    [] e.op = "EqualTo"   -> SparkComparison(args[1], args[2], Equal(args[1], args[2]))
    [] e.op = "Cast"      -> SparkCast(args[1], e.target_type)
    [] e.op = "Substring" -> SparkSubstring(args[1], args[2], args[3])
    [] e.op = "Contains"  ->
         IF args[1].is_null \/ args[2].is_null THEN BooleanField(TRUE, FALSE)
         ELSE BooleanField(FALSE, Occurs(args[2].value, args[1].value))
    [] e.op = "If" ->
         IF ~ args[1].is_null /\ args[1].value THEN args[2] ELSE args[3]
    [] OTHER -> EvalNode(e, row, args)

SparkEval(Exprs, row, expr) == Evaluate(SparkNode, Exprs, row, expr)

(* The nodes where the enclave answers something else than Spark without   *)
(* throwing: a cast of a string that has a number and something before or  *)
(* after it, or too large a number, an If over a null predicate, an empty  *)
(* needle.                                                                 *)
Departs(e, args) ==
  CASE e.op = "Cast"     -> /\ args[1].type = "StringField"
                            /\ ~ args[1].is_null
                            /\ ~ CleanNumber(args[1].value, e.target_type)
    [] e.op = "If"       -> args[1].is_null
    [] e.op = "Contains" -> ~ args[2].is_null /\ args[2].value = <<>>
    [] OTHER             -> FALSE

(* No node of the expression departs from Spark on the row.                *)
InAgreement(Exprs, row, expr) ==
  LET agrees[n \in 1 .. expr] ==
        LET e    == Exprs[n]
            args == [i \in 1 .. Len(e.args) |-> SparkEval(Exprs, row, e.args[i])]
        IN  (\A i \in 1 .. Len(e.args) : agrees[e.args[i]]) /\ ~ Departs(e, args)
  IN  agrees[expr]
=============================================================================
