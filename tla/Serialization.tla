--------------------------- MODULE Serialization ---------------------------
(***************************************************************************)
(* Expressions as they are handed to the enclave (opaque/Utils.scala):     *)
(* columns become numbers, of the row as the operator below gives it or,   *)
(* in an aggregate, of the aggregate's own row before that row; aggregates *)
(* become expressions for the first row of a group, for the next, and for  *)
(* the result. Bytes are left out; so are averages, whose fields are       *)
(* doubles, Last, exp, arrays and Opaque's functions on vectors.           *)
(***************************************************************************)
EXTENDS PlanMeaning

CONSTANTS IntegerMax, LongMax    \* the largest fields of the enclave

E == INSTANCE Expression

FieldType == [IntegerType |-> "IntegerField", LongType |-> "LongField",
              BooleanType |-> "BooleanField"]

flatbuffersCreateField(value, type, is_null) ==
  E!Field(FieldType[type], is_null,
          IF is_null THEN (IF type = "BooleanType" THEN FALSE ELSE 0) ELSE value)

(* An attribute that the input does not have matches no case. An alias is  *)
(* the expression it is for; what is not named here keeps its name.        *)
RECURSIVE flatbuffersSerializeExpression(_, _)
flatbuffersSerializeExpression(e, input) ==
  LET args   == [i \in DOMAIN e.args |-> flatbuffersSerializeExpression(e.args[i], input)]
      places == {i \in DOMAIN input : input[i].id = e.id}
  IN  CASE e.op = "AttributeReference" ->
             IF places = {} THEN [op |-> "MatchError", args |-> <<>>]
             ELSE [op |-> "Col", args |-> <<>>,
                   col_num |-> CHOOSE i \in places : \A j \in places : i <= j]
        [] e.op = "Literal"    -> [op |-> "Literal", args |-> <<>>,
                                   value |-> flatbuffersCreateField(e.value, e.type, e.is_null)]
        [] e.op = "Alias"      -> args[1]
        [] e.op = "Cast"       -> [op |-> "Cast", target_type |-> e.type, args |-> args]
        [] e.op = "UnaryMinus" ->
             LET zero == CastTo(Literal(0, "IntegerType"), dataType(e.args[1]))
             IN  Binary("Subtract", flatbuffersSerializeExpression(zero, input), args[1])
        [] e.op = "IsNotNull"  -> Unary("Not", [op |-> "IsNull", args |-> args])
        [] e.op = "CaseWhen"   -> [op |-> "If", args |-> args]
        [] OTHER               -> [op |-> e.op, args |-> args]

SerializeAll(exprs, input) ==
  [i \in DOMAIN exprs |-> flatbuffersSerializeExpression(exprs[i], input)]

serializeFilterExpression(condition, input) == flatbuffersSerializeExpression(condition, input)
serializeProjectList(projectList, input)    == SerializeAll(projectList, input)

serializeSortOrder(order, input) ==
  [i \in DOMAIN order |->
     [child |-> flatbuffersSerializeExpression(order[i].child, input), asc |-> order[i].asc]]

(* The type of the join is serialised as well; nothing reads it.           *)
serializeJoinExpression(leftKeys, rightKeys, leftSchema, rightSchema) ==
  [left_keys |-> SerializeAll(leftKeys, leftSchema),
   right_keys |-> SerializeAll(rightKeys, rightSchema)]

---------------------------------------------------------------------------
(* Aggregates. *)

(* The columns of an aggregate's own row.                                  *)
aggBufferAttributes(ae) ==
  LET Buffer(name, type) == AttributeReference(name, Append(ae.id, name), type)
      child == ae.args[1]
  IN  CASE ae.function = "Sum"   -> <<Buffer("sum", "LongType")>>
        [] ae.function = "Count" -> <<Buffer("count", "LongType")>>
        [] ae.function = "Max"   -> <<Buffer("max", dataType(child))>>
        [] ae.function = "Min"   -> <<Buffer("min", dataType(child))>>
        [] ae.function = "First" -> <<Buffer("first", dataType(child)),
                                      Buffer("valueSet", "BooleanType")>>

initialValues(ae) ==
  LET null == NullLiteral(dataType(ae.args[1]))
  IN  CASE ae.function = "Sum"   -> <<CastTo(Literal(0, "IntegerType"), "LongType")>>
        [] ae.function = "Count" -> <<Literal(0, "LongType")>>
        [] ae.function = "First" -> <<null, Literal(FALSE, "BooleanType")>>
        [] OTHER                 -> <<null>>

updateExprs(ae) ==
  LET child  == ae.args[1]
      buffer == aggBufferAttributes(ae)
      Extreme(comparison) ==
        IfElse("If", Binary("Or", Unary("IsNull", buffer[1]), Binary(comparison, child, buffer[1])),
               child, buffer[1])
  IN  CASE ae.function = "Sum"   -> <<Binary("Add", buffer[1], CastTo(child, "LongType"))>>
        [] ae.function = "Count" -> <<Binary("Add", buffer[1], Literal(1, "LongType"))>>
        [] ae.function = "Max"   -> <<Extreme("GreaterThan")>>
        [] ae.function = "Min"   -> <<Extreme("LessThan")>>
        [] ae.function = "First" -> <<IfElse("If", buffer[2], buffer[1], child),
                                      Literal(TRUE, "BooleanType")>>

serializeAggExpression(ae, input, aggSchema, concatSchema) ==
  [initial_values |-> SerializeAll(initialValues(ae), input),
   update_exprs   |-> SerializeAll(updateExprs(ae), concatSchema),
   evaluate_expr  |-> flatbuffersSerializeExpression(aggBufferAttributes(ae)[1], aggSchema)]

(* An output that is not an aggregate is the first value in the group.     *)
aggExpressionsWithFirst(aggs) ==
  [i \in DOMAIN aggs |->
     IF aggs[i].op = "Alias" /\ aggs[i].args[1].op = "AggregateExpression"
       THEN aggs[i].args[1]
       ELSE AggregateExpression("First", aggs[i], <<"first", ToString(i)>>)]

serializeAggOp(grouping, aggs, input) ==
  LET withFirst    == aggExpressionsWithFirst(aggs)
      aggSchema    == FlattenSeq([i \in DOMAIN withFirst |-> aggBufferAttributes(withFirst[i])])
      concatSchema == aggSchema \o input
  IN  [grouping_expressions |-> SerializeAll(grouping, input),
       aggregate_expressions |->
         [i \in DOMAIN withFirst |->
            serializeAggExpression(withFirst[i], input, aggSchema, concatSchema)]]
=============================================================================
