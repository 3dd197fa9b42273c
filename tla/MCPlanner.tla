----------------------------- MODULE MCPlanner -----------------------------
(* Statements over tables of two columns: an operator or two over each of  *)
(* two, a join or a union of them, and an operator or a join or a union    *)
(* with a third over that; a table read twice, with its token or without;  *)
(* and the operators and tables for which there is no plan, at each of the *)
(* places.                                                                 *)
(* As Spark's analyzer does, both sides of a comparison are brought to one *)
(* type, and the columns of a union.                                       *)
EXTENDS PlannedQuery

Column(name) == AttributeReference(name, <<name>>, "IntegerType")

(* Tables 1 to 3, and table 1 once more, of which Spark names the columns  *)
(* anew.                                                                   *)
Relation(i, op) ==
  [op |-> op, table |-> <<1, 2, 3, 1>>[i], in |-> <<>>, height |-> 0,
   output |-> <<<<Column("k1"), Column("v1")>>, <<Column("k2"), Column("v2")>>,
               <<Column("k3"), Column("v3")>>, <<Column("k4"), Column("v4")>>>>[i]]

WithToken(x) == [op |-> "ACPolicyApply", in |-> <<x>>, height |-> Above(<<x>>)]

First(x) == Output(x)[1]
Other(x) == Last(Output(x))

Number(n, e) == Literal(n, dataType(e))
Wide(e) == IF dataType(e) = "LongType" THEN e ELSE CastTo(e, "LongType")
(* e, brought to the type it has in common with f. *)
Common(e, f) == IF dataType(e) = dataType(f) THEN e ELSE Wide(e)

AtMostOne(e) == Binary("LessThanOrEqual", e, Number(1, e))
NotNull(e) == Unary("IsNotNull", e)

MCFilter(x, condition) ==
  [op |-> "Filter", condition |-> condition, in |-> <<x>>, height |-> Above(<<x>>)]
MCProject(x, exprs) ==
  [op |-> "Project", projectList |-> exprs, in |-> <<x>>, height |-> Above(<<x>>)]
MCSort(x, e, asc, global) ==
  [op |-> "Sort", order |-> <<[child |-> e, asc |-> asc]>>, global |-> global,
   in |-> <<x>>, height |-> Above(<<x>>)]
MCJoin(x, y, type, lk, rk, condition) ==
  [op |-> "Join", joinType |-> type, leftKeys |-> lk, rightKeys |-> rk,
   condition |-> condition, in |-> <<x, y>>, height |-> Above(<<x, y>>)]
Limit(x) == [op |-> "Limit", in |-> <<x>>, height |-> Above(<<x>>)]

MCAggregate(x, grouping, exprs) ==
  [op |-> "Aggregate", grouping |-> grouping, aggs |-> grouping \o exprs,
   in |-> <<x>>, height |-> Above(<<x>>)]

Widened(x, y) ==
  LET Column1(i) == LET e == Output(x)[i]
                    IN  Alias(Common(e, Output(y)[i]), e.name, Append(e.id, "wide"))
  IN  IF \A i \in DOMAIN Output(x) : dataType(Output(x)[i]) = dataType(Output(y)[i]) THEN x
      ELSE MCProject(x, [i \in DOMAIN Output(x) |-> Column1(i)])
Union(in) == [op |-> "Union", in |-> in, height |-> Above(in)]
MCUnion(x, y)  == Union(<<Widened(x, y), Widened(y, x)>>)
MCUnion3(x, y) == Union(<<Widened(x, y), Widened(y, x), Widened(x, y)>>)

(* A table with its token, read from the source or from the cache, perhaps *)
(* with a null check between; one whose token comes too late; one without  *)
(* a token; and rows that were never encrypted.                            *)
Leaves(i) ==
  {WithToken(Relation(i, "LogicalRelation")), WithToken(Relation(i, "InMemoryRelation")),
   WithToken(MCFilter(Relation(i, "LogicalRelation"), AtMostOne(Column(<<"v1", "v2">>[i])))),
   WithToken(MCFilter(Relation(i, "LogicalRelation"), NotNull(Column(<<"v1", "v2">>[i])))),
   Relation(i, "LogicalRelation"),
   Relation(i, "LocalRelation")}

(* SUM, COUNT, MAX and MIN of v, and an output made of two of them.        *)
Aggregates(v) ==
  LET agg(f) == AggregateExpression(f, v, Append(v.id, f))
      out(e, name) == Alias(e, name, Append(v.id, name))
  IN  [sum |-> <<out(agg("Sum"), "sum")>>,
       extremes |-> <<out(agg("Max"), "max"), out(agg("Min"), "min")>>,
       excess |-> <<out(Binary("Add", Binary("Subtract", agg("Sum"), agg("Count")),
                               Literal(1, "LongType")), "excess")>>]

Over(x) ==
  LET k == First(x)
      v == Other(x)
      turnedOver == IfElse("CaseWhen", AtMostOne(v), Unary("UnaryMinus", v),
                           Binary("Add", v, Number(1, v)))
  IN  {MCFilter(x, Binary("And", NotNull(v), AtMostOne(v))),
       MCFilter(x, Binary("And", NotNull(k), NotNull(v))),
       MCProject(x, <<v, k>>),
       MCProject(x, <<Alias(turnedOver, "over", Append(v.id, "over"))>>),
       MCSort(x, v, TRUE, TRUE), MCSort(x, k, FALSE, TRUE), MCSort(x, v, TRUE, FALSE),
       MCAggregate(x, <<k>>, Aggregates(v).sum), MCAggregate(x, <<k>>, Aggregates(v).excess),
       MCAggregate(x, <<k>>, Aggregates(v).extremes),
       MCAggregate(x, <<>>, Aggregates(v).sum), Limit(x)}

OverAll(S) == UNION {Over(x) : x \in S}

Both(x, y) ==
  LET k1 == <<Common(First(x), First(y))>>
      k2 == <<Common(First(y), First(x))>>
      differ == <<Unary("Not", Binary("EqualTo", Common(Other(x), Other(y)),
                                                 Common(Other(y), Other(x))))>>
  IN  {MCJoin(x, y, "Inner", k1, k2, <<>>),
       MCJoin(x, y, "Inner", k1, k2, differ),
       MCJoin(x, y, "LeftOuter", k1, k2, <<>>),
       MCJoin(x, y, "Cross", <<>>, <<>>, differ)}
  \cup (IF Len(Output(x)) = Len(Output(y)) THEN {MCUnion(x, y), MCUnion3(x, y)} ELSE {})

BothAll(S, T) == UNION {Both(x, y) : x \in S, y \in T}

Table(i) == WithToken(Relation(i, "LogicalRelation"))
Bare(i)  == Relation(i, "LogicalRelation")

MCQueries ==
  {[op |-> "ResPrepared", in |-> <<x>>, height |-> Above(<<x>>)] :
     x \in Leaves(1) \cup OverAll(Leaves(1)) \cup OverAll(Over(Table(1)))
           \cup BothAll({Table(1)} \cup Over(Table(1)), Leaves(2) \cup Over(Table(2)))
           \cup OverAll(BothAll({Table(1)}, {Table(2)} \cup Over(Table(2))))
           \cup BothAll(Both(Table(1), Table(2)), {Table(3)})
           \cup BothAll({Table(1), Bare(1)}, {Table(4), Bare(4)})
           \cup BothAll(Both(Table(1), Table(2)), {Bare(4)})
           \cup {MCFilter(Table(1), NotNull(Column("v1")))}}

(* Keys that match several times, once and not at all; equal rows; a table *)
(* without rows.                                                           *)
MCTables ==
  {<<<<<<1, 1>>, <<2, 2>>, <<1, 2>>>>, <<<<3, 1>>, <<1, 1>>, <<1, 2>>>>, <<<<1, 0>>, <<2, 1>>>>>>,
   <<<<<<2, 1>>, <<1, 0>>, <<2, 1>>>>, <<<<2, 1>>, <<2, 1>>>>, <<<<2, 1>>, <<2, 0>>>>>>,
   <<<<<<1, 2>>, <<0, 1>>>>, <<>>, <<<<1, 2>>>>>>}
=============================================================================
