--------------------------- MODULE MCQueryService ---------------------------
(* Tables of three rows in one or two part files: the first row has the    *)
(* string "-1", or anew " 1x", the second has nulls, the third a string    *)
(* that is no number. The scenarios keep apart what     *)
(* need not meet: requests for two tables that share the session; a table  *)
(* outsourced again, with crashes, under a query; queries whose rows fail  *)
(* in the enclave, with a lost executor and a call without memory.         *)
EXTENDS QueryService

CONSTANTS A, B, r1, r2

MCTables == {A, B}
MCRequests == {r1, r2}
MCCallers == MCRequests \X MCTables \X (1 .. 2)

MCContent ==
  [x \in 3 .. 8 |->
    LET row     == x % 3
        version == x \div 3
    IN  << IntegerField(row = 1, row),
           StringField(row = 1, IF row = 2 THEN <<120, 48 + version>>
                                ELSE IF version = 1 THEN <<45, 49>> ELSE <<32, 49, 120>>),
           Field("DateField", row = 1, 11016 + row) >>]

Col(k)          == [op |-> "Col", col_num |-> k, args |-> <<>>]
Literal(f)      == [op |-> "Literal", value |-> f, args |-> <<>>]
Num(n)      == Literal(IntegerField(FALSE, n))
Node(name, as)  == [op |-> name, args |-> as]

MCExprs == <<
  Col(1), Col(2), Col(3),                                       \*  1 to  3
  Num(1), Num(2), Num(127), Num(-1),            \*  4 to  7
  Literal(StringField(FALSE, <<120>>)),                         \*  8
  Node("IsNull", <<1>>), Node("Not", <<9>>),                    \*  9, 10
  Node("LessThan", <<1, 5>>),                                   \* 11
  Node("And", <<10, 11>>),                                      \* 12
  Node("Add", <<1, 6>>), Node("EqualTo", <<13, 6>>),            \* 13, 14
  Node("Or", <<9, 14>>),                                        \* 15
  Node("Contains", <<2, 8>>), Node("And", <<11, 16>>),          \* 16, 17
  [op |-> "Cast", target_type |-> "IntegerType", args |-> <<2>>],  \* 18
  Node("Year", <<3>>), Node("Subtract", <<19, 5>>),             \* 19, 20
  Node("If", <<9, 4, 20>>),                                     \* 21
  Node("Substring", <<2, 7, 1>>) >>                             \* 22

KnownLess   == 12
NullOrLess  == 15
LessThanTwo == 11
Unknown     == 17
ToNumber    == 18
YearOrOne   == 21
LastLetter  == 22

Filter(e)  == [name |-> "QFilter", expr |-> e]
Project(e) == [name |-> "QProject", expr |-> e]
Sort       == [name |-> "QPartitionForSort"]

Statement(handler, form, tables, op) ==
  [handler |-> handler, form |-> form, tables |-> tables, op |-> op]

Both == {Statement("query", f, <<A, B>>, Sort) : f \in {"list", "join"}}
        \cup {Statement("query", "list", <<B>>, Filter(KnownLess)),
              Statement("operator", "list", <<A, B>>, Sort)}
Bad == {Statement("query", f, <<>>, Sort) : f \in {"missing", "null", "unknown"}}
Failing == {Statement("query", "list", <<A>>, Filter(LessThanTwo))}
Simple == {Statement("operator", "list", <<A>>, Filter(NullOrLess))}
Poison == {Statement("operator", "list", <<A>>, op) : op \in
             {Filter(KnownLess), Filter(LessThanTwo), Project(Unknown),
              Project(ToNumber), Project(YearOrOne), Project(LastLetter), Sort}}

MCStatements == Both \cup Bad \cup Failing \cup Simple \cup Poison

Calling(a, b) == [t \in MCTables |-> IF t = A THEN a ELSE b]

(* requests, statements and tables; then how often each table may have     *)
(* been outsourced, part files, and what may go wrong.                     *)
Scenario(rs, statements, outsourced, calling, slices, restarts, faulty) ==
  [requests |-> rs, statements |-> statements, outsourced |-> outsourced,
   outsourcings |-> calling, slices |-> slices, restarts |-> restarts,
   faults |-> faulty]

MCScenarios ==
  {Scenario({r1, r2}, Both \cup Bad, {},     Calling(0, 0), 1, 0, 0),
   Scenario({r1},     Both,          {A, B}, Calling(1, 1), 1, 0, 0),
   Scenario({r1, r2}, Failing,       {A},    Calling(1, 0), 2, 0, 0),
   Scenario({r1},     Simple,        {},     Calling(2, 0), 2, 0, 0),
   Scenario({r1},     Poison,        {A},    Calling(1, 0), 2, 1, 1)}

=============================================================================
