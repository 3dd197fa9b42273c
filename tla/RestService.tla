---------------------------- MODULE RestService ----------------------------
(***************************************************************************)
(* The REST service in front of the SQL engine: rest/coroweb.py, the       *)
(* handlers of rest/handlers.py and the spark_ functions of                *)
(* rest/models/qshield/orm.py.                                             *)
(*                                                                         *)
(* All requests share one event loop and one Spark session. A handler that *)
(* has its arguments keeps the loop up to the await on the collected       *)
(* result. A query request registers, under the user's token, a temporary  *)
(* view for each table extracted from its statement and then has Spark     *)
(* analyse the statement, which finds the views by name, whoever has       *)
(* registered them. The other handlers work on data frames of their own.   *)
(*                                                                         *)
(* A request stands for the token it carries. The user's statement is      *)
(* abstracted to the tables it mentions and to how it is written.          *)
(***************************************************************************)
EXTENDS Naturals, Sequences

CONSTANTS
  Requests,
  Models,       \* the tables of the service
  Statements,   \* what the requests may ask for
  Nobody

(* handler: "query" or "operator"; form: "list" (tables separated by       *)
(* commas), "join" (JOIN between them), "missing" (an argument is left     *)
(* out), "null" (one is null) or "unknown" (a table without a model).      *)
ASSUME RestAssumption ==
  /\ \A s \in Statements :
       /\ s.handler \in {"query", "operator"}
       /\ s.form \in {"list", "join", "missing", "null", "unknown"}
       /\ s.tables \in Seq(Models)
       /\ s.form \in {"list", "join"} => s.tables # <<>>
  /\ Nobody \notin Requests

VARIABLES
  loop,       \* the request whose handler runs, or Nobody
  views,      \* per table: whose token its temporary view was registered under
  requests    \* per request: how far its handler is

restVars == <<loop, views, requests>>

Pcs == {"received", "registering", "awaiting", "answered"}
Mentioned(s) == {s.tables[i] : i \in DOMAIN s.tables}

(* extract_tables: the generator ends at a keyword, which JOIN is (app.py  *)
(* is built with Python 3.6, where raise StopIteration does that).         *)
extract_tables(s) ==
  IF s.form = "join" THEN SubSeq(s.tables, 1, 1) ELSE s.tables

NoSources == [t \in Models |-> Nobody]

RestInit ==
  /\ loop = Nobody
  /\ views = NoSources
  /\ requests \in [Requests -> {[pc |-> "received", statement |-> s, tables |-> <<>>,
                                 sources |-> NoSources, status |-> 0] : s \in Statements}]

Answered(r, status) ==
  requests' = [requests EXCEPT ![r].pc = "answered", ![r].status = status]

(* The status of a request that is refused: a missing argument is looked   *)
(* for; an APIValueError has no attribute massage, and the name i in the   *)
(* message of table_model is not defined.                                  *)
Refused == [missing |-> 400, null |-> 500, unknown |-> 500]

Refuse(r) ==
  /\ loop = Nobody
  /\ requests[r].pc = "received"
  /\ requests[r].statement.form \in DOMAIN Refused
  /\ Answered(r, Refused[requests[r].statement.form])
  /\ UNCHANGED <<loop, views>>

(* The body has been read; from here on the handler has the loop.          *)
Handle(r) ==
  LET s == requests[r].statement
  IN  /\ loop = Nobody
      /\ requests[r].pc = "received"
      /\ s.form \in {"list", "join"}
      /\ loop' = r
      /\ requests' = [requests EXCEPT ![r].pc = "registering",
                        ![r].tables = IF s.handler = "query" THEN extract_tables(s) ELSE <<>>]
      /\ UNCHANGED views

(* Fault: the loop is given up between the views of a request.             *)
RegisterViewAwaiting(r) ==
  /\ loop \in {r, Nobody}
  /\ requests[r].pc = "registering"
  /\ requests[r].tables # <<>>
  /\ views' = [views EXCEPT ![Head(requests[r].tables)] = r]
  /\ requests' = [requests EXCEPT ![r].tables = Tail(@)]
  /\ loop' = IF Len(requests[r].tables) > 1 THEN Nobody ELSE r

(* createOrReplaceTempView of the next table, with the policy of the       *)
(* request's token in its plan.                                            *)
RegisterView(r) ==
  /\ loop = r
  /\ requests[r].pc = "registering"
  /\ requests[r].tables # <<>>
  /\ views' = [views EXCEPT ![Head(requests[r].tables)] = r]
  /\ requests' = [requests EXCEPT ![r].tables = Tail(@)]
  /\ UNCHANGED loop

(* What the plan of a statement reads each table through.                  *)
Sources(r) ==
  LET s == requests[r].statement
  IN  [t \in Models |-> IF t \notin Mentioned(s) THEN Nobody
                        ELSE IF s.handler = "query" THEN views[t] ELSE r]

Resolved(r) == \A t \in Mentioned(requests[r].statement) : Sources(r)[t] # Nobody

(* spark.sql has analysed the statement; the job is submitted and its      *)
(* result awaited.                                                         *)
Analyse(r) ==
  /\ loop = r
  /\ requests[r].pc = "registering"
  /\ requests[r].tables = <<>>
  /\ Resolved(r)
  /\ requests' = [requests EXCEPT ![r].pc = "awaiting", ![r].sources = Sources(r)]
  /\ loop' = Nobody
  /\ UNCHANGED views

(* A table without a view is an AnalysisException.                         *)
AnalysisFails(r) ==
  /\ loop = r
  /\ requests[r].pc = "registering"
  /\ requests[r].tables = <<>>
  /\ ~ Resolved(r)
  /\ Answered(r, 500)
  /\ loop' = Nobody
  /\ UNCHANGED views

(* The awaited result is there, or the exception of the job.               *)
Respond(r, status) ==
  /\ loop = Nobody
  /\ requests[r].pc = "awaiting"
  /\ Answered(r, status)
  /\ UNCHANGED <<loop, views>>

HandlerStep(r) ==
  \/ Refuse(r) \/ Handle(r) \/ RegisterView(r) \/ Analyse(r) \/ AnalysisFails(r)

RestNext ==
  \E r \in Requests : HandlerStep(r) \/ \E status \in {200, 500} : Respond(r, status)

RestSpec == RestInit /\ [][RestNext]_restVars

---------------------------------------------------------------------------
(* The tables that a request with the statement registers itself.          *)
OwnTables(s) ==
  IF s.handler = "query" THEN {extract_tables(s)[i] : i \in DOMAIN extract_tables(s)}
                         ELSE Mentioned(s)

(* A query reads every table that was extracted from its statement under   *)
(* the token of its own user, although other requests register views of    *)
(* the same names in the same session.                                     *)
ExtractedTablesUnderOwnToken ==
  \A r \in Requests :
    requests[r].pc = "awaiting" =>
      \A t \in OwnTables(requests[r].statement) : requests[r].sources[t] = r
=============================================================================
