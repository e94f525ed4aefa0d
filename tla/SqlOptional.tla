---------------------------- MODULE SqlOptional ----------------------------
(***************************************************************************)
(* The optional interfaces of a database/sql connection and its            *)
(* statements, seen through the chaos connection and statement of          *)
(* adapter/sql with no rule installed.  database/sql                       *)
(* asks a connection which interfaces it has and falls back on what it     *)
(* lacks; the chaos connection has all of them, whatever the wrapped one   *)
(* has, and falls back itself.  database/sql and the wrapped connection    *)
(* are external.                                                           *)
(***************************************************************************)
EXTENDS FiniteSets

(* Of a connection, and of the statements it prepares. *)
ConnInterfaces == {"Pinger", "ExecerContext", "QueryerContext", "ConnBeginTx", "SessionResetter",
                   "Validator", "NamedValueChecker", "ConnPrepareContext"}
StmtInterfaces == {"StmtContext", "StmtChecker", "ColumnConverter"}
Interfaces == ConnInterfaces \cup StmtInterfaces

CONSTANT Requests      \* what is asked of database/sql: [op, cancelled, options, named]

VARIABLES
  has,       \* interfaces of the wrapped connection and its statements
  answers,   \* what their methods answer, the optional ones and the others
  request, direct, wrapped   \* a request, its result on the bare and on the chaos connection

vars == <<has, answers, request, direct, wrapped>>

(* A connection: its interfaces and, per method, the answer to a request.  *)
(* Stmt is Exec or Query of a statement, StmtContext the same with context. *)
Bare == [has |-> has, call |-> [m \in Interfaces \cup {"Prepare", "Begin", "Stmt"} |->
                                IF m \in Interfaces THEN answers.optional ELSE answers.required]]

(* Of the optional interfaces only "use the fallback" is told by ErrSkip.   *)
Skippers == {"ExecerContext", "QueryerContext", "NamedValueChecker", "StmtChecker"}
Method(conn, m) == IF conn.call[m] = "skip" /\ m \notin Skippers THEN "error" ELSE conn.call[m]

-----------------------------------------------------------------------------
(* chaosConn, chaosConnPinger and chaosStmt.  A wrapped call keeps its      *)
(* answer; the methods below are the fallbacks.                            *)

Open(conn) == ConnInterfaces \ (IF "Pinger" \in conn.has THEN {} ELSE {"Pinger"})

(* A chaosStmt runs and checks arguments; it takes no context and has no    *)
(* column converter, whatever the wrapped statement has.                    *)
chaosStmt == {"StmtChecker"}

Forward(conn, m, fallback) == IF m \in conn.has THEN Method(conn, m) ELSE fallback

Ping(conn)            == Method(conn, "Pinger")
ExecContext(conn)     == Forward(conn, "ExecerContext", "skip")
QueryContext(conn)    == Forward(conn, "QueryerContext", "skip")
BeginTx(conn)         == Forward(conn, "ConnBeginTx", Method(conn, "Begin"))
ResetSession(conn)    == Forward(conn, "SessionResetter", "ok")
IsValid(conn)         == Forward(conn, "Validator", "ok")

\* nothing to check is taken for checked
CheckPasses(conn)     == Forward(conn, "NamedValueChecker", "ok")
CheckNamedValue(conn) == Forward(conn, "NamedValueChecker", "skip")

PrepareContext(conn)  == Forward(conn, "ConnPrepareContext", Method(conn, "Prepare"))

(* chaosStmt.CheckNamedValue, Exec and Query. *)
StmtCheckNamedValue(conn) == Forward(conn, "StmtChecker", "skip")
StmtRun(conn)         == Method(conn, "Stmt")

Chaos(conn) ==
  [has |-> Open(conn) \cup chaosStmt,
   call |-> [m \in DOMAIN conn.call |->
     CASE m = "Pinger"             -> Ping(conn)
       [] m = "ExecerContext"      -> ExecContext(conn)
       [] m = "QueryerContext"     -> QueryContext(conn)
       [] m = "ConnBeginTx"        -> BeginTx(conn)
       [] m = "SessionResetter"    -> ResetSession(conn)
       [] m = "Validator"          -> IsValid(conn)
       [] m = "NamedValueChecker"  -> CheckNamedValue(conn)
       [] m = "ConnPrepareContext" -> PrepareContext(conn)
       [] m = "StmtChecker"        -> StmtCheckNamedValue(conn)
       [] m = "Stmt"               -> StmtRun(conn)
       [] OTHER                    -> Method(conn, m)]]

-----------------------------------------------------------------------------
(* database/sql.  Without the context-taking method the context is looked   *)
(* at after the call, and options nobody would honour are refused.          *)
Then(answer, r) == IF answer = "ok" /\ r.cancelled THEN "cancelled" ELSE answer

DbPrepare(conn, r) ==
  IF "ConnPrepareContext" \in conn.has THEN Method(conn, "ConnPrepareContext")
  ELSE Then(Method(conn, "Prepare"), r)

(* A statement that takes no context takes no named arguments either, and   *)
(* is not run at all once the context is done.                              *)
DbStmt(conn, r) ==
  IF "StmtContext" \in conn.has THEN Method(conn, "StmtContext")
  ELSE IF r.named THEN "unsupported"
  ELSE IF r.cancelled THEN "cancelled"
  ELSE Method(conn, "Stmt")

DbStatement(conn, r) == IF DbPrepare(conn, r) = "ok" THEN DbStmt(conn, r) ELSE DbPrepare(conn, r)

DbDirect(conn, m, r) ==
  IF m \in conn.has /\ Method(conn, m) # "skip" THEN Method(conn, m) ELSE DbStatement(conn, r)

DbBegin(conn, r) ==
  IF "ConnBeginTx" \in conn.has THEN Method(conn, "ConnBeginTx")
  ELSE IF r.options THEN "unsupported"
  ELSE Then(Method(conn, "Begin"), r)

DbDefault(conn, m) == IF m \in conn.has THEN Method(conn, m) ELSE "ok"

(* Who converts an argument: the checker, unless it passes, or the default. *)
DbCheck(conn) ==
  IF "NamedValueChecker" \in conn.has /\ Method(conn, "NamedValueChecker") # "skip"
  THEN Method(conn, "NamedValueChecker") ELSE "default converter"

(* For a statement: its own checker before the connection's, then its       *)
(* column converter.                                                       *)
DbStmtCheck(conn) ==
  LET checkers == IF "StmtChecker" \in conn.has THEN {"StmtChecker"}
                  ELSE {"NamedValueChecker"} \cap conn.has
  IN  IF \E m \in checkers : Method(conn, m) # "skip"
      THEN Method(conn, CHOOSE m \in checkers : TRUE)
      ELSE IF "ColumnConverter" \in conn.has THEN "column converter"
      ELSE "default converter"

Db(conn, r) ==
  CASE r.op = "ping"    -> DbDefault(conn, "Pinger")
    [] r.op = "exec"    -> DbDirect(conn, "ExecerContext", r)
    [] r.op = "query"   -> DbDirect(conn, "QueryerContext", r)
    [] r.op = "begin"   -> DbBegin(conn, r)
    [] r.op = "reset"   -> DbDefault(conn, "SessionResetter")
    [] r.op = "valid"   -> DbDefault(conn, "Validator")
    [] r.op = "check"   -> DbCheck(conn)
    [] r.op = "prepare" -> DbPrepare(conn, r)
    [] r.op = "stmt"    -> DbStmt(conn, r)
    [] r.op = "stmtArg" -> DbStmtCheck(conn)

NoRequest == [op |-> "none", cancelled |-> FALSE, options |-> FALSE, named |-> FALSE]

Init ==
  /\ has \in SUBSET Interfaces /\ answers \in [optional : {"ok", "error", "skip"}, required : {"ok", "error"}]
  /\ request = NoRequest /\ direct = "none" /\ wrapped = "none"

Ask(r) ==
  /\ request = NoRequest /\ request' = r
  /\ direct' = Db(Bare, r) /\ wrapped' = Db(Chaos(Bare), r)
  /\ UNCHANGED <<has, answers>>

Next == (\E r \in Requests : Ask(r)) \/ (request # NoRequest /\ UNCHANGED vars)
Spec == Init /\ [][Next]_vars

-----------------------------------------------------------------------------
(* What a client of the wrapper gets that a client of the driver would not: *)
(* a transaction, in spite of options or a context that is done, from a     *)
(* driver without ConnBeginTx;                                              *)
BeginUnasked ==
  /\ request.op = "begin" /\ "ConnBeginTx" \notin has /\ (request.options \/ request.cancelled)
  /\ wrapped = Method(Bare, "Begin")

(* a statement, in spite of a context that is done, from a driver without   *)
(* ConnPrepareContext;                                                     *)
PreparedLate ==
  /\ request.op = "prepare" /\ "ConnPrepareContext" \notin has /\ request.cancelled
  /\ wrapped = Method(Bare, "Prepare")

(* the default converter, for an argument of a statement that leaves the    *)
(* conversion to the connection or to columns;                             *)
ConverterLost ==
  /\ request.op = "stmtArg" /\ wrapped = "default converter"
  /\ "NamedValueChecker" \in has \/ "ColumnConverter" \in has

(* a statement without contexts and named arguments, of a driver that has   *)
(* them.                                                                   *)
StmtWithoutContext ==
  /\ request.op \in {"exec", "query", "stmt"} /\ "StmtContext" \in has
  /\ wrapped = Db([Bare EXCEPT !.has = @ \ {"StmtContext"}], request)

(* With no rule installed the chaos connection gets the client what the     *)
(* wrapped one would, whatever interfaces that has and whatever it answers, *)
(* under contexts that are done, transaction options and named arguments,   *)
(* on the connection and on statements, but for the four differences above. *)
WrapperIsTransparent ==
  wrapped = direct \/ BeginUnasked \/ PreparedLate \/ ConverterLost \/ StmtWithoutContext

(* conn_optional.go: "Each is safe to implement unconditionally because its *)
(* fallback is exactly what database/sql assumes when the interface is      *)
(* absent".  The interfaces are that file's; a driver's column converter,   *)
(* which it does not mention, is left aside.                                *)
FallbacksAreExact ==
  /\ request.op \in {"reset", "valid", "check", "prepare", "stmtArg"}
  /\ "ColumnConverter" \notin has
  => wrapped = direct

=============================================================================
