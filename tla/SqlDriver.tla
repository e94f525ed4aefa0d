----------------------------- MODULE SqlDriver -----------------------------
(***************************************************************************)
(* A statement executed through the chaos driver (adapter/sql): clients of *)
(* database/sql, whose retries and fallbacks decide how often the driver   *)
(* is called, the wrapping connection and statement, and a rule that drops *)
(* connections a limited number of times.  database/sql and the wrapped    *)
(* driver are external: an execution is tried on a connection of the pool  *)
(* up to twice, then on a new one, while the driver says ErrBadConn; not   *)
(* at all again in a transaction; ErrSkip means prepare and execute.       *)
(***************************************************************************)
EXTENDS Integers

CONSTANTS
  Clients,
  Execers,    \* what the wrapped conn may be: "none" (no ExecerContext), "direct", "skips"
  Drops,      \* how often the conn_drop rule fires: its Times
  Enabled     \* chaos may be switched off

VARIABLES
  execer,     \* the wrapped conn
  enabled,
  drops,      \* fires left
  op          \* per client: [pc, tx, attempt, asked, ran, result]

vars == <<execer, enabled, drops, op>>

Fresh(tx) == [pc |-> "conn", tx |-> tx, attempt |-> 1, asked |-> 0, ran |-> 0, result |-> "none"]

Init ==
  /\ execer \in Execers /\ enabled = TRUE /\ drops = Drops
  /\ op = [c \in Clients |-> [Fresh(FALSE) EXCEPT !.pc = "idle"]]

Exec(c, tx) ==
  /\ op[c].pc = "idle"
  /\ op' = [op EXCEPT ![c] = Fresh(tx)]
  /\ UNCHANGED <<execer, enabled, drops>>

Update(c, o) == op' = [op EXCEPT ![c] = o] /\ UNCHANGED <<execer, enabled>>

(* What the wrapped driver may answer; ErrBadConn says it did not run. *)
Answers == {"ok", "error", "bad"}
Ran(answer) == IF answer = "bad" THEN 0 ELSE 1

(* runChaos: nothing while the engine is off, else the engine is asked and *)
(* the drop comes back as an error.                                        *)
Asked(o)  == [o EXCEPT !.asked = IF enabled THEN @ + 1 ELSE @]
translate(err) == IF err = "conn_drop" THEN "bad" ELSE err

\* the drop is injected when the wrapped call is back
DroppedAfter(c) ==
  /\ enabled /\ drops > 0 /\ drops' = drops - 1
  /\ Update(c, [Asked(op[c]) EXCEPT !.result = translate("conn_drop"), !.ran = @ + 1, !.pc = "done"])

(* A call that is dropped: the outcome is reported, the wrapped driver not *)
(* called.                                                                 *)
Dropped(c) ==
  /\ enabled /\ drops > 0 /\ drops' = drops - 1
  /\ Update(c, [Asked(op[c]) EXCEPT !.result = translate("conn_drop"), !.pc = "done"])

Wrapped(c, answer) ==
  /\ Update(c, [Asked(op[c]) EXCEPT !.result = answer, !.ran = @ + Ran(answer), !.pc = "done"])
  /\ UNCHANGED drops

(* chaosConn.ExecContext *)
ExecContext(c) ==
  /\ op[c].pc = "conn"
  /\ \/ execer = "none" /\ Update(c, [op[c] EXCEPT !.pc = "prepare"]) /\ UNCHANGED drops
     \/ execer # "none" /\ Dropped(c)
     \/ execer = "direct" /\ \E answer \in Answers : Wrapped(c, answer)
     \/ execer = "skips" /\ Update(c, [Asked(op[c]) EXCEPT !.pc = "prepare"]) /\ UNCHANGED drops

(* chaosConn.PrepareContext and Prepare: no chaos. *)
Prepare(c) ==
  /\ op[c].pc = "prepare"
  /\ \/ Update(c, [op[c] EXCEPT !.pc = "stmt"])
     \/ \E answer \in Answers \ {"ok"} : Update(c, [op[c] EXCEPT !.result = answer, !.pc = "done"])
  /\ UNCHANGED drops

(* chaosStmt.Exec *)
StmtExec(c) ==
  /\ op[c].pc = "stmt"
  /\ Dropped(c) \/ \E answer \in Answers : Wrapped(c, answer)

(* database/sql: again, or done. *)
Retry(c) ==
  /\ op[c].pc = "done" /\ op[c].result = "bad" /\ ~op[c].tx /\ op[c].attempt < 3
  /\ op' = [op EXCEPT ![c] = [@ EXCEPT !.pc = "conn", !.attempt = @ + 1, !.asked = 0]]
  /\ UNCHANGED <<execer, enabled, drops>>

Return(c) ==
  /\ op[c].pc = "done"
  /\ op[c].result # "bad" \/ op[c].tx \/ op[c].attempt = 3
  /\ op' = [op EXCEPT ![c].pc = "idle"]
  /\ UNCHANGED <<execer, enabled, drops>>

Switch == Enabled /\ enabled' = ~enabled /\ UNCHANGED <<execer, drops, op>>

Step(c) == ExecContext(c) \/ Prepare(c) \/ StmtExec(c) \/ Retry(c) \/ Return(c)
Next == Switch \/ \E c \in Clients : Step(c) \/ \E tx \in BOOLEAN : Exec(c, tx)
Spec == Init /\ [][Next]_vars

-----------------------------------------------------------------------------
(* A dropped connection is retried: the statement must not have run.  It    *)
(* runs at most once, however often database/sql tries.                     *)
RunsAtMostOnce == \A c \in Clients : op[c].ran <= 1

(* "ErrConnDrop becomes driver.ErrBadConn so database/sql retries": outside *)
(* a transaction a client sees a lost connection only after three attempts  *)
(* and never the injected error itself.                                     *)
DropsAreRetried ==
  \A c \in Clients : op[c].pc = "idle" =>
    /\ op[c].result \in {"none", "ok", "error", "bad"}
    /\ op[c].result = "bad" /\ ~op[c].tx => op[c].attempt = 3
    /\ op[c].result = "ok" => op[c].ran = 1

(* "let the Stmt path own chaos for this op": one attempt asks the engine   *)
(* once, on the connection or on the statement; twice, once on each, if the *)
(* wrapped ExecContext is one that itself sends database/sql to the         *)
(* statement.                                                              *)
AskedOnce == \A c \in Clients : op[c].asked <= IF execer = "skips" THEN 2 ELSE 1

=============================================================================
