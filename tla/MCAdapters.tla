----------------------------- MODULE MCAdapters -----------------------------
(***************************************************************************)
(* The adapters on small instances: calls through every wrapped method,    *)
(* and what single adapters keep between two calls (the cap of a shaped    *)
(* stream, the status recorder, the SQL driver under database/sql and its  *)
(* optional interfaces, the pgx tracer).  They share nothing, so a         *)
(* behaviour runs one of them (part).                                      *)
(***************************************************************************)
EXTENDS Adapters, Stream

VARIABLES
  part,
  rec, sent, calls, failures, hinted, flushed,    \* StatusRecorder
  execer, sqlOn, drops, op,                       \* SqlDriver
  has, answers, request, direct, wrapped,         \* SqlOptional
  pgxOn, query, action, pgxSlots                  \* PgxTracer

statusVars == <<rec, sent, calls, failures, hinted, flushed>>
driverVars == <<execer, sqlOn, drops, op>>
ifaceVars  == <<has, answers, request, direct, wrapped>>
tracerVars == <<pgxOn, query, action, pgxSlots>>

(* Every fault alone, and two that strike after a sleep. *)
EveryFault == {<<f>> : f \in Faults} \cup {<<"latency", "connDrop">>, <<"latency", "error">>}

(* A cut before, inside and at the end of a buffer; a slow and a blocked   *)
(* stream of each side.                                                    *)
Truncated(bytes) == [mode |-> "truncate", rate |-> 0, limit |-> bytes]
Slowed(side, rate) == [mode |-> side, rate |-> rate, limit |-> 0]
EveryShape == {Truncated(bytes) : bytes \in {0, 2, 3}}
              \cup {Slowed(side, rate) : side \in {"read", "write"}, rate \in {0, 1}}

(* Two requests of three calls, early hints and early flushes included.    *)
Status == INSTANCE StatusRecorder WITH Requests <- 1 .. 2, Codes <- {103, 200, 404, 500}, MaxCalls <- 3
(* Drops enough for one client to lose three connections and the other one. *)
Driver == INSTANCE SqlDriver WITH Clients <- 1 .. 2, Drops <- 4, Enabled <- TRUE, enabled <- sqlOn,
            Execers <- {"none", "direct", "skips"}
(* Every set of interfaces, and requests that are unusual in one way.      *)
Plain(o)  == [op |-> o, cancelled |-> FALSE, options |-> FALSE, named |-> FALSE]
SqlRequests ==
  {Plain(o) : o \in {"ping", "exec", "query", "begin", "reset", "valid", "check", "prepare", "stmt", "stmtArg"}}
  \cup {[Plain(o) EXCEPT !.cancelled = TRUE] : o \in {"exec", "query", "begin", "prepare", "stmt"}}
  \cup {[Plain(o) EXCEPT !.named = TRUE] : o \in {"exec", "query", "stmt"}}
  \cup {[Plain("begin") EXCEPT !.options = TRUE]}
Iface  == INSTANCE SqlOptional WITH Requests <- SqlRequests
(* Three queries for two slots, and a tracer of the user's.                *)
Tracer == INSTANCE PgxTracer WITH Queries <- 1 .. 3, Instrumented <- 1, UserTracer <- TRUE,
            Cap <- 2, enabled <- pgxOn, slots <- pgxSlots

(* A part that does not run.  The variables of Adapters and Stream are     *)
(* typed: they start and stay there.                                       *)
StatusOff == rec = 0 /\ sent = 0 /\ calls = 0 /\ failures = 0 /\ hinted = 0 /\ flushed = 0
DriverOff == execer = 0 /\ sqlOn = 0 /\ drops = 0 /\ op = 0
IfaceOff  == has = 0 /\ answers = 0 /\ request = 0 /\ direct = 0 /\ wrapped = 0
TracerOff == pgxOn = 0 /\ query = 0 /\ action = 0 /\ pgxSlots = 0
StreamOff == StreamInit /\ dir = "read" /\ ~enabled

PartsInit ==
  /\ Init
  /\ \/ part = "calls" /\ StreamOff /\ StatusOff /\ DriverOff /\ IfaceOff /\ TracerOff
     \/ part = "stream" /\ StreamInit /\ StatusOff /\ DriverOff /\ IfaceOff /\ TracerOff
     \/ part = "status" /\ Status!Init /\ StreamOff /\ DriverOff /\ IfaceOff /\ TracerOff
     \/ part = "driver" /\ Driver!Init /\ StreamOff /\ StatusOff /\ IfaceOff /\ TracerOff
     \/ part = "iface" /\ Iface!Init /\ StreamOff /\ StatusOff /\ DriverOff /\ TracerOff
     \/ part = "tracer" /\ Tracer!Init /\ StreamOff /\ StatusOff /\ DriverOff /\ IfaceOff

CallsOnly == part = "calls" /\ UNCHANGED <<part, streamVars, statusVars, driverVars, ifaceVars, tracerVars>>

PartsNext ==
  \/ CallsOnly /\ Next
  \/ /\ part # "calls" /\ UNCHANGED <<vars, part>>
     /\ \/ part = "stream" /\ StreamNext /\ UNCHANGED <<statusVars, driverVars, ifaceVars, tracerVars>>
        \/ part = "status" /\ Status!Next /\ UNCHANGED <<streamVars, driverVars, ifaceVars, tracerVars>>
        \/ part = "driver" /\ Driver!Next /\ UNCHANGED <<streamVars, statusVars, ifaceVars, tracerVars>>
        \/ part = "iface" /\ Iface!Next /\ UNCHANGED <<streamVars, statusVars, driverVars, tracerVars>>
        \/ part = "tracer" /\ Tracer!Next /\ UNCHANGED <<streamVars, statusVars, driverVars, ifaceVars>>

allVars == <<vars, part, streamVars, statusVars, driverVars, ifaceVars, tracerVars>>

(* FairSpec of Adapters, beside the other parts. *)
PartsSpec ==
  PartsInit /\ [][PartsNext]_allVars /\ \A c \in Callers : WF_allVars(CallsOnly /\ Advance(c))

-----------------------------------------------------------------------------
(* Responses of 500 and above are reported as failures and others are not,  *)
(* but for those after an early hint or an early flush.                     *)
FailuresAreResponses == part = "status" => Status!FailuresAreResponses

(* However often database/sql tries a statement again after a dropped        *)
(* connection, it runs at most once; the client sees the loss only after     *)
(* three attempts and never the injected error itself; and one attempt asks  *)
(* the engine once, on the connection or the statement, and on both only if  *)
(* the wrapped driver itself sends database/sql from one to the other.       *)
RetriesAreSafe ==
  part = "driver" => Driver!RunsAtMostOnce /\ Driver!DropsAreRetried /\ Driver!AskedOnce

(* A client of the idle chaos connection gets what the bare connection      *)
(* would give, but for four named differences.                             *)
WrapperIsTransparent == part = "iface" => Iface!WrapperIsTransparent

(* "its fallback is exactly what database/sql assumes when the interface is *)
(* absent", for each interface conn_optional.go adds.                       *)
FallbacksAreExact == part = "iface" => Iface!FallbacksAreExact

(* Every action a query's tracer began is finished once, though the error   *)
(* of Before is dropped and the engine is switched meanwhile.               *)
FinishedOnce == part = "tracer" => Tracer!FinishedOnce

=============================================================================
