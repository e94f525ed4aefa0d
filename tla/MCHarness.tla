----------------------------- MODULE MCHarness -----------------------------
(***************************************************************************)
(* The two test harnesses of chaostest on small instances: property tests  *)
(* that shrink, and recordings that are replayed.  They are independent: a *)
(* behaviour runs one of them (harness).                                   *)
(***************************************************************************)
EXTENDS Shrink, Sequences

VARIABLES harness, phase, rules, matches, events, own, call, trace, pos, golden
goldenVars == <<phase, rules, matches, events, own, call, trace, pos, golden>>

Ns(kind, ns) == [kind |-> kind, ns |-> ns]
St(times, faults) == [times |-> times, faults |-> faults]
Rule(name, kinds, counter, faults) == [name |-> name, kinds |-> kinds, counter |-> counter, faults |-> faults]

(* Rules told apart by the kind they select, random, ranged and staged; no  *)
(* fire injects two faults, and the nameless rule shadows none.             *)
ByKind == <<
  Rule("a", {"sql"}, [kind |-> "prob"], <<Ns("latency", 5)>>),
  Rule("b", {"net"}, [kind |-> "range", from |-> 2, to |-> 2], <<Ns("error", 0)>>),
  Rule("c", {"io"}, [kind |-> "staged", stages |->
         <<St(1, <<Ns("error", 0)>>), St(0, <<Ns("jittered", 3)>>)>>], << >>),
  Rule("", {"sql", "net"}, [kind |-> "always"], <<Ns("latency", 1), Ns("error", 0)>>)>>

(* One goroutine of five operations, and rails that refuse. *)
Recording == INSTANCE Golden WITH Callers <- {1}, Rules <- ByKind, Kinds <- {"sql", "net", "io"},
               Rails <- {"allow", "limit", "refuse"}, MaxOps <- 5, cur <- matches

(* A harness that does not run. *)
GoldenOff == /\ phase = 0 /\ rules = 0 /\ matches = 0 /\ events = 0 /\ own = 0
             /\ call = 0 /\ trace = 0 /\ pos = 0 /\ golden = 0
ShrinkOff == /\ fails = [s \in Seeds |-> {}] /\ pc = "explore" /\ seed = 1
             /\ cur = indices /\ drop = 0 /\ failed = FALSE

HarnessInit ==
  \/ harness = "shrink" /\ ShrinkInit /\ GoldenOff
  \/ harness = "golden" /\ Recording!Init /\ ShrinkOff

Shrinks == harness = "shrink" /\ ShrinkNext /\ UNCHANGED <<harness, goldenVars>>
Records == harness = "golden" /\ Recording!Next /\ UNCHANGED <<harness, shrinkVars>>

harnessVars == <<shrinkVars, harness, goldenVars>>

-----------------------------------------------------------------------------
(* A configuration that fails is found, and minimizing it ends. *)
ShrinkingEnds == harness = "shrink" => Ends

(* The replayed rules fire as recorded, in the recorded order, and a fire is *)
(* annotated with the first fault its own call injected.                    *)
ReplayReproduces ==
  harness = "golden" => Recording!ReplayReproduces /\ Recording!AnnotatedWithOwn

=============================================================================
