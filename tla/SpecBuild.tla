------------------------------ MODULE SpecBuild ------------------------------
(***************************************************************************)
(* A source builds and lints what it has read: one spec of a document, and *)
(* another spec of the same document.                                      *)
(***************************************************************************)
EXTENDS Specs

CONSTANTS SpecPool,    \* specs a document may hold
          OtherPool,   \* and those it may hold beside one of them
          Ops          \* operations rules are matched against

VARIABLES spec, other, result

vars == <<spec, other, result>>

Unbuilt == [errs |-> {}, panics |-> FALSE, rule |-> << >>]

Init == spec \in SpecPool /\ other \in OtherPool /\ result = Unbuilt

Build ==
  /\ result = Unbuilt
  /\ result' = BuildRule(spec)
  /\ UNCHANGED <<spec, other>>

Done == result # Unbuilt /\ UNCHANGED vars

Next == Build \/ Done

Spec == Init /\ [][Next]_vars

Built == result # Unbuilt /\ result.errs = {}

-----------------------------------------------------------------------------
(* BuildRule "is total: it never panics", though the options it applies do  *)
(* (WithStages, Probability): their preconditions are among its checks.     *)
NeverPanics == ~result.panics

(* What the spec selects, field by field. *)
Selects(s, op) ==
  /\ s.kinds # << >> => op.kind \in ToSet(s.kinds)
  /\ s.glob \notin {"", "*"} => op.name = s.glob
  /\ s.attrs \subseteq op.attrs

(* A spec that builds never reaches further than it is written: an entry    *)
(* buildMatchOptions drops as unknown does not leave a rule without it.     *)
ScopeKept == Built => \A op \in Ops : Matches(result.rule, op) <=> Selects(spec, op)

(* isTerminalFaultType is "kept in sync with terminalKindName so the        *)
(* spec-level and introspection-level linters agree on what counts as       *)
(* terminal": a rule Lint rates high comes of a spec LintSpecs rates high.  *)
LintersAgree == Built /\ ~OK(Lint(<<result.rule>>)) => ~OK(LintSpecs(<<spec>>))

(* PUT /rules/{name} lints one spec and installs it beside the others, POST *)
(* lints the whole document: refusing a document is refusing one of its     *)
(* specs, so the two never leave different rule sets behind.                *)
GateIsPerRule ==
  LintGate("reject", <<other, spec>>).reject <=>
    LintGate("reject", <<other>>).reject \/ LintGate("reject", <<spec>>).reject

(* maxFaultLatency: "an absurd sleep must be rejected. not silently         *)
(* honored": no fault of a rule that builds sleeps for longer, unless it is *)
(* a jitter window whose min is above its max, which sleeps for min.        *)
SleepsBounded ==
  Built => LET r == result.rule
               faults == ToSet(r.faults) \cup UNION {ToSet(r.stages[j].faults) : j \in DOMAIN r.stages}
           IN  \A f \in faults : f.lo <= f.hi => \A d \in Sleeps(f) : d <= MaxFaultLatency

=============================================================================
