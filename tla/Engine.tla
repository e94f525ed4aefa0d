------------------------------- MODULE Engine -------------------------------
(***************************************************************************)
(* The engine of engine/engine.go: callers that evaluate an operation      *)
(* against the rules and run the returned action around a wrapped call,    *)
(* and administrators that edit the rules meanwhile.                       *)
(*                                                                         *)
(* A caller is a goroutine inside an adapter (or chaos.Point).  It makes   *)
(* one step per access to shared state: an atomic load, an atomic add, a   *)
(* critical section of one of the small mutexes, a channel operation.      *)
(* AddRule, Reset and ReplaceRules hold Engine.mu over two writes that     *)
(* readers see separately (the rule pointer, the hits map), so each is two *)
(* steps; edit is the second one while it is due, and mu is held exactly   *)
(* while edit is not NoEdit.                                               *)
(***************************************************************************)
EXTENDS FailureBudget, Counters, FiniteSets

CONSTANTS
  Callers,        \* goroutines making calls
  Ops,            \* operations a call may carry
  Rules,          \* identities of Rule values (pointer-backed state is per identity)
  Rule,           \* [Rules -> [name, ops, counter, faults, sticky, limited]]
  Names, NoName,  \* rule names; "" in the code
  Attr, NoKey,    \* Attr[o]: the operation's sticky attribute, or NoKey
  RuleLists,      \* the rule sets a source or test may install
  StickyCap,      \* cap of StickyAttr
  RuleRps,        \* rps of WithPerRuleRateLimit
  Rps,            \* rps of WithRateLimit, 0 when absent
  MaxConcurrent,  \* n of WithMaxConcurrent, 0 when absent
  HasBudget,      \* WithFailureBudget given
  HasKillSwitch,  \* WithKillSwitch given
  CallMayFail,    \* the wrapped call may return an error
  CallMayPanic,   \* the wrapped call may panic
  MayEdit,        \* rules are edited while calls run
  MaxRules,       \* bound: rules in the active set
  CountCap,       \* bound: counters stop here, above every threshold of Rule
  HitCap          \* bound: hit counters stop here

FaultKinds == {"delay", "error", "panic", "mutate"}

Stage == [times : Nat, faults : Seq(FaultKinds)]

ASSUME EngineAssumption ==
  /\ IsFiniteSet(Callers) /\ Ops # {} /\ NoName \notin Names
  /\ \A r \in Rules : /\ Rule[r].name \in Names \cup {NoName}
                      /\ Rule[r].ops \subseteq Ops
                      /\ Rule[r].faults \in Seq(FaultKinds)
                      /\ Rule[r].sticky \in BOOLEAN
                      /\ Rule[r].limited \in BOOLEAN
                      /\ Rule[r].counter.kind = "staged" =>
                           /\ ValidStages(Rule[r].counter.stages)
                           /\ Rule[r].counter.stages \in Seq(Stage)
  /\ RuleLists \subseteq Seq(Rules)
  /\ Rps \in Nat /\ RuleRps \in Nat /\ MaxConcurrent \in Nat
  /\ MaxRules \in Nat /\ CountCap \in Nat \ {0} /\ HitCap \in Nat \ {0}
  /\ {HasBudget, HasKillSwitch, CallMayFail, CallMayPanic, MayEdit} \subseteq BOOLEAN

VARIABLES
  rules,       \* the rule sequence behind the atomic pointer
  hits,        \* the hits map: a function from registered names to counts
  edit,        \* what the holder of mu has left to do, or NoEdit
  disabled,    \* the atomic flag of Disable / Enable
  cur,         \* per rule: matches its fire strategy has counted
  stuck,       \* per rule: attribute values its sticky tracker holds
  ruleTokens,  \* per rule: whole tokens of its limiter
  tokens,      \* whole tokens of the engine's limiter
  slots,       \* entries in the semaphore's channel
  budget,      \* the failure budget
  pc,          \* per caller: the next step
  frame,       \* per caller: local variables of Eval and the action
  holds,       \* per caller: its action's release has not run yet
  cell,        \* per caller: the counter recordHit fetched: nil, live or orphan
  fresh,       \* per caller (history): no Reset/ReplaceRules since it loaded rules
  fired,       \* per name (history): fires of the present rule set
  leaked,      \* history: slots of actions whose wrapped call panicked
  settled      \* history: the full window has been under the threshold once

engineVars == <<rules, hits, edit, disabled>>
ruleVars   == <<cur, stuck, ruleTokens>>
slotVars   == <<slots, holds, leaked>>
budgetVars == <<budget, settled>>
vars == <<rules, hits, edit, disabled, cur, stuck, ruleTokens, tokens, slots, budget,
          pc, frame, holds, cell, fresh, fired, leaked, settled>>

-----------------------------------------------------------------------------
Inc(n, cap) == IF n < cap THEN n + 1 ELSE n

NamesOf(list) == {Rule[list[i]].name : i \in DOMAIN list} \ {NoName}

NoEdit == [kind |-> "none", names |-> {}]

NoFrame == [op |-> CHOOSE o \in Ops : TRUE, snap |-> << >>, at |-> 0,
            act |-> "none", todo |-> << >>, result |-> "ok"]

Init ==
  /\ rules \in RuleLists
  /\ hits = [n \in NamesOf(rules) |-> 0]
  /\ edit = NoEdit
  /\ disabled = FALSE
  /\ cur = [r \in Rules |-> 0]
  /\ stuck = [r \in Rules |-> {}]
  /\ ruleTokens = [r \in Rules |-> RuleRps]
  /\ tokens = Rps
  /\ slots = 0
  /\ budget = newFailureBudget
  /\ pc = [c \in Callers |-> "idle"]
  /\ frame = [c \in Callers |-> NoFrame]
  /\ holds = [c \in Callers |-> FALSE]
  /\ cell = [c \in Callers |-> "nil"]
  /\ fresh = [c \in Callers |-> FALSE]
  /\ fired = [n \in Names |-> 0]
  /\ leaked = 0
  /\ settled = FALSE

-----------------------------------------------------------------------------
(* Control of a caller. *)

Step(c, label, locals) ==
  /\ pc' = [pc EXCEPT ![c] = label]
  /\ frame' = [frame EXCEPT ![c] = locals]
  /\ UNCHANGED <<cell, fresh>>

(* The call is over, or what is left of it touches no engine state: a      *)
(* disabled engine, or Pass, whose Before and After do nothing.            *)
Return(c) ==
  /\ pc' = [pc EXCEPT ![c] = "idle"]
  /\ frame' = [frame EXCEPT ![c] = NoFrame]
  /\ cell' = [cell EXCEPT ![c] = "nil"]
  /\ fresh' = [fresh EXCEPT ![c] = FALSE]

passOrTrack(c) ==
  IF HasBudget THEN Step(c, "call", [NoFrame EXCEPT !.act = "track"]) ELSE Return(c)

nextRule(c) == Step(c, "rule", [frame[c] EXCEPT !.at = @ + 1])

current(c) == frame[c].snap[frame[c].at]

(* The gates behind the fire decision, in the order evalRule consults them; *)
(* a rail that is not configured is not consulted.                          *)
AfterSlot(r)   == IF Rule[r].name # NoName THEN "hit" ELSE "before"
AfterRate(r)   == IF MaxConcurrent > 0 THEN "slot" ELSE AfterSlot(r)
AfterBudget(r) == IF Rps > 0 THEN "rate" ELSE AfterRate(r)
AfterLimit(r)  == IF HasBudget THEN "budget" ELSE AfterBudget(r)
AfterFire(r)   == IF Rule[r].limited THEN "limit" ELSE AfterLimit(r)

-----------------------------------------------------------------------------
(* Enabled, as the adapter asks it and then as Eval asks it again: the     *)
(* flag, then the length of the rule set, are two loads.                   *)
Begin(c, o) ==
  /\ pc[c] = "idle"
  /\ ~disabled
  /\ Step(c, "len1", [NoFrame EXCEPT !.op = o])
  /\ UNCHANGED <<engineVars, ruleVars, tokens, slotVars, budgetVars, fired>>

AdapterLen(c) ==
  /\ pc[c] = "len1"
  /\ IF rules = << >> THEN Return(c) ELSE Step(c, "flag2", frame[c])
  /\ UNCHANGED <<engineVars, ruleVars, tokens, slotVars, budgetVars, fired>>

EvalFlag(c) ==
  /\ pc[c] = "flag2"
  /\ IF disabled THEN Return(c) ELSE Step(c, "len2", frame[c])
  /\ UNCHANGED <<engineVars, ruleVars, tokens, slotVars, budgetVars, fired>>

EvalLen(c) ==
  /\ pc[c] = "len2"
  /\ IF rules = << >> THEN Return(c)
     ELSE Step(c, IF HasKillSwitch THEN "kill" ELSE "load", frame[c])
  /\ UNCHANGED <<engineVars, ruleVars, tokens, slotVars, budgetVars, fired>>

(* The kill switch is the user's predicate: it may say anything. *)
ConsultKillSwitch(c) ==
  /\ pc[c] = "kill"
  /\ passOrTrack(c) \/ Step(c, "load", frame[c])
  /\ UNCHANGED <<engineVars, ruleVars, tokens, slotVars, budgetVars, fired>>

(* Eval iterates over the set it loads here, whatever is stored later. *)
LoadRules(c) ==
  /\ pc[c] = "load"
  /\ pc' = [pc EXCEPT ![c] = "rule"]
  /\ frame' = [frame EXCEPT ![c] = [@ EXCEPT !.snap = rules, !.at = 1]]
  /\ fresh' = [fresh EXCEPT ![c] = TRUE]
  /\ UNCHANGED <<engineVars, ruleVars, tokens, slotVars, budgetVars, fired, cell>>

(* evalRule up to the sticky tracker.  An entry whose window has ended is  *)
(* dropped on the way; time is not modelled here, so an entry may have     *)
(* expired whenever it is looked up (Sticky has the clock).                *)
MatchRule(c) ==
  /\ pc[c] = "rule"
  /\ \/ /\ frame[c].at > Len(frame[c].snap)
        /\ passOrTrack(c)
        /\ UNCHANGED stuck
     \/ /\ frame[c].at <= Len(frame[c].snap)
        /\ frame[c].op \notin Rule[current(c)].ops
        /\ nextRule(c)
        /\ UNCHANGED stuck
     \/ /\ frame[c].at <= Len(frame[c].snap)
        /\ frame[c].op \in Rule[current(c)].ops
        /\ Attr[frame[c].op] \in stuck[current(c)]
        /\ Step(c, AfterFire(current(c)),
                [frame[c] EXCEPT !.todo = Rule[current(c)].faults])
        /\ UNCHANGED stuck
     \/ /\ frame[c].at <= Len(frame[c].snap)
        /\ frame[c].op \in Rule[current(c)].ops
        /\ Step(c, "count", frame[c])
        /\ stuck' = [stuck EXCEPT ![current(c)] = @ \ {Attr[frame[c].op]}]
  /\ UNCHANGED <<engineVars, cur, ruleTokens, tokens, slotVars, budgetVars, fired>>

(* decideFire: the strategy counts the match with one atomic add (always   *)
(* and prob count nothing) and says whether it fires.                      *)
Count(c) ==
  LET r == current(c)
      n == cur[r] + 1
  IN  /\ pc[c] = "count"
      /\ \E fire \in shouldFire(Rule[r].counter, n) :
           IF ~fire THEN nextRule(c)
           ELSE Step(c, IF Rule[r].sticky /\ Rule[r].counter.kind # "staged"
                        THEN "mark" ELSE AfterFire(r),
                     [frame[c] EXCEPT !.todo = FaultsAt(Rule[r].counter, Rule[r].faults, n)])
      /\ cur' = IF Rule[r].counter.kind \in {"always", "prob"} THEN cur
                ELSE [cur EXCEPT ![r] = Inc(@, CountCap)]
      /\ UNCHANGED <<engineVars, stuck, ruleTokens, tokens, slotVars, budgetVars, fired>>

(* mark: the value becomes sticky before any rail is consulted; a full     *)
(* tracker makes room first.                                               *)
Mark(c) ==
  LET r == current(c)
      v == Attr[frame[c].op]
  IN  /\ pc[c] = "mark"
      /\ \/ v = NoKey /\ UNCHANGED stuck
         \/ /\ v # NoKey
            /\ v \in stuck[r] \/ Cardinality(stuck[r]) < StickyCap
            /\ stuck' = [stuck EXCEPT ![r] = @ \cup {v}]
         \/ /\ v # NoKey
            /\ v \notin stuck[r] /\ Cardinality(stuck[r]) >= StickyCap
            /\ \E old \in stuck[r] : stuck' = [stuck EXCEPT ![r] = (@ \ {old}) \cup {v}]
      /\ Step(c, AfterFire(r), frame[c])
      /\ UNCHANGED <<engineVars, cur, ruleTokens, tokens, slotVars, budgetVars, fired>>

-----------------------------------------------------------------------------
(* The rails.  Only the rule's own limiter lets evaluation go on to the    *)
(* next rule; the engine's rails end it with a pass-through.               *)
RuleLimit(c) ==
  LET r == current(c)
  IN  /\ pc[c] = "limit"
      /\ \/ /\ ruleTokens[r] > 0
            /\ ruleTokens' = [ruleTokens EXCEPT ![r] = @ - 1]
            /\ Step(c, AfterLimit(r), frame[c])
         \/ /\ ruleTokens[r] = 0
            /\ nextRule(c)
            /\ UNCHANGED ruleTokens
      /\ UNCHANGED <<engineVars, cur, stuck, tokens, slotVars, budgetVars, fired>>

BudgetGate(c) ==
  /\ pc[c] = "budget"
  /\ IF overBudget(budget) THEN passOrTrack(c)
     ELSE Step(c, AfterBudget(current(c)), frame[c])
  /\ UNCHANGED <<engineVars, ruleVars, tokens, slotVars, budgetVars, fired>>

RateGate(c) ==
  /\ pc[c] = "rate"
  /\ IF tokens > 0 THEN tokens' = tokens - 1 /\ Step(c, AfterRate(current(c)), frame[c])
     ELSE UNCHANGED tokens /\ passOrTrack(c)
  /\ UNCHANGED <<engineVars, ruleVars, slotVars, budgetVars, fired>>

\* a send without the default branch: it waits for a free slot
AcquireSlotBlocks(c) ==
  /\ pc[c] = "slot"
  /\ slots < MaxConcurrent
  /\ slots' = slots + 1
  /\ holds' = [holds EXCEPT ![c] = TRUE]
  /\ Step(c, AfterSlot(current(c)), frame[c])
  /\ UNCHANGED <<engineVars, ruleVars, tokens, leaked, budgetVars, fired>>

(* acquireSlot: a send on the buffered channel that never blocks. *)
AcquireSlot(c) ==
  /\ pc[c] = "slot"
  /\ IF slots < MaxConcurrent
     THEN /\ slots' = slots + 1
          /\ holds' = [holds EXCEPT ![c] = TRUE]
          /\ Step(c, AfterSlot(current(c)), frame[c])
     ELSE UNCHANGED <<slots, holds>> /\ passOrTrack(c)
  /\ UNCHANGED <<engineVars, ruleVars, tokens, leaked, budgetVars, fired>>

(* recordHit: fetch the counter under mu, add to it after unlocking.  The  *)
(* history variable counts the fire for the rule set it was loaded from.   *)
Credit(c) ==
  LET n == Rule[current(c)].name
  IN  fired' = IF fresh[c] THEN [fired EXCEPT ![n] = Inc(@, HitCap)] ELSE fired

\* the map is read without taking mu
RecordHitUnlocked(c) ==
  /\ pc[c] = "hit"
  /\ IF Rule[current(c)].name \in DOMAIN hits
     THEN /\ pc' = [pc EXCEPT ![c] = "add"]
          /\ cell' = [cell EXCEPT ![c] = "live"]
          /\ UNCHANGED fired
     ELSE /\ pc' = [pc EXCEPT ![c] = "before"]
          /\ UNCHANGED cell
          /\ Credit(c)
  /\ UNCHANGED <<engineVars, ruleVars, tokens, slotVars, budgetVars, frame, fresh>>

RecordHit(c) ==
  /\ pc[c] = "hit"
  /\ edit = NoEdit
  /\ IF Rule[current(c)].name \in DOMAIN hits
     THEN /\ pc' = [pc EXCEPT ![c] = "add"]
          /\ cell' = [cell EXCEPT ![c] = "live"]
          /\ UNCHANGED fired
     ELSE /\ pc' = [pc EXCEPT ![c] = "before"]
          /\ UNCHANGED cell
          /\ Credit(c)
  /\ UNCHANGED <<engineVars, ruleVars, tokens, slotVars, budgetVars, frame, fresh>>

AddHit(c) ==
  /\ pc[c] = "add"
  /\ hits' = IF cell[c] = "live" THEN [hits EXCEPT ![Rule[current(c)].name] = Inc(@, HitCap)]
             ELSE hits
  /\ Credit(c)
  /\ pc' = [pc EXCEPT ![c] = "before"]
  /\ cell' = [cell EXCEPT ![c] = "nil"]
  /\ UNCHANGED <<rules, edit, disabled, ruleVars, tokens, slotVars, budgetVars, frame, fresh>>

-----------------------------------------------------------------------------
(* The action around the wrapped call. *)

\* release without the sync.Once: an action may give back another's slot
DoReleaseTwice(c) ==
  /\ slots' = IF MaxConcurrent > 0 /\ slots > 0 THEN slots - 1 ELSE slots
  /\ holds' = [holds EXCEPT ![c] = FALSE]

\* the slot is not given back
DoReleaseForgotten(c) ==
  /\ slots' = slots
  /\ holds' = [holds EXCEPT ![c] = FALSE]

(* doRelease: once per action, a receive from the semaphore's channel. *)
doRelease(c) ==
  /\ slots' = IF holds[c] THEN slots - 1 ELSE slots
  /\ holds' = [holds EXCEPT ![c] = FALSE]

AfterCall == IF HasBudget THEN "outcome" ELSE "after"

(* Before: the next fault of the chain.  A sleep ends or its context is    *)
(* cancelled; an error ends the chain; a panic unwinds through Before.     *)
(* partitionFaults keeps result mutators out of the chain: they are passed *)
(* over here (Result applies them to a value no property looks at).        *)
ApplyFault(c) ==
  /\ pc[c] = "before"
  /\ frame[c].todo # << >>
  /\ \/ /\ Head(frame[c].todo) \in {"delay", "mutate"}
        /\ Step(c, "before", [frame[c] EXCEPT !.todo = Tail(@)])
        /\ UNCHANGED <<slots, holds>>
     \/ /\ Head(frame[c].todo) \in {"delay", "error"}
        /\ Step(c, AfterCall, [NoFrame EXCEPT !.act = "fire", !.result = "fault"])
        /\ doRelease(c)
     \/ /\ Head(frame[c].todo) = "panic"
        /\ Return(c)
        /\ doRelease(c)
  /\ UNCHANGED <<engineVars, ruleVars, tokens, leaked, budgetVars, fired>>

BeforeDone(c) ==
  /\ pc[c] = "before"
  /\ frame[c].todo = << >>
  /\ Step(c, "call", [NoFrame EXCEPT !.act = "fire"])
  /\ UNCHANGED <<engineVars, ruleVars, tokens, slotVars, budgetVars, fired>>

(* The wrapped call returns.  No adapter defers After, so a panic skips    *)
(* both Outcome and After and the slot is never given back.                *)
WrappedCall(c) ==
  /\ pc[c] = "call"
  /\ \/ /\ Step(c, AfterCall, frame[c])
        /\ UNCHANGED slotVars
     \/ /\ CallMayFail
        /\ Step(c, AfterCall, [frame[c] EXCEPT !.result = "fail"])
        /\ UNCHANGED slotVars
     \/ /\ CallMayPanic
        /\ Return(c)
        /\ leaked' = leaked + One(holds[c])
        /\ holds' = [holds EXCEPT ![c] = FALSE]
        /\ UNCHANGED slots
  /\ UNCHANGED <<engineVars, ruleVars, tokens, budgetVars, fired>>

(* reportOutcome of the adapters: Outcome, which feeds the budget, ...     *)
Outcome(c) ==
  /\ pc[c] = "outcome"
  /\ budget' = record(budget, frame[c].result # "ok")
  /\ settled' = (settled \/ (budget'.filled /\ budget'.errors < Threshold))
  /\ Step(c, "after", frame[c])
  /\ UNCHANGED <<engineVars, ruleVars, tokens, slotVars, fired>>

(* ... then After. *)
After(c) ==
  /\ pc[c] = "after"
  /\ Return(c)
  /\ doRelease(c)
  /\ UNCHANGED <<engineVars, ruleVars, tokens, leaked, budgetVars, fired>>

CallerStep(c) ==
  \/ AdapterLen(c) \/ EvalFlag(c) \/ EvalLen(c) \/ ConsultKillSwitch(c) \/ LoadRules(c)
  \/ MatchRule(c) \/ Count(c) \/ Mark(c)
  \/ RuleLimit(c) \/ BudgetGate(c) \/ RateGate(c) \/ AcquireSlot(c)
  \/ RecordHit(c) \/ AddHit(c)
  \/ ApplyFault(c) \/ BeforeDone(c) \/ WrappedCall(c) \/ Outcome(c) \/ After(c)

-----------------------------------------------------------------------------
(* Administration. *)

Disable ==
  /\ disabled' = TRUE
  /\ UNCHANGED <<rules, hits, edit, ruleVars, tokens, slotVars, budgetVars, pc, frame, cell, fresh, fired>>

Enable ==
  /\ disabled' = FALSE
  /\ UNCHANGED <<rules, hits, edit, ruleVars, tokens, slotVars, budgetVars, pc, frame, cell, fresh, fired>>

(* AddRule takes mu and stores the longer set; the name is registered next. *)
AddRule(r) ==
  /\ MayEdit /\ edit = NoEdit
  /\ Len(rules) < MaxRules
  /\ rules' = Append(rules, r)
  /\ edit' = [kind |-> "add", names |-> NamesOf(<<r>>)]
  /\ UNCHANGED <<hits, disabled, ruleVars, tokens, slotVars, budgetVars, pc, frame, cell, fresh, fired>>

(* The stored set is a new one: fires of evaluations that loaded an        *)
(* earlier one are no longer fires of the present set.                     *)
Store(list) ==
  /\ MayEdit /\ edit = NoEdit
  /\ rules' = list
  /\ edit' = [kind |-> "swap", names |-> NamesOf(list)]
  /\ fresh' = [c \in Callers |-> FALSE]
  /\ fired' = [n \in Names |-> 0]
  /\ UNCHANGED <<hits, disabled, ruleVars, tokens, slotVars, budgetVars, pc, frame, cell>>

Reset == Store(<< >>)

ReplaceRules(list) == Store(list)

(* The second write under mu, and the unlock: AddRule registers the name   *)
(* if it is new, the others swap the map and orphan the counters fetched.  *)
FinishEdit ==
  /\ edit # NoEdit
  /\ edit' = NoEdit
  /\ \/ /\ edit.kind = "add"
        /\ hits' = [n \in DOMAIN hits \cup edit.names |-> IF n \in DOMAIN hits THEN hits[n] ELSE 0]
        /\ UNCHANGED cell
     \/ /\ edit.kind = "swap"
        /\ hits' = [n \in edit.names |-> 0]
        /\ cell' = [c \in Callers |-> IF cell[c] = "live" THEN "orphan" ELSE cell[c]]
  /\ UNCHANGED <<rules, disabled, ruleVars, tokens, slotVars, budgetVars, pc, frame, fresh, fired>>

(* Time passes: a whole token is back in a limiter (TokenBucket has the    *)
(* arithmetic).                                                            *)
Refill ==
  /\ \/ /\ tokens < Rps
        /\ tokens' = tokens + 1
        /\ UNCHANGED ruleTokens
     \/ \E r \in Rules : /\ Rule[r].limited /\ ruleTokens[r] < RuleRps
                         /\ ruleTokens' = [ruleTokens EXCEPT ![r] = @ + 1]
                         /\ UNCHANGED tokens
  /\ UNCHANGED <<engineVars, cur, stuck, slotVars, budgetVars, pc, frame, cell, fresh, fired>>

Admin ==
  \/ Disable \/ Enable \/ Reset \/ FinishEdit \/ Refill
  \/ \E r \in Rules : AddRule(r)
  \/ \E list \in RuleLists : ReplaceRules(list)

Next == Admin \/ \E c \in Callers : CallerStep(c) \/ \E o \in Ops : Begin(c, o)

Spec == Init /\ [][Next]_vars

(* Fairness: the Go scheduler runs every goroutine that is ready, sleeps   *)
(* and wrapped calls end, and a holder of mu finishes its critical section *)
(* (it makes no blocking call).  Nothing obliges anyone to start a call or *)
(* to edit the rules.  recordHit waits for mu, which others may take again *)
(* and again; a Go mutex is starvation-free, hence SF for that step.       *)
Fairness ==
  /\ \A c \in Callers : WF_vars(CallerStep(c)) /\ SF_vars(RecordHit(c))
  /\ WF_vars(FinishEdit)

FairSpec == Spec /\ Fairness

-----------------------------------------------------------------------------
(* Properties. *)

Labels == {"idle", "len1", "flag2", "len2", "kill", "load", "rule", "count", "mark", "limit",
           "budget", "rate", "slot", "hit", "add", "before", "call", "outcome", "after"}

Frames == [op : Ops, snap : Seq(Rules), at : Nat, act : {"none", "track", "fire"},
           todo : Seq(FaultKinds), result : {"ok", "fault", "fail"}]

(* Every variable keeps its type. *)
TypeOK ==
  /\ rules \in Seq(Rules)
  /\ DOMAIN hits \subseteq Names /\ hits \in [DOMAIN hits -> 0 .. HitCap]
  /\ edit \in [kind : {"none", "add", "swap"}, names : SUBSET Names]
  /\ disabled \in BOOLEAN
  /\ cur \in [Rules -> 0 .. CountCap]
  /\ stuck \in [Rules -> SUBSET {Attr[o] : o \in Ops}]
  /\ ruleTokens \in [Rules -> 0 .. RuleRps]
  /\ tokens \in 0 .. Rps
  /\ slots \in Int /\ leaked \in Nat
  /\ budget \in Budget /\ settled \in BOOLEAN
  /\ pc \in [Callers -> Labels]
  /\ frame \in [Callers -> Frames]
  /\ holds \in [Callers -> BOOLEAN]
  /\ cell \in [Callers -> {"nil", "live", "orphan"}]
  /\ fresh \in [Callers -> BOOLEAN]
  /\ fired \in [Names -> 0 .. HitCap]

(* A call a rule fired for, from the moment it has its slot to the end of  *)
(* the wrapped call.                                                       *)
Faulted(c) == pc[c] \in {"hit", "add", "before"} \/ (pc[c] = "call" /\ frame[c].act = "fire")

Holders == {c \in Callers : holds[c]}

(* The semaphore's channel holds one entry per action that has yet to      *)
(* release, plus one per action whose wrapped call panicked: doRelease     *)
(* never runs twice for an action, on any path through Before, a panic, an *)
(* error or After, and never for an action without a slot.                 *)
SlotAccounting == slots = Cardinality(Holders) + leaked

(* WithMaxConcurrent: at most MaxConcurrent faulted calls are in flight,   *)
(* however evaluations, short-circuits and panics interleave.              *)
CapRespected == MaxConcurrent > 0 => Cardinality({c \in Callers : Faulted(c)}) + leaked <= MaxConcurrent

(* The semaphore implements the cap: a place is taken only below the cap,  *)
(* and each is given back, or lost to a panic, at most once.               *)
CC == INSTANCE ConcurrencyCap
        WITH Calls <- Callers, Cap <- MaxConcurrent, inflight <- Holders, lost <- leaked

ImplementsCap == CC!Spec

(* Hits: a fire of the present rule set is never lost.  AddRule publishes  *)
(* the rule before it registers its counter, and ReplaceRules before it    *)
(* swaps the map; recordHit's wait for mu makes both invisible.  (It is an *)
(* inequality: a late fire of a replaced set may be credited as well.)     *)
HitsNotLost == \A n \in Names : fired[n] <= IF n \in DOMAIN hits THEN hits[n] ELSE 0

(* Times(n): concurrent matches never fire the rule more than n times,     *)
(* counted by Hits, across every edit of the rule set.                     *)
TimesCapped ==
  \A r \in Rules :
    /\ Rule[r].counter.kind = "times" /\ ~Rule[r].sticky
    /\ Rule[r].name \in DOMAIN hits
    /\ \A q \in Rules \ {r} : Rule[q].name # Rule[r].name
    => hits[Rule[r].name] <= Rule[r].counter.n

(* A call past the budget's gate whose outcome is not recorded yet. *)
PastGate(c) ==
  \/ pc[c] \in {"rate", "slot", "hit", "add", "before"}
  \/ pc[c] \in {"call", "outcome"} /\ frame[c].act = "fire"

(* WithFailureBudget, with checks and records apart: once the full window  *)
(* has been under the threshold, injected errors overshoot it by no more   *)
(* than the calls that were past the gate together.  Stated for calls that *)
(* fail only by injection.                                                 *)
OvershootBounded ==
  settled /\ ~CallMayFail =>
    budget.errors + Cardinality({c \in Callers : PastGate(c)}) <= Threshold - 1 + Cardinality(Callers)

(* Every evaluation ends and every action completes: no caller waits for   *)
(* ever on mu, on the semaphore or on another caller.                      *)
CallsReturn == \A c \in Callers : pc[c] # "idle" ~> pc[c] = "idle"

(* Disable stops chaos: once the engine stays disabled, every slot comes   *)
(* back and no call is faulted again.                                      *)
DisableDrains == <>[]disabled => <>[](slots = 0 /\ \A c \in Callers : ~Faulted(c))

-----------------------------------------------------------------------------
(* What the documentation says and the code does not do. *)

(* Times: "After n, the rule never fires again until Engine.Reset clears   *)
(* the counter."  When Reset is through and no call runs, they are zero.   *)
(* (Stated for rule lists in which only Reset leaves the set empty.)       *)
ResetClearsCounters ==
  [][FinishEdit /\ rules = << >> /\ (\A c \in Callers : pc[c] = "idle")
       => \A r \in Rules : cur'[r] = 0]_vars

=============================================================================
