---------------------------- MODULE EngineProofs ----------------------------
(***************************************************************************)
(* The engine's invariants for any number of callers, rules and edits.     *)
(***************************************************************************)
EXTENDS Engine, FiniteSetTheorems, WellFoundedInduction, TLAPS

-----------------------------------------------------------------------------
(* Facts about the constants and the operators. *)

(* A staged rule that fires has an active stage: the least stage whose end *)
(* is not passed exists.                                                   *)
LEMMA ActiveStageExists ==
  ASSUME NEW stages, stages \in Seq(Stage),
         NEW n, ActiveStage(stages, n) # 0
  PROVE  ActiveStage(stages, n) \in DOMAIN stages
  <1> DEFINE ends == {i \in DOMAIN stages : \/ i = Len(stages) /\ OpenEnded(stages)
                                            \/ n <= Cum(stages)[i]}
  <1>1. ActiveStage(stages, n) = IF ends = {} THEN 0 ELSE CHOOSE i \in ends : \A j \in ends : i <= j
    BY DEF ActiveStage
  <1>2. ends # {} /\ ends \subseteq DOMAIN stages /\ DOMAIN stages \subseteq Nat
    BY <1>1
  <1> HIDE DEF ends
  <1>3. \E i \in ends : \A j \in ends : i <= j
    <2> DEFINE Less == {p \in Nat \X Nat : p[1] < p[2]}
    <2>1. IsWellFoundedOn(Less, Nat)
      BY NatLessThanWellFounded, Zenon DEF OpToRel
    <2>2. ends \subseteq Nat
      BY <1>2
    <2> HIDE DEF Less
    <2>3. PICK i \in ends : \A j \in ends : ~ (<<j, i>> \in Less)
      BY <1>2, <2>1, <2>2, WFMin
    <2>4. \A j \in ends : ~ (j < i)
      BY <2>2, <2>3 DEF Less
    <2> QED BY <2>2, <2>4
  <1> QED BY <1>1, <1>2, <1>3

(* What a fire injects is a list of faults. *)
LEMMA FaultsAtType ==
  ASSUME NEW r \in Rules, NEW n, TRUE \in shouldFire(Rule[r].counter, n)
  PROVE  FaultsAt(Rule[r].counter, Rule[r].faults, n) \in Seq(FaultKinds)
  <1>1. CASE Rule[r].counter.kind = "staged"
    <2>1. Rule[r].counter.stages \in Seq(Stage)
      BY <1>1, EngineAssumption
    <2>2. ActiveStage(Rule[r].counter.stages, n) # 0
      BY <1>1 DEF shouldFire
    <2>3. ActiveStage(Rule[r].counter.stages, n) \in DOMAIN Rule[r].counter.stages
      BY <2>1, <2>2, ActiveStageExists
    <2>4. Rule[r].counter.stages[ActiveStage(Rule[r].counter.stages, n)]
            \in Stage
      BY <2>1, <2>3
    <2> QED BY <1>1, <2>4 DEF FaultsAt, Stage
  <1>2. CASE Rule[r].counter.kind # "staged"
    BY <1>2, EngineAssumption DEF FaultsAt
  <1> QED BY <1>1, <1>2

-----------------------------------------------------------------------------
(* Types and locations. *)

AtRule == {"count", "mark", "limit", "budget", "rate", "slot", "hit", "add"}

(* A caller between the match and the hit counter has a rule in hand, and  *)
(* one that records a hit has a named rule.                                *)
Located ==
  \A c \in Callers :
    /\ pc[c] \in AtRule \cup {"rule"} => frame[c].at >= 1
    /\ pc[c] \in AtRule => frame[c].at <= Len(frame[c].snap)
    /\ pc[c] \in {"hit", "add"} => Rule[current(c)].name # NoName

CallerTypes ==
  /\ pc \in [Callers -> Labels]
  /\ frame \in [Callers -> Frames]
  /\ cell \in [Callers -> {"nil", "live", "orphan"}]
  /\ fresh \in [Callers -> BOOLEAN]

EngineTypes ==
  /\ rules \in Seq(Rules)
  /\ DOMAIN hits \subseteq Names /\ hits \in [DOMAIN hits -> 0 .. HitCap]
  /\ edit \in [kind : {"none", "add", "swap"}, names : SUBSET Names]
  /\ disabled \in BOOLEAN
  /\ cur \in [Rules -> 0 .. CountCap]
  /\ stuck \in [Rules -> SUBSET {Attr[o] : o \in Ops}]
  /\ ruleTokens \in [Rules -> 0 .. RuleRps]
  /\ tokens \in 0 .. Rps
  /\ slots \in Int /\ leaked \in Nat
  /\ budget \in Budget /\ settled \in BOOLEAN
  /\ holds \in [Callers -> BOOLEAN]
  /\ fired \in [Names -> 0 .. HitCap]

LEMMA TypesSplit == TypeOK <=> CallerTypes /\ EngineTypes
  BY DEF TypeOK, CallerTypes, EngineTypes

TInv == CallerTypes /\ EngineTypes /\ Located

(* The empty frame, and the frames the steps build, are frames. *)
LEMMA FrameTypes ==
  /\ NoFrame \in Frames
  /\ \A a \in {"track", "fire"} : [NoFrame EXCEPT !.act = a] \in Frames
  /\ \A o \in Ops : [NoFrame EXCEPT !.op = o] \in Frames
  /\ [NoFrame EXCEPT !.act = "fire", !.result = "fault"] \in Frames
  /\ \A f \in Frames : /\ [f EXCEPT !.at = @ + 1] \in Frames
                       /\ \A todo \in Seq(FaultKinds) : [f EXCEPT !.todo = todo] \in Frames
                       /\ [f EXCEPT !.result = "fail"] \in Frames
                       /\ \A snap \in Seq(Rules) : [f EXCEPT !.snap = snap, !.at = 1] \in Frames
                       /\ f.todo # << >> => [f EXCEPT !.todo = Tail(@)] \in Frames
  <1>1. (CHOOSE o \in Ops : TRUE) \in Ops
    BY EngineAssumption
  <1>2. NoFrame \in Frames
    BY <1>1 DEF NoFrame, Frames
  <1>3. \A f \in Frames : /\ [f EXCEPT !.at = @ + 1] \in Frames
                          /\ [f EXCEPT !.result = "fail"] \in Frames
    BY DEF Frames
  <1>6. \A f \in Frames : \A o \in Ops : [f EXCEPT !.op = o] \in Frames
    BY DEF Frames
  <1>7. \A f \in Frames : \A a \in {"track", "fire"} : [f EXCEPT !.act = a] \in Frames
    BY DEF Frames
  <1>8. \A f \in Frames : [f EXCEPT !.act = "fire", !.result = "fault"] \in Frames
    BY DEF Frames
  <1>4. \A f \in Frames : /\ \A todo \in Seq(FaultKinds) : [f EXCEPT !.todo = todo] \in Frames
                          /\ \A snap \in Seq(Rules) : [f EXCEPT !.snap = snap, !.at = 1] \in Frames
    BY DEF Frames
  <1>5. \A f \in Frames : f.todo # << >> => [f EXCEPT !.todo = Tail(@)] \in Frames
    <2> SUFFICES ASSUME NEW f \in Frames, f.todo # << >>
                 PROVE  [f EXCEPT !.todo = Tail(@)] \in Frames
      OBVIOUS
    <2>1. Tail(f.todo) \in Seq(FaultKinds)
      BY DEF Frames
    <2> QED BY <2>1 DEF Frames
  <1> QED BY <1>2, <1>3, <1>4, <1>5, <1>6, <1>7, <1>8

(* A caller that moves to a label keeps the types and leaves the others.   *)
LEMMA StepTypes ==
  ASSUME CallerTypes, NEW c \in Callers, NEW l \in Labels, NEW f \in Frames, Step(c, l, f)
  PROVE  /\ CallerTypes'
         /\ pc'[c] = l /\ frame'[c] = f
         /\ \A d \in Callers \ {c} : pc'[d] = pc[d] /\ frame'[d] = frame[d]
  BY DEF CallerTypes, Step

LEMMA ReturnTypes ==
  ASSUME CallerTypes, NEW c \in Callers, Return(c)
  PROVE  /\ CallerTypes'
         /\ pc'[c] = "idle" /\ frame'[c] = NoFrame
         /\ \A d \in Callers \ {c} : pc'[d] = pc[d] /\ frame'[d] = frame[d]
  BY FrameTypes DEF CallerTypes, Return, Labels

(* After a step of c, only c's location is in question. *)
LEMMA LocatedStep ==
  ASSUME Located, NEW c \in Callers,
         \A d \in Callers \ {c} : pc'[d] = pc[d] /\ frame'[d] = frame[d],
         pc'[c] \in AtRule \cup {"rule"} => frame'[c].at >= 1,
         pc'[c] \in AtRule => frame'[c].at <= Len(frame'[c].snap),
         pc'[c] \in {"hit", "add"} => Rule[frame'[c].snap[frame'[c].at]].name # NoName
  PROVE  Located'
  BY DEF Located, current

Gates == {"limit", "budget", "rate", "slot", "hit", "before"}

GateLabels(r) == {AfterSlot(r), AfterRate(r), AfterBudget(r), AfterLimit(r), AfterFire(r)}

(* Whatever is configured, the step after a gate is a later gate or the    *)
(* action itself, and hits are recorded for named rules only.              *)
LEMMA GateFacts ==
  ASSUME NEW r, NEW l \in GateLabels(r)
  PROVE  l \in Gates /\ (l = "hit" => Rule[r].name # NoName)
  BY DEF GateLabels, Gates, AfterSlot, AfterRate, AfterBudget, AfterLimit, AfterFire

LEMMA PassTypes ==
  ASSUME TInv, NEW c \in Callers, passOrTrack(c)
  PROVE  CallerTypes' /\ Located'
  <1>1. CASE HasBudget
    <2>1. Step(c, "call", [NoFrame EXCEPT !.act = "track"])
      BY <1>1 DEF passOrTrack
    <2> QED BY <2>1, StepTypes, FrameTypes, LocatedStep DEF TInv, Labels, AtRule
  <1>2. CASE ~HasBudget
    <2>1. Return(c)
      BY <1>2 DEF passOrTrack
    <2> QED BY <2>1, ReturnTypes, LocatedStep DEF TInv, AtRule
  <1> QED BY <1>1, <1>2

LEMMA ReturnLocated ==
  ASSUME TInv, NEW c \in Callers, Return(c)
  PROVE  CallerTypes' /\ Located'
  BY ReturnTypes, LocatedStep DEF TInv, AtRule

(* A step to a label outside the rule loop needs no location. *)
LEMMA FreeStep ==
  ASSUME TInv, NEW c \in Callers, NEW l \in Labels \ (AtRule \cup {"rule"}), NEW f \in Frames,
         Step(c, l, f)
  PROVE  CallerTypes' /\ Located'
  BY StepTypes, LocatedStep DEF TInv, AtRule

LEMMA NextRuleTypes ==
  ASSUME TInv, NEW c \in Callers, pc[c] \in AtRule \cup {"rule"}, nextRule(c)
  PROVE  CallerTypes' /\ Located'
  <1>1. frame[c] \in Frames /\ frame[c].at >= 1 /\ frame[c].at \in Nat
    BY DEF TInv, CallerTypes, Located, Frames
  <1>2. [frame[c] EXCEPT !.at = @ + 1] \in Frames /\ "rule" \in Labels
    BY <1>1, FrameTypes DEF Labels
  <1>3. /\ CallerTypes' /\ pc'[c] = "rule" /\ frame'[c] = [frame[c] EXCEPT !.at = @ + 1]
        /\ \A d \in Callers \ {c} : pc'[d] = pc[d] /\ frame'[d] = frame[d]
    BY <1>2, StepTypes DEF nextRule, TInv
  <1>4. frame'[c].at >= 1
    BY <1>1, <1>3 DEF Frames
  <1> QED BY <1>3, <1>4, LocatedStep DEF TInv, AtRule

(* A step from a rule in hand to one of its gates, or to another step of   *)
(* the same evaluation.                                                    *)
LEMMA GateStep ==
  ASSUME TInv, NEW c \in Callers, NEW f \in Frames,
         f.at = frame[c].at, f.snap = frame[c].snap,
         frame[c].at >= 1, frame[c].at <= Len(frame[c].snap),
         NEW l \in GateLabels(current(c)) \cup {"count", "mark"},
         Step(c, l, f)
  PROVE  CallerTypes' /\ Located'
  <1>1. l \in Labels /\ (l = "hit" => Rule[current(c)].name # NoName) /\ l # "add"
    BY GateFacts DEF Gates, Labels
  <1>2. /\ CallerTypes' /\ pc'[c] = l /\ frame'[c] = f
        /\ \A d \in Callers \ {c} : pc'[d] = pc[d] /\ frame'[d] = frame[d]
    BY <1>1, StepTypes DEF TInv
  <1> QED BY <1>1, <1>2, LocatedStep DEF TInv, current

(* The rule in hand is a rule. *)
LEMMA CurrentRule ==
  ASSUME TInv, NEW c \in Callers, pc[c] \in AtRule
  PROVE  /\ current(c) \in Rules
         /\ frame[c] \in Frames /\ frame[c].at >= 1 /\ frame[c].at <= Len(frame[c].snap)
         /\ pc[c] \in {"hit", "add"} => Rule[current(c)].name \in Names
  <1>1. frame[c] \in Frames /\ frame[c].at >= 1 /\ frame[c].at <= Len(frame[c].snap)
    BY DEF TInv, CallerTypes, Located
  <1>2. current(c) \in Rules
    BY <1>1 DEF Frames, current
  <1> QED BY <1>1, <1>2, EngineAssumption DEF TInv, Located

(* record keeps the budget's types. *)
LEMMA RecordType ==
  ASSUME NEW b \in Budget, NEW isErr \in BOOLEAN
  PROVE  record(b, isErr) \in Budget
  <1>1. b.ring \in [Slots -> BOOLEAN] /\ b.idx \in Slots /\ b.filled \in BOOLEAN /\ b.errors \in Int
    BY DEF Budget
  <1>2. [b.ring EXCEPT ![b.idx] = isErr] \in [Slots -> BOOLEAN]
    BY <1>1
  <1>3. (IF b.idx + 1 = Window THEN 0 ELSE b.idx + 1) \in Slots
    BY <1>1, BudgetAssumption DEF Slots
  <1>4. b.errors - One(b.ring[b.idx]) + One(isErr) \in Int
    BY <1>1 DEF One
  <1> QED BY <1>1, <1>2, <1>3, <1>4 DEF record, Budget

LEMMA IncType ==
  ASSUME NEW cap \in Nat, NEW n \in 0 .. cap
  PROVE  Inc(n, cap) \in 0 .. cap
  BY DEF Inc

LEMMA CreditType ==
  ASSUME EngineTypes, NEW c \in Callers, Credit(c), Rule[current(c)].name \in Names
  PROVE  fired' \in [Names -> 0 .. HitCap]
  <1> DEFINE n == Rule[current(c)].name
  <1>1. fired \in [Names -> 0 .. HitCap] /\ fired[n] \in 0 .. HitCap /\ HitCap \in Nat
    BY EngineAssumption DEF EngineTypes
  <1>2. Inc(fired[n], HitCap) \in 0 .. HitCap
    BY <1>1, IncType
  <1>3. fired' = fired \/ fired' = [fired EXCEPT ![n] = Inc(fired[n], HitCap)]
    BY DEF Credit
  <1> HIDE DEF n
  <1> QED BY <1>1, <1>2, <1>3

LEMMA HoldsType ==
  ASSUME NEW h \in [Callers -> BOOLEAN], NEW c \in Callers
  PROVE  /\ [h EXCEPT ![c] = TRUE] \in [Callers -> BOOLEAN]
         /\ [h EXCEPT ![c] = FALSE] \in [Callers -> BOOLEAN]
  OBVIOUS

(* Releasing a slot keeps the slot variables' types. *)
LEMMA ReleaseType ==
  ASSUME EngineTypes, NEW c \in Callers, doRelease(c)
  PROVE  slots' \in Int /\ holds' \in [Callers -> BOOLEAN]
  <1>1. slots \in Int /\ holds \in [Callers -> BOOLEAN]
    BY DEF EngineTypes
  <1>2. slots' = slots \/ slots' = slots - 1
    BY DEF doRelease
  <1>3. holds' = [holds EXCEPT ![c] = FALSE]
    BY DEF doRelease
  <1> QED BY <1>1, <1>2, <1>3

(* What a step does not mention it leaves alone. *)
LEMMA SameTypes ==
  ASSUME EngineTypes, UNCHANGED <<engineVars, ruleVars, tokens, slotVars, budgetVars, fired>>
  PROVE  EngineTypes'
  BY DEF EngineTypes, engineVars, ruleVars, slotVars, budgetVars

(* Every step of a caller keeps types and locations. *)
LEMMA CallerTypesPreserved ==
  ASSUME TInv, NEW c \in Callers, CallerStep(c) \/ \E o \in Ops : Begin(c, o)
  PROVE  TInv'
  <1> USE DEF TInv
  <1>1. frame[c] \in Frames /\ pc[c] \in Labels
    BY DEF CallerTypes
  <1>2. ASSUME NEW o \in Ops, Begin(c, o) PROVE TInv'
    BY <1>2, FreeStep, FrameTypes, SameTypes DEF Begin, Labels, AtRule
  <1>3. CASE AdapterLen(c)
    BY <1>1, <1>3, FreeStep, ReturnLocated, SameTypes DEF AdapterLen, Labels, AtRule
  <1>4. CASE EvalFlag(c)
    BY <1>1, <1>4, FreeStep, ReturnLocated, SameTypes DEF EvalFlag, Labels, AtRule
  <1>5. CASE EvalLen(c)
    BY <1>1, <1>5, FreeStep, ReturnLocated, SameTypes DEF EvalLen, Labels, AtRule
  <1>6. CASE ConsultKillSwitch(c)
    BY <1>1, <1>6, FreeStep, PassTypes, SameTypes DEF ConsultKillSwitch, Labels, AtRule
  <1>7. CASE LoadRules(c)
    <2>1. EngineTypes' /\ rules \in Seq(Rules)
      BY <1>7, SameTypes DEF LoadRules, EngineTypes
    <2> DEFINE f == [frame[c] EXCEPT !.snap = rules, !.at = 1]
    <2>2. f \in Frames /\ f.at = 1
      BY <1>1, <2>1, FrameTypes DEF Frames
    <2>3. /\ CallerTypes' /\ pc'[c] = "rule" /\ frame'[c] = f
          /\ \A d \in Callers \ {c} : pc'[d] = pc[d] /\ frame'[d] = frame[d]
      BY <1>7, <2>2 DEF LoadRules, CallerTypes, Labels
    <2> HIDE DEF f
    <2> QED BY <2>1, <2>2, <2>3, LocatedStep DEF AtRule
  <1>8. CASE MatchRule(c)
    <2>1. EngineTypes'
      <3>1. stuck' = stuck \/ stuck' = [stuck EXCEPT ![current(c)] = @ \ {Attr[frame[c].op]}]
        BY <1>8 DEF MatchRule
      <3>2. stuck' \in [Rules -> SUBSET {Attr[o] : o \in Ops}]
        BY <3>1 DEF EngineTypes
      <3> QED BY <1>8, <3>2 DEF MatchRule, EngineTypes, engineVars, slotVars, budgetVars
    <2>2. frame[c].at >= 1 /\ pc[c] = "rule"
      BY <1>8 DEF MatchRule, Located
    <2>3. CASE passOrTrack(c)
      BY <2>1, <2>3, PassTypes
    <2>4. CASE nextRule(c)
      BY <2>1, <2>2, <2>4, NextRuleTypes
    <2>5. CASE /\ frame[c].at <= Len(frame[c].snap)
               /\ Step(c, AfterFire(current(c)), [frame[c] EXCEPT !.todo = Rule[current(c)].faults])
      <3>1. current(c) \in Rules
        BY <1>1, <2>2, <2>5 DEF Frames, current
      <3>2. [frame[c] EXCEPT !.todo = Rule[current(c)].faults] \in Frames
        BY <1>1, <3>1, FrameTypes, EngineAssumption
      <3> QED BY <1>1, <2>1, <2>2, <2>5, <3>2, GateStep DEF GateLabels, Frames
    <2>6. CASE frame[c].at <= Len(frame[c].snap) /\ Step(c, "count", frame[c])
      BY <1>1, <2>1, <2>2, <2>6, GateStep
    <2> QED BY <1>8, <2>3, <2>4, <2>5, <2>6 DEF MatchRule
  <1>9. CASE Count(c)
    <2>1. pc[c] = "count" /\ pc[c] \in AtRule
      BY <1>9 DEF Count, AtRule
    <2> DEFINE r == current(c)
               n == cur[r] + 1
    <2>2. r \in Rules /\ frame[c].at >= 1 /\ frame[c].at <= Len(frame[c].snap)
      BY <2>1, CurrentRule
    <2>3. cur' = cur \/ cur' = [cur EXCEPT ![r] = Inc(@, CountCap)]
      BY <1>9 DEF Count
    <2>4. EngineTypes'
      <3>1. cur' \in [Rules -> 0 .. CountCap]
        <4>1. cur \in [Rules -> 0 .. CountCap] /\ Inc(cur[r], CountCap) \in 0 .. CountCap
          BY <2>2, IncType, EngineAssumption DEF EngineTypes
        <4> HIDE DEF r, n
        <4> QED BY <2>3, <4>1
      <3> QED BY <1>9, <3>1 DEF Count, EngineTypes, engineVars, slotVars, budgetVars
    <2>5. PICK fire \in shouldFire(Rule[r].counter, n) :
            IF ~fire THEN nextRule(c)
            ELSE Step(c, IF Rule[r].sticky /\ Rule[r].counter.kind # "staged"
                         THEN "mark" ELSE AfterFire(r),
                      [frame[c] EXCEPT !.todo = FaultsAt(Rule[r].counter, Rule[r].faults, n)])
      BY <1>9 DEF Count
    <2>6. fire \in BOOLEAN
      BY <2>5 DEF shouldFire
    <2> HIDE DEF n, r
    <2>7. CASE fire = FALSE
      BY <2>1, <2>4, <2>5, <2>7, NextRuleTypes
    <2>8. CASE fire = TRUE
      <3> DEFINE f == [frame[c] EXCEPT !.todo = FaultsAt(Rule[r].counter, Rule[r].faults, n)]
                 l == IF Rule[r].sticky /\ Rule[r].counter.kind # "staged"
                      THEN "mark" ELSE AfterFire(r)
      <3>1. FaultsAt(Rule[r].counter, Rule[r].faults, n) \in Seq(FaultKinds)
        BY <2>2, <2>5, <2>8, FaultsAtType
      <3>2. f \in Frames /\ f.at = frame[c].at /\ f.snap = frame[c].snap
        BY <1>1, <3>1, FrameTypes DEF Frames
      <3>3. l \in GateLabels(current(c)) \cup {"count", "mark"}
        BY DEF GateLabels, r
      <3>4. Step(c, l, f)
        BY <2>5, <2>8
      <3> HIDE DEF f, l
      <3> QED BY <2>2, <2>4, <3>2, <3>3, <3>4, GateStep
    <2> QED BY <2>6, <2>7, <2>8
  <1>10. CASE Mark(c)
    <2>1. pc[c] \in AtRule
      BY <1>10 DEF Mark, AtRule
    <2>2. current(c) \in Rules /\ frame[c].at >= 1 /\ frame[c].at <= Len(frame[c].snap)
      BY <2>1, CurrentRule
    <2>3. EngineTypes'
      <3>1. Attr[frame[c].op] \in {Attr[o] : o \in Ops}
        BY <1>1 DEF Frames
      <3>2. stuck' \in [Rules -> SUBSET {Attr[o] : o \in Ops}]
        <4> DEFINE r == current(c)
                   v == Attr[frame[c].op]
                   V == {Attr[o] : o \in Ops}
        <4>1. stuck \in [Rules -> SUBSET V] /\ v \in V /\ r \in Rules
          BY <2>2, <3>1 DEF EngineTypes
        <4>2. \/ stuck' = stuck
              \/ stuck' = [stuck EXCEPT ![r] = @ \cup {v}]
              \/ \E old \in stuck[r] : stuck' = [stuck EXCEPT ![r] = (@ \ {old}) \cup {v}]
          BY <1>10 DEF Mark
        <4> HIDE DEF r, v, V
        <4>3. stuck' \in [Rules -> SUBSET V]
          BY <4>1, <4>2
        <4> QED BY <4>3 DEF V
      <3> QED BY <1>10, <3>2 DEF Mark, EngineTypes, engineVars, slotVars, budgetVars
    <2> QED BY <1>1, <1>10, <2>2, <2>3, GateStep DEF Mark, GateLabels
  <1>11. CASE RuleLimit(c)
    <2>1. pc[c] \in AtRule
      BY <1>11 DEF RuleLimit, AtRule
    <2>2. current(c) \in Rules /\ frame[c].at >= 1 /\ frame[c].at <= Len(frame[c].snap)
      BY <2>1, CurrentRule
    <2>3. EngineTypes'
      <3>1. ruleTokens' \in [Rules -> 0 .. RuleRps]
        <4>1. ruleTokens \in [Rules -> 0 .. RuleRps] /\ RuleRps \in Nat
          BY EngineAssumption DEF EngineTypes
        <4>2. \/ ruleTokens' = ruleTokens
              \/ ruleTokens[current(c)] > 0 /\ ruleTokens' = [ruleTokens EXCEPT ![current(c)] = @ - 1]
          BY <1>11 DEF RuleLimit
        <4>3. ruleTokens[current(c)] > 0 => ruleTokens[current(c)] - 1 \in 0 .. RuleRps
          BY <2>2, <4>1
        <4> QED BY <4>1, <4>2, <4>3
      <3> QED BY <1>11, <3>1 DEF RuleLimit, EngineTypes, engineVars, slotVars, budgetVars
    <2> QED BY <1>1, <1>11, <2>1, <2>2, <2>3, GateStep, NextRuleTypes DEF RuleLimit, GateLabels
  <1>12. CASE BudgetGate(c)
    <2>1. pc[c] \in AtRule
      BY <1>12 DEF BudgetGate, AtRule
    <2>2. current(c) \in Rules /\ frame[c].at >= 1 /\ frame[c].at <= Len(frame[c].snap)
      BY <2>1, CurrentRule
    <2> QED BY <1>1, <1>12, <2>2, GateStep, PassTypes, SameTypes DEF BudgetGate, GateLabels
  <1>13. CASE RateGate(c)
    <2>1. pc[c] \in AtRule
      BY <1>13 DEF RateGate, AtRule
    <2>2. current(c) \in Rules /\ frame[c].at >= 1 /\ frame[c].at <= Len(frame[c].snap)
      BY <2>1, CurrentRule
    <2>3. EngineTypes'
      BY <1>13, EngineAssumption DEF RateGate, EngineTypes, engineVars, ruleVars, slotVars, budgetVars
    <2> QED BY <1>1, <1>13, <2>2, <2>3, GateStep, PassTypes DEF RateGate, GateLabels
  <1>14. CASE AcquireSlot(c)
    <2>1. pc[c] \in AtRule
      BY <1>14 DEF AcquireSlot, AtRule
    <2>2. current(c) \in Rules /\ frame[c].at >= 1 /\ frame[c].at <= Len(frame[c].snap)
      BY <2>1, CurrentRule
    <2>3. EngineTypes'
      <3>1. slots \in Int /\ holds \in [Callers -> BOOLEAN]
        BY DEF EngineTypes
      <3>2. \/ slots' = slots + 1 /\ holds' = [holds EXCEPT ![c] = TRUE]
            \/ slots' = slots /\ holds' = holds
        BY <1>14 DEF AcquireSlot
      <3>3. slots' \in Int /\ holds' \in [Callers -> BOOLEAN]
        <4>1. holds' \in [Callers -> BOOLEAN]
          BY <3>1, <3>2, HoldsType, Zenon
        <4> QED BY <3>1, <3>2, <4>1
      <3> QED BY <1>14, <3>3 DEF AcquireSlot, EngineTypes, engineVars, ruleVars, budgetVars
    <2> QED BY <1>1, <1>14, <2>2, <2>3, GateStep, PassTypes DEF AcquireSlot, GateLabels
  <1>15. CASE RecordHit(c)
    <2>1. pc[c] \in AtRule /\ pc[c] = "hit"
      BY <1>15 DEF RecordHit, AtRule
    <2>2. Rule[current(c)].name \in Names /\ frame[c].at >= 1 /\ frame[c].at <= Len(frame[c].snap)
      BY <2>1, CurrentRule
    <2>3. EngineTypes'
      <3>1. fired' \in [Names -> 0 .. HitCap]
        BY <1>15, <2>1, <2>2, CurrentRule, CreditType DEF RecordHit, EngineTypes
      <3> QED BY <1>15, <3>1 DEF RecordHit, EngineTypes, engineVars, ruleVars, slotVars, budgetVars
    <2>4. CallerTypes'
      BY <1>15 DEF RecordHit, CallerTypes, Labels
    <2>5. /\ frame' = frame /\ \A d \in Callers \ {c} : pc'[d] = pc[d]
          /\ pc'[c] \in {"add", "before"}
      BY <1>15 DEF RecordHit, CallerTypes
    <2>6. Located'
      BY <2>2, <2>5, EngineAssumption, LocatedStep DEF AtRule, current
    <2> QED BY <2>3, <2>4, <2>6
  <1>16. CASE AddHit(c)
    <2>1. pc[c] \in AtRule /\ pc[c] = "add"
      BY <1>16 DEF AddHit, AtRule
    <2>2. Rule[current(c)].name \in Names
      BY <2>1, CurrentRule
    <2>3. EngineTypes'
      <3>1. fired' \in [Names -> 0 .. HitCap]
        BY <1>16, <2>2, CreditType DEF AddHit
      <3>2. DOMAIN hits' \subseteq Names /\ hits' \in [DOMAIN hits' -> 0 .. HitCap]
        <4> DEFINE n == Rule[current(c)].name
        <4>1. DOMAIN hits \subseteq Names /\ hits \in [DOMAIN hits -> 0 .. HitCap]
          BY DEF EngineTypes
        <4>2. hits' = hits \/ hits' = [hits EXCEPT ![n] = Inc(hits[n], HitCap)]
          BY <1>16 DEF AddHit
        <4>3. n \in DOMAIN hits => Inc(hits[n], HitCap) \in 0 .. HitCap
          BY <4>1, IncType, EngineAssumption
        <4> HIDE DEF n
        <4> QED BY <4>1, <4>2, <4>3
      <3> QED BY <1>16, <3>1, <3>2 DEF AddHit, EngineTypes, ruleVars, slotVars, budgetVars
    <2>4. CallerTypes'
      BY <1>16 DEF AddHit, CallerTypes, Labels
    <2>5. frame' = frame /\ (\A d \in Callers \ {c} : pc'[d] = pc[d]) /\ pc'[c] = "before"
      BY <1>16 DEF AddHit, CallerTypes
    <2> QED BY <2>3, <2>4, <2>5, LocatedStep DEF AtRule
  <1>17. CASE ApplyFault(c)
    <2>1. EngineTypes'
      <3>1. doRelease(c) \/ (slots' = slots /\ holds' = holds)
        BY <1>17 DEF ApplyFault
      <3>2. slots' \in Int /\ holds' \in [Callers -> BOOLEAN]
        BY <3>1, ReleaseType DEF EngineTypes
      <3> QED BY <1>17, <3>2 DEF ApplyFault, EngineTypes, engineVars, ruleVars, budgetVars
    <2>2. frame[c].todo # << >>
      BY <1>17 DEF ApplyFault
    <2>3. AfterCall \in Labels \ (AtRule \cup {"rule"}) /\ "before" \in Labels \ (AtRule \cup {"rule"})
      BY DEF AfterCall, Labels, AtRule
    <2> QED BY <1>1, <1>17, <2>1, <2>2, <2>3, FreeStep, ReturnLocated, FrameTypes DEF ApplyFault
  <1>18. CASE BeforeDone(c)
    BY <1>18, FreeStep, FrameTypes, SameTypes DEF BeforeDone, Labels, AtRule
  <1>19. CASE WrappedCall(c)
    <2>1. EngineTypes'
      <3>1. /\ slots' = slots
            /\ holds' = holds \/ holds' = [holds EXCEPT ![c] = FALSE]
            /\ leaked' = leaked \/ leaked' = leaked + One(holds[c])
        BY <1>19 DEF WrappedCall, slotVars
      <3>2. slots' \in Int /\ holds' \in [Callers -> BOOLEAN] /\ leaked' \in Nat
        <4>1. holds' \in [Callers -> BOOLEAN]
          BY <3>1, HoldsType, Zenon DEF EngineTypes
        <4>2. slots' \in Int
          BY <3>1 DEF EngineTypes
        <4>3. leaked' \in Nat
          BY <3>1 DEF EngineTypes, One
        <4> QED BY <4>1, <4>2, <4>3
      <3> QED BY <1>19, <3>2 DEF WrappedCall, EngineTypes, engineVars, ruleVars, budgetVars
    <2>2. AfterCall \in Labels \ (AtRule \cup {"rule"})
      BY DEF AfterCall, Labels, AtRule
    <2> QED BY <1>1, <1>19, <2>1, <2>2, FreeStep, ReturnLocated, FrameTypes DEF WrappedCall
  <1>20. CASE Outcome(c)
    <2>1. budget' \in Budget
      BY <1>20, RecordType DEF Outcome, EngineTypes
    <2>2. EngineTypes'
      BY <1>20, <2>1 DEF Outcome, EngineTypes, engineVars, ruleVars, slotVars
    <2> QED BY <1>1, <1>20, <2>2, FreeStep DEF Outcome, Labels, AtRule
  <1>21. CASE After(c)
    <2>1. EngineTypes'
      BY <1>21, ReleaseType DEF After, EngineTypes, engineVars, ruleVars, budgetVars
    <2> QED BY <1>21, <2>1, ReturnLocated DEF After
  <1> QED BY <1>2, <1>3, <1>4, <1>5, <1>6, <1>7, <1>8, <1>9, <1>10, <1>11, <1>12, <1>13, <1>14,
             <1>15, <1>16, <1>17, <1>18, <1>19, <1>20, <1>21 DEF CallerStep

(* Names of a rule list are names. *)
LEMMA NamesOfType ==
  ASSUME NEW list \in Seq(Rules)
  PROVE  NamesOf(list) \subseteq Names
  <1>1. \A i \in DOMAIN list : list[i] \in Rules
    OBVIOUS
  <1>2. \A i \in DOMAIN list : Rule[list[i]].name \in Names \cup {NoName}
    BY <1>1, EngineAssumption
  <1> QED BY <1>2 DEF NamesOf

(* No administration step touches a caller's location. *)
LEMMA AdminTypesPreserved ==
  ASSUME TInv, Admin
  PROVE  TInv'
  <1> USE DEF TInv
  <1>1. CASE Disable \/ Enable
    <2>1. disabled' \in BOOLEAN
      BY <1>1 DEF Disable, Enable
    <2> QED BY <1>1, <2>1 DEF Disable, Enable, CallerTypes, EngineTypes, Located, current,
                              ruleVars, slotVars, budgetVars
  <1>2. ASSUME NEW list \in Seq(Rules), Store(list) PROVE TInv'
    <2>1. edit' \in [kind : {"none", "add", "swap"}, names : SUBSET Names]
      BY <1>2, NamesOfType DEF Store
    <2>2. EngineTypes'
      BY <1>2, <2>1, EngineAssumption DEF Store, EngineTypes, ruleVars, slotVars, budgetVars
    <2> QED BY <1>2, <2>2 DEF Store, CallerTypes, Located, current
  <1>3. CASE Reset
    <2>1. << >> \in Seq(Rules)
      OBVIOUS
    <2> QED BY <1>2, <1>3, <2>1 DEF Reset
  <1>4. ASSUME NEW list \in RuleLists, ReplaceRules(list) PROVE TInv'
    BY <1>2, <1>4, EngineAssumption DEF ReplaceRules
  <1>5. ASSUME NEW r \in Rules, AddRule(r) PROVE TInv'
    <2>1. rules' \in Seq(Rules) /\ <<r>> \in Seq(Rules)
      BY <1>5 DEF AddRule, EngineTypes
    <2>2. edit' \in [kind : {"none", "add", "swap"}, names : SUBSET Names]
      BY <1>5, <2>1, NamesOfType DEF AddRule
    <2>3. EngineTypes'
      BY <1>5, <2>1, <2>2 DEF AddRule, EngineTypes, ruleVars, slotVars, budgetVars
    <2> QED BY <1>5, <2>3 DEF AddRule, CallerTypes, Located, current
  <1>6. CASE FinishEdit
    <2>1. edit' \in [kind : {"none", "add", "swap"}, names : SUBSET Names]
      BY <1>6 DEF FinishEdit, NoEdit
    <2>2. edit.names \subseteq Names /\ HitCap \in Nat
      BY EngineAssumption DEF EngineTypes
    <2>3. DOMAIN hits' \subseteq Names /\ hits' \in [DOMAIN hits' -> 0 .. HitCap]
      <3>1. DOMAIN hits \subseteq Names /\ hits \in [DOMAIN hits -> 0 .. HitCap]
        BY DEF EngineTypes
      <3>2. \/ hits' = [n \in DOMAIN hits \cup edit.names |-> IF n \in DOMAIN hits THEN hits[n] ELSE 0]
            \/ hits' = [n \in edit.names |-> 0]
        BY <1>6 DEF FinishEdit
      <3>3. CASE hits' = [n \in DOMAIN hits \cup edit.names |-> IF n \in DOMAIN hits THEN hits[n] ELSE 0]
        <4>1. DOMAIN hits' = DOMAIN hits \cup edit.names
          BY <3>3
        <4> QED BY <2>2, <3>1, <3>3, <4>1
      <3>4. CASE hits' = [n \in edit.names |-> 0]
        BY <2>2, <3>4
      <3> QED BY <3>2, <3>3, <3>4
    <2>4. cell' \in [Callers -> {"nil", "live", "orphan"}]
      BY <1>6 DEF FinishEdit, CallerTypes
    <2>5. EngineTypes'
      BY <1>6, <2>1, <2>3 DEF FinishEdit, EngineTypes, ruleVars, slotVars, budgetVars
    <2> QED BY <1>6, <2>4, <2>5 DEF FinishEdit, CallerTypes, Located, current
  <1>7. CASE Refill
    <2>1. tokens' \in 0 .. Rps
      BY <1>7, EngineAssumption DEF Refill, EngineTypes
    <2>2. ruleTokens' \in [Rules -> 0 .. RuleRps]
      <3>1. ruleTokens \in [Rules -> 0 .. RuleRps] /\ RuleRps \in Nat
        BY EngineAssumption DEF EngineTypes
      <3>2. \/ ruleTokens' = ruleTokens
            \/ \E r \in Rules : /\ ruleTokens[r] < RuleRps
                                /\ ruleTokens' = [ruleTokens EXCEPT ![r] = @ + 1]
        BY <1>7 DEF Refill
      <3> QED BY <3>1, <3>2
    <2>3. EngineTypes'
      BY <1>7, <2>1, <2>2 DEF Refill, EngineTypes, engineVars, slotVars, budgetVars
    <2> QED BY <1>7, <2>3 DEF Refill, CallerTypes, Located, current
  <1> QED BY <1>1, <1>3, <1>4, <1>5, <1>6, <1>7 DEF Admin

LEMMA TypesInit == Init => TInv
  <1> SUFFICES ASSUME Init PROVE TInv
    OBVIOUS
  <1>1. rules \in Seq(Rules)
    BY EngineAssumption DEF Init
  <1>2. NamesOf(rules) \subseteq Names
    BY <1>1, NamesOfType
  <1>3. DOMAIN hits \subseteq Names /\ hits \in [DOMAIN hits -> 0 .. HitCap]
    BY <1>2, EngineAssumption DEF Init
  <1>4. newFailureBudget \in Budget
    BY BudgetAssumption DEF newFailureBudget, Budget, Slots
  <1>5. CallerTypes
    <2>1. NoFrame \in Frames /\ "idle" \in Labels
      BY FrameTypes DEF Labels
    <2> QED BY <2>1 DEF Init, CallerTypes
  <1>6. EngineTypes
    <2>1. edit \in [kind : {"none", "add", "swap"}, names : SUBSET Names] /\ disabled \in BOOLEAN
      BY DEF Init, NoEdit
    <2>2. /\ cur \in [Rules -> 0 .. CountCap] /\ ruleTokens \in [Rules -> 0 .. RuleRps]
          /\ tokens \in 0 .. Rps /\ fired \in [Names -> 0 .. HitCap]
          /\ slots \in Int /\ leaked \in Nat
      BY EngineAssumption DEF Init
    <2>3. /\ stuck \in [Rules -> SUBSET {Attr[o] : o \in Ops}]
          /\ holds \in [Callers -> BOOLEAN] /\ settled \in BOOLEAN
      BY DEF Init
    <2>4. budget \in Budget
      BY <1>4 DEF Init
    <2> QED BY <1>1, <1>3, <2>1, <2>2, <2>3, <2>4 DEF EngineTypes
  <1>7. Located
    BY DEF Init, Located, AtRule
  <1> QED BY <1>5, <1>6, <1>7 DEF TInv

LEMMA TypesInvariant == Spec => []TInv
  <1>1. TInv /\ [Next]_vars => TInv'
    <2> SUFFICES ASSUME TInv, [Next]_vars PROVE TInv'
      OBVIOUS
    <2>1. CASE Admin
      BY <2>1, AdminTypesPreserved
    <2>2. ASSUME NEW c \in Callers, CallerStep(c) \/ \E o \in Ops : Begin(c, o)
          PROVE  TInv'
      BY <2>2, CallerTypesPreserved
    <2>3. CASE UNCHANGED vars
      BY <2>3 DEF vars, TInv, CallerTypes, EngineTypes, Located, current
    <2> QED BY <2>1, <2>2, <2>3 DEF Next
  <1> QED BY <1>1, TypesInit, PTL DEF Spec

(* Every variable of the engine keeps its type, and evalRule, recordHit    *)
(* and addHit index the rule set the evaluation loaded inside its bounds,  *)
(* whatever Store, AddRule and RemoveRule publish meanwhile; a hit is only *)
(* recorded for a rule that has a name. For any callers, rules and rails.  *)
THEOREM EngineTyped == Spec => [](TypeOK /\ Located)
  <1>1. TInv => TypeOK /\ Located
    BY TypesSplit DEF TInv
  <1> QED BY <1>1, TypesInvariant, PTL

-----------------------------------------------------------------------------
(* Slots of WithMaxConcurrent. *)

HoldLabels == {"hit", "add", "before", "call", "outcome", "after"}

(* A caller at label l, whose action is act, holds a slot (h) only from    *)
(* acquireSlot to the end of its call, and does so while it is faulted.    *)
Holding(l, act, h) ==
  /\ h => l \in HoldLabels
  /\ MaxConcurrent > 0 /\ (l \in {"hit", "add", "before"} \/ (l = "call" /\ act = "fire")) => h

HolderInv == \A c \in Callers : Holding(pc[c], frame[c].act, holds[c])

(* The inductive invariant of the semaphore. *)
SlotInv == HolderInv /\ SlotAccounting /\ slots <= MaxConcurrent

(* What a step may do to the semaphore: nothing, take a slot below the     *)
(* cap, give one back, or lose one to a panic.                             *)
Takes(c) ==
  /\ ~holds[c] /\ slots < MaxConcurrent
  /\ slots' = slots + 1 /\ holds' = [holds EXCEPT ![c] = TRUE] /\ UNCHANGED leaked

Gives(c) == doRelease(c) /\ UNCHANGED leaked

Loses(c) ==
  /\ holds' = [holds EXCEPT ![c] = FALSE] /\ leaked' = leaked + One(holds[c]) /\ UNCHANGED slots

SlotMove(c) == UNCHANGED slotVars \/ Takes(c) \/ Gives(c) \/ Loses(c)

(* The callers other than c stay where they are. *)
OthersStay(c) == \A d \in Callers \ {c} : pc'[d] = pc[d] /\ frame'[d] = frame[d]

HoldingNow(c) == Holding(pc'[c], frame'[c].act, holds'[c])

LEMMA GateHolding ==
  ASSUME NEW r, NEW a
  PROVE  /\ Holding(AfterRate(r), a, FALSE) /\ Holding(AfterBudget(r), a, FALSE)
         /\ Holding(AfterLimit(r), a, FALSE) /\ Holding(AfterFire(r), a, FALSE)
         /\ Holding(AfterSlot(r), a, TRUE)
  <1>1. MaxConcurrent \in Nat
    BY EngineAssumption
  <1>2. CASE MaxConcurrent = 0
    BY <1>2 DEF Holding, AfterSlot, HoldLabels
  <1>3. CASE MaxConcurrent > 0
    BY <1>3 DEF Holding, AfterFire, AfterLimit, AfterBudget, AfterRate, AfterSlot, HoldLabels
  <1>4. MaxConcurrent = 0 \/ MaxConcurrent > 0
    BY <1>1
  <1> QED BY <1>2, <1>3, <1>4, Zenon

LEMMA PassHolding ==
  ASSUME TInv, NEW c \in Callers, passOrTrack(c)
  PROVE  OthersStay(c) /\ \A h : ~h => Holding(pc'[c], frame'[c].act, h)
  <1>1. CASE HasBudget
    <2>1. Step(c, "call", [NoFrame EXCEPT !.act = "track"])
      BY <1>1 DEF passOrTrack
    <2>2. /\ pc'[c] = "call" /\ frame'[c] = [NoFrame EXCEPT !.act = "track"] /\ OthersStay(c)
      BY <2>1, StepTypes, FrameTypes DEF TInv, Labels, OthersStay
    <2>3. frame'[c].act = "track"
      BY <2>2 DEF NoFrame
    <2> QED BY <2>2, <2>3 DEF Holding
  <1>2. CASE ~HasBudget
    <2>1. pc'[c] = "idle" /\ OthersStay(c)
      BY <1>2, ReturnTypes DEF passOrTrack, TInv, OthersStay
    <2> QED BY <2>1 DEF Holding
  <1> QED BY <1>1, <1>2

LEMMA ReturnHolding ==
  ASSUME TInv, NEW c \in Callers, Return(c)
  PROVE  OthersStay(c) /\ \A h : ~h => Holding(pc'[c], frame'[c].act, h)
  <1>1. pc'[c] = "idle" /\ OthersStay(c)
    BY ReturnTypes DEF TInv, OthersStay
  <1> QED BY <1>1 DEF Holding

LEMMA StepHolding ==
  ASSUME TInv, NEW c \in Callers, NEW l, NEW f, Step(c, l, f)
  PROVE  pc'[c] = l /\ frame'[c] = f /\ OthersStay(c)
  BY DEF Step, TInv, CallerTypes, OthersStay

(* A step of the loop over the rules: a label outside HoldLabels. *)
LEMMA LoopHolding ==
  ASSUME NEW l \in Labels \ HoldLabels, NEW a
  PROVE  Holding(l, a, FALSE)
  BY DEF Holding, HoldLabels

(* Each step of a caller: its effect on the semaphore and on its holding.  *)
LEMMA CallerSlots ==
  ASSUME TInv, HolderInv, NEW c \in Callers, CallerStep(c) \/ \E o \in Ops : Begin(c, o)
  PROVE  SlotMove(c) /\ OthersStay(c) /\ HoldingNow(c)
  <1>1. Holding(pc[c], frame[c].act, holds[c]) /\ holds[c] \in BOOLEAN
    BY DEF HolderInv, TInv, EngineTypes
  <1>2. pc[c] \notin HoldLabels => holds[c] = FALSE
    BY <1>1 DEF Holding
  <1>3. ASSUME UNCHANGED slotVars, pc[c] \notin HoldLabels
        PROVE  SlotMove(c) /\ holds'[c] = FALSE
    BY <1>2, <1>3 DEF SlotMove, slotVars
  <1>4. ASSUME NEW l \in Labels \ HoldLabels, NEW f, Step(c, l, f),
               UNCHANGED slotVars, pc[c] \notin HoldLabels
        PROVE  SlotMove(c) /\ OthersStay(c) /\ HoldingNow(c)
    BY <1>3, <1>4, StepHolding, LoopHolding DEF HoldingNow
  <1>5. ASSUME Return(c) \/ passOrTrack(c), UNCHANGED slotVars, pc[c] \notin HoldLabels
        PROVE  SlotMove(c) /\ OthersStay(c) /\ HoldingNow(c)
    BY <1>3, <1>5, ReturnHolding, PassHolding DEF HoldingNow
  <1>6. ASSUME NEW l, NEW f, Step(c, l, f), \A a : Holding(l, a, FALSE),
               UNCHANGED slotVars, pc[c] \notin HoldLabels
        PROVE  SlotMove(c) /\ OthersStay(c) /\ HoldingNow(c)
    BY <1>3, <1>6, StepHolding DEF HoldingNow
  <1>7. ASSUME NEW o \in Ops, Begin(c, o)
        PROVE  SlotMove(c) /\ OthersStay(c) /\ HoldingNow(c)
    BY <1>4, <1>7 DEF Begin, Labels, HoldLabels
  <1>8. CASE AdapterLen(c)
    BY <1>4, <1>5, <1>8 DEF AdapterLen, Labels, HoldLabels
  <1>9. CASE EvalFlag(c)
    BY <1>4, <1>5, <1>9 DEF EvalFlag, Labels, HoldLabels
  <1>10. CASE EvalLen(c)
    BY <1>4, <1>5, <1>10 DEF EvalLen, Labels, HoldLabels
  <1>11. CASE ConsultKillSwitch(c)
    BY <1>4, <1>5, <1>11 DEF ConsultKillSwitch, Labels, HoldLabels
  <1>12. CASE LoadRules(c)
    <2>1. pc'[c] = "rule" /\ OthersStay(c)
      BY <1>12 DEF LoadRules, OthersStay, TInv, CallerTypes
    <2>2. SlotMove(c) /\ holds'[c] = FALSE
      BY <1>3, <1>12 DEF LoadRules, HoldLabels
    <2> QED BY <2>1, <2>2, LoopHolding DEF HoldingNow, Labels, HoldLabels
  <1>13. CASE MatchRule(c)
    <2>1. UNCHANGED slotVars /\ pc[c] \notin HoldLabels
      BY <1>13 DEF MatchRule, HoldLabels
    <2>2. \/ passOrTrack(c)
          \/ \E f : Step(c, "rule", f)
          \/ \E f : Step(c, AfterFire(current(c)), f)
          \/ \E f : Step(c, "count", f)
      BY <1>13 DEF MatchRule, nextRule
    <2> QED BY <1>4, <1>5, <1>6, <2>1, <2>2, GateHolding DEF Labels, HoldLabels
  <1>14. CASE Count(c)
    <2>1. UNCHANGED slotVars /\ pc[c] \notin HoldLabels
      BY <1>14 DEF Count, HoldLabels
    <2>2. \/ \E f : Step(c, "rule", f)
          \/ \E f : Step(c, "mark", f)
          \/ \E f : Step(c, AfterFire(current(c)), f)
      BY <1>14 DEF Count, nextRule
    <2> QED BY <1>4, <1>6, <2>1, <2>2, GateHolding DEF Labels, HoldLabels
  <1>15. CASE Mark(c)
    BY <1>6, <1>15, GateHolding DEF Mark, HoldLabels
  <1>16. CASE RuleLimit(c)
    <2>1. UNCHANGED slotVars /\ pc[c] \notin HoldLabels
      BY <1>16 DEF RuleLimit, HoldLabels
    <2>2. \/ \E f : Step(c, "rule", f)
          \/ \E f : Step(c, AfterLimit(current(c)), f)
      BY <1>16 DEF RuleLimit, nextRule
    <2> QED BY <1>4, <1>6, <2>1, <2>2, GateHolding DEF Labels, HoldLabels
  <1>17. CASE BudgetGate(c)
    BY <1>5, <1>6, <1>17, GateHolding DEF BudgetGate, HoldLabels
  <1>18. CASE RateGate(c)
    BY <1>5, <1>6, <1>18, GateHolding DEF RateGate, HoldLabels
  <1>19. CASE AcquireSlot(c)
    <2>1. holds[c] = FALSE /\ leaked' = leaked
      BY <1>2, <1>19 DEF AcquireSlot, HoldLabels
    <2>2. CASE slots < MaxConcurrent
      <3>1. /\ slots' = slots + 1 /\ holds' = [holds EXCEPT ![c] = TRUE]
            /\ Step(c, AfterSlot(current(c)), frame[c])
        BY <1>19, <2>2 DEF AcquireSlot
      <3>2. holds'[c] = TRUE
        BY <3>1 DEF TInv, EngineTypes
      <3>3. pc'[c] = AfterSlot(current(c)) /\ OthersStay(c)
        BY <3>1, StepHolding
      <3>4. HoldingNow(c)
        BY <3>2, <3>3, GateHolding, Zenon DEF HoldingNow
      <3>5. SlotMove(c)
        BY <2>1, <2>2, <3>1 DEF SlotMove, Takes
      <3> QED BY <3>3, <3>4, <3>5
    <2>3. CASE ~(slots < MaxConcurrent)
      <3>1. UNCHANGED slotVars /\ passOrTrack(c) /\ pc[c] \notin HoldLabels
        BY <1>19, <2>1, <2>3 DEF AcquireSlot, slotVars, HoldLabels
      <3> QED BY <1>5, <3>1
    <2> QED BY <2>2, <2>3
  <1>20. CASE RecordHit(c) \/ AddHit(c)
    <2>1. /\ UNCHANGED slotVars /\ frame' = frame /\ pc[c] \in {"hit", "add"}
          /\ pc'[c] \in {"add", "before"} /\ OthersStay(c)
      BY <1>20 DEF RecordHit, AddHit, OthersStay, TInv, CallerTypes
    <2>2. holds' = holds /\ SlotMove(c)
      BY <2>1 DEF slotVars, SlotMove
    <2> QED BY <1>1, <2>1, <2>2 DEF HoldingNow, Holding, HoldLabels
  <1>21. CASE ApplyFault(c)
    <2>1. pc[c] = "before" /\ leaked' = leaked
      BY <1>21 DEF ApplyFault
    <2>2. ASSUME NEW f, Step(c, "before", f), UNCHANGED <<slots, holds>>
          PROVE  SlotMove(c) /\ OthersStay(c) /\ HoldingNow(c)
      BY <1>1, <2>1, <2>2, StepHolding DEF SlotMove, slotVars, HoldingNow, Holding, HoldLabels
    <2>3. ASSUME doRelease(c) PROVE SlotMove(c) /\ holds'[c] = FALSE
      BY <2>1, <2>3 DEF doRelease, SlotMove, Gives, TInv, EngineTypes
    <2>4. ASSUME NEW f, Step(c, AfterCall, f), doRelease(c)
          PROVE  SlotMove(c) /\ OthersStay(c) /\ HoldingNow(c)
      <3>1. pc'[c] = AfterCall /\ OthersStay(c) /\ SlotMove(c) /\ holds'[c] = FALSE
        BY <2>3, <2>4, StepHolding
      <3>2. \A a : Holding(AfterCall, a, FALSE)
        BY DEF Holding, AfterCall
      <3> QED BY <3>1, <3>2, Zenon DEF HoldingNow
    <2>5. ASSUME Return(c), doRelease(c)
          PROVE  SlotMove(c) /\ OthersStay(c) /\ HoldingNow(c)
      BY <2>3, <2>5, ReturnHolding DEF HoldingNow
    <2> QED BY <1>21, <2>2, <2>4, <2>5 DEF ApplyFault
  <1>22. CASE BeforeDone(c)
    <2>1. pc[c] = "before" /\ holds' = holds /\ SlotMove(c) /\ pc'[c] = "call" /\ OthersStay(c)
      BY <1>22, StepHolding DEF BeforeDone, SlotMove, slotVars
    <2> QED BY <1>1, <2>1 DEF HoldingNow, Holding, HoldLabels
  <1>23. CASE WrappedCall(c)
    <2>1. pc[c] = "call"
      BY <1>23 DEF WrappedCall
    <2>2. ASSUME NEW f, Step(c, AfterCall, f), UNCHANGED slotVars
          PROVE  SlotMove(c) /\ OthersStay(c) /\ HoldingNow(c)
      BY <1>1, <2>2, StepHolding DEF SlotMove, slotVars, HoldingNow, Holding, HoldLabels, AfterCall
    <2>3. ASSUME Return(c), Loses(c)
          PROVE  SlotMove(c) /\ OthersStay(c) /\ HoldingNow(c)
      <3>1. holds'[c] = FALSE
        BY <2>3 DEF Loses, TInv, EngineTypes
      <3> QED BY <2>3, <3>1, ReturnHolding DEF HoldingNow, SlotMove
    <2> QED BY <1>23, <2>2, <2>3 DEF WrappedCall, Loses
  <1>24. CASE Outcome(c)
    <2>1. /\ pc[c] = "outcome" /\ holds' = holds /\ SlotMove(c) /\ pc'[c] = "after" /\ OthersStay(c)
      BY <1>24, StepHolding DEF Outcome, SlotMove, slotVars
    <2> QED BY <1>1, <2>1 DEF HoldingNow, Holding, HoldLabels
  <1>25. CASE After(c)
    <2>1. SlotMove(c) /\ holds'[c] = FALSE
      BY <1>25 DEF After, doRelease, SlotMove, Gives, TInv, EngineTypes
    <2> QED BY <1>25, <2>1, ReturnHolding DEF After, HoldingNow
  <1> QED BY <1>7, <1>8, <1>9, <1>10, <1>11, <1>12, <1>13, <1>14, <1>15, <1>16, <1>17, <1>18,
             <1>19, <1>20, <1>21, <1>22, <1>23, <1>24, <1>25 DEF CallerStep

LEMMA HoldersFinite ==
  ASSUME NEW h
  PROVE  /\ IsFiniteSet({c \in Callers : h[c]})
         /\ Cardinality({c \in Callers : h[c]}) \in Nat
  BY EngineAssumption, FS_Subset, FS_CardinalityType

(* How the holders and their number change with one caller's entry. *)
LEMMA HoldersUpdate ==
  ASSUME holds \in [Callers -> BOOLEAN], NEW c \in Callers
  PROVE  /\ holds' = [holds EXCEPT ![c] = TRUE] => Holders' = Holders \cup {c}
         /\ holds' = [holds EXCEPT ![c] = FALSE] => Holders' = Holders \ {c}
         /\ ~holds[c] => Cardinality(Holders \cup {c}) = Cardinality(Holders) + 1
         /\ Cardinality(Holders \ {c}) = IF holds[c] THEN Cardinality(Holders) - 1 ELSE Cardinality(Holders)
  <1>1. IsFiniteSet(Holders)
    BY HoldersFinite DEF Holders
  <1>2. c \in Holders <=> holds[c]
    BY DEF Holders
  <1>3. /\ Cardinality(Holders \cup {c}) = IF c \in Holders THEN Cardinality(Holders) ELSE Cardinality(Holders) + 1
        /\ Cardinality(Holders \ {c}) = IF c \in Holders THEN Cardinality(Holders) - 1 ELSE Cardinality(Holders)
    BY <1>1, FS_AddElement, FS_RemoveElement
  <1>4. holds' = [holds EXCEPT ![c] = TRUE] => Holders' = Holders \cup {c}
    BY DEF Holders
  <1>5. holds' = [holds EXCEPT ![c] = FALSE] => Holders' = Holders \ {c}
    BY DEF Holders
  <1> QED BY <1>2, <1>3, <1>4, <1>5

(* A move on the semaphore keeps its accounting, and is a step of the cap. *)
LEMMA MoveKeepsAccounts ==
  ASSUME EngineTypes, SlotAccounting, slots <= MaxConcurrent, NEW c \in Callers, SlotMove(c)
  PROVE  /\ SlotAccounting' /\ slots' <= MaxConcurrent
         /\ CC!Next \/ (Holders' = Holders /\ leaked' = leaked)
  <1>1. /\ holds \in [Callers -> BOOLEAN] /\ leaked \in Nat /\ slots \in Int
        /\ Cardinality(Holders) \in Nat /\ MaxConcurrent \in Nat
    BY HoldersFinite, EngineAssumption DEF EngineTypes, Holders
  <1>2. CC!Cardinality(Holders) = Cardinality(Holders)
    BY Zenon DEF CC!Cardinality, Cardinality
  <1>3. CASE UNCHANGED slotVars
    BY <1>3 DEF slotVars, SlotAccounting, Holders
  <1>4. CASE Takes(c)
    <2>1. Holders' = Holders \cup {c} /\ Cardinality(Holders') = Cardinality(Holders) + 1
      BY <1>1, <1>4, HoldersUpdate DEF Takes
    <2>2. c \notin Holders
      BY <1>4 DEF Takes, Holders
    <2>3. CC!Enter(c)
      BY <1>1, <1>2, <1>4, <2>1, <2>2 DEF CC!Enter, Takes, SlotAccounting
    <2> QED BY <1>1, <1>4, <2>1, <2>3 DEF Takes, SlotAccounting, CC!Next
  <1>5. CASE Gives(c)
    <2>1. /\ Holders' = Holders \ {c}
          /\ Cardinality(Holders') = IF holds[c] THEN Cardinality(Holders) - 1 ELSE Cardinality(Holders)
      BY <1>1, <1>5, HoldersUpdate DEF Gives, doRelease
    <2>2. SlotAccounting' /\ slots' <= MaxConcurrent
      BY <1>1, <1>5, <2>1 DEF Gives, doRelease, SlotAccounting
    <2>3. CASE holds[c]
      BY <1>5, <2>1, <2>2, <2>3 DEF CC!Next, CC!Leave, Gives, Holders
    <2>4. CASE ~holds[c]
      BY <1>5, <2>1, <2>2, <2>4 DEF Gives, Holders
    <2> QED BY <2>3, <2>4
  <1>6. CASE Loses(c)
    <2>1. /\ Holders' = Holders \ {c}
          /\ Cardinality(Holders') = IF holds[c] THEN Cardinality(Holders) - 1 ELSE Cardinality(Holders)
      <3>1. holds' = [holds EXCEPT ![c] = FALSE]
        BY <1>6 DEF Loses
      <3> QED BY <1>1, <3>1, HoldersUpdate
    <2>2. SlotAccounting' /\ slots' <= MaxConcurrent
      BY <1>1, <1>6, <2>1 DEF Loses, One, SlotAccounting
    <2>3. CASE holds[c]
      BY <1>6, <2>1, <2>2, <2>3 DEF CC!Next, CC!Lose, Loses, One, Holders
    <2>4. CASE ~holds[c]
      <3>1. leaked' = leaked
        BY <1>1, <1>6, <2>4 DEF Loses, One
      <3>2. Holders' = Holders
        BY <2>1, <2>4 DEF Holders
      <3> QED BY <2>2, <3>1, <3>2
    <2> QED BY <2>3, <2>4
  <1> QED BY <1>3, <1>4, <1>5, <1>6 DEF SlotMove

LEMMA SlotStep ==
  ASSUME TInv, SlotInv, [Next]_vars
  PROVE  SlotInv' /\ (CC!Next \/ (Holders' = Holders /\ leaked' = leaked))
  <1>1. ASSUME UNCHANGED <<slotVars, pc, frame>>
        PROVE  SlotInv' /\ Holders' = Holders /\ leaked' = leaked
    BY <1>1 DEF SlotInv, HolderInv, SlotAccounting, Holders, slotVars
  <1>2. CASE Admin
    <2>1. UNCHANGED <<slotVars, pc, frame>>
      BY <1>2 DEF Admin, Disable, Enable, Reset, ReplaceRules, Store, FinishEdit, Refill, AddRule
    <2> QED BY <1>1, <2>1
  <1>3. CASE UNCHANGED vars
    BY <1>1, <1>3 DEF vars, slotVars
  <1>4. ASSUME NEW c \in Callers, CallerStep(c) \/ \E o \in Ops : Begin(c, o)
        PROVE  SlotInv' /\ (CC!Next \/ (Holders' = Holders /\ leaked' = leaked))
    <2>1. SlotMove(c) /\ OthersStay(c) /\ HoldingNow(c)
      BY <1>4, CallerSlots DEF SlotInv
    <2>2. /\ SlotAccounting' /\ slots' <= MaxConcurrent
          /\ CC!Next \/ (Holders' = Holders /\ leaked' = leaked)
      BY <2>1, MoveKeepsAccounts DEF SlotInv, TInv
    <2>3. \A d \in Callers \ {c} : holds'[d] = holds[d]
      BY <2>1 DEF SlotMove, slotVars, Takes, Gives, doRelease, Loses, TInv, EngineTypes
    <2>4. HolderInv'
      BY <2>1, <2>3 DEF HolderInv, SlotInv, OthersStay, HoldingNow
    <2> QED BY <2>2, <2>4 DEF SlotInv
  <1> QED BY <1>2, <1>3, <1>4 DEF Next

LEMMA SlotInit == Init => SlotInv /\ CC!Init
  <1> SUFFICES ASSUME Init PROVE SlotInv /\ CC!Init
    OBVIOUS
  <1>1. Holders = {} /\ leaked = 0 /\ slots = 0 /\ MaxConcurrent \in Nat
    BY EngineAssumption DEF Init, Holders
  <1>2. SlotAccounting /\ slots <= MaxConcurrent
    BY <1>1, FS_EmptySet DEF SlotAccounting
  <1>3. HolderInv
    BY DEF Init, HolderInv, Holding
  <1> QED BY <1>1, <1>2, <1>3 DEF SlotInv, CC!Init

LEMMA SlotInvariant == Spec => []SlotInv
  <1>1. TInv /\ SlotInv /\ [Next]_vars => SlotInv'
    BY SlotStep
  <1> QED BY <1>1, SlotInit, TypesInvariant, PTL DEF Spec

(* doRelease returns every slot once and only once: for any callers, rails *)
(* and edits the semaphore's channel holds one entry per action that still *)
(* has to release, plus one per wrapped call that panicked.                *)
THEOREM SlotsAccounted == Spec => []SlotAccounting
  <1>1. SlotInv => SlotAccounting
    BY DEF SlotInv
  <1> QED BY <1>1, SlotInvariant, PTL

(* WithMaxConcurrent(n): never more than n faulted calls in flight.        *)
THEOREM ConcurrencyCapped == Spec => []CapRespected
  <1>1. SlotInv /\ TInv => CapRespected
    <2> SUFFICES ASSUME SlotInv, TInv, MaxConcurrent > 0
                 PROVE  Cardinality({c \in Callers : Faulted(c)}) + leaked <= MaxConcurrent
      BY DEF CapRespected
    <2>1. {c \in Callers : Faulted(c)} \subseteq Holders
      BY DEF SlotInv, HolderInv, Holding, Faulted, Holders
    <2>2. IsFiniteSet(Holders) /\ Cardinality(Holders) \in Nat
      BY HoldersFinite DEF Holders
    <2>3. /\ Cardinality({c \in Callers : Faulted(c)}) <= Cardinality(Holders)
          /\ Cardinality({c \in Callers : Faulted(c)}) \in Nat
      BY <2>1, <2>2, FS_Subset, FS_CardinalityType
    <2>4. slots = Cardinality(Holders) + leaked /\ slots <= MaxConcurrent
          /\ leaked \in Nat /\ MaxConcurrent \in Nat
      BY EngineAssumption DEF SlotInv, SlotAccounting, TInv, EngineTypes
    <2> QED BY <2>2, <2>3, <2>4
  <1> QED BY <1>1, SlotInvariant, TypesInvariant, PTL

(* The engine implements the abstract cap of ConcurrencyCap: every step    *)
(* enters below the cap, leaves once, loses a place, or does neither.      *)
THEOREM EngineImplementsCap == Spec => ImplementsCap
  <1>1. TInv /\ SlotInv /\ [Next]_vars => [CC!Next]_<<Holders, leaked>>
    BY SlotStep
  <1> QED BY <1>1, SlotInit, SlotInvariant, TypesInvariant, PTL DEF Spec, ImplementsCap, CC!Spec

=============================================================================
