# A TLA+ verification of chaotic

chaotic injects faults into a running Go process: adapters around clients and
servers ask an engine what to do with each call, and rules, edited while the
process runs, decide which calls are delayed, failed or panicked. This
directory models the parts whose correctness is hard to test - the engine's
lock-free evaluation and its safety rails first - checks small instances with
TLC, and proves the most important properties with TLAPS for every instance.

## Inventory

| part | source | modelled in |
|---|---|---|
| engine: Eval, rules, rails, actions, edits | `engine/engine.go`, `op.go`, `ruleset.go` | `Engine`, `ConcurrencyCap` |
| failure budget | `engine/budget.go` | `FailureBudget`, `FailureBudgetSpec`, `SlidingWindow` |
| token bucket, per-rule limiter | `engine/ratelimit.go`, `perrule.go` | `TokenBucket` |
| semaphore | `engine/maxconcurrent.go` | `Engine` (`slots`), `ConcurrencyCap` |
| sticky tracker | `engine/sticky.go` | `Sticky` (with time), `Engine` (without) |
| fire strategies, stages | `engine/rule.go`, `staged.go` | `Counters`, `Staged` |
| time window | `engine/match_time.go` | `TimeWindow` |
| clock skew | `engine/clock.go`, `fault/clock.go` | `Clock` |
| specs, lint, description of rules | `engine/spec.go`, `lint.go`, `lintmode.go`, `introspect.go` | `Specs`, `SpecBuild` |
| the adapters and `chaos.Point` | `adapter/*`, `chaos/point.go` | `Methods`, `Adapters` |
| shaped streams | `adapter/io` | `Stream` |
| the server's status recorder | `adapter/httpsrv` | `StatusRecorder` |
| the SQL driver under database/sql | `adapter/sql` | `SqlDriver`, `SqlOptional` |
| the pgx tracer | `adapter/pgx/config.go` | `PgxTracer` |
| admin endpoint | `source/http` | `Handler`, `RuleStore` |
| file source | `source/file` | `Watch` |
| terms parser | `source/terms` | `Terms` (splitting only) |
| golden recording, property tests | `chaostest/golden`, `property` | `Golden`, `Shrink` |
| observers, env source, scenarios, test helpers, SQL classifier, command | | not modelled, see the end |

`PROJECT.json` lists every component, and the hazards of the code at their
lines: what two goroutines, an edit of the rules, a panic or a boundary can do
that a unit test hardly reaches.

## How the parts interact

A call reaches an adapter, which asks `Enabled`, then `Eval`. `Eval` asks
`Enabled` again, consults the kill switch, loads the rule set (an atomic
pointer) and walks it. A rule that matches asks its strategy (sticky value,
stage or counter), then its own limiter, then the engine's rails in the order
budget, rate, slot. A refusal by the rule's limiter moves on to the next rule,
a refusal by an engine rail ends the evaluation with a pass-through. A rule
that fires records a hit and returns an action. The adapter runs `Before` (the
faults in order), the wrapped call, `Outcome` (which feeds the budget) and
`After` (which releases the slot). `AddRule`, `Reset` and `ReplaceRules` hold
`mu` and write the rule pointer and the hits map one after the other; readers
of the pointer do not take `mu`.

Rules come from a file that is watched, from the admin endpoint, or from code;
all of them build rules from specs, ask the lint gate, and swap the engine's
set with one `ReplaceRules`. Golden recordings observe the engine and are
turned into rules again; property tests run a body against generated rules and
shrink what fails.

## Modules

**`Engine`** has one process per caller and one step per access to shared
state.

| action | code |
|---|---|
| `Begin`, `AdapterLen`, `EvalFlag`, `EvalLen` | the two loads of `Enabled`, asked by the adapter and by `Eval` |
| `ConsultKillSwitch`, `LoadRules`, `MatchRule` | `Eval` and the head of `evalRule` |
| `Count`, `Mark` | `decideFire` |
| `RuleLimit`, `BudgetGate`, `RateGate`, `AcquireSlot` | the rails of `evalRule`, in its order |
| `RecordHit`, `AddHit` | `recordHit` under `mu`, and its add after the unlock |
| `ApplyFault`, `BeforeDone` | `ruleAction.Before` with its deferred release |
| `WrappedCall`, `Outcome`, `After` | the adapter around the call |
| `Disable`, `Enable`, `AddRule`, `Reset`, `ReplaceRules`, `FinishEdit` | administration; `FinishEdit` is the second write under `mu` |
| `Refill` | time passes for the limiters |

The rule table is a constant `Rule`; a rule identity owns the state Go keeps
behind the Rule's pointers (`cur`, `stuck`, `ruleTokens`), which survives
edits, as it does in the code. Selectors are abstracted to the set of
operations a rule matches, faults to `delay`, `error`, `panic` and `mutate`.
The history variables `fresh`, `fired`, `leaked` and `settled` are read by
properties, not by guards.

**`FailureBudget`** has `record` and `overBudget` as operators on the budget's
value, used by `Engine` and by `FailureBudgetSpec`, which feeds them every
sequence of outcomes. `SlidingWindow` is the abstract specification. The code
compares a quotient with a rate; the quotient is monotone in the errors, so the
comparison is with a least number of errors, `Threshold`.

**`TokenBucket`** counts tokens in fractions of `1/Second`, so one clock tick
adds exactly `rps` fractions: the code's arithmetic without its rounding.
**`Sticky`** is the map from values to expiries with a clock. **`Counters`** has
the fire strategies as functions of the match number, and **`Staged`** feeds a
staged rule.

**`Methods`** has a record for each method the adapters wrap, about sixty of
them: the operation rules match on (its kind, its method and which attributes it
has; names and attribute values are left out), the context `Before` sleeps
against, what an injected error becomes for the caller and for the budget, which errors let the
call go on, and the order of `Outcome` and `After`. The map of `PROJECT.json`
leads from each record to its Go method. **`Adapters`** runs any of them from
any number of callers: the caller's remaining steps are the sequence `todo`, so
`Before` failing, being interrupted, panicking or letting the call through
differ in the steps that are left. Of the engine it keeps what `Engine` shows
to its callers: a fault chain and a slot.

**`Stream`** follows one wrapped reader or writer through calls of any length;
the wrapped stream is any that keeps the contract of `io`. **`StatusRecorder`**
has the recorder between a handler and net/http, whose own rules (the first
final status goes out, informational ones may precede it, a flush sends 200) are
external; it runs requests concurrently. **`SqlDriver`** puts the chaos connection between database/sql, which
retries `ErrBadConn` and turns to a prepared statement on `ErrSkip`, and a driver
that executes directly, not at all, or itself skips. **`SqlOptional`** compares,
for every set of optional interfaces of a connection and of its statements, what
database/sql makes of the bare and of the wrapped one: with contexts that are
done, transaction options and named arguments. **`PgxTracer`** has the two hooks of a query, with the
action carried in the query's context.

**`Specs`** translates `BuildRule`, the lint checks and gates, and the
description of a rule as pure operators; **`SpecBuild`** evaluates them over
pools of specs. **`Handler`** has one action per request, since writes hold
`h.mu` throughout, and two for the reads that leave it; **`RuleStore`** is what
it promises: an ordered list of named rules with three edits. **`Watch`** has a
step for each access of the file and of the watcher, beside an editor.
**`Terms`** splits token sequences as the parser splits text. **`Golden`**
records a run of the rules and replays what it recorded. **`Shrink`** takes a
body to be any set of failing generator sets, by seed. **`Clock`** has a tree of
contexts with their cells, **`TimeWindow`** a window and a clock that runs on.
The modules `MC*` hold the instances for TLC.

## What is checked

Parts that share no state are checked in one run: `MCParts`, `MCHarness` (both
put together by `MCSmall`), `MCAdapters` and `MCConfig` put small instances side
by side, and a variable (`part`, `harness`, `what`) says which of them a
behaviour runs while the others stay where they start. Where a component
states one promise in several invariants, the MC module checks their conjunction:
`TracksTheRecent` (`Bounded`, `StuckOnlyInWindow`, `RecentRemembered` of
`Sticky`), `StagesInOrder` (with `NoMatchDropped`), `RetriesAreSafe`
(`RunsAtMostOnce`, `DropsAreRetried`, `AskedOnce` of `SqlDriver`),
`ReplayReproduces` (with `AnnotatedWithOwn`), `BuiltAsSpecified` (`NeverPanics`,
`ScopeKept`, `SleepsBounded` of `SpecBuild`), `LintersAgree` (with
`GateIsPerRule`) and `Coherent` (with `ServedDocumentIsAFixpoint`).

| run | config | instance | shows |
|---|---|---|---|
| small | `Small.cfg` | limiter: 2 tokens per second of 3 ticks, 3 seconds; budget: window 6, threshold 3; tracker: 4 values, capacity 2, window 2; all lists of up to 3 stages; all windows of a day of 24 minutes; all trees of up to 5 contexts; all bodies over 3 generators and 2 seeds; a recording of 5 operations with draws, stages and rails | `RateBounded`, `DeniedOnlyRecently`; `VerdictExact`, refinement of `SlidingWindow`; `TracksTheRecent`; `StagesInOrder`; `OpensForItsLength`; `NowSeesItsScope`; `ReportIsMinimal`, `ShrinkingEnds`; `ReplayReproduces` |
| adapters | `Adapters.cfg` | every method, every fault alone and two after a sleep, cancellation, sleeps without end, panics; streams: buffers up to 4, supply 6, limits 0, 2, 3; status: 2 requests of 3 calls, early hints and flushes included; SQL: 2 clients, transactions, 4 drops, 3 kinds of driver, all sets of optional interfaces; pgx: 3 queries, 2 slots | `SettledOnce`, `BudgetHears`, `DropIsFatal`, `HeldThroughCall`, `CancelledReturns`; `CutOff`, `ShortIsTold`; `FailuresAreResponses`; `RetriesAreSafe`; `WrapperIsTransparent`; `FinishedOnce` |
| config | `Config.cfg` | 8064 specs, each beside one of four others; every rule set of a pool after the grammar; good, nameless, duplicate, broken and hazardous documents and terms; a reader beside writes and fires | `BuiltAsSpecified`, `LintersAgree`; `ReadAsWritten`; `Coherent`, `RefusedChangesNothing`, refinement of `RuleStore`, `CountsAreOfTheName` |
| watch | `Watch.cfg` | 3 saves, lost events, documents that load or not, cancellation | `RulesOfOneText`, `SavedIsLoaded`, `CancelStops` |
| rails | `EngineRails.cfg` | 2 callers, all rails, a sticky and limited rule, kill switch | `OvershootBounded` |
| table | `EngineTable.cfg` | 2 callers, 2 slots, edits by add, reset and replace, panics in faults and calls | `HitsNotLost`, `TimesCapped`, `SlotAccounting`, refinement of `ConcurrencyCap` |
| live | `EngineLive.cfg` | 2 callers, 1 slot, a staged rule that delays and fails, edits, fairness | `CallsReturn`, `DisableDrains` |

Five runs are expected to fail. Each records a disagreement between the code and
its documentation or a test, which `PROJECT.json` quotes.

- `times_reset`: `Reset` does not clear the counter of a `Times` rule, which
  the rule's documentation says it does.
- `watch_gap`: a save between the first load and the registration of the watcher
  is not noticed until the file changes again.
- `full_day`: a window of 00:00-23:59 does not match at 23:59, as the half-open
  interval in the comment of `MatchTimeWindow` has it; its test expects any time
  of day to match, and fails when it is run in that minute.
- `short_circuit`: the adapters report the error of a `Before` that
  short-circuited the call, so that injected faults count toward the budget;
  `engine/op.go` says that `Outcome` is not invoked then. `SettledOnce` and
  `BudgetHears` are about what the adapters do.
- `sql_fallbacks`: `PrepareContext` on a driver without it ignores a context that
  is done, and a statement's `CheckNamedValue` keeps database/sql from asking the
  connection's; the comment of `conn_optional.go` says that each fallback is
  exactly what database/sql assumes.

Other places where the code and a comment, a document or a test differ were met
while modelling. The modules have what the code does; no run is about them, and
where one bears on a property the property or its instance says so.

- Up to twice `rps` faults may fire within a second (`engine/engine.go:428`); the
  bound that holds is `RateBounded`.
- A header fault gives its slot back before the request it changed is sent
  (`adapter/http/transport.go:72`), so `HeldThroughCall` is about calls whose
  `Before` returned no error. `kafka.go:137` passes the Disconnect sentinel on
  as it is, as do others (`fault/fault.go:27`). A wrapped call that panics is never
  reported and loses its slot (`grpc/interceptors.go:66`), so `SettledOnce` and
  `BudgetHears` are about the calls that do not panic, whoever else does.
- `chaos.Point` gives its slot back before its outcome is on record
  (`chaos/point.go:67`), the adapters afterwards; `SettledOnce` and
  `HeldThroughCall` have each order where it belongs.
- What the budget hears is not always what the caller sees; `BudgetHears` names the
  exceptions: a row or a batch of pgx, whose error comes after its report, a shaped
  stream, which is reported before its call, a 5xx answer to a client, which is no
  error, and an injected 4xx of a server, which counts as a failure.
- A stream of rate 0 blocks for good (`adapter/io/io.go:172`): there is no context
  to end it, as `fault/stream.go:41` has it.
- After a 103, or a flush before the first write, the status recorded is not the
  one sent (`httpsrv/middleware.go:117`, `:129`), although the recorder "captures
  the response status" (`:107`). A 500 after an early hint is not reported as a
  failure, and one written after an early flush is reported although 200 was
  sent; `FailuresAreResponses` says that nothing else goes wrong.
- A driver that itself answers `ErrSkip` has the engine asked twice
  (`adapter/sql/driver.go:118`), which `AskedOnce` allows to it alone.
- Four differences between the bare and the wrapped SQL connection are named in
  `SqlOptional`, and `WrapperIsTransparent` says that there is no fifth: a
  transaction in spite of options nobody honours or a context that is done
  (`BeginUnasked`, `driver.go:141`), a statement in spite of one (`PreparedLate`,
  `conn_optional.go:58`), a converter that is not asked (`ConverterLost`,
  `conn_optional.go:74`), and statements that take neither contexts nor named
  arguments (`StmtWithoutContext`, `driver.go:161`).
- A pool config that is instrumented twice loses an action per query
  (`adapter/pgx/config.go:119`); the instance has one chaos tracer.
- A jitter window that is upside down escapes the latency cap
  (`engine/spec.go:266`); `SleepsBounded` exempts it. Of two bad bounds one is
  reported (`spec.go:258`). Specs of one lint signature may select different
  attributes (`lint.go:271`).
- An edit of one rule sets the counters of all back (`source/http/handler.go:182`).
- A parenthesis in a quoted message is counted (`source/terms/terms.go:19`);
  `ReadAsWritten` is about messages without.
- A replay sleeps the first recorded duration of a rule for all its fires
  (`golden.go:210`), and the second fault of a fire annotates an earlier one
  (`golden.go:142`); the recorded rules inject one fault per fire.
- The reported generator set is minimal, not smallest (`property.go:108`).

**Bounds.** Two callers are enough for a race between two steps, and every
property of the `table` and `rails` runs relates a pair of calls, or a call and an
edit. In `table` a panic of a wrapped call uses up one of the two slots, and from
then on one of two callers is turned away; in `live` there is one slot to begin
with. The window
of 6 lets the ring wrap with every pattern of outcomes. The caps `CountCap` and
`HitCap` lie above every threshold of the rules in the run; a counter that reaches
its cap behaves as any larger one would. Symmetry over callers is used in
`table` and `rails`, which check safety only.

One caller is enough for `adapters`, whose properties are about one call on each
path of each method; the proofs have any number of them, and what callers share,
the slots, is in `Engine`. Limits
of 0, 2 and 3 put a cut before, inside and after a buffer of every length. A
day of 24 minutes with hours of 6 has every order of start, end and midnight.
Three saves let an in-place save overlap two others. Two specs make a duplicate,
a shadow, and a document that fails half-way; a document of the handler has at
most three rules. `Drops`, `MaxFires`, `MaxOps`, `MaxCalls`, `MaxCtx`, `MaxSaves`,
`MaxLen` and `Supply` bound what the environment does, never what the code
does. The watcher and a test may stop, so their runs do not check for deadlock.

**Fairness.** In `live` a goroutine that can run does (`WF` of a caller's
step): sleeps and wrapped calls are assumed to end. The holder of `mu` makes no
blocking call, so it finishes its edit (`WF` of `FinishEdit`). A caller waiting
for `mu` may see it taken again and again; Go's mutex hands over to a waiter
that starves, so `RecordHit` has `SF`. Nobody is obliged to start a call, to
edit rules or to disable the engine.

`adapters` assumes that a goroutine runs and that wrapped calls return, and
nothing of timers: an injected latency may last for ever, and the context alone
ends it. `watch` assumes that the watching goroutine runs, that its `select`
picks the done context sooner or later among ready cases (`SF`), and that a save,
once begun, is finished; nobody has to save or to cancel. `small` lets a property
test go on.

## What is proved

All theorems hold for every value of the constants that satisfies the named
assumptions (`BudgetAssumption`, `BucketAssumption`, `EngineAssumption`,
`AdaptersAssumption`, `StreamAssumption`, `ShrinkAssumption`: what the
constructors enforce by panicking, and types). `ErrorsExact`, `CapRespected` and the
types have no run of their own: the runs check the verdict and the refinements
that rest on them.

- `FailureBudgetProofs`: the running count is exact, the verdict is that of the
  sliding window, and the ring refines it. The inductive invariant adds to
  `ErrorsExact` that slots not written yet hold no error (`FreshSlotsClean`):
  without it the first lap could subtract an error nobody recorded.
- `TokenBucketProofs`: `RateBounded` and `DeniedOnlyRecently`. The rate bound
  is inductive only with the tokens in hand counted in: what has passed since
  the window's start plus what is left never exceeds burst plus refill.
- `EngineProofs`: `TypeOK` together with `Located`: a caller between the match and
  the hit counter has a rule of its own snapshot in hand, however the set is
  edited meanwhile. The one needs the other: only with `Located` does what a
  caller reads of its rule have a type. Then the semaphore:
  `SlotAccounting`, `CapRespected`, and that the engine implements
  `ConcurrencyCap`. The inductive invariant `SlotInv` says where in its call a
  caller may hold a slot, that a faulted caller holds one, that the channel's
  length is the number of holders plus the slots lost, and that it is within
  the cap. Each step of a caller takes a slot below the cap, gives one back,
  loses one, or does nothing to the semaphore (`SlotMove`).

- `AdaptersProofs`: `SettledOnce` and `HeldThroughCall`, for any number of callers
  and any fault chains, panics included. That every method finishes with `Outcome`
  and then `After`, and `chaos.Point` the other way round, is read off the sixty
  records (`MethodsOrdered`). The inductive invariant `SettleInv` says that what a
  call has settled, followed by what is left in `todo`, is that order (`Due`), and
  that a faulted call which has not begun to be settled holds its slot; only an
  error of `Before` puts the call after the report. Each action changes one
  caller's record (`OneCall`), so an action's lemma is about that record alone.
- `StreamProofs`: `CutOff` and `ShortIsTold` for buffers, supplies and limits of
  any size. The two together are inductive with types; the lemmas are the
  contract of the wrapped stream and that of a call under a cap. A limit is
  assumed not to be negative (`StreamAssumption`).
- `ShrinkProofs`: `ReportIsMinimal` for any number of generators and runs and
  every body. `ShrinkInv` adds that every index the scan has passed is needed by
  the present set; a removal starts the scan again, which is why it holds.

Only model-checked: liveness (`CallsReturn`, `DisableDrains`, `CancelledReturns`,
`SavedIsLoaded`, `CancelStops`, `ShrinkingEnds`), which is out of the prover's reach; what
recursive definitions compute (the stages' cumulative ends, the scopes of
`Clock`, the splitter of `Terms`, the replay masks of `Golden`); `HitsNotLost`,
`TimesCapped`, `OvershootBounded`, the sticky tracker, the refinement of
`RuleStore`, the SQL driver and the spec operators, which are checked on their
instances.

## Not modelled

- The observers (logging, metrics, tracing) hand events to libraries and keep
  nothing the engine reads. Golden, the one observer with state, is modelled.
- The env source reads a variable once and installs what the modelled parser and
  `ReplaceRules` make of it; scenarios are values; the helpers of `chaostest` are
  single calls.
- Compiling a term into a spec, the SQL classifier and the scanner of
  `cmd/chaotic-points` are conversions of text: a model would repeat them
  character by character.
- In `adapter/sql` queries take the path of executions and have no actions of
  their own; in `adapter/pgx` the attributes of operations are left out; the
  result mutators of `fault/mutate.go` change values no property reads.
- Wording and layout of errors, and the libraries behind the adapters, which
  appear as calls that return, fail or panic.
