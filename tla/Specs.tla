------------------------------- MODULE Specs -------------------------------
(***************************************************************************)
(* Rule specs (engine/spec.go), the rules they build into, and the linter  *)
(* (engine/lint.go) as operators.  A duration is a record: what            *)
(* time.ParseDuration made of the text (ok) and its value (d).  A rule     *)
(* holds its selectors, its fire strategy (a record of Counters), its      *)
(* faults and its stages.                                                  *)
(***************************************************************************)
EXTENDS Counters, SequencesExt

CONSTANTS MaxFaultLatency,      \* spec.go's cap on a configured sleep
          LintLatencyCeiling    \* lint.go's ceiling

KindNames == {"http_client", "http_server", "sql", "grpc_client", "grpc_server", "explicit",
              "pgx", "redis", "rabbitmq", "mongo", "kafka", "aws", "nats", "net", "io"}

Good(kind, lo, hi) == [errs |-> {}, fault |-> [kind |-> kind, lo |-> lo, hi |-> hi]]
Bad(field)         == [errs |-> {field}, fault |-> [kind |-> "none", lo |-> 0, hi |-> 0]]

-----------------------------------------------------------------------------
(* Faults *)
buildLatencyFault(fs) ==
  IF ~fs.duration.ok \/ fs.duration.d < 0 \/ fs.duration.d > MaxFaultLatency
    THEN Bad("duration") ELSE Good("latency", fs.duration.d, fs.duration.d)

(* The first field that does not parse ends the check. *)
buildJitteredFault(fs) ==
  IF ~fs.min.ok THEN Bad("min")
  ELSE IF ~fs.max.ok THEN Bad("max")
  ELSE IF fs.min.d < 0 \/ fs.max.d > MaxFaultLatency THEN Bad("window")
  ELSE Good("jittered", fs.min.d, fs.max.d)

buildRateFault(kind, rate) == IF rate < 0 THEN Bad("rate") ELSE Good(kind, 0, 0)

buildFault(fs) ==
  CASE fs.type = "latency"     -> buildLatencyFault(fs)
    [] fs.type = "jittered"    -> buildJitteredFault(fs)
    [] fs.type \in {"error", "panic", "conn_drop", "disconnect"} -> Good(fs.type, 0, 0)
    [] fs.type \in {"slow_reader", "slow_writer"} -> buildRateFault(fs.type, fs.rate)
    [] fs.type = "truncate"    -> IF fs.limit < 0 THEN Bad("limit") ELSE Good("truncate", 0, 0)
    [] OTHER                   -> Bad("type")

(* The invalid entries are left out and reported by position. *)
buildFaultList(specs) ==
  [faults |-> FlattenSeq([i \in DOMAIN specs |->
                IF buildFault(specs[i]).errs = {} THEN <<buildFault(specs[i]).fault>> ELSE << >>]),
   errs   |-> UNION {{<<"fault", i, e>> : e \in buildFault(specs[i]).errs} : i \in DOMAIN specs}]

(* The sleeps Apply may take: fixed, or any of a jitter window, which is    *)
(* the lower bound alone when the window is empty or upside down.           *)
LatencyApply(f)  == {f.lo}
JitteredApply(f) == IF f.hi > f.lo THEN f.lo .. f.hi ELSE {f.lo}
Sleeps(f) == CASE f.kind = "latency"  -> LatencyApply(f)
               [] f.kind = "jittered" -> JitteredApply(f)
               [] OTHER               -> {0}

-----------------------------------------------------------------------------
(* Selectors: no restriction, or the kinds / the glob / attributes named.   *)
\* an unknown kind is left out and nothing said of it
MatchOptionsLenient(spec) ==
  LET known == ToSet(spec.kinds) \cap KindNames
  IN  [errs |-> {},
       kinds |-> IF known = {} THEN KindNames ELSE known, glob |-> spec.glob, attrs |-> spec.attrs,
       constrained |-> known # {} \/ spec.glob # "" \/ spec.attrs # {}]

buildMatchOptions(spec) ==
  LET known == ToSet(spec.kinds) \cap KindNames
  IN  [errs |-> {<<"kind", k>> : k \in ToSet(spec.kinds) \ KindNames},
       kinds |-> IF known = {} THEN KindNames ELSE known, glob |-> spec.glob, attrs |-> spec.attrs,
       constrained |-> known # {} \/ spec.glob # "" \/ spec.attrs # {}]

(* A glob is "" (not given), "*" or one name; an Op has a kind, a name and  *)
(* attributes.                                                             *)
MatchKind(kinds, op)   == op.kind \in kinds
MatchName(glob, op)    == glob \in {"", "*", op.name}
MatchAttr(attrs, op)   == attrs \subseteq op.attrs
Matches(rule, op) == MatchKind(rule.kinds, op) /\ MatchName(rule.glob, op) /\ MatchAttr(rule.attrs, op)

(* Counters; p in percent. *)
buildCounterOption(c) ==
  CASE c.type \in {"", "always"} -> [errs |-> {}, counter |-> [kind |-> "always"]]
    [] c.type = "times"          -> [errs |-> {}, counter |-> [kind |-> "times", n |-> c.n]]
    [] c.type = "range"          -> [errs |-> {}, counter |-> [kind |-> "range", from |-> c.from, to |-> c.to]]
    [] c.type = "probability" /\ c.p >= 0 /\ c.p <= 100
                                 -> [errs |-> {}, counter |-> [kind |-> "prob", p |-> c.p]]
    [] OTHER                     -> [errs |-> {<<"counter", c.type>>}, counter |-> [kind |-> "always"]]

buildStageOptions(spec) ==
  LET built(i) == buildFaultList(spec.stages[i].faults)
      last(i)  == i = Len(spec.stages)
      unless(ok, e) == IF ok THEN {} ELSE {e}
  IN  [stages |-> [i \in DOMAIN spec.stages |->
                     [times |-> spec.stages[i].times, faults |-> built(i).faults]],
       errs |-> unless(spec.counter.type \in {"", "always"}, <<"stages", "counter">>)
                \cup unless(spec.faults = << >>, <<"stages", "faults">>)
                \cup UNION {unless(last(i) \/ spec.stages[i].times > 0, <<"times", i>>)
                            \cup unless(~last(i) \/ spec.stages[i].times >= 0, <<"times", i>>)
                            \cup {<<"stage", i, e>> : e \in built(i).errs} : i \in DOMAIN spec.stages}]

(* WithStages and Probability panic on what they do not accept. *)
Panics(counter, staged) ==
  \/ counter.kind = "prob" /\ (counter.p < 0 \/ counter.p > 100)
  \/ staged # << >> /\ ~ValidStages(staged)

BuildRule(spec) ==
  LET m == buildMatchOptions(spec)
      c == buildCounterOption(spec.counter)
      f == buildFaultList(spec.faults)
      s == buildStageOptions(spec)
      errs == m.errs \cup c.errs \cup f.errs \cup (IF spec.stages = << >> THEN {} ELSE s.errs)
      staged == IF errs = {} THEN s.stages ELSE << >>
  IN  [errs |-> errs,
       panics |-> Panics(c.counter, staged),
       rule |-> [name |-> spec.name, kinds |-> m.kinds, glob |-> m.glob, attrs |-> m.attrs,
                 constrained |-> m.constrained, counter |-> c.counter,
                 faults |-> f.faults, stages |-> staged]]

Builds(spec) == BuildRule(spec).errs = {}

(* Rule.Info *)
Info(rule) ==
  [unconstrained |-> ~rule.constrained,
   counter |-> IF rule.stages # << >> THEN "staged" ELSE rule.counter.kind,
   faults |-> IF rule.stages = << >> THEN [i \in DOMAIN rule.faults |-> rule.faults[i].kind]
              ELSE FlattenSeq([s \in DOMAIN rule.stages |->
                     [i \in DOMAIN rule.stages[s].faults |-> rule.stages[s].faults[i].kind]])]

-----------------------------------------------------------------------------
(* The linter.  A finding is its severity, the rule it names and its topic. *)
Finding(severity, rule, topic) == [severity |-> severity, rule |-> rule, topic |-> topic]
If(condition, finding) == IF condition THEN <<finding>> ELSE << >>
lintName(name) == IF name = "" THEN "<unnamed>" ELSE name

OK(report) == \A i \in DOMAIN report : report[i].severity # "high"

TerminalWithoutDisconnect(t) == t \in {"panic", "conn_drop"}
isTerminalFaultType(t) == t \in {"panic", "conn_drop", "disconnect"}
terminalKind(k)        == k \in {"panic", "conn_drop", "disconnect"}

(* Lint: rules without selectors that fire on every match. *)
Lint(rules) ==
  FlattenSeq([i \in DOMAIN rules |->
    LET info == Info(rules[i])
        terminal == \E j \in DOMAIN info.faults : terminalKind(info.faults[j])
    IN  If(info.unconstrained /\ info.counter = "always",
           Finding(IF terminal THEN "high" ELSE "warn", lintName(rules[i].name), "matches all"))])

specLatency(fs) == IF fs.type = "latency" THEN fs.duration
                   ELSE IF fs.type = "jittered" THEN fs.max ELSE [ok |-> FALSE, d |-> 0]

lintFault(name, broad, fs) ==
  If(specLatency(fs).ok /\ specLatency(fs).d > LintLatencyCeiling, Finding("warn", name, "latency"))
  \o If(broad /\ isTerminalFaultType(fs.type), Finding("high", name, "terminal"))

lintFlatFault(name, broad, fs) ==
  If(fs.type \in {"slow_reader", "slow_writer"} /\ fs.rate = 0, Finding("warn", name, "endless"))
  \o lintFault(name, broad, fs)

lintFinalStage(name, stages) ==
  IF stages = << >> \/ stages[Len(stages)].times # 0 THEN << >>
  ELSE LET faults == stages[Len(stages)].faults
       IN  FlattenSeq([i \in DOMAIN faults |->
             If(isTerminalFaultType(faults[i].type), Finding("warn", name, "permanent"))])

lintSpec(s) ==
  LET name  == lintName(s.name)
      broad == s.kinds = << >> /\ s.glob \in {"", "*"}
  IN  If(s.glob = "*", Finding("warn", name, "glob"))
      \o If(s.counter.type = "probability" /\ s.counter.p >= 100, Finding("warn", name, "always"))
      \o FlattenSeq([i \in DOMAIN s.faults |-> lintFlatFault(name, broad, s.faults[i])])
      \o FlattenSeq([j \in DOMAIN s.stages |->
           FlattenSeq([i \in DOMAIN s.stages[j].faults |->
             lintFault(name, broad, s.stages[j].faults[i])])])
      \o lintFinalStage(name, s.stages)

(* The sorted kinds and the glob: kinds as a bag. *)
specSignature(s) ==
  [kinds |-> [k \in ToSet(s.kinds) |-> Len(SelectSeq(s.kinds, LAMBDA x : x = k))], glob |-> s.glob]

lintOverlaps(specs) ==
  FlattenSeq([i \in DOMAIN specs |->
    If(\E j \in 1 .. i - 1 : specSignature(specs[j]) = specSignature(specs[i]),
       Finding("warn", lintName(specs[i].name), "overlap"))])

LintSpecs(specs) ==
  FlattenSeq([i \in DOMAIN specs |-> lintSpec(specs[i])]) \o lintOverlaps(specs)

(* LintGate: what to report, and whether to refuse. *)
LintGate(mode, specs) ==
  IF mode = "off" THEN [report |-> << >>, reject |-> FALSE]
  ELSE [report |-> LintSpecs(specs), reject |-> mode = "reject" /\ ~OK(LintSpecs(specs))]

=============================================================================
