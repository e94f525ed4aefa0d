------------------------------ MODULE MCConfig ------------------------------
(***************************************************************************)
(* The way from configuration to rules, on small instances: specs that are *)
(* built and linted, terms that are parsed, and the admin endpoint on top, *)
(* once with many documents and once with a reader of counts.  A behaviour *)
(* follows one of them (what).                                             *)
(***************************************************************************)
EXTENDS Integers, Sequences

VARIABLES
  what,
  spec, other, result,                                                  \* SpecBuild
  ruleset, parsed,                                                      \* Terms
  order, specs, current, rules, hits, read, answer, edit, fires         \* Handler

specVars  == <<spec, other, result>>
termVars  == <<ruleset, parsed>>
adminVars == <<order, specs, current, rules, hits, read, answer, edit, fires>>

-----------------------------------------------------------------------------
(* Specs: valid and not, in every combination of their fields, each beside  *)
(* one of four others.                                                     *)
Garbled  == [ok |-> FALSE, d |-> 0]
Dur(d)   == [ok |-> TRUE, d |-> d]
F(type)  == [type |-> type, duration |-> Garbled, min |-> Garbled, max |-> Garbled,
             rate |-> 0, limit |-> 0]
Latency(d)     == [F("latency") EXCEPT !.duration = Dur(d)]
Jitter(lo, hi) == [F("jittered") EXCEPT !.min = Dur(lo), !.max = Dur(hi)]
C(type, p)     == [type |-> type, n |-> 2, from |-> 1, to |-> 2, p |-> p]
St(times, f)   == [times |-> times, faults |-> <<f>>]

FaultLists ==
  {<< >>, <<Latency(1)>>, <<Latency(3), F("panic")>>, <<Latency(6)>>, <<Latency(-1)>>,
   <<F("disconnect")>>, <<F("conn_drop")>>, <<F("bogus"), F("error")>>,
   <<[F("slow_reader") EXCEPT !.rate = -1]>>, <<[F("truncate") EXCEPT !.limit = -1]>>,
   <<Jitter(1, 2)>>, <<F("slow_writer"), Jitter(1, 6)>>}
StageLists ==
  {<< >>, <<St(2, F("error")), St(0, F("disconnect"))>>, <<St(0, F("error")), St(1, F("panic"))>>,
   <<St(1, F("bogus")), St(-1, F("error"))>>}
Pool ==
  [name : {"a"}, kinds : {<< >>, <<"sql">>, <<"sql", "tcp">>, <<"tcp">>}, glob : {"", "*", "users"},
   attrs : {{}, {"table=a"}},
   counter : {C("", 0), C("times", 0), C("range", 0), C("probability", 50), C("probability", 100),
              C("probability", 101), C("poisson", 0)},
   faults : FaultLists, stages : StageLists]
Others ==
  [name : {"a"}, kinds : {<< >>, <<"sql">>}, glob : {""}, attrs : {{}}, counter : {C("", 0)},
   faults : {<<F("error")>>, <<F("panic")>>}, stages : {<< >>}]

Building == INSTANCE SpecBuild WITH
  MaxFaultLatency <- 5, LintLatencyCeiling <- 2, SpecPool <- Pool, OtherPool <- Others,
  Ops <- [kind : {"sql", "net"}, name : {"users", "orders"}, attrs : {{}, {"table=a"}}]

-----------------------------------------------------------------------------
(* Terms: every shape of rule, and messages of up to three tokens of        *)
(* separators, arrows, quotes, escapes and words; no parenthesis in them.   *)
A(type, arg)         == [type |-> type, arg |-> arg]
T(mode, n, faults)   == [mode |-> mode, n |-> n, faults |-> faults]
R(name, sels, terms) == [name |-> name, sels |-> sels, terms |-> terms]

Everything == [kinds |-> << >>, glob |-> << >>, attrs |-> {}]
Selectors ==
  {Everything,
   [Everything EXCEPT !.kinds = <<<<"sql">>, <<"io">>>>, !.glob = <<"users">>],
   [Everything EXCEPT !.attrs = {<<<<"k">>, <<"v">>>>, <<<<"l">>, <<"v">>>>}]}
Plain == {<< >>, <<A("latency", <<<<"1">>>>)>>, <<A("jittered", <<<<"1">>, <<"2">>>>)>>, <<A("conn_drop", << >>)>>}
Texts(len) == UNION {[1 .. k -> {";", ":", "=", ",", "->", "\"", "\\", "%", "w"}] : k \in 0 .. len}
Says(text) == T("", 0, <<A("error", <<text>>)>>)

Shapes ==
  {<<T(mode[1], mode[2], f)>> : mode \in {<<"*", 2>>, <<"%", 1>>, <<"", 0>>}, f \in Plain}
  \cup {<<T("*", 2, f), T("", 0, g)>> : f, g \in Plain}
Simple == {R(n, s, t) : n \in {<< >>, <<"w">>}, s \in Selectors, t \in Shapes}
Worded == {R(<<"w">>, Everything, <<T("*", 1, Says(t).faults), Says(t)>>) : t \in Texts(2)}
          \cup {R(<< >>, Everything, <<Says(t)>>) : t \in Texts(3)}
NoFaults == R(<< >>, Everything, <<T("", 0, << >>)>>)

Language == INSTANCE Terms WITH
  Rulesets <- {<<r>> : r \in Simple} \cup {<<r, NoFaults>> : r \in Simple \cup Worded}

-----------------------------------------------------------------------------
(* The endpoint: documents and terms that are good, unreadable, nameless,   *)
(* duplicated, that do not build half-way, or are hazardous or suspicious.  *)
Named(name, kinds, counter, fault) ==
  [name |-> name, kinds |-> kinds, glob |-> "", attrs |-> {},
   counter |-> [type |-> counter, n |-> 1, from |-> 0, to |-> 0, p |-> 0],
   faults |-> <<F(fault)>>, stages |-> << >>]
Once(name)    == Named(name, <<"sql">>, "times", "error")
Steady(name)  == Named(name, <<"sql">>, "", "error")
Broad(name)   == Named(name, << >>, "", "panic")     \* terminal, matches everything
Loose(name)   == Named(name, << >>, "", "error")     \* worth a warning
Broken(name)  == Named(name, <<"sql">>, "poisson", "error")
Parsed(list)  == [ok |-> TRUE, specs |-> list]
Garbage       == [ok |-> FALSE, specs |-> << >>]

SomeDocs == {Garbage} \cup {Parsed(d) : d \in
  {<< >>, <<Once("a"), Steady("b")>>, <<Once("a"), Steady(""), Steady("a")>>,
   <<Steady("b"), Broken("a")>>, <<Steady("a"), Broad("b")>>}}
SomeTerms == {Garbage} \cup {Parsed(t) : t \in
  {<<Once("z")>>, <<Loose("")>>, <<Broken("")>>, <<Broad("")>>, <<Once("a"), Once("b")>>}}

Admin == INSTANCE Handler WITH
  MaxFaultLatency <- 5, LintLatencyCeiling <- 2, Readers <- {}, Docs <- SomeDocs, TermLists <- SomeTerms,
  Names <- {"a", "b"}, Mode <- "reject", Writable <- TRUE, Auth <- TRUE, MaxFires <- 1
Counts == INSTANCE Handler WITH
  MaxFaultLatency <- 5, LintLatencyCeiling <- 2, Readers <- {1},
  Docs <- {Parsed(<<Once("a"), Steady("b")>>)}, TermLists <- {Parsed(<<Loose("")>>)},
  Names <- {"a", "b"}, Mode <- "warn", Writable <- TRUE, Auth <- TRUE, MaxFires <- 2

-----------------------------------------------------------------------------
(* What is not followed. *)
SpecOff  == spec = 0 /\ other = 0 /\ result = 0
TermOff  == ruleset = 0 /\ parsed = 0
AdminOff == Admin!Init     \* it has one initial state

ConfigInit ==
  \/ what = "spec" /\ Building!Init /\ TermOff /\ AdminOff
  \/ what = "terms" /\ Language!Init /\ SpecOff /\ AdminOff
  \/ what = "admin" /\ Admin!Init /\ SpecOff /\ TermOff
  \/ what = "counts" /\ Counts!Init /\ SpecOff /\ TermOff

ConfigNext ==
  /\ UNCHANGED what
  /\ \/ what = "spec" /\ Building!Next /\ UNCHANGED <<termVars, adminVars>>
     \/ what = "terms" /\ Language!Next /\ UNCHANGED <<specVars, adminVars>>
     \/ what = "admin" /\ Admin!Next /\ UNCHANGED <<specVars, termVars>>
     \/ what = "counts" /\ Counts!Next /\ UNCHANGED <<specVars, termVars>>

vars == <<what, specVars, termVars, adminVars>>
Spec == ConfigInit /\ [][ConfigNext]_vars

-----------------------------------------------------------------------------
(* BuildRule never panics, whatever the spec; a rule that builds matches what *)
(* its spec selects and nothing else, and no fault of it sleeps beyond        *)
(* maxFaultLatency, upside-down jitter windows apart.                         *)
BuiltAsSpecified ==
  what = "spec" => Building!NeverPanics /\ Building!ScopeKept /\ Building!SleepsBounded

(* The linter of built rules rates nothing high that the linter of specs lets *)
(* pass, and refusing a document is refusing one of its specs.                *)
LintersAgree == what = "spec" => Building!LintersAgree /\ Building!GateIsPerRule

(* What is written after the grammar of terms is read as it was meant. *)
ReadAsWritten == what = "terms" => Language!ReadAsWritten

(* The endpoint's maps, the document it serves and the engine's rules are one *)
(* list, whatever was refused or failed in between, and that document can be  *)
(* POSTed back and changes nothing.                                           *)
Coherent == what = "admin" => Admin!Coherent /\ Admin!ServedDocumentIsAFixpoint

(* An error answer leaves the maps, the document and the engine's rules     *)
(* with their counters.                                                    *)
RefusedChangesNothing == Admin!RefusedChangesNothing

(* The engine's rules are what the accepted edits make of an ordered list.  *)
ImplementsStore == Admin!ImplementsStore

(* A count reported under a name is one of rules so named. *)
CountsAreOfTheName == what = "counts" => Counts!CountsAreOfTheName

=============================================================================
