------------------------------ MODULE Handler ------------------------------
(***************************************************************************)
(* The admin endpoint (source/http): clients install, edit, remove and     *)
(* list rules of a live engine while its rules fire.  The writes hold      *)
(* h.mu from the first change of the handler's maps to the last, and       *)
(* swap the engine's rules once in between, so each is one step; what is   *)
(* read outside the lock (the hit counts) is a step of its own.            *)
(***************************************************************************)
EXTENDS Specs

CONSTANTS
  Readers,     \* clients that read counts
  Docs,        \* documents POSTed, parsed: [ok, specs], some specs without a name
  TermLists,   \* what terms.Parse makes of a PUT body: [ok, specs]
  Names,       \* names in request paths
  Mode,        \* lint mode
  Writable,    \* WithWritable
  Auth,        \* WithAuth is set
  MaxFires     \* bound: fires of one installed rule

AutoName == <<"rule-0", "rule-1", "rule-2", "rule-3">>

VARIABLES
  order,     \* h.order
  specs,     \* h.specs
  current,   \* h.current, as the specs it serializes (no document yet: no rules)
  rules,     \* the engine's rules, each with its match count cur
  hits,      \* the engine's hit counters
  read,      \* per reader: the request it is in and what it was last told
  answer,    \* the last status sent by a request that is one step
  edit,      \* history: the last write that was accepted
  fires      \* history: fires of rules by name

store == <<order, specs, current, rules>>
vars  == <<order, specs, current, rules, hits, read, answer, edit, fires>>

AllNames == Names \cup ToSet(AutoName) \cup {""}

Init ==
  /\ order = << >> /\ specs = << >> /\ current = << >> /\ rules = << >>
  /\ hits = << >>
  /\ read = [c \in Readers |-> [pc |-> "idle", counts |-> << >>, list |-> << >>]]
  /\ answer = 0
  /\ edit = [kind |-> "none"]
  /\ fires = [name \in AllNames |-> 0]

(* The engine: rules are swapped, counters start again for their names. *)
ReplaceRules(list) ==
  /\ rules' = [i \in DOMAIN list |-> [spec |-> list[i], cur |-> 0]]
  /\ hits' = [name \in {list[i].name : i \in DOMAIN list} \ {""} |-> 0]

Ordered(o, s)   == [i \in DOMAIN o |-> s[o[i]]]
Buildable(o, s) == \A i \in DOMAIN o : Builds(s[o[i]])

(* rebuildLocked stops at the first spec that does not build. *)
rebuildLocked(o, s) ==
  IF Buildable(o, s)
    THEN ReplaceRules(Ordered(o, s)) /\ current' = Ordered(o, s)
    ELSE UNCHANGED <<rules, hits, current>>

-----------------------------------------------------------------------------
(* postWhole gives a nameless spec the name of its position; of two specs   *)
(* with one name the later counts, at the place of the earlier.             *)
Named(doc) ==
  LET key(i) == IF doc[i].name = "" THEN AutoName[i] ELSE doc[i].name
      firsts == SelectSeq([i \in DOMAIN doc |-> i], LAMBDA i : \A j \in 1 .. i - 1 : key(j) # key(i))
      lastOf(n) == CHOOSE i \in DOMAIN doc : key(i) = n /\ \A j \in DOMAIN doc : key(j) = n => j <= i
  IN  [order |-> [i \in DOMAIN firsts |-> key(firsts[i])],
       specs |-> [n \in {key(i) : i \in DOMAIN doc} |-> [doc[lastOf(n)] EXCEPT !.name = n]]]

Success(report) == IF report = << >> THEN 204 ELSE 200

(* An answer that changes nothing. *)
Answer(status) == answer' = status /\ UNCHANGED <<store, hits, read, edit, fires>>

\* the maps keep what did not build
PostKeeps(doc) ==
  LET n == Named(doc.specs)
      list == Ordered(n.order, n.specs)
      ok == Buildable(n.order, n.specs)
  IN  /\ Writable /\ doc.ok /\ ~LintGate(Mode, list).reject
      /\ order' = n.order /\ specs' = n.specs
      /\ rebuildLocked(n.order, n.specs)
      /\ answer' = IF ok THEN Success(LintGate(Mode, list).report) ELSE 400
      /\ edit' = IF ok THEN [kind |-> "post", specs |-> list] ELSE edit
      /\ UNCHANGED <<read, fires>>

(* postWhole puts the old maps back when a spec does not build. *)
postWhole(doc) ==
  LET n == Named(doc.specs)
      list == Ordered(n.order, n.specs)
  IN  IF ~Writable THEN Answer(405)
      ELSE IF ~doc.ok \/ LintGate(Mode, list).reject \/ ~Buildable(n.order, n.specs) THEN Answer(400)
      ELSE /\ order' = n.order /\ specs' = n.specs
           /\ rebuildLocked(n.order, n.specs)
           /\ answer' = Success(LintGate(Mode, list).report)
           /\ edit' = [kind |-> "post", specs |-> list]
           /\ UNCHANGED <<read, fires>>

\* the gate is asked after the change
PutLintsLate(name, parsed) ==
  LET spec == [parsed.specs[1] EXCEPT !.name = name]
      o == IF name \in DOMAIN specs THEN order ELSE Append(order, name)
      s == [n \in DOMAIN specs \cup {name} |-> IF n = name THEN spec ELSE specs[n]]
  IN  /\ Writable /\ parsed.ok /\ Len(parsed.specs) = 1 /\ Builds(spec)
      /\ order' = o /\ specs' = s
      /\ rebuildLocked(o, s)
      /\ answer' = IF LintGate(Mode, <<spec>>).reject THEN 400 ELSE 204
      /\ edit' = [kind |-> "put", name |-> name, spec |-> spec]
      /\ UNCHANGED <<read, fires>>

\* a rule that is there goes last too
PutMoves(name, parsed) ==
  LET spec == [parsed.specs[1] EXCEPT !.name = name]
      o == Append(SelectSeq(order, LAMBDA n : n # name), name)
      s == [n \in DOMAIN specs \cup {name} |-> IF n = name THEN spec ELSE specs[n]]
  IN  /\ Writable /\ parsed.ok /\ Len(parsed.specs) = 1 /\ Builds(spec)
      /\ ~LintGate(Mode, <<spec>>).reject
      /\ order' = o /\ specs' = s
      /\ rebuildLocked(o, s)
      /\ answer' = 204
      /\ edit' = [kind |-> "put", name |-> name, spec |-> spec]
      /\ UNCHANGED <<read, fires>>

(* putRule has nothing to undo: what can be refused is refused before the  *)
(* maps change.                                                            *)
putRule(name, parsed) ==
  LET spec == [parsed.specs[1] EXCEPT !.name = name]
      o == IF name \in DOMAIN specs THEN order ELSE Append(order, name)
      s == [n \in DOMAIN specs \cup {name} |-> IF n = name THEN spec ELSE specs[n]]
  IN  IF ~Writable THEN Answer(405)
      ELSE IF ~parsed.ok \/ Len(parsed.specs) # 1 THEN Answer(400)
      ELSE IF ~Builds(spec) \/ LintGate(Mode, <<spec>>).reject THEN Answer(400)
      ELSE /\ order' = o /\ specs' = s
           /\ rebuildLocked(o, s)
           /\ answer' = IF Buildable(o, s) THEN Success(LintGate(Mode, <<spec>>).report) ELSE 500
           /\ edit' = [kind |-> "put", name |-> name, spec |-> spec]
           /\ UNCHANGED <<read, fires>>

removeName(names, name) == SelectSeq(names, LAMBDA n : n # name)

deleteRule(name) ==
  IF ~Writable THEN Answer(405)
  ELSE IF name \notin DOMAIN specs THEN Answer(404)
  ELSE /\ specs' = [n \in DOMAIN specs \ {name} |-> specs[n]]
       /\ order' = removeName(order, name)
       /\ rebuildLocked(order', specs')
       /\ answer' = IF Buildable(order', specs') THEN 204 ELSE 500
       /\ edit' = [kind |-> "delete", name |-> name]
       /\ UNCHANGED <<read, fires>>

-----------------------------------------------------------------------------
(* The body is current, which no step but a write changes. *)
getWhole == Answer(200)

(* ServeHTTP: no token that passes, no request. *)
unauthorized == Auth /\ Answer(401)

(* listRules copies the counters, then takes the lock for the names. *)
Reading(c, pc, counts, list) ==
  /\ read' = [read EXCEPT ![c] = [pc |-> pc, counts |-> counts, list |-> list]]
  /\ UNCHANGED <<store, hits, answer, edit, fires>>

listHits(c) == read[c].pc = "idle" /\ Reading(c, "list", hits, << >>)

CountIn(counts, name) == IF name \in DOMAIN counts THEN counts[name] ELSE 0

\* counts are paired with names by position
ListByPosition(c) ==
  LET names == SetToSeq(DOMAIN read[c].counts)
  IN  /\ read[c].pc = "list"
      /\ Reading(c, "idle", << >>, [i \in DOMAIN order |->
           [name |-> order[i],
            hits |-> IF i \in DOMAIN names THEN read[c].counts[names[i]] ELSE 0]])

listRules(c) ==
  /\ read[c].pc = "list"
  /\ Reading(c, "idle", << >>,
       [i \in DOMAIN order |-> [name |-> order[i], hits |-> CountIn(read[c].counts, order[i])]])

(* ruleCount asks for the name under the lock and for the count after it. *)
findRule(c, name) ==
  /\ read[c].pc = "idle"
  /\ IF name \notin DOMAIN specs THEN Answer(404)
     ELSE Reading(c, "count", << >>, <<[name |-> name, hits |-> 0]>>)

ruleCount(c) ==
  LET name == read[c].list[1].name
  IN  /\ read[c].pc = "count"
      /\ Reading(c, "idle", << >>, <<[name |-> name, hits |-> CountIn(hits, name)]>>)

(* A call matches a rule, which fires if its strategy lets it. *)
fireRule(i) ==
  LET r == rules[i]
  IN  /\ fires[r.spec.name] < MaxFires
      /\ TRUE \in shouldFire(BuildRule(r.spec).rule.counter, r.cur + 1)
      /\ rules' = [rules EXCEPT ![i].cur = @ + 1]
      /\ hits' = [name \in DOMAIN hits |-> IF name = r.spec.name THEN hits[name] + 1 ELSE hits[name]]
      /\ fires' = [fires EXCEPT ![r.spec.name] = @ + 1]
      /\ UNCHANGED <<order, specs, current, read, answer, edit>>

Next ==
  \/ \E doc \in Docs : postWhole(doc)
  \/ \E name \in Names : \E parsed \in TermLists : putRule(name, parsed)
  \/ \E name \in Names : deleteRule(name)
  \/ getWhole \/ unauthorized
  \/ \E c \in Readers : listHits(c) \/ listRules(c) \/ ruleCount(c)
  \/ \E c \in Readers, name \in Names : findRule(c, name)
  \/ \E i \in DOMAIN rules : fireRule(i)

Spec == Init /\ [][Next]_vars

-----------------------------------------------------------------------------
(* h.specs are the "authoritative current specs": the maps, the document    *)
(* served and the rules the engine runs are the same list, whatever was     *)
(* refused or failed in between.                                           *)
Coherent ==
  /\ ToSet(order) = DOMAIN specs /\ Len(order) = Len(rules)
  /\ \A i \in DOMAIN rules : rules[i].spec = specs[order[i]]
  /\ current = Ordered(order, specs)

(* "under LintReject a hazardous rule is refused with 400 and nothing is    *)
(* installed", and so for every other refusal: an error answer leaves the   *)
(* maps, the document and the engine's rules with their counters.           *)
RefusedChangesNothing ==
  [][answer' >= 400 =>
       /\ UNCHANGED <<order, specs, current>>
       /\ Len(rules') = Len(rules)
       /\ \A i \in DOMAIN rules : rules'[i].spec = rules[i].spec /\ rules'[i].cur >= rules[i].cur]_vars

(* Whatever GET / serves can be POSTed back: it names every rule, passes    *)
(* the gate, builds, and installs the rules that are there.                 *)
ServedDocumentIsAFixpoint ==
  LET n == Named(current)
  IN  /\ n.order = order /\ n.specs = specs
      /\ Buildable(n.order, n.specs)
      /\ ~LintGate(Mode, Ordered(n.order, n.specs)).reject

(* A count that is read before or after the name it is reported under is   *)
(* still one of that name: GET /rules and GET /rules/{name}/count report    *)
(* no more than rules so named have fired.                                 *)
CountsAreOfTheName ==
  \A c \in Readers :
    \A i \in DOMAIN read[c].list : read[c].list[i].hits <= fires[read[c].list[i].name]

(* The engine's rules are what the accepted edits make of an ordered list.  *)
Accepted(s) == Builds(s) /\ ~LintGate(Mode, <<s>>).reject
AllEdits ==
  {[kind |-> "post", specs |-> Ordered(Named(d.specs).order, Named(d.specs).specs)] : d \in Docs}
  \cup {[kind |-> "put", name |-> n, spec |-> [t.specs[1] EXCEPT !.name = n]] :
          n \in Names, t \in {u \in TermLists : Len(u.specs) = 1}}
  \cup {[kind |-> "delete", name |-> n] : n \in Names}
Store == INSTANCE RuleStore WITH
  Acceptable <- Accepted, Edits <- AllEdits, store <- [i \in DOMAIN rules |-> rules[i].spec]
ImplementsStore == Store!Spec

=============================================================================
