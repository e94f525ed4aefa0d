------------------------------- MODULE Terms -------------------------------
(***************************************************************************)
(* The parser of the one-line rule language (source/terms).  A text is a   *)
(* sequence of tokens: the bytes the parser looks at, "->", and words; the *)
(* white space it trims is left out.  Results are [ok, v]: v the value,    *)
(* or with ok = FALSE nothing.                                             *)
(***************************************************************************)
EXTENDS Integers, Sequences, SequencesExt

Num(w)  == CASE w = "1" -> 1 [] w = "2" -> 2 [] OTHER -> -1     \* strconv.Atoi, ParseFloat
Ok(v)   == [ok |-> TRUE, v |-> v]
Fail    == [ok |-> FALSE, v |-> << >>]

Positions(s, P(_)) == SelectSeq([i \in DOMAIN s |-> i], P)
Before(s, i) == SubSeq(s, 1, i - 1)
After(s, i)  == SubSeq(s, i + 1, Len(s))

(* The pieces of s between the given positions. *)
Pieces(s, at) ==
  LET ends == <<0>> \o at \o <<Len(s) + 1>>
  IN  [k \in 1 .. Len(at) + 1 |-> SubSeq(s, ends[k] + 1, ends[k + 1] - 1)]

Index(s, set) ==
  LET at == Positions(s, LAMBDA i : s[i] \in set) IN IF at = << >> THEN 0 ELSE at[1]

-----------------------------------------------------------------------------
(* Parenthesis depth before each token; a stray ")" is ignored. *)
Depth(s) ==
  LET d[i \in 1 .. Len(s) + 1] ==
        IF i = 1 THEN 0
        ELSE IF s[i - 1] = "(" THEN d[i - 1] + 1
        ELSE IF s[i - 1] = ")" /\ d[i - 1] > 0 THEN d[i - 1] - 1
        ELSE d[i - 1]
  IN  d

Top(s, sep) == LET d == Depth(s) IN Positions(s, LAMBDA i : s[i] = sep /\ d[i] = 0)

splitTop(s, sep) == Pieces(s, Top(s, sep))
indexTop(s, sep) == IF Top(s, sep) = << >> THEN 0 ELSE Top(s, sep)[1]

(* splitTopArrow's state before each token: depth, in a string, escaped. *)
Scan(s, escapes) ==
  LET st[i \in 1 .. Len(s) + 1] ==
        IF i = 1 THEN [depth |-> 0, inStr |-> FALSE, skip |-> FALSE]
        ELSE LET p == st[i - 1]
                 c == s[i - 1]
             IN  IF p.skip THEN [p EXCEPT !.skip = FALSE]
                 ELSE IF p.inStr THEN [p EXCEPT !.skip = escapes /\ c = "\\", !.inStr = c # "\""]
                 ELSE [p EXCEPT !.inStr = c = "\"",
                                !.depth = IF c = "(" THEN @ + 1 ELSE IF c = ")" THEN @ - 1 ELSE @]
  IN  st

Arrows(s, escapes) ==
  LET st == Scan(s, escapes)
  IN  Positions(s, LAMBDA i : s[i] = "->" /\ st[i].depth = 0 /\ ~st[i].inStr /\ ~st[i].skip)

\* an escaped quote ends the string
ArrowNoEscape(s) == Pieces(s, Arrows(s, FALSE))
splitTopArrow(s) == Pieces(s, Arrows(s, TRUE))

splitCall(s) ==
  LET open == Index(s, {"("})
  IN  IF open = 0 THEN Ok([name |-> s, args |-> << >>])
      ELSE IF s[Len(s)] # ")" THEN Fail
      ELSE Ok([name |-> Before(s, open), args |-> SubSeq(s, open + 1, Len(s) - 1)])

(* strconv.Unquote of a double-quoted text with the escapes \" and \\.      *)
Unquoted(s) ==
  LET in == SubSeq(s, 2, Len(s) - 1)
      esc[i \in 1 .. Len(in) + 1] == i > 1 /\ in[i - 1] = "\\" /\ ~esc[i - 1]
      kept == Positions(in, LAMBDA i : in[i] # "\\" \/ esc[i])
  IN  IF \/ s[Len(s)] # "\"" \/ esc[Len(in) + 1]
         \/ \E i \in DOMAIN in : (in[i] = "\"" /\ ~esc[i]) \/ (esc[i] /\ in[i] \notin {"\"", "\\"})
      THEN Fail ELSE Ok([k \in DOMAIN kept |-> in[kept[k]]])

unquote(s) == IF Len(s) >= 2 /\ s[1] = "\"" THEN Unquoted(s) ELSE Ok(s)

-----------------------------------------------------------------------------
Fault(type, arg) == Ok(<<[type |-> type, arg |-> arg]>>)

parseAction(name, args) ==
  LET text == unquote(args)
      comma == Index(args, {","})
  IN  CASE name = <<"latency">>  -> Fault("latency", <<args>>)
        [] name = <<"jitter">>   -> IF comma = 0 THEN Fail
                                    ELSE Fault("jittered", <<Before(args, comma), After(args, comma)>>)
        [] name = <<"error">>    -> IF text.ok THEN Fault("error", <<text.v>>) ELSE Fail
        [] name = <<"panic">>    -> IF text.ok THEN Fault("panic", <<text.v>>) ELSE Fail
        [] name = <<"conndrop">> -> Fault("conn_drop", << >>)
        [] name = <<"off">>      -> Ok(<< >>)
        [] OTHER                 -> Fail

(* The mode is looked for before the first "(". *)
Mode(s) ==
  LET open == Index(s, {"("})
      head == IF open = 0 THEN s ELSE Before(s, open)
  IN  Index(head, {"*", "%"})

Number(w) == IF Len(w) = 1 THEN Num(w[1]) ELSE -1

Action(s) ==
  LET call == splitCall(s) IN IF call.ok THEN parseAction(call.v.name, call.v.args) ELSE Fail

(* parseTerm's and parseStageSegment's common part: mode and action. *)
Moded(s, stage) ==
  LET m == Mode(s)
      act == Action(IF m = 0 THEN s ELSE After(s, m))
  IN  IF \/ s = << >> \/ ~act.ok
         \/ m # 0 /\ (Number(Before(s, m)) < 0 \/ (stage /\ s[m] = "%"))
      THEN Fail
      ELSE Ok([mode |-> IF m = 0 THEN "" ELSE s[m], n |-> IF m = 0 THEN 0 ELSE Number(Before(s, m)),
               faults |-> act.v])

parseTerm(s)         == Moded(s, FALSE)
parseStageSegment(s) == Moded(s, TRUE)

(* A selector: a later name replaces an earlier one, as does an attr of the same key. *)
parseSelector(s) ==
  LET call == splitCall(s)
      eq == Index(call.v.args, {"="})
  IN  IF ~call.ok THEN Fail
      ELSE CASE call.v.name \in {<<"kind">>, <<"name">>} ->
                  Ok([type |-> call.v.name[1], key |-> << >>, arg |-> call.v.args])
             [] call.v.name = <<"attr">> /\ eq # 0 ->
                  Ok([type |-> "attr", key |-> Before(call.v.args, eq), arg |-> After(call.v.args, eq)])
             [] OTHER -> Fail

All(results) ==
  IF \E i \in DOMAIN results : ~results[i].ok THEN Fail ELSE Ok([i \in DOMAIN results |-> results[i].v])
NonEmpty(texts) == SelectSeq(texts, LAMBDA t : t # << >>)

NoSelectors == [kinds |-> << >>, glob |-> << >>, attrs |-> {}]

parseSelectors(s) ==
  LET texts == NonEmpty(splitTop(s, ","))
      sels  == All([i \in DOMAIN texts |-> parseSelector(texts[i])])
      of(t) == SelectSeq(sels.v, LAMBDA x : x.type = t)
      final(xs) == {i \in DOMAIN xs : \A j \in i + 1 .. Len(xs) : xs[j].key # xs[i].key}
  IN  IF ~sels.ok THEN Fail
      ELSE Ok([kinds |-> [i \in DOMAIN of("kind") |-> of("kind")[i].arg],
               glob  |-> IF of("name") = << >> THEN << >> ELSE Last(of("name")).arg,
               attrs |-> {<<of("attr")[i].key, of("attr")[i].arg>> : i \in final(of("attr"))}])

parseRule(s) ==
  LET colon == indexTop(s, ":")
      rest  == After(s, colon)
      eq    == indexTop(rest, "=")
      sels  == IF eq = 0 THEN Ok(NoSelectors) ELSE IF eq = 1 THEN Fail ELSE parseSelectors(Before(rest, eq))
      segs  == splitTopArrow(After(rest, eq))
      terms == IF Len(segs) = 1 THEN All(<<parseTerm(segs[1])>>)
               ELSE All([i \in DOMAIN segs |-> parseStageSegment(segs[i])])
  IN  IF ~sels.ok \/ ~terms.ok THEN Fail
      ELSE Ok([name |-> IF colon = 0 THEN << >> ELSE Before(s, colon), sels |-> sels.v, terms |-> terms.v])

Parse(s) ==
  LET texts == NonEmpty(splitTop(s, ";"))
  IN  IF texts = << >> THEN Fail ELSE All([i \in DOMAIN texts |-> parseRule(texts[i])])

-----------------------------------------------------------------------------
(* Rules written out after the grammar of the package's documentation.  An  *)
(* action is [name, args, fault]: its text and what it stands for.          *)
CONSTANT Rulesets

VARIABLES ruleset, parsed
vars == <<ruleset, parsed>>

Escaped(text) ==
  FlattenSeq([i \in DOMAIN text |-> IF text[i] \in {"\"", "\\"} THEN <<"\\", text[i]>> ELSE <<text[i]>>])
Quoted(text) == <<"\"">> \o Escaped(text) \o <<"\"">>

Join(texts, sep) ==
  FlattenSeq([i \in DOMAIN texts |-> IF i = 1 THEN texts[i] ELSE <<sep>> \o texts[i]])

WriteTerm(t) ==
  (IF t.mode = "" THEN << >> ELSE <<IF t.n = 1 THEN "1" ELSE "2", t.mode>>)
  \o (IF t.faults = << >> THEN <<"off">>
      ELSE LET f == t.faults[1]
           IN  CASE f.type = "latency"  -> <<"latency", "(">> \o f.arg[1] \o <<")">>
                 [] f.type = "jittered" -> <<"jitter", "(">> \o Join(f.arg, ",") \o <<")">>
                 [] f.type \in {"error", "panic"} -> <<f.type, "(">> \o Quoted(f.arg[1]) \o <<")">>
                 [] OTHER               -> <<"conndrop">>)

WriteSelectors(sels) ==
  LET call(name, args) == <<name, "(">> \o args \o <<")">>
  IN  Join([i \in DOMAIN sels.kinds |-> call("kind", sels.kinds[i])]
           \o (IF sels.glob = << >> THEN << >> ELSE <<call("name", sels.glob)>>)
           \o SetToSeq({call("attr", a[1] \o <<"=">> \o a[2]) : a \in sels.attrs}), ",")

WriteRule(r) ==
  (IF r.name = << >> THEN << >> ELSE r.name \o <<":">>)
  \o (IF r.sels = NoSelectors THEN << >> ELSE WriteSelectors(r.sels) \o <<"=">>)
  \o Join([i \in DOMAIN r.terms |-> WriteTerm(r.terms[i])], "->")

Write(rules) == Join([i \in DOMAIN rules |-> WriteRule(rules[i])], ";")

(* parsed is empty, then holds the one result. *)
Init == ruleset \in Rulesets /\ parsed = << >>
ReadRules == parsed = << >> /\ parsed' = <<Parse(Write(ruleset))>> /\ UNCHANGED ruleset
Next == ReadRules \/ (parsed # << >> /\ UNCHANGED vars)
Spec == Init /\ [][Next]_vars

-----------------------------------------------------------------------------
(* What is written after the grammar is read as it was meant: every name,   *)
(* selector, mode, stage and message, whatever separators, arrows, quotes   *)
(* and escapes a quoted message holds.                                     *)
ReadAsWritten == parsed # << >> => parsed[1] = Ok(ruleset)

=============================================================================
