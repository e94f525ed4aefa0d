----------------------------- MODULE TimeWindow -----------------------------
(***************************************************************************)
(* The daily window of a rule (engine/match_time.go) against a wall clock  *)
(* that runs on, minute by minute, from any time of day.                   *)
(***************************************************************************)
EXTENDS Integers

CONSTANTS
  Hour, Day,    \* minutes of an hour and of a day
  Windows       \* windows of the rules: [startH, startM, endH, endM]

VARIABLES
  window, now,
  since        \* history: minutes since the clock last showed the start, Day if it never did

vars == <<window, now, since>>

start(w) == w.startH * Hour + w.startM
end(w)   == w.endH * Hour + w.endM

\* the end belongs to the window
MatchEnd(s, e, cur) ==
  IF s = e THEN FALSE ELSE IF s < e THEN cur >= s /\ cur <= e ELSE cur >= s \/ cur <= e

matchTimeWindowAt(s, e, cur) ==
  IF s = e THEN FALSE
  ELSE IF s < e THEN cur >= s /\ cur < e
  ELSE cur >= s \/ cur < e

Matches(t) == matchTimeWindowAt(start(window), end(window), t)

(* Minutes from a to b on the clock's face. *)
Ahead(a, b) == (b - a) % Day

Init ==
  /\ window \in Windows /\ now \in 0 .. Day - 1
  /\ since = IF now = start(window) THEN 0 ELSE Day

Tick ==
  /\ now' = (now + 1) % Day
  /\ since' = IF now' = start(window) THEN 0 ELSE IF since < Day THEN since + 1 ELSE Day
  /\ UNCHANGED window

Next == Tick
Spec == Init /\ [][Next]_vars

-----------------------------------------------------------------------------
(* MatchTimeWindow: "the daily window [startH:startM, endH:endM)".  A window *)
(* opens when the clock shows its start and stays open, over midnight too,  *)
(* for as many minutes as the clock takes to the end, then is shut until    *)
(* the next start; one with start = end never opens.  The end is outside,   *)
(* that of 00:00-23:59 too (see FullDayMatches).                            *)
OpensForItsLength ==
  since < Day => (Matches(now) <=> since < Ahead(start(window), end(window)))

(* match_time_test.go: "a 00:00-23:59 window should match at any time of    *)
(* day".                                                                   *)
FullDay == [startH |-> 0, startM |-> 0, endH |-> 23, endM |-> 59]
FullDayMatches == window = FullDay => Matches(now)

=============================================================================
