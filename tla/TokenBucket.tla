---------------------------- MODULE TokenBucket ----------------------------
(***************************************************************************)
(* The rate limiter of engine/ratelimit.go (WithRateLimit and              *)
(* WithPerRuleRateLimit).  A second has Second ticks, and a token is       *)
(* counted as Second parts, so that one tick of refill at rps tokens per   *)
(* second is exactly rps parts: the code's float64 arithmetic without its  *)
(* rounding.  allow runs under the bucket's mutex: one step.               *)
(***************************************************************************)
EXTENDS Integers

CONSTANTS rps,      \* >= 1 (newTokenBucket panics otherwise)
          Second,   \* ticks of the clock in one second
          MaxTime   \* bound: the clock stops here

ASSUME BucketAssumption == /\ rps \in Nat \ {0}
                           /\ Second \in Nat \ {0}
                           /\ MaxTime \in Nat

VARIABLES
  now,      \* time.Now(), monotonic
  tokens,   \* parts in the bucket when allow last ran
  last,     \* when allow last ran
  start,    \* history: start of an observed window, chosen at any time
  passed,   \* history: calls allowed since start
  lastOK    \* history: when a call was last allowed (creation counts)

vars == <<now, tokens, last, start, passed, lastOK>>

max == rps * Second

Cap(parts) == IF parts > max THEN max ELSE parts

\* only whole tokens are added; the fraction of the elapsed time is lost
FilledWhole(parts, elapsed) == Cap(parts + ((elapsed * rps) \div Second) * Second)

\* the bucket is not clamped to its burst capacity
FilledUnclamped(parts, elapsed) == parts + elapsed * rps

(* The parts in the bucket once the elapsed time is credited. *)
Filled(parts, elapsed) == Cap(parts + elapsed * rps)

Init ==
  /\ now = 0
  /\ tokens = max          \* newTokenBucket starts full
  /\ last = 0
  /\ start = 0 /\ passed = 0 /\ lastOK = 0

Allow ==
  /\ Filled(tokens, now - last) >= Second
  /\ tokens' = Filled(tokens, now - last) - Second
  /\ last' = now
  /\ passed' = passed + 1
  /\ lastOK' = now
  /\ UNCHANGED <<now, start>>

Deny ==
  /\ Filled(tokens, now - last) < Second
  /\ tokens' = Filled(tokens, now - last)
  /\ last' = now
  /\ UNCHANGED <<now, start, passed, lastOK>>

Tick ==
  /\ now < MaxTime
  /\ now' = now + 1
  /\ UNCHANGED <<tokens, last, start, passed, lastOK>>

(* An observer begins to count. *)
Observe ==
  /\ start' = now
  /\ passed' = 0
  /\ UNCHANGED <<now, tokens, last, lastOK>>

Next == Allow \/ Deny \/ Tick \/ Observe

Spec == Init /\ [][Next]_vars

-----------------------------------------------------------------------------
(* The bucket holds between nothing and its burst capacity, and allow      *)
(* never ran in the future.                                                *)
TypeOK ==
  /\ now \in Nat /\ last \in 0 .. now /\ start \in 0 .. now /\ lastOK \in 0 .. now
  /\ tokens \in 0 .. max
  /\ passed \in Nat

(* Over any window, however allow is called in it and before it: no more   *)
(* calls pass than the burst plus rps for every second of the window.      *)
RateBounded == passed * Second <= max + rps * (now - start)

(* Time is never lost to polling: a call is denied only if the last call   *)
(* that passed is less than one token's time ago, however often allow was  *)
(* called and denied since.                                                *)
DeniedOnlyRecently == [][Deny => rps * (now - lastOK) < Second]_vars

=============================================================================
