------------------------------- MODULE Stream -------------------------------
(***************************************************************************)
(* Shaped streams (adapter/io): one wrapped reader or writer, used by one  *)
(* goroutine while the engine is switched on and off.  The wrapped stream  *)
(* is external and keeps the contract of io.Reader or io.Writer.           *)
(***************************************************************************)
EXTENDS Integers

CONSTANTS
  Shapes,    \* stream faults the engine may fire: [mode, rate, limit]
  MaxLen,    \* bound: length of a buffer
  Supply     \* bound: bytes the wrapped reader holds

ASSUME StreamAssumption ==
  /\ MaxLen \in Nat /\ Supply \in Nat
  /\ Shapes \subseteq [mode : {"read", "write", "truncate"}, rate : Nat, limit : Nat]

VARIABLES
  dir,        \* "read" or "write"
  enabled,
  armed, remaining,   \* truncCap
  left,       \* bytes the wrapped reader still has
  pc,         \* "idle", "slow", "blocked"
  result,     \* of the last call: [len, n, err]
  limit,      \* history: limit of the Truncate that armed the cap
  through     \* history: bytes moved since, by calls that found the engine on

streamVars == <<dir, enabled, armed, remaining, left, pc, result, limit, through>>

Least(a, b) == IF a < b THEN a ELSE b

StreamInit ==
  /\ dir \in {"read", "write"} /\ enabled \in BOOLEAN
  /\ armed = FALSE /\ remaining = 0 /\ limit = 0 /\ through = 0
  /\ left = Supply /\ pc = "idle"
  /\ result = [len |-> 0, n |-> 0, err |-> "nil"]

(* What the wrapped stream may answer to a buffer of length l: a reader    *)
(* gives what it has, in pieces, and may say EOF with the last; a writer   *)
(* that takes less than l says why.                                        *)
Inner(l) ==
  {r \in [len : {l}, n : 0 .. l, err : {"nil", "EOF", "inner"}] :
     IF dir = "read" THEN r.n <= left /\ (r.err = "EOF" => r.n = left)
     ELSE r.err # "EOF" /\ (r.n < l => r.err = "inner")}

Taken(r) == left' = IF dir = "read" THEN left - r.n ELSE left

(* The buffer is cut to what the cap leaves. *)
cappedRead(len, cap) ==
  IF cap <= 0 THEN {[len |-> len, n |-> 0, err |-> "EOF"]}
  ELSE {[r EXCEPT !.len = len] : r \in Inner(Least(len, cap))}

\* a cut is not told
CappedWriteSilent(len, cap) ==
  IF cap <= 0 THEN {[len |-> len, n |-> 0, err |-> "short"]}
  ELSE {[r EXCEPT !.len = len] : r \in Inner(Least(len, cap))}

cappedWrite(len, cap) ==
  IF cap <= 0 THEN {[len |-> len, n |-> 0, err |-> "short"]}
  ELSE {[len |-> len, n |-> r.n, err |-> IF r.err = "nil" /\ len > cap THEN "short" ELSE r.err] :
          r \in Inner(Least(len, cap))}

Capped(len, cap) == IF dir = "read" THEN cappedRead(len, cap) ELSE cappedWrite(len, cap)

-----------------------------------------------------------------------------
Moved(r) == through' = IF armed' THEN through + r.n ELSE 0
Same     == UNCHANGED <<dir, enabled>>

(* The engine is off: straight through, the cap asleep. *)
callDisabled(len) ==
  \E r \in Inner(len) :
    /\ pc = "idle" /\ ~enabled
    /\ result' = r /\ Taken(r)
    /\ UNCHANGED <<armed, remaining, pc, limit, through>> /\ Same

(* The cap is armed: the engine is not asked again. *)
callCapped(len) ==
  \E r \in Capped(len, remaining) :
    /\ pc = "idle" /\ enabled /\ armed
    /\ result' = r /\ Taken(r)
    /\ remaining' = remaining - r.n
    /\ UNCHANGED <<armed, pc, limit>> /\ Moved(r) /\ Same

(* No rule fires, or a fault that shapes nothing here. *)
callPlain(len) ==
  \E r \in Inner(len) \cup {[len |-> len, n |-> 0, err |-> "injected"]} :
    /\ pc = "idle" /\ enabled /\ ~armed
    /\ result' = r /\ Taken(r)
    /\ UNCHANGED <<armed, remaining, pc, limit>> /\ Moved(r) /\ Same

\* every call asks, and a second Truncate arms the cap anew
TruncateAgain(len, f) ==
  \E r \in Capped(len, f.limit) :
    /\ pc = "idle" /\ enabled /\ f.mode = "truncate"
    /\ armed' = TRUE /\ remaining' = f.limit - r.n /\ limit' = IF armed THEN limit ELSE f.limit
    /\ result' = r /\ Taken(r) /\ through' = IF armed THEN through + r.n ELSE r.n
    /\ UNCHANGED pc /\ Same

(* Truncate arms the cap and the same call is already under it. *)
callTruncate(len, f) ==
  \E r \in Capped(len, f.limit) :
    /\ pc = "idle" /\ enabled /\ ~armed /\ f.mode = "truncate"
    /\ armed' = TRUE /\ remaining' = f.limit - r.n /\ limit' = f.limit
    /\ result' = r /\ Taken(r) /\ through' = r.n
    /\ UNCHANGED pc /\ Same

(* A slow fault of the right side sleeps after the call, for rate 0 for ever. *)
callSlow(len, f) ==
  \E r \in Inner(len) :
    /\ pc = "idle" /\ enabled /\ ~armed /\ f.mode = dir
    /\ result' = r /\ Taken(r)
    /\ pc' = IF f.rate = 0 THEN "blocked" ELSE IF r.n > 0 THEN "slow" ELSE "idle"
    /\ UNCHANGED <<armed, remaining, limit, through>> /\ Same

wake == pc = "slow" /\ pc' = "idle"
        /\ UNCHANGED <<dir, enabled, armed, remaining, left, result, limit, through>>

Toggle == enabled' = ~enabled
          /\ UNCHANGED <<dir, armed, remaining, left, pc, result, limit, through>>

StreamNext ==
  \/ \E len \in 0 .. MaxLen :
       \/ callDisabled(len) \/ callCapped(len) \/ callPlain(len)
       \/ \E f \in Shapes : callTruncate(len, f) \/ callSlow(len, f)
  \/ wake \/ Toggle

StreamSpec == StreamInit /\ [][StreamNext]_streamVars

-----------------------------------------------------------------------------
(* Truncate "cuts a chaosio-wrapped stream off after n bytes": whatever is  *)
(* asked for in whatever pieces, no more than the first limit is moved,     *)
(* the cap ends exactly there, and turning the engine off and on in between *)
(* neither renews nor spends it.                                           *)
CutOff ==
  armed => /\ through <= limit
           /\ remaining = limit - through

(* The writer keeps io.Writer's contract when it cuts: fewer bytes than     *)
(* asked for come with an error.                                           *)
ShortIsTold == dir = "write" /\ result.n < result.len => result.err # "nil"

=============================================================================
