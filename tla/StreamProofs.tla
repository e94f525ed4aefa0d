---------------------------- MODULE StreamProofs ----------------------------
(***************************************************************************)
(* Proofs about Stream, for buffers, supplies and cuts of every length.    *)
(***************************************************************************)
EXTENDS Stream, TLAPS

(* The inductive invariant: both properties, and types. *)
StreamInv ==
  /\ armed \in BOOLEAN /\ remaining \in Int /\ limit \in Int /\ through \in Nat
  /\ result.n \in Int /\ result.len \in Int
  /\ CutOff
  /\ ShortIsTold

(* The contract of the wrapped stream, as far as the wrapper relies on it. *)
LEMMA InnerContract ==
  ASSUME NEW l \in Nat, NEW r \in Inner(l)
  PROVE  /\ r.len = l /\ r.n \in Nat /\ r.n <= l
         /\ dir = "write" /\ r.n < l => r.err # "nil"
  BY DEF Inner

(* A call under a cap moves no more than the cap leaves, and a writer that  *)
(* moves less than it was given says so.                                    *)
LEMMA CappedContract ==
  ASSUME NEW l \in Nat, NEW cap \in Nat, NEW r \in Capped(l, cap)
  PROVE  /\ r.len = l /\ r.n \in Nat /\ r.n <= cap
         /\ dir = "write" /\ r.n < l => r.err # "nil"
<1>1. CASE cap = 0
  <2>1. r = [len |-> l, n |-> 0, err |-> "EOF"] \/ r = [len |-> l, n |-> 0, err |-> "short"]
    BY <1>1 DEF Capped, cappedRead, cappedWrite
  <2>2. r.len = l /\ r.n = 0 /\ r.err # "nil"
    BY <2>1
  <2> QED
    BY <2>2, <1>1
<1>2. CASE cap > 0 /\ dir = "read"
  <2>1. PICK q \in Inner(Least(l, cap)) : r = [q EXCEPT !.len = l]
    BY <1>2 DEF Capped, cappedRead
  <2>2. Least(l, cap) \in Nat /\ Least(l, cap) <= cap
    BY DEF Least
  <2>3. q.n \in Nat /\ q.n <= Least(l, cap)
    BY <2>2, InnerContract
  <2>4. r.len = l /\ r.n = q.n
    BY <2>1 DEF Inner
  <2> QED
    BY <1>2, <2>2, <2>3, <2>4
<1>3. CASE cap > 0 /\ dir # "read"
  <2>1. PICK q \in Inner(Least(l, cap)) :
          r = [len |-> l, n |-> q.n, err |-> IF q.err = "nil" /\ l > cap THEN "short" ELSE q.err]
    BY <1>3 DEF Capped, cappedWrite
  <2>2. Least(l, cap) \in Nat /\ Least(l, cap) <= cap /\ (l <= cap => Least(l, cap) = l)
    BY DEF Least
  <2>3. /\ q.n \in Nat /\ q.n <= Least(l, cap)
        /\ dir = "write" /\ q.n < Least(l, cap) => q.err # "nil"
    BY <2>2, InnerContract
  <2>4. /\ r.len = l /\ r.n = q.n
        /\ r.err = IF q.err = "nil" /\ l > cap THEN "short" ELSE q.err
    BY <2>1
  <2>5. dir = "write" /\ r.n < l => r.err # "nil"
    BY <2>2, <2>3, <2>4
  <2> QED
    BY <2>2, <2>3, <2>4, <2>5
<1> QED
  BY <1>1, <1>2, <1>3

LEMMA StreamStarts == StreamInit => StreamInv
<1> SUFFICES ASSUME StreamInit PROVE StreamInv
  OBVIOUS
<1>1. ~armed /\ armed \in BOOLEAN /\ remaining = 0 /\ limit = 0 /\ through = 0 /\ result.n = 0 /\ result.len = 0
  BY DEF StreamInit
<1> QED
  BY <1>1 DEF StreamInv, CutOff, ShortIsTold

LEMMA StreamKeeps == StreamInv /\ [StreamNext]_streamVars => StreamInv'
<1> SUFFICES ASSUME StreamInv, [StreamNext]_streamVars PROVE StreamInv'
  OBVIOUS
<1> USE DEF StreamInv, CutOff, ShortIsTold, Same
<1>1. ASSUME NEW len \in 0 .. MaxLen, callDisabled(len) PROVE StreamInv'
  <2>1. PICK r \in Inner(len) : result' = r /\ UNCHANGED <<dir, armed, remaining, limit, through>>
    BY <1>1 DEF callDisabled
  <2>2. len \in Nat
    BY StreamAssumption
  <2> QED
    BY <2>1, <2>2, InnerContract
<1>2. ASSUME NEW len \in 0 .. MaxLen, callCapped(len) PROVE StreamInv'
  <2>1. PICK r \in Capped(len, remaining) :
          /\ armed /\ armed' = armed /\ result' = r /\ remaining' = remaining - r.n
          /\ limit' = limit /\ dir' = dir /\ through' = through + r.n
    BY <1>2 DEF callCapped, Moved
  <2>2. len \in Nat /\ remaining \in Nat
    BY <2>1, StreamAssumption
  <2>3. r.len = len /\ r.n \in Nat /\ r.n <= remaining /\ (dir = "write" /\ r.n < len => r.err # "nil")
    BY <2>2, CappedContract
  <2>4. CutOff' /\ through' \in Nat /\ remaining' \in Int
    BY <2>1, <2>2, <2>3
  <2> QED
    BY <2>1, <2>3, <2>4, <2>2
<1>3. ASSUME NEW len \in 0 .. MaxLen, callPlain(len) PROVE StreamInv'
  <2>1. PICK r \in Inner(len) \cup {[len |-> len, n |-> 0, err |-> "injected"]} :
          /\ ~armed /\ armed' = armed /\ result' = r /\ remaining' = remaining
          /\ limit' = limit /\ dir' = dir /\ through' = 0
    BY <1>3 DEF callPlain, Moved
  <2>2. len \in Nat
    BY StreamAssumption
  <2>3. r.len = len /\ r.n \in Nat /\ (dir = "write" /\ r.n < len => r.err # "nil")
    BY <2>1, <2>2, InnerContract
  <2> QED
    BY <2>1, <2>2, <2>3
<1>4. ASSUME NEW len \in 0 .. MaxLen, NEW f \in Shapes, callTruncate(len, f) PROVE StreamInv'
  <2>1. PICK r \in Capped(len, f.limit) :
          /\ armed' = TRUE /\ remaining' = f.limit - r.n /\ limit' = f.limit
          /\ result' = r /\ through' = r.n /\ dir' = dir
    BY <1>4 DEF callTruncate
  <2>2. len \in Nat /\ f.limit \in Nat
    BY StreamAssumption
  <2>3. r.len = len /\ r.n \in Nat /\ r.n <= f.limit /\ (dir = "write" /\ r.n < len => r.err # "nil")
    BY <2>2, CappedContract
  <2> QED
    BY <2>1, <2>2, <2>3
<1>5. ASSUME NEW len \in 0 .. MaxLen, NEW f \in Shapes, callSlow(len, f) PROVE StreamInv'
  <2>1. PICK r \in Inner(len) : result' = r /\ UNCHANGED <<dir, armed, remaining, limit, through>>
    BY <1>5 DEF callSlow
  <2>2. len \in Nat
    BY StreamAssumption
  <2> QED
    BY <2>1, <2>2, InnerContract
<1>6. ASSUME wake \/ Toggle \/ UNCHANGED streamVars PROVE StreamInv'
  <2>1. UNCHANGED <<dir, armed, remaining, limit, through, result>>
    BY <1>6 DEF wake, Toggle, streamVars
  <2> QED
    BY <2>1
<1> QED
  BY <1>1, <1>2, <1>3, <1>4, <1>5, <1>6 DEF StreamNext

(* Whatever lengths are asked for and however often the engine is switched, *)
(* a truncated stream moves exactly what its cap has lost, and no more than *)
(* the limit.                                                               *)
THEOREM StreamsAreCutOff == StreamSpec => []CutOff
<1>1. StreamInv => CutOff
  BY DEF StreamInv
<1> QED
  BY <1>1, StreamStarts, StreamKeeps, PTL DEF StreamSpec

(* A writer never swallows bytes without an error, cut or not. *)
THEOREM ShortWritesAreTold == StreamSpec => []ShortIsTold
<1>1. StreamInv => ShortIsTold
  BY DEF StreamInv
<1> QED
  BY <1>1, StreamStarts, StreamKeeps, PTL DEF StreamSpec

=============================================================================
