------------------------- MODULE TokenBucketProofs -------------------------
(***************************************************************************)
(* The rate limiter's bounds, for every rate, clock granularity and length *)
(* of history.                                                             *)
(***************************************************************************)
EXTENDS TokenBucket, TLAPS

(* What allow would find in the bucket now. *)
Available == Filled(tokens, now - last)

(* What passed and what could still pass are paid for by the burst and the *)
(* time of the window. RateBounded alone forgets the bucket's content.     *)
Paid == passed * Second + Available <= max + rps * (now - start)

(* The bucket has kept all the time since the last call that passed. *)
Kept == Available >= Cap(rps * (now - lastOK))

IInv == TypeOK /\ Paid /\ Kept

-----------------------------------------------------------------------------
(* Products are naturals, and distribute over one more tick. *)
LEMMA RefillFacts ==
  ASSUME NEW x \in Nat
  PROVE  /\ rps * x \in Nat /\ x * rps = rps * x
         /\ rps * (x + 1) = rps * x + rps
         /\ max \in Nat /\ max >= Second /\ x * Second \in Nat
         /\ (x + 1) * Second = x * Second + Second
  BY BucketAssumption DEF max

(* The bucket never holds more than its burst, and a filled bucket is a    *)
(* natural number.                                                         *)
LEMMA FilledFacts ==
  ASSUME NEW t \in 0 .. max, NEW e \in Nat
  PROVE  Filled(t, e) \in 0 .. max /\ Filled(t, e) >= t
  BY RefillFacts DEF Filled, Cap

(* A filled bucket that is filled again at the same instant is unchanged. *)
LEMMA FilledAgain ==
  ASSUME NEW t \in 0 .. max
  PROVE  Filled(t, 0) = t
  <1>1. 0 * rps = 0 /\ max \in Nat
    BY BucketAssumption, RefillFacts
  <1> QED BY <1>1 DEF Filled, Cap

LEMMA AllowPreserves == IInv /\ Allow => IInv'
  <1> SUFFICES ASSUME IInv, Allow PROVE IInv'
    OBVIOUS
  <1> USE BucketAssumption
  <1>1. /\ now \in Nat /\ last \in 0 .. now /\ start \in 0 .. now /\ lastOK \in 0 .. now
        /\ tokens \in 0 .. max /\ passed \in Nat
    BY DEF IInv, TypeOK
  <1>2. /\ now' = now /\ start' = start /\ last' = now /\ lastOK' = now
        /\ passed' = passed + 1 /\ tokens' = Available - Second /\ Available >= Second
    BY DEF Allow, Available
  <1>3. Available \in 0 .. max
    BY <1>1, FilledFacts DEF Available
  <1>4. tokens' \in 0 .. max
    BY <1>2, <1>3, RefillFacts
  <1>5. TypeOK'
    BY <1>1, <1>2, <1>4 DEF TypeOK, max
  <1>6. Available' = Available - Second
    <2>1. Available' = Filled(tokens', 0)
      BY <1>1, <1>2 DEF Available, Filled, Cap, max
    <2> QED BY <1>2, <1>4, <2>1, FilledAgain
  <1>7. Paid'
    <2>1. passed' * Second = passed * Second + Second /\ passed * Second \in Nat
      BY <1>1, <1>2, RefillFacts
    <2>2. passed * Second + Available <= max + rps * (now - start)
      BY DEF IInv, Paid
    <2>3. rps * (now - start) \in Nat /\ max \in Nat
      BY <1>1, RefillFacts
    <2>4. passed' * Second + Available' <= max + rps * (now - start)
      BY <1>3, <1>6, <2>1, <2>2, <2>3
    <2> QED BY <1>2, <2>4 DEF Paid, max
  <1>8. Kept'
    <2>1. rps * (now - now) = 0 /\ max \in Nat /\ Second \in Nat
      BY <1>1, RefillFacts
    <2>2. Kept' <=> Available' >= Cap(rps * (now - now))
      BY <1>2 DEF Kept, Cap, max
    <2>3. Cap(rps * (now - now)) = 0
      BY <2>1 DEF Cap
    <2> QED BY <1>2, <1>3, <1>6, <2>1, <2>2, <2>3
  <1> QED BY <1>5, <1>7, <1>8 DEF IInv

LEMMA DenyPreserves == IInv /\ Deny => IInv'
  <1> SUFFICES ASSUME IInv, Deny PROVE IInv'
    OBVIOUS
  <1> USE BucketAssumption
  <1>1. /\ now \in Nat /\ last \in 0 .. now /\ start \in 0 .. now /\ lastOK \in 0 .. now
        /\ tokens \in 0 .. max /\ passed \in Nat
    BY DEF IInv, TypeOK
  <1>2. /\ now' = now /\ start' = start /\ last' = now /\ lastOK' = lastOK
        /\ passed' = passed /\ tokens' = Available
    BY DEF Deny, Available
  <1>3. Available \in 0 .. max
    BY <1>1, FilledFacts DEF Available
  <1>4. Available' = Available
    <2>1. Available' = Filled(tokens', 0)
      BY <1>1, <1>2 DEF Available, Filled, Cap, max
    <2> QED BY <1>2, <1>3, <2>1, FilledAgain
  <1>5. TypeOK'
    BY <1>1, <1>2, <1>3 DEF TypeOK, max
  <1> QED BY <1>2, <1>4, <1>5 DEF IInv, Paid, Kept, Cap, max

LEMMA TickPreserves == IInv /\ Tick => IInv'
  <1> SUFFICES ASSUME IInv, Tick PROVE IInv'
    OBVIOUS
  <1> USE BucketAssumption
  <1>1. /\ now \in Nat /\ last \in 0 .. now /\ start \in 0 .. now /\ lastOK \in 0 .. now
        /\ tokens \in 0 .. max /\ passed \in Nat
    BY DEF IInv, TypeOK
  <1>2. /\ now' = now + 1 /\ start' = start /\ last' = last /\ lastOK' = lastOK
        /\ passed' = passed /\ tokens' = tokens
    BY DEF Tick
  <1>3. TypeOK'
    BY <1>1, <1>2 DEF TypeOK, max
  <1>4. /\ now - last \in Nat /\ now - start \in Nat /\ now - lastOK \in Nat
        /\ now' - last = (now - last) + 1
        /\ now' - start = (now - start) + 1
        /\ now' - lastOK = (now - lastOK) + 1
    BY <1>1, <1>2
  <1> DEFINE A == rps * (now - last)
             S == rps * (now - start)
             K == rps * (now - lastOK)
  <1>5. /\ A \in Nat /\ S \in Nat /\ K \in Nat /\ rps \in Nat
        /\ (now - last) * rps = A /\ (now' - last) * rps = A + rps
        /\ rps * (now' - start) = S + rps
        /\ rps * (now' - lastOK) = K + rps
        /\ max \in Nat
    BY <1>4, RefillFacts
  <1>6. Available = Cap(tokens + A) /\ Available' = Cap(tokens + A + rps)
    <2>1. Available = Cap(tokens + (now - last) * rps)
      BY DEF Available, Filled
    <2>2. Available' = Cap(tokens + (now' - last) * rps)
      BY <1>2 DEF Available, Filled, Cap, max
    <2>3. tokens + (now' - last) * rps = tokens + A + rps
      BY <1>1, <1>5
    <2> QED BY <1>5, <2>1, <2>2, <2>3
  <1>7. passed * Second \in Nat
    BY <1>1, RefillFacts
  <1> HIDE DEF A, S, K
  <1>8. Paid'
    <2>1. passed * Second + Available <= max + S
      BY DEF IInv, Paid, S
    <2>2. passed * Second + Available' <= max + (S + rps)
      BY <1>1, <1>5, <1>6, <1>7, <2>1 DEF Cap
    <2> QED BY <1>2, <1>5, <2>2 DEF Paid, max
  <1>9. Kept'
    <2>1. Available >= Cap(K)
      BY DEF IInv, Kept, K
    <2>2. Available' >= Cap(K + rps)
      BY <1>1, <1>5, <1>6, <2>1 DEF Cap
    <2> QED BY <1>2, <1>5, <2>2 DEF Kept, Cap, max
  <1> QED BY <1>3, <1>8, <1>9 DEF IInv

LEMMA ObservePreserves == IInv /\ Observe => IInv'
  <1> SUFFICES ASSUME IInv, Observe PROVE IInv'
    OBVIOUS
  <1> USE BucketAssumption
  <1>1. /\ now \in Nat /\ last \in 0 .. now /\ tokens \in 0 .. max
    BY DEF IInv, TypeOK
  <1>2. /\ now' = now /\ start' = now /\ last' = last /\ lastOK' = lastOK
        /\ passed' = 0 /\ tokens' = tokens
    BY DEF Observe
  <1>3. Available \in 0 .. max /\ Available' = Available
    BY <1>1, <1>2, FilledFacts DEF Available, Filled, Cap, max
  <1>4. TypeOK'
    BY <1>2 DEF IInv, TypeOK, max
  <1>5. Paid'
    BY <1>1, <1>2, <1>3, RefillFacts DEF Paid, max
  <1>6. Kept'
    BY <1>2, <1>3 DEF IInv, Kept, Cap, max
  <1> QED BY <1>4, <1>5, <1>6 DEF IInv

(* The inductive invariant holds in every behaviour. *)
THEOREM BucketInvariant == Spec => []IInv
  <1>1. Init => IInv
    <2> SUFFICES ASSUME Init PROVE IInv
      OBVIOUS
    <2>1. max \in Nat /\ max >= Second /\ 0 * rps = 0 /\ rps * 0 = 0 /\ 0 * Second = 0
      BY RefillFacts, BucketAssumption
    <2> QED BY <2>1, BucketAssumption DEF Init, IInv, TypeOK, Paid, Kept, Available, Filled, Cap
  <1>2. IInv /\ [Next]_vars => IInv'
    <2> SUFFICES ASSUME IInv, [Next]_vars PROVE IInv'
      OBVIOUS
    <2>1. CASE UNCHANGED vars
      BY <2>1 DEF vars, IInv, TypeOK, Paid, Kept, Available, Filled, Cap, max
    <2> QED BY <2>1, AllowPreserves, DenyPreserves, TickPreserves, ObservePreserves DEF Next
  <1> QED BY <1>1, <1>2, PTL DEF Spec

(* No window sees more than the burst plus rps per second, for any rate. *)
THEOREM RateIsBounded == Spec => []RateBounded
  <1>1. IInv => RateBounded
    <2> SUFFICES ASSUME IInv PROVE RateBounded
      OBVIOUS
    <2>1. Available \in 0 .. max
      BY FilledFacts DEF IInv, TypeOK, Available
    <2>2. passed * Second \in Nat /\ rps * (now - start) \in Nat /\ max \in Nat
      BY RefillFacts DEF IInv, TypeOK
    <2> QED BY <2>1, <2>2 DEF IInv, Paid, RateBounded
  <1> QED BY <1>1, BucketInvariant, PTL

(* Polling a limiter costs nothing: a denial means the last call that      *)
(* passed is less than one token's time ago.                               *)
THEOREM DenialsAreRecent == Spec => DeniedOnlyRecently
  <1>1. IInv /\ [Next]_vars => [Deny => rps * (now - lastOK) < Second]_vars
    <2> SUFFICES ASSUME IInv, Deny PROVE rps * (now - lastOK) < Second
      OBVIOUS
    <2>1. Available < Second
      BY DEF Deny, Available
    <2>2. /\ rps * (now - lastOK) \in Nat /\ max \in Nat /\ max >= Second
          /\ Available \in 0 .. max
      <3>1. now - lastOK \in Nat /\ now - last \in Nat /\ tokens \in 0 .. max
        BY DEF IInv, TypeOK
      <3> QED BY <3>1, RefillFacts, FilledFacts DEF Available
    <2> QED BY <2>1, <2>2, BucketAssumption DEF IInv, Kept, Cap
  <1> QED BY <1>1, BucketInvariant, PTL DEF Spec, DeniedOnlyRecently

=============================================================================
