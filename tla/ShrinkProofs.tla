---------------------------- MODULE ShrinkProofs ----------------------------
(***************************************************************************)
(* Proofs about Shrink, for every number of generators and of runs and for *)
(* every body.                                                             *)
(***************************************************************************)
EXTENDS Shrink, TLAPS

LEMMA ShrinkStarts == ShrinkInit => ShrinkInv
<1> SUFFICES ASSUME ShrinkInit PROVE ShrinkInv
  OBVIOUS
<1>1. seed = 1 /\ failed = FALSE /\ pc = "explore" /\ drop = 0 /\ cur = Gens
  BY DEF ShrinkInit, indices
<1>2. fails \in [Seeds -> SUBSET (SUBSET Gens)]
  BY DEF ShrinkInit
<1>3. seed \in Seeds /\ \A s \in 1 .. seed - 1 : Gens \notin fails[s]
  BY <1>1, ShrinkAssumption DEF Seeds
<1>4. ~failed /\ failed \in BOOLEAN /\ pc \in {"explore", "scan", "done"} /\ pc # "scan" /\ pc # "done"
  BY <1>1
<1>5. drop \in Int /\ cur = Gens
  BY <1>1
<1> QED
  BY <1>2, <1>3, <1>4, <1>5, Zenon DEF ShrinkInv

LEMMA RunKeeps == ShrinkInv /\ run => ShrinkInv'
<1> SUFFICES ASSUME ShrinkInv, run PROVE ShrinkInv'
  OBVIOUS
<1> USE DEF run, ShrinkInv, Seeds
<1>0. seed \in Int /\ 1 <= seed /\ seed <= Runs /\ Runs \in Int
  BY ShrinkAssumption
<1>1. CASE BodyFails(indices)
  <2>1. pc' = "scan" /\ drop' = 1 /\ failed' = TRUE /\ seed' = seed /\ fails' = fails /\ cur' = cur /\ cur = Gens
    BY <1>1
  <2>2. BodyFails(cur)' /\ \A i \in cur' : ~(i < drop')
    BY <1>1, <2>1 DEF BodyFails, indices, Gens
  <2> QED
    BY <2>1, <2>2
<1>2. CASE ~BodyFails(indices)
  <2>1. Gens \notin fails[seed]
    BY <1>2 DEF BodyFails, indices
  <2>2. fails' = fails /\ cur' = cur /\ drop' = drop /\ failed' = FALSE /\ cur = Gens
    BY <1>2
  <2>3. CASE seed = Runs
    BY <1>2, <2>2, <2>3
  <2>4. CASE seed # Runs
    <3>1. seed' = seed + 1 /\ pc' = "explore"
      BY <1>2, <2>4
    <3>2. \A s \in 1 .. seed : Gens \notin fails[s]
      BY <1>0, <2>1
    <3>3. seed' \in Seeds /\ seed' - 1 = seed
      BY <1>0, <2>4, <3>1
    <3> QED
      BY <2>2, <3>1, <3>2, <3>3
  <2> QED
    BY <2>3, <2>4
<1> QED
  BY <1>1, <1>2

LEMMA MinimizeKeeps == ShrinkInv /\ minimize => ShrinkInv'
<1> SUFFICES ASSUME ShrinkInv, minimize PROVE ShrinkInv'
  OBVIOUS
<1> USE DEF ShrinkInv, Scanned
<1>1. CASE Ended
  BY <1>1 DEF minimize, Ended, BodyFails, Needed, without
<1>2. ASSUME NEW i \in cur, Following(i), Kept(i) PROVE ShrinkInv'
  <2>1. i \in Int /\ drop' = i + 1 /\ cur' = cur /\ pc' = "scan" /\ fails' = fails /\ seed' = seed /\ failed' = failed
    BY <1>2 DEF Kept, minimize, Gens
  <2>2. \A j \in cur : j < i + 1 => Needed(j)
    BY <1>2, <2>1 DEF Kept, Following, Gens, minimize
  <2> QED
    BY <2>1, <2>2 DEF BodyFails, Needed, without, minimize
<1>3. ASSUME NEW i \in cur, Removed(i, 1) PROVE ShrinkInv'
  <2>1. cur' = without(cur, i) /\ drop' = 1 /\ pc' = "scan" /\ fails' = fails /\ seed' = seed /\ failed' = failed /\ failed
    BY <1>3 DEF Removed, minimize
  <2>2. cur' \subseteq Gens /\ \A j \in cur' : ~(j < drop')
    BY <2>1 DEF without, Gens
  <2>3. BodyFails(cur)'
    BY <1>3, <2>1 DEF Removed, Needed, BodyFails
  <2> QED
    BY <2>1, <2>2, <2>3
<1> QED
  BY <1>1, <1>2, <1>3 DEF minimize

(* ShrinkInv holds in every state of a property test. *)
THEOREM ShrinkInvariant == ShrinkSpec => []ShrinkInv
<1>1. ShrinkInv /\ [ShrinkNext]_shrinkVars => ShrinkInv'
  <2>1. ShrinkInv /\ UNCHANGED shrinkVars => ShrinkInv'
    BY DEF ShrinkInv, shrinkVars, BodyFails, Needed, without
  <2> QED
    BY <2>1, RunKeeps, MinimizeKeeps DEF ShrinkNext
<1> QED
  BY ShrinkStarts, <1>1, PTL DEF ShrinkSpec

(* Whatever the body, the configuration a property test reports fails, at   *)
(* the first seed that does, and none of its generators can be dropped.     *)
THEOREM ReportsAreMinimal == ShrinkSpec => []ReportIsMinimal
<1>1. ShrinkInv => ReportIsMinimal
  BY DEF ShrinkInv, ReportIsMinimal, Needed
<1> QED
  BY <1>1, ShrinkInvariant, PTL

=============================================================================
