------------------------------- MODULE Shrink -------------------------------
(***************************************************************************)
(* Property tests (chaostest/property): configurations are tried seed by   *)
(* seed; the first that fails is minimized by dropping one generator at a  *)
(* time.  The rule of generator i at a seed depends on nothing else        *)
(* (rngFor), so a body is the set of generator sets it fails on, by seed.  *)
(***************************************************************************)
EXTENDS Integers, FiniteSets

CONSTANTS N, Runs     \* generators, configurations to explore
ASSUME ShrinkAssumption == N \in Nat \ {0} /\ Runs \in Nat \ {0}

Gens  == 1 .. N
Seeds == 1 .. Runs

VARIABLES
  fails,     \* the body: per seed, the sets of generators it fails on
  pc,        \* "explore", "scan" or "done"
  seed,
  cur,       \* minimize's current indices; the slice is always increasing
  drop,      \* indices below it were tried in this scan
  failed     \* result.failed

shrinkVars == <<fails, pc, seed, cur, drop, failed>>

indices == Gens
without(s, x) == s \ {x}
BodyFails(s) == s \in fails[seed]

ShrinkInit ==
  /\ fails \in [Seeds -> SUBSET (SUBSET Gens)]
  /\ pc = "explore" /\ seed = 1 /\ cur = indices /\ drop = 0 /\ failed = FALSE

(* run: the whole set at the next seed. *)
run ==
  /\ pc = "explore"
  /\ IF BodyFails(indices) THEN /\ pc' = "scan" /\ drop' = 1 /\ failed' = TRUE
                                /\ UNCHANGED seed
     ELSE /\ pc' = IF seed = Runs THEN "done" ELSE "explore"
          /\ seed' = IF seed = Runs THEN seed ELSE seed + 1
          /\ UNCHANGED <<drop, failed>>
  /\ UNCHANGED <<fails, cur>>

(* The next index the scan comes to. *)
Following(i) == i \in cur /\ i >= drop /\ \A j \in cur : j >= drop => i <= j

Scanned == pc = "scan" /\ UNCHANGED <<fails, seed, failed>>
Ended   == (\A j \in cur : j < drop) /\ pc' = "done" /\ UNCHANGED <<cur, drop>>
Needed(i) == without(cur, i) = {} \/ ~BodyFails(without(cur, i))
Kept(i)   == Needed(i) /\ drop' = i + 1 /\ UNCHANGED <<cur, pc>>
Removed(i, next) == ~Needed(i) /\ cur' = without(cur, i) /\ drop' = next /\ UNCHANGED pc

\* the scan goes on where it was
MinimizeOnePass ==
  /\ Scanned
  /\ \/ Ended
     \/ \E i \in cur : Following(i) /\ (Kept(i) \/ Removed(i, i + 1))

\* every scan is followed by another
MinimizeRescans ==
  /\ Scanned
  /\ \/ (\A j \in cur : j < drop) /\ drop' = 1 /\ UNCHANGED <<pc, cur>>
     \/ \E i \in cur : Following(i) /\ (Kept(i) \/ Removed(i, 1))

(* minimize: a candidate that still fails becomes the current set and the  *)
(* scan starts again; a scan that removed nothing is the last.             *)
minimize ==
  /\ Scanned
  /\ \/ Ended
     \/ \E i \in cur : Following(i) /\ (Kept(i) \/ Removed(i, 1))

ShrinkNext == run \/ minimize
ShrinkSpec == ShrinkInit /\ [][ShrinkNext]_shrinkVars /\ WF_shrinkVars(ShrinkNext)

-----------------------------------------------------------------------------
(* The set reported fails, at the seed reported, and dropping any one more  *)
(* of its generators makes the body pass: for every body, those whose       *)
(* failures come and go as generators are dropped included.                 *)
ReportIsMinimal ==
  pc = "done" /\ failed =>
    /\ BodyFails(cur)
    /\ \A i \in cur : without(cur, i) # {} => ~BodyFails(without(cur, i))
    /\ \A s \in 1 .. seed - 1 : Gens \notin fails[s]

(* The inductive invariant behind it: a scan keeps a set that fails, the    *)
(* indices it has passed are needed for it, and no earlier seed failed.     *)
ShrinkInv ==
  /\ fails \in [Seeds -> SUBSET (SUBSET Gens)] /\ pc \in {"explore", "scan", "done"}
  /\ seed \in Seeds /\ cur \subseteq Gens /\ drop \in Int /\ failed \in BOOLEAN
  /\ \A s \in 1 .. seed - 1 : Gens \notin fails[s]
  /\ pc = "explore" => cur = Gens /\ ~failed
  /\ pc = "scan" => failed
  /\ failed => BodyFails(cur) /\ \A i \in cur : i < drop => Needed(i)
  /\ pc = "done" /\ failed => \A i \in cur : i < drop

(* A configuration that fails is found, and minimizing it ends. *)
Ends == <>(pc = "done" /\ (failed <=> \E s \in Seeds : Gens \in fails[s]))

=============================================================================
