------------------------------- MODULE Staged -------------------------------
(***************************************************************************)
(* A staged rule (engine/staged.go) fed with one match after another.  The *)
(* code locates the stage of a match by comparing an atomic match number   *)
(* with cumulative ends; the properties say what a user of WithStages      *)
(* expects of the sequence of stages served.                               *)
(***************************************************************************)
EXTENDS Counters, Functions

CONSTANTS MaxStages, MaxTimes,   \* bounds: stages of a list, Times of a stage
          MaxMatches             \* bound: matches counted

StageLists == UNION {[1 .. k -> [times : -1 .. MaxTimes]] : k \in 0 .. MaxStages}

VARIABLES stages,   \* the rule's stages
          n,        \* matches so far (stagedCounter.cur)
          served    \* history: matches each stage has served

vars == <<stages, n, served>>

(* WithStages panics on a list that does not validate. *)
Init ==
  /\ stages \in {list \in StageLists : ValidStages(list)}
  /\ n = 0
  /\ served = [i \in DOMAIN stages |-> 0]

(* One match: the counter advances and the active stage, if any, serves. *)
Match ==
  /\ n < MaxMatches
  /\ n' = n + 1
  /\ LET i == ActiveStage(stages, n + 1)
     IN  served' = IF i = 0 THEN served ELSE [served EXCEPT ![i] = @ + 1]
  /\ UNCHANGED stages

Done == n = MaxMatches /\ UNCHANGED vars

Next == Match \/ Done

Spec == Init /\ [][Next]_vars

-----------------------------------------------------------------------------
Finite(i) == ~(i = Len(stages) /\ OpenEnded(stages))

(* Stages are served in order and in full: a finite stage never serves     *)
(* more than its Times matches, and none serves before the one in front of *)
(* it is through.                                                          *)
StagesInOrder ==
  \A i \in DOMAIN stages :
    /\ Finite(i) => served[i] <= stages[i].times
    /\ i > 1 /\ served[i] > 0 => served[i - 1] = stages[i - 1].times

(* No match falls between two stages: the rule goes quiet only when every  *)
(* stage is finite and has served its Times matches.                       *)
NoMatchDropped ==
  SumFunction(served) < n =>
    \A i \in DOMAIN stages : Finite(i) /\ served[i] = stages[i].times

=============================================================================
