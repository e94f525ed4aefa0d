------------------------------ MODULE Counters ------------------------------
(***************************************************************************)
(* The fire strategies of engine/rule.go and engine/staged.go as functions *)
(* of the match number n (1-indexed: the value the atomic Add(1) of the    *)
(* strategy's cur returned).  A strategy is a record tagged by its kind:   *)
(*   always | times (n) | range (from, to) | sequence (fire) | prob |      *)
(*   staged (stages, a sequence of [times, faults])                        *)
(***************************************************************************)
EXTENDS Integers, Sequences

alwaysFires(c, n)   == TRUE

\* one match too many fires
TimesOffByOne(c, n) == n <= c.n + 1
timesFires(c, n)    == n <= c.n

rangeFires(c, n)    == n >= c.from /\ n <= c.to

sequenceFires(c, n) == n \in DOMAIN c.fire /\ c.fire[n]

-----------------------------------------------------------------------------
(* Staged rules. *)

(* validateStages: at least one stage, only the last may have times 0. *)
ValidStages(stages) ==
  /\ stages # << >>
  /\ \A i \in DOMAIN stages : IF i = Len(stages) THEN stages[i].times >= 0
                                                 ELSE stages[i].times > 0

OpenEnded(stages) == stages[Len(stages)].times = 0

(* newStagedCounter: the cumulative end of every stage.  An open-ended     *)
(* last stage has times 0, so its end is the total, as in the code.        *)
Cum(stages) ==
  LET cum[i \in 0 .. Len(stages)] == IF i = 0 THEN 0 ELSE cum[i - 1] + stages[i].times
  IN  cum

\* the end of a stage is exclusive
ActiveStageExclusive(stages, n) ==
  LET ends == {i \in DOMAIN stages : \/ i = Len(stages) /\ OpenEnded(stages)
                                     \/ n < Cum(stages)[i]}
  IN  IF ends = {} THEN 0 ELSE CHOOSE i \in ends : \A j \in ends : i <= j

(* fire: the first stage whose end is not yet passed; 0 past the last. *)
ActiveStage(stages, n) ==
  LET ends == {i \in DOMAIN stages : \/ i = Len(stages) /\ OpenEnded(stages)
                                     \/ n <= Cum(stages)[i]}
  IN  IF ends = {} THEN 0 ELSE CHOOSE i \in ends : \A j \in ends : i <= j

-----------------------------------------------------------------------------
(* The answers shouldFire (for staged: fire) may give to match n.  A draw  *)
(* of a probability strictly between 0 and 1 may go either way.            *)
shouldFire(c, n) ==
  {fire \in BOOLEAN :
     /\ c.kind = "always"   => fire = alwaysFires(c, n)
     /\ c.kind = "times"    => fire = timesFires(c, n)
     /\ c.kind = "range"    => fire = rangeFires(c, n)
     /\ c.kind = "sequence" => fire = sequenceFires(c, n)
     /\ c.kind = "staged"   => fire = (ActiveStage(c.stages, n) # 0)}

(* The faults a fire at match n injects: the active stage's, or the rule's *)
(* own list.                                                               *)
FaultsAt(c, own, n) ==
  IF c.kind = "staged" THEN c.stages[ActiveStage(c.stages, n)].faults ELSE own

=============================================================================
