------------------------------ MODULE MCParts ------------------------------
(***************************************************************************)
(* The bookkeeping structures of a rule's decision, on small instances:    *)
(* the limiter, the failure budget, the sticky tracker, the stages, the    *)
(* daily window and the skewed clocks.  Each has a lock or an atomic of    *)
(* its own and none reads another's state, so a behaviour runs one of them *)
(* (part) and leaves the others where they start.                          *)
(***************************************************************************)
EXTENDS TokenBucket, FailureBudgetSpec

VARIABLES
  part,
  seen, lastMark, ticks,                          \* Sticky
  stages, n, served,                              \* Staged
  window, minute, since,                          \* TimeWindow
  cell, skew, parent, bound, lastSkew, read       \* Clock

stickyVars == <<seen, lastMark, ticks>>
stagedVars == <<stages, n, served>>
windowVars == <<window, minute, since>>
clockVars  == <<cell, skew, parent, bound, lastSkew, read>>

(* Two places for four values: eviction, refresh, expiry, ties of expiry.  *)
Tracker == INSTANCE Sticky WITH now <- ticks, MaxTime <- 5, Values <- 1 .. 4, window <- 2, cap <- 2
(* Every list of up to three stages of up to three matches, past its end.  *)
Stages  == INSTANCE Staged WITH MaxStages <- 3, MaxTimes <- 3, MaxMatches <- 10
(* A day of four hours of six minutes, and every window of it.             *)
Daily   == INSTANCE TimeWindow WITH Hour <- 6, Day <- 24, now <- minute,
             Windows <- [startH : 0 .. 3, startM : 0 .. 5, endH : 0 .. 3, endM : 0 .. 5]
Clocks  == INSTANCE Clock WITH MaxCtx <- 5, Skews <- {1, 2}, last <- lastSkew

(* A part that does not run. *)
StickyOff == seen = 0 /\ lastMark = 0 /\ ticks = 0
StagedOff == stages = 0 /\ n = 0 /\ served = 0
WindowOff == window = 0 /\ minute = 0 /\ since = 0
ClockOff  == cell = 0 /\ skew = 0 /\ parent = 0 /\ bound = 0 /\ lastSkew = 0 /\ read = 0

PartsInit ==
  /\ Init /\ BudgetInit
  /\ \/ part \in {"bucket", "budget"} /\ StickyOff /\ StagedOff /\ WindowOff /\ ClockOff
     \/ part = "sticky" /\ Tracker!Init /\ StagedOff /\ WindowOff /\ ClockOff
     \/ part = "staged" /\ Stages!Init /\ StickyOff /\ WindowOff /\ ClockOff
     \/ part = "window" /\ Daily!Init /\ StickyOff /\ StagedOff /\ ClockOff
     \/ part = "clock" /\ Clocks!Init /\ StickyOff /\ StagedOff /\ WindowOff

PartsNext ==
  /\ UNCHANGED part
  /\ \/ part = "bucket" /\ Next /\ UNCHANGED <<budget, stickyVars, stagedVars, windowVars, clockVars>>
     \/ part = "budget" /\ BudgetNext /\ UNCHANGED <<vars, stickyVars, stagedVars, windowVars, clockVars>>
     \/ part = "sticky" /\ Tracker!Next /\ UNCHANGED <<vars, budget, stagedVars, windowVars, clockVars>>
     \/ part = "staged" /\ Stages!Next /\ UNCHANGED <<vars, budget, stickyVars, windowVars, clockVars>>
     \/ part = "window" /\ Daily!Next /\ UNCHANGED <<vars, budget, stickyVars, stagedVars, clockVars>>
     \/ part = "clock" /\ Clocks!Next /\ UNCHANGED <<vars, budget, stickyVars, stagedVars, windowVars>>

partsVars == <<vars, budget, part, stickyVars, stagedVars, windowVars, clockVars>>

-----------------------------------------------------------------------------
(* Sticky: at most cap values are tracked, a value is stuck only within the  *)
(* window of its last mark, and eviction takes the coldest value first.     *)
TracksTheRecent ==
  part = "sticky" => Tracker!Bounded /\ Tracker!StuckOnlyInWindow /\ Tracker!RecentRemembered

(* Stages are served in order and in full, and no match falls between two.  *)
StagesInOrder == part = "staged" => Stages!StagesInOrder /\ Stages!NoMatchDropped

(* A daily window opens at its start for exactly its length, over midnight  *)
(* too.                                                                    *)
OpensForItsLength == part = "window" => Daily!OpensForItsLength

(* A read of the time sees the last skew set or reset in its own scope. *)
NowSeesItsScope == part = "clock" => Clocks!NowSeesItsScope

=============================================================================
