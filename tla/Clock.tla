------------------------------- MODULE Clock -------------------------------
(***************************************************************************)
(* Skewed clocks (fault/clock.go, engine/clock.go): a tree of contexts,    *)
(* some with a clock cell of their own, and Clock faults, resets and reads *)
(* of the time through any of them, by any goroutine in any order: each is *)
(* one atomic access to the cell its context leads to.                     *)
(***************************************************************************)
EXTENDS Integers, Sequences

CONSTANTS
  MaxCtx,     \* bound: contexts, numbered as they are made; 1 is the background
  Skews       \* what Clock faults set

VARIABLES
  cell,       \* per context: the cell found under clockKey, 0 if none; a cell is named by its context
  skew,       \* per cell
  parent,     \* history, per context: the one it was derived from
  bound,      \* history: contexts that WithClock returned
  last,       \* history, per bound context: the last skew set or reset in its scope
  read        \* the last read of the time: the skew it got and the one of its scope

vars == <<cell, skew, parent, bound, last, read>>
Contexts == DOMAIN cell

Init ==
  /\ cell = <<0>> /\ skew = <<0>> /\ parent = <<0>> /\ bound = {} /\ last = <<0>>
  /\ read = [got |-> 0, own |-> 0]

(* The nearest context, from c towards the background, that WithClock made. *)
Scope(c) ==
  LET up[d \in 0 .. Len(parent)] == IF d = 0 \/ d \in bound THEN d ELSE up[parent[d]]
  IN  up[c]

-----------------------------------------------------------------------------
Child(p, bind, b) ==
  /\ Len(cell) < MaxCtx
  /\ cell' = Append(cell, b)
  /\ skew' = Append(skew, 0) /\ parent' = Append(parent, p) /\ last' = Append(last, 0)
  /\ bound' = IF bind THEN bound \cup {Len(cell) + 1} ELSE bound
  /\ UNCHANGED read

(* The context package: a child finds what its parent finds. *)
Derive(p) == Child(p, FALSE, cell[p])

\* a cell that is there is used again
WithClockOnce(p) == Child(p, TRUE, IF cell[p] = 0 THEN Len(cell) + 1 ELSE cell[p])
WithClock(p)     == Child(p, TRUE, Len(cell) + 1)

cellFrom(c) == cell[c]

Store(c, d) ==
  /\ skew' = IF cellFrom(c) = 0 THEN skew ELSE [skew EXCEPT ![cellFrom(c)] = d]
  /\ last' = IF Scope(c) = 0 THEN last ELSE [last EXCEPT ![Scope(c)] = d]
  /\ UNCHANGED <<cell, parent, bound, read>>

Apply(c, d)   == Store(c, d)
ResetClock(c) == Store(c, 0)

Skew(c) == IF cellFrom(c) = 0 THEN 0 ELSE skew[cellFrom(c)]

Now(c) ==
  /\ read' = [got |-> Skew(c), own |-> IF Scope(c) = 0 THEN 0 ELSE last[Scope(c)]]
  /\ UNCHANGED <<cell, skew, parent, bound, last>>

Next ==
  \E c \in Contexts :
    Derive(c) \/ WithClock(c) \/ ResetClock(c) \/ Now(c) \/ \E d \in Skews : Apply(c, d)

Spec == Init /\ [][Next]_vars

-----------------------------------------------------------------------------
(* A read sees the last skew set or reset in its own scope, by whichever    *)
(* goroutine through whichever context of it: a scope opened inside another *)
(* starts at the true time, neither moves the other's clock, and outside    *)
(* every scope a Clock fault has no effect.                                *)
NowSeesItsScope == read.got = read.own

=============================================================================
