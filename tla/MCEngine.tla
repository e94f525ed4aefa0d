------------------------------ MODULE MCEngine ------------------------------
(***************************************************************************)
(* Instances of Engine for TLC: rules with the strategies and fault chains *)
(* that matter, and the rule lists the runs install.                       *)
(***************************************************************************)
EXTENDS Engine, TLC

CONSTANTS c1, c2,                \* callers
          read, write, ping,     \* operations
          once, slow, note, sick, \* rules
          a, b, k                \* names, and an attribute value

AnyRule == [name |-> NoName, ops |-> Ops, counter |-> [kind |-> "always"],
            faults |-> << >>, sticky |-> FALSE, limited |-> FALSE]

NoAttr == [o \in Ops |-> NoKey]

Symmetry == Permutations(Callers)

-----------------------------------------------------------------------------
(* The rule table: a one-shot rule that panics in front of a catch-all     *)
(* that sleeps, and then fails or lets the call through.                   *)
TableRule ==
  once :> [AnyRule EXCEPT !.name = a, !.counter = [kind |-> "times", n |-> 1], !.faults = <<"panic">>]
  @@ note :> [AnyRule EXCEPT !.name = b, !.faults = <<"delay">>]

TableLists == {<< >>, <<once, note>>, <<note>>}

\* only Reset empties the set
ResetLists == {<<once, note>>}

(* The rails together: a sticky rule with a limiter of its own. *)
RailRule ==
  sick :> [AnyRule EXCEPT !.counter = [kind |-> "prob"], !.sticky = TRUE, !.limited = TRUE,
                          !.faults = <<"error">>]

RailAttr == read :> k @@ write :> a @@ ping :> NoKey

RailLists == {<<sick>>}

(* Liveness: one named rule, installed and removed while calls run; its    *)
(* first fire only holds a slot, the later ones sleep and fail.            *)
LiveStages == <<[times |-> 1, faults |-> <<"mutate">>], [times |-> 0, faults |-> <<"delay", "error">>]>>

LiveRule == slow :> [AnyRule EXCEPT !.name = a, !.counter = [kind |-> "staged", stages |-> LiveStages]]

LiveLists == {<< >>, <<slow>>}

=============================================================================
