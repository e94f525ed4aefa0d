------------------------------ MODULE MCSmall ------------------------------
(***************************************************************************)
(* The sequential parts on small instances: the bookkeeping of MCParts and *)
(* the harnesses of MCHarness.  They share no state, and a behaviour runs  *)
(* one of them.                                                            *)
(***************************************************************************)
EXTENDS MCParts, MCHarness

PartsOff ==
  part = "none" /\ Init /\ BudgetInit /\ StickyOff /\ StagedOff /\ WindowOff /\ ClockOff
HarnessOff == harness = "none" /\ GoldenOff /\ ShrinkOff

SmallInit ==
  \/ PartsInit /\ HarnessOff
  \/ HarnessInit /\ PartsOff

TestStep == Shrinks /\ UNCHANGED partsVars

SmallNext ==
  \/ PartsNext /\ UNCHANGED harnessVars
  \/ TestStep
  \/ Records /\ UNCHANGED partsVars

smallVars == <<partsVars, harnessVars>>
SmallSpec == SmallInit /\ [][SmallNext]_smallVars /\ WF_smallVars(TestStep)

=============================================================================
