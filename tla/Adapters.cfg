\* Every method under every fault; streams of six bytes in buffers of up to four.
CONSTANTS
  Callers = {c1}
  Usable <- AllMethods
  Chains <- EveryFault
  Cap = 1
  MayPanic = TRUE
  Deadlines = TRUE
  Shapes <- EveryShape
  MaxLen = 4
  Supply = 6
SPECIFICATION PartsSpec
INVARIANTS
  SettledOnce BudgetHears DropIsFatal HeldThroughCall
  CutOff ShortIsTold FailuresAreResponses
  RetriesAreSafe WrapperIsTransparent FinishedOnce
PROPERTY CancelledReturns
