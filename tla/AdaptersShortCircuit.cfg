\* What op.go says of short-circuited calls.
CONSTANTS
  Callers = {c1}
  Usable <- AllMethods
  Chains <- EveryFault
  Cap = 1
  MayPanic = TRUE
  Deadlines = TRUE
  Shapes <- EveryShape
  MaxLen = 4
  Supply = 6
SPECIFICATION PartsSpec
INVARIANT ShortCircuitsUnreported
