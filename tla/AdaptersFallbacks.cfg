\* What conn_optional.go says of its fallbacks.
CONSTANTS
  Callers = {c1}
  Usable <- AllMethods
  Chains <- EveryFault
  Cap = 1
  MayPanic = TRUE
  Deadlines = TRUE
  Shapes <- EveryShape
  MaxLen = 4
  Supply = 6
SPECIFICATION PartsSpec
INVARIANT FallbacksAreExact
