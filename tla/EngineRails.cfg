\* All rails together: budget checked and recorded at different times.
CONSTANTS
  c1 = c1  c2 = c2  read = read  write = write  ping = ping
  once = once  slow = slow  note = note  sick = sick  a = a  b = b  k = k
  NoName = NoName  NoKey = NoKey
  Callers = {c1, c2}
  Ops = {read, write, ping}
  Names = {a, b}
  Attr <- RailAttr
  StickyCap = 1
  RuleRps = 1
  Rps = 1
  MaxConcurrent = 2
  HasBudget = TRUE
  HasKillSwitch = TRUE
  CallMayFail = FALSE
  CallMayPanic = FALSE
  MayEdit = FALSE
  MaxRules = 3
  CountCap = 1
  HitCap = 2
  Window = 3
  Threshold = 1
  Rules = {sick}
  Rule <- RailRule
  RuleLists <- RailLists
SYMMETRY Symmetry
SPECIFICATION Spec
INVARIANT OvershootBounded
