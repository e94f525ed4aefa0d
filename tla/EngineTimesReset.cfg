\* What the documentation of Times says Reset does.
CONSTANTS
  c1 = c1  c2 = c2  read = read  write = write  ping = ping
  once = once  slow = slow  note = note  sick = sick  a = a  b = b  k = k
  NoName = NoName  NoKey = NoKey
  Callers = {c1, c2}
  Ops = {read}
  Names = {a, b}
  Attr <- NoAttr
  StickyCap = 1
  RuleRps = 1
  Rps = 0
  MaxConcurrent = 0
  HasBudget = FALSE
  HasKillSwitch = FALSE
  CallMayFail = FALSE
  CallMayPanic = FALSE
  MayEdit = TRUE
  MaxRules = 2
  CountCap = 2
  HitCap = 2
  Window = 1
  Threshold = 1
  Rules = {once, note}
  Rule <- TableRule
  RuleLists <- ResetLists
SPECIFICATION Spec
PROPERTY ResetClearsCounters
