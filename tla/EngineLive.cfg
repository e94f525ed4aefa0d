\* Every call returns, and Disable drains the engine.
CONSTANTS
  c1 = c1  c2 = c2  read = read  write = write  ping = ping
  once = once  slow = slow  note = note  sick = sick  a = a  b = b  k = k
  NoName = NoName  NoKey = NoKey
  Callers = {c1, c2}
  Ops = {read}
  Names = {a}
  Attr <- NoAttr
  StickyCap = 1
  RuleRps = 1
  Rps = 0
  MaxConcurrent = 1
  HasBudget = FALSE
  HasKillSwitch = FALSE
  CallMayFail = TRUE
  CallMayPanic = FALSE
  MayEdit = TRUE
  MaxRules = 1
  CountCap = 2
  HitCap = 1
  Window = 1
  Threshold = 1
  Rules = {slow}
  Rule <- LiveRule
  RuleLists <- LiveLists
SPECIFICATION FairSpec
PROPERTIES CallsReturn DisableDrains
