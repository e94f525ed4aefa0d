\* Edits of the rule set against calls that evaluate it, hold slots and panic.
CONSTANTS
  c1 = c1  c2 = c2  read = read  write = write  ping = ping
  once = once  slow = slow  note = note  sick = sick  a = a  b = b  k = k
  NoName = NoName  NoKey = NoKey
  Callers = {c1, c2}
  Ops = {read}
  Names = {a, b}
  Attr <- NoAttr
  StickyCap = 1
  RuleRps = 1
  Rps = 0
  MaxConcurrent = 2
  HasBudget = FALSE
  HasKillSwitch = FALSE
  CallMayFail = FALSE
  CallMayPanic = TRUE
  MayEdit = TRUE
  MaxRules = 2
  CountCap = 2
  HitCap = 2
  Window = 1
  Threshold = 1
  Rules = {once, note}
  Rule <- TableRule
  RuleLists <- TableLists
SYMMETRY Symmetry
SPECIFICATION Spec
INVARIANTS HitsNotLost TimesCapped SlotAccounting
PROPERTY ImplementsCap
