\* One save at any time, no event lost.
CONSTANTS
  MaxFaultLatency = 5
  LintLatencyCeiling = 2
  Mode = "reject"
  Docs <- OneGood
  First <- Starts
  MaxSaves = 1
  MayLose = FALSE
CHECK_DEADLOCK FALSE
SPECIFICATION Spec
PROPERTY ChangeIsLoaded
