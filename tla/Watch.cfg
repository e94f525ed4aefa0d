\* Three saves of good and bad documents, lost events, cancellation.
CONSTANTS
  MaxFaultLatency = 5
  LintLatencyCeiling = 2
  Mode = "reject"
  Docs <- GoodAndBad
  First <- Starts
  MaxSaves = 3
  MayLose = TRUE
CHECK_DEADLOCK FALSE
SPECIFICATION Spec
INVARIANT RulesOfOneText
PROPERTIES SavedIsLoaded CancelStops
