\* A full day, minute by minute.
CONSTANTS
  Hour = 60
  Day = 1440
  Windows <- OnlyFullDay
SPECIFICATION Spec
INVARIANT FullDayMatches
