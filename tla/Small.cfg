\* Limiter: two tokens a second of three ticks, three seconds.  Budget: a window of six.
\* Shrinking: every body over three generators and two seeds.  A test ends.
CONSTANTS
  rps = 2  Second = 3  MaxTime = 9  Window = 6  Threshold = 3
  N = 3  Runs = 2
CHECK_DEADLOCK FALSE
SPECIFICATION SmallSpec
INVARIANTS
  RateBounded VerdictExact
  TracksTheRecent StagesInOrder OpensForItsLength NowSeesItsScope
  ReportIsMinimal ReplayReproduces
PROPERTIES DeniedOnlyRecently RefinesSlidingWindow ShrinkingEnds
