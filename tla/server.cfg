SPECIFICATION FairSpec
CONSTANTS
  Job = {j1, j2}
  Call = {s1, s2}
  RawIntervals <- SomeIntervals
  NULL = NULL
PROPERTIES LapsedIsRecovered StuckOnlyOnCalls
