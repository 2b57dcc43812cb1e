SPECIFICATION FairSpec
CONSTANTS
  Probe = {p1, p2}
  Hanging = {p1}
  TTL = 2
  MaxQuery = 2
  Horizon = 4
  NULL = NULL
INVARIANTS ReportIsRecent AbsentOnlyWithoutEntry
PROPERTY OthersAnswered
