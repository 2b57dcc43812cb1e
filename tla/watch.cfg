SPECIFICATION ClientFairSpec
CONSTANTS
  Job = {j1}
  Owner = {o1, o2}
  Caller = {c1}
  Caps = {2}
  NULL = NULL
INVARIANTS NotFoundIsTrue NothingToStrangers EofMeansOutcome NoSnapshotTwice
PROPERTIES SeenInOrder HandlerEndsWithCaller CallerHears
