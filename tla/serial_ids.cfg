SPECIFICATION FairSpec
CONSTANTS
  Id = {j1}
  Owner = {o1}
  Kind = {k1}
  Key = {}
  Worker = {w1, w2}
  Conn = {c1, c2}
  RequestedCaps = {0, 3}
  Limits = {1}
  Leases = {1}
  Retention = 1
  Horizon = 0
  WorkerIds = "serial"
  NULL = NULL
INVARIANTS AttemptWithinCap
PROPERTIES JobEnds ImplementsLifecycle
