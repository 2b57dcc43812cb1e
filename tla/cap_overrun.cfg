SPECIFICATION Spec
CONSTANTS
  Id = {j1}
  Owner = {o1}
  Kind = {k1}
  Key = {}
  Worker = {w1, w2}
  Conn = {c1}
  RequestedCaps = {0, 2}
  Limits = {1}
  Leases = {1}
  Retention = 1
  Horizon = 1
  WorkerIds = "shared"
  NULL = NULL
SYMMETRY Symmetry
INVARIANT AttemptWithinCap
