SPECIFICATION Spec
CONSTANTS
  Id = {j1, j2}
  Owner = {o1, o2}
  Kind = {k1}
  Key = {x}
  Worker = {w1, w2}
  Conn = {c1}
  RequestedCaps = {2}
  Limits = {1, 2}
  Leases = {1}
  Retention = 1
  Horizon = 0
  WorkerIds = "fresh"
  NULL = NULL
SYMMETRY Symmetry
INVARIANTS OutcomeOfLatestRun IdempotencyWindow BacklogAgrees
PROPERTIES AgeFallsOnlyByClaim
