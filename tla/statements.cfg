SPECIFICATION Spec
CONSTANTS
  Job = {j1, j2}
  Calls = 4
  Caps = {2}
  Limits = {1}
  RawMaxOpenConns = {NULL, 1}
  NULL = NULL
SYMMETRY Symmetry
INVARIANTS OneOkPerRun AnsweredRunIsOver BatchNeverWaits NobodyStuck
PROPERTIES ImplementsLifecycle LeaseProtectsRun
CHECK_DEADLOCK FALSE
