SPECIFICATION Spec
CONSTANTS
  Job = {j1}
  Owner = {o1, o2}
  Caller = {c1}
  Caps = {1, 3}
  NULL = NULL
PROPERTY EveryChangeSent
