SPECIFICATION FairSpec
CONSTANTS
  Call = {c1, c2, c3}
  o1 = o1
  k1 = k1
  x = x
  Owner = {o1, NULL}
  Kind = {k1, NULL}
  Key = {x, NULL}
  Payload = {"", "{}", "work", "not json"}
  Requests <- AllRequests
  NULL = NULL
INVARIANTS AnswerMatchesPayload AnswerIsDurable OneJobPerKey RetryIsNoConflict CapIsAsAsked
PROPERTIES ImplementsRegistry EveryCallEnds
CHECK_DEADLOCK FALSE
