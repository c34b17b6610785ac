CONSTANTS
  u1 = u1
  u2 = u2
  c1 = c1
  c2 = c2
  c3 = c3
  None = None
  Uris = {u1,u2}
  Callers = {c1, c2, c3}
  MaxTx = 2
  NodesFail = TRUE
SPECIFICATION MCSpec
INVARIANTS
  OneLivePerUri
  AnswerIsMinted
PROPERTIES
  MinedIsKept
  CallerReturns
CHECK_DEADLOCK FALSE
