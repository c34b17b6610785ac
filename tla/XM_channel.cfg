CONSTANTS
  Modes <- EveryMode
  MaxMsgs = 2
  MaxTurns = 2
  MaxOuts = 2
  MaxAttempts = 1
SPECIFICATION Spec
INVARIANTS
  MessagesEnterOnce
  RepliesGoOutOnce
CHECK_DEADLOCK FALSE
