CONSTANTS
  Modes <- ReplacedUnderTask
  MaxMsgs = 2
  MaxTurns = 2
  MaxOuts = 2
  MaxAttempts = 1
SPECIFICATION Spec
INVARIANTS
  NeverSkipsATurn
CHECK_DEADLOCK FALSE
