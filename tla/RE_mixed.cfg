CONSTANTS
  l1 = l1
  s1 = s1
  b1 = b1
  symbol = symbol
  router = router
  name1 = name1
  None = None
  Foreign = Foreign
  Wallet = Wallet
  Keys = {l1, s1, b1}
  Targets = {symbol, router}
  KindOf <- MixedKinds
  TargetOf <- MixedTargets
  NameOf <- MixedNames
  Callers = {p1, p2}
SPECIFICATION FairSpec
INVARIANTS
  SendsTakeTurns
  DirectAnswerActed
PROPERTIES
  SenderReturns
CHECK_DEADLOCK FALSE
