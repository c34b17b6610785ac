CONSTANTS
  l1 = l1
  s1 = s1
  b1 = b1
  symbol = symbol
  router = router
  name1 = name1
  None = None
  Foreign = Foreign
  Wallet = Wallet
  Keys = {l1}
  Targets = {symbol}
  KindOf <- LaunchKind
  TargetOf <- LaunchTarget
  NameOf <- MixedNames
  Callers = {p1, p2}
SPECIFICATION Spec
SYMMETRY CallerSymmetry
INVARIANTS
  OneBroadcastPerLaunch
CHECK_DEADLOCK FALSE
