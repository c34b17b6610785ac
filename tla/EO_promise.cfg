CONSTANTS
  a1 = a1
  c1 = c1
  c2 = c2
  c3 = c3
  launch = launch
  status = status
  x = x
  None = None
  Agents = {a1}
  Tools = {launch, status}
  Args = {x}
  Calls = {c1, c3}
  IdentityOf <- ReadIdentity
  Writes = {launch, status}
  Exempt = {status}
  Checkable = {}
  Dispatches = {d1, d2}
SPECIFICATION FairSpec
PROPERTIES
  ImplementsCallOnce
  EveryDispatchReturns
