CONSTANTS
  a1 = a1
  c1 = c1
  c2 = c2
  c3 = c3
  launch = launch
  status = status
  x = x
  None = None
  Agents = {a1}
  Tools = {launch}
  Args = {x}
  Calls = {c1, c2}
  IdentityOf <- RepeatIdentity
  Writes = {launch}
  Exempt = {}
  Checkable = {launch}
  Dispatches = {d1, d2, d3}
SPECIFICATION Spec
SYMMETRY DispatchSymmetry
INVARIANTS
  OnceUnlessHooked
  RepliesAgree
  SuccessMeansCommitted
PROPERTIES
  NoBlindRepeat
