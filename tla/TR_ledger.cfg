CONSTANTS
  r1 = r1
  r2 = r2
  s1 = s1
  s2 = s2
  req = req
  tool = tool
  None = None
  Rows = {r1, r2}
  Usd = {0, 20, 90}
  Syncs = {s1, s2}
  Calls = {req, tool}
  CategoryOf <- Categorised
  CostOf <- Costs
  KeyRank <- Ranks
  Budget <- DefaultBudget
  FixedBurn = 0
  CheapCap = 2
  BurnWindow = 1
  MaxExpenses = 1
  Enabled = TRUE
  MaxTime = 1
SPECIFICATION Spec
SYMMETRY TreasurySymmetry
INVARIANTS
  NewestAreRetained
  QuietStateIsDerived
  DoneMeansMetered
PROPERTIES
  LoneSyncReplaces
  BrokeSpendsNothing
CHECK_DEADLOCK FALSE
