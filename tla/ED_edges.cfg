SPECIFICATION EdgesSpec
CONSTANTS
  prowlarr = prowlarr
  site = site
  ethereum = ethereum
  filecoin = filecoin
  native = native
  coin = coin
  unpriced = unpriced
  keystore = keystore
  owsvault = owsvault
  Hosts = {prowlarr, site}
  Prowlarr = prowlarr
  AllowedHosts = {}
  Policy <- MCPolicy
  Bodies <- MCBodies
  MaxRedirects = 2
  MaxBytes = 2
  HardCap = 2
  MaxDepth = 6
  Made <- MadeTorrents
  Trailing <- MCTrailing
  Foreign = {"C3"}
  HashGroups = 1
  HashBytes = {127, 200}
  IntModulus = 1048576
  Before <- MCBefore
  Behind <- MCBehind
  MaxDrops = 2
  MaxCalls = 2
  Assets <- MCAssets
  Nodes <- MCNodes
  Amounts = {0, 1}
  StaticPrice <- MCStaticPrice
  OraclePrices = {3}
  Listed = {native}
  MaxLines = 2
  MaxRows = 5
  Poll = 3
  Limit <- MCLimit
  MaxTime = 3
  MaxVersion = 1
  Providers = {keystore, owsvault}
  Custody <- MCCustody
  Serves <- MCServes
  Families = {"evm", "solana"}
  Accounts = {"evm"}
  AccountIndexes = {0, 2}
  WalletRows <- MCRows
  Secrets <- MCSecrets
  Operations = {1}
  MaxGen <- MCMaxGen
  MaxVault = 2
INVARIANTS
  DownloadIsWhole
  ParsedAsMade
  ClientsAnswerTruly
  ReportIsWhole
  SignsAsTold
PROPERTIES
  EveryFetchEnds
  DashboardIsTrue
CHECK_DEADLOCK FALSE
