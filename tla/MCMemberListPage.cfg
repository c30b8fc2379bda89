CONSTANTS
  Accounts = {a1, a2}
  NoOne = NoOne
  NoConfig = NoConfig
  None = None
  Roles <- MCRoles
  Scopes = {global}
  Global = global
  UpgradeIds = {u1}
  Hashes = {h1}
  Configs <- TwoConfigs
  InitialBalances <- MCBalances
  TransferAmounts = {1}
  TTLs = {0}
  TransferTTL = 1
  I128Max = 100000
  U64Max = 1
  MaxProposals = 1
  MaxTime = 2
  MaxHistory = 1
  MaxPauses = 1
  MaxProposed = 1
  Queries = {"short", "long"}
  PagesOf <- MCPages
  MaxRetries = 1
  TypedKeys = {"d", "falseKey"}
  OfferedAssets = {"USD", "XLM"}
  Lumen = "XLM"
  TypedAmounts = {"-2", "1e3", "01"}
  SenderFunds = 14
  MaxSends = 2
  MaxSeq = 2
SPECIFICATION MCSpec
CONSTRAINT Scenario
INVARIANT AskedPageShown
CHECK_DEADLOCK FALSE
