CONSTANTS
  Accounts = {a1, a2, a3}
  NoOne = NoOne
  NoConfig = NoConfig
  MaxProposals = 1
  MaxTime = 2
  I128Max = 20001
  U64Max = 2
  Configs <- MCConfigs
  InitialBalances <- MCBalances
  TransferAmounts = {1}
  Payers = {"a"}
  Transfers = {"t1", "t2"}
  Initiations = {"i"}
  Amounts = {1, 2}
  DailyLimit = 2
  MaxDay = 1
  MaxCrashes = 1
  Ids = {1, 2, 3, 4}
  Communities = {"c"}
  Addresses = {"a"}
  States = {"x", "y"}
  Shapes <- TwoShapes
  Limits = {0, 9}
  DefaultLimit = 1
  MaxLimit = 2
  First <- FirstTables
  FirstTime = 3
  LastWrite = 4
SPECIFICATION MCSpec
CONSTRAINT Scenario
INVARIANT DailyLimitHolds
CHECK_DEADLOCK FALSE
