CONSTANTS
  Requests = {r1, r2}
  Calls = {c1, c2, c3}
  TxHashes = {h1, h2}
  None = None
  Thresholds = {1, 2}
  MaxApprovals = 2
  MaxFailures = 1
  SessionTTL = 0
  RefreshTTL = 1
  LastWindow = 1
  MaxChallenges = 2
  MaxMints = 3
  MaxRestarts = 1
  MaxChanges = 1
  PageRequest = "q"
  PageCalls = {"m"}
  OtherCalls = {"t"}
  PageHashes = {"h"}
  PageThresholds = {2}
  PageApprovals = 3
  MaxPresses = 3
SPECIFICATION MCSpec
CONSTRAINT Scenario
INVARIANT EveryApprovalCounted
CHECK_DEADLOCK FALSE
