CONSTANTS
  Ids = {p}
  Addresses = {a, b, c}
  Requests = {r1, r2}
  Choices = {"for", "against"}
  MaxTime = 1
  Holders = {h1, h2}
  Readers = {"r"}
  MaxSupply = 2
  BalanceTTL = 1
  ReadDelay = 1
  Texts <- Csvs
  Entries <- Payments
  Funds <- Purse
  Trusted <- DollarToD
  MaxBatch = 2
  ExactTotals = 3
  Rounding = 1
  FileReaders = {"f1", "f2"}
  Keys <- ThreeKeys
  Distributor = "d"
  Accounts <- FourAccounts
  Asks <- Windows
  DefaultTimeout = 1
  MaxUnix = 5
  MaxSignatures = 2
  LastTick = 3
  None = None
  NotATime = NotATime
SPECIFICATION MCSpec
SYMMETRY Symmetry
CONSTRAINTS
  OneSideAtATime
  PlainPayments
  OneCallInTime
INVARIANTS
  OneHop
  BalancesFresh
  DisbursementsSound
  EnvelopesSound
PROPERTIES
  DelegationsPrecedeVotes
CHECK_DEADLOCK FALSE
