CONSTANTS
  Accounts = {a1, a2}
  UpgradeIds = {u1, u2}
  Hashes = {h1, h2}
  Requests = {r1, r2}
  Avatars = {"u"}
  GrantedRoles = {"admin"}
  Highest = 3
  Images <- MCImages
  MaxItems = 2
  MaxPayments = 3
  Servers = {"s1", "s2"}
  Providers <- MCProviders
  PriceTTL = 1
  Delay = 1
  LastTime = 5
  None = None
  TTLs = {0, 1, 2}
  U64Max = 3
  MaxTime = 3
  MaxProposed = 3
SPECIFICATION MCSpec
CONSTRAINT CountersBounded
SYMMETRY Symmetry
INVARIANTS
  UpgradeRecordsSound
  NewestFirst
  AgeBounded
PROPERTIES
  LiveUpgradesKept
  DeletedIsClosed
  RefusedAfterWarning
  SchemaAsRecorded
CHECK_DEADLOCK FALSE
