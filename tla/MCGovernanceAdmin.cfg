CONSTANTS
  Accounts = {a1, a2, a3}
  NoOne = NoOne
  Roles <- MCRoles
  Scopes = {s1, s2}
  TransferTTL = 1
  U64Max = 2
  MaxTime = 2
  MaxHistory = 2
  MaxPauses = 2
SPECIFICATION Spec
CONSTRAINT PausesOrHandovers
SYMMETRY AnyPermutation
INVARIANTS
  CustodySound
  NoEscalation
  PauseMatchesHistory
PROPERTIES
  OldKeyKeepsNothing
CHECK_DEADLOCK FALSE
