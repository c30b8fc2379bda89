CONSTANTS
  Queued = {a, b}
  Direct = {d}
  None = None
  MaxAttempts = 2
  MaxFaults = 1
SPECIFICATION MCFairSpec
INVARIANTS
  Settlement
  CacheTracksLedger
PROPERTIES
  EveryCallAnswered
  StopsAtLast
CHECK_DEADLOCK FALSE
