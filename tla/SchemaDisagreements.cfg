SPECIFICATION Spec
CONSTANTS
  None = None
  Poison = Poison
  e1 = e1  e2 = e2
  Keys <- TwoKeys
  Entries <- OneEntry
  Unstorable <- NoEntry
  Settings <- CasPin
  Sharing <- Crowded
  MaxSource = 4
  MaxTarget = 1
  MaxRestarts = 0
INVARIANTS TypeOK
PROPERTIES SnapshotIsAView CasPinSurfacesConcurrentWrites
CHECK_DEADLOCK FALSE
