SPECIFICATION WatchSpec
CONSTANTS
  None = None
  Poison = Poison
  c1 = c1  c2 = c2  t1 = t1  t2 = t2  b1 = b1
  Clients <- NoClients
  Keys <- TwoKeys
  Instants <- MCInstants
  Bundles <- MCBundles
  MaxRevision = 3
  SentinelEndsStream = FALSE
  MaxRestarts = 1
INVARIANTS LiveCatchesUp
PROPERTIES TailVerdictsAreTrue Converges
CHECK_DEADLOCK FALSE
