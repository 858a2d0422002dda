SPECIFICATION OperatorSpec
CONSTANTS
  None = None
  Poison = Poison
  c1 = c1  c2 = c2  t1 = t1  t2 = t2  b1 = b1
  Clients <- TwoClients
  Keys <- OneKey
  Instants <- MCInstants
  Bundles <- MCBundles
  MaxRevision = 5
  SentinelEndsStream = FALSE
  MaxRestarts = 0
INVARIANTS WatchTypeOK
PROPERTIES OperatorsNeverBreach
CHECK_DEADLOCK FALSE
