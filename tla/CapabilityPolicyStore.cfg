SPECIFICATION Spec
CONSTANTS
  None = None
  Poison = Poison
  c1 = c1  c2 = c2  k1 = k1  t1 = t1  t2 = t2  b1 = b1  b2 = b2
  Clients <- MCClients
  Keys <- MCKeys
  Instants <- MCInstants
  Bundles <- MCBundles
  MaxRevision = 4
SYMMETRY Symmetry
INVARIANTS TypeOK PinMeansUnchanged
PROPERTIES CasPreservesRevocation CasRevokeKeepsBundle CasNeverBuriesPoison
CHECK_DEADLOCK FALSE
