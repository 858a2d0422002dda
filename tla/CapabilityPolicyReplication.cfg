SPECIFICATION Spec
CONSTANTS
  None = None
  Poison = Poison
  t1 = t1  t2 = t2  b1 = b1
  Keys <- TwoKeys
  Instants <- TwoInstants
  Bundles <- OneBundle
  Settings <- TwoSettings
  Sharing <- Both
  MaxSource = 3
  MaxTarget = 2
  MaxRestarts = 1
INVARIANTS EveryEventCounted NoSilentDivergence
PROPERTIES EventuallyMirrors RevocationNeverOverwritten
CHECK_DEADLOCK FALSE
