SPECIFICATION Spec
CONSTANTS
  None = None
  Poison = Poison
  t1 = t1  t2 = t2  b1 = b1
  Keys <- OneKey
  Instants <- TwoInstants
  Bundles <- OneBundle
  Settings <- CasPin
  Sharing <- Both
  MaxSource = 3
  MaxTarget = 3
  MaxRestarts = 1
INVARIANTS TypeOK EnvelopeErrorsAtMostOne
PROPERTIES TailKeepsRevocation BootstrapEqualisesKeysets
CHECK_DEADLOCK FALSE
