SPECIFICATION Spec
CONSTANTS
  None = None
  Poison = Poison
  t1 = t1  t2 = t2  b1 = b1
  Keys <- OneKey
  Instants <- TwoInstants
  Bundles <- OneBundle
  Settings <- SourceWins
  Sharing <- Crowded
  MaxSource = 2
  MaxTarget = 3
  MaxRestarts = 0
PROPERTIES TailKeepsRevocation
CHECK_DEADLOCK FALSE
