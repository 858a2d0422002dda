SPECIFICATION Spec
CONSTANTS
  None = None
  Poison = Poison
  p1 = p1  p2 = p2  org = org  other = other  k1 = k1  k2 = k2  n1 = n1  n2 = n2
  Publishers <- TwoPublishers
  Ids <- TwoIds
  Issuer <- MCIssuer
  Policies <- AllPolicies
  Entries <- MCEntries
  AsOf <- MCAsOf
  PolicyFiles <- MCFiles
  MaxPolicyWrites = 2
  MaxEntryWrites = 2
SYMMETRY Symmetry
INVARIANTS DecisionIsStrongest ExitTellsTheBucket
PROPERTIES GatedWriteWasGranted OnePinOneWinner
CHECK_DEADLOCK FALSE
