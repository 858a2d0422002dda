SPECIFICATION Spec
CONSTANTS
  None = None
  Poison = Poison
  e1 = e1  e2 = e2
  Keys <- TwoKeys
  Entries <- MCEntries
  Unstorable <- OnlyE2
  Settings <- ThreeSettings
  Sharing <- Both
  MaxSource = 3
  MaxTarget = 2
  MaxRestarts = 1
PROPERTIES ImplementsMirror EventuallyMirrors PoisonIsNeverCopied UpdateLosesNoForeignWrite
CHECK_DEADLOCK FALSE
