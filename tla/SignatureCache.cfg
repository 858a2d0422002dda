SPECIFICATION Spec
CONSTANTS
  d1 = d1  k1 = k1  k2 = k2  s1 = s1  s2 = s2  bad = bad  p1 = p1  p2 = p2
  Bodies <- MCBodies
  Kids <- MCKids
  Signatures <- MCSignatures
  PubKeys <- MCPubKeys
  Genuine <- MCGenuine
  Malformed <- MCMalformed
  MaxEntries = 2
  Ttl = 2
  MaxClock = 5
  MaxHits = 1
  MaxMisses = 6
INVARIANTS OrderIsEntries HitIsFreshVerify CountersBalance
CHECK_DEADLOCK FALSE
