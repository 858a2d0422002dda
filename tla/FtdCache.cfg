SPECIFICATION FtdSpec
CONSTANTS
  None = None
  t1 = t1  t2 = t2  d1 = d1  d2 = d2  d3 = d3  d4 = d4  d5 = d5
  Threads <- MCThreads
  Generations <- MCDocs
  Expires <- MCExpires
  IssuerKeys <- MCIssuerKeys
  Unstructured <- MCMalformed
  Foreign <- MCForeign
  Unsigned <- MCUnsigned
  Margin = 1
  MaxTime = 3
INVARIANTS OnlyVerifiedIsServed
PROPERTIES RefreshedBeforeExpiry
