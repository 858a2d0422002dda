SPECIFICATION Spec
CONSTANTS
  k1 = k1
  k2 = k2
  otherId = otherId
  Documents <- AllDocuments
  NotAnObject = NotAnObject
  Unreachable = Unreachable
  AipId = AipId
  Url = Url
  Zones <- SomeZones
  Garbage = Garbage
  Keys = {k1, k2}
  Malformed = Malformed
  Forged = Forged
  NotAMapping = NotAMapping
  Unparseable = Unparseable
  Blocks <- SomeBlocks
  Requests <- FewRequests
  Providers = 2
  MaxChanges = 1
  None = None
INVARIANTS
  TypeOK
  SignedEntryStaysSigned AnyProviderFailureFailsOver
  BridgeVerifiesOverHttps ListedKidsResolve
