SPECIFICATION ResolverSpec
CONSTANTS
  Nothing = Nothing
  c1 = c1  c2 = c2  u1 = u1  u2 = u2  http = http
  d1 = d1  d2 = d2  e1 = e1  e2 = e2
  Callers <- TwoCallers
  Uris <- TwoUris
  Plain <- NoUris
  Docs <- MCDocs
  ETag <- MCETag
  Serves <- MCServes
  MaxListed = 1
  MaxTagged = 1
  MaxRedirects = 1
  FollowsRedirects = FALSE
  UrllibLimit = 1
PROPERTIES NotModifiedIsCurrent EveryCallEnds
