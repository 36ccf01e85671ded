SPECIFICATION Spec
CONSTANTS
  r1 = r1 r2 = r2 jwt = jwt opaque = opaque A = A B = B
  Requests <- TwoRequests
  Bearers <- TwoTokens
  Expiry <- OneExpires
  Addresses <- TwoAddresses
  Clients <- OneClient
  TTL = 2
  CacheSize = 1
  Rate = 1
  Burst = 2
  MaxTime = 5
  MaxLag = 1
SYMMETRY BearerSymmetry
INVARIANTS
  TypeOK
  ReviewsThrottled
PROPERTIES
  RecentlyAccepted
  ExpiredStaysOut
