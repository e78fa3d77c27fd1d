SPECIFICATION FairSpec
CONSTANTS
  k1 = k1
  k2 = k2
  k3 = k3
  s1 = s1
  s2 = s2
  s3 = s3
  Keys = {k1, k2, k3}
  Slots = {s1, s2, s3}
  HashOf <- HashDistinct
  Responses = {r1}
  NoResponse = NoResponse
  Capacity = 2
  DefaultTtl = 2
  Ttls = {0, 1}
  MaxTtl = 2
  MaxLookups = 2
  StrictClock = TRUE
INVARIANTS
  TypeOK
  LenBounded
PROPERTY
  ExpiredEventuallyDropped
