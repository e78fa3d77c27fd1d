SPECIFICATION ObservedSpec
CONSTANTS
  k1 = k1
  k2 = k2
  k3 = k3
  k4 = k4
  s1 = s1
  s2 = s2
  s3 = s3
  Keys = {k1, k2, k3, k4}
  Slots = {s1, s2, s3}
  HashOf <- HashColliding
  Responses = {r1, r2}
  NoResponse = NoResponse
  Capacity = 2
  DefaultTtl = 2
  Ttls = {0}
  MaxTtl = 2
  MaxLookups = 1
  StrictClock = FALSE
PROPERTY
  ImplementsTtlMap
