SPECIFICATION FairSpec
CONSTANTS
  Handlers = {h1, h2}
  Nobody = Nobody
  Languages = {python}
  Codes = {c}
  Runaway = {}
  Slots <- Program
  HashOf <- HashIdentity
  NoResponse = NoResponse
  Capacity = 1
  Ttl = 0
  PoolSize = 1
  FsFaults = TRUE
  DbFaults = TRUE
  Restarts = FALSE
  Cancels = TRUE
CHECK_DEADLOCK FALSE
PROPERTIES
  WaitersServed
  JobsEnd
