SPECIFICATION Spec
CONSTANTS
  Handlers = {h1, h2}
  Nobody = Nobody
  Languages = {python}
  Codes = {c}
  Runaway = {}
  Slots <- Program
  HashOf <- HashIdentity
  NoResponse = NoResponse
  Capacity = 1
  Ttl = 0
  PoolSize = 1
  FsFaults = FALSE
  DbFaults = FALSE
  Restarts = FALSE
  Cancels = FALSE
CHECK_DEADLOCK FALSE
INVARIANTS
  FailedProgramsNotCached
