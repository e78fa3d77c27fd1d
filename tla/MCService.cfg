SPECIFICATION Spec
CONSTANTS
  Handlers = {h1, h2, h3}
  Nobody = Nobody
  Languages = {python, ruby}
  Codes = {c}
  Runaway = {}
  Slots <- Program
  HashOf <- HashIdentity
  NoResponse = NoResponse
  Capacity = 1
  Ttl = 1
  PoolSize = 1
  FsFaults = FALSE
  DbFaults = FALSE
  Restarts = FALSE
  Cancels = FALSE
SYMMETRY Symmetry
CHECK_DEADLOCK FALSE
INVARIANTS
  TypeOK
  MissedSlotStaysEmpty
  CacheHoldsRuns
  ServesOwnProgram
  CachedAreRecorded
PROPERTIES
  ImplementsPromise
