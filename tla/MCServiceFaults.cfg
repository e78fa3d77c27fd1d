SPECIFICATION Spec
CONSTANTS
  Handlers = {h1, h2}
  Nobody = Nobody
  Languages = {python}
  Codes = {c, loop}
  Runaway = {loop}
  Slots <- Program
  HashOf <- HashIdentity
  NoResponse = NoResponse
  Capacity = 1
  Ttl = 1
  PoolSize = 1
  FsFaults = TRUE
  DbFaults = TRUE
  Restarts = TRUE
  Cancels = TRUE
SYMMETRY Symmetry
CHECK_DEADLOCK FALSE
INVARIANTS
  SandboxReclaimed
  RecordedSuccessesHappened
  MutexConsistent
  AnsweredAreRecorded
PROPERTIES
  ImplementsPromise
