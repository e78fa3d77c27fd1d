SPECIFICATION Spec
CONSTANTS
  Requests = {r1, r2}
  Nobody = nobody
  Defaults = {"add"}
  Others = {"mine"}
  Programs <- MCPrograms
  Installed = {"python"}
CHECK_DEADLOCK FALSE
SYMMETRY Interchangeable
INVARIANTS
  TypeOK PrewarmedMeansLoaded RegistryOfJobs PanicNeedsAbandonedJob
  DivertedAsWritten
