SPECIFICATION Spec
CONSTANTS
  I32Half = 256
  I64Half = 1024
  MaxLength = 12
  ChunkSize = 6
  NumberOf <- MCNumerals
  Arguments <- MCArguments
  Languages = {"python", "javascript", "ruby"}
  Printed <- MCPrinted
  Layouts <- MCLayouts
  Forms <- MCForms
  MemorySizes <- MCMemorySizes
  Paths <- MCPaths
  Allowed <- MCAllowed
  LimitSets <- MCLimitSets
  Urls <- MCUrls
  Methods <- MCMethods
CHECK_DEADLOCK FALSE
INVARIANTS
  FibonacciExact RandomWithinRange PrimesAsDefined RefusedRangesUnreadable
  SimulationAgrees ArgumentsRecovered PathsBelowAllowed RequestsStayInside
