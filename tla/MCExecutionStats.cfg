SPECIFICATION Spec
CONSTANTS
  Languages = {python, ruby}
  Times = {0, 3, 4, 5}
  Limit = 2
  MaxRows = 3
INVARIANTS
  TypeOK
  FailuresNotInvented
  LanguagesCoverTotals
  RecentAreNewest
