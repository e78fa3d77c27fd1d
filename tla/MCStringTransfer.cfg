SPECIFICATION FairSpec
CONSTANTS
  Base = 2
  MaxString = 5
  Chunk = 2
  Sizes <- MCSizes
  Texts <- MCTexts
  Pointers <- MCPointers
  Lengths <- MCLengths
  Leftovers <- MCLeftovers
  MaxReceived = 8
CHECK_DEADLOCK FALSE
INVARIANTS TypeOK ReceivedIsPrefix PullFailsFirst PushedInOrder
PROPERTIES WritesStayInside PullsEnd
