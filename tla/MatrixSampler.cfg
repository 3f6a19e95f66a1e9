CONSTANTS
  Sizes <- MCSizes
  N = 4
  Gather = 2
  Unit = 2
  Undecided = 14
SPECIFICATION Spec
INVARIANTS TypeOK InBounds FirstAccepted SameMatrix
PROPERTY Ends
CHECK_DEADLOCK FALSE
