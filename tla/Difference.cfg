SPECIFICATION FairSpec
CONSTANTS
  MaxPoint = 6
  MaxIntervals = 3
CHECK_DEADLOCK FALSE
INVARIANTS
  TypeOK
  ResultIsDifference
  ResultSorted
PROPERTIES
  Terminates
