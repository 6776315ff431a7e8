CONSTANTS
  u = u
  Key = {1, 2, 3, 4, 5, 6, 7, 8}
  Input <- MCInput
  NoVal = NoVal
  Searches <- MCSearches
  MaxFaults = 1
SPECIFICATION Spec
INVARIANTS
  TypeOK
  WalkInOrder
  Balanced
  NeverPanics
PROPERTIES
  ImplementsMap
CHECK_DEADLOCK FALSE
