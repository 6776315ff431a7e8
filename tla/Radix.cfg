CONSTANTS
  u = u
  Key <- MCKey
  Input <- MCInput
  NoVal = NoVal
  Searches <- MCSearches
  MaxFaults = 1
SPECIFICATION Spec
INVARIANTS
  TypeOK
  WalkInOrder
  KeysSpelled
  NeverPanics
  StaleOnlyIfEmpty
PROPERTIES
  ImplementsMap
