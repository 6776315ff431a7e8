CONSTANTS
  u = u
  Key <- PrefixKey
  Input <- PrefixInput
  NoVal = NoVal
  Searches <- MCSearches
  MaxFaults = 0
SPECIFICATION Spec
INVARIANTS
  GetsItsOwn
CHECK_DEADLOCK FALSE
