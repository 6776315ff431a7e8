CONSTANTS
  m = m
  n = n
  leaf = leaf
  old = old
  new = new
  Caller = {m, n}
  Owner = m
  Digest = {leaf, old, new}
  Kids <- MCKids
  Below <- MCBelow
  Length <- MCLength
  Nobody = Nobody
  MaxTears = 1
SPECIFICATION Spec
INVARIANTS
  TypeOK
  IndexSound
  RootRestorable
  HeldReadable
PROPERTIES
  ImplementsContentStore
