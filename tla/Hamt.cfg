CONSTANTS
  k1 = k1
  k2 = k2
  k3 = k3
  Key = {k1, k2, k3}
  u = u
  v = v
  Input <- MCInput
  NoVal = NoVal
  Hash <- MCHash
  Searches <- MCSearches
  MaxFaults = 1
SPECIFICATION Spec
INVARIANTS
  TypeOK
  WalkInOrder
  AnnotationsFresh
  ProofComplete
  Canonical
PROPERTIES
  ImplementsMap
