CONSTANTS
  k1 = k1
  k2 = k2
  u = u
  v = v
  Key = {k1, k2}
  NoVal = NoVal
  Input <- MCInput
  LeafAnn <- SizeAndVals
  Join <- AddUp
  CountOf <- SizeOf
  Recode <- Same
  KeySearch <- KeyMethod
  KeySelect <- MCSelect
  Searches <- MCSearches
  MaxFaults = 1
  Node <- MCNode
  Whole <- MCWhole
  Answers <- MCAnswers
SPECIFICATION Spec
INVARIANTS
  WalkOn
  ProofSound
  AnnotationsFresh
PROPERTIES
  KeysStay
  ProofsHold
