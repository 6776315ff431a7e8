CONSTANTS
  x = x
  i1 = i1
  i2 = i2
  p = p
  q = q
  l1 = l1
  l2 = l1
  Tree = {x, y}
  Thread = {t1}
  ThreadOf <- OneThread
  Id = {i1, i2}
  Slot = {p, q}
  Leaf = {l1}
  Ann <- MCAnn
  NoAnn = NoAnn
  Digest <- MCDigest
  NoHash = NoHash
  Store = {s1}
  LeafAnn <- MCLeafAnn
  Combine <- MCCombine
  Hash <- MCHash
  MaxDepth = 1
  MaxEdits = 1
  MaxFaults = 1
SPECIFICATION DeepFairSpec
PROPERTIES
  ImplementsValues
  CallsReturn
