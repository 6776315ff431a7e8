CONSTANTS
  x = x
  i1 = i1
  i2 = i2
  p = p
  q = q
  l1 = l1
  l2 = l2
  Tree = {x}
  Thread = {t1}
  ThreadOf <- ThreadEach
  Id = {i1, i2, i3, i4}
  Slot = {p, q}
  Leaf = {l1, l2}
  Ann <- MCAnn
  NoAnn = NoAnn
  Digest <- MCDigest
  NoHash = NoHash
  Store = {s1}
  LeafAnn <- MCLeafAnn
  Combine <- MCCombine
  Hash <- MCHash
  MaxDepth = 2
  MaxEdits = 1
  MaxFaults = 1
SPECIFICATION DeepSpec
SYMMETRY IdSymmetry
INVARIANTS
  NodesNotEmpty
