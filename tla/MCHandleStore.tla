--------------------------- MODULE MCHandleStore ---------------------------
(* Constants of the model-checking runs of HandleStore. *)
EXTENDS HandleValues, TLC, FiniteSetsExt

\* A collision-free hash: the encoded node itself. Nodes nest three deep.
MCHash(b) == b
MCAnn == 1 .. 9
Below(D) == [Slot -> {None} \cup [tag : {"Leaf"}, leaf : Leaf]
                            \cup [tag : {"Hashed"}, hash : D, ann : MCAnn]]
MCDigest == Below(Below(Below({})))

\* The Cardinality annotation: a leaf counts one, a node the sum.
MCLeafAnn(l) == 1
MCCombine(a) == MapThenSumSet(LAMBDA s : IF a[s] = NoAnn THEN 0 ELSE a[s], Slot)

OneThread == [r \in Tree |-> CHOOSE t \in Thread : TRUE]
ThreadEach == CHOOSE f \in [Tree -> Thread] :
                \A q, r \in Tree : q # r => f[q] # f[r]

\* A start deeper than a few edits reach from the empty tree: x was built by
\* three inserts, two of which split a leaf, and its thread's other trees are clones of it.
CONSTANTS x, i1, i2, p, q, l1, l2

DeepHeap ==
  LET inner == [s \in Slot |-> LeafHandle(IF s = p THEN l1 ELSE l2)]
      outer == IF MaxDepth = 1
               THEN inner
               ELSE [s \in Slot |-> IF s = p THEN NodeHandle(i2, 2, NoHash)
                                            ELSE LeafHandle(l1)]
      root  == [s \in Slot |-> IF s = p THEN NodeHandle(i1, MaxDepth + 1, NoHash) ELSE None]
  IN [n \in Holder |->
       CASE n \in Tree /\ ThreadOf[n] = ThreadOf[x] -> root
         [] n = i1 -> outer
         [] n = i2 /\ MaxDepth > 1 -> inner
         [] OTHER -> EmptyNode]

DeepInit ==
  /\ heap = DeepHeap
  /\ store = [st \in Store |-> [d \in {} |-> EmptyNode]]
  /\ snaps = {}
  /\ op = [r \in Tree |-> "idle"]
  /\ cur = [r \in Tree |-> r]
  /\ open = [r \in Tree |-> {}]
  /\ dest \in [Tree -> Store]
  /\ digest = [r \in Tree |-> NoHash]
  /\ edits = 0
  /\ faults = 0

DeepSpec == DeepInit /\ [][Next]_vars
DeepFairSpec == DeepSpec /\ Fairness

Symmetry == Permutations(Id) \cup Permutations(Tree)
IdSymmetry == Permutations(Id)
=============================================================================
