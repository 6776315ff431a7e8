------------------------- MODULE HandleStoreProofs -------------------------
(***************************************************************************)
(* Theorems about HandleStore, for any trees, addresses, slots, stores,    *)
(* annotations and hash function.                                          *)
(***************************************************************************)
EXTENDS HandleStore, TLAPS

\* What is assumed of the operators HandleStore takes as constants: H::State
\* yields digests, annotations combine to annotations.
Typed ==
  /\ \A b \in Blob : Hash(b) \in Digest
  /\ \A l \in Leaf : LeafAnn(l) \in Ann
  /\ \A a \in [Slot -> Ann \cup {NoAnn}] :
       (\E s \in Slot : a[s] # NoAnn) => Combine(a) \in Ann

-----------------------------------------------------------------------------
(***************************************************************************)
(* Handles, nodes and heaps.                                               *)
(***************************************************************************)

\* The four kinds of handles, and what each carries.
LEMMA HandleKinds ==
  ASSUME NEW h \in Handle
  PROVE  \/ h = None
         \/ h.tag = "Leaf" /\ h.leaf \in Leaf
         \/ HasNode(h) /\ h.id \in Id /\ h.ann \in Ann
              /\ h.hash \in Digest \cup {NoHash}
         \/ InStore(h) /\ h.store \in Store /\ h.hash \in Digest /\ h.ann \in Ann
BY DEF Handle, HasNode, InStore

\* The constructors build handles.
LEMMA Constructors ==
  /\ None \in Handle
  /\ \A l \in Leaf : LeafHandle(l) \in Handle
  /\ \A i \in Id, a \in Ann, d \in Digest \cup {NoHash} :
       NodeHandle(i, a, d) \in Handle
  /\ \A st \in Store, a \in Ann, d \in Digest : Persisted(st, d, a) \in Handle
BY DEF Handle, None, LeafHandle, NodeHandle, Persisted

\* A node that is hashed throughout encodes to a blob.
LEMMA EncodeTyped ==
  ASSUME NEW c \in Content, \A s \in Slot : IsHashed(c[s])
  PROVE  Encode(c) \in Blob
<1> SUFFICES ASSUME NEW s \in Slot
             PROVE  EncodeHandle(c[s]) \in Entry
    BY DEF Encode, Blob
<1>1. c[s] \in Handle /\ IsHashed(c[s])
    BY DEF Content
<1>2. CASE HasNode(c[s]) \/ InStore(c[s])
    BY <1>1, <1>2, HandleKinds DEF EncodeHandle, Entry, Hashed, IsHashed, None,
       HasNode, InStore
<1>3. CASE ~(HasNode(c[s]) \/ InStore(c[s]))
    BY <1>1, <1>3 DEF EncodeHandle, Entry, Handle, HasNode, InStore
<1> QED BY <1>2, <1>3

\* A blob decodes to a node.
LEMMA DecodeTyped ==
  ASSUME NEW b \in Blob, NEW st \in Store
  PROVE  Decode(st, b) \in Content
<1> SUFFICES ASSUME NEW s \in Slot
             PROVE  DecodeEntry(st, b[s]) \in Handle
    BY DEF Decode, Content
<1>1. b[s] \in Entry
    BY DEF Blob
<1> QED BY <1>1 DEF Entry, DecodeEntry, Handle, Persisted, None

\* The annotation of a node that is not empty.
LEMMA NodeAnnTyped ==
  ASSUME Typed, NEW c \in Content
  PROVE  NodeAnn(c) \in Ann \cup {NoAnn}
<1> DEFINE a == [s \in Slot |-> AnnOf(c[s])]
<1>1. \A s \in Slot : AnnOf(c[s]) \in Ann \cup {NoAnn}
  <2> TAKE s \in Slot
  <2>1. c[s] \in Handle
      BY DEF Content
  <2> QED BY <2>1, HandleKinds DEF AnnOf, HasNode, InStore, None, Typed
<1>2. a \in [Slot -> Ann \cup {NoAnn}]
    BY <1>1
<1>3. (\E s \in Slot : a[s] # NoAnn) => Combine(a) \in Ann
    BY <1>2 DEF Typed
<1> QED BY <1>3 DEF NodeAnn

\* The heap operations keep heaps.
LEMMA HeapOps ==
  ASSUME NEW hp \in [Holder -> Content]
  PROVE  /\ \A f \in Frame : At(hp, f) \in Handle
         /\ \A f \in Frame, h \in Handle : Replace(hp, f, h) \in [Holder -> Content]
         /\ \A f \in Frame, i \in Id, h \in Handle, c \in Content :
              Alloc(hp, f, i, h, c) \in [Holder -> Content]
         /\ \A i \in Id : Release(hp, i) \in [Holder -> Content]
         /\ Collect(hp) \in [Holder -> Content]
<1>1. EmptyNode \in Content
    BY Constructors DEF EmptyNode, Content
<1>2. \A f \in Frame : At(hp, f) \in Handle
    BY DEF At, Frame, Content
<1>3. ASSUME NEW hq \in [Holder -> Content], NEW f \in Frame, NEW h \in Handle
      PROVE  Replace(hq, f, h) \in [Holder -> Content]
    BY DEF Replace, Frame, Content
<1>4. ASSUME NEW f \in Frame, NEW i \in Id, NEW h \in Handle, NEW c \in Content
      PROVE  Alloc(hp, f, i, h, c) \in [Holder -> Content]
  <2>1. [hp EXCEPT ![i] = c] \in [Holder -> Content]
      OBVIOUS
  <2> QED BY <1>3, <2>1 DEF Alloc
<1>5. Collect(hp) \in [Holder -> Content]
    BY <1>1 DEF Collect
<1>6. \A i \in Id : Release(hp, i) \in [Holder -> Content]
    BY <1>1 DEF Release, Holder
<1> QED BY <1>2, <1>3, <1>4, <1>5, <1>6

\* So does make_mut, and the handle it is called on still owns a node.
LEMMA MakeMutTyped ==
  ASSUME NEW hp \in [Holder -> Content], NEW f \in Frame, HasNode(At(hp, f)),
         NEW hq \in MakeMut(hp, f)
  PROVE  /\ hq \in [Holder -> Content]
         /\ HasNode(At(hq, f)) /\ At(hq, f).id \in Id
<1>1. /\ At(hp, f) \in Handle /\ At(hp, f).id \in Id
      /\ At(hp, f).ann \in Ann /\ At(hp, f).hash \in Digest \cup {NoHash}
    BY HeapOps, HandleKinds DEF HasNode, InStore, None
<1>2. CASE Shared(hp, At(hp, f).id)
  <2>1. PICK i \in Fresh(hp) :
          hq = Alloc(hp, f, i, NodeHandle(i, At(hp, f).ann, At(hp, f).hash),
                     hp[At(hp, f).id])
      BY <1>2 DEF MakeMut
  <2>2. i \in Id /\ hp[At(hp, f).id] \in Content
      BY <1>1 DEF Fresh, Holder
  <2>3. NodeHandle(i, At(hp, f).ann, At(hp, f).hash) \in Handle
      BY <1>1, <2>2, Constructors
  <2>4. hq \in [Holder -> Content]
      BY <2>1, <2>2, <2>3, HeapOps
  <2>5. At(hq, f) = NodeHandle(i, At(hp, f).ann, At(hp, f).hash)
      BY <2>1, <2>2, <2>3 DEF Alloc, Replace, At, Frame, Holder, Content
  <2> QED BY <2>2, <2>4, <2>5 DEF NodeHandle, HasNode
<1>3. CASE ~Shared(hp, At(hp, f).id)
    BY <1>1, <1>3 DEF MakeMut
<1> QED BY <1>2, <1>3

-----------------------------------------------------------------------------
(***************************************************************************)
(* Type correctness.                                                       *)
(***************************************************************************)

\* Putting a blob under a digest keeps the stores content maps.
LEMMA PutTyped ==
  ASSUME TypeOK, NEW st \in Store, NEW d \in Digest, NEW b \in Blob, Put(st, d, b)
  PROVE  DOMAIN store' = Store /\ \A s \in Store : IsContentMap(store'[s])
<1>1. PICK kept \in {b} \cup {store[st][x] : x \in DOMAIN store[st] \cap {d}} :
        store' = [s \in Store |->
                   IF s = st
                   THEN [x \in DOMAIN store[s] \cup {d} |->
                          IF x = d THEN kept ELSE store[s][x]]
                   ELSE store[s]]
    BY DEF Put
<1>2. kept \in Blob
    BY DEF TypeOK, IsContentMap
<1>3. ASSUME NEW s \in Store
      PROVE  IsContentMap(store'[s])
    BY <1>1, <1>2 DEF TypeOK, IsContentMap
<1> QED BY <1>1, <1>3

\* The frame an operation works on is a frame.
LEMMA CurFrameTyped ==
  ASSUME TypeOK, NEW r \in Tree
  PROVE  /\ \A s \in Slot : <<cur[r], s>> \in Frame /\ heap[cur[r]][s] \in Handle
         /\ \A f \in CurFrame(r) :
              /\ f \in Frame /\ f[1] \in Holder /\ f \in open[r]
              /\ HasNode(At(heap, f)) /\ At(heap, f) \in Handle
              /\ At(heap, f).id = cur[r] /\ cur[r] \in Id
         /\ cur[r] \in Holder /\ heap[cur[r]] \in Content
         /\ r \in Holder /\ heap[r] \in Content
<1>1. cur[r] \in Holder /\ r \in Holder
    BY DEF TypeOK, Holder
<1>2. heap[cur[r]] \in Content /\ heap[r] \in Content
    BY <1>1 DEF TypeOK
<1>3. \A s \in Slot : <<cur[r], s>> \in Frame /\ heap[cur[r]][s] \in Handle
    BY <1>1, <1>2 DEF Frame, Content
<1>4. ASSUME NEW f \in CurFrame(r)
      PROVE  /\ f \in Frame /\ f[1] \in Holder /\ f \in open[r]
             /\ HasNode(At(heap, f)) /\ At(heap, f) \in Handle
             /\ At(heap, f).id = cur[r] /\ cur[r] \in Id
  <2>1. f \in open[r] /\ HasNode(At(heap, f)) /\ At(heap, f).id = cur[r]
      BY DEF CurFrame, RefersTo
  <2>2. f \in Frame
      BY <2>1 DEF TypeOK
  <2>3. At(heap, f) \in Handle
      BY <2>2, HeapOps DEF TypeOK
  <2>4. cur[r] \in Id
      BY <2>1, <2>3, HandleKinds DEF HasNode, InStore, None
  <2> QED BY <2>1, <2>2, <2>3, <2>4 DEF Frame
<1> QED BY <1>1, <1>2, <1>3, <1>4

\* Entering and leaving a frame keeps the position of an operation typed.
LEMMA MovesTyped ==
  ASSUME TypeOK, NEW r \in Tree, NEW f \in Frame
  PROVE  /\ Enter(r, f) /\ At(heap', f).id \in Id =>
              cur' \in [Tree -> Holder] /\ open' \in [Tree -> SUBSET Frame]
         /\ Leave(r, f) =>
              cur' \in [Tree -> Holder] /\ open' \in [Tree -> SUBSET Frame]
BY DEF TypeOK, Enter, Leave, Frame, Holder

\* make_mut on a handle of the current node, and entering it.
LEMMA EnterMutTyped ==
  ASSUME TypeOK, NEW r \in Tree, NEW s \in Slot, HasNode(heap[cur[r]][s]),
         heap' \in MakeMut(heap, <<cur[r], s>>), Enter(r, <<cur[r], s>>)
  PROVE  /\ heap' \in [Holder -> Content]
         /\ cur' \in [Tree -> Holder] /\ open' \in [Tree -> SUBSET Frame]
<1> DEFINE f == <<cur[r], s>>
<1>1. f \in Frame /\ At(heap, f) = heap[cur[r]][s]
    BY CurFrameTyped DEF At
<1>2. heap' \in [Holder -> Content] /\ At(heap', f).id \in Id
    BY <1>1, MakeMutTyped DEF TypeOK
<1> QED BY <1>1, <1>2, MovesTyped

\* Every step of a mutating call keeps the types.
LEMMA MutateTyped ==
  ASSUME Typed, TypeOK, NEW r \in Tree, Mutate(r)
  PROVE  TypeOK'
<1> USE DEF TypeOK
<1>1. CASE BeginMutate(r)
    BY <1>1 DEF BeginMutate
<1>2. ASSUME NEW s \in Slot, InnerMutNode(r, s)
      PROVE  TypeOK'
    BY <1>2, EnterMutTyped DEF InnerMutNode
<1>3. ASSUME NEW s \in Slot, InnerMutRestore(r, s)
      PROVE  TypeOK'
  <2> DEFINE h == heap[cur[r]][s]
             f == <<cur[r], s>>
             c == Decode(h.store, store[h.store][h.hash])
  <2>1. h \in Handle /\ f \in Frame
      BY CurFrameTyped
  <2>2. h.store \in Store /\ h.hash \in Digest /\ h.ann \in Ann
      BY <1>3, <2>1, HandleKinds DEF InnerMutRestore, InStore, HasNode, None
  <2>3. c \in Content
      BY <1>3, <2>2, DecodeTyped DEF InnerMutRestore, Contains, IsContentMap
  <2>4. PICK i \in Fresh(heap) :
          heap' = Alloc(heap, f, i, NodeHandle(i, h.ann, NoHash), c)
      BY <1>3 DEF InnerMutRestore
  <2>5. i \in Id /\ NodeHandle(i, h.ann, NoHash) \in Handle
      BY <2>2, <2>4, Constructors DEF Fresh
  <2>6. heap' \in [Holder -> Content]
      BY <2>1, <2>3, <2>4, <2>5, HeapOps
  <2>7. At(heap', f) = NodeHandle(i, h.ann, NoHash)
      BY <2>1, <2>3, <2>4, <2>5 DEF Alloc, Replace, At, Frame, Holder, Content
  <2>8. cur' \in [Tree -> Holder] /\ open' \in [Tree -> SUBSET Frame]
    <3>1. Enter(r, f)
        BY <1>3 DEF InnerMutRestore
    <3>2. At(heap', f).id \in Id
        BY <2>5, <2>7 DEF NodeHandle
    <3> QED BY <2>1, <3>1, <3>2, MovesTyped
  <2>9. UNCHANGED <<store, snaps, op, dest, digest, edits, faults>>
      BY <1>3 DEF InnerMutRestore
  <2> QED BY <2>6, <2>8, <2>9
<1>4. ASSUME NEW s \in Slot, InnerMutFails(r, s)
      PROVE  TypeOK'
  <2>1. heap' \in [Holder -> Content]
      BY <1>4, CurFrameTyped, Constructors, HeapOps DEF InnerMutFails
  <2>2. faults' \in 0 .. MaxFaults
      BY <1>4, ConstantsOK DEF InnerMutFails
  <2> QED BY <1>4, <2>1, <2>2 DEF InnerMutFails, Stay
<1>5. ASSUME NEW s \in Slot, NEW l \in Leaf, PutLeaf(r, s, l)
      PROVE  TypeOK'
  <2>1. heap' \in [Holder -> Content]
      BY <1>5, CurFrameTyped, Constructors, HeapOps DEF PutLeaf
  <2> QED BY <1>5, <2>1, ConstantsOK DEF PutLeaf, Edit, Stay
<1>6. ASSUME NEW s \in Slot, RemoveLeaf(r, s)
      PROVE  TypeOK'
  <2>1. heap' \in [Holder -> Content]
      BY <1>6, CurFrameTyped, Constructors, HeapOps DEF RemoveLeaf
  <2> QED BY <1>6, <2>1, ConstantsOK DEF RemoveLeaf, Edit, Stay
<1>7. ASSUME NEW s \in Slot, NEW t \in Slot, NEW u \in Slot, NEW l \in Leaf,
             Split(r, s, t, u, l)
      PROVE  TypeOK'
  <2> DEFINE old == heap[cur[r]][s]
             c   == [EmptyNode EXCEPT ![t] = old, ![u] = LeafHandle(l)]
  <2>1. old \in Handle /\ <<cur[r], s>> \in Frame
      BY CurFrameTyped
  <2>2. c \in Content
      BY <2>1, Constructors DEF EmptyNode, Content
  <2>3. NodeAnn(c) \in Ann
    <3>1. c[u] = LeafHandle(l)
        BY DEF EmptyNode
    <3>2. AnnOf(c[u]) \in Ann
        BY <3>1 DEF AnnOf, LeafHandle, Typed
    <3>3. NodeAnn(c) # NoAnn \/ NodeAnn(c) \in Ann
      <4> DEFINE a == [x \in Slot |-> AnnOf(c[x])]
      <4>1. \A x \in Slot : AnnOf(c[x]) \in Ann \cup {NoAnn}
        <5> TAKE x \in Slot
        <5>1. c[x] \in Handle
            BY <2>2 DEF Content
        <5> QED BY <5>1, HandleKinds DEF AnnOf, HasNode, InStore, None, Typed
      <4>2. a \in [Slot -> Ann \cup {NoAnn}] /\ a[u] # NoAnn
          BY <4>1, <3>2, ConstantsOK
      <4>3. Combine(a) \in Ann
          BY <4>2 DEF Typed
      <4> QED BY <4>3, <3>2, ConstantsOK DEF NodeAnn
    <3> QED BY <3>3, <2>2, NodeAnnTyped
  <2>4. PICK i \in Fresh(heap) :
          heap' = Alloc(heap, <<cur[r], s>>, i, NodeHandle(i, NodeAnn(c), NoHash), c)
      BY <1>7 DEF Split
  <2>5. i \in Id /\ NodeHandle(i, NodeAnn(c), NoHash) \in Handle
      BY <2>3, <2>4, Constructors DEF Fresh
  <2>6. heap' \in [Holder -> Content]
      BY <2>1, <2>2, <2>4, <2>5, HeapOps
  <2>7. Edit(r) /\ Stay
      BY <1>7 DEF Split
  <2> QED BY <2>6, <2>7, ConstantsOK DEF Edit, Stay
<1>8. ASSUME NEW s \in Slot, Collapse(r, s)
      PROVE  TypeOK'
  <2>1. PICK f \in CurFrame(r) :
          /\ heap' = Release(Replace(heap, f, heap[cur[r]][s]), cur[r])
          /\ Leave(r, f)
      BY <1>8 DEF Collapse
  <2>2. f \in Frame /\ heap[cur[r]][s] \in Handle
      BY CurFrameTyped
  <2>3. heap' \in [Holder -> Content]
    <3>1. Replace(heap, f, heap[cur[r]][s]) \in [Holder -> Content]
        BY <2>2, HeapOps
    <3> QED BY <2>1, <3>1, CurFrameTyped, HeapOps
  <2>4. cur' \in [Tree -> Holder] /\ open' \in [Tree -> SUBSET Frame]
      BY <2>1, <2>2, MovesTyped
  <2> QED BY <1>8, <2>3, <2>4 DEF Collapse
<1>9. CASE DropHandleMut(r)
  <2> DEFINE a == NodeAnn(heap[cur[r]])
             h(f) == At(heap, f)
  <2>1. PICK f \in CurFrame(r) :
          /\ heap' = Replace(heap, f,
                       NodeHandle(h(f).id, IF a = NoAnn THEN h(f).ann ELSE a, NoHash))
          /\ Leave(r, f)
      BY <1>9 DEF DropHandleMut
  <2>2. f \in Frame /\ h(f) \in Handle /\ HasNode(h(f)) /\ a \in Ann \cup {NoAnn}
      BY CurFrameTyped, NodeAnnTyped
  <2>3. h(f).id \in Id /\ h(f).ann \in Ann
      BY <2>2, HandleKinds DEF HasNode, InStore, None
  <2>4. NodeHandle(h(f).id, IF a = NoAnn THEN h(f).ann ELSE a, NoHash) \in Handle
      BY <2>2, <2>3, Constructors
  <2>5. heap' \in [Holder -> Content]
      BY <2>1, <2>2, <2>4, HeapOps
  <2>6. cur' \in [Tree -> Holder] /\ open' \in [Tree -> SUBSET Frame]
      BY <2>1, <2>2, MovesTyped
  <2> QED BY <1>9, <2>5, <2>6 DEF DropHandleMut
<1>10. CASE EndMutate(r)
    BY <1>10 DEF EndMutate
<1> QED BY <1>1, <1>2, <1>3, <1>4, <1>5, <1>6, <1>7, <1>8, <1>9, <1>10 DEF Mutate

\* Every step of root_hash keeps the types.
LEMMA HashTyped ==
  ASSUME Typed, TypeOK, NEW r \in Tree, HashStep(r)
  PROVE  TypeOK'
<1> USE DEF TypeOK
<1>1. ASSUME NEW s \in Slot, HashDown(r, s)
      PROVE  TypeOK'
    BY <1>1, EnterMutTyped DEF HashDown, IsHashed
<1>2. CASE HashUp(r)
  <2> DEFINE d == Hash(Encode(heap[cur[r]]))
             h(f) == At(heap, f)
  <2>1. PICK f \in CurFrame(r) :
          heap' = Replace(heap, f, NodeHandle(h(f).id, h(f).ann, d)) /\ Leave(r, f)
      BY <1>2 DEF HashUp
  <2>2. f \in Frame /\ h(f) \in Handle /\ HasNode(h(f))
      BY CurFrameTyped
  <2>3. h(f).id \in Id /\ h(f).ann \in Ann
      BY <2>2, HandleKinds DEF HasNode, InStore, None
  <2>4. d \in Digest
      BY <1>2, CurFrameTyped, EncodeTyped DEF HashUp, Typed
  <2>5. heap' \in [Holder -> Content]
      BY <2>1, <2>2, <2>3, <2>4, Constructors, HeapOps
  <2>6. cur' \in [Tree -> Holder] /\ open' \in [Tree -> SUBSET Frame]
      BY <2>1, <2>2, MovesTyped
  <2> QED BY <1>2, <2>5, <2>6 DEF HashUp
<1>3. CASE HashDone(r)
  <2>1. Hash(Encode(heap[r])) \in Digest
      BY <1>3, CurFrameTyped, EncodeTyped DEF HashDone, Typed
  <2> QED BY <1>3, <2>1 DEF HashDone
<1> QED BY <1>1, <1>2, <1>3 DEF HashStep

\* What is about to be put: a blob, since no handle of the node is a node.
LEMMA WrittenTyped ==
  ASSUME Typed, TypeOK, NEW r \in Tree, Written(r)
  PROVE  /\ Encode(heap[cur[r]]) \in Blob
         /\ Hash(Encode(heap[cur[r]])) \in Digest
<1>1. \A s \in Slot : IsHashed(heap[cur[r]][s])
    BY DEF Written, IsHashed
<1> QED BY <1>1, CurFrameTyped, EncodeTyped DEF Typed

\* Every step of persist keeps the types.
LEMMA PersistTyped ==
  ASSUME Typed, TypeOK, NEW r \in Tree, PersistStep(r)
  PROVE  TypeOK'
<1>1. ASSUME NEW s \in Slot, PersistDown(r, s)
      PROVE  TypeOK'
    BY <1>1, EnterMutTyped DEF PersistDown, TypeOK
<1>2. CASE PersistUp(r)
  <2> DEFINE b == Encode(heap[cur[r]])
             h(f) == At(heap, f)
             d(f) == IF h(f).hash # NoHash THEN h(f).hash ELSE Hash(b)
  <2>1. PICK f \in CurFrame(r) :
          /\ Put(dest[r], d(f), b)
          /\ heap' = Release(Replace(heap, f, Persisted(dest[r], d(f), h(f).ann)),
                         cur[r])
          /\ Leave(r, f)
      BY <1>2 DEF PersistUp
  <2>2. f \in Frame /\ h(f) \in Handle /\ HasNode(h(f))
      BY CurFrameTyped
  <2>3. h(f).hash \in Digest \cup {NoHash} /\ h(f).ann \in Ann
      BY <2>2, HandleKinds DEF HasNode, InStore, None
  <2>4. b \in Blob /\ Hash(b) \in Digest
      BY <1>2, WrittenTyped DEF PersistUp
  <2>5. d(f) \in Digest /\ dest[r] \in Store
      BY <2>3, <2>4 DEF TypeOK
  <2>6. Persisted(dest[r], d(f), h(f).ann) \in Handle
      BY <2>3, <2>5, Constructors
  <2>7. heap' \in [Holder -> Content]
    <3>1. Replace(heap, f, Persisted(dest[r], d(f), h(f).ann)) \in [Holder -> Content]
        BY <2>2, <2>6, HeapOps DEF TypeOK
    <3> QED BY <2>1, <3>1, CurFrameTyped, HeapOps
  <2>8. cur' \in [Tree -> Holder] /\ open' \in [Tree -> SUBSET Frame]
      BY <2>1, <2>2, MovesTyped
  <2>9. DOMAIN store' = Store /\ \A s \in Store : IsContentMap(store'[s])
      BY <2>1, <2>4, <2>5, PutTyped
  <2> QED BY <1>2, <2>7, <2>8, <2>9 DEF PersistUp, TypeOK
<1>3. CASE PersistDone(r)
  <2> DEFINE b == Encode(heap[r])
  <2>1. b \in Blob /\ Hash(b) \in Digest
      BY <1>3, WrittenTyped DEF PersistDone, AtRoot
  <2>2. dest[r] \in Store
      BY DEF TypeOK
  <2>3. DOMAIN store' = Store /\ \A s \in Store : IsContentMap(store'[s])
      BY <1>3, <2>1, <2>2, PutTyped DEF PersistDone
  <2>4. snaps' \subseteq Store \X Digest
      BY <1>3, <2>1, <2>2 DEF PersistDone, TypeOK
  <2>5. digest' \in [Tree -> Digest \cup {NoHash}]
      BY <1>3, <2>1 DEF PersistDone, TypeOK
  <2> QED BY <1>3, <2>3, <2>4, <2>5 DEF PersistDone, TypeOK
<1>4. CASE PutFails(r)
    BY <1>4, ConstantsOK DEF PutFails, TypeOK, Holder
<1> QED BY <1>1, <1>2, <1>3, <1>4 DEF PersistStep

\* Hashing, persisting, restoring and cloning whole trees keep the types.
LEMMA WholeTyped ==
  ASSUME Typed, TypeOK, NEW r \in Tree, Whole(r)
  PROVE  TypeOK'
<1>1. CASE BeginHash(r)
    BY <1>1 DEF BeginHash, TypeOK
<1>2. ASSUME NEW st \in Store, BeginPersist(r, st)
      PROVE  TypeOK'
    BY <1>2 DEF BeginPersist, TypeOK
<1>3. ASSUME NEW snap \in snaps, Restore(r, snap[1], snap[2])
      PROVE  TypeOK'
  <2> DEFINE st == snap[1]
             d  == snap[2]
             c  == Decode(st, store[st][d])
  <2>1. st \in Store /\ d \in Digest
      BY DEF TypeOK
  <2>2. store[st][d] \in Blob
      BY <1>3, <2>1 DEF Restore, Contains, TypeOK, IsContentMap
  <2>3. c \in Content /\ r \in Holder
      BY <2>1, <2>2, DecodeTyped DEF Holder
  <2>4. [heap EXCEPT ![r] = c] \in [Holder -> Content]
      BY <2>3 DEF TypeOK
  <2>5. heap' \in [Holder -> Content]
      BY <1>3, <2>4, HeapOps DEF Restore
  <2>6. digest' \in [Tree -> Digest \cup {NoHash}]
      BY <1>3, <2>1 DEF Restore, TypeOK
  <2> QED BY <1>3, <2>5, <2>6 DEF Restore, TypeOK
<1>4. ASSUME NEW q \in Tree, Clone(r, q)
      PROVE  TypeOK'
  <2>1. [heap EXCEPT ![q] = heap[r]] \in [Holder -> Content]
      BY CurFrameTyped DEF TypeOK
  <2>2. heap' \in [Holder -> Content]
      BY <1>4, <2>1, HeapOps DEF Clone
  <2>3. digest' \in [Tree -> Digest \cup {NoHash}]
      BY <1>4 DEF Clone, TypeOK
  <2> QED BY <1>4, <2>2, <2>3 DEF Clone, TypeOK
<1> QED BY <1>1, <1>2, <1>3, <1>4 DEF Whole

\* A step of any tree, or none, keeps the types.
LEMMA NextTyped ==
  ASSUME Typed, TypeOK, [Next]_vars
  PROVE  TypeOK'
<1>1. CASE Next
    BY <1>1, MutateTyped, HashTyped, PersistTyped, WholeTyped DEF Next
<1>2. CASE UNCHANGED vars
    BY <1>2 DEF vars, TypeOK
<1> QED BY <1>1, <1>2

LEMMA InitTyped ==
  ASSUME Typed, Init
  PROVE  TypeOK
<1>1. EmptyNode \in Content
    BY Constructors DEF EmptyNode, Content
<1>2. \A st \in Store : IsContentMap(store[st])
    BY DEF Init, IsContentMap
<1> QED BY <1>1, <1>2, ConstantsOK DEF Init, TypeOK, Holder

\* The variables of HandleStore keep their types: in particular every cached
\* hash, persisted handle and blob holds a digest and every handle of a node an
\* address, whatever fails and however the calls interleave.
THEOREM TypeCorrect ==
  ASSUME Typed
  PROVE  Spec => []TypeOK
<1>1. Init => TypeOK
    BY InitTyped
<1>2. TypeOK /\ [Next]_vars => TypeOK'
    BY NextTyped
<1> QED BY <1>1, <1>2, PTL DEF Spec

=============================================================================
