------------------------- MODULE HandleStoreStores -------------------------
(***************************************************************************)
(* References into the stores: the digest and the annotation a persisted   *)
(* handle, or the bytes of a node, keep of a node that is only in a store. *)
(* Every reference is copied from another one, but for the one that        *)
(* persist makes of a node in memory in the step that puts the node.       *)
(***************************************************************************)
EXTENDS HandleStoreCaches

\* No two nodes have one digest: what content-addressing relies on.
Injective == \A b, c \in Blob : Hash(b) = Hash(c) => b = c

\* Some handle in memory, or some node in a store, refers to what has digest d
\* and takes its annotation to be a.
HeldRef(hp, d, a) ==
  \E f \in Frame : InStore(At(hp, f)) /\ At(hp, f).hash = d /\ At(hp, f).ann = a

StoredRef(d, a) ==
  \E st \in Store : \E x \in DOMAIN store[st] : \E s \in Slot :
    store[st][x][s].tag = "Hashed" /\ store[st][x][s].hash = d
      /\ store[st][x][s].ann = a

Referred(d, a) == HeldRef(heap, d, a) \/ StoredRef(d, a)

\* Nothing that has digest d has another annotation than a.
Signed(d, a) == \A b \in Blob : Hash(b) = d => NodeAnn(b) \in {NoAnn, a}

\* The inductive invariants.
AnnsSigned == \A d, a : Referred(d, a) => Signed(d, a)

-----------------------------------------------------------------------------
(***************************************************************************)
(* Where references come from.                                             *)
(***************************************************************************)

\* The references of a heap after each heap operation.
LEMMA HeldRefOps ==
  ASSUME NEW hp \in [Holder -> Content], NEW d, NEW a
  PROVE  /\ \A f \in Frame, h \in Handle :
              HeldRef(Replace(hp, f, h), d, a) =>
                HeldRef(hp, d, a) \/ (InStore(h) /\ h.hash = d /\ h.ann = a)
         /\ \A f \in Frame, i \in Id, h \in Handle, c \in Content :
              HasNode(h) /\ HeldRef(Alloc(hp, f, i, h, c), d, a) =>
                \/ HeldRef(hp, d, a)
                \/ \E s \in Slot : InStore(c[s]) /\ c[s].hash = d /\ c[s].ann = a
         /\ \A i \in Id : HeldRef(Release(hp, i), d, a) => HeldRef(hp, d, a)
         /\ HeldRef(Collect(hp), d, a) => HeldRef(hp, d, a)
         /\ \A r \in Tree, c \in Content :
              HeldRef([hp EXCEPT ![r] = c], d, a) =>
                \/ HeldRef(hp, d, a)
                \/ \E s \in Slot : InStore(c[s]) /\ c[s].hash = d /\ c[s].ann = a
<1>0. ~InStore(None)
    BY DEF InStore, None
<1>1. ASSUME NEW f \in Frame, NEW h \in Handle, HeldRef(Replace(hp, f, h), d, a)
      PROVE  HeldRef(hp, d, a) \/ (InStore(h) /\ h.hash = d /\ h.ann = a)
    BY <1>1, AtOps DEF HeldRef
<1>2. ASSUME NEW f \in Frame, NEW i \in Id, NEW h \in Handle, NEW c \in Content,
             HasNode(h), HeldRef(Alloc(hp, f, i, h, c), d, a)
      PROVE  \/ HeldRef(hp, d, a)
             \/ \E s \in Slot : InStore(c[s]) /\ c[s].hash = d /\ c[s].ann = a
  <2>1. PICK g \in Frame :
          LET k == At(Alloc(hp, f, i, h, c), g)
          IN InStore(k) /\ k.hash = d /\ k.ann = a
      BY <1>2 DEF HeldRef
  <2>2. At(Alloc(hp, f, i, h, c), g) =
          IF g = f THEN h ELSE IF g[1] = i THEN c[g[2]] ELSE At(hp, g)
      BY AtOps
  <2>3. ~InStore(h) /\ g[2] \in Slot
      BY <1>2 DEF HasNode, InStore, Frame
  <2> QED BY <2>1, <2>2, <2>3 DEF HeldRef
<1>3. \A i \in Id : HeldRef(Release(hp, i), d, a) => HeldRef(hp, d, a)
    BY <1>0, AtOps DEF HeldRef
<1>4. HeldRef(Collect(hp), d, a) => HeldRef(hp, d, a)
    BY <1>0, AtOps DEF HeldRef
<1>5. ASSUME NEW r \in Tree, NEW c \in Content, HeldRef([hp EXCEPT ![r] = c], d, a)
      PROVE  \/ HeldRef(hp, d, a)
             \/ \E s \in Slot : InStore(c[s]) /\ c[s].hash = d /\ c[s].ann = a
  <2>1. \A g \in Frame : g[2] \in Slot /\
          At([hp EXCEPT ![r] = c], g) = IF g[1] = r THEN c[g[2]] ELSE At(hp, g)
      BY DEF At, Frame
  <2> QED BY <1>5, <2>1 DEF HeldRef
<1> QED BY <1>1, <1>2, <1>3, <1>4, <1>5

\* make_mut copies references.
LEMMA MakeMutRefs ==
  ASSUME NEW hp \in [Holder -> Content], NEW f \in Frame, HasNode(At(hp, f)),
         NEW hq \in MakeMut(hp, f), NEW d, NEW a, HeldRef(hq, d, a)
  PROVE  HeldRef(hp, d, a)
<1>1. PICK h : h = At(hp, f)
    OBVIOUS
<1>2. h.id \in Id /\ h.id \in Holder /\ h.ann \in Ann /\ h.hash \in Digest \cup {NoHash}
    BY <1>1, NodeFrame
<1>3. CASE ~Shared(hp, h.id)
    BY <1>1, <1>3 DEF MakeMut
<1>4. CASE Shared(hp, h.id)
  <2>1. PICK i \in Fresh(hp) : hq = Alloc(hp, f, i, NodeHandle(i, h.ann, h.hash), hp[h.id])
      BY <1>1, <1>4 DEF MakeMut
  <2>2. PICK m : m = NodeHandle(i, h.ann, h.hash)
      OBVIOUS
  <2>3. i \in Id /\ m \in Handle /\ HasNode(m)
      BY <1>2, <2>1, <2>2, Constructors DEF Fresh, NodeHandle, HasNode
  <2>4. PICK c : c = hp[h.id]
      OBVIOUS
  <2>5. c \in Content /\ hq = Alloc(hp, f, i, m, c)
      BY <1>2, <2>1, <2>2, <2>4
  <2>6. \/ HeldRef(hp, d, a)
        \/ \E s \in Slot : InStore(c[s]) /\ c[s].hash = d /\ c[s].ann = a
      BY <2>3, <2>5, HeldRefOps
  <2>7. \A s \in Slot : <<h.id, s>> \in Frame /\ At(hp, <<h.id, s>>) = c[s]
      BY <1>2, <2>4 DEF Frame, At
  <2> QED BY <2>6, <2>7 DEF HeldRef
<1> QED BY <1>3, <1>4

\* Decoded handles are references that the node's bytes held.
LEMMA DecodedRefs ==
  ASSUME NEW st \in Store, NEW x \in DOMAIN store[st], store[st][x] \in Blob,
         NEW d, NEW a, NEW s \in Slot,
         LET h == Decode(st, store[st][x])[s]
         IN InStore(h) /\ h.hash = d /\ h.ann = a
  PROVE  StoredRef(d, a)
<1>1. PICK e : e = store[st][x][s]
    OBVIOUS
<1>2. e \in Entry
    BY <1>1 DEF Blob
<1>3. Decode(st, store[st][x])[s] = DecodeEntry(st, e)
    BY <1>1 DEF Decode
<1>4. e.tag = "Hashed" /\ e.hash = d /\ e.ann = a
    BY <1>2, <1>3 DEF DecodeEntry, Persisted, InStore, Entry, None
<1> QED BY <1>1, <1>4 DEF StoredRef

\* A node without nodes in memory below it is written with the references it
\* holds.
LEMMA EncodedRefs ==
  ASSUME NEW hp \in [Holder -> Content], NEW n \in Holder, NEW s \in Slot,
         ~HasNode(hp[n][s]), NEW d, NEW a,
         LET e == Encode(hp[n])[s]
         IN e.tag = "Hashed" /\ e.hash = d /\ e.ann = a
  PROVE  HeldRef(hp, d, a)
<1>1. PICK h : h = hp[n][s]
    OBVIOUS
<1>2. PICK f : f = <<n, s>>
    OBVIOUS
<1>3. f \in Frame /\ At(hp, f) = h /\ h \in Handle
    BY <1>1, <1>2 DEF Frame, At, Content
<1>4. Encode(hp[n])[s] = EncodeHandle(h)
    BY <1>1 DEF Encode
<1>5. InStore(h) /\ h.hash = d /\ h.ann = a
  <2>1. CASE InStore(h)
      BY <1>4, <2>1 DEF EncodeHandle, Hashed
  <2>2. CASE ~InStore(h)
    <3>1. EncodeHandle(h) = h
        BY <1>1, <2>2 DEF EncodeHandle
    <3>2. h.tag # "Hashed"
        BY <1>3 DEF Handle, None
    <3> QED BY <1>4, <3>1, <3>2
  <2> QED BY <2>1, <2>2
<1> QED BY <1>3, <1>5 DEF HeldRef


\* A put adds one node to one store, and what that node refers to.
LEMMA PutStores ==
  ASSUME NEW st \in Store, NEW x, NEW b, Put(st, x, b)
  PROVE  /\ \A t \in Store : \A y \in DOMAIN store[t] : y \in DOMAIN store'[t]
         /\ x \in DOMAIN store'[st]
         /\ \A t \in Store : \A y \in DOMAIN store'[t] :
              \/ y \in DOMAIN store[t] /\ store'[t][y] = store[t][y]
              \/ t = st /\ y = x /\ store'[t][y] = b
<1>1. PICK kept \in {b} \cup {store[st][y] : y \in DOMAIN store[st] \cap {x}} :
        store' = [s \in Store |->
                   IF s = st
                   THEN [y \in DOMAIN store[s] \cup {x} |->
                          IF y = x THEN kept ELSE store[s][y]]
                   ELSE store[s]]
    BY DEF Put
<1>2. \/ kept = b
      \/ x \in DOMAIN store[st] /\ kept = store[st][x]
    OBVIOUS
<1>3. \A t \in Store : store'[t] = IF t = st
                                   THEN [y \in DOMAIN store[t] \cup {x} |->
                                          IF y = x THEN kept ELSE store[t][y]]
                                   ELSE store[t]
    BY <1>1
<1>4. ASSUME NEW t \in Store
      PROVE  /\ \A y \in DOMAIN store[t] : y \in DOMAIN store'[t]
             /\ t = st => x \in DOMAIN store'[st]
             /\ \A y \in DOMAIN store'[t] :
                  \/ y \in DOMAIN store[t] /\ store'[t][y] = store[t][y]
                  \/ t = st /\ y = x /\ store'[t][y] = b
    BY <1>2, <1>3
<1> QED BY <1>4

LEMMA PutRefs ==
  ASSUME NEW st \in Store, NEW x, NEW b, Put(st, x, b),
         NEW d, NEW a, StoredRef(d, a)'
  PROVE  \/ StoredRef(d, a)
         \/ \E s \in Slot : b[s].tag = "Hashed" /\ b[s].hash = d /\ b[s].ann = a
<1>0. PICK t \in Store : \E y \in DOMAIN store'[t] : \E s \in Slot :
        store'[t][y][s].tag = "Hashed" /\ store'[t][y][s].hash = d
          /\ store'[t][y][s].ann = a
    BY DEF StoredRef
<1>1. PICK y \in DOMAIN store'[t] : \E s \in Slot :
        store'[t][y][s].tag = "Hashed" /\ store'[t][y][s].hash = d
          /\ store'[t][y][s].ann = a
    BY <1>0
<1>2. \/ y \in DOMAIN store[t] /\ store'[t][y] = store[t][y]
      \/ store'[t][y] = b
    BY PutStores
<1>3. CASE y \in DOMAIN store[t] /\ store'[t][y] = store[t][y]
    BY <1>1, <1>3 DEF StoredRef
<1>4. CASE store'[t][y] = b
    BY <1>1, <1>4
<1> QED BY <1>2, <1>3, <1>4

-----------------------------------------------------------------------------
(***************************************************************************)
(* The steps.                                                              *)
(***************************************************************************)

\* What a put writes of a node without nodes in memory below it.
LEMMA WrittenRefs ==
  ASSUME Owned, NEW r \in Tree, Written(r), Put(dest[r], Hash(Encode(heap[cur[r]])),
                                                Encode(heap[cur[r]])),
         NEW d, NEW a, StoredRef(d, a)'
  PROVE  Referred(d, a)
<1>1. PICK b : b = Encode(heap[cur[r]])
    OBVIOUS
<1>2. dest[r] \in Store /\ Put(dest[r], Hash(b), b)
    BY <1>1 DEF Owned, TypeOK
<1>3. \/ StoredRef(d, a)
      \/ \E s \in Slot : b[s].tag = "Hashed" /\ b[s].hash = d /\ b[s].ann = a
    BY <1>2, PutRefs
<1>4. /\ heap \in [Holder -> Content] /\ cur[r] \in Holder
      /\ \A s \in Slot : ~HasNode(heap[cur[r]][s])
    BY DEF Owned, TypeOK, Written
<1>5. ASSUME NEW s \in Slot, b[s].tag = "Hashed", b[s].hash = d, b[s].ann = a
      PROVE  HeldRef(heap, d, a)
    BY <1>1, <1>4, <1>5, EncodedRefs
<1> QED BY <1>3, <1>5 DEF Referred

\* Steps of mutating calls make no references.
LEMMA MutateRefs ==
  ASSUME Owned, TypeOK', NEW r \in Tree, Mutate(r), NEW d, NEW a, Referred(d, a)'
  PROVE  Referred(d, a)
<1>0. /\ heap \in [Holder -> Content]
      /\ \A s \in Slot : /\ <<cur[r], s>> \in Frame /\ heap[cur[r]][s] \in Handle
                         /\ At(heap, <<cur[r], s>>) = heap[cur[r]][s]
    BY CurFrameTyped DEF Owned, TypeOK, At
<1>1. UNCHANGED store
    BY DEF Mutate, BeginMutate, InnerMutNode, InnerMutRestore, InnerMutFails,
       PutLeaf, RemoveLeaf, Split, Collapse, DropHandleMut, EndMutate, Edit
<1>2. StoredRef(d, a) \/ HeldRef(heap', d, a)
    BY <1>1 DEF Referred, StoredRef
<1> SUFFICES ASSUME HeldRef(heap', d, a)
             PROVE  Referred(d, a)
    BY <1>2 DEF Referred
<1>3. CASE UNCHANGED heap
    BY <1>3 DEF Referred
<1>4. ASSUME NEW s \in Slot, InnerMutNode(r, s)
      PROVE  Referred(d, a)
    BY <1>0, <1>4, MakeMutRefs DEF InnerMutNode, Referred
<1>5. ASSUME NEW s \in Slot, InnerMutRestore(r, s)
      PROVE  Referred(d, a)
  <2>1. PICK h : h = heap[cur[r]][s]
      OBVIOUS
  <2>2. /\ h \in Handle /\ InStore(h) /\ h.hash \in DOMAIN store[h.store]
      BY <1>0, <1>5, <2>1 DEF InnerMutRestore, Contains
  <2>3. h.store \in Store /\ h.hash \in Digest /\ h.ann \in Ann
      BY <2>2, HandleKinds DEF HasNode, InStore, None
  <2>4. store[h.store][h.hash] \in Blob
      BY <2>2, <2>3 DEF Owned, TypeOK, IsContentMap
  <2>5. PICK c : c = Decode(h.store, store[h.store][h.hash])
      OBVIOUS
  <2>6. PICK i \in Fresh(heap) :
          heap' = Alloc(heap, <<cur[r], s>>, i, NodeHandle(i, h.ann, NoHash), c)
      BY <1>5, <2>1, <2>5 DEF InnerMutRestore
  <2>7. PICK m : m = NodeHandle(i, h.ann, NoHash)
      OBVIOUS
  <2>8. i \in Id /\ m \in Handle /\ HasNode(m) /\ c \in Content
      BY <2>3, <2>4, <2>5, <2>6, <2>7, Constructors, DecodeTyped
         DEF Fresh, NodeHandle, HasNode
  <2>9. \/ HeldRef(heap, d, a)
        \/ \E x \in Slot : InStore(c[x]) /\ c[x].hash = d /\ c[x].ann = a
      BY <1>0, <2>6, <2>7, <2>8, HeldRefOps
  <2>10. ASSUME NEW x \in Slot, InStore(c[x]), c[x].hash = d, c[x].ann = a
         PROVE  StoredRef(d, a)
      BY <2>2, <2>3, <2>4, <2>5, <2>10, DecodedRefs
  <2> QED BY <2>9, <2>10 DEF Referred
<1>6. ASSUME NEW s \in Slot, InnerMutFails(r, s) \/ RemoveLeaf(r, s)
      PROVE  Referred(d, a)
  <2>1. heap' = Replace(heap, <<cur[r], s>>, None)
      BY <1>6 DEF InnerMutFails, RemoveLeaf
  <2>2. None \in Handle /\ ~InStore(None)
      BY Constructors DEF None, InStore
  <2> QED BY <1>0, <2>1, <2>2, HeldRefOps DEF Referred
<1>7. ASSUME NEW s \in Slot, NEW l \in Leaf, PutLeaf(r, s, l)
      PROVE  Referred(d, a)
  <2>1. heap' = Replace(heap, <<cur[r], s>>, LeafHandle(l))
      BY <1>7 DEF PutLeaf
  <2>2. LeafHandle(l) \in Handle /\ ~InStore(LeafHandle(l))
      BY Constructors DEF LeafHandle, InStore
  <2> QED BY <1>0, <2>1, <2>2, HeldRefOps DEF Referred
<1>8. ASSUME NEW s \in Slot, Collapse(r, s)
      PROVE  Referred(d, a)
  <2>1. PICK f \in CurFrame(r) :
          heap' = Release(Replace(heap, f, heap[cur[r]][s]), cur[r])
      BY <1>8 DEF Collapse
  <2>2. f \in Frame /\ cur[r] \in Id
      BY CurFrameTyped DEF Owned
  <2>3. PICK p : p = Replace(heap, f, heap[cur[r]][s])
      OBVIOUS
  <2>4. p \in [Holder -> Content]
      BY <1>0, <2>2, <2>3, HeapOps
  <2>5. HeldRef(p, d, a)
      BY <2>1, <2>2, <2>3, <2>4, HeldRefOps
  <2>6. ~InStore(heap[cur[r]][s])
      BY <1>8 DEF Collapse, InStore
  <2> QED BY <1>0, <2>2, <2>3, <2>5, <2>6, HeldRefOps DEF Referred
<1>9. CASE DropHandleMut(r)
  <2> DEFINE n(f) == NodeHandle(At(heap, f).id,
                                IF NodeAnn(heap[cur[r]]) = NoAnn THEN At(heap, f).ann
                                ELSE NodeAnn(heap[cur[r]]), NoHash)
  <2>1. PICK f \in CurFrame(r) : heap' = Replace(heap, f, n(f))
      BY <1>9 DEF DropHandleMut
  <2>2. f \in Frame /\ ~InStore(n(f))
      BY CurFrameTyped DEF Owned, NodeHandle, InStore
  <2>3. n(f) \in Handle
      BY <2>1, HandleWritten
  <2> HIDE DEF n
  <2> QED BY <1>0, <2>1, <2>2, <2>3, HeldRefOps DEF Referred
<1>10. ASSUME NEW s \in Slot, NEW t \in Slot, NEW u \in Slot, NEW l \in Leaf,
              Split(r, s, t, u, l)
       PROVE  Referred(d, a)
  <2>1. PICK i \in Fresh(heap), h \in Handle, c \in Content :
          /\ HasNode(h) /\ \A x \in Slot : ~InStore(c[x])
          /\ heap' = Alloc(heap, <<cur[r], s>>, i, h, c)
      BY <1>10, SplitHeap
  <2>2. i \in Id
      BY DEF Fresh
  <2> QED BY <1>0, <2>1, <2>2, HeldRefOps DEF Referred
<1> QED BY <1>3, <1>4, <1>5, <1>6, <1>7, <1>8, <1>9, <1>10
        DEF Mutate, BeginMutate, EndMutate

\* Steps of root_hash make no references either.
LEMMA HashRefs ==
  ASSUME Owned, TypeOK', NEW r \in Tree, HashStep(r), NEW d, NEW a, Referred(d, a)'
  PROVE  Referred(d, a)
<1>0. /\ heap \in [Holder -> Content]
      /\ \A s \in Slot : /\ <<cur[r], s>> \in Frame
                         /\ At(heap, <<cur[r], s>>) = heap[cur[r]][s]
    BY CurFrameTyped DEF Owned, TypeOK, At
<1>1. UNCHANGED store
    BY DEF HashStep, HashDown, HashUp, HashDone
<1>2. StoredRef(d, a) \/ HeldRef(heap', d, a)
    BY <1>1 DEF Referred, StoredRef
<1> SUFFICES ASSUME HeldRef(heap', d, a)
             PROVE  Referred(d, a)
    BY <1>2 DEF Referred
<1>3. ASSUME NEW s \in Slot, HashDown(r, s)
      PROVE  Referred(d, a)
    BY <1>0, <1>3, MakeMutRefs DEF HashDown, IsHashed, Referred
<1>4. CASE HashUp(r)
  <2> DEFINE n(f) == NodeHandle(At(heap, f).id, At(heap, f).ann,
                                Hash(Encode(heap[cur[r]])))
  <2>1. PICK f \in CurFrame(r) : heap' = Replace(heap, f, n(f))
      BY <1>4 DEF HashUp
  <2>2. f \in Frame /\ ~InStore(n(f))
      BY CurFrameTyped DEF Owned, NodeHandle, InStore
  <2>3. n(f) \in Handle
      BY <2>1, HandleWritten
  <2> HIDE DEF n
  <2> QED BY <1>0, <2>1, <2>2, <2>3, HeldRefOps DEF Referred
<1>5. CASE HashDone(r)
    BY <1>5 DEF HashDone, Referred
<1> QED BY <1>3, <1>4, <1>5 DEF HashStep

\* A node is written with the annotations it has.
LEMMA EncodedAnn ==
  ASSUME NEW c \in Content
  PROVE  NodeAnn(Encode(c)) = NodeAnn(c)
<1>1. ASSUME NEW s \in Slot
      PROVE  AnnOf(Encode(c)[s]) = AnnOf(c[s])
  <2>1. Encode(c)[s] = EncodeHandle(c[s])
      BY DEF Encode
  <2>2. CASE HasNode(c[s]) \/ InStore(c[s])
      BY <2>1, <2>2 DEF EncodeHandle, AnnOf, HasNode, InStore, Hashed
  <2>3. CASE ~(HasNode(c[s]) \/ InStore(c[s]))
      BY <2>1, <2>3 DEF EncodeHandle
  <2> QED BY <2>2, <2>3
<1> QED BY <1>1, NodeAnnOfSame

\* The reference persist makes of the node it has put.
MadeRef(r, d, a) ==
  /\ dest[r] \in Store /\ d \in DOMAIN store'[dest[r]]
  /\ \E b \in Blob : d = Hash(b) /\ NodeAnn(b) \in {NoAnn, a}

\* Steps of persist.
LEMMA PersistRefs ==
  ASSUME Typed, Coherent, TypeOK', NEW r \in Tree, PersistStep(r), NEW d, NEW a,
         Referred(d, a)'
  PROVE  Referred(d, a) \/ MadeRef(r, d, a)
<1>0. /\ heap \in [Holder -> Content]
      /\ \A s \in Slot : /\ <<cur[r], s>> \in Frame
                         /\ At(heap, <<cur[r], s>>) = heap[cur[r]][s]
    BY CurFrameTyped DEF Coherent, Owned, TypeOK, At
<1>1. ASSUME NEW s \in Slot, PersistDown(r, s)
      PROVE  Referred(d, a)
  <2>1. StoredRef(d, a) \/ HeldRef(heap', d, a)
      BY <1>1 DEF PersistDown, Referred, StoredRef
  <2> QED BY <1>0, <1>1, <2>1, MakeMutRefs DEF PersistDown, Referred
<1>2. CASE PersistUp(r)
  <2>b. PICK b : b = Encode(heap[cur[r]])
      OBVIOUS
  <2>1. PICK f \in CurFrame(r), h \in Handle :
          /\ h = Persisted(dest[r], Hash(b), At(heap, f).ann)
          /\ heap' = Release(Replace(heap, f, h), cur[r])
          /\ Put(dest[r], Hash(b), b) /\ b \in Blob
      BY <2>b, <1>2, PersistedFrame
  <2>2. /\ Persisting(r) /\ Written(r) /\ dest[r] \in Store
        /\ f \in open[r] /\ f \in Frame /\ cur[r] \in Id
        /\ HasNode(At(heap, f)) /\ At(heap, f).id = cur[r]
        /\ heap[cur[r]] \in Content
      BY <1>2, CurFrameTyped DEF PersistUp, Written, Coherent, Owned, TypeOK
  <2>3. CASE StoredRef(d, a)'
      BY <2>b, <2>1, <2>2, <2>3, WrittenRefs DEF Coherent
  <2>4. CASE HeldRef(heap', d, a)
    <3>1. PICK p : p = Replace(heap, f, h)
        OBVIOUS
    <3>2. p \in [Holder -> Content]
        BY <1>0, <2>2, <3>1, HeapOps
    <3>3. HeldRef(p, d, a)
        BY <2>1, <2>2, <2>4, <3>1, <3>2, HeldRefOps
    <3>4. HeldRef(heap, d, a) \/ (h.hash = d /\ h.ann = a)
        BY <1>0, <2>2, <3>1, <3>3, HeldRefOps
    <3>5. CASE h.hash = d /\ h.ann = a
      <4>1. d = Hash(b) /\ a = At(heap, f).ann
          BY <2>1, <3>5 DEF Persisted
      <4>2. UpToDate(heap, f)
          BY <2>2, HashedFrame
      <4>3. NodeAnn(b) \in {NoAnn, a}
          BY <2>b, <2>2, <4>1, <4>2, EncodedAnn DEF UpToDate
      <4>4. d \in DOMAIN store'[dest[r]]
          BY <2>1, <2>2, <4>1, PutStores
      <4> QED BY <2>1, <2>2, <4>1, <4>3, <4>4 DEF MadeRef
    <3> QED BY <3>4, <3>5 DEF Referred
  <2> QED BY <2>3, <2>4 DEF Referred
<1>3. CASE PersistDone(r)
  <2>1. /\ Written(r) /\ UNCHANGED heap
        /\ Put(dest[r], Hash(Encode(heap[cur[r]])), Encode(heap[cur[r]]))
      BY <1>3 DEF PersistDone, AtRoot
  <2>2. CASE StoredRef(d, a)'
      BY <2>1, <2>2, WrittenRefs DEF Coherent
  <2>3. CASE HeldRef(heap', d, a)
      BY <2>1, <2>3 DEF Referred
  <2> QED BY <2>2, <2>3 DEF Referred
<1>4. CASE PutFails(r)
    BY <1>4 DEF PutFails, Referred, StoredRef
<1> QED BY <1>1, <1>2, <1>3, <1>4 DEF PersistStep

\* Restoring copies the references of a stored node, cloning those of a tree.
LEMMA WholeRefs ==
  ASSUME Owned, NEW r \in Tree, Whole(r), NEW d, NEW a, Referred(d, a)'
  PROVE  Referred(d, a)
<1>0. heap \in [Holder -> Content]
    BY DEF Owned, TypeOK
<1>1. UNCHANGED store
    BY DEF Whole, BeginHash, BeginPersist, Restore, Clone
<1>2. StoredRef(d, a) \/ HeldRef(heap', d, a)
    BY <1>1 DEF Referred, StoredRef
<1>3. ASSUME NEW q \in Tree, NEW c \in Content, HeldRef(heap', d, a),
             heap' = Collect([heap EXCEPT ![q] = c])
      PROVE  \/ HeldRef(heap, d, a)
             \/ \E s \in Slot : InStore(c[s]) /\ c[s].hash = d /\ c[s].ann = a
  <2>1. PICK p : p = [heap EXCEPT ![q] = c]
      OBVIOUS
  <2>2. p \in [Holder -> Content]
      BY <1>0, <2>1
  <2>3. HeldRef(p, d, a)
      BY <1>3, <2>1, <2>2, HeldRefOps
  <2>4. HeldRef([heap EXCEPT ![q] = c], d, a)
      BY <2>1, <2>3
  <2>5. \A t \in Tree, e \in Content :
          HeldRef([heap EXCEPT ![t] = e], d, a) =>
            \/ HeldRef(heap, d, a)
            \/ \E s \in Slot : InStore(e[s]) /\ e[s].hash = d /\ e[s].ann = a
      BY <1>0, HeldRefOps
  <2> QED BY <2>4, <2>5
<1>4. CASE UNCHANGED heap
    BY <1>2, <1>4 DEF Referred
<1>5. ASSUME NEW snap \in snaps, Restore(r, snap[1], snap[2]), HeldRef(heap', d, a)
      PROVE  Referred(d, a)
  <2>1. PICK st : st = snap[1]
      OBVIOUS
  <2>2. PICK x : x = snap[2]
      OBVIOUS
  <2>3. st \in Store /\ x \in DOMAIN store[st] /\ store[st][x] \in Blob
      BY <1>5, <2>1, <2>2 DEF Restore, Contains, Owned, TypeOK, IsContentMap
  <2>4. PICK c : c = Decode(st, store[st][x])
      OBVIOUS
  <2>5. c \in Content /\ heap' = Collect([heap EXCEPT ![r] = c])
      BY <1>5, <2>1, <2>2, <2>3, <2>4, DecodeTyped DEF Restore
  <2>6. ASSUME NEW s \in Slot, InStore(c[s]), c[s].hash = d, c[s].ann = a
        PROVE  StoredRef(d, a)
      BY <2>3, <2>4, <2>6, DecodedRefs
  <2> QED BY <1>3, <1>5, <2>5, <2>6 DEF Referred
<1>6. ASSUME NEW q \in Tree, Clone(r, q), HeldRef(heap', d, a)
      PROVE  Referred(d, a)
  <2>1. heap[r] \in Content /\ heap' = Collect([heap EXCEPT ![q] = heap[r]])
      BY <1>0, <1>6 DEF Clone, Holder
  <2>2. \A s \in Slot : <<r, s>> \in Frame /\ At(heap, <<r, s>>) = heap[r][s]
      BY DEF Frame, At, Holder
  <2>3. \/ HeldRef(heap, d, a)
        \/ \E s \in Slot : InStore(heap[r][s]) /\ heap[r][s].hash = d
                           /\ heap[r][s].ann = a
      BY <1>3, <1>6, <2>1
  <2> QED BY <2>2, <2>3 DEF HeldRef, Referred
<1> QED BY <1>2, <1>4, <1>5, <1>6 DEF Whole, BeginHash, BeginPersist, Referred

\* Every reference there is after a step was there before it, or was made of the
\* node that the step put.
LEMMA NextRefs ==
  ASSUME Typed, Coherent, [Next]_vars, NEW d, NEW a, Referred(d, a)'
  PROVE  Referred(d, a) \/ \E r \in Tree : MadeRef(r, d, a)
<1>1. TypeOK'
    BY NextTyped DEF Coherent, Owned
<1>2. CASE Next
    BY <1>1, <1>2, MutateRefs, HashRefs, PersistRefs, WholeRefs DEF Next, Coherent
<1>3. CASE UNCHANGED vars
    BY <1>3 DEF vars, Referred, StoredRef
<1> QED BY <1>2, <1>3

\* A step leaves the stores alone or puts one node under its hash.
LEMMA NextPut ==
  ASSUME Typed, Coherent, [Next]_vars
  PROVE  \/ UNCHANGED <<store, snaps>>
         \/ \E st \in Store, b \in Blob :
              Put(st, Hash(b), b) /\ snaps' \subseteq snaps \cup {<<st, Hash(b)>>}
<1>1. TypeOK'
    BY NextTyped DEF Coherent, Owned
<1>2. CASE UNCHANGED vars
    BY <1>2 DEF vars
<1>3. ASSUME NEW r \in Tree, Mutate(r) \/ HashStep(r) \/ Whole(r)
      PROVE  UNCHANGED <<store, snaps>>
  <2>1. CASE Mutate(r)
      BY <2>1 DEF Mutate, BeginMutate, InnerMutNode, InnerMutRestore, InnerMutFails,
         PutLeaf, RemoveLeaf, Split, Collapse, DropHandleMut, EndMutate, Edit
  <2>2. CASE HashStep(r)
      BY <2>2 DEF HashStep, HashDown, HashUp, HashDone
  <2>3. CASE Whole(r)
      BY <2>3 DEF Whole, BeginHash, BeginPersist, Restore, Clone
  <2> QED BY <1>3, <2>1, <2>2, <2>3
<1>4. ASSUME NEW r \in Tree, PersistStep(r)
      PROVE  \/ UNCHANGED <<store, snaps>>
             \/ \E st \in Store, b \in Blob :
                  Put(st, Hash(b), b) /\ snaps' \subseteq snaps \cup {<<st, Hash(b)>>}
  <2>1. (\E s \in Slot : PersistDown(r, s)) \/ PutFails(r) => UNCHANGED <<store, snaps>>
      BY DEF PersistDown, PutFails
  <2>2. dest[r] \in Store /\ heap[r] \in Content
      BY DEF Coherent, Owned, TypeOK, Holder
  <2>3. CASE PersistUp(r)
    <3>1. UNCHANGED snaps
        BY <2>3 DEF PersistUp
    <3>2. \E b \in Blob : Put(dest[r], Hash(b), b)
        BY <1>1, <2>3, PersistedFrame
    <3> QED BY <2>2, <3>1, <3>2
  <2>4. CASE PersistDone(r)
    <3>1. PICK b : b = Encode(heap[r])
        OBVIOUS
    <3>2. Put(dest[r], Hash(b), b) /\ snaps' = snaps \cup {<<dest[r], Hash(b)>>}
        BY <2>4, <3>1 DEF PersistDone
    <3>3. \A s \in Slot : IsHashed(heap[r][s])
        BY <2>4 DEF PersistDone, Written, AtRoot, IsHashed
    <3>4. b \in Blob
        BY <2>2, <3>1, <3>3, EncodeTyped
    <3> QED BY <2>2, <3>2, <3>4
  <2> QED BY <1>4, <2>1, <2>3, <2>4 DEF PersistStep
<1> QED BY <1>2, <1>3, <1>4 DEF Next

-----------------------------------------------------------------------------
(***************************************************************************)
(* What a digest stands for never changes.                                 *)
(***************************************************************************)
LEMMA StepGrows ==
  ASSUME Typed, Injective, Coherent, [Next]_vars, NEW t \in Store,
         NEW x \in DOMAIN store[t]
  PROVE  x \in DOMAIN store'[t] /\ store'[t][x] = store[t][x]
<1>1. CASE UNCHANGED store
    BY <1>1
<1>2. ASSUME NEW st \in Store, NEW b \in Blob, Put(st, Hash(b), b)
      PROVE  x \in DOMAIN store'[t] /\ store'[t][x] = store[t][x]
  <2>1. x \in DOMAIN store'[t]
      BY <1>2, PutStores
  <2>2. \/ store'[t][x] = store[t][x]
        \/ x = Hash(b) /\ store'[t][x] = b
      BY <1>2, <2>1, PutStores
  \* What is replaced had the same digest, so it was the same node.
  <2>3. Hash(store[t][x]) = x /\ store[t][x] \in Blob
      BY DEF Coherent, StoreSound, Owned, TypeOK, IsContentMap
  <2> QED BY <2>1, <2>2, <2>3 DEF Injective
<1> QED BY <1>1, <1>2, NextPut

\* A step only ever adds to a store and never changes what a digest stands for,
\* whether put keeps the bytes that are there (DiskBackend) or replaces them
\* (MemBackend), as long as no two nodes have one digest.
THEOREM StoresGrow ==
  ASSUME Typed, Injective
  PROVE  Spec => StoreGrows
<1>1. Init => Coherent
    BY InitCoherent
<1>2. Coherent /\ [Next]_vars => Coherent'
    BY NextCoherent
<1>3. Coherent /\ [Next]_vars =>
        [\A st \in Store : \A d \in DOMAIN store[st] :
           d \in DOMAIN store'[st] /\ store'[st][d] = store[st][d]]_vars
    BY StepGrows
<1> QED BY <1>1, <1>2, <1>3, PTL DEF Spec, StoreGrows

-----------------------------------------------------------------------------
(***************************************************************************)
(* Annotations kept with references.                                       *)
(***************************************************************************)
LEMMA NextSigned ==
  ASSUME Typed, Injective, Coherent, AnnsSigned, [Next]_vars
  PROVE  AnnsSigned'
<1> SUFFICES ASSUME NEW d, NEW a, Referred(d, a)'
             PROVE  Signed(d, a)
    BY DEF AnnsSigned
<1>1. CASE Referred(d, a)
    BY <1>1 DEF AnnsSigned
<1>2. ASSUME NEW r \in Tree, MadeRef(r, d, a)
      PROVE  Signed(d, a)
    BY <1>2 DEF MadeRef, Signed, Injective
<1> QED BY <1>1, <1>2, NextRefs

LEMMA InitSigned ==
  ASSUME Init
  PROVE  AnnsSigned
<1>1. \A f \in Frame : ~InStore(At(heap, f))
    BY DEF Init, EmptyNode, Frame, At, InStore, None
<1>2. \A st \in Store : DOMAIN store[st] = {}
    BY DEF Init
<1> QED BY <1>1, <1>2 DEF AnnsSigned, Referred, HeldRef, StoredRef

LEMMA SignedIsFresh ==
  ASSUME Coherent, AnnsSigned
  PROVE  StoredAnnFresh
<1>1. ASSUME NEW st \in Store, NEW d \in DOMAIN store[st], NEW a, Referred(d, a)
      PROVE  NodeAnn(store[st][d]) \in {NoAnn, a}
  <2>1. Hash(store[st][d]) = d /\ store[st][d] \in Blob
      BY DEF Coherent, StoreSound, Owned, TypeOK, IsContentMap
  <2> QED BY <1>1, <2>1 DEF AnnsSigned, Signed
<1>2. ASSUME NEW f \in Frame, InStore(At(heap, f)),
             Contains(At(heap, f).store, At(heap, f).hash)
      PROVE  AnnOfRef(At(heap, f).store, At(heap, f))
  <2>1. PICK h : h = At(heap, f)
      OBVIOUS
  <2>2. h \in Handle /\ InStore(h) /\ h.hash \in DOMAIN store[h.store]
      BY <1>2, <2>1, HeapOps DEF Coherent, Owned, TypeOK, Contains
  <2>3. h.store \in Store
      BY <2>2, HandleKinds DEF HasNode, InStore, None
  <2>4. Referred(h.hash, h.ann)
      BY <1>2, <2>1 DEF Referred, HeldRef
  <2> QED BY <1>1, <2>1, <2>2, <2>3, <2>4 DEF AnnOfRef
<1>3. ASSUME NEW st \in Store, NEW d \in DOMAIN store[st], NEW s \in Slot,
             store[st][d][s].tag = "Hashed", Contains(st, store[st][d][s].hash)
      PROVE  AnnOfRef(st, store[st][d][s])
  <2>1. Referred(store[st][d][s].hash, store[st][d][s].ann)
      BY <1>3 DEF Referred, StoredRef
  <2> QED BY <1>1, <1>3, <2>1 DEF AnnOfRef, Contains
<1> QED BY <1>2, <1>3 DEF StoredAnnFresh

\* The annotation kept with a reference into a store is that of the node it
\* refers to, for any number of stores, so queries need not load the node.
THEOREM StoredAnnotationsAreFresh ==
  ASSUME Typed, Injective
  PROVE  Spec => []StoredAnnFresh
<1>1. Init => Coherent /\ AnnsSigned
    BY InitCoherent, InitSigned
<1>2. Coherent /\ AnnsSigned /\ [Next]_vars => Coherent' /\ AnnsSigned'
    BY NextCoherent, NextSigned
<1>3. Coherent /\ AnnsSigned => StoredAnnFresh
    BY SignedIsFresh
<1> QED BY <1>1, <1>2, <1>3, PTL DEF Spec

-----------------------------------------------------------------------------
(***************************************************************************)
(* With one store, nothing dangles.                                        *)
(***************************************************************************)

\* The only store has what its snapshots and all references name.
Complete(st) ==
  /\ \A snap \in snaps : snap[2] \in DOMAIN store[st]
  /\ \A d, a : Referred(d, a) => d \in DOMAIN store[st]

LEMMA NothingDangles ==
  ASSUME TypeOK, NEW st, Store = {st}, Complete(st)
  PROVE  NoDangling
<1>1. \A snap \in snaps : snap[1] = st
    BY DEF TypeOK
<1>2. ASSUME NEW f \in Frame, InStore(At(heap, f))
      PROVE  At(heap, f).store = st
  <2>1. At(heap, f) \in Handle
      BY HeapOps DEF TypeOK
  <2> QED BY <1>2, <2>1, HandleKinds DEF HasNode, InStore, None
<1>3. \A f \in Frame :
        InStore(At(heap, f)) => Contains(At(heap, f).store, At(heap, f).hash)
    BY <1>2 DEF Complete, Referred, HeldRef, Contains
<1>4. \A t \in Store : \A d \in DOMAIN store[t] : \A s \in Slot :
        store[t][d][s].tag = "Hashed" => Contains(t, store[t][d][s].hash)
    BY DEF Complete, Referred, StoredRef, Contains
<1>5. \A snap \in snaps : Contains(snap[1], snap[2])
    BY <1>1 DEF Complete, Contains
<1> QED BY <1>3, <1>4, <1>5 DEF NoDangling, SnapshotsComplete

LEMMA NextComplete ==
  ASSUME Typed, Coherent, NEW st, Store = {st}, Complete(st), [Next]_vars
  PROVE  Complete(st)'
<1>3. /\ \A x \in DOMAIN store[st] : x \in DOMAIN store'[st]
      /\ \A snap \in snaps' : snap \in snaps \/ snap[2] \in DOMAIN store'[st]
  <2>1. CASE UNCHANGED <<store, snaps>>
      BY <2>1
  <2>2. ASSUME NEW t \in Store, NEW b \in Blob, Put(t, Hash(b), b),
               snaps' \subseteq snaps \cup {<<t, Hash(b)>>}
        PROVE  /\ \A x \in DOMAIN store[st] : x \in DOMAIN store'[st]
               /\ \A snap \in snaps' : snap \in snaps \/ snap[2] \in DOMAIN store'[st]
    <3>1. t = st
        OBVIOUS
    <3>2. /\ \A x \in DOMAIN store[st] : x \in DOMAIN store'[st]
          /\ Hash(b) \in DOMAIN store'[st]
        BY <2>2, <3>1, PutStores
    <3> QED BY <2>2, <3>2
  <2> QED BY <2>1, <2>2, NextPut
<1>4. ASSUME NEW d, NEW a, Referred(d, a)'
      PROVE  d \in DOMAIN store'[st]
  <2>1. CASE Referred(d, a)
      BY <1>3, <2>1 DEF Complete
  <2>2. ASSUME NEW r \in Tree, MadeRef(r, d, a)
        PROVE  d \in DOMAIN store'[st]
      BY <2>2 DEF MadeRef
  <2> QED BY <1>4, <2>1, <2>2, NextRefs
<1>5. \A snap \in snaps' : snap[2] \in DOMAIN store'[st]
    BY <1>3 DEF Complete
<1> QED BY <1>4, <1>5 DEF Complete

LEMMA InitComplete ==
  ASSUME Init, NEW st, Store = {st}
  PROVE  Complete(st)
<1>1. \A f \in Frame : ~InStore(At(heap, f))
    BY DEF Init, EmptyNode, Frame, At, InStore, None
<1>2. snaps = {} /\ \A t \in Store : DOMAIN store[t] = {}
    BY DEF Init
<1> QED BY <1>1, <1>2 DEF Complete, Referred, HeldRef, StoredRef

\* In a program that opened one store, every reference can be followed: those of
\* snapshots, of stored nodes and of trees in memory, also half way through a
\* persist and after one failed. With two stores it is false (HandleTwoStores).
THEOREM OneStoreIsComplete ==
  ASSUME Typed, NEW st, Store = {st}
  PROVE  Spec => []NoDangling
<1>1. Init => Coherent /\ Complete(st)
    BY InitCoherent, InitComplete
<1>2. Coherent /\ Complete(st) /\ [Next]_vars => Coherent' /\ Complete(st)'
    BY NextCoherent, NextComplete
<1>3. Coherent /\ Complete(st) => NoDangling
    BY NothingDangles DEF Coherent, Owned
<1> QED BY <1>1, <1>2, <1>3, PTL DEF Spec

=============================================================================
