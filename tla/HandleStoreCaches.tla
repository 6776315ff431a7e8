------------------------- MODULE HandleStoreCaches -------------------------
(***************************************************************************)
(* Cached hashes, annotations, reported root hashes and the contents of    *)
(* the stores: a digest always stands for what the node behind it would be *)
(* written as. All of it rests on the exclusive borrows: when a node       *)
(* changes, the only handle that refers to it is the one it was opened     *)
(* through, so there is no other cache to clear.                           *)
(***************************************************************************)
EXTENDS HandleStoreBorrow

\* The hash and the annotation in a handle are those of the node behind it.
UpToDate(hp, f) ==
  LET h == At(hp, f)
  IN HasNode(h) =>
       /\ h.hash # NoHash => Describes(h.hash, hp[h.id])
       /\ NodeAnn(hp[h.id]) \in {NoAnn, h.ann}

\* CacheCoherent and AnnFresh, frame by frame.
FramesUpToDate == \A f \in Frame : HeldMut(f) \/ UpToDate(heap, f)

\* A call that takes &mut self has outdated the root hash of its tree.
EditingForgets ==
  \A r \in Tree : Mutating(r) \/ op[r] = "abort" => digest[r] = NoHash

\* The inductive invariant.
Coherent ==
  Owned /\ FramesUpToDate /\ RootHashCoherent /\ EditingForgets /\ StoreSound

\* Nodes that are written alike, and have the same annotations.
Alike(c, e) ==
  \A s \in Slot :
    /\ IsHashed(c[s]) <=> IsHashed(e[s])
    /\ EncodeHandle(c[s]) = EncodeHandle(e[s])
    /\ AnnOf(c[s]) = AnnOf(e[s])

-----------------------------------------------------------------------------
(***************************************************************************)
(* Nodes and frames.                                                       *)
(***************************************************************************)

\* A node's annotation depends on the annotations of its handles only.
LEMMA NodeAnnOfSame ==
  ASSUME NEW c, NEW e, \A s \in Slot : AnnOf(c[s]) = AnnOf(e[s])
  PROVE  NodeAnn(c) = NodeAnn(e)
<1>1. [s \in Slot |-> AnnOf(c[s])] = [s \in Slot |-> AnnOf(e[s])]
    OBVIOUS
<1> QED BY <1>1 DEF NodeAnn

\* Nodes that are alike have one hash and one annotation.
LEMMA AlikeNodes ==
  ASSUME NEW c, NEW e, Alike(c, e)
  PROVE  /\ NodeAnn(c) = NodeAnn(e)
         /\ \A d : Describes(d, c) <=> Describes(d, e)
<1>1. Encode(c) = Encode(e)
    BY DEF Alike, Encode
<1>2. NodeAnn(c) = NodeAnn(e)
    BY NodeAnnOfSame DEF Alike
<1> QED BY <1>1, <1>2 DEF Alike, Describes

\* A handle that says the same of a node that is alike is as up to date.
LEMMA StaysUpToDate ==
  ASSUME NEW hp, NEW hq, NEW k, NEW g, UpToDate(hp, k),
         HasNode(At(hq, g)) =>
           /\ HasNode(At(hp, k))
           /\ At(hq, g).hash = At(hp, k).hash /\ At(hq, g).ann = At(hp, k).ann
           /\ Alike(hp[At(hp, k).id], hq[At(hq, g).id])
  PROVE  UpToDate(hq, g)
BY AlikeNodes DEF UpToDate

\* What the nodes of a heap are after each heap operation.
LEMMA NodeOps ==
  ASSUME NEW hp \in [Holder -> Content], NEW n \in Holder
  PROVE  /\ \A f \in Frame, h \in Handle :
              /\ n # f[1] => Replace(hp, f, h)[n] = hp[n]
              /\ \A s \in Slot : Replace(hp, f, h)[f[1]][s] =
                   IF s = f[2] THEN h ELSE hp[f[1]][s]
         /\ \A f \in Frame, i \in Id, h \in Handle, c \in Content : i # f[1] =>
              /\ n # f[1] => Alloc(hp, f, i, h, c)[n] = IF n = i THEN c ELSE hp[n]
              /\ \A s \in Slot : Alloc(hp, f, i, h, c)[f[1]][s] =
                   IF s = f[2] THEN h ELSE hp[f[1]][s]
         /\ \A i \in Id : n # i => Release(hp, i)[n] = hp[n]
         /\ n \in Tree \cup Live(hp) => Collect(hp)[n] = hp[n]
<1>1. ASSUME NEW hq \in [Holder -> Content], NEW f \in Frame, NEW h \in Handle
      PROVE  /\ n # f[1] => Replace(hq, f, h)[n] = hq[n]
             /\ \A s \in Slot : Replace(hq, f, h)[f[1]][s] =
                  IF s = f[2] THEN h ELSE hq[f[1]][s]
  <2>1. f[1] \in Holder /\ f[2] \in Slot
      BY DEF Frame
  <2>2. hq[f[1]] \in [Slot -> Handle]
      BY <2>1 DEF Content
  <2> QED BY <2>1, <2>2 DEF Replace
<1>2. ASSUME NEW f \in Frame, NEW i \in Id, NEW h \in Handle, NEW c \in Content,
             i # f[1]
      PROVE  /\ n # f[1] => Alloc(hp, f, i, h, c)[n] = IF n = i THEN c ELSE hp[n]
             /\ \A s \in Slot : Alloc(hp, f, i, h, c)[f[1]][s] =
                  IF s = f[2] THEN h ELSE hp[f[1]][s]
  <2> DEFINE hq == [hp EXCEPT ![i] = c]
  <2>1. f[1] \in Holder
      BY DEF Frame
  <2>2. /\ hq \in [Holder -> Content]
        /\ hq[n] = IF n = i THEN c ELSE hp[n]
        /\ hq[f[1]] = hp[f[1]]
      BY <1>2, <2>1
  <2> HIDE DEF hq
  <2>3. Alloc(hp, f, i, h, c) = Replace(hq, f, h)
      BY DEF Alloc, hq
  <2> QED BY <1>1, <2>2, <2>3
<1>3. \A i \in Id : n # i => Release(hp, i)[n] = hp[n]
    BY DEF Release
<1>4. n \in Tree \cup Live(hp) => Collect(hp)[n] = hp[n]
    BY DEF Collect
<1> QED BY <1>1, <1>2, <1>3, <1>4

\* A handle of a node: where it leads.
LEMMA NodeFrame ==
  ASSUME NEW hp \in [Holder -> Content], NEW g \in Frame, HasNode(At(hp, g))
  PROVE  /\ At(hp, g) \in Handle
         /\ At(hp, g).id \in Id /\ At(hp, g).id \in Holder
         /\ At(hp, g).id \notin Tree
         /\ At(hp, g).ann \in Ann /\ At(hp, g).hash \in Digest \cup {NoHash}
         /\ RefersTo(hp, g, At(hp, g).id)
<1>1. At(hp, g) \in Handle
    BY HeapOps
<1> QED BY <1>1, HandleKinds, ConstantsOK DEF HasNode, InStore, None, RefersTo, Holder

\* A call's current node and the nodes on its way there are referred to by its
\* own open handles only.
LEMMA BorrowedReference ==
  ASSUME Owned, NEW r \in Tree, NEW n, n = cur[r] \/ \E f \in open[r] : n = f[1],
         NEW g \in Frame, RefersTo(heap, g, n)
  PROVE  g \in open[r]
<1>1. n \in Id /\ n # r
    BY NodeFrame, ConstantsOK DEF RefersTo, Owned, TypeOK
<1>2. PICK k \in open[r] : RefersTo(heap, k, n)
    BY <1>1 DEF Owned, Path, CurFrame
<1>3. Alone(heap, k) /\ At(heap, k).id = n /\ k \in Frame
    BY <1>2, OpenFrames DEF RefersTo
<1> QED BY <1>2, <1>3, OnlyReference

-----------------------------------------------------------------------------
(***************************************************************************)
(* What changes of the heap leave up to date.                              *)
(***************************************************************************)

\* The root hashes reported so far still are right in the heap hp.
RootsDescribed(hp) == \A r \in Tree : digest[r] # NoHash => Describes(digest[r], hp[r])

\* No handle is released that was held for mutation.
StillHeld == \A f \in Frame : HeldMut(f) => HeldMut(f)'

\* The heap is left alone.
LEMMA SameHeapCoherent ==
  ASSUME Coherent, UNCHANGED heap, StillHeld
  PROVE  FramesUpToDate' /\ RootsDescribed(heap')
BY DEF Coherent, FramesUpToDate, StillHeld, UpToDate, RootHashCoherent, RootsDescribed

\* A frame whose handle stays, in a step that changes its node, if at all, while
\* a mutating call has it open.
LEMMA UntouchedFrame ==
  ASSUME Coherent, StillHeld, NEW g \in Frame, At(heap', g) = At(heap, g),
         HasNode(At(heap, g)) =>
           \/ heap'[At(heap, g).id] = heap[At(heap, g).id]
           \/ HeldMut(g)'
  PROVE  HeldMut(g)' \/ UpToDate(heap', g)
BY DEF Coherent, FramesUpToDate, StillHeld, UpToDate

\* A mutating call at its current node: it holds the only reference there is, and
\* no root hash stands for the node.
LEMMA EditedNode ==
  ASSUME Coherent, NEW r \in Tree, Mutating(r)
  PROVE  /\ \A g \in Frame : RefersTo(heap, g, cur[r]) => HeldMut(g)
         /\ \A q \in Tree : digest[q] # NoHash => q # cur[r]
<1>1. ASSUME NEW g \in Frame, RefersTo(heap, g, cur[r])
      PROVE  HeldMut(g)
  <2>1. g \in open[r]
      BY <1>1, BorrowedReference DEF Coherent
  <2> QED BY <2>1 DEF HeldMut
<1>2. ASSUME NEW q \in Tree, digest[q] # NoHash
      PROVE  q # cur[r]
  <2>1. q # r
      BY <1>2 DEF Coherent, EditingForgets
  <2>2. cur[r] = r \/ cur[r] \in Id
      BY CurFrameTyped DEF Coherent, Owned, Path
  <2> QED BY <2>1, <2>2, ConstantsOK
<1> QED BY <1>1, <1>2

\* A mutating call writes a handle of no node into its current node.
LEMMA WriteCoherent ==
  ASSUME Coherent, StillHeld, NEW r \in Tree, Mutating(r),
         NEW s \in Slot, NEW h \in Handle, ~HasNode(h),
         heap' = Replace(heap, <<cur[r], s>>, h)
  PROVE  FramesUpToDate' /\ RootsDescribed(heap')
<1> DEFINE w == <<cur[r], s>>
<1>1. heap \in [Holder -> Content] /\ w \in Frame /\ w[1] = cur[r]
    BY CurFrameTyped DEF Coherent, Owned, TypeOK
<1>2. \A g \in Frame : At(heap', g) = IF g = w THEN h ELSE At(heap, g)
    BY <1>1, AtOps
<1>3. \A n \in Holder : n # cur[r] => heap'[n] = heap[n]
    BY <1>1, NodeOps
<1> HIDE DEF w
<1>4. ASSUME NEW g \in Frame
      PROVE  HeldMut(g)' \/ UpToDate(heap', g)
  <2>1. CASE g = w
      BY <1>2, <2>1 DEF UpToDate
  <2>2. CASE g # w
    <3>1. At(heap', g) = At(heap, g)
        BY <1>2, <2>2
    <3>2. HasNode(At(heap, g)) => \/ heap'[At(heap, g).id] = heap[At(heap, g).id]
                                  \/ HeldMut(g)'
        BY <1>1, <1>3, NodeFrame, EditedNode DEF StillHeld
    <3> QED BY <3>1, <3>2, UntouchedFrame
  <2> QED BY <2>1, <2>2
<1>5. RootsDescribed(heap')
    BY <1>3, EditedNode DEF RootsDescribed, Coherent, RootHashCoherent, Holder
<1> QED BY <1>4, <1>5 DEF FramesUpToDate

\* A mutating call puts a new node below its current node, without a cached hash
\* and with the right annotation, or opens it at once.
LEMMA AllocCoherent ==
  ASSUME Coherent, StillHeld, NEW r \in Tree, Mutating(r),
         NEW s \in Slot, NEW w, w = <<cur[r], s>>,
         NEW i \in Fresh(heap), NEW h \in Handle,
         HasNode(h), h.id = i, h.hash = NoHash,
         NEW c \in Content, \A x \in Slot : ~HasNode(c[x]),
         heap' = Alloc(heap, w, i, h, c),
         NodeAnn(c) = h.ann \/ HeldMut(w)'
  PROVE  FramesUpToDate' /\ RootsDescribed(heap')
<1>1. /\ heap \in [Holder -> Content] /\ w \in Frame /\ w[1] = cur[r]
      /\ i \in Id /\ i \in Holder /\ i \notin Tree /\ cur[r] # i
      /\ \A f \in Frame : ~RefersTo(heap, f, i)
    BY CurFrameTyped, FreshNotBorrowed, ConstantsOK
       DEF Coherent, Owned, TypeOK, Holder, Fresh
<1>2. \A g \in Frame : At(heap', g) =
        IF g = w THEN h ELSE IF g[1] = i THEN c[g[2]] ELSE At(heap, g)
    BY <1>1, AtOps
<1>3. \A n \in Holder : n # cur[r] => heap'[n] = IF n = i THEN c ELSE heap[n]
    BY <1>1, NodeOps
<1>4. ASSUME NEW g \in Frame
      PROVE  HeldMut(g)' \/ UpToDate(heap', g)
  <2>1. CASE g = w
    <3>1. heap'[i] = c /\ At(heap', g) = h
        BY <1>1, <1>2, <1>3, <2>1
    <3> QED BY <2>1, <3>1 DEF UpToDate
  <2>2. CASE g # w /\ g[1] = i
    <3>1. g[2] \in Slot
        BY DEF Frame
    <3> QED BY <1>2, <2>2, <3>1 DEF UpToDate
  <2>3. CASE g # w /\ g[1] # i
    <3>1. At(heap', g) = At(heap, g)
        BY <1>2, <2>3
    <3>2. HasNode(At(heap, g)) => \/ heap'[At(heap, g).id] = heap[At(heap, g).id]
                                  \/ HeldMut(g)'
        BY <1>1, <1>3, NodeFrame, EditedNode DEF StillHeld
    <3> QED BY <3>1, <3>2, UntouchedFrame
  <2> QED BY <2>1, <2>2, <2>3
<1>5. RootsDescribed(heap')
    BY <1>1, <1>3, EditedNode DEF RootsDescribed, Coherent, RootHashCoherent, Holder
<1> QED BY <1>4, <1>5 DEF FramesUpToDate

\* A handle of the current node is in nobody's way: it is not held.
LEMMA BelowCurUpToDate ==
  ASSUME Coherent, NEW r \in Tree, NEW g \in Frame, g[1] = cur[r]
  PROVE  UpToDate(heap, g)
BY NotOpenBelow DEF Coherent, FramesUpToDate, HeldMut

\* A node with one handle replaced by one that is written alike is alike.
LEMMA AlikeButOne ==
  ASSUME NEW c, NEW e, NEW s \in Slot, \A x \in Slot : x # s => c[x] = e[x],
         NEW a, c[s] = a, NEW b, e[s] = b,
         IsHashed(a) <=> IsHashed(b), EncodeHandle(a) = EncodeHandle(b),
         AnnOf(a) = AnnOf(b)
  PROVE  Alike(c, e)
<1> SUFFICES ASSUME NEW x \in Slot
             PROVE  /\ IsHashed(c[x]) <=> IsHashed(e[x])
                    /\ EncodeHandle(c[x]) = EncodeHandle(e[x])
                    /\ AnnOf(c[x]) = AnnOf(e[x])
    BY DEF Alike
<1>1. CASE x = s
    BY <1>1
<1>2. CASE x # s
  <2>1. c[x] = e[x]
      BY <1>2
  <2> QED BY <2>1
<1> QED BY <1>1, <1>2

\* A node handle that is moved to a clone of its node is written alike.
LEMMA MovedHandle ==
  ASSUME NEW h \in Handle, HasNode(h), NEW i
  PROVE  LET e == NodeHandle(i, h.ann, h.hash)
         IN /\ IsHashed(h) <=> IsHashed(e)
            /\ EncodeHandle(h) = EncodeHandle(e) /\ AnnOf(h) = AnnOf(e)
BY DEF NodeHandle, HasNode, IsHashed, EncodeHandle, AnnOf

\* make_mut on a handle of the current node: a clone is like the node it was
\* cloned from, its handles refer to the same nodes, and the current node is
\* alike although the handle is another.
LEMMA MakeMutCoherent ==
  ASSUME Coherent, TypeOK', StillHeld, NEW r \in Tree, NEW s \in Slot,
         HasNode(heap[cur[r]][s]), heap' \in MakeMut(heap, <<cur[r], s>>)
  PROVE  FramesUpToDate' /\ RootsDescribed(heap')
<1>w. PICK w : w = <<cur[r], s>>
    OBVIOUS
<1>o. PICK old : old = At(heap, w)
    OBVIOUS
<1>1. /\ heap \in [Holder -> Content] /\ w \in Frame /\ w[1] = cur[r] /\ w[2] = s
      /\ old = heap[cur[r]][s] /\ HasNode(old) /\ old \in Handle
      /\ cur[r] \in Holder
    BY <1>w, <1>o, CurFrameTyped DEF Coherent, Owned, TypeOK, At
<1>2. /\ old.id \in Id /\ old.id \in Holder /\ old.ann \in Ann
      /\ old.hash \in Digest \cup {NoHash}
    BY <1>1, <1>o, NodeFrame
<1>3. CASE ~Shared(heap, old.id)
  <2>1. heap' = heap
      BY <1>3, <1>w, <1>o DEF MakeMut
  <2> QED BY <2>1, SameHeapCoherent
<1>4. CASE Shared(heap, old.id)
  <2>1. PICK i \in Fresh(heap) :
          heap' = Alloc(heap, w, i, NodeHandle(i, old.ann, old.hash), heap[old.id])
      BY <1>4, <1>w, <1>o DEF MakeMut
  <2>2. PICK h : h = NodeHandle(i, old.ann, old.hash)
      OBVIOUS
  <2>3. PICK c : c = heap[old.id]
      OBVIOUS
  <2>4. /\ i \in Id /\ i \in Holder /\ i \notin Tree /\ cur[r] # i
        /\ \A f \in Frame : ~RefersTo(heap, f, i)
      BY FreshNotBorrowed, ConstantsOK DEF Coherent, Holder, Fresh
  <2>5. /\ h \in Handle /\ HasNode(h) /\ h.id = i
        /\ h.ann = old.ann /\ h.hash = old.hash /\ c \in Content
      BY <1>1, <1>2, <2>2, <2>3, <2>4, Constructors DEF NodeHandle, HasNode
  <2>6. /\ IsHashed(old) <=> IsHashed(h)
        /\ EncodeHandle(old) = EncodeHandle(h) /\ AnnOf(old) = AnnOf(h)
      BY <1>1, <2>2, MovedHandle
  <2>7. heap' = Alloc(heap, w, i, h, c)
      BY <2>1, <2>2, <2>3
  <2>8. \A g \in Frame : At(heap', g) =
          IF g = w THEN h ELSE IF g[1] = i THEN c[g[2]] ELSE At(heap, g)
      BY <1>1, <2>4, <2>5, <2>7, AtOps
  <2>9. \A n \in Holder : n # cur[r] => heap'[n] = IF n = i THEN c ELSE heap[n]
      BY <1>1, <2>4, <2>5, <2>7, NodeOps
  <2>10. Alike(heap[cur[r]], heap'[cur[r]])
    <3>1. \A x \in Slot : heap'[cur[r]][x] = IF x = s THEN h ELSE heap[cur[r]][x]
        BY <1>1, <2>4, <2>5, <2>7, NodeOps
    <3>2. PICK m : m = heap[cur[r]]
        OBVIOUS
    <3>3. PICK n : n = heap'[cur[r]]
        OBVIOUS
    <3>4. /\ \A x \in Slot : x # s => m[x] = n[x]
          /\ m[s] = old /\ n[s] = h
        BY <1>1, <3>1, <3>2, <3>3
    <3>5. Alike(m, n)
        BY <2>6, <3>4, AlikeButOne
    <3> QED BY <3>2, <3>3, <3>5
  <2>11. \A n \in Holder : n # i => Alike(heap[n], heap'[n])
    <3>1. \A n \in Holder : n # i /\ n # cur[r] => heap'[n] = heap[n]
        BY <2>9
    <3> QED BY <2>10, <3>1 DEF Alike
  \* The handles of the clone are those of the node, which nobody has open.
  <2>12. ASSUME NEW g \in Frame, g[1] = i
         PROVE  UpToDate(heap', g)
    <3>1. PICK k : k = <<old.id, g[2]>>
        OBVIOUS
    <3>2. k \in Frame /\ k[1] = old.id /\ At(heap, k) = c[g[2]] /\ g # w
        BY <1>1, <1>2, <2>3, <2>4, <2>12, <3>1 DEF Frame, At
    <3>3. At(heap', g) = At(heap, k)
        BY <2>8, <2>12, <3>2
    <3>4. UpToDate(heap, k)
      <4>1. ASSUME NEW q \in Tree, k \in open[q]
            PROVE  FALSE
        <5>1. w \in open[q]
          <6>1. RefersTo(heap, w, old.id)
              BY <1>1, <1>o DEF RefersTo
          <6> QED BY <1>1, <3>2, <4>1, <6>1, BorrowedReference DEF Coherent
        <5> QED BY <1>1, <5>1, NotOpenBelow DEF Coherent
      <4> QED BY <3>2, <4>1 DEF Coherent, FramesUpToDate, HeldMut
    <3>5. HasNode(At(heap, k)) => /\ At(heap, k).id \in Holder
                                  /\ At(heap, k).id # i
        BY <1>1, <2>4, <3>2, NodeFrame
    <3> QED BY <2>11, <3>3, <3>4, <3>5, StaysUpToDate
  <2>13. UpToDate(heap', w)
    <3>1. UpToDate(heap, w)
        BY <1>1, BelowCurUpToDate
    <3>2. heap'[i] = c /\ At(heap', w) = h
        BY <1>1, <2>4, <2>8, <2>9
    <3>3. Alike(heap[At(heap, w).id], heap'[At(heap', w).id])
      <4>1. heap[At(heap, w).id] = c /\ heap'[At(heap', w).id] = c
          BY <1>o, <2>3, <2>5, <3>2
      <4> QED BY <4>1 DEF Alike
    <3>4. /\ HasNode(At(heap, w)) /\ At(heap', w).hash = At(heap, w).hash
          /\ At(heap', w).ann = At(heap, w).ann
        BY <1>1, <1>o, <2>5, <3>2
    <3> QED BY <3>1, <3>3, <3>4, StaysUpToDate
  <2>14. ASSUME NEW g \in Frame, g # w, g[1] # i
         PROVE  HeldMut(g)' \/ UpToDate(heap', g)
    <3>1. At(heap', g) = At(heap, g)
        BY <2>8, <2>14
    <3>2. HasNode(At(heap, g)) => /\ At(heap, g).id \in Holder
                                  /\ At(heap, g).id # i
        BY <1>1, <2>4, NodeFrame
    <3>3. UpToDate(heap, g) => UpToDate(heap', g)
        BY <2>11, <3>1, <3>2, StaysUpToDate
    <3> QED BY <3>3 DEF Coherent, FramesUpToDate, StillHeld
  <2>15. RootsDescribed(heap')
    <3>1. \A q \in Tree : Alike(heap[q], heap'[q])
        BY <2>4, <2>11 DEF Holder
    <3> QED BY <3>1, AlikeNodes DEF RootsDescribed, Coherent, RootHashCoherent
  <2> QED BY <2>12, <2>13, <2>14, <2>15 DEF FramesUpToDate
<1> QED BY <1>3, <1>4


\* A handle that says as much as before, in a node that is otherwise the same:
\* digests of the node stay its digests.
LEMMA SaysAsMuch ==
  ASSUME NEW c, NEW e, NEW s \in Slot, \A x \in Slot : x # s => c[x] = e[x],
         NEW a, c[s] = a, NEW b, e[s] = b, AnnOf(a) = AnnOf(b),
         IsHashed(a) => IsHashed(b) /\ EncodeHandle(a) = EncodeHandle(b)
  PROVE  /\ NodeAnn(c) = NodeAnn(e)
         /\ \A d : Describes(d, c) => Describes(d, e)
<1>1. \A x \in Slot : AnnOf(c[x]) = AnnOf(e[x])
  <2> SUFFICES ASSUME NEW x \in Slot
               PROVE  AnnOf(c[x]) = AnnOf(e[x])
      OBVIOUS
  <2>1. CASE x = s
      BY <2>1
  <2>2. CASE x # s
    <3>1. c[x] = e[x]
        BY <2>2
    <3> QED BY <3>1
  <2> QED BY <2>1, <2>2
<1>2. NodeAnn(c) = NodeAnn(e)
    BY <1>1, NodeAnnOfSame
<1>3. ASSUME NEW d, Describes(d, c)
      PROVE  Describes(d, e)
  <2>1. IsHashed(a)
      BY <1>3 DEF Describes
  <2>2. IsHashed(a) <=> IsHashed(b)
      BY <2>1
  <2>3. Alike(c, e)
      BY <2>1, <2>2, AlikeButOne
  <2> QED BY <1>3, <2>3, AlikeNodes
<1> QED BY <1>2, <1>3

\* What the heap is when a call has left the frame f: the handle is written, and
\* a node may be gone that nothing refers to any more.
LEMMA LeftHeap ==
  ASSUME Owned, NEW r \in Tree, NEW f \in CurFrame(r), NEW h \in Handle,
         \/ heap' = Replace(heap, f, h)
         \/ heap' = Release(Replace(heap, f, h), cur[r])
  PROVE  /\ At(heap', f) = h
         /\ \A g \in Frame : g # f => At(heap', g) \in {At(heap, g), None}
         /\ \A n \in Holder :
              \/ n = f[1] \/ heap'[n] = heap[n]
              \/ n = cur[r] /\ \A g \in Frame : ~RefersTo(heap', g, n)
         /\ \A s \in Slot : heap'[f[1]][s] = IF s = f[2] THEN h ELSE heap[f[1]][s]
<1>p. PICK p : p = Replace(heap, f, h)
    OBVIOUS
<1>i. PICK i : i = cur[r]
    OBVIOUS
<1>1. /\ heap \in [Holder -> Content] /\ p \in [Holder -> Content]
      /\ f \in Frame /\ f[1] \in Holder /\ i \in Id /\ f[1] # i
    BY <1>p, <1>i, CurFrameTyped, NotOpenBelow, HeapOps DEF Owned, TypeOK
<1>2. \A g \in Frame : At(p, g) = IF g = f THEN h ELSE At(heap, g)
    BY <1>p, <1>1, AtOps
<1>3. /\ \A n \in Holder : n # f[1] => p[n] = heap[n]
      /\ \A s \in Slot : p[f[1]][s] = IF s = f[2] THEN h ELSE heap[f[1]][s]
    BY <1>p, <1>1, NodeOps
<1>4. CASE heap' = p
    BY <1>1, <1>2, <1>3, <1>4
<1>5. CASE heap' = Release(p, i)
  <2>1. \A g \in Frame : At(heap', g) =
          IF g[1] = i /\ i \in Fresh(p) THEN None ELSE At(p, g)
      BY <1>1, <1>5, AtOps
  <2>2. \A n \in Holder : n # i => heap'[n] = p[n]
      BY <1>1, <1>5, NodeOps
  <2>3. CASE i \in Fresh(p)
    <3>1. \A g \in Frame : ~RefersTo(heap', g, i)
        BY <2>1, <2>3 DEF Fresh, RefersTo, None, HasNode
    <3> QED BY <1>1, <1>2, <1>3, <1>i, <2>1, <2>2, <3>1
  <2>4. CASE i \notin Fresh(p)
    <3>1. heap' = p
        BY <1>1, <1>5, <2>4 DEF Release, Holder
    <3> QED BY <1>1, <1>2, <1>3, <3>1
  <2> QED BY <2>3, <2>4
<1> QED BY <1>p, <1>i, <1>4, <1>5

\* Leaving a frame: the other handles a mutating call holds stay held.
LEMMA OthersStayHeld ==
  ASSUME TypeOK, NEW r \in Tree, NEW f, Leave(r, f), UNCHANGED op,
         NEW g, g # f, HeldMut(g)
  PROVE  HeldMut(g)'
<1>1. PICK q \in Tree : (Mutating(q) \/ op[q] = "abort") /\ g \in open[q]
    BY DEF HeldMut
<1>2. g \in open'[q]
    BY <1>1 DEF Leave, TypeOK
<1> QED BY <1>1, <1>2 DEF HeldMut, Mutating

\* A mutating call leaves a frame, with the node's annotation and no cached hash
\* in the handle.
LEMMA LeaveEdited ==
  ASSUME Coherent, NEW r \in Tree, Mutating(r) \/ op[r] = "abort", UNCHANGED op,
         NEW f \in CurFrame(r), Leave(r, f), NEW h \in Handle,
         \/ heap' = Replace(heap, f, h)
         \/ heap' = Release(Replace(heap, f, h), cur[r]),
         HasNode(h) => /\ h.id = cur[r] /\ h.hash = NoHash
                       /\ NodeAnn(heap[cur[r]]) \in {NoAnn, h.ann}
  PROVE  FramesUpToDate' /\ RootsDescribed(heap')
<1>1. /\ heap \in [Holder -> Content] /\ f \in Frame /\ f \in open[r]
      /\ cur[r] \in Id /\ cur[r] \in Holder /\ f[1] # cur[r]
    BY CurFrameTyped, NotOpenBelow DEF Coherent, Owned, TypeOK
<1>2. /\ At(heap', f) = h
      /\ \A g \in Frame : g # f => At(heap', g) \in {At(heap, g), None}
      /\ \A n \in Holder :
           \/ n = f[1] \/ heap'[n] = heap[n]
           \/ n = cur[r] /\ \A g \in Frame : ~RefersTo(heap', g, n)
    BY LeftHeap DEF Coherent
<1>3. ASSUME NEW g \in Frame
      PROVE  HeldMut(g)' \/ UpToDate(heap', g)
  <2>1. CASE g = f
    <3>1. HasNode(h) => heap'[h.id] = heap[cur[r]]
        BY <1>1, <1>2 DEF RefersTo
    <3> QED BY <1>2, <2>1, <3>1 DEF UpToDate
  <2>2. CASE g # f /\ At(heap', g) = None
      BY <2>2 DEF UpToDate, None, HasNode
  <2>3. CASE g # f /\ At(heap', g) = At(heap, g) /\ HasNode(At(heap, g))
    <3>1. PICK n : n = At(heap, g).id
        OBVIOUS
    <3>2. n \in Holder /\ RefersTo(heap, g, n) /\ RefersTo(heap', g, n)
        BY <1>1, <2>3, <3>1, NodeFrame DEF RefersTo
    <3>3. CASE n = f[1]
      <4>1. g \in open[r]
          BY <1>1, <3>2, <3>3, BorrowedReference DEF Coherent
      <4>2. HeldMut(g)
          BY <4>1 DEF HeldMut
      <4> QED BY <2>3, <4>2, OthersStayHeld DEF Coherent, Owned
    <3>4. CASE n # f[1]
      <4>1. heap'[n] = heap[n]
          BY <1>2, <3>2, <3>4
      <4>2. HeldMut(g) => HeldMut(g)'
          BY <2>3, OthersStayHeld DEF Coherent, Owned
      <4>3. UpToDate(heap, g) => UpToDate(heap', g)
          BY <2>3, <3>1, <4>1 DEF UpToDate
      <4> QED BY <4>2, <4>3 DEF Coherent, FramesUpToDate
    <3> QED BY <3>3, <3>4
  <2>4. CASE g # f /\ At(heap', g) = At(heap, g) /\ ~HasNode(At(heap, g))
      BY <2>4 DEF UpToDate
  <2> QED BY <1>2, <2>1, <2>2, <2>3, <2>4
\* The tree of the call has no root hash, and no other has its nodes for root.
<1>4. ASSUME NEW q \in Tree, digest[q] # NoHash
      PROVE  heap'[q] = heap[q]
  <2>1. q # r
      BY <1>4 DEF Coherent, EditingForgets
  <2>2. f[1] = r \/ f[1] \in Id
    <3>1. f[1] = r \/ \E g \in open[r] : RefersTo(heap, g, f[1])
        BY <1>1 DEF Coherent, Owned, Path
    <3> QED BY <1>1, <3>1, OpenFrames DEF Coherent, RefersTo
  <2>3. q # f[1] /\ q # cur[r] /\ q \in Holder
      BY <1>1, <2>1, <2>2, ConstantsOK DEF Holder
  <2> QED BY <1>2, <2>3
<1>5. RootsDescribed(heap')
    BY <1>4 DEF RootsDescribed, Coherent, RootHashCoherent
<1> QED BY <1>3, <1>5 DEF FramesUpToDate

\* What root_hash or persist has open is not held for mutation.
LEMMA HashedFrame ==
  ASSUME Coherent, NEW r \in Tree, Hashing(r) \/ Persisting(r), NEW f \in open[r]
  PROVE  UpToDate(heap, f)
<1>1. f \in Frame
    BY OpenFrames DEF Coherent
<1>2. \A q \in Tree : f \in open[q] => q = r
    BY DEF Coherent, Owned, Path
<1>3. ~HeldMut(f)
    BY <1>2 DEF HeldMut, Mutating, Hashing, Persisting
<1> QED BY <1>1, <1>3 DEF Coherent, FramesUpToDate

\* root_hash or persist leaves a frame: its handle gets the hash of its node, or
\* keeps it.
LEMMA LeaveHashed ==
  ASSUME Coherent, NEW r \in Tree, Hashing(r) \/ Persisting(r), UNCHANGED op,
         NEW f \in CurFrame(r), Leave(r, f), NEW h \in Handle,
         \/ heap' = Replace(heap, f, h)
         \/ heap' = Release(Replace(heap, f, h), cur[r]),
         HasNode(h) => /\ h.id = cur[r] /\ h.ann = At(heap, f).ann
                       /\ Describes(h.hash, heap[cur[r]]),
         AnnOf(At(heap, f)) = AnnOf(h),
         IsHashed(At(heap, f)) =>
           IsHashed(h) /\ EncodeHandle(At(heap, f)) = EncodeHandle(h)
  PROVE  FramesUpToDate' /\ RootsDescribed(heap')
<1>o. PICK old : old = At(heap, f)
    OBVIOUS
<1>1. /\ heap \in [Holder -> Content] /\ f \in Frame /\ f \in open[r]
      /\ cur[r] \in Id /\ cur[r] \in Holder /\ f[1] # cur[r]
      /\ f[2] \in Slot /\ old = heap[f[1]][f[2]] /\ HasNode(old) /\ old.id = cur[r]
      /\ f[1] \in Holder
    BY <1>o, CurFrameTyped, NotOpenBelow DEF Coherent, Owned, TypeOK, At, Frame
<1>2. /\ At(heap', f) = h
      /\ \A g \in Frame : g # f => At(heap', g) \in {At(heap, g), None}
      /\ \A n \in Holder :
           \/ n = f[1] \/ heap'[n] = heap[n]
           \/ n = cur[r] /\ \A g \in Frame : ~RefersTo(heap', g, n)
      /\ \A s \in Slot : heap'[f[1]][s] = IF s = f[2] THEN h ELSE heap[f[1]][s]
    BY LeftHeap DEF Coherent
<1>3. UpToDate(heap, f)
    BY <1>1, HashedFrame
\* The node the handle is in says as much as before.
<1>4. PICK c : c = heap[f[1]]
    OBVIOUS
<1>5. PICK e : e = heap'[f[1]]
    OBVIOUS
<1>6. NodeAnn(c) = NodeAnn(e) /\ \A d : Describes(d, c) => Describes(d, e)
  <2>1. PICK s : s = f[2]
      OBVIOUS
  <2>2. s \in Slot /\ c[s] = old /\ e[s] = h /\ \A x \in Slot : x # s => c[x] = e[x]
      BY <1>1, <1>2, <1>4, <1>5, <2>1
  <2>3. /\ AnnOf(old) = AnnOf(h)
        /\ IsHashed(old) => IsHashed(h) /\ EncodeHandle(old) = EncodeHandle(h)
      BY <1>o
  <2> QED BY <2>2, <2>3, SaysAsMuch
<1>7. ASSUME NEW g \in Frame
      PROVE  HeldMut(g)' \/ UpToDate(heap', g)
  <2>1. CASE g = f
    <3>1. HasNode(h) => heap'[h.id] = heap[cur[r]]
        BY <1>1, <1>2 DEF RefersTo
    <3>2. NodeAnn(heap[cur[r]]) \in {NoAnn, old.ann}
        BY <1>o, <1>1, <1>3 DEF UpToDate
    <3> QED BY <1>o, <1>2, <2>1, <3>1, <3>2 DEF UpToDate
  <2>2. CASE g # f /\ At(heap', g) = None
      BY <2>2 DEF UpToDate, None, HasNode
  <2>3. CASE g # f /\ At(heap', g) = At(heap, g) /\ HasNode(At(heap, g))
    <3>1. PICK n : n = At(heap, g).id
        OBVIOUS
    <3>2. n \in Holder /\ RefersTo(heap', g, n)
        BY <1>1, <2>3, <3>1, NodeFrame DEF RefersTo
    <3>3. UpToDate(heap, g) => UpToDate(heap', g)
      <4>1. CASE n = f[1]
          BY <1>4, <1>5, <1>6, <2>3, <3>1, <4>1 DEF UpToDate
      <4>2. CASE n # f[1]
        <5>1. heap'[n] = heap[n]
            BY <1>2, <3>2, <4>2
        <5> QED BY <2>3, <3>1, <5>1 DEF UpToDate
      <4> QED BY <4>1, <4>2
    <3>4. HeldMut(g) => HeldMut(g)'
        BY <2>3, OthersStayHeld DEF Coherent, Owned
    <3> QED BY <3>3, <3>4 DEF Coherent, FramesUpToDate
  <2>4. CASE g # f /\ At(heap', g) = At(heap, g) /\ ~HasNode(At(heap, g))
      BY <2>4 DEF UpToDate
  <2> QED BY <1>2, <2>1, <2>2, <2>3, <2>4
<1>8. ASSUME NEW q \in Tree, digest[q] # NoHash
      PROVE  Describes(digest[q], heap'[q])
  <2>1. Describes(digest[q], heap[q]) /\ q \in Holder /\ q # cur[r]
      BY <1>1, <1>8, ConstantsOK DEF Coherent, RootHashCoherent, Holder
  <2> QED BY <1>2, <1>4, <1>5, <1>6, <2>1
<1> QED BY <1>7, <1>8 DEF FramesUpToDate, RootsDescribed

\* A tree that no call works on is dropped for another content: what the others
\* refer to stays what it was.
LEMMA CollectCoherent ==
  ASSUME Coherent, UNCHANGED <<op, open>>, NEW r \in Tree, NEW c \in Content,
         heap' = Collect([heap EXCEPT ![r] = c]),
         \A s \in Slot : HasNode(c[s]) =>
           \E k \in Frame : At(heap, k) = c[s] /\ UpToDate(heap, k)
  PROVE  /\ FramesUpToDate'
         /\ heap'[r] = c /\ \A q \in Tree \ {r} : heap'[q] = heap[q]
<1>p. PICK p : p = [heap EXCEPT ![r] = c]
    OBVIOUS
<1>1. heap \in [Holder -> Content] /\ r \in Holder /\ p \in [Holder -> Content]
    BY <1>p DEF Coherent, Owned, TypeOK, Holder
<1>2. \A n \in Holder : p[n] = IF n = r THEN c ELSE heap[n]
    BY <1>p, <1>1
<1>3. heap' = Collect(p)
    BY <1>p
<1>4. \A n \in Tree \cup Live(p) : n \in Holder /\ heap'[n] = p[n]
  <2>1. Tree \cup Live(p) \subseteq Holder
      BY DEF Live, Holder
  <2> QED BY <1>1, <1>3, <2>1, NodeOps
<1>5. \A g \in Frame :
        At(heap', g) = IF g[1] \in Tree \cup Live(p) THEN At(p, g) ELSE None
    BY <1>1, <1>3, AtOps
<1>6. ASSUME NEW g \in Frame
      PROVE  HeldMut(g)' \/ UpToDate(heap', g)
  <2>1. CASE ~HasNode(At(heap', g))
      BY <2>1 DEF UpToDate
  <2>2. CASE HasNode(At(heap', g))
    <3>1. At(heap', g) = At(p, g) /\ g[1] \in Tree \cup Live(p)
      <4>1. ~HasNode(None)
          BY DEF None, HasNode
      <4> QED BY <1>5, <2>2, <4>1
    <3>2. PICK n : n = At(p, g).id
        OBVIOUS
    <3>3. n \in Id /\ n # r
        BY <1>1, <2>2, <3>1, <3>2, NodeFrame
    <3>4. n \in Live(p)
        BY <2>2, <3>1, <3>2, <3>3 DEF Live, Closed
    <3>5. heap'[n] = heap[n]
        BY <1>2, <1>4, <3>3, <3>4
    <3>6. CASE g[1] = r
      <4>1. g[2] \in Slot /\ At(p, g) = c[g[2]]
          BY <1>1, <1>2, <3>6 DEF At, Frame
      <4>2. PICK k \in Frame : At(heap, k) = c[g[2]] /\ UpToDate(heap, k)
          BY <2>2, <3>1, <4>1
      <4>3. At(heap', g) = At(heap, k)
          BY <3>1, <4>1, <4>2
      <4> QED BY <3>1, <3>2, <3>5, <4>2, <4>3 DEF UpToDate
    <3>7. CASE g[1] # r
      <4>1. At(heap', g) = At(heap, g)
          BY <1>2, <3>1, <3>7 DEF At, Frame
      <4>2. UpToDate(heap, g) => UpToDate(heap', g)
          BY <3>1, <3>2, <3>5, <4>1 DEF UpToDate
      <4> QED BY <4>2 DEF Coherent, FramesUpToDate, HeldMut, Mutating
    <3> QED BY <3>6, <3>7
  <2> QED BY <2>1, <2>2
<1> QED BY <1>1, <1>2, <1>4, <1>6 DEF FramesUpToDate, Holder

-----------------------------------------------------------------------------
(***************************************************************************)
(* Every step keeps Coherent.                                              *)
(***************************************************************************)

\* A call goes on as it was or goes deeper: what is held stays held.
LEMMA MoreIsHeld ==
  ASSUME \A q \in Tree : open[q] \subseteq open'[q],
         \A q \in Tree : Mutating(q) \/ op[q] = "abort" =>
                         op'[q] = "mutate" \/ op'[q] = "abort"
  PROVE  StillHeld
BY DEF StillHeld, HeldMut, Mutating

\* A step of a call that reports no root hash and puts nothing.
LEMMA QuietStep ==
  ASSUME Coherent, Owned', FramesUpToDate', RootsDescribed(heap'),
         UNCHANGED <<store, digest>>,
         \A q \in Tree : op'[q] = "mutate" \/ op'[q] = "abort" =>
                         Mutating(q) \/ op[q] = "abort"
  PROVE  Coherent'
<1>1. EditingForgets'
    BY DEF Coherent, EditingForgets, Mutating
<1>2. RootHashCoherent'
    BY DEF RootsDescribed, RootHashCoherent
<1>3. StoreSound'
    BY DEF Coherent, StoreSound
<1> QED BY <1>1, <1>2, <1>3 DEF Coherent

\* Steps that enter a handle whose node is in memory.
LEMMA EnterCoherent ==
  ASSUME Coherent, Owned', NEW r \in Tree, NEW s \in Slot,
         HasNode(heap[cur[r]][s]), heap' \in MakeMut(heap, <<cur[r], s>>),
         Enter(r, <<cur[r], s>>), UNCHANGED <<store, op, digest>>
  PROVE  Coherent'
<1>1. \A q \in Tree : open[q] \subseteq open'[q]
    BY DEF Enter, Coherent, Owned, TypeOK
<1>2. StillHeld
    BY <1>1, MoreIsHeld DEF Mutating
<1>3. FramesUpToDate' /\ RootsDescribed(heap')
    BY <1>2, MakeMutCoherent DEF Owned
<1> QED BY <1>3, QuietStep DEF Mutating

\* A handle without a node is written into the current node of a mutating call,
\* which stays there or gives up.
LEMMA WriteStep ==
  ASSUME Coherent, Owned', NEW r \in Tree, Mutating(r), Stay,
         NEW s \in Slot, NEW h \in Handle, ~HasNode(h),
         heap' = Replace(heap, <<cur[r], s>>, h), UNCHANGED <<store, digest>>,
         UNCHANGED op \/ op' = [op EXCEPT ![r] = "abort"]
  PROVE  Coherent'
<1>1. \A q \in Tree : op'[q] = op[q] \/ (q = r /\ op'[q] = "abort")
    BY DEF Coherent, Owned, TypeOK
<1>2. StillHeld
    BY <1>1, MoreIsHeld DEF Stay, Mutating
<1>3. FramesUpToDate' /\ RootsDescribed(heap')
    BY <1>2, WriteCoherent
<1> QED BY <1>1, <1>3, QuietStep DEF Mutating

\* Steps of mutating calls.
LEMMA MutateCoherent ==
  ASSUME Coherent, Owned', NEW r \in Tree, Mutate(r)
  PROVE  Coherent'
<1>1. CASE BeginMutate(r)
  <2>1. /\ UNCHANGED <<heap, store>> /\ Stay
        /\ op'[r] = "mutate" /\ digest'[r] = NoHash
        /\ \A q \in Tree \ {r} : op'[q] = op[q] /\ digest'[q] = digest[q]
      BY <1>1 DEF BeginMutate, Stay, Coherent, Owned, TypeOK
  <2>2. StillHeld
      BY <2>1, MoreIsHeld DEF Stay, Mutating
  <2>3. FramesUpToDate' /\ RootsDescribed(heap')
      BY <2>1, <2>2, SameHeapCoherent
  <2>4. RootHashCoherent'
      BY <2>1, <2>3 DEF RootsDescribed, RootHashCoherent
  <2>5. EditingForgets'
      BY <2>1 DEF Coherent, EditingForgets, Mutating
  <2>6. StoreSound'
      BY <2>1 DEF Coherent, StoreSound
  <2> QED BY <2>3, <2>4, <2>5, <2>6 DEF Coherent
<1>2. ASSUME NEW s \in Slot, InnerMutNode(r, s)
      PROVE  Coherent'
    BY <1>2, EnterCoherent DEF InnerMutNode
<1>3. ASSUME NEW s \in Slot, InnerMutRestore(r, s)
      PROVE  Coherent'
  <2> DEFINE h == heap[cur[r]][s]
             c == Decode(h.store, store[h.store][h.hash])
             n(i) == NodeHandle(i, h.ann, NoHash)
  <2>1. /\ h \in Handle /\ InStore(h) /\ Contains(h.store, h.hash) /\ Mutating(r)
        /\ Enter(r, <<cur[r], s>>) /\ UNCHANGED <<store, op, digest>>
      BY <1>3, CurFrameTyped DEF InnerMutRestore, Coherent, Owned
  <2>2. h.store \in Store /\ h.hash \in Digest /\ h.ann \in Ann
      BY <2>1, HandleKinds DEF HasNode, InStore, None
  <2>3. store[h.store][h.hash] \in Blob
      BY <2>1, <2>2 DEF Coherent, Owned, TypeOK, Contains, IsContentMap
  <2>4. c \in Content /\ \A x \in Slot : ~HasNode(c[x])
      BY <2>2, <2>3, DecodeTyped, DecodeNoNode
  <2>5. PICK i \in Fresh(heap) : heap' = Alloc(heap, <<cur[r], s>>, i, n(i), c)
      BY <1>3 DEF InnerMutRestore
  <2>6. /\ n(i) \in Handle /\ HasNode(n(i)) /\ n(i).id = i /\ n(i).hash = NoHash
      BY <2>2, <2>5, Constructors DEF Fresh, NodeHandle, HasNode
  <2>7. PICK w : w = <<cur[r], s>>
      OBVIOUS
  <2>8. \A q \in Tree : open[q] \subseteq open'[q]
      BY <2>1 DEF Enter, Coherent, Owned, TypeOK
  <2>9. StillHeld
      BY <2>1, <2>8, MoreIsHeld DEF Mutating
  <2>10. HeldMut(w)'
    <3>1. w \in open'[r] /\ op'[r] = "mutate"
        BY <2>1, <2>7 DEF Enter, Coherent, Owned, TypeOK, Mutating
    <3> QED BY <3>1 DEF HeldMut, Mutating
  <2>11. FramesUpToDate' /\ RootsDescribed(heap')
    <3>1. PICK m : m = n(i)
        OBVIOUS
    <3>2. PICK d : d = c
        OBVIOUS
    <3>3. heap' = Alloc(heap, w, i, m, d)
        BY <2>5, <2>7, <3>1, <3>2
    <3>4. /\ m \in Handle /\ HasNode(m) /\ m.id = i /\ m.hash = NoHash
          /\ d \in Content /\ \A x \in Slot : ~HasNode(d[x])
        BY <2>4, <2>6, <3>1, <3>2
    <3> HIDE DEF c, n
    <3> QED BY <2>1, <2>7, <2>9, <2>10, <3>3, <3>4, AllocCoherent
  <2> QED BY <2>1, <2>11, QuietStep DEF Mutating
<1>4. ASSUME NEW s \in Slot, InnerMutFails(r, s)
      PROVE  Coherent'
    BY <1>4, WriteStep, Constructors DEF InnerMutFails, None, HasNode
<1>5. ASSUME NEW s \in Slot, NEW l \in Leaf, PutLeaf(r, s, l)
      PROVE  Coherent'
    BY <1>5, WriteStep, Constructors DEF PutLeaf, Edit, LeafHandle, HasNode
<1>6. ASSUME NEW s \in Slot, RemoveLeaf(r, s)
      PROVE  Coherent'
    BY <1>6, WriteStep, Constructors DEF RemoveLeaf, Edit, None, HasNode
<1>7. ASSUME NEW s \in Slot, NEW t \in Slot, NEW u \in Slot, NEW l \in Leaf,
             Split(r, s, t, u, l)
      PROVE  Coherent'
  <2>1. PICK i \in Fresh(heap), h \in Handle, c \in Content :
          /\ HasNode(h) /\ h.id = i /\ h.hash = NoHash /\ h.ann = NodeAnn(c)
          /\ \A x \in Slot : ~HasNode(c[x])
          /\ heap' = Alloc(heap, <<cur[r], s>>, i, h, c)
      BY <1>7, SplitHeap DEF Coherent, Owned
  <2>2. PICK w : w = <<cur[r], s>>
      OBVIOUS
  <2>3. Stay /\ Mutating(r) /\ UNCHANGED <<store, op, digest>>
      BY <1>7 DEF Split, Edit
  <2>4. StillHeld
      BY <2>3, MoreIsHeld DEF Stay, Mutating
  <2>5. FramesUpToDate' /\ RootsDescribed(heap')
      BY <2>1, <2>2, <2>3, <2>4, AllocCoherent
  <2> QED BY <2>3, <2>5, QuietStep DEF Mutating
<1>8. ASSUME NEW s \in Slot, Collapse(r, s)
      PROVE  Coherent'
  <2>1. PICK f \in CurFrame(r) :
          /\ heap' = Release(Replace(heap, f, heap[cur[r]][s]), cur[r])
          /\ Leave(r, f)
      BY <1>8 DEF Collapse
  <2>2. /\ heap[cur[r]][s] \in Handle /\ ~HasNode(heap[cur[r]][s])
        /\ UNCHANGED <<store, op, digest>> /\ Mutating(r)
      BY <1>8, CurFrameTyped DEF Collapse, HasNode, Coherent, Owned
  <2>3. FramesUpToDate' /\ RootsDescribed(heap')
      BY <2>1, <2>2, LeaveEdited
  <2> QED BY <2>2, <2>3, QuietStep DEF Mutating
<1>9. CASE DropHandleMut(r)
  <2> DEFINE a == NodeAnn(heap[cur[r]])
             n(f) == NodeHandle(At(heap, f).id,
                                IF a = NoAnn THEN At(heap, f).ann ELSE a, NoHash)
  <2>1. PICK f \in CurFrame(r) : heap' = Replace(heap, f, n(f)) /\ Leave(r, f)
      BY <1>9 DEF DropHandleMut
  <2>2. n(f).id = cur[r] /\ n(f).hash = NoHash /\ a \in {NoAnn, n(f).ann}
      BY CurFrameTyped DEF NodeHandle, Coherent, Owned
  <2>3. n(f) \in Handle
      BY <2>1, HandleWritten DEF Coherent, Owned
  <2>4. UNCHANGED <<store, op, digest>> /\ (Mutating(r) \/ op[r] = "abort")
      BY <1>9 DEF DropHandleMut
  <2>5. FramesUpToDate' /\ RootsDescribed(heap')
    <3> HIDE DEF n
    <3> QED BY <2>1, <2>2, <2>3, <2>4, LeaveEdited
  <2> QED BY <2>4, <2>5, QuietStep DEF Mutating
<1>10. CASE EndMutate(r)
  <2>1. /\ UNCHANGED <<heap, store, digest>> /\ Stay /\ AtRoot(r) /\ op'[r] = "idle"
        /\ \A q \in Tree \ {r} : op'[q] = op[q]
      BY <1>10 DEF EndMutate, Stay, Coherent, Owned, TypeOK
  <2>2. StillHeld
      BY <2>1 DEF StillHeld, HeldMut, AtRoot, Stay, Mutating
  <2>3. FramesUpToDate' /\ RootsDescribed(heap')
      BY <2>1, <2>2, SameHeapCoherent
  <2> QED BY <2>1, <2>3, QuietStep DEF Mutating
<1> QED BY <1>1, <1>2, <1>3, <1>4, <1>5, <1>6, <1>7, <1>8, <1>9, <1>10 DEF Mutate

\* The hash of the bytes is a digest.
LEMMA HashOfNode ==
  ASSUME Typed, NEW c \in Content, \A s \in Slot : IsHashed(c[s])
  PROVE  /\ Encode(c) \in Blob
         /\ Hash(Encode(c)) \in Digest /\ Hash(Encode(c)) # NoHash
         /\ Describes(Hash(Encode(c)), c)
<1>1. Encode(c) \in Blob
    BY EncodeTyped
<1>2. Hash(Encode(c)) \in Digest
    BY <1>1 DEF Typed
<1> QED BY <1>1, <1>2, ConstantsOK DEF Describes

\* A call at its root that ends there and reports the hash of the root node.
LEMMA ReportStep ==
  ASSUME Coherent, Owned', StoreSound', NEW r \in Tree, UNCHANGED <<heap, cur, open>>,
         Hashing(r) \/ Persisting(r), op' = [op EXCEPT ![r] = "idle"],
         NEW d, Describes(d, heap[r]), digest' = [digest EXCEPT ![r] = d]
  PROVE  Coherent'
<1>1. /\ op'[r] = "idle" /\ digest'[r] = d
      /\ \A q \in Tree \ {r} : op'[q] = op[q] /\ digest'[q] = digest[q]
    BY DEF Coherent, Owned, TypeOK
<1>2. StillHeld
    BY <1>1 DEF StillHeld, HeldMut, Mutating, Hashing, Persisting
<1>3. FramesUpToDate' /\ RootsDescribed(heap')
    BY <1>2, SameHeapCoherent
<1>4. RootHashCoherent'
    BY <1>1, <1>3 DEF RootsDescribed, RootHashCoherent
<1>5. EditingForgets'
    BY <1>1 DEF Coherent, EditingForgets, Mutating
<1> QED BY <1>3, <1>4, <1>5 DEF Coherent

\* Steps of root_hash.
LEMMA HashCoherent ==
  ASSUME Typed, Coherent, Owned', NEW r \in Tree, HashStep(r)
  PROVE  Coherent'
<1>1. ASSUME NEW s \in Slot, HashDown(r, s)
      PROVE  Coherent'
  <2>1. HasNode(heap[cur[r]][s])
      BY <1>1 DEF HashDown, IsHashed
  <2> QED BY <1>1, <2>1, EnterCoherent DEF HashDown
<1>2. CASE HashUp(r)
  <2> DEFINE b    == Encode(heap[cur[r]])
             n(f) == NodeHandle(At(heap, f).id, At(heap, f).ann, Hash(b))
  <2>1. PICK f \in CurFrame(r) : heap' = Replace(heap, f, n(f)) /\ Leave(r, f)
      BY <1>2 DEF HashUp
  <2>2. /\ Hashing(r) /\ UNCHANGED <<store, op, digest>>
        /\ heap[cur[r]] \in Content /\ \A s \in Slot : IsHashed(heap[cur[r]][s])
      BY <1>2, CurFrameTyped DEF HashUp, Coherent, Owned
  <2>3. Hash(b) \in Digest /\ Hash(b) # NoHash /\ Describes(Hash(b), heap[cur[r]])
      BY <2>2, HashOfNode
  <2>4. PICK old : old = At(heap, f)
      OBVIOUS
  <2>5. /\ f \in open[r] /\ HasNode(old) /\ old.id = cur[r] /\ old \in Handle
      BY <2>4, CurFrameTyped DEF Coherent, Owned
  <2>6. PICK m : m = n(f)
      OBVIOUS
  <2>7. /\ HasNode(m) /\ m.id = cur[r] /\ m.ann = old.ann /\ m.hash = Hash(b)
        /\ AnnOf(old) = AnnOf(m)
      BY <2>4, <2>5, <2>6 DEF NodeHandle, HasNode, AnnOf
  <2>8. m \in Handle
      BY <2>1, <2>6, HandleWritten DEF Coherent, Owned
  <2>9. IsHashed(old) => IsHashed(m) /\ EncodeHandle(old) = EncodeHandle(m)
    <3>1. UpToDate(heap, f)
        BY <2>2, <2>5, HashedFrame
    <3>2. old.hash # NoHash => old.hash = Hash(b)
        BY <2>4, <2>5, <3>1 DEF UpToDate, Describes
    <3> QED BY <2>3, <2>5, <2>7, <3>2 DEF IsHashed, EncodeHandle
  <2>10. heap' = Replace(heap, f, m)
      BY <2>1, <2>6
  <2>11. FramesUpToDate' /\ RootsDescribed(heap')
    <3> HIDE DEF n, b
    <3> QED BY <2>1, <2>2, <2>3, <2>4, <2>7, <2>8, <2>9, <2>10, LeaveHashed
  <2> QED BY <2>2, <2>11, QuietStep DEF Mutating
<1>3. CASE HashDone(r)
  <2>1. Describes(Hash(Encode(heap[r])), heap[r])
      BY <1>3 DEF HashDone, Describes
  <2>2. StoreSound'
      BY <1>3 DEF HashDone, Coherent, StoreSound
  <2>3. UNCHANGED <<heap, cur, open>> /\ Hashing(r)
      BY <1>3 DEF HashDone
  <2> QED BY <1>3, <2>1, <2>2, <2>3, ReportStep DEF HashDone
<1> QED BY <1>1, <1>2, <1>3 DEF HashStep

\* Bytes are put under their hash.
LEMMA PutSound ==
  ASSUME TypeOK, StoreSound, NEW st \in Store, NEW b, Put(st, Hash(b), b)
  PROVE  StoreSound'
<1> DEFINE d == Hash(b)
<1>1. PICK kept \in {b} \cup {store[st][x] : x \in DOMAIN store[st] \cap {d}} :
        store' = [s \in Store |->
                   IF s = st
                   THEN [x \in DOMAIN store[s] \cup {d} |->
                          IF x = d THEN kept ELSE store[s][x]]
                   ELSE store[s]]
    BY DEF Put
<1>2. Hash(kept) = d
    BY DEF StoreSound
<1> HIDE DEF d
<1>3. ASSUME NEW s \in Store, NEW x \in DOMAIN store'[s]
      PROVE  Hash(store'[s][x]) = x
  <2>1. CASE s = st /\ x = d
      BY <1>1, <1>2, <2>1
  <2>2. CASE ~(s = st /\ x = d)
    <3>1. x \in DOMAIN store[s] /\ store'[s][x] = store[s][x]
        BY <1>1, <1>3, <2>2
    <3> QED BY <3>1 DEF StoreSound
  <2> QED BY <2>1, <2>2
<1> QED BY <1>3 DEF StoreSound

\* PersistUp, written out: the node goes into the store under its hash, and the
\* handle becomes a reference to it that says as much as the handle did.
LEMMA PersistedFrame ==
  ASSUME Typed, Coherent, TypeOK', NEW r \in Tree, PersistUp(r)
  PROVE  \E f \in CurFrame(r), h \in Handle :
           LET b == Encode(heap[cur[r]])
           IN /\ h = Persisted(dest[r], Hash(b), At(heap, f).ann)
              /\ heap' = Release(Replace(heap, f, h), cur[r]) /\ Leave(r, f)
              /\ Put(dest[r], Hash(b), b) /\ b \in Blob /\ Hash(b) \in Digest
              /\ IsHashed(At(heap, f)) => At(heap, f).hash = Hash(b)
<1> DEFINE b == Encode(heap[cur[r]])
           d(f) == IF At(heap, f).hash # NoHash THEN At(heap, f).hash ELSE Hash(b)
<1>1. PICK f \in CurFrame(r) :
        /\ Put(dest[r], d(f), b)
        /\ heap' = Release(Replace(heap, f, Persisted(dest[r], d(f), At(heap, f).ann)),
                           cur[r])
        /\ Leave(r, f)
    BY DEF PersistUp
<1>2. /\ Persisting(r) /\ f \in open[r] /\ HasNode(At(heap, f))
      /\ At(heap, f).id = cur[r] /\ At(heap, f) \in Handle
      /\ At(heap, f).ann \in Ann /\ dest[r] \in Store
      /\ heap[cur[r]] \in Content /\ \A s \in Slot : IsHashed(heap[cur[r]][s])
    <2>1. /\ f \in open[r] /\ HasNode(At(heap, f)) /\ At(heap, f).id = cur[r]
          /\ At(heap, f) \in Handle /\ heap[cur[r]] \in Content /\ dest[r] \in Store
        BY CurFrameTyped DEF Coherent, Owned, TypeOK
    <2>2. At(heap, f).ann \in Ann
        BY <2>1, HandleKinds DEF HasNode, InStore, None
    <2>3. Persisting(r) /\ \A s \in Slot : IsHashed(heap[cur[r]][s])
        BY DEF PersistUp, Written, IsHashed
    <2> QED BY <2>1, <2>2, <2>3
<1>3. b \in Blob /\ Hash(b) \in Digest
    BY <1>2, HashOfNode
<1>4. UpToDate(heap, f)
    BY <1>2, HashedFrame
<1>5. d(f) = Hash(b) /\ (IsHashed(At(heap, f)) => At(heap, f).hash = Hash(b))
    BY <1>2, <1>4 DEF UpToDate, Describes, IsHashed
<1>6. PICK h : h = Persisted(dest[r], Hash(b), At(heap, f).ann)
    OBVIOUS
<1>7. h \in Handle
    BY <1>2, <1>3, <1>6, Constructors
<1> HIDE DEF b, d
<1> QED BY <1>1, <1>3, <1>5, <1>6, <1>7 DEF b

\* Steps of persist.
LEMMA PersistCoherent ==
  ASSUME Typed, Coherent, Owned', NEW r \in Tree, PersistStep(r)
  PROVE  Coherent'
<1>1. ASSUME NEW s \in Slot, PersistDown(r, s)
      PROVE  Coherent'
    BY <1>1, EnterCoherent DEF PersistDown
<1>2. CASE PersistUp(r)
  <2>1. PICK f \in CurFrame(r), h \in Handle :
           LET b == Encode(heap[cur[r]])
           IN /\ h = Persisted(dest[r], Hash(b), At(heap, f).ann)
              /\ heap' = Release(Replace(heap, f, h), cur[r]) /\ Leave(r, f)
              /\ Put(dest[r], Hash(b), b) /\ b \in Blob /\ Hash(b) \in Digest
              /\ IsHashed(At(heap, f)) => At(heap, f).hash = Hash(b)
      BY <1>2, PersistedFrame DEF Owned
  <2>2. PICK old : old = At(heap, f)
      OBVIOUS
  <2>3. /\ Persisting(r) /\ UNCHANGED <<op, digest>> /\ dest[r] \in Store
        /\ f \in open[r] /\ HasNode(old)
      BY <1>2, <2>2, CurFrameTyped DEF PersistUp, Written, Coherent, Owned, TypeOK
  <2>4. ~HasNode(h) /\ AnnOf(old) = AnnOf(h)
      BY <2>1, <2>2, <2>3 DEF Persisted, HasNode, AnnOf
  <2>5. IsHashed(old) => IsHashed(h) /\ EncodeHandle(old) = EncodeHandle(h)
      BY <2>1, <2>2, <2>3 DEF Persisted, HasNode, InStore, IsHashed, EncodeHandle
  <2>6. FramesUpToDate' /\ RootsDescribed(heap')
    <3>1. /\ heap' = Release(Replace(heap, f, h), cur[r]) /\ Leave(r, f)
        BY <2>1
    <3> QED BY <2>2, <2>3, <2>4, <2>5, <3>1, LeaveHashed
  <2>7. StoreSound'
      BY <2>1, <2>3, PutSound DEF Coherent, Owned
  <2>8. EditingForgets'
      BY <2>3 DEF Coherent, EditingForgets, Mutating
  <2>9. RootHashCoherent'
      BY <2>3, <2>6 DEF RootsDescribed, RootHashCoherent
  <2> QED BY <2>6, <2>7, <2>8, <2>9 DEF Coherent
<1>3. CASE PersistDone(r)
  <2>1. Describes(Hash(Encode(heap[r])), heap[r])
      BY <1>3 DEF PersistDone, Written, AtRoot, Describes, IsHashed
  <2>2. StoreSound'
      BY <1>3, PutSound DEF PersistDone, Coherent, Owned, TypeOK
  <2>3. UNCHANGED <<heap, cur, open>> /\ Persisting(r)
      BY <1>3 DEF PersistDone, Written
  <2> QED BY <1>3, <2>1, <2>2, <2>3, ReportStep DEF PersistDone
<1>4. CASE PutFails(r)
  <2>1. /\ UNCHANGED <<heap, store, digest>> /\ Persisting(r) /\ op'[r] = "idle"
        /\ \A q \in Tree \ {r} : op'[q] = op[q] /\ open'[q] = open[q]
      BY <1>4 DEF PutFails, Written, Coherent, Owned, TypeOK
  <2>2. StillHeld
      BY <2>1 DEF StillHeld, HeldMut, Mutating, Persisting
  <2>3. FramesUpToDate' /\ RootsDescribed(heap')
      BY <2>1, <2>2, SameHeapCoherent
  <2> QED BY <2>1, <2>3, QuietStep DEF Mutating
<1> QED BY <1>1, <1>2, <1>3, <1>4 DEF PersistStep

\* What a tree is restored from is what it encodes to.
LEMMA DecodeDescribed ==
  ASSUME NEW b \in Blob, NEW st
  PROVE  Describes(Hash(b), Decode(st, b))
<1>1. \A s \in Slot : IsHashed(Decode(st, b)[s])
    BY DecodeNoNode DEF IsHashed
<1>2. ASSUME NEW s \in Slot
      PROVE  EncodeHandle(DecodeEntry(st, b[s])) = b[s]
  <2>1. b[s] \in Entry
      BY DEF Blob
  <2>2. CASE b[s].tag = "Hashed"
    <3>1. b[s] \in [tag : {"Hashed"}, hash : Digest, ann : Ann]
        BY <2>1, <2>2 DEF Entry, None
    <3>2. b[s] = Hashed(b[s].hash, b[s].ann)
        BY <3>1 DEF Hashed
    <3> QED BY <2>2, <3>2 DEF DecodeEntry, Persisted, EncodeHandle, InStore
  <2>3. CASE b[s].tag # "Hashed"
      BY <2>1, <2>3 DEF Entry, None, DecodeEntry, EncodeHandle, HasNode, InStore
  <2> QED BY <2>2, <2>3
<1>3. Encode(Decode(st, b)) = b
    BY <1>2 DEF Encode, Decode, Blob
<1> QED BY <1>1, <1>3 DEF Describes

\* A tree is dropped for content c, with d for its root hash.
LEMMA WholeStep ==
  ASSUME Coherent, Owned', UNCHANGED <<op, open, store>>, NEW r \in Tree, Idle(r),
         NEW c \in Content, heap' = Collect([heap EXCEPT ![r] = c]),
         \A s \in Slot : HasNode(c[s]) =>
           \E k \in Frame : At(heap, k) = c[s] /\ UpToDate(heap, k),
         NEW d, d # NoHash => Describes(d, c), digest' = [digest EXCEPT ![r] = d]
  PROVE  Coherent'
<1>1. /\ FramesUpToDate'
      /\ heap'[r] = c /\ \A q \in Tree \ {r} : heap'[q] = heap[q]
    BY CollectCoherent
<1>2. digest'[r] = d /\ \A q \in Tree \ {r} : digest'[q] = digest[q]
    BY DEF Coherent, Owned, TypeOK
<1>3. RootHashCoherent'
    BY <1>1, <1>2 DEF Coherent, RootHashCoherent
<1>4. EditingForgets'
    BY <1>2 DEF Coherent, EditingForgets, Mutating, Idle
<1>5. StoreSound'
    BY DEF Coherent, StoreSound
<1> QED BY <1>1, <1>3, <1>4, <1>5 DEF Coherent

\* Starting root_hash or persist, restoring, cloning.
LEMMA WholeCoherent ==
  ASSUME Coherent, Owned', NEW r \in Tree, Whole(r)
  PROVE  Coherent'
<1>1. CASE BeginHash(r) \/ \E st \in Store : BeginPersist(r, st)
  <2>1. /\ UNCHANGED <<heap, store, digest, open>> /\ Idle(r)
        /\ op'[r] \in {"hash", "persist"} /\ \A q \in Tree \ {r} : op'[q] = op[q]
      BY <1>1 DEF BeginHash, BeginPersist, Coherent, Owned, TypeOK
  <2>2. StillHeld
      BY <2>1 DEF StillHeld, HeldMut, Mutating, Idle
  <2>3. FramesUpToDate' /\ RootsDescribed(heap')
      BY <2>1, <2>2, SameHeapCoherent
  <2> QED BY <2>1, <2>3, QuietStep DEF Mutating
<1>2. ASSUME NEW snap \in snaps, Restore(r, snap[1], snap[2])
      PROVE  Coherent'
  <2> DEFINE b == store[snap[1]][snap[2]]
             c == Decode(snap[1], b)
  <2>1. b \in Blob /\ snap[1] \in Store /\ Hash(b) = snap[2]
      BY <1>2 DEF Restore, Contains, Coherent, Owned, TypeOK, IsContentMap, StoreSound
  <2>2. c \in Content /\ \A s \in Slot : ~HasNode(c[s])
      BY <2>1, DecodeTyped, DecodeNoNode
  <2>3. Describes(snap[2], c)
      BY <2>1, DecodeDescribed
  <2>4. /\ heap' = Collect([heap EXCEPT ![r] = c]) /\ Idle(r)
        /\ UNCHANGED <<op, open, store>> /\ digest' = [digest EXCEPT ![r] = snap[2]]
      BY <1>2 DEF Restore
  <2> HIDE DEF c, b
  <2> QED BY <2>2, <2>3, <2>4, WholeStep
<1>3. ASSUME NEW q \in Tree, Clone(r, q)
      PROVE  Coherent'
  <2>1. /\ heap' = Collect([heap EXCEPT ![q] = heap[r]])
        /\ Idle(q) /\ Idle(r) /\ heap[r] \in Content /\ r \in Holder
        /\ UNCHANGED <<op, open, store>> /\ digest' = [digest EXCEPT ![q] = digest[r]]
      BY <1>3 DEF Clone, Coherent, Owned, TypeOK, Holder
  <2>2. ASSUME NEW s \in Slot
        PROVE  \E k \in Frame : At(heap, k) = heap[r][s] /\ UpToDate(heap, k)
    <3>1. PICK k : k = <<r, s>>
        OBVIOUS
    <3>2. k \in Frame /\ k[1] = r /\ At(heap, k) = heap[r][s]
        BY <2>1, <3>1 DEF Frame, At
    <3>3. cur[r] = r
        BY <2>1 DEF Coherent, Owned, Path, AtRoot
    <3> QED BY <3>2, <3>3, BelowCurUpToDate
  <2>3. digest[r] # NoHash => Describes(digest[r], heap[r])
      BY DEF Coherent, RootHashCoherent
  <2> QED BY <2>1, <2>2, <2>3, WholeStep
<1> QED BY <1>1, <1>2, <1>3 DEF Whole

LEMMA NextCoherent ==
  ASSUME Typed, Coherent, [Next]_vars
  PROVE  Coherent'
<1>1. Owned'
    BY NextOwned DEF Coherent
<1>2. CASE Next
    BY <1>1, <1>2, MutateCoherent, HashCoherent, PersistCoherent, WholeCoherent DEF Next
<1>3. CASE UNCHANGED vars
  <2>1. UNCHANGED <<heap, store, op, open, digest>>
      BY <1>3 DEF vars
  <2>2. StillHeld
      BY <2>1, MoreIsHeld DEF Mutating
  <2>3. FramesUpToDate' /\ RootsDescribed(heap')
      BY <2>1, <2>2, SameHeapCoherent
  <2> QED BY <1>1, <2>1, <2>3, QuietStep DEF Mutating
<1> QED BY <1>2, <1>3

LEMMA InitCoherent ==
  ASSUME Typed, Init
  PROVE  Coherent
<1>1. Owned
    BY InitOwned
<1>2. \A f \in Frame : At(heap, f) = None
    BY DEF Init, EmptyNode, Frame, At
<1>3. FramesUpToDate
    BY <1>2 DEF FramesUpToDate, UpToDate, None, HasNode
<1>4. RootHashCoherent /\ EditingForgets /\ StoreSound
    BY DEF Init, RootHashCoherent, EditingForgets, StoreSound
<1> QED BY <1>1, <1>3, <1>4 DEF Coherent

\* The properties, from the invariant.
LEMMA WhatCoherentSays ==
  ASSUME Coherent
  PROVE  CacheCoherent /\ AnnFresh /\ RootHashCoherent /\ StoreSound
BY DEF Coherent, FramesUpToDate, UpToDate, CacheCoherent, AnnFresh

\* A call that ends reports what was reported before it: both are the hash of
\* the root node.
LEMMA SameReport ==
  ASSUME Coherent, Next, NEW r \in Tree, ~Idle(r), digest[r] # NoHash,
         digest'[r] # NoHash
  PROVE  digest'[r] = digest[r]
<1>1. Describes(digest[r], heap[r]) /\ digest \in [Tree -> Digest \cup {NoHash}]
    BY DEF Coherent, RootHashCoherent, Owned, TypeOK
<1>2. PICK q \in Tree : Mutate(q) \/ HashStep(q) \/ PersistStep(q) \/ Whole(q)
    BY DEF Next
<1>3. CASE BeginMutate(q)
    BY <1>1, <1>3 DEF BeginMutate
<1>4. CASE HashDone(q) \/ PersistDone(q)
  <2>1. digest' = [digest EXCEPT ![q] = Hash(Encode(heap[q]))]
      BY <1>4 DEF HashDone, PersistDone
  <2>2. digest[r] = Hash(Encode(heap[r]))
      BY <1>1 DEF Describes
  <2> QED BY <1>1, <2>1, <2>2
<1>5. ASSUME NEW snap \in snaps, Restore(q, snap[1], snap[2])
      PROVE  digest'[r] = digest[r]
    BY <1>1, <1>5 DEF Restore
<1>6. ASSUME NEW p \in Tree, Clone(q, p)
      PROVE  digest'[r] = digest[r]
    BY <1>1, <1>6 DEF Clone
<1>7. CASE UNCHANGED digest
    BY <1>7
<1>8. \/ BeginMutate(q) \/ HashDone(q) \/ PersistDone(q)
      \/ \E snap \in snaps : Restore(q, snap[1], snap[2])
      \/ \E p \in Tree : Clone(q, p)
      \/ UNCHANGED digest
  <2>1. CASE Mutate(q)
      BY <2>1 DEF Mutate, InnerMutNode, InnerMutRestore, InnerMutFails, PutLeaf,
         RemoveLeaf, Split, Collapse, DropHandleMut, EndMutate, Edit
  <2>2. CASE HashStep(q)
      BY <2>2 DEF HashStep, HashDown, HashUp
  <2>3. CASE PersistStep(q)
      BY <2>3 DEF PersistStep, PersistDown, PersistUp, PutFails
  <2>4. CASE Whole(q)
      BY <2>4 DEF Whole, BeginHash, BeginPersist
  <2> QED BY <1>2, <2>1, <2>2, <2>3, <2>4
<1> QED BY <1>3, <1>4, <1>5, <1>6, <1>7, <1>8

-----------------------------------------------------------------------------
(***************************************************************************)
(* The theorems.                                                           *)
(***************************************************************************)

\* The debug_asserts of Handle::persist hold in the build that leaves them out:
\* a hash cached in a handle is the hash of the node behind it, whichever trees
\* share that node and whatever was done to it, by any of them, before.
THEOREM CachesAreCoherent ==
  ASSUME Typed
  PROVE  Spec => []CacheCoherent
<1>1. Init => Coherent
    BY InitCoherent
<1>2. Coherent /\ [Next]_vars => Coherent'
    BY NextCoherent
<1>3. Coherent => CacheCoherent
    BY WhatCoherentSays
<1> QED BY <1>1, <1>2, <1>3, PTL DEF Spec

\* The annotation in a handle is the one of the node behind it.
THEOREM AnnotationsAreFresh ==
  ASSUME Typed
  PROVE  Spec => []AnnFresh
<1>1. Init => Coherent
    BY InitCoherent
<1>2. Coherent /\ [Next]_vars => Coherent'
    BY NextCoherent
<1>3. Coherent => AnnFresh
    BY WhatCoherentSays
<1> QED BY <1>1, <1>2, <1>3, PTL DEF Spec

\* The root hash a tree reported is its root hash until it is changed.
THEOREM RootHashIsCoherent ==
  ASSUME Typed
  PROVE  Spec => []RootHashCoherent
<1>1. Init => Coherent
    BY InitCoherent
<1>2. Coherent /\ [Next]_vars => Coherent'
    BY NextCoherent
<1>3. Coherent => RootHashCoherent
    BY WhatCoherentSays
<1> QED BY <1>1, <1>2, <1>3, PTL DEF Spec

\* What a store keeps under a digest has that digest, although persist puts
\* nodes under hashes it took from the caches.
THEOREM StoresAreSound ==
  ASSUME Typed
  PROVE  Spec => []StoreSound
<1>1. Init => Coherent
    BY InitCoherent
<1>2. Coherent /\ [Next]_vars => Coherent'
    BY NextCoherent
<1>3. Coherent => StoreSound
    BY WhatCoherentSays
<1> QED BY <1>1, <1>2, <1>3, PTL DEF Spec

\* root_hash and persist report the root hash that was reported before.
THEOREM RootHashIsStable ==
  ASSUME Typed
  PROVE  Spec => RootHashStable
<1>1. Init => Coherent
    BY InitCoherent
<1>2. Coherent /\ [Next]_vars => Coherent'
    BY NextCoherent
<1>3. Coherent /\ [Next]_vars =>
        [\A r \in Tree :
           ~Idle(r) /\ digest[r] # NoHash /\ digest'[r] # NoHash
             => digest'[r] = digest[r]]_vars
    BY SameReport
<1> QED BY <1>1, <1>2, <1>3, PTL DEF Spec, RootHashStable
=============================================================================
