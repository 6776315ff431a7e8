------------------------- MODULE HandleStoreBorrow -------------------------
(***************************************************************************)
(* The nodes a call holds open are its own: Rc::make_mut hands out a node  *)
(* nobody else refers to, and no later step of any call adds a reference   *)
(* to it. This is what the invariants on caches and annotations rest on.   *)
(***************************************************************************)
EXTENDS HandleStoreProofs

\* The frame owns a node that nothing else refers to.
Alone(hp, f) == HasNode(At(hp, f)) /\ ~Shared(hp, At(hp, f).id)

\* The inductive invariant.
Owned == TypeOK /\ Path /\ BorrowedAlone

\* The frame still owns the node it owned.
Kept(f) == Alone(heap', f) /\ At(heap', f).id = At(heap, f).id

-----------------------------------------------------------------------------
(***************************************************************************)
(* What Owned says of frames.                                              *)
(***************************************************************************)

\* A frame that owns a node alone is the only one to refer to it.
LEMMA OnlyReference ==
  ASSUME NEW hp, NEW f \in Frame, Alone(hp, f),
         NEW g \in Frame, RefersTo(hp, g, At(hp, f).id)
  PROVE  g = f
BY DEF Alone, Shared, RefersTo

\* Open frames own the address of their node alone.
LEMMA OpenFrames ==
  ASSUME Owned, NEW r \in Tree, NEW f \in open[r]
  PROVE  /\ f \in Frame /\ f = <<f[1], f[2]>> /\ f[1] \in Holder /\ f[2] \in Slot
         /\ Alone(heap, f) /\ At(heap, f).id \in Id
         /\ RefersTo(heap, f, At(heap, f).id)
<1>1. f \in Frame
    BY DEF Owned, TypeOK
<1>2. Alone(heap, f)
    BY DEF Owned, BorrowedAlone, Alone
<1>3. At(heap, f) \in Handle
    BY <1>1, HeapOps DEF Owned, TypeOK
<1>4. At(heap, f).id \in Id
    BY <1>2, <1>3, HandleKinds DEF Alone, HasNode, InStore, None
<1> QED BY <1>1, <1>2, <1>4 DEF Frame, RefersTo, Alone

\* No call has a handle of another call's current node open, or of its own.
LEMMA NotOpenBelow ==
  ASSUME Owned, NEW r \in Tree, NEW q \in Tree, NEW f \in open[q]
  PROVE  f[1] # cur[r]
<1> SUFFICES ASSUME f[1] = cur[r], q # r
             PROVE  FALSE
    BY DEF Owned, Path
<1>1. f[1] = q \/ \E g \in open[q] : RefersTo(heap, g, f[1])
    BY DEF Owned, Path
<1>2. cur[r] = r \/ \E g \in open[r] : RefersTo(heap, g, cur[r])
    BY DEF Owned, Path, CurFrame
<1>3. ASSUME NEW p \in Tree, NEW g \in open[p], NEW n, RefersTo(heap, g, n)
      PROVE  n \in Id /\ n \notin Tree /\ At(heap, g).id = n
    BY <1>3, OpenFrames, ConstantsOK DEF RefersTo
<1>4. PICK g \in open[q] : RefersTo(heap, g, f[1])
    BY <1>1, <1>2, <1>3
<1>5. PICK k \in open[r] : RefersTo(heap, k, cur[r])
    BY <1>2, <1>3, <1>4
<1>6. k = g
  <2>1. /\ Alone(heap, g) /\ g \in Frame /\ At(heap, g).id = cur[r]
        /\ k \in Frame
      BY <1>3, <1>4, OpenFrames
  <2> QED BY <1>5, <2>1, OnlyReference
<1> QED BY <1>4, <1>5, <1>6 DEF Owned, Path

-----------------------------------------------------------------------------
(***************************************************************************)
(* Steps that keep what is open, enter a frame or leave one, provided what *)
(* they do to the heap keeps the open frames' nodes to these frames.       *)
(***************************************************************************)

\* An operation stays where it is, or starts, or fails in place.
LEMMA StayOwned ==
  ASSUME Owned, TypeOK', Stay,
         \A q \in Tree : op'[q] = "idle" => op[q] = "idle" \/ AtRoot(q),
         \A q \in Tree : \A f \in open[q] : Kept(f)
  PROVE  Path' /\ BorrowedAlone'
<1>1. BorrowedAlone'
    BY DEF Stay, Kept, Alone, BorrowedAlone
<1>2. ASSUME NEW q \in Tree, NEW f \in open[q], NEW n
      PROVE  RefersTo(heap, f, n) => RefersTo(heap', f, n)
    BY DEF Kept, Alone, RefersTo
<1>3. ASSUME NEW q \in Tree
      PROVE  /\ op'[q] = "idle" => cur'[q] = q /\ open'[q] = {}
             /\ cur'[q] = q \/ CurFrame(q)' # {}
    BY <1>2 DEF Owned, Path, Stay, Idle, AtRoot, CurFrame
<1>4. ASSUME NEW q \in Tree, NEW f \in open'[q]
      PROVE  /\ f[1] = q \/ \E g \in open'[q] : RefersTo(heap', g, f[1])
             /\ f[1] # cur'[q]
             /\ \A g \in open'[q] : g[1] = f[1] => g = f
             /\ \A p \in Tree \ {q} : f \notin open'[p]
    BY <1>2 DEF Owned, Path, Stay
<1> QED BY <1>1, <1>3, <1>4 DEF Path, Idle, AtRoot

\* An operation enters a frame of its current node, whose node is its own by
\* then.
LEMMA EnterOwned ==
  ASSUME Owned, TypeOK', NEW r \in Tree, ~Idle(r), UNCHANGED op,
         NEW s \in Slot, Enter(r, <<cur[r], s>>), Alone(heap', <<cur[r], s>>),
         \A q \in Tree : \A f \in open[q] : Kept(f)
  PROVE  Path' /\ BorrowedAlone'
<1> DEFINE new == <<cur[r], s>>
           i   == At(heap', new).id
<1>1. /\ open' = [open EXCEPT ![r] = @ \cup {new}]
      /\ cur' = [cur EXCEPT ![r] = i]
    BY DEF Enter
<1>2. /\ open'[r] = open[r] \cup {new} /\ cur'[r] = i
      /\ \A q \in Tree \ {r} : open'[q] = open[q] /\ cur'[q] = cur[q]
    BY <1>1 DEF Owned, TypeOK
<1>3. new \in Frame /\ i \in Id
  <2>1. new \in Frame
      BY CurFrameTyped DEF Owned
  <2>2. At(heap', new) \in Handle
      BY <2>1, HeapOps DEF TypeOK
  <2> QED BY <2>1, <2>2, HandleKinds DEF Alone, HasNode, InStore, None
<1>4. \A q \in Tree : new \notin open[q]
    BY NotOpenBelow
<1>5. RefersTo(heap', new, i)
    BY DEF Alone, RefersTo
<1>6. ASSUME NEW q \in Tree, NEW f \in open[q], NEW n
      PROVE  RefersTo(heap, f, n) => RefersTo(heap', f, n)
    BY DEF Kept, Alone, RefersTo
<1>7. \A q \in Tree : \A f \in open[q] : ~RefersTo(heap, f, i)
  <2> SUFFICES ASSUME NEW q \in Tree, NEW f \in open[q], RefersTo(heap, f, i)
               PROVE  FALSE
      OBVIOUS
  <2>1. RefersTo(heap', f, i) /\ f \in Frame
      BY <1>6, OpenFrames
  <2>2. f = new
      BY <1>3, <2>1, OnlyReference
  <2> QED BY <2>2, <1>4
<1>8. BorrowedAlone'
    BY <1>2 DEF Kept, Alone, BorrowedAlone
<1>9. ASSUME NEW q \in Tree
      PROVE  /\ Idle(q)' => AtRoot(q)'
             /\ cur'[q] = q \/ CurFrame(q)' # {}
  <2>1. CASE q = r
      BY <1>2, <1>5, <2>1 DEF Idle, CurFrame
  <2>2. CASE q # r
      BY <1>2, <1>6, <2>2 DEF Owned, Path, Idle, AtRoot, CurFrame
  <2> QED BY <2>1, <2>2
<1>10. ASSUME NEW q \in Tree, NEW f \in open'[q]
       PROVE  f[1] = q \/ \E g \in open'[q] : RefersTo(heap', g, f[1])
  <2>1. CASE f \in open[q]
      BY <1>2, <1>6, <2>1 DEF Owned, Path
  <2>2. CASE q = r /\ f = new
      BY <1>2, <1>6, <2>2 DEF Owned, Path, CurFrame
  <2> QED BY <1>2, <2>1, <2>2
<1>11. ASSUME NEW q \in Tree, NEW f \in open'[q]
       PROVE  f[1] # cur'[q]
  <2>1. CASE q # r
      BY <1>2, <2>1 DEF Owned, Path
  <2>2. CASE q = r
    \* f[1] is r itself, or a node a frame that was open before refers to.
    <3>1. f[1] = r \/ \E g \in open[r] : RefersTo(heap, g, f[1])
        BY <1>2, <2>2 DEF Owned, Path, CurFrame
    <3> QED BY <1>2, <1>3, <1>7, <2>2, <3>1, ConstantsOK
  <2> QED BY <2>1, <2>2
<1>12. ASSUME NEW q \in Tree, NEW f \in open'[q]
       PROVE  /\ \A g \in open'[q] : g[1] = f[1] => g = f
              /\ \A p \in Tree \ {q} : f \notin open'[p]
  <2>1. \A g \in open'[q] : g[1] = f[1] => g = f
      BY <1>2, NotOpenBelow DEF Owned, Path
  <2>2. \A p \in Tree \ {q} : f \notin open'[p]
      BY <1>2, <1>4 DEF Owned, Path
  <2> QED BY <2>1, <2>2
<1> QED BY <1>8, <1>9, <1>10, <1>11, <1>12 DEF Path

\* An operation leaves the frame it reached its current node through.
LEMMA LeaveOwned ==
  ASSUME Owned, TypeOK', NEW r \in Tree, ~Idle(r), UNCHANGED op,
         NEW out \in CurFrame(r), Leave(r, out),
         \A q \in Tree : \A f \in open[q] \ {out} : Kept(f)
  PROVE  Path' /\ BorrowedAlone'
<1>1. /\ open'[r] = open[r] \ {out} /\ cur'[r] = out[1]
      /\ \A q \in Tree \ {r} : open'[q] = open[q] /\ cur'[q] = cur[q]
    BY DEF Owned, TypeOK, Leave
<1>2. out \in open[r] /\ RefersTo(heap, out, cur[r])
    BY DEF CurFrame
<1>3. \A q \in Tree \ {r} : out \notin open[q]
    BY <1>2 DEF Owned, Path
<1>4. ASSUME NEW q \in Tree, NEW f \in open[q], f # out, NEW n
      PROVE  RefersTo(heap, f, n) => RefersTo(heap', f, n)
    BY <1>4 DEF Kept, Alone, RefersTo
<1>5. BorrowedAlone'
    BY <1>1, <1>3 DEF Kept, Alone, BorrowedAlone
\* What out refers to is the current node, below which nothing is open.
<1>6. ASSUME NEW f \in open[r]
      PROVE  f[1] = r \/ \E g \in open'[r] : RefersTo(heap', g, f[1])
  <2>1. f[1] = r \/ \E g \in open[r] : RefersTo(heap, g, f[1])
      BY DEF Owned, Path
  <2>2. f[1] # cur[r]
      BY DEF Owned, Path
  <2>3. ~RefersTo(heap, out, f[1])
      BY <1>2, <2>2 DEF RefersTo
  <2> QED BY <1>1, <1>4, <2>1, <2>3
<1>7. ASSUME NEW q \in Tree
      PROVE  /\ Idle(q)' => AtRoot(q)'
             /\ cur'[q] = q \/ CurFrame(q)' # {}
  <2>1. CASE q = r
      BY <1>1, <1>2, <1>6, <2>1 DEF Idle, CurFrame
  <2>2. CASE q # r
      BY <1>1, <1>3, <1>4, <2>2 DEF Owned, Path, Idle, AtRoot, CurFrame
  <2> QED BY <2>1, <2>2
<1>8. ASSUME NEW q \in Tree, NEW f \in open'[q]
      PROVE  f[1] = q \/ \E g \in open'[q] : RefersTo(heap', g, f[1])
  <2>1. CASE q = r
      BY <1>1, <1>6, <2>1
  <2>2. CASE q # r
      BY <1>1, <1>3, <1>4, <2>2 DEF Owned, Path
  <2> QED BY <2>1, <2>2
<1>9. ASSUME NEW q \in Tree, NEW f \in open'[q]
      PROVE  /\ f[1] # cur'[q]
             /\ \A g \in open'[q] : g[1] = f[1] => g = f
             /\ \A p \in Tree \ {q} : f \notin open'[p]
  <2>1. f[1] # cur'[q]
      BY <1>1, <1>2 DEF Owned, Path
  <2>2. \A g \in open'[q] : g[1] = f[1] => g = f
      BY <1>1 DEF Owned, Path
  <2>3. \A p \in Tree \ {q} : f \notin open'[p]
      BY <1>1 DEF Owned, Path
  <2> QED BY <2>1, <2>2, <2>3
<1> QED BY <1>5, <1>7, <1>8, <1>9 DEF Path

-----------------------------------------------------------------------------
(***************************************************************************)
(* What the heap operations do to frames that own their node alone.        *)
(***************************************************************************)

\* What a frame holds after each heap operation.
LEMMA AtOps ==
  ASSUME NEW hp \in [Holder -> Content], NEW g \in Frame
  PROVE  /\ \A f \in Frame, h \in Handle :
              At(Replace(hp, f, h), g) = IF g = f THEN h ELSE At(hp, g)
         /\ \A f \in Frame, i \in Id, h \in Handle, c \in Content :
              At(Alloc(hp, f, i, h, c), g) =
                IF g = f THEN h ELSE IF g[1] = i THEN c[g[2]] ELSE At(hp, g)
         /\ \A i \in Id :
              At(Release(hp, i), g) =
                IF g[1] = i /\ i \in Fresh(hp) THEN None ELSE At(hp, g)
         /\ At(Collect(hp), g) =
              IF g[1] \in Tree \cup Live(hp) THEN At(hp, g) ELSE None
<1>1. g[1] \in Holder /\ g[2] \in Slot /\ g = <<g[1], g[2]>>
    BY DEF Frame
<1>2. ASSUME NEW hq \in [Holder -> Content], NEW f \in Frame, NEW h \in Handle
      PROVE  At(Replace(hq, f, h), g) = IF g = f THEN h ELSE At(hq, g)
  <2>1. f[1] \in Holder /\ f[2] \in Slot /\ f = <<f[1], f[2]>>
      BY DEF Frame
  <2>2. hq[f[1]] \in [Slot -> Handle]
      BY <2>1 DEF Content
  <2> QED BY <1>1, <2>1, <2>2 DEF Replace, At
<1>3. ASSUME NEW f \in Frame, NEW i \in Id, NEW h \in Handle, NEW c \in Content
      PROVE  At(Alloc(hp, f, i, h, c), g) =
               IF g = f THEN h ELSE IF g[1] = i THEN c[g[2]] ELSE At(hp, g)
  <2>1. [hp EXCEPT ![i] = c] \in [Holder -> Content]
      OBVIOUS
  <2>2. At([hp EXCEPT ![i] = c], g) = IF g[1] = i THEN c[g[2]] ELSE At(hp, g)
      BY <1>1 DEF At
  <2> QED BY <1>2, <2>1, <2>2 DEF Alloc
<1>4. \A i \in Id : At(Release(hp, i), g) =
                      IF g[1] = i /\ i \in Fresh(hp) THEN None ELSE At(hp, g)
    BY <1>1 DEF Release, At, EmptyNode
<1>5. At(Collect(hp), g) = IF g[1] \in Tree \cup Live(hp) THEN At(hp, g) ELSE None
    BY <1>1 DEF Collect, At, EmptyNode
<1> QED BY <1>2, <1>3, <1>4, <1>5

\* Fewer references: a frame that keeps its handle keeps its node to itself.
LEMMA FewerReferences ==
  ASSUME NEW hp, NEW hq, NEW g \in Frame, Alone(hp, g),
         HasNode(At(hq, g)), At(hq, g).id = At(hp, g).id,
         \A f \in Frame : RefersTo(hq, f, At(hp, g).id) => RefersTo(hp, f, At(hp, g).id)
  PROVE  Alone(hq, g)
BY DEF Alone, Shared

\* Writing a handle that refers to nothing new.
LEMMA ReplaceKeeps ==
  ASSUME NEW hp \in [Holder -> Content], NEW f \in Frame, NEW h \in Handle,
         HasNode(h) => HasNode(At(hp, f)) /\ h.id = At(hp, f).id,
         NEW g \in Frame, Alone(hp, g), g = f => HasNode(h)
  PROVE  /\ Alone(Replace(hp, f, h), g)
         /\ At(Replace(hp, f, h), g).id = At(hp, g).id
<1> DEFINE hq == Replace(hp, f, h)
<1>1. \A k \in Frame : At(hq, k) = IF k = f THEN h ELSE At(hp, k)
    BY AtOps
<1> HIDE DEF hq
<1>2. HasNode(At(hq, g)) /\ At(hq, g).id = At(hp, g).id
    BY <1>1 DEF Alone
<1>3. \A k \in Frame : RefersTo(hq, k, At(hp, g).id) => RefersTo(hp, k, At(hp, g).id)
    BY <1>1 DEF RefersTo
<1>4. Alone(hq, g)
    BY <1>2, <1>3, FewerReferences
<1> QED BY <1>2, <1>4 DEF hq

\* Freeing a node.
LEMMA ReleaseKeeps ==
  ASSUME NEW hp \in [Holder -> Content], NEW i \in Id,
         NEW g \in Frame, Alone(hp, g), g[1] # i
  PROVE  /\ Alone(Release(hp, i), g)
         /\ At(Release(hp, i), g).id = At(hp, g).id
<1> DEFINE hq == Release(hp, i)
<1>1. \A k \in Frame :
        At(hq, k) = IF k[1] = i /\ i \in Fresh(hp) THEN None ELSE At(hp, k)
    BY AtOps
<1> HIDE DEF hq
<1>2. HasNode(At(hq, g)) /\ At(hq, g).id = At(hp, g).id
    BY <1>1 DEF Alone
<1>3. \A k \in Frame : RefersTo(hq, k, At(hp, g).id) => RefersTo(hp, k, At(hp, g).id)
    BY <1>1 DEF RefersTo, HasNode, None
<1>4. Alone(hq, g)
    BY <1>2, <1>3, FewerReferences
<1> QED BY <1>2, <1>4 DEF hq

\* Freeing what a dropped tree had to itself.
LEMMA CollectKeeps ==
  ASSUME NEW hp \in [Holder -> Content], NEW g \in Frame, Alone(hp, g),
         g[1] \in Tree \cup Live(hp)
  PROVE  /\ Alone(Collect(hp), g)
         /\ At(Collect(hp), g).id = At(hp, g).id
<1> DEFINE hq == Collect(hp)
<1>1. \A k \in Frame :
        At(hq, k) = IF k[1] \in Tree \cup Live(hp) THEN At(hp, k) ELSE None
    BY AtOps
<1> HIDE DEF hq
<1>2. HasNode(At(hq, g)) /\ At(hq, g).id = At(hp, g).id
    BY <1>1 DEF Alone
<1>3. \A k \in Frame : RefersTo(hq, k, At(hp, g).id) => RefersTo(hp, k, At(hp, g).id)
    BY <1>1 DEF RefersTo, HasNode, None
<1>4. Alone(hq, g)
    BY <1>2, <1>3, FewerReferences
<1> QED BY <1>2, <1>4 DEF hq

\* Allocating a node: the frame it is put in owns it alone, and whoever owned
\* a node alone still does unless the new node refers to that one.
LEMMA AllocKeeps ==
  ASSUME NEW hp \in [Holder -> Content], NEW f \in Frame, NEW i \in Fresh(hp),
         f[1] # i, NEW h \in Handle, HasNode(h), h.id = i, NEW c \in Content,
         \A s \in Slot : ~(HasNode(c[s]) /\ c[s].id = i)
  PROVE  LET hq == Alloc(hp, f, i, h, c)
         IN /\ At(hq, f) = h /\ Alone(hq, f)
            /\ \A g \in Frame :
                 /\ g # f /\ g[1] # i /\ Alone(hp, g)
                 /\ \A s \in Slot : ~(HasNode(c[s]) /\ c[s].id = At(hp, g).id)
                 => Alone(hq, g) /\ At(hq, g).id = At(hp, g).id
<1> DEFINE hq == Alloc(hp, f, i, h, c)
<1>1. i \in Id /\ \A k \in Frame : ~RefersTo(hp, k, i) /\ k[2] \in Slot
    BY DEF Fresh, Frame
<1>2. \A k \in Frame :
        At(hq, k) = IF k = f THEN h ELSE IF k[1] = i THEN c[k[2]] ELSE At(hp, k)
    BY <1>1, AtOps
<1> HIDE DEF hq
<1>3. At(hq, f) = h /\ Alone(hq, f)
    BY <1>1, <1>2 DEF Alone, Shared, RefersTo
<1>4. ASSUME NEW g \in Frame, g # f, g[1] # i, Alone(hp, g),
             \A s \in Slot : ~(HasNode(c[s]) /\ c[s].id = At(hp, g).id)
      PROVE  Alone(hq, g) /\ At(hq, g).id = At(hp, g).id
  <2>1. HasNode(At(hq, g)) /\ At(hq, g).id = At(hp, g).id
      BY <1>2, <1>4 DEF Alone
  <2>2. At(hp, g).id # i
      BY <1>1, <1>4 DEF Alone, RefersTo
  <2>3. \A k \in Frame : RefersTo(hq, k, At(hp, g).id) => RefersTo(hp, k, At(hp, g).id)
      BY <1>1, <1>2, <1>4, <2>2 DEF RefersTo
  <2> QED BY <1>4, <2>1, <2>3, FewerReferences
<1> QED BY <1>3, <1>4 DEF hq

-----------------------------------------------------------------------------
(***************************************************************************)
(* Every step keeps Owned.                                                 *)
(***************************************************************************)

\* An address no handle refers to is neither current nor on an open path.
LEMMA FreshNotBorrowed ==
  ASSUME Owned, NEW i \in Fresh(heap)
  PROVE  /\ i \in Id
         /\ \A r \in Tree : cur[r] # i
         /\ \A r \in Tree : \A f \in open[r] : f[1] # i
<1>1. i \in Id /\ \A f \in Frame : ~RefersTo(heap, f, i)
    BY DEF Fresh
<1>2. \A r \in Tree : \A f \in open[r] : ~RefersTo(heap, f, i)
    BY <1>1, OpenFrames
<1>3. i \notin Tree
    BY <1>1, ConstantsOK
<1>4. \A r \in Tree : cur[r] # i
    BY <1>2, <1>3 DEF Owned, Path, CurFrame
<1>5. \A r \in Tree : \A f \in open[r] : f[1] # i
    BY <1>2, <1>3 DEF Owned, Path
<1> QED BY <1>1, <1>4, <1>5

\* A decoded node has no nodes in memory below it.
LEMMA DecodeNoNode ==
  ASSUME NEW b \in Blob, NEW st
  PROVE  \A s \in Slot : ~HasNode(Decode(st, b)[s])
<1> SUFFICES ASSUME NEW s \in Slot
             PROVE  ~HasNode(DecodeEntry(st, b[s]))
    BY DEF Decode
<1>1. b[s] \in Entry
    BY DEF Blob
<1> QED BY <1>1 DEF Entry, DecodeEntry, Persisted, None, HasNode

\* A handle that was written to the heap is a Handle, by TypeOK'.
LEMMA HandleWritten ==
  ASSUME Owned, TypeOK', NEW r \in Tree, NEW f \in CurFrame(r), NEW h,
         heap' = Replace(heap, f, h)
  PROVE  h \in Handle
<1>1. f \in Frame /\ f[1] \in Holder /\ f[2] \in Slot
    BY CurFrameTyped DEF Owned, Frame
<1>2. heap[f[1]] \in [Slot -> Handle] /\ heap \in [Holder -> Content]
    BY <1>1 DEF Owned, TypeOK, Content
<1>3. heap'[f[1]][f[2]] = h
    BY <1>1, <1>2 DEF Replace
<1>4. heap'[f[1]][f[2]] \in Handle
    BY <1>1 DEF TypeOK, Content
<1> QED BY <1>3, <1>4

\* A step that leaves the heap alone.
LEMMA SameHeap ==
  ASSUME Owned, UNCHANGED heap, NEW r \in Tree, NEW f \in open[r]
  PROVE  Kept(f)
BY OpenFrames DEF Kept

\* Writing a handle that is no node to the current node, where nothing is open.
LEMMA WriteAtCur ==
  ASSUME Owned, TypeOK', Stay, NEW r \in Tree, NEW s \in Slot, NEW h \in Handle,
         ~HasNode(h), heap' = Replace(heap, <<cur[r], s>>, h),
         \A q \in Tree : op'[q] = "idle" => op[q] = "idle"
  PROVE  Owned'
<1>1. heap \in [Holder -> Content] /\ <<cur[r], s>> \in Frame
    BY CurFrameTyped DEF Owned, TypeOK
<1>2. ASSUME NEW q \in Tree, NEW f \in open[q]
      PROVE  Kept(f)
  <2>1. f # <<cur[r], s>>
      BY NotOpenBelow
  <2> QED BY <1>1, <2>1, OpenFrames, ReplaceKeeps DEF Kept
<1> QED BY <1>2, StayOwned DEF Owned

\* Allocating a node below the current node, with no nodes below it.
LEMMA AllocAtCur ==
  ASSUME Owned, NEW r \in Tree, NEW s \in Slot, NEW i \in Fresh(heap),
         NEW h \in Handle, HasNode(h), h.id = i,
         NEW c \in Content, \A x \in Slot : ~HasNode(c[x]),
         heap' = Alloc(heap, <<cur[r], s>>, i, h, c)
  PROVE  /\ Alone(heap', <<cur[r], s>>)
         /\ \A q \in Tree : \A f \in open[q] : Kept(f)
<1>1. /\ heap \in [Holder -> Content]
      /\ <<cur[r], s>> \in Frame /\ cur[r] # i
    BY CurFrameTyped, FreshNotBorrowed DEF Owned, TypeOK
<1>2. Alone(heap', <<cur[r], s>>)
    BY <1>1, AllocKeeps
<1>3. ASSUME NEW q \in Tree, NEW f \in open[q]
      PROVE  Kept(f)
  <2>1. f \in Frame /\ Alone(heap, f) /\ f # <<cur[r], s>> /\ f[1] # i
      BY OpenFrames, NotOpenBelow, FreshNotBorrowed
  <2> QED BY <1>1, <2>1, AllocKeeps DEF Kept
<1> QED BY <1>2, <1>3

\* make_mut on a handle of the current node: whether it finds the node shared
\* and clones it or not, the frame owns it alone afterwards, and the clone's
\* handles share nothing that is open.
LEMMA MakeMutAtCur ==
  ASSUME Owned, NEW r \in Tree, NEW s \in Slot, HasNode(heap[cur[r]][s]),
         heap' \in MakeMut(heap, <<cur[r], s>>)
  PROVE  /\ Alone(heap', <<cur[r], s>>)
         /\ \A q \in Tree : \A f \in open[q] : Kept(f)
<1> DEFINE new == <<cur[r], s>>
           old == At(heap, new)
<1>1. /\ heap \in [Holder -> Content] /\ new \in Frame
      /\ old = heap[cur[r]][s] /\ old \in Handle /\ HasNode(old)
    BY CurFrameTyped DEF Owned, TypeOK, At
<1>2. /\ old.id \in Id /\ old.ann \in Ann /\ old.hash \in Digest \cup {NoHash}
      /\ heap[old.id] \in Content
    BY <1>1, HandleKinds DEF HasNode, InStore, None, Holder
<1>3. CASE ~Shared(heap, old.id)
  <2>1. heap' = heap
      BY <1>3 DEF MakeMut
  <2>2. Alone(heap', new)
      BY <1>1, <1>3, <2>1 DEF Alone
  <2> QED BY <2>1, <2>2, SameHeap
<1>4. CASE Shared(heap, old.id)
  <2> DEFINE h(i) == NodeHandle(i, old.ann, old.hash)
             c    == heap[old.id]
  <2>1. PICK i \in Fresh(heap) : heap' = Alloc(heap, new, i, h(i), c)
      BY <1>4 DEF MakeMut
  <2>2. i \in Id /\ new[1] # i /\ \A f \in Frame : ~RefersTo(heap, f, i)
      BY FreshNotBorrowed DEF Fresh
  <2>3. h(i) \in Handle /\ HasNode(h(i)) /\ h(i).id = i
      BY <1>2, <2>2, Constructors DEF NodeHandle, HasNode
  <2>4. \A x \in Slot : <<old.id, x>> \in Frame /\ At(heap, <<old.id, x>>) = c[x]
      BY <1>2 DEF Frame, Holder, At
  <2>5. \A x \in Slot : ~(HasNode(c[x]) /\ c[x].id = i)
      BY <2>2, <2>4 DEF RefersTo
  <2>6. Alone(heap', new)
      BY <1>1, <1>2, <2>1, <2>2, <2>3, <2>5, AllocKeeps
  <2>7. ASSUME NEW q \in Tree, NEW f \in open[q]
        PROVE  Kept(f)
    <3>1. f \in Frame /\ Alone(heap, f) /\ f # new /\ f[1] # i
        BY OpenFrames, NotOpenBelow, FreshNotBorrowed
    \* A handle of the cloned node to what f owns would be f itself; the node
    \* would then be on an open path and not be shared.
    <3>2. \A x \in Slot : ~(HasNode(c[x]) /\ c[x].id = At(heap, f).id)
      <4> SUFFICES ASSUME NEW x \in Slot, HasNode(c[x]), c[x].id = At(heap, f).id
                   PROVE  FALSE
          OBVIOUS
      <4>1. f = <<old.id, x>>
          BY <2>4, <3>1, OnlyReference DEF RefersTo
      <4>2. PICK g \in open[q] : RefersTo(heap, g, old.id)
          BY <1>2, <4>1, ConstantsOK DEF Owned, Path
      <4>3. Alone(heap, g) /\ At(heap, g).id = old.id
          BY <4>2, OpenFrames DEF RefersTo
      <4> QED BY <1>4, <4>3 DEF Alone
    <3>3. LET hq == Alloc(heap, new, i, h(i), c)
          IN \A g \in Frame :
               /\ g # new /\ g[1] # i /\ Alone(heap, g)
               /\ \A x \in Slot : ~(HasNode(c[x]) /\ c[x].id = At(heap, g).id)
               => Alone(hq, g) /\ At(hq, g).id = At(heap, g).id
        BY <1>1, <1>2, <2>2, <2>3, <2>5, AllocKeeps
    <3> HIDE DEF new, old, h, c
    <3> QED BY <2>1, <3>1, <3>2, <3>3 DEF Kept
  <2> QED BY <2>6, <2>7
<1> QED BY <1>3, <1>4

\* Leaving a frame, with a handle in it that refers to its node or to none,
\* and the node freed if that was the last reference.
LEMMA WriteAndLeave ==
  ASSUME Owned, TypeOK', NEW r \in Tree, ~Idle(r), UNCHANGED op,
         NEW out \in CurFrame(r), Leave(r, out), NEW h \in Handle,
         HasNode(h) => h.id = At(heap, out).id,
         \/ heap' = Replace(heap, out, h)
         \/ heap' = Release(Replace(heap, out, h), cur[r])
  PROVE  Owned'
<1>1. /\ heap \in [Holder -> Content] /\ out \in Frame /\ HasNode(At(heap, out))
      /\ cur[r] \in Id /\ Replace(heap, out, h) \in [Holder -> Content]
    BY CurFrameTyped, HeapOps DEF Owned, TypeOK
<1>2. ASSUME NEW q \in Tree, NEW f \in open[q] \ {out}
      PROVE  Kept(f)
  <2>1. f \in Frame /\ Alone(heap, f) /\ f[1] # cur[r]
      BY OpenFrames, NotOpenBelow
  <2>2. /\ Alone(Replace(heap, out, h), f)
        /\ At(Replace(heap, out, h), f).id = At(heap, f).id
      BY <1>1, <2>1, ReplaceKeeps
  <2>3. /\ Alone(Release(Replace(heap, out, h), cur[r]), f)
        /\ At(Release(Replace(heap, out, h), cur[r]), f).id = At(heap, f).id
      BY <1>1, <2>1, <2>2, ReleaseKeeps
  <2> QED BY <2>2, <2>3 DEF Kept
<1> QED BY <1>2, LeaveOwned DEF Owned

\* Splitting a leaf puts a new node in its place, with leaves below it only and
\* their annotation in its handle.
LEMMA SplitHeap ==
  ASSUME Owned, TypeOK', NEW r \in Tree, NEW s \in Slot, NEW t \in Slot,
         NEW u \in Slot, NEW l \in Leaf, Split(r, s, t, u, l)
  PROVE  \E i \in Fresh(heap), h \in Handle, c \in Content :
           /\ HasNode(h) /\ h.id = i /\ h.hash = NoHash /\ h.ann = NodeAnn(c)
           /\ \A x \in Slot : ~HasNode(c[x]) /\ ~InStore(c[x])
           /\ heap' = Alloc(heap, <<cur[r], s>>, i, h, c)
<1>o. PICK old : old = heap[cur[r]][s]
    OBVIOUS
<1>c. PICK c : c = [EmptyNode EXCEPT ![t] = old, ![u] = LeafHandle(l)]
    OBVIOUS
<1>1. old \in Handle /\ old.tag = "Leaf"
    BY <1>o, CurFrameTyped DEF Split, Owned
<1>2. \A x \in {None, old, LeafHandle(l)} : x \in Handle /\ ~HasNode(x) /\ ~InStore(x)
  <2>1. None \in Handle /\ ~HasNode(None) /\ ~InStore(None)
      BY Constructors DEF None, HasNode, InStore
  <2>2. /\ LeafHandle(l) \in Handle
        /\ ~HasNode(LeafHandle(l)) /\ ~InStore(LeafHandle(l))
      BY Constructors DEF LeafHandle, HasNode, InStore
  <2>3. ~HasNode(old) /\ ~InStore(old)
      BY <1>1 DEF HasNode, InStore
  <2> QED BY <1>1, <2>1, <2>2, <2>3
<1>3. c \in Content /\ \A x \in Slot : ~HasNode(c[x]) /\ ~InStore(c[x])
  <2>1. c = [x \in Slot |-> c[x]] /\ \A x \in Slot : c[x] \in {None, old, LeafHandle(l)}
      BY <1>c DEF EmptyNode
  <2> QED BY <1>2, <2>1 DEF Content
<1>4. PICK i \in Fresh(heap) :
        heap' = Alloc(heap, <<cur[r], s>>, i, NodeHandle(i, NodeAnn(c), NoHash), c)
    BY <1>o, <1>c DEF Split
<1>5. PICK h : h = NodeHandle(i, NodeAnn(c), NoHash)
    OBVIOUS
<1>6. /\ HasNode(h) /\ h.id = i /\ h.hash = NoHash /\ h.ann = NodeAnn(c)
      /\ heap' = Alloc(heap, <<cur[r], s>>, i, h, c)
    BY <1>4, <1>5 DEF NodeHandle, HasNode
\* What was written to the heap is a handle.
<1>7. h \in Handle
  <2>1. /\ <<cur[r], s>> \in Frame /\ heap \in [Holder -> Content]
        /\ cur[r] # i /\ i \in Id /\ cur[r] \in Holder
        /\ heap[cur[r]] \in [Slot -> Handle]
      BY FreshNotBorrowed, CurFrameTyped DEF Owned, TypeOK, Content
  <2>2. heap'[cur[r]][s] = h
      BY <1>6, <2>1 DEF Alloc, Replace
  <2>3. heap'[cur[r]][s] \in Handle
      BY <2>1 DEF TypeOK, Content
  <2> QED BY <2>2, <2>3
<1> QED BY <1>3, <1>6, <1>7

\* Steps of mutating calls.
LEMMA MutateOwned ==
  ASSUME Owned, TypeOK', NEW r \in Tree, Mutate(r)
  PROVE  Owned'
<1>1. CASE BeginMutate(r)
    BY <1>1, SameHeap, StayOwned DEF BeginMutate, Idle, Stay, Owned, TypeOK
<1>2. ASSUME NEW s \in Slot, InnerMutNode(r, s)
      PROVE  Owned'
  <2>1. /\ Alone(heap', <<cur[r], s>>)
        /\ \A q \in Tree : \A f \in open[q] : Kept(f)
      BY <1>2, MakeMutAtCur DEF InnerMutNode
  <2> QED BY <1>2, <2>1, EnterOwned DEF InnerMutNode, Mutating, Idle, Owned
<1>3. ASSUME NEW s \in Slot, InnerMutRestore(r, s)
      PROVE  Owned'
  <2> DEFINE h == heap[cur[r]][s]
             c == Decode(h.store, store[h.store][h.hash])
             n(i) == NodeHandle(i, h.ann, NoHash)
  <2>1. /\ h \in Handle /\ InStore(h) /\ Contains(h.store, h.hash)
        /\ Mutating(r) /\ Enter(r, <<cur[r], s>>) /\ UNCHANGED op
      BY <1>3, CurFrameTyped DEF InnerMutRestore, Owned
  <2>2. h.store \in Store /\ h.hash \in Digest /\ h.ann \in Ann
      BY <2>1, HandleKinds DEF HasNode, InStore, None
  <2>3. store[h.store][h.hash] \in Blob
      BY <2>1, <2>2 DEF Owned, TypeOK, Contains, IsContentMap
  <2>4. c \in Content /\ \A x \in Slot : ~HasNode(c[x])
      BY <2>2, <2>3, DecodeTyped, DecodeNoNode
  <2>5. PICK i \in Fresh(heap) : heap' = Alloc(heap, <<cur[r], s>>, i, n(i), c)
      BY <1>3 DEF InnerMutRestore
  <2>6. n(i) \in Handle /\ HasNode(n(i)) /\ n(i).id = i
      BY <2>2, Constructors DEF Fresh, NodeHandle, HasNode
  <2>7. /\ Alone(heap', <<cur[r], s>>)
        /\ \A q \in Tree : \A f \in open[q] : Kept(f)
    <3> HIDE DEF c, n
    <3> QED BY <2>4, <2>5, <2>6, AllocAtCur
  <2> QED BY <2>1, <2>7, EnterOwned DEF Mutating, Idle, Owned
<1>4. ASSUME NEW s \in Slot, InnerMutFails(r, s)
      PROVE  Owned'
  <2>1. /\ heap' = Replace(heap, <<cur[r], s>>, None) /\ Stay
        /\ \A q \in Tree : op'[q] = "idle" => op[q] = "idle"
      BY <1>4 DEF InnerMutFails, Owned, TypeOK
  <2> QED BY <2>1, WriteAtCur, Constructors DEF None, HasNode
<1>5. ASSUME NEW s \in Slot, NEW l \in Leaf, PutLeaf(r, s, l)
      PROVE  Owned'
    BY <1>5, WriteAtCur, Constructors DEF PutLeaf, Edit, LeafHandle, HasNode
<1>6. ASSUME NEW s \in Slot, RemoveLeaf(r, s)
      PROVE  Owned'
    BY <1>6, WriteAtCur, Constructors DEF RemoveLeaf, Edit, None, HasNode
<1>7. ASSUME NEW s \in Slot, NEW t \in Slot, NEW u \in Slot, NEW l \in Leaf,
             Split(r, s, t, u, l)
      PROVE  Owned'
  <2>1. PICK i \in Fresh(heap), h \in Handle, c \in Content :
          /\ HasNode(h) /\ h.id = i
          /\ \A x \in Slot : ~HasNode(c[x])
          /\ heap' = Alloc(heap, <<cur[r], s>>, i, h, c)
      BY <1>7, SplitHeap
  <2>2. Stay /\ UNCHANGED op
      BY <1>7 DEF Split, Edit
  <2>3. \A q \in Tree : \A f \in open[q] : Kept(f)
      BY <2>1, AllocAtCur
  <2> QED BY <2>2, <2>3, StayOwned DEF Owned
<1>8. ASSUME NEW s \in Slot, Collapse(r, s)
      PROVE  Owned'
  <2>1. PICK f \in CurFrame(r) :
          /\ heap' = Release(Replace(heap, f, heap[cur[r]][s]), cur[r])
          /\ Leave(r, f)
      BY <1>8 DEF Collapse
  <2>2. /\ heap[cur[r]][s] \in Handle /\ ~HasNode(heap[cur[r]][s])
        /\ UNCHANGED op /\ ~Idle(r)
      BY <1>8, CurFrameTyped DEF Collapse, HasNode, Mutating, Idle, Owned
  <2> QED BY <2>1, <2>2, WriteAndLeave
<1>9. CASE DropHandleMut(r)
  <2> DEFINE a == NodeAnn(heap[cur[r]])
             n(f) == NodeHandle(At(heap, f).id,
                                IF a = NoAnn THEN At(heap, f).ann ELSE a, NoHash)
  <2>1. PICK f \in CurFrame(r) : heap' = Replace(heap, f, n(f)) /\ Leave(r, f)
      BY <1>9 DEF DropHandleMut
  <2>2. n(f).id = At(heap, f).id
      BY DEF NodeHandle
  <2>3. n(f) \in Handle
      BY <2>1, HandleWritten
  <2>4. UNCHANGED op /\ ~Idle(r)
      BY <1>9 DEF DropHandleMut, Mutating, Idle
  <2> HIDE DEF n
  <2> QED BY <2>1, <2>2, <2>3, <2>4, WriteAndLeave
<1>10. CASE EndMutate(r)
  <2>1. Stay /\ UNCHANGED heap /\ AtRoot(r)
      BY <1>10 DEF EndMutate, Stay
  <2>2. \A q \in Tree : op'[q] = "idle" => op[q] = "idle" \/ AtRoot(q)
      BY <1>10, <2>1 DEF EndMutate, Owned, TypeOK
  <2> QED BY <2>1, <2>2, SameHeap, StayOwned DEF Owned
<1> QED BY <1>1, <1>2, <1>3, <1>4, <1>5, <1>6, <1>7, <1>8, <1>9, <1>10 DEF Mutate

\* Steps of root_hash.
LEMMA HashOwned ==
  ASSUME Owned, TypeOK', NEW r \in Tree, HashStep(r)
  PROVE  Owned'
<1>1. ASSUME NEW s \in Slot, HashDown(r, s)
      PROVE  Owned'
  <2>1. HasNode(heap[cur[r]][s]) /\ ~Idle(r)
      BY <1>1 DEF HashDown, IsHashed, Hashing, Idle
  <2>2. /\ Alone(heap', <<cur[r], s>>)
        /\ \A q \in Tree : \A f \in open[q] : Kept(f)
      BY <1>1, <2>1, MakeMutAtCur DEF HashDown
  <2> QED BY <1>1, <2>1, <2>2, EnterOwned DEF HashDown, Owned
<1>2. CASE HashUp(r)
  <2> DEFINE n(f) == NodeHandle(At(heap, f).id, At(heap, f).ann,
                                Hash(Encode(heap[cur[r]])))
  <2>1. PICK f \in CurFrame(r) : heap' = Replace(heap, f, n(f)) /\ Leave(r, f)
      BY <1>2 DEF HashUp
  <2>2. n(f).id = At(heap, f).id /\ ~Idle(r) /\ UNCHANGED op
      BY <1>2 DEF HashUp, Hashing, Idle, NodeHandle
  <2>3. n(f) \in Handle
      BY <2>1, HandleWritten
  <2> HIDE DEF n
  <2> QED BY <2>1, <2>2, <2>3, WriteAndLeave
<1>3. CASE HashDone(r)
  <2>1. Stay /\ UNCHANGED heap /\ AtRoot(r)
      BY <1>3 DEF HashDone, Stay
  <2>2. \A q \in Tree : op'[q] = "idle" => op[q] = "idle" \/ AtRoot(q)
      BY <1>3, <2>1 DEF HashDone, Owned, TypeOK
  <2> QED BY <2>1, <2>2, SameHeap, StayOwned DEF Owned
<1> QED BY <1>1, <1>2, <1>3 DEF HashStep

\* A persist that fails drops all it had open; the others keep theirs.
LEMMA FailOwned ==
  ASSUME Owned, TypeOK', NEW r \in Tree, PutFails(r)
  PROVE  Owned'
<1>1. /\ UNCHANGED heap
      /\ op'[r] = "idle" /\ cur'[r] = r /\ open'[r] = {}
      /\ \A q \in Tree \ {r} :
           op'[q] = op[q] /\ cur'[q] = cur[q] /\ open'[q] = open[q]
    BY DEF PutFails, Owned, TypeOK
<1>2. BorrowedAlone'
    BY <1>1 DEF Owned, BorrowedAlone
<1>3. ASSUME NEW q \in Tree
      PROVE  /\ Idle(q)' => AtRoot(q)'
             /\ cur'[q] = q \/ CurFrame(q)' # {}
    BY <1>1 DEF Owned, Path, Idle, AtRoot, CurFrame
<1>4. ASSUME NEW q \in Tree, NEW f \in open'[q]
      PROVE  /\ f[1] = q \/ \E g \in open'[q] : RefersTo(heap', g, f[1])
             /\ f[1] # cur'[q]
             /\ \A g \in open'[q] : g[1] = f[1] => g = f
             /\ \A p \in Tree \ {q} : f \notin open'[p]
    BY <1>1 DEF Owned, Path
<1> QED BY <1>2, <1>3, <1>4 DEF Owned, Path

\* Steps of persist.
LEMMA PersistOwned ==
  ASSUME Owned, TypeOK', NEW r \in Tree, PersistStep(r)
  PROVE  Owned'
<1>1. ASSUME NEW s \in Slot, PersistDown(r, s)
      PROVE  Owned'
  <2>1. /\ Alone(heap', <<cur[r], s>>)
        /\ \A q \in Tree : \A f \in open[q] : Kept(f)
      BY <1>1, MakeMutAtCur DEF PersistDown
  <2> QED BY <1>1, <2>1, EnterOwned DEF PersistDown, Persisting, Idle, Owned
<1>2. CASE PersistUp(r)
  <2> DEFINE b    == Encode(heap[cur[r]])
             d(f) == IF At(heap, f).hash # NoHash THEN At(heap, f).hash ELSE Hash(b)
             n(f) == Persisted(dest[r], d(f), At(heap, f).ann)
  <2>1. PICK f \in CurFrame(r) :
          /\ heap' = Release(Replace(heap, f, n(f)), cur[r])
          /\ Leave(r, f)
      BY <1>2 DEF PersistUp
  <2>2. ~HasNode(n(f)) /\ ~Idle(r) /\ UNCHANGED op
      BY <1>2 DEF PersistUp, Written, Persisting, Idle, Persisted, HasNode
  <2>3. n(f) \in Handle
    <3>1. /\ f \in Frame /\ f[1] \in Holder /\ f[2] \in Slot /\ cur[r] \in Id
          /\ f[1] # cur[r]
        BY CurFrameTyped, NotOpenBelow DEF Owned, Frame
    <3>2. heap[f[1]] \in [Slot -> Handle] /\ heap \in [Holder -> Content]
        BY <3>1 DEF Owned, TypeOK, Content
    <3>3. heap'[f[1]][f[2]] = n(f)
      <4> HIDE DEF n
      <4> QED BY <2>1, <3>1, <3>2 DEF Release, Replace
    <3>4. heap'[f[1]][f[2]] \in Handle
        BY <3>1 DEF TypeOK, Content
    <3> QED BY <3>3, <3>4
  <2> HIDE DEF n
  <2> QED BY <2>1, <2>2, <2>3, WriteAndLeave
<1>3. CASE PersistDone(r)
  <2>1. Stay /\ UNCHANGED heap /\ AtRoot(r)
      BY <1>3 DEF PersistDone, Stay
  <2>2. \A q \in Tree : op'[q] = "idle" => op[q] = "idle" \/ AtRoot(q)
      BY <1>3, <2>1 DEF PersistDone, Owned, TypeOK
  <2> QED BY <2>1, <2>2, SameHeap, StayOwned DEF Owned
<1>4. CASE PutFails(r)
    BY <1>4, FailOwned
<1> QED BY <1>1, <1>2, <1>3, <1>4 DEF PersistStep

\* Another tree r dropped for content c, which refers to nothing that is open.
LEMMA DropTree ==
  ASSUME Owned, NEW r \in Tree, Idle(r), NEW c \in Content,
         \A q \in Tree : \A f \in open[q] : \A s \in Slot :
           ~(HasNode(c[s]) /\ c[s].id = At(heap, f).id),
         heap' = Collect([heap EXCEPT ![r] = c])
  PROVE  \A q \in Tree : \A f \in open[q] : Kept(f)
<1> SUFFICES ASSUME NEW q \in Tree, NEW f \in open[q]
             PROVE  Kept(f)
    OBVIOUS
<1> DEFINE hp == [heap EXCEPT ![r] = c]
<1>1. hp \in [Holder -> Content] /\ r \in Holder
    BY DEF Owned, TypeOK, Holder
<1>2. f \in Frame /\ Alone(heap, f) /\ f[1] \in Holder
    BY OpenFrames
\* f is no frame of r: that would be r's own path, and r is idle.
<1>3. f[1] # r
  <2>1. SUFFICES ASSUME f[1] = r
                 PROVE  FALSE
      OBVIOUS
  <2>2. cur[r] = r
      BY DEF Owned, Path, AtRoot
  <2> QED BY <2>1, <2>2, NotOpenBelow
<1>4. \A g \in Frame : At(hp, g) = IF g[1] = r THEN c[g[2]] ELSE At(heap, g)
  <2>1. \A g \in Frame : g[1] \in Holder
      BY DEF Frame
  <2> QED BY <1>1, <2>1 DEF At, Owned, TypeOK
<1>5. Alone(hp, f) /\ At(hp, f).id = At(heap, f).id
  <2>1. \A k \in Frame : k[2] \in Slot
      BY DEF Frame
  <2>2. HasNode(At(hp, f)) /\ At(hp, f).id = At(heap, f).id
      BY <1>2, <1>3, <1>4 DEF Alone
  <2>3. \A k \in Frame : RefersTo(hp, k, At(heap, f).id) => RefersTo(heap, k, At(heap, f).id)
      BY <1>4, <2>1 DEF RefersTo
  <2> HIDE DEF hp
  <2> QED BY <1>2, <2>2, <2>3, FewerReferences
<1>6. f[1] \in Tree \cup Live(hp)
  <2>1. f[1] \in Borrowed
      BY <1>2 DEF Borrowed
  <2>2. f[1] \in Id => f[1] \in Live(hp)
      BY <2>1, ConstantsOK DEF Live, Closed
  <2> QED BY <1>2, <2>2 DEF Holder
<1> HIDE DEF hp
<1>7. Alone(Collect(hp), f) /\ At(Collect(hp), f).id = At(hp, f).id
    BY <1>1, <1>2, <1>5, <1>6, CollectKeeps
<1> QED BY <1>5, <1>7 DEF Kept, hp

\* Starting root_hash or persist, restoring, cloning.
LEMMA WholeOwned ==
  ASSUME Owned, TypeOK', NEW r \in Tree, Whole(r)
  PROVE  Owned'
<1>1. CASE BeginHash(r)
    BY <1>1, SameHeap, StayOwned DEF BeginHash, Idle, Stay, Owned, TypeOK
<1>2. ASSUME NEW st \in Store, BeginPersist(r, st)
      PROVE  Owned'
    BY <1>2, SameHeap, StayOwned DEF BeginPersist, Idle, Stay, Owned, TypeOK
<1>3. ASSUME NEW snap \in snaps, Restore(r, snap[1], snap[2])
      PROVE  Owned'
  <2> DEFINE c == Decode(snap[1], store[snap[1]][snap[2]])
  <2>1. store[snap[1]][snap[2]] \in Blob /\ snap[1] \in Store
      BY <1>3 DEF Restore, Contains, Owned, TypeOK, IsContentMap
  <2>2. c \in Content /\ \A s \in Slot : ~HasNode(c[s])
      BY <2>1, DecodeTyped, DecodeNoNode
  <2>3. heap' = Collect([heap EXCEPT ![r] = c]) /\ Idle(r) /\ Stay /\ UNCHANGED op
      BY <1>3 DEF Restore, Stay
  <2> HIDE DEF c
  <2>4. \A q \in Tree : \A f \in open[q] : Kept(f)
      BY <2>2, <2>3, DropTree
  <2> QED BY <2>3, <2>4, StayOwned DEF Owned
<1>4. ASSUME NEW q \in Tree, Clone(r, q)
      PROVE  Owned'
  <2>1. /\ heap' = Collect([heap EXCEPT ![q] = heap[r]]) /\ Stay /\ UNCHANGED op
        /\ Idle(q) /\ Idle(r) /\ r \in Holder /\ heap[r] \in Content
      BY <1>4 DEF Clone, Stay, Owned, TypeOK, Holder
  \* What a handle of the idle r refers to is not open: the frame would be r's.
  <2>2. ASSUME NEW p \in Tree, NEW f \in open[p], NEW s \in Slot,
               HasNode(heap[r][s]), heap[r][s].id = At(heap, f).id
        PROVE  FALSE
    <3>1. f \in Frame /\ Alone(heap, f)
        BY OpenFrames
    <3>2. <<r, s>> \in Frame /\ RefersTo(heap, <<r, s>>, At(heap, f).id)
        BY <2>1, <2>2 DEF Frame, RefersTo, At
    <3>3. f = <<r, s>>
        BY <3>1, <3>2, OnlyReference
    <3>4. cur[r] = r
        BY <2>1 DEF Owned, Path, AtRoot
    <3> QED BY <3>3, <3>4, NotOpenBelow
  <2>3. \A p \in Tree : \A f \in open[p] : Kept(f)
      BY <2>1, <2>2, DropTree
  <2> QED BY <2>1, <2>3, StayOwned DEF Owned
<1> QED BY <1>1, <1>2, <1>3, <1>4 DEF Whole

LEMMA NextOwned ==
  ASSUME Typed, Owned, [Next]_vars
  PROVE  Owned'
<1>1. TypeOK'
    BY NextTyped DEF Owned
<1>2. CASE Next
    BY <1>1, <1>2, MutateOwned, HashOwned, PersistOwned, WholeOwned DEF Next
<1>3. CASE UNCHANGED vars
    BY <1>1, <1>3, SameHeap, StayOwned DEF vars, Stay, Owned
<1> QED BY <1>2, <1>3

LEMMA InitOwned ==
  ASSUME Typed, Init
  PROVE  Owned
<1>1. TypeOK
    BY InitTyped
<1>2. Path /\ BorrowedAlone
    BY <1>1 DEF Init, Path, BorrowedAlone, Idle, AtRoot
<1> QED BY <1>1, <1>2 DEF Owned

\* The handles every operation holds open are one path of its own, in every
\* reachable state and for any number of trees, threads, slots and addresses.
THEOREM OnePath ==
  ASSUME Typed
  PROVE  Spec => []Path
<1>1. Init => Owned
    BY InitOwned
<1>2. Owned /\ [Next]_vars => Owned'
    BY NextOwned
<1>3. Owned => Path
    BY DEF Owned
<1> QED BY <1>1, <1>2, <1>3, PTL DEF Spec

\* What Rc::make_mut promises: a node that some call holds open is referred to
\* by the handle it was opened through and by nothing else, until the call
\* leaves it, whatever the other trees and threads do meanwhile.
THEOREM BorrowsAreExclusive ==
  ASSUME Typed
  PROVE  Spec => []BorrowedAlone
<1>1. Init => Owned
    BY InitOwned
<1>2. Owned /\ [Next]_vars => Owned'
    BY NextOwned
<1>3. Owned => BorrowedAlone
    BY DEF Owned
<1> QED BY <1>1, <1>2, <1>3, PTL DEF Spec

=============================================================================
