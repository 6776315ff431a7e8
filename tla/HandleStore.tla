---------------------------- MODULE HandleStore ----------------------------
(***************************************************************************)
(* The core of kelvin: trees of Handles over a content-addressed Store.    *)
(*                                                                         *)
(* A tree is a Compound value whose slots are Handles (src/src/handle.rs). *)
(* A Handle is empty, a leaf, a node in memory (a shared Rc, the node's    *)
(* annotation and maybe its cached hash) or a node that lives only in a    *)
(* store (a Snapshot, i.e. digest and store, and the annotation).          *)
(*                                                                         *)
(* The operations are the ones every structure of the repository is built  *)
(* from: opening handles for mutation (inner_mut, Rc::make_mut), replacing *)
(* what a handle holds, dropping the HandleMut on the way back, computing  *)
(* a root hash, persisting into a store, restoring a snapshot and cloning. *)
(* Node contents are kept to the handles of the node: the bytes a Compound *)
(* adds of its own (masks, path meta data) are functions of those.         *)
(***************************************************************************)
EXTENDS Naturals, FiniteSets

CONSTANTS
  Tree,       \* the Compound values the program holds (variables of its own)
  Thread,     \* the threads of the program
  ThreadOf,   \* the thread that holds each tree: handles hold Rc, not Send
  Id,         \* addresses of Rc<C> allocations
  Slot,       \* indices of the handles of one node
  Leaf,       \* leaf values
  Ann,        \* annotation values
  NoAnn,      \* "no annotation": combine() of a node without elements
  Digest,     \* values of H::Digest
  NoHash,     \* no cached hash
  Store,      \* the stores the program opened
  LeafAnn(_), \* From<&Leaf> for the annotation
  Combine(_), \* Combine::combine over the annotations of the handles
  Hash(_),    \* H over the bytes of an encoded node
  MaxDepth,   \* bound: how many handles an operation holds open at once
  MaxEdits,   \* bound: how often the program replaces what a handle holds
  MaxFaults   \* bound: how many get or put calls of a backend fail

-----------------------------------------------------------------------------
(***************************************************************************)
(* Handles and their encoding.                                             *)
(***************************************************************************)
None == [tag |-> "None"]
LeafHandle(l) == [tag |-> "Leaf", leaf |-> l]
NodeHandle(i, a, d) == [tag |-> "Node", id |-> i, ann |-> a, hash |-> d]
Persisted(st, d, a) ==
  [tag |-> "Persisted", store |-> st, hash |-> d, ann |-> a]

Handle ==
  {None}
    \cup [tag : {"Leaf"}, leaf : Leaf]
    \cup [tag : {"Node"}, id : Id, ann : Ann, hash : Digest \cup {NoHash}]
    \cup [tag : {"Persisted"}, store : Store, hash : Digest, ann : Ann]

\* What the bytes of one handle tell apart: tag 0, tag 1 and the leaf, tag 2
\* with the digest and the annotation of the sub-node.
Hashed(d, a) == [tag |-> "Hashed", hash |-> d, ann |-> a]

Entry ==
  {None}
    \cup [tag : {"Leaf"}, leaf : Leaf]
    \cup [tag : {"Hashed"}, hash : Digest, ann : Ann]

Content == [Slot -> Handle]   \* a node in memory
Blob    == [Slot -> Entry]    \* an encoded node, a value of a Backend

EmptyNode == [s \in Slot |-> None]

HasNode(h) == h.tag = "Node"
InStore(h) == h.tag = "Persisted"

\* The handle can be encoded without visiting the node behind it.
IsHashed(h) == HasNode(h) => h.hash # NoHash

\* Mutant: a dry run that leaves the annotation out.
EncodeHandleDry(h) ==
  IF HasNode(h) THEN Hashed(h.hash, NoAnn)
  ELSE IF InStore(h) THEN Hashed(h.hash, h.ann) ELSE h

EncodeHandle(h) ==
  IF HasNode(h) \/ InStore(h) THEN Hashed(h.hash, h.ann) ELSE h

Encode(c) == [s \in Slot |-> EncodeHandle(c[s])]

DecodeEntry(st, e) ==
  IF e.tag = "Hashed" THEN Persisted(st, e.hash, e.ann) ELSE e

Decode(st, b) == [s \in Slot |-> DecodeEntry(st, b[s])]

\* The annotation of one handle or of one entry, and of a whole node.
AnnOf(h) ==
  CASE h.tag = "None" -> NoAnn
    [] h.tag = "Leaf" -> LeafAnn(h.leaf)
    [] OTHER -> h.ann

NodeAnn(c) ==
  IF \A s \in Slot : AnnOf(c[s]) = NoAnn
  THEN NoAnn
  ELSE Combine([s \in Slot |-> AnnOf(c[s])])

ASSUME ConstantsOK ==
  /\ ThreadOf \in [Tree -> Thread]
  /\ Tree \cap Id = {}
  /\ NoHash \notin Digest
  /\ NoAnn \notin Ann
  /\ {MaxDepth, MaxEdits, MaxFaults} \subseteq Nat

-----------------------------------------------------------------------------
VARIABLES
  heap,    \* the nodes in memory: the roots by tree, the rest by Rc address
  store,   \* per store, the Backend: encoded nodes by digest
  snaps,   \* the <<store, digest>> of every Snapshot persist() returned
  op,      \* the call a tree is in the middle of
  cur,     \* the node that call has reached
  open,    \* the handles it borrowed on the way, as <<node, slot>>
  dest,    \* the store a persist call writes to
  digest,  \* history: the root hash last reported and not yet outdated
  edits, faults   \* history: counters for the bounds

vars == <<heap, store, snaps, op, cur, open, dest, digest, edits, faults>>

Holder == Tree \cup Id
Frame  == Holder \X Slot

At(hp, f) == hp[f[1]][f[2]]

-----------------------------------------------------------------------------
(***************************************************************************)
(* Reference counted nodes.                                                *)
(***************************************************************************)

\* The frame holds a reference to the node at address i.
RefersTo(hp, f, i) == HasNode(At(hp, f)) /\ At(hp, f).id = i

\* Rc::strong_count(i) > 1.
Shared(hp, i) ==
  \E f, g \in Frame : f # g /\ RefersTo(hp, f, i) /\ RefersTo(hp, g, i)

\* Addresses a new Rc may get.
Fresh(hp) == {i \in Id : \A f \in Frame : ~RefersTo(hp, f, i)}

\* Dropping an Rc: the node goes with the last reference to it.
Release(hp, i) ==
  [hp EXCEPT ![i] = IF i \in Fresh(hp) THEN EmptyNode ELSE @]

\* Nodes some call has borrowed, on the way to the one it works on.
Borrowed ==
  {n \in Holder : \E r \in Tree : n = cur[r] \/ \E f \in open[r] : n = f[1]}

\* A set of addresses with all that the trees, the borrows and its own members
\* refer to.
Closed(hp, K) ==
  /\ Borrowed \ Tree \subseteq K
  /\ \A f \in Frame :
       f[1] \in Tree \cup K /\ HasNode(At(hp, f)) => At(hp, f).id \in K

\* The addresses still in use: the least closed set.
Live(hp) ==
  LET closed == {K \in SUBSET Id : Closed(hp, K)}
  IN {i \in Id : \A K \in closed : i \in K}

\* Dropping a whole tree: what the others do not share goes with it.
Collect(hp) ==
  LET live == Live(hp)
  IN [n \in Holder |-> IF n \in Tree \cup live THEN hp[n] ELSE EmptyNode]

\* The heap with another handle in a frame.
Replace(hp, f, h) == [hp EXCEPT ![f[1]] = [@ EXCEPT ![f[2]] = h]]

\* Rc::new(c), owned by the handle h(i) put in frame f.
Alloc(hp, f, i, h, c) == Replace([hp EXCEPT ![i] = c], f, h)

\* Mutant: make_mut without its copy-on-write.
MakeMutInPlace(hp, f) == {hp}

\* Rc::make_mut on the node of frame f: the heaps it may leave. A node that
\* others refer to as well is cloned, and the handle then owns the clone.
MakeMut(hp, f) ==
  LET h == At(hp, f)
  IN IF Shared(hp, h.id)
     THEN {Alloc(hp, f, i, NodeHandle(i, h.ann, h.hash), hp[h.id]) :
             i \in Fresh(hp)}
     ELSE {hp}

-----------------------------------------------------------------------------
(***************************************************************************)
(* The Backend of a store.                                                 *)
(***************************************************************************)
Contains(st, d) == d \in DOMAIN store[st]

\* Backend::put under the write lock. A digest that is already there keeps
\* its bytes (DiskBackend) or gets the new ones (MemBackend).
Put(st, d, b) ==
  \E kept \in {b} \cup {store[st][x] : x \in DOMAIN store[st] \cap {d}} :
    store' = [s \in Store |->
               IF s = st
               THEN [x \in DOMAIN store[s] \cup {d} |->
                      IF x = d THEN kept ELSE store[s][x]]
               ELSE store[s]]

-----------------------------------------------------------------------------
(***************************************************************************)
(* Where an operation stands.                                              *)
(***************************************************************************)
Idle(r)     == op[r] = "idle"
Mutating(r) == op[r] = "mutate"
Hashing(r)  == op[r] = "hash"
Persisting(r) == op[r] = "persist"

\* root_hash and persist return before their thread does anything else; a
\* HandleMut may stay open while the thread works on other trees.
Scheduled(r) ==
  \A q \in Tree \ {r} :
    ThreadOf[q] = ThreadOf[r] => ~Hashing(q) /\ ~Persisting(q)

\* The open frames of r through which its current node is borrowed.
CurFrame(r) == {f \in open[r] : RefersTo(heap, f, cur[r])}

AtRoot(r) == cur[r] = r /\ open[r] = {}

Enter(r, f) ==
  /\ open' = [open EXCEPT ![r] = @ \cup {f}]
  /\ cur'  = [cur EXCEPT ![r] = At(heap', f).id]

\* Mutant: the handle is left but stays borrowed.
LeaveOpen(r, f) ==
  /\ UNCHANGED open
  /\ cur' = [cur EXCEPT ![r] = f[1]]

Leave(r, f) ==
  /\ open' = [open EXCEPT ![r] = @ \ {f}]
  /\ cur'  = [cur EXCEPT ![r] = f[1]]

Stay == UNCHANGED <<open, cur>>

-----------------------------------------------------------------------------
Init ==
  /\ heap = [n \in Holder |-> EmptyNode]
  /\ store = [st \in Store |-> [d \in {} |-> EmptyNode]]
  /\ snaps = {}
  /\ op = [r \in Tree |-> "idle"]
  /\ cur = [r \in Tree |-> r]
  /\ open = [r \in Tree |-> {}]
  /\ dest \in [Tree -> Store]
  /\ digest = [r \in Tree |-> NoHash]
  /\ edits = 0
  /\ faults = 0

(***************************************************************************)
(* Mutation: insert, remove, search_mut.                                   *)
(***************************************************************************)

\* A call that takes &mut self of the root node.
BeginMutate(r) ==
  /\ Idle(r)
  /\ op' = [op EXCEPT ![r] = "mutate"]
  /\ digest' = [digest EXCEPT ![r] = NoHash]
  /\ UNCHANGED <<heap, store, snaps, cur, open, dest, edits, faults>>

\* inner_mut() of a handle whose node is in memory, then deref_mut().
InnerMutNode(r, s) ==
  /\ Mutating(r)
  /\ HasNode(heap[cur[r]][s])
  /\ heap' \in MakeMut(heap, <<cur[r], s>>)
  /\ Enter(r, <<cur[r], s>>)
  /\ UNCHANGED <<store, snaps, op, dest, digest, edits, faults>>

\* inner_mut() of a persisted handle: the node is read back from the store.
InnerMutRestore(r, s) ==
  LET h == heap[cur[r]][s]
  IN /\ Mutating(r)
     /\ InStore(h)
     /\ Contains(h.store, h.hash)
     /\ \E i \in Fresh(heap) :
          heap' = Alloc(heap, <<cur[r], s>>, i, NodeHandle(i, h.ann, NoHash),
                        Decode(h.store, store[h.store][h.hash]))
     /\ Enter(r, <<cur[r], s>>)
     /\ UNCHANGED <<store, snaps, op, dest, digest, edits, faults>>

\* The same when get fails: mem::replace left None in the handle, and ?
\* returns through every frame.
InnerMutFails(r, s) ==
  LET h == heap[cur[r]][s]
  IN /\ Mutating(r)
     /\ InStore(h)
     /\ \/ ~Contains(h.store, h.hash) /\ UNCHANGED faults
        \/ faults < MaxFaults /\ faults' = faults + 1
     /\ heap' = Replace(heap, <<cur[r], s>>, None)
     /\ op' = [op EXCEPT ![r] = "abort"]
     /\ Stay
     /\ UNCHANGED <<store, snaps, dest, digest, edits>>

\* What the structures do to the slots of the node they hold open.
Edit(r) ==
  /\ Mutating(r)
  /\ edits < MaxEdits
  /\ edits' = edits + 1
  /\ UNCHANGED <<store, snaps, op, dest, digest, faults>>

\* A new leaf in an empty slot, or in place of another leaf.
PutLeaf(r, s, l) ==
  /\ Edit(r)
  /\ ~HasNode(heap[cur[r]][s]) /\ ~InStore(heap[cur[r]][s])
  /\ heap' = Replace(heap, <<cur[r], s>>, LeafHandle(l))
  /\ Stay

\* A leaf is taken out; only the root node may become empty by that.
RemoveLeaf(r, s) ==
  /\ Edit(r)
  /\ heap[cur[r]][s].tag = "Leaf"
  /\ cur[r] = r \/ \E t \in Slot \ {s} : heap[cur[r]][t] # None
  /\ heap' = Replace(heap, <<cur[r], s>>, None)
  /\ Stay

\* A leaf makes room for a new node that holds it and another leaf.
Split(r, s, t, u, l) ==
  LET old == heap[cur[r]][s]
      c   == [EmptyNode EXCEPT ![t] = old, ![u] = LeafHandle(l)]
  IN /\ Edit(r)
     /\ old.tag = "Leaf"
     /\ t # u
     /\ Cardinality(open[r]) < MaxDepth
     /\ \E i \in Fresh(heap) :
          heap' = Alloc(heap, <<cur[r], s>>, i,
                        NodeHandle(i, NodeAnn(c), NoHash), c)
     /\ Stay

\* The current node is down to one leaf, which replaces it in its parent.
Collapse(r, s) ==
  /\ Mutating(r)
  /\ heap[cur[r]][s].tag = "Leaf"
  /\ \A t \in Slot \ {s} : heap[cur[r]][t] = None
  /\ \E f \in CurFrame(r) :
       /\ heap' = Release(Replace(heap, f, heap[cur[r]][s]), cur[r])
       /\ Leave(r, f)
  /\ UNCHANGED <<store, snaps, op, dest, digest, edits, faults>>

\* Mutants of HandleMut::drop: the cached hash, or the annotation, is kept.
DropKeepsHash(r) ==
  /\ Mutating(r) \/ op[r] = "abort"
  /\ \E f \in CurFrame(r) :
       LET h == At(heap, f)
           a == NodeAnn(heap[cur[r]])
       IN /\ heap' = Replace(heap, f,
                       NodeHandle(h.id, IF a = NoAnn THEN h.ann ELSE a, h.hash))
          /\ Leave(r, f)
  /\ UNCHANGED <<store, snaps, op, dest, digest, edits, faults>>

DropKeepsAnn(r) ==
  /\ Mutating(r) \/ op[r] = "abort"
  /\ \E f \in CurFrame(r) :
       LET h == At(heap, f)
       IN heap' = Replace(heap, f, NodeHandle(h.id, h.ann, NoHash)) /\ Leave(r, f)
  /\ UNCHANGED <<store, snaps, op, dest, digest, edits, faults>>

\* HandleMut::drop, on success and on the way out of a failed call.
DropHandleMut(r) ==
  /\ Mutating(r) \/ op[r] = "abort"
  /\ \E f \in CurFrame(r) :
       LET h == At(heap, f)
           a == NodeAnn(heap[cur[r]])
       IN /\ heap' = Replace(heap, f,
                       NodeHandle(h.id, IF a = NoAnn THEN h.ann ELSE a, NoHash))
          /\ Leave(r, f)
  /\ UNCHANGED <<store, snaps, op, dest, digest, edits, faults>>

EndMutate(r) ==
  /\ Mutating(r) \/ op[r] = "abort"
  /\ AtRoot(r)
  /\ op' = [op EXCEPT ![r] = "idle"]
  /\ UNCHANGED <<heap, store, snaps, cur, open, dest, digest, edits, faults>>

(***************************************************************************)
(* Compound::root_hash: Content::persist into a dry Sink.                  *)
(***************************************************************************)
BeginHash(r) ==
  /\ Idle(r)
  /\ op' = [op EXCEPT ![r] = "hash"]
  /\ UNCHANGED <<heap, store, snaps, cur, open, dest, digest, edits, faults>>

\* A node handle without a cached hash: hash the node in a sub-sink.
HashDown(r, s) ==
  /\ Hashing(r)
  /\ ~IsHashed(heap[cur[r]][s])
  /\ heap' \in MakeMut(heap, <<cur[r], s>>)
  /\ Enter(r, <<cur[r], s>>)
  /\ UNCHANGED <<store, snaps, op, dest, digest, edits, faults>>

\* Mutant: the node is hashed before the nodes below it.
HashUpEarly(r) ==
  /\ Hashing(r)
  /\ \E f \in CurFrame(r) :
       LET h == At(heap, f)
       IN /\ heap' = Replace(heap, f,
                       NodeHandle(h.id, h.ann, Hash(Encode(heap[cur[r]]))))
          /\ Leave(r, f)
  /\ UNCHANGED <<store, snaps, op, dest, digest, edits, faults>>

\* The node's bytes are complete: update the hash cache of its handle.
HashUp(r) ==
  /\ Hashing(r)
  /\ \A s \in Slot : IsHashed(heap[cur[r]][s])
  /\ \E f \in CurFrame(r) :
       LET h == At(heap, f)
       IN /\ heap' = Replace(heap, f,
                       NodeHandle(h.id, h.ann, Hash(Encode(heap[cur[r]]))))
          /\ Leave(r, f)
  /\ UNCHANGED <<store, snaps, op, dest, digest, edits, faults>>

HashDone(r) ==
  /\ Hashing(r)
  /\ AtRoot(r)
  /\ \A s \in Slot : IsHashed(heap[r][s])
  /\ op' = [op EXCEPT ![r] = "idle"]
  /\ digest' = [digest EXCEPT ![r] = Hash(Encode(heap[r]))]
  /\ UNCHANGED <<heap, store, snaps, cur, open, dest, edits, faults>>

(***************************************************************************)
(* Store::persist: Content::persist into a writing Sink.                   *)
(***************************************************************************)
BeginPersist(r, st) ==
  /\ Idle(r)
  /\ op' = [op EXCEPT ![r] = "persist"]
  /\ dest' = [dest EXCEPT ![r] = st]
  /\ UNCHANGED <<heap, store, snaps, cur, open, digest, edits, faults>>

\* A node handle, cached hash or not: write the node in a sub-sink.
PersistDown(r, s) ==
  /\ Persisting(r)
  /\ HasNode(heap[cur[r]][s])
  /\ heap' \in MakeMut(heap, <<cur[r], s>>)
  /\ Enter(r, <<cur[r], s>>)
  /\ UNCHANGED <<store, snaps, op, dest, digest, edits, faults>>

Written(r) == Persisting(r) /\ \A s \in Slot : ~HasNode(heap[cur[r]][s])

\* Mutant: the handle is not turned into a reference into the store.
PersistUpInMemory(r) ==
  /\ Written(r)
  /\ \E f \in CurFrame(r) :
       LET h == At(heap, f)
           b == Encode(heap[cur[r]])
           d == IF h.hash # NoHash THEN h.hash ELSE Hash(b)
       IN /\ Put(dest[r], d, b)
          /\ heap' = Replace(heap, f, NodeHandle(h.id, h.ann, d))
          /\ Leave(r, f)
  /\ UNCHANGED <<snaps, op, dest, digest, edits, faults>>

\* Sink::fin puts the node, under its cached hash when there is one; the
\* handle becomes a reference into the store.
PersistUp(r) ==
  /\ Written(r)
  /\ \E f \in CurFrame(r) :
       LET h == At(heap, f)
           b == Encode(heap[cur[r]])
           d == IF h.hash # NoHash THEN h.hash ELSE Hash(b)
       IN /\ Put(dest[r], d, b)
          /\ heap' = Release(Replace(heap, f, Persisted(dest[r], d, h.ann)),
                             cur[r])
          /\ Leave(r, f)
  /\ UNCHANGED <<snaps, op, dest, digest, edits, faults>>

\* The root node has no handle: its own sink is put last, and the Snapshot
\* returned.
PersistDone(r) ==
  LET b == Encode(heap[r])
  IN /\ Written(r)
     /\ AtRoot(r)
     /\ Put(dest[r], Hash(b), b)
     /\ snaps' = snaps \cup {<<dest[r], Hash(b)>>}
     /\ digest' = [digest EXCEPT ![r] = Hash(b)]
     /\ op' = [op EXCEPT ![r] = "idle"]
     /\ UNCHANGED <<heap, cur, open, dest, edits, faults>>

\* Mutant: the handle is replaced before the put that fails.
PutFailsLate(r) ==
  /\ Written(r)
  /\ faults < MaxFaults
  /\ faults' = faults + 1
  /\ \E f \in CurFrame(r) :
       heap' = Release(Replace(heap, f, Persisted(dest[r], Hash(Encode(heap[cur[r]])),
                                                  At(heap, f).ann)), cur[r])
  /\ op' = [op EXCEPT ![r] = "idle"]
  /\ cur' = [cur EXCEPT ![r] = r]
  /\ open' = [open EXCEPT ![r] = {}]
  /\ UNCHANGED <<store, snaps, dest, digest, edits>>

\* A put fails: ? returns from every level, and what was already turned into
\* persisted handles stays so.
PutFails(r) ==
  /\ Written(r)
  /\ faults < MaxFaults
  /\ faults' = faults + 1
  /\ op' = [op EXCEPT ![r] = "idle"]
  /\ cur' = [cur EXCEPT ![r] = r]
  /\ open' = [open EXCEPT ![r] = {}]
  /\ UNCHANGED <<heap, store, snaps, dest, digest, edits>>

(***************************************************************************)
(* Whole trees.                                                            *)
(***************************************************************************)

\* Store::restore of a Snapshot into a variable.
Restore(r, st, d) ==
  /\ Idle(r)
  /\ <<st, d>> \in snaps
  /\ Contains(st, d)
  /\ heap' = Collect([heap EXCEPT ![r] = Decode(st, store[st][d])])
  /\ digest' = [digest EXCEPT ![r] = d]
  /\ UNCHANGED <<store, snaps, op, cur, open, dest, edits, faults>>

\* q = r.clone(): handles are copied, the nodes behind them shared.
Clone(r, q) ==
  /\ q # r
  /\ ThreadOf[q] = ThreadOf[r]
  /\ Idle(r)
  /\ Idle(q)
  /\ heap' = Collect([heap EXCEPT ![q] = heap[r]])
  /\ digest' = [digest EXCEPT ![q] = digest[r]]
  /\ UNCHANGED <<store, snaps, op, cur, open, dest, edits, faults>>

-----------------------------------------------------------------------------
Mutate(r) ==
  \/ BeginMutate(r)
  \/ \E s \in Slot : InnerMutNode(r, s)
  \/ \E s \in Slot : InnerMutRestore(r, s)
  \/ \E s \in Slot : InnerMutFails(r, s)
  \/ \E s \in Slot, l \in Leaf : PutLeaf(r, s, l)
  \/ \E s \in Slot : RemoveLeaf(r, s)
  \/ \E s, t, u \in Slot, l \in Leaf : Split(r, s, t, u, l)
  \/ \E s \in Slot : Collapse(r, s)
  \/ DropHandleMut(r)
  \/ EndMutate(r)

HashStep(r) ==
  \/ \E s \in Slot : HashDown(r, s)
  \/ HashUp(r)
  \/ HashDone(r)

PersistStep(r) ==
  \/ \E s \in Slot : PersistDown(r, s)
  \/ PersistUp(r)
  \/ PersistDone(r)
  \/ PutFails(r)

Whole(r) ==
  \/ BeginHash(r)
  \/ \E st \in Store : BeginPersist(r, st)
  \/ \E snap \in snaps : Restore(r, snap[1], snap[2])
  \/ \E q \in Tree : Clone(r, q)

Next ==
  \E r \in Tree :
    /\ Scheduled(r)
    /\ Mutate(r) \/ HashStep(r) \/ PersistStep(r) \/ Whole(r)

Spec == Init /\ [][Next]_vars

\* root_hash and persist are loops of their own: once called they run on to
\* their return. Mutating calls wait for the program that holds the HandleMut.
Fairness ==
  \A r \in Tree : WF_vars(Scheduled(r) /\ (HashStep(r) \/ PersistStep(r)))

FairSpec == Spec /\ Fairness

-----------------------------------------------------------------------------
(***************************************************************************)
(* Correctness.                                                            *)
(***************************************************************************)

\* A content map: digests to encoded nodes.
IsContentMap(m) == DOMAIN m \subseteq Digest /\ \A d \in DOMAIN m : m[d] \in Blob

\* The values each variable ranges over.
TypeOK ==
  /\ heap \in [Holder -> Content]
  /\ DOMAIN store = Store /\ \A st \in Store : IsContentMap(store[st])
  /\ snaps \subseteq Store \X Digest
  /\ op \in [Tree -> {"idle", "mutate", "abort", "hash", "persist"}]
  /\ cur \in [Tree -> Holder]
  /\ open \in [Tree -> SUBSET Frame]
  /\ dest \in [Tree -> Store]
  /\ digest \in [Tree -> Digest \cup {NoHash}]
  /\ edits \in 0 .. MaxEdits
  /\ faults \in 0 .. MaxFaults

\* The handles an operation has open are one path from the root of its tree
\* to its current node, and no two operations have one in common: each frame is
\* reached through a frame of the same operation, none branches off or goes on
\* below the current node.
Path ==
  \A r \in Tree :
    /\ Idle(r) => AtRoot(r)
    /\ cur[r] = r \/ CurFrame(r) # {}
    /\ \A f \in open[r] :
         /\ f[1] = r \/ \E g \in open[r] : RefersTo(heap, g, f[1])
         /\ f[1] # cur[r]
         /\ \A g \in open[r] : g[1] = f[1] => g = f
         /\ \A q \in Tree \ {r} : f \notin open[q]

\* A node that is held open is referred to by the handle it was opened
\* through and by nothing else: what make_mut promises to every caller that
\* then writes through the &mut it gets, and why clones stay what they were.
BorrowedAlone ==
  \A r \in Tree : \A f \in open[r] :
    /\ HasNode(At(heap, f))
    /\ ~Shared(heap, At(heap, f).id)

\* The handle is open under a HandleMut whose drop is still to come.
HeldMut(f) == \E r \in Tree : (Mutating(r) \/ op[r] = "abort") /\ f \in open[r]

\* A digest tells what the node would be written as.
Describes(d, c) == (\A s \in Slot : IsHashed(c[s])) /\ d = Hash(Encode(c))

\* The debug_asserts of Handle::persist, for the build that leaves them out:
\* a hash cached in a handle is the hash of the node behind it, and the nodes
\* below it have theirs cached too. Every mutation below, through whichever of
\* several handles to a shared node, must have cleared the caches above.
CacheCoherent ==
  \A f \in Frame :
    LET h == At(heap, f)
    IN HasNode(h) /\ h.hash # NoHash /\ ~HeldMut(f) => Describes(h.hash, heap[h.id])

\* The root hash a tree reported still is its root hash: hashing, persisting,
\* a failing persist, restoring and cloning, of this tree or of one it shares
\* nodes with, leave it alone.
RootHashCoherent ==
  \A r \in Tree : digest[r] # NoHash => Describes(digest[r], heap[r])

\* The annotation in a handle is the one of the node behind it, once the
\* handle is not held for mutation; an empty node has none to compare with.
AnnFresh ==
  \A f \in Frame :
    LET h == At(heap, f)
    IN HasNode(h) /\ ~HeldMut(f) => NodeAnn(heap[h.id]) \in {NoAnn, h.ann}

\* What a reference into a store says of the node it refers to.
AnnOfRef(st, h) == NodeAnn(store[st][h.hash]) \in {NoAnn, h.ann}

\* Annotations kept in a handle or in the bytes of its parent agree with the
\* node they refer to in the store, so queries by annotation need not load it.
StoredAnnFresh ==
  /\ \A f \in Frame :
       LET h == At(heap, f)
       IN InStore(h) /\ Contains(h.store, h.hash) => AnnOfRef(h.store, h)
  /\ \A st \in Store : \A d \in DOMAIN store[st] : \A s \in Slot :
       LET e == store[st][d][s]
       IN e.tag = "Hashed" /\ Contains(st, e.hash) => AnnOfRef(st, e)

\* Content-addressing: what is kept under a digest has that digest, although
\* a cached hash is put without hashing the bytes again.
StoreSound ==
  \A st \in Store : \A d \in DOMAIN store[st] : Hash(store[st][d]) = d

\* "Persists Content to the store, returning a Snapshot" (store.rs:112): all
\* that is reachable from a snapshot is in its store, whatever failed on the
\* way and whatever the tree held when it was persisted.
SnapshotsComplete ==
  /\ \A snap \in snaps : Contains(snap[1], snap[2])
  /\ \A st \in Store : \A d \in DOMAIN store[st] : \A s \in Slot :
       store[st][d][s].tag = "Hashed" => Contains(st, store[st][d][s].hash)

\* No reference dangles: neither those between nodes of a store nor those that
\* trees in memory hold, also between the puts of a persist and after one failed.
NoDangling ==
  /\ SnapshotsComplete
  /\ \A f \in Frame :
       InStore(At(heap, f)) => Contains(At(heap, f).store, At(heap, f).hash)

\* "Empty node handles are invalid" (handle.rs:396): behind a node handle that
\* is not held for mutation there is a node with an annotation.
NodesNotEmpty ==
  \A f \in Frame :
    LET h == At(heap, f)
    IN HasNode(h) /\ ~HeldMut(f) => NodeAnn(heap[h.id]) # NoAnn

\* A step only ever adds to a store, and never changes what a digest stands
\* for.
StoreGrows ==
  [][\A st \in Store : \A d \in DOMAIN store[st] :
       d \in DOMAIN store'[st] /\ store'[st][d] = store[st][d]]_vars

\* A call reports the root hash that was reported before it: root_hash twice
\* gives one digest, and persist, which turns the handles into references as it
\* goes and may have failed before, returns the snapshot of that digest.
RootHashStable ==
  [][\A r \in Tree :
       ~Idle(r) /\ digest[r] # NoHash /\ digest'[r] # NoHash
         => digest'[r] = digest[r]]_vars

\* root_hash and persist return: each handle they turn into a cached or a
\* persisted one is not visited again, also when the persist before failed
\* half way.
CallsReturn ==
  \A r \in Tree : Hashing(r) \/ Persisting(r) ~> Idle(r)

=============================================================================
