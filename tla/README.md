# Verification of kelvin

TLA+ models of [kelvin](../src/README.md), a Rust library of Merkle trees that
are kept in a content-addressed store and loaded from it on demand. Paths below
are relative to `src/`; a module names the code it models, and `PROJECT.json`
has the lines of every definition.

## 1. The system

| Component | State | Operations | What makes it correct |
|---|---|---|---|
| **Handles and trees**: `src/handle.rs`, `src/compound.rs` | per node: a slice of handles, each `None`, a leaf, a node in memory (`Rc`, annotation, cached hash) or a persisted snapshot | `inner_mut`, `deref_mut` (copy on write), `replace`, drop of a `HandleMut`, `persist` (write and dry run), `restore`, `clone`, `root_hash` | caches agree with what they cache; clones do not see each other's mutations; a digest determines the tree |
| **Store, Sink, Source, Snapshot**: `src/store.rs`, `sink.rs`, `source.rs` | generations of backends, each behind an `RwLock` | `persist`, `restore`, `put`, `get_hash`, `flush` | content-addressed, append-only, closed under its references |
| **Disk backend**: `src/backend/disk.rs` | index (digest to offset), data file, its length | `new`, `get`, `put`, `flush` | index and file agree, over failures and restarts |
| **Memory and browser backends**: `src/backend/mem.rs`, `localstorage.rs` | a map | `get`, `put` | a map |
| **Root**: `src/root.rs` | a file with one digest | `restore`, `set_root` | the file always names a tree that can be read |
| **Annotations**: `src/annotations/` | one value per handle | `combine`, `from(leaf)`; `Nth`, `MaxKey` search by them | equal to the combination over the node |
| **HAMT**: `structures/hamt` | nodes of 16 or 4 handles | `get`, `insert`, `remove` | a map; a node with one leaf collapses |
| **2-3 tree**: `structures/two3` | nodes of bounded size, sorted | `get`, `insert`, `remove` | a sorted map; sizes in bounds, leaves at one depth |
| **Radix tree**: `structures/radix` | 17 handles, 16 nibble prefixes | `get`, `insert`, `remove` | a map over byte strings |
| **Branches, search, iteration**: `src/raw_branch.rs`, `branch.rs`, `iter.rs`, `search.rs`, `map.rs` | a stack of levels: node and offset | `search`, `advance`, `leaf_mut`, relink on drop | visits every leaf once, in order; leaves the tree whole |
| **Erased**: `src/erased.rs` | a digest and a store | `query`, `transaction`, `commit` | a query sees the last commit |
| **Proof**: `src/proof.rs` | a branch of cloned levels | `prove_member` | accepts only members |
| **Content**: `src/content.rs`, `src/lib.rs` | none | `persist`, `restore` per type | restore inverts persist |

How they interact: a structure (HAMT, 2-3, radix) is a `Compound` and works on
its handles only. `Store::persist` walks a tree through `Content::persist` of
node and handle, a `Sink` per node; `Sink::fin` hashes and puts, so puts go
bottom up. `Handle::inner` and `inner_mut` of a persisted handle call back into
the store the handle names. Clones of one tree share nodes through `Rc` (one
thread, as `Rc` is not `Send`), trees of several threads share a store through
`Arc`. `Root` is a store and one more file.

What is hard: a mutation holds a chain of nodes open while clones of them are in
use; caches above an edit must be cleared on every way out; a read or a put can
fail in the middle of any operation; several threads persist overlapping trees;
the process can stop between any two writes. The list of hazards, each at its
line, is in `PROJECT.json`.

## 2. Modules

| Module | What it is |
|---|---|
| `HandleStore` | handles, trees and the store, one action per step of an operation |
| `VersionedTrees` | what `HandleStore` promises: variables that hold values |
| `HandleValues` | `HandleStore` implements `VersionedTrees` |
| `HandleStoreProofs` | theorem: types |
| `HandleStoreBorrow` | theorems: open handles form a path, and own their nodes |
| `HandleStoreCaches` | theorems: caches, annotations and reported digests agree with the nodes; what a store has under a digest hashes to it |
| `HandleStoreStores` | theorems: stores only grow, the annotations in them are fresh, and one store is closed under its references |
| `HandleValuesProofs` | theorem: `HandleStore` implements `VersionedTrees` |
| `NibblesProofs` | theorems: what the operations on nibble buffers do to the nibbles |
| `DiskStore` | the disk backend under `Store` and `Root`, with stops and failing calls |
| `ContentStore` | what `DiskStore` promises: a set of nodes closed downwards, and a root in it |
| `DiskStoreProofs` | theorems: what the index, the root file and the callers name can be read; `DiskStore` implements `ContentStore` |
| `Compounds` | trees as values: nodes, handles, annotations, what persisting changes |
| `Branches` | search, iteration, writes through branches, proofs, over any structure |
| `AnyTree` | `Branches` over the trees of any structure, whose calls may leave any node |
| `BranchesProofs` | theorems about `AnyTree`: iteration visits every leaf, keys stay in their places, which proofs are accepted, annotations stay fresh |
| `Hamt`, `Two3`, `Radix` | the three structures, each with `Branches` |
| `Nibbles` | the nibble buffers of the radix tree, with their bytes and offsets |
| `KVMap` | what each structure promises: a map |
| `MCHandleStore`, `MCDiskStore`, `MCAnyTree`, `MCHamt`, `MCTwo3`, `MCRadix` | constants for TLC |

There are two layers. `HandleStore` is below: it has sharing, caches and loading
on demand, and `ImplementsValues` shows that a tree built of handles behaves as a
value. `Compounds` is that value, and the structures are written over it:
`Hamt`, `Two3` and `Radix` instantiate `Branches`, which extends `Compounds`,
with their annotation, their `Method::select` and their encoding, and add their
`insert` and `remove`. Each implements `KVMap`. `AnyTree` has in the place of a structure
a set of nodes, any of which a call may leave.

### HandleStore

`heap` maps each holder to a node, i.e. to its handles by slot. Holders are the
variables of the program (`Tree`: the root nodes, which have no handle) and `Rc`
addresses (`Id`). Reference counts are not a variable: a count is the number of
handles with that address (`Shared`), as in Rust, where it is the number of
`Rc`s. `store` maps digests to encoded nodes. For each tree `op`, `cur` and
`open` say in which call it is, at which node, and which handles are borrowed on
the way: together they are the call stack.

- A mutating call (`insert`, `remove`, `leaf_mut`) is `BeginMutate`, then down
  through `InnerMutNode` or `InnerMutRestore`, an edit (`PutLeaf`, `RemoveLeaf`,
  `Split`, `Collapse`: what the HAMT does with its handles), and up through
  `DropHandleMut`, which drops the cached hash and refreshes the annotation.
  Where to go down and what to edit is left open, so every structure's
  order is included. `InnerMutFails` is a read that fails: the handle is left
  `None`, `?` returns through every level (`op = "abort"`), and the drops still
  run. A step that fails later (the reads in `remove_singleton` after the leaf is
  gone) is a call that ends without `Collapse`.
- `root_hash` is `BeginHash`, `HashDown` into nodes without cached hash, `HashUp`
  and `HashDone`.
- `Store::persist` is `BeginPersist`, `PersistDown`, `PersistUp` (put, then the
  handle becomes persisted and the `Rc` is released) and `PersistDone`. A failing
  put ends the call and leaves what was already turned.
- `Restore` and `Clone` replace a whole variable; what nothing refers to any more
  is freed (`Collect`). A restore that fails changes nothing and has no action.

The steps of different trees interleave. Within one thread `root_hash` and
`persist` run to their end (`Scheduled`), while a `HandleMut` may stay open; the
granularity is a step at a node, which is where the store's lock is taken.

Abstracted: the contents of a node are its handles (a structure's own fields,
such as the mask of the HAMT or prefixes of the radix tree, are functions of
keys that the model does not have); the order in which `persist` visits slots is
any order; the bytes of a node are an injective encoding; the two debug
assertions on cached hashes are left out as steps and appear as the invariant
`CacheCoherent`.

### DiskStore

`index`, `data` (byte by byte, so a read at a wrong offset finds what is really
there), `offset` and the root file, and per caller what it has still to put.
`put` is `IndexInsert` and `DataWrite`, two steps under the lock; in between the
write can fail or the process stop after any prefix of the bytes. Callers
persist one node after another below to above, each with the other's puts in
between. `Fail` is an error of the index, of `flush` or of the atomic write of the
root file: the call returns, and the caller may persist the same tree again
(`Retry`), build on it (`Begin`) or drop it. `Restart` may happen at any step.
How the tree is built is in `HandleStore`; here a tree is the set of
nodes below its root, of which some are persisted already (`Kept`).

One caller, `Owner`, is `Root::set_root`: it goes on to flush and to write the
root file. The others own an `Erased` value, and their calls are `Erased::wrap`
and `Transaction::commit` (`Commit`): the digest is replaced after `persist` has
succeeded. A query only reads, so that what `held` names is readable
(`HeldReadable`) is all it needs.

Written bytes survive the process. Power loss, where they need not, is not
modelled: `File::flush` does nothing and `store.rs:127` says "TODO, sync to disk",
so the code promises nothing there.

### Compounds and Branches

A node is a record with its sequence of handles `kids`; a handle is `None`, a leaf,
or a node with the annotation cached for it and the flag `stored`. The flag is
all that remains of the store: reading through a stored handle may fail, and
persisting (`Stored`) sets it on every handle below the root and passes each
node through the structure's encoding (`Recode`). `Dropped` is the drop of a
`HandleMut`: the annotation is combined anew, except over an empty node, where
it stays (`handle.rs:101-109`).

A call of a structure is one step: it borrows the tree until it returns, and
what its steps on handles do to sharing and caches is in `HandleStore`. It is a
recursive operator of the structure's module that follows the source, path by path, and has as parameter `bad`
the one persisted subtree that cannot be read (`NoNode`: all can). The call ends at
that read and leaves what the code leaves: the handle `None` for `inner_mut`,
the nodes taken out of their slots where they are out.

A branch stays open over several steps. `levels` is the vector of `RawBranch`:
node, offset, and whether the level owns its node (was cloned when it was written
to) or borrows it. `Search` is `RawBranch::search` with any method: its loop, each `Round` of which
ends it or goes up (`PopLevel`, which relinks an owned node into the level above) or
down. A search goes into a node at most once, so that the rounds it is given are enough;
`Open`, `Step`, `Touch`, `TakeProof` and `DropBranch` are what callers do with a
branch. `tree` is at each moment what dropping the branch would leave, which
its `Drop` computes (`Relinked`). A read-only branch is a mutable one that nothing is written through.
`reply` holds what a call returned until the caller goes on (`Return`); `walk` is
history: which leaves a search has visited. A panic ends the program.

### The structures

- `Hamt` has both node types, `HAMT` with 16 handles and `NarrowHAMT` with 4, by the
  width of the first node, and the slot each takes from a digest at each depth, which
  is not the obvious one (`lib.rs:328-352`). Digests are given (`Hash`).
- `Two3` has the split of a full node and the four merges of a node that became
  too small, with `MaxKey` beside `Cardinality` as annotation.
- `Radix` has 17 handles and 16 prefixes in a node; `Nibbles` keeps a prefix as
  the code does, bytes with two offsets, because cutting, joining and saving it
  are arithmetic on those. Leaves of the code are values only; here they carry
  the key they were inserted under, which no guard looks at, so that the
  properties can compare it with the way to the leaf.

## 3. Runs

Bounds are the constants named in the `.cfg` files. Every run of `HandleStore`
starts from `DeepInit`: a tree with `MaxDepth` levels below its root, built by three
inserts of which two split a leaf (two and one at depth 1). The other variables
of its thread are clones of it, so that sharing and depth do not use up the edits. `Hash` is the encoded node itself (no collisions), the annotation is
`Cardinality`.

| Run | Checks | Bounds |
|---|---|---|
| `share` | `TypeOK`, `Path`, `BorrowedAlone`, `CacheCoherent`, `RootHashCoherent`, `AnnFresh`, `RootHashStable` | two clones in one thread, two slots, three levels, four addresses, one edit |
| `faults` | `StoredAnnFresh`, `StoreSound`, `NoDangling`, `StoreGrows` | two threads, one store, one failing get or put |
| `values` | `ImplementsValues`, `CallsReturn` | two clones, two levels, one leaf value, one edit and one fault |
| `two_stores` | `SnapshotsComplete`, violated | one tree, two stores |
| `lost_subtree` | `NodesNotEmpty`, violated | one tree, one edit, one failing get |
| `disk` | `TypeOK`, `IndexSound`, `RootRestorable`, `HeldReadable`, `ImplementsContentStore` | two callers, three nodes of three lengths, one torn put; restarts, failures and retries unbounded |
| `disk_torn` | `NoForeignBytes`, violated | as `disk` |
| `any_tree` | `WalkOn`, `ProofSound`, `AnnotationsFresh`, `KeysStay`, `ProofsHold` | trees of three levels with two slots, three leaves, one failing read; searches for two keys, `First` and `Nth(1)` |
| `hamt` | `TypeOK`, `WalkInOrder`, `AnnotationsFresh`, `ProofComplete`, `Canonical`, `ImplementsMap` | both widths, three keys, two values, one failing read; any searches |
| `two3` | `TypeOK`, `WalkInOrder`, `Balanced`, `NeverPanics`, `ImplementsMap` | eight keys, one value, one failing read; searches for three of the keys, `First` and `Nth(3)`, until a read fails |
| `radix` | `TypeOK`, `WalkInOrder`, `KeysSpelled`, `NeverPanics`, `StaleOnlyIfEmpty`, `ImplementsMap` | four keys of four nibbles and the empty key, one value, one failing read; searches for each key and `First`, until a read fails |
| `radix_prefix` | `GetsItsOwn`, violated | two keys, one of which begins the other |

What they show:

- `share`: while one clone has a path of its nodes open, the other may be
  hashed, persisted, mutated, restored or cloned; the borrowed nodes stay
  exclusive, no handle keeps a hash or annotation of what its node was before,
  and a digest reported for a tree stays its digest until the tree is mutated.
  One edit is enough for the stale caches: a cache goes stale by one change below
  it, and the drops above it are the rest of the path. `AnnFresh`
  compares annotations of nodes that have one: for an empty node `combine`
  returns `None` and the handle keeps the old annotation (`handle.rs:101-109`);
  that a node handle may lead to an empty node is the finding of `lost_subtree`.
- `faults`: two threads that start from different trees, over one store.
  Whatever fails between two puts, a node in a store has all its sub-nodes in it.
- `values`: the refinement. The value of a tree is what one reads down its
  handles, in memory and in the store; each step changes the value of the tree
  whose call it belongs to, and only in a mutating call. Snapshots keep the value that was
  persisted. A failing get may lose part of the tree's own value
  (`Change` allows it), never of another. An edit adds or removes a leaf, so that one leaf
  value tells the trees apart. `CallsReturn` is under weak fairness of the steps of `root_hash` and
  `persist`. Both are loops without waiting once called, and the store's lock is held for
  a put only, which is the justification. Calls that mutate get no fairness: a program may hold
  a `HandleMut` for ever. A node's handles are hashed or turned before the node itself is
  (`HashDown`, `PersistDown`), so two levels have all steps there are: down, up and the end.
- `disk`: without torn writes every index entry, the root file and every tree a
  caller holds can be read in full, at every instant at which the process may
  stop. With torn writes, what could be read stays readable
  (`ContentStore!Tear` lifts the other promises).
- `any_tree`: what branches guarantee by themselves. Calls may leave any of the trees, after
  a failed read also one with a subtree gone; three levels are the fewest in
  which a level is relinked into one that is relinked itself. The annotation has the values
  of the leaves in it, so that it changes with each write, and a leaf that is
  written changes what is owned on the way up. `WalkOn` is iteration whatever the
  annotations say, also after a failed read (`WalkInOrder`, which the structures check, adds where a search
  starts); `KeysStay` is that relinking puts back what was taken out; `ProofSound` and
  `ProofsHold` are the two directions of membership. All five are proved, for any trees.
- `hamt`: the trie is a map. Two of the keys have digests that agree until the
  third byte, so that an insert splits through a chain of nodes, six deep at
  most for the wide and nine for the narrow trie, and removals take it back: as
  long as no read failed the trie is the one that its leaves determine
  (`Canonical`), so its digest does not depend on history. A branch visits every
  leaf once and in order, from wherever a search started, while leaves are
  rewritten and proofs taken on the way. A proof taken through a branch with
  unwritten changes is accepted against a tree if that tree has its leaf; that it is accepted only
  then is `ProofSound`, which `any_tree` checks and `ProofsAreSound` proves of every structure.
- `two3`: eight keys make three levels, the fewest with which a merge can
  go on upwards and each of the four cases occurs in the middle of the tree.
  After a failing read, over any number of calls, the tree is still a map with
  fewer keys, until a call panics: `NeverPanics` and `Balanced` hold only as long
  as no read failed, and the merge that loses its neighbour is in the list of hazards. Values do not steer
  the tree, so one is enough; rewriting them is in `hamt`. Every set of keys
  occurs, so three searched keys are at every place among those present.
- `radix`: keys that share three, two and one nibble make nodes within nodes and
  prefixes that begin and end inside bytes. `KeysSpelled` says that after every
  split, collapse and save the way to a value spells its key. `StaleOnlyIfEmpty`
  is what is true of the annotations: when a collapse leaves a
  value alone in a node and that value is removed, the empty node stays, with
  its old count (`lib.rs:280-291`, "recursion needed?" at 329).

A run of a structure bounds its searches (`Searches`), the reads that fail
(`MaxFaults`) and the values (`Input`), and no number of calls. One
failing read is enough to lose a subtree, and every call after it is checked; a
second loses one more.

Deadlock is checked except in `two3`, where a call may panic once a read has
failed, and in `share`: there four addresses can be in use at once and the next `Rc::new` has none, which is the allocator's abort and no state
the program waits in. `IdSymmetry` and `Symmetry` permute addresses, or the trees of
one thread; the initial states, `i1` and `i2` of which are fixed, are the same up to
renaming of addresses, which no property names. `values`, which has a liveness
property, uses no symmetry.

Findings (details in `PROJECT.json`):

1. `two_stores`: a tree persisted into a second store leaves the nodes below
   its root behind in the first (`handle.rs:155`).
2. `lost_subtree`: a failing read in `inner_mut` removes the subtree from the
   tree in memory (`handle.rs:513`), and can leave a node handle to an empty node.
3. `disk_torn`: a digest whose data were not written leads to the bytes of the
   next node, which are returned for it without a check (`disk.rs:76`,
   `store.rs:151`).
4. `radix_prefix`: `get` of a key that begins another key returns the value of
   the other (`structures/radix/src/lib.rs:97`).

Met while modelling and listed with the hazards: with such keys `insert` and
`remove` of the radix tree panic; its empty nodes left behind; its digests, which depend on the
order of inserts since saved prefixes hold bytes of other keys
(`nibbles.rs:253`), where `content.rs:15` asks for one digest per value.

## 4. Proofs

For any sets of trees, threads, addresses, slots, leaves and stores, and any
bounds:

- `TypeCorrect`: `Spec => []TypeOK`.
- `OnePath`: `Spec => []Path`.
- `BorrowsAreExclusive`: `Spec => []BorrowedAlone`.
- `CachesAreCoherent`, `AnnotationsAreFresh`, `RootHashIsCoherent`, `StoresAreSound`:
  the same of `CacheCoherent`, `AnnFresh`, `RootHashCoherent` and `StoreSound`.
- `RootHashIsStable`: the action property `RootHashStable`.
- `StoresGrow` and `StoredAnnotationsAreFresh`: the action property `StoreGrows` and the
  invariant `StoredAnnFresh`, for digests without collisions.
- `OneStoreIsComplete`: `NoDangling`, if there is one store.
- `HandlesAreValues`: `Spec => ImplementsValues`, the refinement, if there is one store
  and digests do not collide.
- `DiskTypeCorrect`, `IndexIsSound`, `RootIsRestorable`, `HeldIsReadable`: the invariants of
  `disk`. `DiskImplementsContents`: `DiskStore` implements `ContentStore`.
- `WalksGoOn`, `ProofsAreSound`: `Spec => []WalkOn` and `Spec => []ProofSound` of `AnyTree`,
  for any structure. `KeysStayPut`: the action property `KeysStay`, if encoding a node and
  decoding it keeps its handles. `AnnotationsStayFresh` and `ProofsStayAccepted`: `Spec =>
  []AnnotationsFresh` and the action property `ProofsHold`, if the structure's own calls
  leave fresh annotations, too.
- `SaveKeepsNibbles`, `SplitKeepsWays`, `PopKeepsWay`, `PushAppends`, `AppendJoins`,
  `CollapseKeepsWay`, for nibble buffers of any length and offsets: saving and restoring
  keeps the nibbles; the common prefix splits search and path into ways that
  part; taking a nibble off, pushing one and appending a buffer change nothing else; a
  collapse joins two prefixes into the way that was there. These are all that
  `KeysSpelled` needs of nibble buffers.

Assumptions on `HandleStore`: `ConstantsOK` (evaluated by TLC in every run) and
`Typed`, a hypothesis of each theorem: hashing an encoded node gives a digest,
annotations of leaves and their combinations are annotations. It holds of the Rust types. The runs
take a smaller `Digest`, the encodings that nest three deep, since a hash
without collisions needs infinitely many; `TypeOK`, in `share`, shows that no run of three levels leaves it.
`Injective`, that different encodings have different digests, is the
assumption on which the code rests (`store.rs:151` looks up by digest and compares
nothing); only the theorems that need it have it. With `Typed` it is satisfiable for an infinite
`Digest`. That there is one store is a hypothesis of `OneStoreIsComplete`
and `HandlesAreValues`; the first is false with two (`two_stores`), and so is the
second: a snapshot in the other store does not read like the tree it was taken of. The theorems start
from `Init`, empty trees; the runs from `DeepInit`, which `Init` reaches.

Borrows. The argument: neither `Path` nor `BorrowedAlone` is inductive. A call
that goes down must know that the handle it enters is not the one through which another
call borrowed the same node, and this follows only from both together: an open
node has one reference (`BorrowedAlone`), each open handle is reached through
an open handle of the same call (`Path`), so nobody else stands at the current
node (lemma `NotOpenBelow`) and an edit there disturbs no open handle. The
inductive invariant is `Owned == TypeOK /\ Path /\ BorrowedAlone`. The lemmas
first say what the heap operations (`Replace`, `Alloc`, `Release`, `Collect`,
`MakeMut`) do to references (`FewerReferences`, `AllocKeeps`, ...), then
what staying, entering and leaving do to `Owned`, and then one lemma per group of
actions combines the two.

Caches. When a node changes, every cache above it is stale, and the code clears
only those on the way it came. `CacheCoherent` therefore is a statement about
nodes that are not open, and what makes it hold is `Owned`: the only handle that refers to a
changing node is the one the call borrowed it through, and
dropping that one recomputes (`DropHandleMut`). The inductive invariant is `Coherent ==
Owned /\ FramesUpToDate /\ RootHashCoherent /\ EditingForgets /\ StoreSound`.
`FramesUpToDate` is `CacheCoherent` and `AnnFresh` together, for each handle that
is not open; `EditingForgets` says that a call that edits has dropped the digest
reported for its tree, or `root_hash` would report an old one; `StoreSound` is
needed because `inner_mut` takes the digest of a persisted handle for the node it
loads. A hash or a persist changes handles, but not what they say: the encoding
of a node is the same before and after (`SaysAsMuch`), so no cache above goes
stale.

Stores. What is in a store refers to other digests; that these are in it too is not
inductive, since the trees in memory refer to stores as well and are put
next. The invariant `Complete(st)` adds them: each reference from a node in
memory or in `st` is to a digest in `st`. `NextRefs` is the lemma that carries it:
every reference after a step was there before, or was made of the node that the
step put. `NextPut` says which node that is. For annotations the same two lemmas
serve with `Signed`: whatever node a reference stands for, its annotation is that node's.

Values. `HandlesAreValues` compares what is read down the handles before a step
and after it. Both are recursive functions, of the levels that are read, and the lemma
`ReadAlike` is the induction: if each handle of one node leads to a node that is related to
what the same handle of the other leads to, related nodes read alike at
every level. So each step needs a relation (`Pairing`) between nodes before and
after. For `root_hash` and `persist` each node is paired with itself, the
handle that `PersistUp` turns with the node that was written (`WrittenReads`, which needs that the store has all
below it, `Complete`, and reads under a digest what was put under it,
`Injective`). For a mutating call it is every node that is not open and not fresh
(`Apart`): what another tree leads to is never open, as an open node has
one reference (`BorrowedAlone`), so an edit is seen by nobody else. The clone that `MakeMut` makes is
paired with the node it was made of. Reading stops after `MaxDepth` levels, in
memory and in the stores alike, and no less is compared for it: the lemmas hold at
every level. That the recursive function is one (`ReadingDef`), and
induction over its levels (`SetInduction`), come from the well-foundedness of the
naturals, stated for sets.

Disk. No run of the disk is safe by `IndexSound` alone. The inductive invariant
of `DiskStoreProofs` adds who may be in the middle of a put (`OnePut`), that
without torn writes the offset is the file's length whenever nobody is (`AtEnd`), that the
file has no byte of a node that is not in the index (`Addressed`), and how far a caller has got with its
tree (`Persisting`, `Persisted`): the node it puts next has all below it in the
index, so that the digest it hands to `set_root` is one whose whole tree can be
read. `Restart` is where these meet: it forgets the callers and takes the
offset from the file. The step simulation then reads off each action which step of
`ContentStore` it is; torn writes map to its `Tear`.

Branches. The theorems are about trees of any width and depth, any annotation and encoding, and a
`Method::select` that may select any handle: that a search finds what it should is not needed.
Their common hypothesis is `Trees(Node, Node)`, that `Node` is a set of trees of one type: handles are a
sequence, a tree ends at some depth, and another leaf in the place of a leaf, another
subtree in the place of a subtree or a save leave a member of it. The finite trees over a type
of leaves and annotations are such a set; the trees of the run `any_tree` are only those of three
levels. The inductive invariant is `Leads(All, Below)`: each level of the open branch is at a
handle to a node, the last at a leaf, all nodes of the levels are trees of `All`, and those
below the first are of `Below`, so that they may be put back into the level above.
`RoundKeeps` is its step in the loop of a search, `RelinkedNode` the way back up. An accepted proof (`ProvesLeaf`) is read from
the leaf upwards: equal digests are equal trees but for where they are kept, so each level has the leaf
of the level below. `SameDigest` is the step that needs: trees that are alike when bare have the same leaves.
For annotations the same invariant holds of `FreshNode` and `FreshFull`, the fresh nodes and those that are not empty: both
are trees of a type themselves (`FreshTrees`), because what is relinked is annotated anew
(`InsertChild`) and an empty node is never relinked. It holds as long as no read
has failed. What a structure's own calls leave is the hypothesis `Whole \subseteq
{n \in Node : Fresh(n)}`; `hamt` checks it of the HAMT, and the radix tree does not
satisfy it (`StaleOnlyIfEmpty`). Of a save it is proved (`SaveKeeps`): what it needs is
`RecodeKeepsHandles`, that a node which is encoded and decoded has its handles again; a node's other
fields may change, as the prefixes of the radix tree do.

Iteration. `WalkOn` says where a branch has been, and the next step must find what comes after.
The invariant is `WalkAt`: the leaf the branch is at is that of the last key seen, at its place in the
keys of the whole tree. A place (`Place`, `IsAt`) is a sequence of offsets, one for each level, at
which the keys of the level's node begin in those of the tree. `KeysOf` is recursive over the
nodes of a tree; `KeysAre` and `KeysIn` make of it a concatenation over the handles of one node
(`JoinsParts`). Then each move of `RawBranch` has a lemma: going down adds an offset (`PlaceMore`), closing a
level puts back a node with the same keys (`PlaceLess`), skipping empty slots changes nothing
(`SkipsNone`, `FirstFinds`). `RoundPlaces` combines them: a round of the search for the next
leaf either has found the leaf with the next key, or is still just before it; when it ends at the root
there is none. That the search has ended by then is `PlacedFinite`: a tree has
finitely many nodes, which bounds its rounds. `KeysStayPut` is the same lemmas for the way
up (`RelinkedKeys`), with `SaveKeeps` for a save.

Accepted proofs. `ProofsHold` needs the levels of a branch to fit together as digests (`Linked`), and
what can break it is relinking: the node put back into the level above gets its annotation combined anew, and if
that differs from the one that was there, the level above has another digest than its own parent
was read with. `SameSubtree` shows that it does not, over fresh trees: the
digest of a node determines its annotation (`SameAnnotation`), and the digest of a tree is that of
its root and of the trees below, each at its place (`TierIs`, `TierOfKid`, `BareIn`). After a failed read, when annotations may be stale,
a branch may well have to be opened anew for its proof to be accepted.

Nibbles. The proofs in `NibblesProofs` compare two buffers nibble by nibble: an offset into
the one is moved to the other by whole bytes (`Shifted`), so each nibble keeps
its byte and its half of it. That there is a longest common prefix
(`CommonIsLongest`) and what `append` arrives at (`AppendPushes`) is the
well-foundedness of the naturals.

Only model-checked: the structures and their refinement of `KVMap`,
`TypeOK` of the trees, `WalkInOrder` (where `nth` and the search for a key start) and `ProofComplete` (after
writes), and liveness (`CallsReturn`), which is out of this
prover's reach, as is `ENABLED`. The calls of the structures are RECURSIVE operators: a module that
reaches one loses the SMT backend, so no theorem is in these modules or uses them. What `Compounds` and `Branches` say of
trees is written with recursive functions and with the nodes of a tree by depth
(`Tiers`, `Placed`) for that reason: a
recursive function over the naturals, as there, in `HandleValues` and in `append`, can be
proved about, by induction over a set; the library's induction theorems,
which take an operator as parameter, cannot be used.

## 5. Plan

Done: `HandleStore` and `DiskStore` with their abstract specifications; the three
structures against a map, with branches, iteration and proofs; `Erased` commits;
the theorems above.

Left, in this order:

1. Proofs about more of the structures: where `Nth` starts over fresh trees, which makes `WalkInOrder` of
   `WalkOn`; `ProofComplete`, for trees that have each key once; `SubInsert` of the HAMT as a recursive function,
   and with it that it leaves annotations fresh.
2. Power loss in `DiskStore`: a file cache that may lose what was not synced.
3. `Erased` values inside a tree, of which only the digest is written.

## 6. Not modelled

- Encodings of primitive types and collections in `content.rs`: functions without
  state. The encodings of the structures and of handles are in their modules.
- `debug_draw.rs`; the browser backend, which is calls into `localStorage`; the
  tests and examples.
- The store's `Cache` (constructed but never read), `Store::size`, and further
  generations of a store (`Store::new` makes one).
- Lifetimes: iterators transmute them (`iter.rs:65`, `raw_branch.rs:328`), and
  the model takes it that no reference is used after its branch has moved on.
- Collisions of digests.
