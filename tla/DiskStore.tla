----------------------------- MODULE DiskStore -----------------------------
(***************************************************************************)
(* A Store over a DiskBackend (src/src/backend/disk.rs), shared by several *)
(* callers of Store::persist, one of which is Root::set_root               *)
(* (src/src/root.rs), with calls that fail and a process that stops and is *)
(* started again.                                                          *)
(*                                                                         *)
(* The backend is an index, from digests to offsets, and a data file that  *)
(* is only appended to. put writes the one and then the other under the    *)
(* write lock of the store. HandleStore has the persist call itself: here  *)
(* it is the nodes of the tree still in memory, put below to above.        *)
(***************************************************************************)
EXTENDS Naturals, Sequences, FiniteSets

CONSTANTS
  Caller,    \* the threads that persist into the store
  Owner,     \* the one that owns the Root; the others own an Erased value each
  Digest,    \* the digests of the nodes the program may build
  Kids,      \* the digests in the bytes of each node
  Below,     \* everything below each node, itself included
  Length,    \* the number of bytes of each node
  Nobody,    \* no caller, no digest
  MaxTears   \* bound: how many puts are interrupted between their two writes

ASSUME ConstantsOK ==
  /\ Owner \in Caller /\ Nobody \notin Caller \cup Digest
  /\ Kids \in [Digest -> SUBSET Digest]
  /\ Below \in [Digest -> SUBSET Digest]
  /\ \A d \in Digest : Below[d] = {d} \cup UNION {Below[k] : k \in Kids[d]}
  /\ \A d \in Digest : \A k \in Kids[d] : d \notin Below[k]
  /\ \A d \in Digest : \A e \in Below[d] : Below[e] \subseteq Below[d]
  /\ Length \in [Digest -> Nat \ {0}]
  /\ MaxTears \in Nat

VARIABLES
  index,     \* the Index: offsets by digest; survives the process
  data,      \* the data file, byte by byte: <<digest, position in its node>>
  offset,    \* DiskBackend::data_offset
  writing,   \* the caller inside put, between index and data, and its digest
  root,      \* the file "root", written atomically
  pc,        \* where each caller stands
  goal,      \* the root node of the tree it persists
  todo,      \* the nodes of that tree that are still in memory
  held,      \* the root node of the tree it persisted last: Erased::hash for most
  tears      \* history: how many puts were interrupted

vars == <<index, data, offset, writing, root, pc, goal, todo, held, tears>>

-----------------------------------------------------------------------------
Bytes(d) == [k \in 1 .. Length[d] |-> <<d, k>>]

Byte == {b \in Digest \X Nat : b[2] \in 1 .. Length[b[1]]}

\* get(d) finds the offset, and restore reads on from there.
Indexed(d) == d \in DOMAIN index
End(d) == index[d] + Length[d]
Readable(d) ==
  /\ Indexed(d)
  /\ End(d) <= Len(data)
  /\ SubSeq(data, index[d] + 1, End(d)) = Bytes(d)

Unlocked == writing = <<Nobody, Nobody>>

Call(c, step) == pc' = [pc EXCEPT ![c] = step]

Init ==
  /\ index = [d \in {} |-> 0]
  /\ data = <<>>
  /\ offset = 0
  /\ writing = <<Nobody, Nobody>>
  /\ root = Nobody
  /\ pc = [c \in Caller |-> "idle"]
  /\ goal = [c \in Caller |-> Nobody]
  /\ todo = [c \in Caller |-> {}]
  /\ held = [c \in Caller |-> Nobody]
  /\ tears = 0

\* The nodes behind the persisted handles of the trees a caller may start from:
\* an empty one, the one it holds, the one whose persist just failed.
Kept(c) ==
  {{}} \cup {Below[d] \ {d} : d \in {held[c]} \cap Digest}
       \cup {Below[d] \ ({d} \cup todo[c]) :
               d \in {goal[c]} \cap (IF pc[c] = "failed" THEN Digest ELSE {})}

\* Store::persist of a tree, built from nothing or out of such a tree: what is
\* below a persisted handle is not put again.
Begin(c, d) ==
  /\ pc[c] \in {"idle", "failed"}
  /\ Call(c, "put")
  /\ goal' = [goal EXCEPT ![c] = d]
  /\ \E kept \in Kept(c) : todo' = [todo EXCEPT ![c] = (Below[d] \ kept) \cup {d}]
  /\ UNCHANGED <<index, data, offset, writing, root, held, tears>>

\* The same tree once more, after an error: the handles that were turned into
\* persisted ones are still so. The root node has no handle.
Retry(c) ==
  /\ pc[c] = "failed"
  /\ Call(c, "put")
  /\ todo' = [todo EXCEPT ![c] = @ \cup {goal[c]}]
  /\ UNCHANGED <<index, data, offset, writing, root, goal, held, tears>>

\* The next node a persist puts: those below it in memory are put.
Due(c, d) ==
  /\ pc[c] = "put"
  /\ d \in todo[c]
  /\ (Below[d] \ {d}) \cap todo[c] = {}
  /\ Unlocked

\* put finds the digest in the index.
AlreadyThere(c, d) ==
  /\ Due(c, d)
  /\ Indexed(d)
  /\ todo' = [todo EXCEPT ![c] = @ \ {d}]
  /\ UNCHANGED <<index, data, offset, writing, root, pc, goal, held, tears>>

\* put inserts the digest in the index ...
IndexInsert(c, d) ==
  /\ Due(c, d)
  /\ ~Indexed(d)
  /\ index' = [e \in DOMAIN index \cup {d} |-> IF e = d THEN offset ELSE index[e]]
  /\ writing' = <<c, d>>
  /\ UNCHANGED <<data, offset, root, pc, goal, todo, held, tears>>

\* Mutant: data_offset is not moved on.
DataWriteStays(c) ==
  /\ writing[1] = c
  /\ data' = data \o Bytes(writing[2])
  /\ todo' = [todo EXCEPT ![c] = @ \ {writing[2]}]
  /\ writing' = <<Nobody, Nobody>>
  /\ UNCHANGED <<index, offset, root, pc, goal, held, tears>>

\* ... and then appends its bytes to the data file.
DataWrite(c) ==
  /\ writing[1] = c
  /\ data' = data \o Bytes(writing[2])
  /\ offset' = offset + Length[writing[2]]
  /\ todo' = [todo EXCEPT ![c] = @ \ {writing[2]}]
  /\ writing' = <<Nobody, Nobody>>
  /\ UNCHANGED <<index, root, pc, goal, held, tears>>

\* An interrupted put leaves some of the bytes, or none, in the data file.
Torn ==
  /\ tears < MaxTears
  /\ tears' = tears + 1
  /\ \E n \in 0 .. Length[writing[2]] - 1 :
       data' = data \o SubSeq(Bytes(writing[2]), 1, n)

\* write_all fails, after some of the bytes: data_offset stays where it was.
DataWriteFails(c) ==
  /\ writing[1] = c
  /\ Torn
  /\ writing' = <<Nobody, Nobody>>
  /\ Call(c, "failed")
  /\ UNCHANGED <<index, offset, root, goal, todo, held>>

\* Mutant: persist returns before all its nodes are put.
ReturnEarly(c) ==
  /\ c = Owner
  /\ pc[c] = "put"
  /\ writing[1] # c
  /\ held' = [held EXCEPT ![c] = goal[c]]
  /\ Call(c, "flush")
  /\ UNCHANGED <<index, data, offset, writing, root, goal, todo, tears>>

\* Store::persist returns its Snapshot; set_root goes on to flush.
Return(c) ==
  /\ c = Owner
  /\ pc[c] = "put"
  /\ todo[c] = {}
  /\ held' = [held EXCEPT ![c] = goal[c]]
  /\ Call(c, "flush")
  /\ UNCHANGED <<index, data, offset, writing, root, goal, todo, tears>>

\* Mutant: the hash is replaced while nodes are still to be put.
CommitEarly(c) ==
  /\ c # Owner
  /\ pc[c] = "put"
  /\ writing[1] # c
  /\ held' = [held EXCEPT ![c] = goal[c]]
  /\ Call(c, "idle")
  /\ UNCHANGED <<index, data, offset, writing, root, goal, todo, tears>>

\* Transaction::commit, and Erased::wrap: the hash is replaced once persist has
\* succeeded. The transaction may go on with its tree, or end and leave the hash
\* it committed last to queries and other transactions.
Commit(c) ==
  /\ c # Owner
  /\ pc[c] = "put"
  /\ todo[c] = {}
  /\ held' = [held EXCEPT ![c] = goal[c]]
  /\ Call(c, "idle")
  /\ UNCHANGED <<index, data, offset, writing, root, goal, todo, tears>>

Flush(c) ==
  /\ pc[c] = "flush"
  /\ Unlocked
  /\ Call(c, "root")
  /\ UNCHANGED <<index, data, offset, writing, root, goal, todo, held, tears>>

\* AtomicFile::write replaces the file "root" or leaves it as it was.
WriteRoot(c) ==
  /\ pc[c] = "root"
  /\ root' = goal[c]
  /\ Call(c, "idle")
  /\ UNCHANGED <<index, data, offset, writing, goal, todo, held, tears>>

\* An insert in the index, a flush or the write of the root file returns an
\* error and has done nothing.
Fail(c) ==
  /\ pc[c] \in {"put", "flush", "root"}
  /\ writing[1] # c
  /\ Call(c, "failed")
  /\ UNCHANGED <<index, data, offset, writing, root, goal, todo, held, tears>>

\* Root::restore, of T::default() if there is no root file: the nodes of the
\* tree are read when they are needed. It changes nothing when it fails.
RestoreRoot ==
  /\ pc[Owner] \in {"idle", "failed"}
  /\ root # Nobody => Readable(root)
  /\ held' = [held EXCEPT ![Owner] = root]
  /\ Call(Owner, "idle")
  /\ UNCHANGED <<index, data, offset, writing, root, goal, todo, tears>>

\* Mutant: DiskBackend::new does not look how long the data file is.
RestartAtZero ==
  /\ IF Unlocked THEN UNCHANGED <<data, tears>> ELSE Torn
  /\ offset' = 0
  /\ writing' = <<Nobody, Nobody>>
  /\ pc' = [c \in Caller |-> "idle"]
  /\ goal' = [c \in Caller |-> Nobody]
  /\ todo' = [c \in Caller |-> {}]
  /\ held' = [c \in Caller |-> Nobody]
  /\ UNCHANGED <<index, root>>

\* Mutant: it goes on one byte too far.
RestartPastEnd ==
  /\ IF Unlocked THEN UNCHANGED <<data, tears>> ELSE Torn
  /\ offset' = Len(data') + 1
  /\ writing' = <<Nobody, Nobody>>
  /\ pc' = [c \in Caller |-> "idle"]
  /\ goal' = [c \in Caller |-> Nobody]
  /\ todo' = [c \in Caller |-> {}]
  /\ held' = [c \in Caller |-> Nobody]
  /\ UNCHANGED <<index, root>>

\* The process stops and a new one opens the store: DiskBackend::new goes on
\* at the end of the data file.
Restart ==
  /\ IF Unlocked THEN UNCHANGED <<data, tears>> ELSE Torn
  /\ offset' = Len(data')
  /\ writing' = <<Nobody, Nobody>>
  /\ pc' = [c \in Caller |-> "idle"]
  /\ goal' = [c \in Caller |-> Nobody]
  /\ todo' = [c \in Caller |-> {}]
  /\ held' = [c \in Caller |-> Nobody]
  /\ UNCHANGED <<index, root>>

Next ==
  \/ \E c \in Caller, d \in Digest :
       Begin(c, d) \/ AlreadyThere(c, d) \/ IndexInsert(c, d)
  \/ \E c \in Caller :
       \/ Retry(c) \/ DataWrite(c) \/ DataWriteFails(c)
       \/ Return(c) \/ Commit(c) \/ Flush(c) \/ WriteRoot(c) \/ Fail(c)
  \/ RestoreRoot
  \/ Restart

Spec == Init /\ [][Next]_vars

-----------------------------------------------------------------------------
(***************************************************************************)
(* Correctness.                                                            *)
(***************************************************************************)

\* The values each variable ranges over.
TypeOK ==
  /\ DOMAIN index \subseteq Digest
  /\ index \in [DOMAIN index -> 0 .. Len(data)]
  /\ data \in Seq(Byte)
  /\ offset \in 0 .. Len(data)
  /\ writing \in (Caller \X Digest) \cup {<<Nobody, Nobody>>}
  /\ root \in Digest \cup {Nobody}
  /\ pc \in [Caller -> {"idle", "put", "flush", "root", "failed"}]
  /\ goal \in [Caller -> Digest \cup {Nobody}]
  /\ todo \in [Caller -> SUBSET Digest]
  /\ held \in [Caller -> Digest \cup {Nobody}]
  /\ tears \in 0 .. MaxTears

\* No put was interrupted between the index and the data file.
Intact == tears = 0

\* Every digest in the index, but the one a put is about to write, leads to
\* the bytes of its node, whatever other callers put, failed or restarted.
IndexSound ==
  Intact => \A d \in DOMAIN index : d = writing[2] \/ Readable(d)

\* "The latest snapshot is saved between program runs" (root.rs:18): what the
\* root file names can be read down to its leaves, at every moment at which
\* the process might stop.
RootRestorable ==
  Intact /\ root # Nobody => \A d \in Below[root] : Readable(d)

\* A tree that has been persisted can be read in full, also when another caller
\* put the nodes it found already there: an Erased value answers queries with
\* what was committed last, after a commit that failed too (erased.rs:80-84).
HeldReadable ==
  Intact => \A c \in Caller :
              held[c] # Nobody => \A d \in Below[held[c]] : Readable(d)

\* "If you look up data that has been altered or corrupted [..] you will notice
\* immediately" (README.md:84): a lookup that finds enough bytes finds the
\* bytes of the node that was asked for.
NoForeignBytes ==
  \A d \in DOMAIN index :
    d # writing[2] /\ End(d) <= Len(data) => Readable(d)

Contents ==
  INSTANCE ContentStore WITH
    NoRoot <- Nobody,
    content <- {d \in Digest : Readable(d)},
    intact <- Intact

\* The index, the file and the order of the two writes are invisible: nodes are
\* added below to above and never lost, over failed calls and restarts, and
\* even a torn put harms none that could be read.
ImplementsContentStore == Contents!Spec

=============================================================================
