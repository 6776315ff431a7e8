---------------------------- MODULE HandleValues ----------------------------
(***************************************************************************)
(* HandleStore implements VersionedTrees: the value of a tree is what one  *)
(* reads following its handles, through memory and through the stores.     *)
(***************************************************************************)
EXTENDS HandleStore

Missing == [tag |-> "Missing"]   \* the store does not have the node
Deeper  == [tag |-> "Deeper"]    \* a node below the levels that are read
Sub(c)  == [tag |-> "Sub", node |-> c]

\* Handle::inner of h finds a node, in memory or, as Snapshot::restore would, in
\* the stores sto. Its handles are these.
Leads(sto, h) == HasNode(h) \/ (InStore(h) /\ h.hash \in DOMAIN sto[h.store])

Behind(hp, sto, h) ==
  IF HasNode(h) THEN hp[h.id] ELSE Decode(h.store, sto[h.store][h.hash])

\* What one reads from the slots of a node, by the number of levels below it and
\* the handles in them, with the nodes hp in memory and sto in the stores.
Reading(hp, sto) ==
  LET read[n \in Nat] ==
        [c \in Content |->
          [s \in Slot |->
            CASE Leads(sto, c[s]) /\ n > 0 -> Sub(read[n - 1][Behind(hp, sto, c[s])])
              [] Leads(sto, c[s]) /\ n = 0 -> Deeper
              [] InStore(c[s]) /\ ~Leads(sto, c[s]) -> Missing
              [] OTHER -> c[s]]]
  IN read

ValueOf(c) == Reading(heap, store)[MaxDepth][c]

TreeValue(r) == ValueOf(heap[r])

SnapValue(snap) == ValueOf(Decode(snap[1], store[snap[1]][snap[2]]))

Values ==
  INSTANCE VersionedTrees WITH
    value <- [r \in Tree |-> TreeValue(r)],
    saved <- [snap \in snaps |-> SnapValue(snap)],
    busy <- {r \in Tree : Mutating(r) \/ op[r] = "abort"}

\* Laziness, sharing, hashing and persistence are invisible: every behaviour
\* of the handles and the store, with failing gets and puts, is one of trees
\* that are plain values.
ImplementsValues == Values!Spec

=============================================================================
