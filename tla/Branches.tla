------------------------------ MODULE Branches ------------------------------
(***************************************************************************)
(* Searching a tree, iterating over it, writing to its leaves and proving  *)
(* membership (src/raw_branch.rs, branch.rs, search.rs, iter.rs, map.rs,   *)
(* proof.rs), for any structure.                                           *)
(*                                                                         *)
(* A branch is open while levels is not empty; it borrows the tree, so no  *)
(* other call runs. All branches are modelled as BranchMut: one that is    *)
(* only read from is a Branch, LeafIter or ValPath.                        *)
(***************************************************************************)
EXTENDS Compounds, FiniteSets

CONSTANTS
  Key, NoVal,
  Input,             \* the leaves that calls may write
  KeySearch(_),      \* the structure's search method for a key
  KeySelect(_, _),   \* its Method::select
  CountOf(_),        \* Borrow<Cardinality> of an annotation
  Searches(_),       \* the searches that open branches after so many failed reads (a bound)
  MaxFaults          \* bound on the reads that fail

VARIABLES
  tree,     \* the root node; while a branch is open, as dropping it would leave it
  reply,    \* what a call on the map returned, until its caller goes on
  levels,   \* of the open branch: node, offset and whether the level owns its node
  walk,     \* the search that opened it, the keys it was at, and whether it ended
  faults    \* failed reads so far

Level(n) == [node |-> n, ofs |-> 0, own |-> FALSE]
NoWalk == [by |-> [how |-> "none"], seen |-> <<>>, done |-> FALSE]
NoReply == [op |-> "none"]
Failed == [op |-> "error"]
Panicked == [op |-> "panic"]

\* The caller may begin a call, or use the branch that is open.
Closed == levels = <<>>
Idle == Closed /\ walk = NoWalk /\ reply = NoReply
Holding == ~Closed /\ reply = NoReply

-----------------------------------------------------------------------------
(* Search methods. select returns what it found and an offset from ofs, and *)
(* may change the method's own state.                                       *)

Found(tag, i, m) == [tag |-> tag, at |-> i, method |-> m]

First == [how |-> "first"]
Nth(n) == [how |-> "nth", left |-> n]

\* Mutant: the offset is counted from 0.
FirstSelectAbsolute(m, n, ofs) ==
  LET full == {i \in ofs .. Len(n.kids) - 1 : At(n, i).tag # "None"}
  IN IF full = {} THEN Found("None", 0, m)
     ELSE Found(IF At(n, Seqs!Min(full)).tag = "Leaf" THEN "Leaf" ELSE "Path", Seqs!Min(full), m)

FirstSelect(m, n, ofs) ==
  LET full == {i \in ofs .. Len(n.kids) - 1 : At(n, i).tag # "None"}
  IN IF full = {} THEN Found("None", 0, m)
     ELSE LET i == Seqs!Min(full)
          IN Found(IF At(n, i).tag = "Leaf" THEN "Leaf" ELSE "Path", i - ofs, m)

\* Counts down over the leaves to the left, whatever the offset.
NthSelect(m, n) ==
  LET size(i) == IF At(n, i) = None THEN 0 ELSE CountOf(AnnOfHandle(At(n, i)))
      before[i \in 0 .. Len(n.kids)] == IF i = 0 THEN 0 ELSE before[i - 1] + size(i - 1)
      hit == {i \in 0 .. Len(n.kids) - 1 : m.left >= before[i] /\ m.left < before[i + 1]}
  IN IF hit = {} THEN Found("None", 0, [m EXCEPT !.left = @ - before[Len(n.kids)]])
     ELSE LET i == Seqs!Min(hit)
          IN Found(IF At(n, i).tag = "Leaf" THEN "Leaf" ELSE "Path", i,
                   [m EXCEPT !.left = @ - before[i]])

Select(m, n, ofs) ==
  CASE m.how = "first" -> FirstSelect(m, n, ofs)
    [] m.how = "nth"   -> NthSelect(m, n)
    [] OTHER           -> KeySelect(m, n)

-----------------------------------------------------------------------------
(* RawBranch *)

Top(ls) == ls[Len(ls)]

\* Mutant: a handle is left out.
AdvanceTwice(ls) == [ls EXCEPT ![Len(ls)].ofs = @ + 2]

Advance(ls) == [ls EXCEPT ![Len(ls)].ofs = @ + 1]

\* The leaf the branch is at, after a search that ended in one.
HandleOf(ls) == At(Top(ls).node, Top(ls).ofs)

\* NodeRef::as_mut: what is only read so far is cloned, once.
Owned(level) == [level EXCEPT !.own = TRUE]

\* Mutant: the annotation is left as it was.
InsertChildStale(level, n) ==
  Owned([level EXCEPT !.node =
    With(@, level.ofs, [At(@, level.ofs) EXCEPT !.node = n, !.stored = FALSE])])

\* Mutant: what was taken out is not put back.
InsertChildNone(level, n) == Owned([level EXCEPT !.node = With(@, level.ofs, None)])

InsertChild(level, n) == Owned([level EXCEPT !.node = With(@, level.ofs, NewNode(n))])

\* An owned node goes back into the level above, which becomes owned by that.
\* The root level is the tree itself.
PopLevel(ls) ==
  LET up == Seqs!Front(ls)
  IN IF Top(ls).own THEN [up EXCEPT ![Len(up)] = InsertChild(@, Top(ls).node)] ELSE up

\* relink, when a BranchMut is dropped: the tree it leaves.
Relinked(ls) ==
  LET popped[k \in Nat] == IF k = 0 THEN ls ELSE PopLevel(popped[k - 1])
  IN popped[Len(ls) - 1][1].node

\* Level::search, before it moves the offset.
LevelSearch(level, m) ==
  IF level.ofs + 1 > Len(level.node.kids) THEN Found("None", 0, m)
  ELSE Select(m, level.node, level.ofs)

\* A round of the loop in RawBranch::search: it ends it, goes down a level or up
\* one. The read of the subtree bad fails.
Round(s, bad) ==
  LET ls == s.levels
      r == LevelSearch(Top(ls), s.method)
      to == [ls EXCEPT ![Len(ls)].ofs = @ + r.at]
      h == HandleOf(to)
      result(tag) == [tag |-> tag, levels |-> to]
      again(next) == [tag |-> "again", levels |-> next, method |-> r.method]
  IN CASE r.tag = "Leaf" -> result(IF h.tag = "Leaf" THEN "leaf" ELSE "none")
       [] r.tag = "Path" /\ Unreadable(h, bad) -> result("error")
       [] r.tag = "Path" /\ h.tag = "Node" /\ ~Unreadable(h, bad) -> again(Append(to, Level(h.node)))
       [] r.tag = "Path" /\ h.tag # "Node" -> result("none")
       [] r.tag = "None" /\ Len(ls) > 1 -> again(Advance(PopLevel(ls)))
       [] OTHER -> result("none")

\* RawBranch::search. It enters a node of the tree at most once, so that there are
\* no more rounds than twice the nodes, and one.
Search(ls, m, bad) ==
  LET rounds[k \in Nat] ==
        IF k = 0 THEN [tag |-> "again", levels |-> ls, method |-> m]
        ELSE LET s == rounds[k - 1] IN IF s.tag = "again" THEN Round(s, bad) ELSE s
  IN rounds[2 * Cardinality(Placed(ls[1].node)) + 1]

-----------------------------------------------------------------------------
(* Calls *)

KeyAt(ls) == HandleOf(ls).leaf.key
ValAt(ls) == HandleOf(ls).leaf.val
Reply(op, k, v) == [op |-> op, key |-> k, val |-> v]

\* Which reads fail: none, or that of one persisted subtree.
Reads(n) == {NoNode} \cup (IF faults < MaxFaults THEN StoredNodes(n) ELSE {})

\* A search of either kind answers from the state r is in; when it found
\* nothing or failed, the branch was dropped.
Answer(r, w) ==
  /\ levels' = IF r.tag = "leaf" THEN r.levels ELSE <<>>
  /\ tree' = Relinked(r.levels)
  /\ walk' = CASE r.tag = "leaf" -> [w EXCEPT !.seen = Append(@, KeyAt(r.levels))]
               [] r.tag = "none" -> [w EXCEPT !.done = TRUE]
               [] OTHER -> NoWalk
  /\ faults' = IF r.tag = "error" THEN faults + 1 ELSE faults

\* get, get_mut, nth, iter, iter_mut, search and search_mut: a branch from the root.
Open(m) ==
  /\ Idle
  /\ \E bad \in Reads(tree) :
       LET r == Search(<<Level(tree)>>, m, bad)
       IN /\ bad # NoNode => r.tag = "error"
          /\ Answer(r, [NoWalk EXCEPT !.by = m])
          /\ reply' = CASE r.tag = "error" -> Failed
                        [] m.how = "key" -> Reply("get", m.key,
                                              IF r.tag = "leaf" THEN ValAt(r.levels) ELSE NoVal)
                        [] OTHER -> NoReply

\* Iterator::next, and search on a branch.
Step ==
  /\ Holding
  /\ \E bad \in Reads(tree) :
       LET r == Search(Advance(levels), First, bad)
       IN /\ bad # NoNode => r.tag = "error"
          /\ Answer(r, walk)
          /\ reply' = IF r.tag = "error" THEN Failed ELSE NoReply

\* Writing through a mutable reference to the leaf: the level's node is cloned.
Touch(l) ==
  /\ Holding
  /\ l.key = KeyAt(levels)
  /\ LET top == [Top(levels) EXCEPT !.node = With(@, Top(levels).ofs, Leaf(l))]
         ls == [levels EXCEPT ![Len(levels)] = Owned(top)]
     IN levels' = ls /\ tree' = Relinked(ls)
  /\ UNCHANGED <<reply, walk, faults>>

\* Proof::new: hashing a level through a mutable reference clones its node.
TakeProof ==
  /\ Holding
  /\ LET ls == [i \in DOMAIN levels |-> Owned(levels[i])]
     IN levels' = ls /\ tree' = Relinked(ls)
  /\ UNCHANGED <<reply, walk, faults>>

DropBranch ==
  /\ Holding
  /\ levels' = <<>>
  /\ walk' = NoWalk
  /\ UNCHANGED <<tree, reply, faults>>

\* The caller of an insert, remove, get or of an iterator that ended goes on;
\* a panic ends the program.
Return ==
  /\ reply # NoReply \/ walk.done
  /\ reply # Panicked
  /\ reply' = NoReply
  /\ walk' = IF Closed THEN NoWalk ELSE walk
  /\ UNCHANGED <<tree, levels, faults>>

\* Store::persist, and Store::restore of what it wrote.
Save ==
  /\ Idle
  /\ tree' = Stored(tree)
  /\ UNCHANGED <<reply, levels, walk, faults>>

\* A call that changed the tree to n by itself, with nothing else open.
Changed(n, answer) ==
  /\ tree' = n
  /\ reply' = answer
  /\ faults' = IF answer = Failed THEN faults + 1 ELSE faults
  /\ UNCHANGED <<levels, walk>>

BranchInit(n) ==
  /\ tree = n
  /\ reply = NoReply
  /\ levels = <<>>
  /\ walk = NoWalk
  /\ faults = 0

BranchNext ==
  \/ \E m \in Searches(faults) : Open(m)
  \/ Step
  \/ \E l \in Input : Touch(l)
  \/ TakeProof
  \/ DropBranch
  \/ Return
  \/ Save

-----------------------------------------------------------------------------
(* What is seen from outside *)

\* Mutant: from the leaf to the root.
ProofReversed ==
  LET ls == Seqs!Reverse(levels)
  IN [i \in DOMAIN ls |-> [node |-> ls[i].node, ofs |-> ls[i].ofs]]

\* The proof that Proof::new would copy from the levels of the open branch.
Proof == [i \in DOMAIN levels |-> [node |-> levels[i].node, ofs |-> levels[i].ofs]]

\* Mutant: only the hash of the root is compared.
ProvesRoot(p, t) == Bare(p[1].node) = Bare(t)

\* Proof::prove_member against tree t: hashes match bottom up, and the root's is t's.
Proves(p, t) ==
  /\ \A i \in 1 .. Len(p) - 1 :
       LET h == At(p[i].node, p[i].ofs)
       IN h.tag = "Node" /\ Bare(h.node) = Bare(p[i + 1].node)
  /\ Bare(p[1].node) = Bare(t)

\* Below a persisted handle every handle is persisted, and none that holds a
\* node is empty of slots.
WellFormed(n) ==
  \A h \in Held(n) :
    \/ h = None
    \/ h.tag = "Leaf" /\ h.leaf \in Input
    \/ /\ h.tag = "Node"
       /\ h.node.kids # <<>>
       /\ h.stored => \A g \in Subtrees(h.node) : g.stored

\* Types, of trees in particular: what is below a persisted handle is persisted.
TypeOK ==
  /\ WellFormed(tree)
  /\ \A i \in DOMAIN levels : WellFormed(levels[i].node) /\ levels[i].own \in BOOLEAN
  /\ ~Closed => HandleOf(levels).tag = "Leaf"
  /\ \/ reply.op \in {"none", "error", "panic"}
     \/ reply.op \in {"insert", "remove", "get"} /\ reply.key \in Key
  /\ faults \in 0 .. MaxFaults

\* The tree as a map.
MapOf(n) ==
  LET ls == Leaves(n)
  IN [k \in {l.key : l \in ls} |-> (CHOOSE l \in ls : l.key = k).val]


\* Where a search method starts in the order of the leaves, from 1.
StartOf(m, keys) ==
  CASE m.how = "first" -> 1
    [] m.how = "nth"   -> m.left + 1
    [] OTHER -> IF m.key \in Seqs!ToSet(keys)
                THEN CHOOSE i \in DOMAIN keys : keys[i] = m.key
                ELSE Len(keys) + 1

\* Iteration (iter.rs, branch.rs): a branch visits every leaf from the one it
\* was opened at, once, in the order of the handles, and ends only after the
\* last; nth finds the leaf at its place in that order, a key search its key.
\* Only nth depends on the annotations being right.
WalkInOrder ==
  (walk # NoWalk /\ (walk.by.how = "nth" => Fresh(tree))) =>
    LET keys == KeysOf(tree)
        start == StartOf(walk.by, keys)
        end == start + Len(walk.seen) - 1
    IN /\ walk.seen = SubSeq(keys, start, end)
       /\ walk.done <=> end >= Len(keys) /\ Closed

\* Iteration over any tree, whatever its annotations and whatever search opened
\* the branch (iter.rs, branch.rs): from where it started on, the leaves are
\* visited one after the other, each once, and it ends only after the last; an
\* iterator that a caller opens starts at the first.
WalkOn ==
  walk # NoWalk =>
    LET keys == KeysOf(tree)
    IN \E start \in 1 .. Len(keys) + 1 :
         LET end == start + Len(walk.seen) - 1
         IN /\ walk.by = First => start = 1
            /\ end <= Len(keys)
            /\ walk.seen = SubSeq(keys, start, end)
            /\ walk.done <=> end = Len(keys) /\ Closed

\* Annotations after searches, writes through branches and proofs
\* (raw_branch.rs:214-228, handle.rs:96-112): what is relinked on the way out
\* is annotated anew, so only a failed read can leave a stale annotation.
AnnotationsFresh == faults = 0 => Fresh(tree)

\* A proof taken from a branch (proof.rs) is accepted against the tree as it
\* was before the writes through the branch or as it is after them only if
\* that tree has the proof's leaf with its value.
ProofSound ==
  ~Closed => \A t \in {tree, levels[1].node} :
             Proves(Proof, t) => HandleOf(Proof).leaf \in Leaves(t)

\* The proof from a branch that nothing was written through is accepted.
ProofComplete ==
  (~Closed /\ Leaves(levels[1].node) = Leaves(tree)) => Proves(Proof, levels[1].node)
=============================================================================
