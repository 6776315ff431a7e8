------------------------------ MODULE Compounds ------------------------------
(***************************************************************************)
(* Trees as values (src/handle.rs, src/compound.rs, src/annotations): what *)
(* the structures are built from. HandleStore shows that sharing, caching  *)
(* and loading on demand do not show in these values; what does show is    *)
(* which handles are persisted, since reading through one may fail.        *)
(*                                                                         *)
(* A node is a record whose field kids is the sequence of its handles;     *)
(* offsets count from 0, as in the source.                                 *)
(***************************************************************************)
EXTENDS Integers, Sequences

Seqs == INSTANCE SequencesExt

CONSTANTS
  LeafAnn(_),   \* From<&Leaf> of the annotation
  Join(_, _),   \* Associative::op of the annotation
  Recode(_)     \* a node persisted and restored, all but its subtrees

NoNode == [tag |-> "no node"]

None == [tag |-> "None"]
Leaf(l) == [tag |-> "Leaf", leaf |-> l]

AnnOfHandle(h) == IF h.tag = "Leaf" THEN LeafAnn(h.leaf) ELSE h.ann

\* The handles that are not None, from left to right.
Handles(n) == SelectSeq(n.kids, LAMBDA h : h.tag # "None")

Empty(n) == \A i \in DOMAIN n.kids : n.kids[i].tag = "None"

\* What there is at each offset for Combine::combine to go over.
AnnsAt(n) ==
  [i \in DOMAIN n.kids |-> IF n.kids[i].tag = "None" THEN <<>> ELSE <<AnnOfHandle(n.kids[i])>>]

\* Compound::annotation, of a node that is not empty: Combine::combine over the handles.
Annotation(n) ==
  LET anns == Seqs!FlattenSeq(AnnsAt(n))
  IN Seqs!FoldLeft(Join, Head(anns), Tail(anns))

\* Handle::new_node. It panics on an empty node.
NewNode(n) == [tag |-> "Node", node |-> n, ann |-> Annotation(n), stored |-> FALSE]

\* Mutant: the annotation is left as it was.
DroppedStale(h, n) == [h EXCEPT !.node = n, !.stored = FALSE]

\* A HandleMut to the node of h is dropped, the node being n by now: an empty
\* node leaves the annotation as it was.
Dropped(h, n) ==
  [h EXCEPT !.node = n, !.stored = FALSE,
            !.ann = IF Empty(n) THEN h.ann ELSE Annotation(n)]

\* children().get(i)
At(n, i) == IF i \in 0 .. Len(n.kids) - 1 THEN n.kids[i + 1] ELSE None
With(n, i, h) == [n EXCEPT !.kids[i + 1] = h]

\* The call meets one subtree, bad, that its store cannot read (NoNode: reads
\* succeed). The first such read ends the call.
Unreadable(h, bad) == h.tag = "Node" /\ h.stored /\ h.node = bad

-----------------------------------------------------------------------------

\* The nodes of a tree at each depth, with the way there.
Tiers(n) ==
  LET tier[d \in Nat] ==
        IF d = 0 THEN {<< <<>>, n >>}
        ELSE UNION {{<<Append(e[1], i), e[2].kids[i].node>> :
                       i \in {j \in DOMAIN e[2].kids : e[2].kids[j].tag = "Node"}} : e \in tier[d - 1]}
  IN tier

\* All of them, down to the first depth that has none.
Placed(n) ==
  LET tier == Tiers(n)
      from[d \in Nat] == LET here == tier[d] IN IF here = {} THEN {} ELSE here \cup from[d + 1]
  IN from[0]

Nodes(n) == {e[2] : e \in Placed(n)}

\* All handles of a tree.
Held(n) == UNION {Seqs!Range(e[2].kids) : e \in Placed(n)}

Subtrees(n) == {h \in Seqs!Range(n.kids) : h.tag = "Node"}

Leaves(n) == {h.leaf : h \in {g \in Held(n) : g.tag = "Leaf"}}

\* The keys at and below each handle, given those of the nodes below.
KeysBy(m, keys) ==
  [i \in DOMAIN m.kids |->
     CASE m.kids[i].tag = "Leaf" -> <<m.kids[i].leaf.key>>
       [] m.kids[i].tag = "Node" -> keys[m.kids[i].node]
       [] OTHER -> <<>>]

\* The keys of the leaves of a tree in the order of its handles.
KeysOf(n) ==
  LET keys[m \in Nodes(n)] == Seqs!FlattenSeq(KeysBy(m, keys))
  IN keys[n]

\* What a call on n may have to read from a store.
StoredNodes(n) == {h.node : h \in {g \in Held(n) : g.tag = "Node" /\ g.stored}}

\* Mutant: only the handles of the node itself turn into persisted ones.
StoredShallow(n) ==
  Recode([n EXCEPT !.kids = [i \in DOMAIN @ |->
    IF @[i].tag = "Node" THEN [@[i] EXCEPT !.stored = TRUE] ELSE @[i]]])

\* Every handle turned into a persisted one, given what is written of the nodes below.
WrittenBy(m, written) ==
  [i \in DOMAIN m.kids |->
     IF m.kids[i].tag = "Node"
     THEN [m.kids[i] EXCEPT !.node = written[@], !.stored = TRUE] ELSE m.kids[i]]

\* Content::persist of a node, which turns every handle below it into a
\* persisted one: what is read through them later is what was written.
Stored(n) ==
  LET written[m \in Nodes(n)] == Recode([m EXCEPT !.kids = WrittenBy(m, written)])
  IN written[n]

\* What the digest of a node determines: all of the tree but where it is kept.
Bare(n) ==
  {<<e[1], [e[2] EXCEPT !.kids = [i \in DOMAIN @ |->
     IF @[i].tag = "Node" THEN [@[i] EXCEPT !.node = NoNode, !.stored = FALSE] ELSE @[i]]]>> :
   e \in Placed(n)}

\* Every annotation is the combination over its node.
Fresh(n) ==
  \A h \in Held(n) :
    h.tag = "Node" => ~Empty(h.node) /\ h.ann = Annotation(h.node)
=============================================================================
