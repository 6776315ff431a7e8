--------------------------------- MODULE Two3 ---------------------------------
(***************************************************************************)
(* The 2-3 tree of structures/two3: a node has up to three handles, sorted *)
(* by the greatest key below each. A call is one step; its reads may fail, *)
(* and in a tree that lost a subtree that way later calls can panic.       *)
(***************************************************************************)
EXTENDS Integers, Sequences

CONSTANTS
  Key,          \* keys are compared, so they are numbers here
  NoVal,
  Input,        \* the key-value pairs that calls may write
  Searches(_),  \* the searches made after so many failed reads (a bound)
  MaxFaults     \* bound on the reads that fail

ASSUME KeysAreOrdered == Key \subseteq Int

VARIABLES tree, reply, levels, walk, faults

vars == <<tree, reply, levels, walk, faults>>

N == 2
M == 3

\* Two3TreeAnnotation: MaxKey and Cardinality.
LeafAnnotation(l) == [key |-> l.key, count |-> 1]
\* Mutant: the key of the handle on the left.
JoinFirst(a, b) == [key |-> a.key, count |-> a.count + b.count]

JoinAnnotations(a, b) ==
  [key |-> IF b.key > a.key THEN b.key ELSE a.key, count |-> a.count + b.count]
Cardinal(a) == a.count

\* persist writes the number of handles and the handles.
Encode(n) == [len |-> Len(n.kids), handles |-> n.kids]
Decode(e) == [kids |-> [i \in 1 .. e.len |-> e.handles[i]]]
Two3Recode(n) == Decode(Encode(n))

\* Two3TreeSearch: the first handle whose greatest key is the key or beyond it,
\* or else the last handle if it has a node.
Two3Search(k) == [how |-> "key", key |-> k]
Two3Select(m, n) ==
  LET max(h) == IF h.tag = "Leaf" THEN h.leaf.key ELSE h.ann.key
      len == Len(n.kids)
      reach == {i \in 1 .. len : n.kids[i].tag # "None" /\ m.key <= max(n.kids[i])}
      first == CHOOSE i \in reach : \A j \in reach : i <= j
      found(tag, i) == [tag |-> tag, at |-> i, method |-> m]
  IN CASE reach # {} ->
            found(IF n.kids[first].tag = "Leaf" /\ n.kids[first].leaf.key = m.key
                  THEN "Leaf" ELSE "Path", first - 1)
       [] reach = {} /\ len > 0 /\ n.kids[len].tag = "Node" -> found("Path", len - 1)
       [] OTHER -> found("None", 0)

INSTANCE Branches WITH
  LeafAnn <- LeafAnnotation, Join <- JoinAnnotations, CountOf <- Cardinal,
  KeySearch <- Two3Search, KeySelect <- Two3Select, Recode <- Two3Recode

EmptyNode == [kids |-> <<>>]
Size(n) == Len(n.kids)

\* Vec::insert, remove, pop, by offsets from 0.
InsertedAt(s, i, h) == SubSeq(s, 1, i) \o <<h>> \o SubSeq(s, i + 1, Len(s))
RemovedAt(s, i) == SubSeq(s, 1, i) \o SubSeq(s, i + 2, Len(s))
Last(s) == s[Len(s)]
Popped(s) == SubSeq(s, 1, Len(s) - 1)

\* What a recursive call leaves in its node, its result, and what it hands up.
Outcome(n, tag, out) == [node |-> n, tag |-> tag, out |-> out]
Panic == Outcome(EmptyNode, "panic", None)

-----------------------------------------------------------------------------
(* _insert *)

\* Mutant: a full node is not split.
PlaceAnyway(n, i, h, depth) == Outcome([kids |-> InsertedAt(n.kids, i, h)], "ok", None)

\* Action::Insert(i), and Action::Split(i) if the node is full: the second half
\* goes up, or both under a new root.
Place(n, i, h, depth) ==
  LET k == n.kids
      left == [kids |-> IF i < N THEN InsertedAt(<<k[1]>>, i, h) ELSE <<k[1], k[2]>>]
      right == [kids |-> IF i < N THEN <<k[2], k[3]>> ELSE InsertedAt(<<k[3]>>, i - N, h)]
  IN CASE Size(n) < M -> Outcome([kids |-> InsertedAt(k, i, h)], "ok", None)
       [] Size(n) = M /\ (Empty(right) \/ (depth = 0 /\ Empty(left))) -> Panic
       [] Size(n) = M /\ depth = 0 /\ ~Empty(left) /\ ~Empty(right) ->
            Outcome([kids |-> <<NewNode(left), NewNode(right)>>], "ok", None)
       [] OTHER -> Outcome(left, "split", NewNode(right))

RECURSIVE SubInsert(_, _, _, _)
SubInsert(n, l, depth, bad) ==
  LET at == Two3Select(Two3Search(l.key), n)
      i == at.at
      h == At(n, i)
      last == i + 1 = Size(n)
      node == at.tag = "Path" /\ h.tag = "Node" /\ ~Unreadable(h, bad)
  IN CASE at.tag = "Leaf" -> Outcome(With(n, i, Leaf(l)), "replaced", h.leaf)
       [] at.tag = "None" -> Place(n, Size(n), Leaf(l), depth)
       [] at.tag = "Path" /\ Unreadable(h, bad) -> Outcome(With(n, i, None), "error", None)
       [] at.tag = "Path" /\ h.tag = "Leaf" -> Place(n, i, Leaf(l), depth)
       [] node /\ ~Empty(h.node) /\ (Annotation(h.node).key >= l.key \/ last) ->
            LET r == SubInsert(h.node, l, depth + 1, bad)
                up == With(n, i, Dropped(h, r.node))
            IN IF r.tag = "split" THEN Place(up, i + 1, r.out, depth)
               ELSE [r EXCEPT !.node = up]
       [] OTHER -> Panic

-----------------------------------------------------------------------------
(* _remove *)

\* Action::Merge(i, leaf): the node at i, one handle short, takes a handle from
\* a neighbour of three (cases B, D) or gives its last one to a neighbour of two
\* (A, C). The neighbour may have to be read, while the node is out of its slot.
Merge(n, i, leaf, depth, bad) ==
  LET short == At(n, i).node.kids
      out == With(n, i, None)
      j == IF i > 0 THEN i - 1 ELSE i + 1
      c == At(n, j)
      near == c.node.kids
      gives == Len(near) = N
      near2 == CASE gives /\ i > 0  -> Append(near, Last(short))
                 [] gives /\ i = 0  -> <<Last(short)>> \o near
                 [] ~gives /\ i > 0 -> Popped(near)
                 [] OTHER           -> Tail(near)
      short2 == CASE gives          -> Popped(short)
                  [] ~gives /\ i > 0 -> <<Last(near)>> \o short
                  [] OTHER           -> Append(short, Head(near))
      both == With(out, j, Dropped(c, [kids |-> near2]))
      rest == [kids |-> RemovedAt(both.kids, i)]
  IN CASE Unreadable(c, bad) -> Outcome(With(out, j, None), "error", None)
       [] c.tag # "Node" \/ (gives /\ short = <<>>) -> Panic
       [] short2 # <<>> ->
            IF Empty([kids |-> short2]) THEN Panic
            ELSE Outcome(With(both, i, NewNode([kids |-> short2])), "removed", leaf)
       [] Size(rest) >= N -> Outcome(rest, "removed", leaf)
       [] Size(rest) < N /\ depth > 0 -> Outcome(rest, "merge", leaf)
       [] OTHER -> Outcome(rest.kids[1].node, "removed", leaf)

RECURSIVE SubRemove(_, _, _, _)
SubRemove(n, k, depth, bad) ==
  LET at == Two3Select(Two3Search(k), n)
      i == at.at
      h == At(n, i)
      node == at.tag = "Path" /\ h.tag = "Node" /\ ~Unreadable(h, bad)
      less == [kids |-> RemovedAt(n.kids, i)]
  IN CASE at.tag = "Leaf" ->
            Outcome(less, IF Size(less) < N /\ depth > 0 THEN "merge" ELSE "removed", h.leaf)
       [] at.tag = "Path" /\ Unreadable(h, bad) -> Outcome(With(n, i, None), "error", None)
       [] node /\ ~Empty(h.node) /\ Annotation(h.node).key < k ->
            Outcome(With(n, i, Dropped(h, h.node)), "noop", None)
       [] node /\ ~Empty(h.node) /\ Annotation(h.node).key >= k ->
            LET r == SubRemove(h.node, k, depth + 1, bad)
                up == With(n, i, Dropped(h, r.node))
            IN IF r.tag = "merge" THEN Merge(up, i, r.out, depth, bad)
               ELSE [r EXCEPT !.node = up]
       [] node /\ Empty(h.node) -> Panic
       [] OTHER -> Outcome(n, "noop", None)

-----------------------------------------------------------------------------
(* The map *)

\* What insert and remove make of the result at the root. After a panic the
\* program is over.
Answered(r, answer) ==
  CASE r.tag = "error" -> Changed(r.node, Failed)
    [] r.tag = "panic" -> Changed(EmptyNode, Panicked)
    [] OTHER -> Changed(r.node, answer)

Insert(l) ==
  /\ Idle
  /\ \E bad \in Reads(tree) :
       LET r == SubInsert(tree, l, 0, bad)
       IN /\ bad # NoNode => r.tag = "error"
          /\ Answered(IF r.tag = "split" THEN Panic ELSE r,
                      Reply("insert", l.key, IF r.tag = "replaced" THEN r.out.val ELSE NoVal))

Remove(k) ==
  /\ Idle
  /\ \E bad \in Reads(tree) :
       LET r == SubRemove(tree, k, 0, bad)
       IN /\ bad # NoNode => r.tag = "error"
          /\ Answered(IF r.tag = "merge" THEN Panic ELSE r,
                      Reply("remove", k, IF r.tag = "removed" THEN r.out.val ELSE NoVal))

Init == BranchInit(EmptyNode)

Next ==
  \/ \E l \in Input : Insert(l)
  \/ \E k \in Key : Remove(k)
  \/ BranchNext

Spec == Init /\ [][Next]_vars

-----------------------------------------------------------------------------
(* Properties *)

\* The tree is a map (KVMap), over splits, merges and saving. It stays one,
\* less some keys, after reads that fail, until a call panics.
Map == INSTANCE KVMap WITH
  map <- MapOf(tree),
  reply <- IF reply = Panicked THEN Failed ELSE reply,
  Value <- {l.val : l \in Input}
ImplementsMap == Map!Spec

RECURSIVE Height(_), Filled(_)
Height(n) ==
  IF Subtrees(n) = {} THEN 0 ELSE 1 + Height((CHOOSE h \in Subtrees(n) : TRUE).node)
Filled(n) ==
  /\ Size(n) \in N .. M
  /\ Handles(n) = n.kids
  /\ \/ Subtrees(n) = {}
     \/ /\ \A i \in DOMAIN n.kids : n.kids[i].tag = "Node"
        /\ \A h \in Subtrees(n) : Filled(h.node) /\ Height(h.node) + 1 = Height(n)

\* As long as no read failed: two or three handles in a node (fewer only in a
\* root with leaves), leaves all at one depth, keys ascending from left to right.
Balanced ==
  (faults = 0 /\ Idle) =>
    /\ Filled(tree) \/ (Size(tree) < N /\ Subtrees(tree) = {})
    /\ LET keys == KeysOf(tree)
       IN \A i, j \in DOMAIN keys : i < j => keys[i] < keys[j]

\* The unreachable!() and expect() of _insert and _remove are not reached in a
\* tree that lost nothing.
NeverPanics == faults = 0 => reply # Panicked
=============================================================================
