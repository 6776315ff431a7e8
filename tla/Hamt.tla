--------------------------------- MODULE Hamt ---------------------------------
(***************************************************************************)
(* The hash array mapped tries of structures/hamt: HAMT with 16 handles in *)
(* a node and NarrowHAMT with 4. A call is one step: it borrows the tree   *)
(* for as long as it runs. Its reads may fail.                             *)
(***************************************************************************)
EXTENDS Integers, Sequences, FiniteSets

CONSTANTS
  Key, NoVal,
  Input,        \* the key-value pairs that calls may write
  Hash,         \* the digest of each key, as bytes
  Searches(_),  \* the searches made after so many failed reads (a bound)
  MaxFaults     \* bound on the reads that fail

ASSUME HashIsBytes == \A k \in Key : Hash[k] \in Seq(0 .. 255)

VARIABLES
  tree, reply, levels, walk, faults

vars == <<tree, reply, levels, walk, faults>>

\* The two types differ in the width of their nodes.
Width(n) == Len(n.kids)

\* SlotSelect::select_slot. HAMT takes one nibble of a byte for two depths;
\* NarrowHAMT, where & binds weaker than >>, the low bits of a byte for four.
SlotOf(width, hash, depth) ==
  IF width = 16
  THEN LET ofs == depth \div 2
       IN IF ofs % 2 = 0 THEN hash[ofs + 1] \div 16 ELSE hash[ofs + 1] % 16
  ELSE hash[depth \div 4 + 1] % 4

\* The Cardinality annotation.
LeafCount(l) == 1
AddCounts(a, b) == a + b
Cardinal(a) == a

\* HAMTSearch: a leaf with the key, or else the slot its hash leads to.
HamtSearch(k) == [how |-> "key", key |-> k, depth |-> 0]
\* Mutant: the key of the leaf is not compared.
HamtSelectAny(m, n) ==
  LET s == SlotOf(Width(n), Hash[m.key], m.depth)
  IN [tag |-> IF n.kids[s + 1].tag = "Leaf" THEN "Leaf" ELSE "Path", at |-> s,
      method |-> [m EXCEPT !.depth = @ + 1]]

HamtSelect(m, n) ==
  LET s == SlotOf(Width(n), Hash[m.key], m.depth)
      h == n.kids[s + 1]
  IN [tag |-> IF h.tag = "Leaf" /\ h.leaf.key = m.key THEN "Leaf" ELSE "Path",
      at |-> s,
      method |-> [m EXCEPT !.depth = @ + 1]]

\* Content::persist writes a mask of the slots in use and their handles;
\* restore deals the handles out again.
Encode(n) ==
  [width |-> Width(n),
   mask |-> {s \in 1 .. Width(n) : n.kids[s].tag # "None"},
   handles |-> SelectSeq(n.kids, LAMBDA h : h.tag # "None")]
Decode(e) ==
  [kids |-> [s \in 1 .. e.width |->
     IF s \in e.mask THEN e.handles[Cardinality({r \in e.mask : r <= s})]
     ELSE [tag |-> "None"]]]
HamtRecode(n) == Decode(Encode(n))

INSTANCE Branches WITH
  LeafAnn <- LeafCount, Join <- AddCounts, CountOf <- Cardinal,
  KeySearch <- HamtSearch, KeySelect <- HamtSelect, Recode <- HamtRecode

EmptyNode(width) == [kids |-> [s \in 1 .. width |-> None]]

-----------------------------------------------------------------------------
(* HAMTTrait *)

\* sub_insert of leaf l: the node it leaves and what it returns.
RECURSIVE SubInsert(_, _, _, _)
SubInsert(n, depth, l, bad) ==
  LET s == SlotOf(Width(n), Hash[l.key], depth)
      h == At(n, s)
      result(child, val) == [node |-> With(n, s, child), ok |-> TRUE, val |-> val]
  IN CASE Unreadable(h, bad) -> [result(None, NoVal) EXCEPT !.ok = FALSE]
       [] h.tag = "None" -> result(Leaf(l), NoVal)
       [] h.tag = "Leaf" /\ h.leaf.key = l.key -> result(Leaf(l), h.leaf.val)
       [] h.tag = "Leaf" /\ h.leaf.key # l.key ->
            LET one == SubInsert(EmptyNode(Width(n)), depth + 1, l, bad).node
                two == SubInsert(one, depth + 1, h.leaf, bad).node
            IN result(NewNode(two), NoVal)
       [] h.tag = "Node" ->
            LET r == SubInsert(h.node, depth + 1, l, bad)
            IN [r EXCEPT !.node = With(n, s, Dropped(h, @))]

\* remove_singleton: it looks at the handles in order, up to the first subtree
\* or second leaf, reading the subtree.
Before(n, i) == {j \in 0 .. i - 1 : At(n, j).tag # "None"}
SingletonFails(n, bad) ==
  \E i \in 0 .. Width(n) - 1 :
    /\ Unreadable(At(n, i), bad)
    /\ Cardinality(Before(n, i)) <= 1
    /\ \A j \in Before(n, i) : At(n, j).tag = "Leaf"
Singleton(n) ==
  {i \in 0 .. Width(n) - 1 : At(n, i).tag = "Leaf" /\ Before(n, Width(n)) = {i}}

Removed(n, tag, leaf, up) == [node |-> n, tag |-> tag, leaf |-> leaf, up |-> up]

\* Mutant: it stays where it is.
SettleThere(n, depth, leaf, bad) == Removed(n, "leaf", leaf, None)

\* The end of sub_remove, leaf being out of n: below the root, a leaf that is
\* alone in n goes up.
Settle(n, depth, leaf, bad) ==
  CASE depth = 0 -> Removed(n, "leaf", leaf, None)
    [] depth > 0 /\ SingletonFails(n, bad) -> Removed(n, "error", None, None)
    [] depth > 0 /\ Singleton(n) # {} ->
         LET i == CHOOSE i \in Singleton(n) : TRUE
         IN Removed(With(n, i, None), "collapse", leaf, At(n, i).leaf)
    [] OTHER -> Removed(n, "leaf", leaf, None)

RECURSIVE SubRemove(_, _, _, _)
SubRemove(n, depth, k, bad) ==
  LET s == SlotOf(Width(n), Hash[k], depth)
      h == At(n, s)
  IN CASE Unreadable(h, bad) -> Removed(With(n, s, None), "error", None, None)
       [] h.tag = "Leaf" /\ h.leaf.key = k -> Settle(With(n, s, None), depth, h.leaf, bad)
       [] h.tag = "Node" ->
            LET r == SubRemove(h.node, depth + 1, k, bad)
            IN IF r.tag = "collapse"
               THEN Settle(With(n, s, Leaf(r.up)), depth, r.leaf, bad)
               ELSE [r EXCEPT !.node = With(n, s, Dropped(h, @))]
       [] OTHER -> Removed(n, "none", None, None)

-----------------------------------------------------------------------------
(* The map *)

Insert(l) ==
  /\ Idle
  /\ \E bad \in Reads(tree) :
       LET r == SubInsert(tree, 0, l, bad)
       IN /\ bad # NoNode => ~r.ok
          /\ Changed(r.node, IF r.ok THEN Reply("insert", l.key, r.val) ELSE Failed)

Remove(k) ==
  /\ Idle
  /\ \E bad \in Reads(tree) :
       LET r == SubRemove(tree, 0, k, bad)
       IN /\ bad # NoNode => r.tag = "error"
          /\ Changed(r.node, CASE r.tag = "error" -> Failed
                               [] r.tag = "leaf"  -> Reply("remove", k, r.leaf.val)
                               [] r.tag = "none"  -> Reply("remove", k, NoVal)
                               [] OTHER -> Panicked)

Init ==
  \E width \in {4, 16} : BranchInit(EmptyNode(width))

Next ==
  \/ \E l \in Input : Insert(l)
  \/ \E k \in Key : Remove(k)
  \/ BranchNext

Spec == Init /\ [][Next]_vars

-----------------------------------------------------------------------------
(* Properties *)

\* The trie is a map (KVMap): what insert, remove, get and get_mut return and
\* leave behind, over splits, collapses and saving. A call whose read
\* fails loses keys at worst.
Map == INSTANCE KVMap WITH map <- MapOf(tree), Value <- {l.val : l \in Input}
ImplementsMap == Map!Spec

\* The one trie of a set of leaves, grown from the top: a leaf alone in its
\* slot is there itself, two or more are in a subtree.
RECURSIVE Grown(_, _, _)
Grown(ls, width, depth) ==
  [kids |-> [s \in 1 .. width |->
     LET here == {l \in ls : SlotOf(width, Hash[l.key], depth) = s - 1}
     IN CASE here = {} -> None
          [] Cardinality(here) = 1 -> Leaf(CHOOSE l \in here : TRUE)
          [] OTHER -> [tag |-> "Node", node |-> Grown(here, width, depth + 1),
                       ann |-> Cardinality(here), stored |-> FALSE]]]

\* Equal maps are equal trees, counts included, and so have equal digests:
\* remove takes back what insert split, in any order of calls.
Canonical ==
  (faults = 0 /\ Idle) => Bare(tree) = Bare(Grown(Leaves(tree), Width(tree), 0))
=============================================================================
