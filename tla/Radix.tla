-------------------------------- MODULE Radix ---------------------------------
(***************************************************************************)
(* The radix tree of structures/radix. A node has 17 handles: the first    *)
(* for the value of the key that ends at the node, the others for the next *)
(* nibble of a key, each with a prefix, the nibbles that follow. Leaves    *)
(* are values; here they carry their key too, for the properties: no guard *)
(* looks at it. A call is one step; its reads may fail, and a call that    *)
(* panics ends the program.                                                *)
(***************************************************************************)
EXTENDS Nibbles, FiniteSets

CONSTANTS
  Key,          \* sequences of bytes
  NoVal,
  Input,        \* the key-value pairs that calls may write
  Searches(_),  \* the searches made after so many failed reads (a bound)
  MaxFaults     \* bound on the reads that fail

ASSUME KeysAreBytes == Key \subseteq Seq(Byte)

VARIABLES tree, reply, levels, walk, faults

vars == <<tree, reply, levels, walk, faults>>

BUCKETS == 17

\* The Cardinality annotation.
LeafCount(l) == 1
AddCounts(a, b) == a + b
Cardinal(a) == a

\* Nibbles as a search method. Offset 0 is the value of the node.
RadixSearch(k) == [how |-> "key", key |-> k, rest |-> NibblesOf(k)]
RadixSelect(m, n) ==
  LET i == FirstNibble(m.rest) + 1
      rest == OtherNibbles(m.rest)
      tag == n.kids[i + 1].tag
      common == CommonLen(n.prefixes[i], rest)
      found(what, at, left) == [tag |-> what, at |-> at, method |-> [m EXCEPT !.rest = left]]
  IN CASE Count(m.rest) = 0 -> found("Leaf", 0, m.rest)
       [] Count(m.rest) > 0 /\ common = Count(rest) /\ tag = "Leaf" -> found("Leaf", i, rest)
       [] OTHER -> found("Path", i, IF tag = "Node" THEN TrimFront(rest, common) ELSE rest)

RadixRecode(n) == [n EXCEPT !.prefixes = [i \in DOMAIN @ |-> Restored(Saved(@[i]))]]

INSTANCE Branches WITH
  LeafAnn <- LeafCount, Join <- AddCounts, CountOf <- Cardinal,
  KeySearch <- RadixSearch, KeySelect <- RadixSelect, Recode <- RadixRecode

EmptyNode ==
  [kids |-> [i \in 1 .. BUCKETS |-> None],
   prefixes |-> [i \in 1 .. BUCKETS - 1 |-> NoNibbles]]

\* Mutant: the prefix is not changed.
PutOnly(n, i, h, prefix) == With(n, i, h)

\* A node with handle h and its prefix at offset i.
Put(n, i, h, prefix) == [With(n, i, h) EXCEPT !.prefixes[i] = prefix]

\* What a recursive call leaves in its node and its result.
Outcome(n, tag, leaf) == [node |-> n, tag |-> tag, leaf |-> leaf]
Panic == Outcome(EmptyNode, "panic", None)

-----------------------------------------------------------------------------
(* _insert *)

RECURSIVE SubInsert(_, _, _, _)
SubInsert(n, search, l, bad) ==
  LET ends == Count(search) = 0
      i == IF ends THEN 0 ELSE FirstNibble(search) + 1
      h == At(n, i)
      rest == OtherNibbles(search)
      path == n.prefixes[i]
      common == CommonPrefix(rest, path)
      short == Count(common) < Count(path)
      all == ~short /\ Count(common) = Count(rest)
  IN CASE ends /\ h.tag = "None" -> Outcome(With(n, 0, Leaf(l)), "new", None)
       [] ends /\ h.tag = "Leaf" -> Outcome(With(n, 0, Leaf(l)), "replaced", h.leaf)
       [] ~ends /\ h.tag = "None" -> Outcome(Put(n, i, Leaf(l), rest), "new", None)
       [] ~ends /\ h.tag = "Leaf" /\ all -> Outcome(With(n, i, Leaf(l)), "replaced", h.leaf)
       [] ~ends /\ h.tag # "None" /\ short ->
            LET old == TrimFront(path, Count(common))
                split == Put(EmptyNode, FirstNibble(old) + 1, h, OtherNibbles(old))
                two == SubInsert(split, TrimFront(rest, Count(common)), l, bad).node
            IN Outcome(Put(n, i, NewNode(two), common), "new", None)
       [] ~ends /\ h.tag = "Node" /\ ~short /\ ~all ->
            IF Unreadable(h, bad) THEN Outcome(With(n, i, None), "error", None)
            ELSE LET r == SubInsert(h.node, TrimFront(rest, Count(common)), l, bad)
                 IN [r EXCEPT !.node = With(n, i, Dropped(h, @))]
       [] OTHER -> Panic

-----------------------------------------------------------------------------
(* _remove *)

\* remove_singleton: the offset of the only handle of n if that is a leaf.
Singleton(n) ==
  LET full == {i \in 0 .. BUCKETS - 1 : At(n, i).tag # "None"}
  IN {i \in full : full = {i} /\ At(n, i).tag = "Leaf"}

\* Mutant: also at the root.
SettleAnywhere(n, depth, leaf) ==
  IF Singleton(n) = {} THEN Outcome(n, "leaf", leaf)
  ELSE [node |-> n, tag |-> "collapse", leaf |-> leaf,
        up |-> Handles(n)[1].leaf, prefix |-> NoNibbles, at |-> 0]

\* leaf was taken out of n. Below the root, a value that is alone then goes up
\* with its prefix, which the handle at offset 0 has none of.
Settle(n, depth, leaf) ==
  LET up == IF depth > 0 THEN Singleton(n) ELSE {}
      i == CHOOSE i \in up : TRUE
  IN CASE up = {} -> Outcome(n, "leaf", leaf)
       [] up = {0} -> Panic
       [] OTHER -> [node |-> n, tag |-> "collapse", leaf |-> leaf,
                   up |-> At(n, i).leaf, prefix |-> n.prefixes[i], at |-> i]

RECURSIVE SubRemove(_, _, _, _)
SubRemove(n, search, depth, bad) ==
  LET ends == Count(search) = 0
      i == IF ends THEN 0 ELSE FirstNibble(search) + 1
      h == At(n, i)
      rest == OtherNibbles(search)
      path == n.prefixes[i]
      common == CommonLen(rest, path)
      short == common < Count(path)
      all == ~short /\ common = Count(rest)
  IN CASE h.tag = "None" \/ (~ends /\ short) -> Outcome(n, "none", None)
       [] ends /\ h.tag = "Leaf" -> Outcome(With(n, 0, None), "leaf", h.leaf)
       [] ~ends /\ h.tag = "Leaf" /\ all ->
            Settle(Put(n, i, None, NoNibbles), depth, h.leaf)
       [] ~ends /\ h.tag = "Node" /\ ~short /\ ~all ->
            IF Unreadable(h, bad) THEN Outcome(With(n, i, None), "error", None)
            ELSE LET r == SubRemove(h.node, TrimFront(rest, common), depth + 1, bad)
                     joined == Extended(Push(path, r.at - 1), r.prefix)
                 IN IF r.tag = "collapse"
                    THEN Outcome(Put(n, i, Leaf(r.up), joined), "leaf", r.leaf)
                    ELSE [r EXCEPT !.node = With(n, i, Dropped(h, @))]
       [] OTHER -> Panic

-----------------------------------------------------------------------------
(* The map *)

Answered(r, answer) ==
  CASE r.tag = "error" -> Changed(r.node, Failed)
    [] r.tag = "panic" -> Changed(EmptyNode, Panicked)
    [] OTHER -> Changed(r.node, answer)

Insert(l) ==
  /\ Idle
  /\ \E bad \in Reads(tree) :
       LET r == SubInsert(tree, NibblesOf(l.key), l, bad)
       IN /\ bad # NoNode => r.tag = "error"
          /\ Answered(r, Reply("insert", l.key, IF r.tag = "replaced" THEN r.leaf.val ELSE NoVal))

Remove(k) ==
  /\ Idle
  /\ \E bad \in Reads(tree) :
       LET r == SubRemove(tree, NibblesOf(k), 0, bad)
       IN /\ bad # NoNode => r.tag = "error"
          /\ Answered(IF r.tag = "collapse" THEN Panic ELSE r,
                      Reply("remove", k, IF r.tag = "leaf" THEN r.leaf.val ELSE NoVal))

Init == BranchInit(EmptyNode)

Next ==
  \/ \E l \in Input : Insert(l)
  \/ \E k \in Key : Remove(k)
  \/ BranchNext

Spec == Init /\ [][Next]_vars

-----------------------------------------------------------------------------
(* Properties *)

\* The tree is a map (KVMap), over splits, collapses and saving, as long as no
\* key but the empty one is the beginning of another.
Map == INSTANCE KVMap WITH
  map <- MapOf(tree),
  reply <- IF reply = Panicked THEN Failed ELSE reply,
  Value <- {l.val : l \in Input}
ImplementsMap == Map!Spec

\* The nibbles on the way to the handle at offset i of n, and whether those to
\* each value below a handle are its key.
Way(n, i, before) == IF i = 0 THEN before ELSE before \o <<i - 1>> \o Spelled(n.prefixes[i])
RECURSIVE Spells(_, _)
Spells(h, way) ==
  /\ h.tag = "Leaf" => way = Spelled(NibblesOf(h.leaf.key))
  /\ h.tag = "Node" => \A i \in 0 .. BUCKETS - 1 : Spells(At(h.node, i), Way(h.node, i, way))

\* The way to a value spells the key it was inserted under, after every split
\* that cuts a prefix, collapse that joins two, and save that shifts one inside
\* its bytes (lib.rs:196-216, 319-327; nibbles.rs:294-322).
KeysSpelled ==
  \A i \in 0 .. BUCKETS - 1 : Spells(At(tree, i), Way(tree, i, <<>>))

\* The unreachable!() and into_leaf() of _insert and _remove are not reached.
NeverPanics == reply # Panicked

\* Removing the last value of a node that is not the root leaves the node there,
\* empty, with its old annotation (lib.rs:280-291). Other annotations are right.
StaleOnlyIfEmpty ==
  \A h \in Held(tree) :
    (h.tag = "Node" /\ ~Empty(h.node)) => h.ann = Annotation(h.node)

\* get finds the value that was inserted under the key, also when the map has
\* "keys that are subsets of other keys" (lib.rs:160): get (lib.rs:133-139)
\* agrees with a HashMap, as the tests ask (tests/quickcheck_map.rs:79-88).
GetsItsOwn ==
  (reply.op = "get" /\ ~Closed) => KeyAt(levels) = reply.key
=============================================================================
