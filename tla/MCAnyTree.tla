----------------------------- MODULE MCAnyTree -----------------------------
(* Constants of the model-checking run of AnyTree. *)
EXTENDS AnyTree, TLC

CONSTANTS k1, k2, u, v

\* The annotation also says which values there are, so that it changes with a write.
SizeAndVals(l) == [size |-> 1, vals |-> {l.val}]
AddUp(a, b) == [size |-> a.size + b.size, vals |-> a.vals \cup b.vals]
SizeOf(a) == a.size
Same(n) == n
MCInput == {[key |-> k1, val |-> u], [key |-> k1, val |-> v], [key |-> k2, val |-> u]}

KeyMethod(k) == [how |-> "key", key |-> k]

\* The first handle with the key at or below it.
Has(h, k) ==
  \/ h.tag = "Leaf" /\ h.leaf.key = k
  \/ h.tag = "Node" /\ \E l \in Leaves(h.node) : l.key = k
MCSelect(m, n) ==
  LET hits == {i \in DOMAIN n.kids : Has(n.kids[i], m.key)}
  IN IF hits = {} THEN Found("None", 0, m)
     ELSE LET i == Seqs!Min(hits)
          IN Found(IF n.kids[i].tag = "Leaf" THEN "Leaf" ELSE "Path", i - 1, m)

MCSearches(f) == {First, Nth(1)} \cup {KeyMethod(k) : k \in Key}

Ends == {None} \cup {Leaf(l) : l \in MCInput}

\* Handles to a node, in memory and persisted.
To(n) ==
  {NewNode(n)} \cup
    (IF \A g \in Subtrees(n) : g.stored THEN {[NewNode(n) EXCEPT !.stored = TRUE]} ELSE {})

\* Two slots, of which one is taken by a leaf or not at all.
Beside(ends, hs) == {[kids |-> <<e, h>>] : e \in ends, h \in hs} \cup
                    {[kids |-> <<h, e>>] : e \in ends, h \in hs}

Low == Beside(Ends, Ends)
Full(ns) == {n \in ns : ~Empty(n)}
Middle == Beside({None, Leaf([key |-> k2, val |-> u])}, UNION {To(n) : n \in Full(Low)})
High == Beside({None}, UNION {To(n) : n \in Middle})

\* Trees of up to three levels, with every annotation fresh.
MCWhole == Low \cup Middle \cup High

\* After a failed read also those with a subtree that is gone, and the old annotation.
Gone(h) == [h EXCEPT !.node = [kids |-> <<None, None>>], !.stored = FALSE]
MCNode ==
  MCWhole \cup Beside({Leaf([key |-> k1, val |-> u])}, {Gone(h) : h \in UNION {To(n) : n \in Full(Low)}})

MCAnswers == {NoReply, Failed}
=============================================================================
