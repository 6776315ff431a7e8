--------------------------- MODULE BranchesProofs ---------------------------
(***************************************************************************)
(* Branches, for any structure, whatever its calls do to the tree,         *)
(* whatever its search method selects and however a node is encoded:       *)
(* iteration visits leaf after leaf, a branch leaves the keys in their     *)
(* places and no stale annotation, and a proof of membership is accepted   *)
(* only against a tree that has the leaf, and against that of its branch.  *)
(***************************************************************************)
EXTENDS AnyTree, SequenceTheorems, FiniteSetTheorems, WellFoundedInduction, TLAPS

\* A handle that leads to nothing, a leaf or a node of Below.
IsHandle(h, Below) ==
  \/ h = None
  \/ \E l \in Input : h = Leaf(l)
  \/ \E m \in Below : \E a, b : h = [tag |-> "Node", node |-> m, ann |-> a, stored |-> b]

\* m may be what n has become.
Becomes(n, m, All, Below) == m \in All /\ (n \in Below => m \in Below)

\* All are nodes, and Below those of them that handles may lead to: handles are
\* a sequence, trees are not endless, and another leaf, another subtree and a
\* save leave nodes. So it is with the nodes of a type in the source.
Trees(All, Below) ==
  /\ Below \subseteq All
  /\ \A n \in All :
       /\ "kids" \in DOMAIN n
       /\ \E H : n.kids \in Seq(H)
       /\ \E d \in Nat : Tiers(n)[d] = {}
       /\ \A i \in DOMAIN n.kids :
            /\ IsHandle(n.kids[i], Below)
            /\ n.kids[i].tag = "Leaf" =>
                 \A l \in Input : Becomes(n, [n EXCEPT !.kids[i] = Leaf(l)], All, Below)
            /\ n.kids[i].tag = "Node" =>
                 \A m \in Below : Becomes(n, [n EXCEPT !.kids[i] = NewNode(m)], All, Below)
       /\ Stored(n) \in All

-----------------------------------------------------------------------------
(***************************************************************************)
(* The nodes and handles of a tree.                                        *)
(***************************************************************************)

\* Induction, for a set.
LEMMA UpTo ==
  ASSUME NEW S \in SUBSET Nat, 0 \in S, \A n \in S : n + 1 \in S
  PROVE  S = Nat
<1> SUFFICES ASSUME Nat \ S # {}
             PROVE  FALSE
  OBVIOUS
<1>1. PICK m \in Nat \ S : \A k \in Nat \ S : <<k, m>> \notin OpToRel(<, Nat)
  BY NatLessThanWellFounded, WFMin
<1>2. m \in Nat /\ m # 0
  OBVIOUS
<1>3. m - 1 \in Nat /\ m - 1 < m /\ (m - 1) + 1 = m
  BY <1>2
<1>4. m - 1 \in S
  BY <1>1, <1>3 DEF OpToRel
<1> QED BY <1>3, <1>4

\* The nodes below those of a tier.
Under(es) ==
  UNION {{<<Append(e[1], i), e[2].kids[i].node>> :
            i \in {j \in DOMAIN e[2].kids : e[2].kids[j].tag = "Node"}} : e \in es}

\* What is repeated: going down a tier, closing the lowest level of a branch and
\* a round of a search.
Once(what, bad, x) ==
  CASE what = "tier"  -> Under(x)
    [] what = "pop"   -> PopLevel(x)
    [] what = "round" -> IF x.tag = "again" THEN Round(x, bad) ELSE x

\* The first m repetitions, in f.
Repeated(what, bad, a, m, f) ==
  f = [k \in 0 .. m |-> IF k = 0 THEN a ELSE Once(what, bad, f[k - 1])]

\* All of them.
AlwaysRepeated(what, bad, a, f) ==
  f = [k \in Nat |-> IF k = 0 THEN a ELSE Once(what, bad, f[k - 1])]

\* It can be repeated as often as one likes.
LEMMA Repeats ==
  ASSUME NEW what, NEW bad, NEW a
  PROVE  \E f : AlwaysRepeated(what, bad, a, f)
<1> DEFINE Is(m, f) == Repeated(what, bad, a, m, f)
           Least(m) == CHOOSE f : Is(m, f)
           all == [d \in Nat |-> Least(d)[d]]
<1>0. \A m, f : Is(m, f) => \A d \in 0 .. m : f[d] = IF d = 0 THEN a ELSE Once(what, bad, f[d - 1])
  BY Zenon DEF Repeated
<1>a. \A m, f : f = [d \in 0 .. m |-> IF d = 0 THEN a ELSE Once(what, bad, f[d - 1])] => Is(m, f)
  BY DEF Repeated
<1> HIDE DEF Is
<1>1. ASSUME NEW m \in Nat, NEW l \in Nat, m <= l, NEW f, NEW g, Is(m, f), Is(l, g)
      PROVE  f[m] = g[m]
  <2> DEFINE S == {d \in Nat : d <= m => f[d] = g[d]}
  <2>1. /\ \A d \in 0 .. m : f[d] = IF d = 0 THEN a ELSE Once(what, bad, f[d - 1])
        /\ \A d \in 0 .. l : g[d] = IF d = 0 THEN a ELSE Once(what, bad, g[d - 1])
    BY <1>0, <1>1, Zenon
  <2>2. 0 \in S
    <3>1. 0 \in 0 .. m /\ 0 \in 0 .. l
      BY <1>1
    <3>2. f[0] = a /\ g[0] = a
      BY <2>1, <3>1, Zenon
    <3> QED BY <3>2
  <2>3. ASSUME NEW d \in S
        PROVE  d + 1 \in S
    <3> SUFFICES ASSUME d + 1 <= m
                 PROVE  f[d + 1] = g[d + 1]
      OBVIOUS
    <3>1. d + 1 \in 0 .. m /\ d + 1 \in 0 .. l /\ d + 1 # 0 /\ (d + 1) - 1 = d /\ f[d] = g[d]
      BY <1>1
    <3>2. f[d + 1] = Once(what, bad, f[d]) /\ g[d + 1] = Once(what, bad, g[d])
      BY <2>1, <3>1
    <3> QED BY <3>1, <3>2
  <2>4. S \in SUBSET Nat
    OBVIOUS
  <2> HIDE DEF S
  <2>5. S = Nat
    BY <2>2, <2>3, <2>4, UpTo
  <2> QED BY <2>5 DEF S
<1>2. \A m \in Nat : \E f : Is(m, f)
  <2> DEFINE S == {m \in Nat : \E f : Is(m, f)}
  <2>1. 0 \in S
    <3> DEFINE f == [d \in 0 .. 0 |-> a]
    <3>1. f = [d \in 0 .. 0 |-> IF d = 0 THEN a ELSE Once(what, bad, f[d - 1])]
      OBVIOUS
    <3> HIDE DEF f
    <3> QED BY <1>a, <3>1
  <2>2. ASSUME NEW m \in S
        PROVE  m + 1 \in S
    <3>1. PICK f : Is(m, f)
      OBVIOUS
    <3> DEFINE g == [d \in 0 .. m + 1 |-> IF d = m + 1 THEN Once(what, bad, f[m]) ELSE f[d]]
    <3>2. ASSUME NEW d \in 0 .. m + 1
          PROVE  g[d] = IF d = 0 THEN a ELSE Once(what, bad, g[d - 1])
      <4>1. CASE d = m + 1
        <5>1. d # 0 /\ d - 1 = m /\ d - 1 # m + 1 /\ d - 1 \in 0 .. m + 1
          BY <4>1
        <5>2. g[d] = Once(what, bad, f[m]) /\ g[d - 1] = f[m]
          BY <4>1, <5>1
        <5> HIDE DEF g
        <5> QED BY <5>1, <5>2
      <4>2. CASE d # m + 1
        <5>1. d \in 0 .. m /\ (d # 0 => d - 1 \in 0 .. m + 1 /\ d - 1 # m + 1)
          BY <4>2
        <5>2. g[d] = f[d] /\ (d # 0 => g[d - 1] = f[d - 1])
          BY <4>2, <5>1
        <5>3. \A k \in 0 .. m : f[k] = IF k = 0 THEN a ELSE Once(what, bad, f[k - 1])
          BY <1>0, <3>1, Zenon
        <5> HIDE DEF g
        <5> QED BY <5>1, <5>2, <5>3
      <4> QED BY <4>1, <4>2
    <3>3. g = [d \in 0 .. m + 1 |-> IF d = 0 THEN a ELSE Once(what, bad, g[d - 1])]
      <4>1. g = [d \in 0 .. m + 1 |-> g[d]]
        OBVIOUS
      <4> HIDE DEF g
      <4> QED BY <3>2, <4>1
    <3>4. m + 1 \in Nat
      OBVIOUS
    <3> HIDE DEF g
    <3>5. Is(m + 1, g)
      BY <1>a, <3>3, Zenon
    <3> QED BY <3>4, <3>5
  <2>3. S \in SUBSET Nat
    OBVIOUS
  <2> HIDE DEF S
  <2>4. S = Nat
    BY <2>1, <2>2, <2>3, UpTo
  <2> QED BY <2>4 DEF S
<1>3. \A m \in Nat : Is(m, Least(m))
  BY <1>2
<1>4. ASSUME NEW d \in Nat
      PROVE  all[d] = IF d = 0 THEN a ELSE Once(what, bad, all[d - 1])
  <2>1. all[d] = Least(d)[d]
    OBVIOUS
  <2>2. Least(d)[d] = IF d = 0 THEN a ELSE Once(what, bad, Least(d)[d - 1])
    <3>1. Is(d, Least(d)) /\ d \in 0 .. d
      BY <1>3
    <3> HIDE DEF Least
    <3> QED BY <1>0, <3>1, Zenon
  <2>3. ASSUME d # 0
        PROVE  Least(d)[d - 1] = all[d - 1]
    <3>1. d - 1 \in Nat /\ d - 1 <= d
      BY <2>3
    <3>2. all[d - 1] = Least(d - 1)[d - 1]
      BY <3>1
    <3> HIDE DEF Least, all
    <3> QED BY <1>1, <1>3, <3>1, <3>2
  <2> HIDE DEF Least, all
  <2> QED BY <2>1, <2>2, <2>3
<1>5. all = [d \in Nat |-> IF d = 0 THEN a ELSE Once(what, bad, all[d - 1])]
  <2>1. all = [d \in Nat |-> all[d]]
    OBVIOUS
  <2> HIDE DEF Least, all
  <2> QED BY <1>4, <2>1
<1> HIDE DEF Least, all
<1>6. AlwaysRepeated(what, bad, a, all)
  BY <1>5, Zenon DEF AlwaysRepeated
<1> QED BY <1>6

\* Each tier is what is under the one above it.
LEMMA TiersAre ==
  ASSUME NEW n
  PROVE  /\ Tiers(n)[0] = {<< <<>>, n >>}
         /\ \A d \in Nat : Tiers(n)[d + 1] = Under(Tiers(n)[d])
<1>1. Tiers(n) = CHOOSE f : f = [d \in Nat |-> IF d = 0 THEN {<< <<>>, n >>} ELSE Under(f[d - 1])]
  BY DEF Tiers, Under
<1>a. PICK what : what = "tier"
  OBVIOUS
<1>2. \A x : Once(what, n, x) = Under(x)
  BY <1>a DEF Once
<1>3. PICK f : AlwaysRepeated(what, n, {<< <<>>, n >>}, f)
  BY Repeats
<1>4. f = [d \in Nat |-> IF d = 0 THEN {<< <<>>, n >>} ELSE Under(f[d - 1])]
  BY <1>2, <1>3, Zenon DEF AlwaysRepeated
<1>5. Tiers(n) = [d \in Nat |-> IF d = 0 THEN {<< <<>>, n >>} ELSE Under(Tiers(n)[d - 1])]
  BY <1>1, <1>4, Zenon
<1>6. \A d \in Nat : Tiers(n)[d] = IF d = 0 THEN {<< <<>>, n >>} ELSE Under(Tiers(n)[d - 1])
  BY <1>5, Zenon
<1>7. \A d \in Nat : d + 1 \in Nat /\ d + 1 # 0 /\ (d + 1) - 1 = d
  OBVIOUS
<1> QED BY <1>6, <1>7

\* The branch after each level that is closed.
Popped(ls, f) == f = [k \in Nat |-> IF k = 0 THEN ls ELSE PopLevel(f[k - 1])]

\* How a BranchMut is dropped level by level, and what it leaves.
RelinkedBy(ls, f) ==
  /\ Relinked(ls) = f[Len(ls) - 1][1].node
  /\ f[0] = ls
  /\ \A k \in Nat : f[k + 1] = PopLevel(f[k])

\* Every BranchMut is.
LEMMA RelinkedIs ==
  ASSUME NEW ls
  PROVE  \E f : RelinkedBy(ls, f)
<1>a. PICK what : what = "pop"
  OBVIOUS
<1>1. \A x : Once(what, ls, x) = PopLevel(x)
  BY <1>a DEF Once
<1>2. PICK f : AlwaysRepeated(what, ls, ls, f)
  BY Repeats
<1>3. Popped(ls, f)
  BY <1>1, <1>2, Zenon DEF Popped, AlwaysRepeated
<1>4. Relinked(ls) = (CHOOSE g : Popped(ls, g))[Len(ls) - 1][1].node
  BY DEF Relinked, Popped
<1>5. PICK g : Popped(ls, g) /\ Relinked(ls) = g[Len(ls) - 1][1].node
  BY <1>3, <1>4
<1>6. \A k \in Nat : g[k] = IF k = 0 THEN ls ELSE PopLevel(g[k - 1])
  BY <1>5, Zenon DEF Popped
<1>7. \A k \in Nat : k + 1 \in Nat /\ k + 1 # 0 /\ (k + 1) - 1 = k
  OBVIOUS
<1>8. g[0] = ls /\ \A k \in Nat : g[k + 1] = PopLevel(g[k])
  BY <1>6, <1>7
<1> QED BY <1>5, <1>8, Zenon DEF RelinkedBy

\* The states of a search, round by round.
Rounds(a, bad, f) ==
  f = [k \in Nat |-> IF k = 0 THEN a
                     ELSE LET s == f[k - 1] IN IF s.tag = "again" THEN Round(s, bad) ELSE s]

\* How a search goes from round to round, and ends.
SearchBy(ls, m, bad, f) ==
  /\ Search(ls, m, bad) = f[2 * Cardinality(Placed(ls[1].node)) + 1]
  /\ f[0] = [tag |-> "again", levels |-> ls, method |-> m]
  /\ \A k \in Nat : f[k + 1] = IF f[k].tag = "again" THEN Round(f[k], bad) ELSE f[k]

\* Every search does.
LEMMA SearchIs ==
  ASSUME NEW ls, NEW m, NEW bad
  PROVE  \E f : SearchBy(ls, m, bad, f)
<1> DEFINE a == [tag |-> "again", levels |-> ls, method |-> m]
<1>a. PICK what : what = "round"
  OBVIOUS
<1>1. \A x : Once(what, bad, x) = IF x.tag = "again" THEN Round(x, bad) ELSE x
  BY <1>a DEF Once
<1>2. PICK f : AlwaysRepeated(what, bad, a, f)
  BY Repeats
<1>3. Rounds(a, bad, f)
  BY <1>1, <1>2, Zenon DEF Rounds, AlwaysRepeated
<1>4. Search(ls, m, bad) = (CHOOSE g : Rounds(a, bad, g))[2 * Cardinality(Placed(ls[1].node)) + 1]
  BY DEF Search, Rounds
<1> HIDE DEF a
<1>5. PICK g : /\ Rounds(a, bad, g)
               /\ Search(ls, m, bad) = g[2 * Cardinality(Placed(ls[1].node)) + 1]
  BY <1>3, <1>4
<1>6. \A k \in Nat : g[k] = IF k = 0 THEN a
                            ELSE LET s == g[k - 1] IN IF s.tag = "again" THEN Round(s, bad) ELSE s
  BY <1>5, Zenon DEF Rounds
<1>7. \A k \in Nat : k + 1 \in Nat /\ k + 1 # 0 /\ (k + 1) - 1 = k
  OBVIOUS
<1> QED BY <1>5, <1>6, <1>7 DEF a, SearchBy

\* The tiers from d on, down to the first that is empty.
From(tier, f) ==
  f = [d \in Nat |-> IF tier[d] = {} THEN {} ELSE tier[d] \cup f[d + 1]]

\* There is nothing under an empty tier.
LEMMA EmptyUnder ==
  ASSUME NEW n, NEW d \in Nat, Tiers(n)[d] = {}
  PROVE  \A k \in Nat : k >= d => Tiers(n)[k] = {}
<1> DEFINE S == {k \in Nat : Tiers(n)[d + k] = {}}
<1>1. 0 \in S
  OBVIOUS
<1>2. ASSUME NEW k \in S
      PROVE  k + 1 \in S
  <2>1. d + k \in Nat /\ d + (k + 1) = (d + k) + 1 /\ k + 1 \in Nat
    OBVIOUS
  <2>2. Tiers(n)[(d + k) + 1] = Under(Tiers(n)[d + k])
    BY <2>1, TiersAre
  <2>3. Under({}) = {}
    BY DEF Under
  <2> QED BY <2>1, <2>2, <2>3
<1>3. S = Nat
  <2>1. S \in SUBSET Nat
    OBVIOUS
  <2> HIDE DEF S
  <2> QED BY <1>1, <1>2, <2>1, UpTo
<1>4. ASSUME NEW k \in Nat, k >= d
      PROVE  Tiers(n)[k] = {}
  <2>1. k - d \in Nat /\ d + (k - d) = k
    BY <1>4
  <2> QED BY <1>3, <2>1
<1> QED BY <1>4

\* The nodes of a tree that ends are those of its tiers.
LEMMA PlacedAre ==
  ASSUME NEW n, \E d \in Nat : Tiers(n)[d] = {}
  PROVE  \A e : e \in Placed(n) <=> \E d \in Nat : e \in Tiers(n)[d]
<1> DEFINE tier == Tiers(n)
           rest == [d \in Nat |-> UNION {tier[k] : k \in {j \in Nat : j >= d}}]
<1>1. PICK top \in Nat : tier[top] = {}
  OBVIOUS
<1>2. \A d \in Nat : tier[d] = {} => \A k \in Nat : k >= d => tier[k] = {}
  BY EmptyUnder
<1> HIDE DEF tier
<1>3. From(tier, rest)
  <2>1. ASSUME NEW d \in Nat
        PROVE  rest[d] = IF tier[d] = {} THEN {} ELSE tier[d] \cup rest[d + 1]
    <3>1. CASE tier[d] = {}
      BY <1>2, <3>1
    <3>2. CASE tier[d] # {}
      <4>1. d + 1 \in Nat /\ \A k \in Nat : k >= d <=> k = d \/ k >= d + 1
        OBVIOUS
      <4> QED BY <3>2, <4>1
    <3> QED BY <3>1, <3>2
  <2>2. rest = [d \in Nat |-> rest[d]]
    OBVIOUS
  <2> HIDE DEF rest
  <2> QED BY <2>1, <2>2 DEF From
<1>4. PICK f : From(tier, f) /\ Placed(n) = f[0]
  <2>1. Placed(n) = (CHOOSE f : From(tier, f))[0]
    BY DEF Placed, From, tier
  <2> HIDE DEF rest
  <2> QED BY <1>3, <2>1
<1>5. \A d \in Nat : f[d] = IF tier[d] = {} THEN {} ELSE tier[d] \cup f[d + 1]
  BY <1>4, Zenon DEF From
<1>6. ASSUME NEW k \in Nat
      PROVE  tier[k] \subseteq f[0]
  <2> DEFINE S == {j \in Nat : \A d \in Nat : tier[d + j] \subseteq f[d]}
  <2>1. 0 \in S
    <3> SUFFICES ASSUME NEW d \in Nat
                 PROVE  tier[d] \subseteq f[d]
      OBVIOUS
    <3>1. f[d] = IF tier[d] = {} THEN {} ELSE tier[d] \cup f[d + 1]
      BY <1>5
    <3> QED BY <3>1
  <2>2. ASSUME NEW j \in S
        PROVE  j + 1 \in S
    <3> SUFFICES ASSUME NEW d \in Nat
                 PROVE  tier[d + (j + 1)] \subseteq f[d]
      OBVIOUS
    <3>1. d + 1 \in Nat /\ (d + 1) + j = d + (j + 1) /\ d + (j + 1) \in Nat /\ d + (j + 1) >= d
      OBVIOUS
    <3>2. tier[d + (j + 1)] \subseteq f[d + 1]
      BY <3>1
    <3>3. CASE tier[d] = {}
      BY <1>2, <3>1, <3>3
    <3>4. CASE tier[d] # {}
      BY <1>5, <3>2, <3>4
    <3> QED BY <3>3, <3>4
  <2>3. S = Nat
    <3>1. S \in SUBSET Nat
      OBVIOUS
    <3> HIDE DEF S
    <3> QED BY <2>1, <2>2, <3>1, UpTo
  <2>4. tier[0 + k] \subseteq f[0]
    BY <2>3
  <2> QED BY <2>4
<1>7. ASSUME NEW e \in f[0]
      PROVE  \E d \in Nat : e \in tier[d]
  <2> DEFINE S == {j \in Nat : \A d \in Nat : d + j >= top => f[d] \subseteq UNION {tier[k] : k \in Nat}}
  <2>1. 0 \in S
    <3> SUFFICES ASSUME NEW d \in Nat, d >= top
                 PROVE  f[d] = {}
      OBVIOUS
    <3>1. tier[d] = {}
      BY <1>1, <1>2
    <3> QED BY <1>5, <3>1
  <2>2. ASSUME NEW j \in S
        PROVE  j + 1 \in S
    <3> SUFFICES ASSUME NEW d \in Nat, d + (j + 1) >= top
                 PROVE  f[d] \subseteq UNION {tier[k] : k \in Nat}
      OBVIOUS
    <3>1. d + 1 \in Nat /\ (d + 1) + j >= top
      OBVIOUS
    <3>2. f[d + 1] \subseteq UNION {tier[k] : k \in Nat}
      BY <3>1
    <3>3. f[d] \subseteq tier[d] \cup f[d + 1]
      BY <1>5
    <3> QED BY <3>2, <3>3
  <2>3. S = Nat
    <3>1. S \in SUBSET Nat
      OBVIOUS
    <3> HIDE DEF S
    <3> QED BY <2>1, <2>2, <3>1, UpTo
  <2>4. f[0] \subseteq UNION {tier[k] : k \in Nat}
    <3>1. \A j \in Nat : \A d \in Nat : d + j >= top => f[d] \subseteq UNION {tier[k] : k \in Nat}
      BY <2>3
    <3>2. 0 \in Nat /\ 0 + top >= top
      OBVIOUS
    <3> HIDE DEF S
    <3> QED BY <3>1, <3>2
  <2> QED BY <2>4
<1> QED BY <1>4, <1>6, <1>7 DEF tier

\* Under a tier are the nodes that handles of its nodes lead to.
LEMMA UnderHas ==
  ASSUME NEW es, NEW g \in es, NEW j \in DOMAIN g[2].kids, g[2].kids[j].tag = "Node"
  PROVE  <<Append(g[1], j), g[2].kids[j].node>> \in Under(es)
<1> DEFINE below(e) == {<<Append(e[1], i), e[2].kids[i].node>> :
                          i \in {k \in DOMAIN e[2].kids : e[2].kids[k].tag = "Node"}}
<1>1. <<Append(g[1], j), g[2].kids[j].node>> \in below(g)
  OBVIOUS
<1>2. Under(es) = UNION {below(e) : e \in es}
  BY DEF Under
<1> HIDE DEF below
<1> QED BY <1>1, <1>2

\* A handle to a node is a record.
LEMMA NodeHandle ==
  ASSUME NEW Below, NEW h, IsHandle(h, Below), h.tag = "Node"
  PROVE  /\ h.node \in Below
         /\ \E m, a, b : h = [tag |-> "Node", node |-> m, ann |-> a, stored |-> b]
<1>1. h # None
  BY DEF None
<1>2. \A l : h # Leaf(l)
  BY DEF Leaf
<1>3. PICK m \in Below : \E a, b : h = [tag |-> "Node", node |-> m, ann |-> a, stored |-> b]
  BY <1>1, <1>2 DEF IsHandle
<1>4. PICK a, b : h = [tag |-> "Node", node |-> m, ann |-> a, stored |-> b]
  BY <1>3
<1> QED BY <1>4

\* The node that a handle of n leads to.
LEMMA KidNode ==
  ASSUME NEW All, NEW Below, Trees(All, Below), NEW n \in All, NEW i \in DOMAIN n.kids,
         n.kids[i].tag = "Node"
  PROVE  n.kids[i].node \in Below /\ n.kids[i].node \in All
<1>1. IsHandle(n.kids[i], Below) /\ Below \subseteq All
  BY DEF Trees
<1> QED BY <1>1, NodeHandle

\* The nodes of a tree of All are in All.
LEMMA PlacedNodes ==
  ASSUME NEW All, NEW Below, Trees(All, Below), NEW n \in All
  PROVE  \A e \in Placed(n) : e[2] \in All
<1> DEFINE S == {d \in Nat : \A e \in Tiers(n)[d] : e[2] \in All}
<1>1. 0 \in S
  BY TiersAre
<1>2. ASSUME NEW d \in S
      PROVE  d + 1 \in S
  <2>1. d \in Nat /\ d + 1 \in Nat /\ Tiers(n)[d + 1] = Under(Tiers(n)[d])
    BY TiersAre
  <2>2. ASSUME NEW e \in Under(Tiers(n)[d])
        PROVE  e[2] \in All
    <3>0. PICK g \in Tiers(n)[d] : \E i \in DOMAIN g[2].kids :
            g[2].kids[i].tag = "Node" /\ e = <<Append(g[1], i), g[2].kids[i].node>>
      BY <2>2 DEF Under
    <3>1. PICK i \in DOMAIN g[2].kids :
            g[2].kids[i].tag = "Node" /\ e = <<Append(g[1], i), g[2].kids[i].node>>
      BY <3>0
    <3>2. g[2] \in All
      OBVIOUS
    <3>3. g[2].kids[i].node \in All
      BY <3>1, <3>2, KidNode
    <3> QED BY <3>1, <3>3
  <2> QED BY <2>1, <2>2
<1>3. S = Nat
  <2>1. S \in SUBSET Nat
    OBVIOUS
  <2> HIDE DEF S
  <2> QED BY <1>1, <1>2, <2>1, UpTo
<1>4. \E d \in Nat : Tiers(n)[d] = {}
  BY DEF Trees
<1> QED BY <1>3, <1>4, PlacedAre

\* The way to a node of a tier has a step for each tier above it.
LEMMA TierWays ==
  ASSUME NEW All, NEW Below, Trees(All, Below), NEW n \in All
  PROVE  \A d \in Nat : \A e \in Tiers(n)[d] : e[1] \in Seq(Nat) /\ Len(e[1]) = d /\ e[2] \in All
<1> DEFINE Is(e, d) == e[1] \in Seq(Nat) /\ Len(e[1]) = d /\ e[2] \in All
           S == {d \in Nat : \A e \in Tiers(n)[d] : Is(e, d)}
<1>1. 0 \in S
  <2>1. << <<>>, n >>[1] = <<>> /\ << <<>>, n >>[2] = n /\ <<>> \in Seq(Nat) /\ Len(<<>>) = 0
    OBVIOUS
  <2>2. Is(<< <<>>, n >>, 0)
    BY <2>1
  <2> HIDE DEF Is
  <2> QED BY <2>2, TiersAre
<1>2. ASSUME NEW d \in S
      PROVE  d + 1 \in S
  <2>1. d \in Nat /\ d + 1 \in Nat /\ Tiers(n)[d + 1] = Under(Tiers(n)[d])
    BY TiersAre
  <2>2. ASSUME NEW e \in Under(Tiers(n)[d])
        PROVE  Is(e, d + 1)
    <3>0. PICK g \in Tiers(n)[d] : \E i \in DOMAIN g[2].kids :
            g[2].kids[i].tag = "Node" /\ e = <<Append(g[1], i), g[2].kids[i].node>>
      BY <2>2 DEF Under
    <3>1. PICK i \in DOMAIN g[2].kids :
            g[2].kids[i].tag = "Node" /\ e = <<Append(g[1], i), g[2].kids[i].node>>
      BY <3>0
    <3>2. Is(g, d)
      OBVIOUS
    <3>3. PICK way \in Seq(Nat), m \in All : way = g[1] /\ m = g[2] /\ Len(way) = d
      BY <3>2
    <3>4. m.kids[i].node \in All
      BY <3>1, <3>3, KidNode
    <3>5. i \in Nat
      <4>1. PICK H : m.kids \in Seq(H)
        BY DEF Trees
      <4> QED BY <3>1, <3>3, <4>1
    <3>6. Append(way, i) \in Seq(Nat) /\ Len(Append(way, i)) = d + 1
      BY <3>3, <3>5
    <3>7. e[1] = Append(way, i) /\ e[2] = m.kids[i].node
      BY <3>1, <3>3
    <3> QED BY <3>4, <3>6, <3>7
  <2> HIDE DEF Is
  <2> QED BY <2>1, <2>2
<1>3. S = Nat
  <2>1. S \in SUBSET Nat
    OBVIOUS
  <2> HIDE DEF S
  <2> QED BY <1>1, <1>2, <2>1, UpTo
<1> QED BY <1>3

\* What is in the tree of the i-th handle, as it is in the tree.
OnWay(i, e) == << <<i>> \o e[1], e[2] >>

\* A way goes on at its end.
LEMMA WayOn ==
  ASSUME NEW i \in Nat, NEW j \in Nat, NEW way \in Seq(Nat)
  PROVE  Append(<<i>> \o way, j) = <<i>> \o Append(way, j)
OBVIOUS

\* What is in a tree is where it is in the tree of a handle, after the way to that.
LEMMA TierOfKid ==
  ASSUME NEW All, NEW Below, Trees(All, Below), NEW n \in All, NEW i \in DOMAIN n.kids,
         n.kids[i].tag = "Node"
  PROVE  \A d \in Nat : \A e \in Tiers(n.kids[i].node)[d] :
           OnWay(i, e) \in Tiers(n)[d + 1]
<1>1. PICK k \in All : k = n.kids[i].node
  BY KidNode
<1> DEFINE Is(e, d) == OnWay(i, e) \in Tiers(n)[d + 1]
           S == {d \in Nat : \A e \in Tiers(k)[d] : Is(e, d)}
<1>0. i \in Nat
  <2>1. PICK H : n.kids \in Seq(H)
    BY DEF Trees
  <2> QED BY <2>1
<1>2. 0 \in S
  <2>1. Tiers(k)[0] = {<< <<>>, k >>} /\ Tiers(n)[0 + 1] = Under({<< <<>>, n >>})
    BY TiersAre
  <2>2. PICK g \in {<< <<>>, n >>} : g[1] = <<>> /\ g[2] = n
    OBVIOUS
  <2>3. <<Append(g[1], i), g[2].kids[i].node>> \in Under({<< <<>>, n >>})
    BY <2>2, UnderHas
  <2>4. Append(<<>>, i) = <<i>> \o <<>>
    BY <1>0
  <2>5. << <<i>> \o <<>>, k >> \in Tiers(n)[0 + 1]
    BY <1>1, <2>1, <2>2, <2>3, <2>4
  <2>6. << <<>>, k >>[1] = <<>> /\ << <<>>, k >>[2] = k
    OBVIOUS
  <2>7. Is(<< <<>>, k >>, 0)
    BY <2>5, <2>6 DEF OnWay
  <2> HIDE DEF Is
  <2> QED BY <2>1, <2>7
<1>3. ASSUME NEW d \in S
      PROVE  d + 1 \in S
  <2>1. /\ d \in Nat /\ d + 1 \in Nat
        /\ Tiers(n)[(d + 1) + 1] = Under(Tiers(n)[d + 1]) /\ Tiers(k)[d + 1] = Under(Tiers(k)[d])
    BY TiersAre
  <2>2. ASSUME NEW e \in Under(Tiers(k)[d])
        PROVE  Is(e, d + 1)
    <3>1. PICK y \in Tiers(k)[d] : \E j \in DOMAIN y[2].kids :
            y[2].kids[j].tag = "Node" /\ e = <<Append(y[1], j), y[2].kids[j].node>>
      BY <2>2 DEF Under
    <3>2. PICK j \in DOMAIN y[2].kids :
            y[2].kids[j].tag = "Node" /\ e = <<Append(y[1], j), y[2].kids[j].node>>
      BY <3>1
    <3>3. PICK way \in Seq(Nat), m \in All : way = y[1] /\ m = y[2]
      BY <2>1, TierWays
    <3>4. j \in Nat
      <4>1. PICK H : m.kids \in Seq(H)
        BY DEF Trees
      <4> QED BY <3>2, <3>3, <4>1
    <3>5. Is(y, d)
      OBVIOUS
    <3>6. PICK g \in Tiers(n)[d + 1] : g[1] = <<i>> \o way /\ g[2] = m
      BY <3>3, <3>5 DEF OnWay
    <3>7. <<Append(g[1], j), g[2].kids[j].node>> \in Under(Tiers(n)[d + 1])
      BY <3>2, <3>3, <3>6, UnderHas
    <3>8. Append(<<i>> \o way, j) = <<i>> \o Append(way, j)
      BY <1>0, <3>3, <3>4, WayOn
    <3>9. e[1] = Append(way, j) /\ e[2] = m.kids[j].node
      BY <3>2, <3>3
    <3>10. OnWay(i, e) \in Under(Tiers(n)[d + 1])
      BY <3>6, <3>7, <3>8, <3>9 DEF OnWay
    <3> QED BY <2>1, <3>10
  <2> HIDE DEF Is
  <2> QED BY <2>1, <2>2
<1>4. S = Nat
  <2>1. S \in SUBSET Nat
    OBVIOUS
  <2> HIDE DEF S
  <2> QED BY <1>2, <1>3, <2>1, UpTo
<1> QED BY <1>1, <1>4

\* Below the root of a tree there is nothing else.
LEMMA TierIs ==
  ASSUME NEW All, NEW Below, Trees(All, Below), NEW n \in All
  PROVE  \A d \in Nat : \A e \in Tiers(n)[d + 1] : \E i \in DOMAIN n.kids :
           /\ n.kids[i].tag = "Node"
           /\ \E g \in Tiers(n.kids[i].node)[d] : e = OnWay(i, g)
<1> DEFINE In(x, d) == \E i \in DOMAIN n.kids :
                         /\ n.kids[i].tag = "Node"
                         /\ \E g \in Tiers(n.kids[i].node)[d] : x = OnWay(i, g)
           S == {d \in Nat : \A x \in Tiers(n)[d + 1] : In(x, d)}
<1>0. PICK H : n.kids \in Seq(H)
  BY DEF Trees
<1>1. 0 \in S
  <2>1. Tiers(n)[0 + 1] = Under({<< <<>>, n >>})
    BY TiersAre
  <2>2. ASSUME NEW x \in Under({<< <<>>, n >>})
        PROVE  In(x, 0)
    <3>0. PICK y \in {<< <<>>, n >>} : \E j \in DOMAIN y[2].kids :
            y[2].kids[j].tag = "Node" /\ x = <<Append(y[1], j), y[2].kids[j].node>>
      BY <2>2 DEF Under
    <3>a. y[1] = <<>> /\ y[2] = n
      OBVIOUS
    <3>b. PICK i \in DOMAIN y[2].kids :
            y[2].kids[i].tag = "Node" /\ x = <<Append(y[1], i), y[2].kids[i].node>>
      BY <3>0
    <3>1. i \in DOMAIN n.kids /\ n.kids[i].tag = "Node" /\ x = <<Append(<<>>, i), n.kids[i].node>>
      BY <3>a, <3>b
    <3>2. PICK k : k = n.kids[i].node
      OBVIOUS
    <3>3. Tiers(k)[0] = {<< <<>>, k >>}
      BY TiersAre
    <3>4. Append(<<>>, i) = <<i>> \o <<>>
      <4>1. i \in Nat
        BY <1>0, <3>1
      <4> QED BY <4>1
    <3>5. PICK g \in Tiers(k)[0] : g[1] = <<>> /\ g[2] = k
      BY <3>3
    <3>6. x = OnWay(i, g)
      BY <3>1, <3>2, <3>4, <3>5 DEF OnWay
    <3>7. n.kids[i].tag = "Node" /\ \E h \in Tiers(n.kids[i].node)[0] : x = OnWay(i, h)
      BY <3>1, <3>2, <3>6
    <3> QED BY <3>1, <3>7
  <2> HIDE DEF In
  <2> QED BY <2>1, <2>2
<1>2. ASSUME NEW d \in S
      PROVE  d + 1 \in S
  <2>1. d \in Nat /\ d + 1 \in Nat /\ Tiers(n)[(d + 1) + 1] = Under(Tiers(n)[d + 1])
    BY TiersAre
  <2>2. ASSUME NEW x \in Under(Tiers(n)[d + 1])
        PROVE  In(x, d + 1)
    <3>1. PICK y \in Tiers(n)[d + 1] : \E j \in DOMAIN y[2].kids :
            y[2].kids[j].tag = "Node" /\ x = <<Append(y[1], j), y[2].kids[j].node>>
      BY <2>2 DEF Under
    <3>2. PICK j \in DOMAIN y[2].kids :
            y[2].kids[j].tag = "Node" /\ x = <<Append(y[1], j), y[2].kids[j].node>>
      BY <3>1
    <3>3. In(y, d)
      OBVIOUS
    <3>4. PICK i \in DOMAIN n.kids :
            /\ n.kids[i].tag = "Node"
            /\ \E g \in Tiers(n.kids[i].node)[d] : y = OnWay(i, g)
      BY <3>3
    <3>5. PICK k \in All : k = n.kids[i].node
      BY <3>4, KidNode
    <3>6. PICK g \in Tiers(k)[d] : y = OnWay(i, g)
      BY <3>4, <3>5
    <3>7. PICK way \in Seq(Nat), m \in All : way = g[1] /\ m = g[2]
      BY <2>1, TierWays
    <3>a. y[1] = <<i>> \o way /\ y[2] = m
      BY <3>6, <3>7 DEF OnWay
    <3>8. j \in DOMAIN g[2].kids /\ g[2].kids[j].tag = "Node"
      BY <3>2, <3>7, <3>a
    <3>9. PICK z \in Under(Tiers(k)[d]) : z = <<Append(g[1], j), g[2].kids[j].node>>
      BY <3>8, UnderHas
    <3>10. Under(Tiers(k)[d]) = Tiers(k)[d + 1]
      BY <2>1, TiersAre
    <3>11. i \in Nat /\ j \in Nat
      <4>1. PICK G : m.kids \in Seq(G)
        BY DEF Trees
      <4> QED BY <1>0, <3>4, <3>7, <3>8, <4>1
    <3>12. Append(<<i>> \o way, j) = <<i>> \o Append(way, j)
      BY <3>7, <3>11, WayOn
    <3>13. z[1] = Append(way, j) /\ z[2] = m.kids[j].node
      BY <3>7, <3>9
    <3>14. x = OnWay(i, z)
      BY <3>2, <3>a, <3>12, <3>13 DEF OnWay
    <3>15. n.kids[i].tag = "Node" /\ \E h \in Tiers(n.kids[i].node)[d + 1] : x = OnWay(i, h)
      BY <3>4, <3>5, <3>9, <3>10, <3>14
    <3> QED BY <3>4, <3>15
  <2> HIDE DEF In
  <2> QED BY <2>1, <2>2
<1>3. S = Nat
  <2>1. S \in SUBSET Nat
    OBVIOUS
  <2> HIDE DEF S
  <2> QED BY <1>1, <1>2, <2>1, UpTo
<1> QED BY <1>3

\* A tree has its root and the nodes of the trees that its handles lead to.
LEMMA PlacedBelow ==
  ASSUME NEW All, NEW Below, Trees(All, Below), NEW n \in All
  PROVE  /\ << <<>>, n >> \in Placed(n)
         /\ \A i \in DOMAIN n.kids : n.kids[i].tag = "Node" =>
              \A e \in Placed(n.kids[i].node) : \E g \in Placed(n) : g[2] = e[2]
<1>1. \E d \in Nat : Tiers(n)[d] = {}
  BY DEF Trees
<1>2. << <<>>, n >> \in Placed(n)
  <2>1. << <<>>, n >> \in Tiers(n)[0] /\ 0 \in Nat
    BY TiersAre
  <2> QED BY <1>1, <2>1, PlacedAre
<1>3. ASSUME NEW i \in DOMAIN n.kids, n.kids[i].tag = "Node", NEW e \in Placed(n.kids[i].node)
      PROVE  \E g \in Placed(n) : g[2] = e[2]
  <2>1. PICK k \in All : k = n.kids[i].node
    BY <1>3, KidNode
  <2>2. \E d \in Nat : Tiers(k)[d] = {}
    BY DEF Trees
  <2>3. PICK d \in Nat : e \in Tiers(k)[d]
    BY <2>1, <2>2, PlacedAre
  <2>4. OnWay(i, e) \in Tiers(n)[d + 1]
    BY <1>3, <2>1, <2>3, TierOfKid
  <2>5. PICK c \in Nat : c = d + 1
    OBVIOUS
  <2>6. OnWay(i, e) \in Placed(n)
    BY <1>1, <2>4, <2>5, PlacedAre
  <2>7. OnWay(i, e)[2] = e[2]
    BY DEF OnWay
  <2> QED BY <2>6, <2>7
<1> QED BY <1>2, <1>3

\* The leaves of a tree: those its nodes have handles to.
LEMMA LeafOf ==
  ASSUME NEW n, NEW l
  PROVE  l \in Leaves(n) <=>
           \E e \in Placed(n) : \E i \in DOMAIN e[2].kids :
             e[2].kids[i].tag = "Leaf" /\ e[2].kids[i].leaf = l
BY DEF Leaves, Held, Seqs!Range

\* The leaf at offset i of a node is one of the tree below the node.
LEMMA LeafHere ==
  ASSUME NEW All, NEW Below, Trees(All, Below), NEW n \in All, NEW i, At(n, i).tag = "Leaf"
  PROVE  At(n, i).leaf \in Leaves(n)
<1>1. i \in 0 .. Len(n.kids) - 1 /\ At(n, i) = n.kids[i + 1]
  BY DEF At, None
<1>2. PICK H : n.kids \in Seq(H)
  BY DEF Trees
<1>3. i + 1 \in DOMAIN n.kids
  BY <1>1, <1>2
<1>4. << <<>>, n >> \in Placed(n)
  BY PlacedBelow
<1> QED BY <1>1, <1>3, <1>4, LeafOf

\* So are the leaves below the node that it leads to.
LEMMA LeavesBelow ==
  ASSUME NEW All, NEW Below, Trees(All, Below), NEW n \in All, NEW i, At(n, i).tag = "Node"
  PROVE  /\ At(n, i).node \in Below /\ At(n, i).node \in All
         /\ Leaves(At(n, i).node) \subseteq Leaves(n)
<1>1. i \in 0 .. Len(n.kids) - 1 /\ At(n, i) = n.kids[i + 1]
  BY DEF At, None
<1>2. PICK H : n.kids \in Seq(H)
  BY DEF Trees
<1>3. PICK j \in DOMAIN n.kids : j = i + 1
  BY <1>1, <1>2
<1>4. n.kids[j].tag = "Node" /\ At(n, i) = n.kids[j]
  BY <1>1, <1>3
<1>5. n.kids[j].node \in Below /\ n.kids[j].node \in All
  BY <1>4, KidNode
<1>6. ASSUME NEW l \in Leaves(n.kids[j].node)
      PROVE  l \in Leaves(n)
  <2>0. PICK e \in Placed(n.kids[j].node) : \E k \in DOMAIN e[2].kids :
          e[2].kids[k].tag = "Leaf" /\ e[2].kids[k].leaf = l
    BY <1>6, LeafOf
  <2>1. PICK k \in DOMAIN e[2].kids : e[2].kids[k].tag = "Leaf" /\ e[2].kids[k].leaf = l
    BY <2>0
  <2>2. PICK g \in Placed(n) : g[2] = e[2]
    BY <1>4, PlacedBelow
  <2> QED BY <2>1, <2>2, LeafOf
<1> QED BY <1>4, <1>5, <1>6

\* A handle as its node's digest has it.
Hashed(h) == IF h.tag = "Node" THEN [h EXCEPT !.node = NoNode, !.stored = FALSE] ELSE h

\* Trees with the same digest have the same leaves.
LEMMA SameDigest ==
  ASSUME NEW All, NEW Below, Trees(All, Below), NEW m \in All, NEW n \in All, Bare(m) = Bare(n)
  PROVE  Leaves(m) \subseteq Leaves(n)
<1> DEFINE kids(e) == [i \in DOMAIN e[2].kids |-> Hashed(e[2].kids[i])]
           bare(e) == <<e[1], [e[2] EXCEPT !.kids = kids(e)]>>
<1>1. \A k : Bare(k) = {bare(e) : e \in Placed(k)}
  BY DEF Bare, Hashed
<1>2. SUFFICES ASSUME NEW l \in Leaves(m)
               PROVE  l \in Leaves(n)
  OBVIOUS
<1>a. PICK e \in Placed(m) : \E i \in DOMAIN e[2].kids :
        e[2].kids[i].tag = "Leaf" /\ e[2].kids[i].leaf = l
  BY <1>2, LeafOf
<1>3. PICK i \in DOMAIN e[2].kids : e[2].kids[i].tag = "Leaf" /\ e[2].kids[i].leaf = l
  BY <1>a
<1>4. PICK g \in Placed(n) : bare(e) = bare(g)
  <2> HIDE DEF bare
  <2>1. bare(e) \in Bare(m)
    BY <1>1
  <2>2. bare(e) \in Bare(n)
    BY <2>1
  <2> QED BY <1>1, <2>2
<1>5. PICK x \in All, y \in All : x = e[2] /\ y = g[2]
  BY PlacedNodes
<1>6. kids(e) = kids(g)
  <2>1. "kids" \in DOMAIN x /\ "kids" \in DOMAIN y
    BY DEF Trees
  <2>2. [x EXCEPT !.kids = kids(e)] = [y EXCEPT !.kids = kids(g)]
    BY <1>4, <1>5
  <2>3. [x EXCEPT !.kids = kids(e)].kids = kids(e) /\ [y EXCEPT !.kids = kids(g)].kids = kids(g)
    <3> HIDE DEF kids
    <3> QED BY <2>1
  <2> QED BY <2>2, <2>3
<1>7. i \in DOMAIN y.kids /\ Hashed(x.kids[i]) = Hashed(y.kids[i])
  <2>1. DOMAIN kids(e) = DOMAIN x.kids /\ DOMAIN kids(g) = DOMAIN y.kids
    BY <1>5
  <2>2. i \in DOMAIN kids(e) /\ i \in DOMAIN kids(g)
    BY <1>3, <1>5, <1>6, <2>1
  <2>3. kids(e)[i] = Hashed(x.kids[i]) /\ kids(g)[i] = Hashed(y.kids[i])
    BY <1>5, <2>2
  <2> QED BY <1>6, <2>1, <2>2, <2>3
<1>8. Hashed(x.kids[i]) = x.kids[i] /\ x.kids[i].tag = "Leaf" /\ x.kids[i].leaf = l
  BY <1>3, <1>5 DEF Hashed
<1>9. y.kids[i] = x.kids[i]
  <2>1. IsHandle(y.kids[i], Below)
    BY <1>7 DEF Trees
  <2>2. CASE y.kids[i].tag = "Node"
    <3>1. PICK k, a, b : y.kids[i] = [tag |-> "Node", node |-> k, ann |-> a, stored |-> b]
      BY <2>1, <2>2, NodeHandle
    <3>2. Hashed(y.kids[i]).tag = "Node"
      BY <3>1 DEF Hashed
    <3> QED BY <1>7, <1>8, <3>2
  <2>3. CASE y.kids[i].tag # "Node"
    BY <1>7, <1>8, <2>3 DEF Hashed
  <2> QED BY <2>2, <2>3
<1> QED BY <1>5, <1>7, <1>8, <1>9, LeafOf

\* A node of a tree is its root or in one of the trees its handles lead to.
LEMMA PlacedIs ==
  ASSUME NEW All, NEW Below, Trees(All, Below), NEW n \in All, NEW e \in Placed(n)
  PROVE  \/ e[2] = n
         \/ \E i \in DOMAIN n.kids :
              n.kids[i].tag = "Node" /\ \E g \in Placed(n.kids[i].node) : g[2] = e[2]
<1>1. PICK d \in Nat : e \in Tiers(n)[d]
  <2>1. \E top \in Nat : Tiers(n)[top] = {}
    BY DEF Trees
  <2> QED BY <2>1, PlacedAre
<1>2. CASE d = 0
  BY <1>1, <1>2, TiersAre
<1>3. CASE d # 0
  <2>1. PICK c \in Nat : d = c + 1
    <3>1. d - 1 \in Nat /\ d = (d - 1) + 1
      BY <1>3
    <3> QED BY <3>1
  <2>2. e \in Tiers(n)[c + 1]
    BY <1>1, <2>1
  <2>3. PICK i \in DOMAIN n.kids :
          n.kids[i].tag = "Node" /\ \E g \in Tiers(n.kids[i].node)[c] : e = OnWay(i, g)
    <3>1. \A x \in Tiers(n)[c + 1] : \E j \in DOMAIN n.kids :
            n.kids[j].tag = "Node" /\ \E g \in Tiers(n.kids[j].node)[c] : x = OnWay(j, g)
      BY <2>1, TierIs
    <3> QED BY <2>2, <3>1, Zenon
  <2>4. PICK k \in All : k = n.kids[i].node
    BY <2>3, KidNode
  <2>5. PICK g \in Tiers(k)[c] : g[2] = e[2]
    <3>1. \A g : OnWay(i, g)[2] = g[2]
      BY DEF OnWay
    <3> QED BY <2>3, <2>4, <3>1
  <2>6. \E top \in Nat : Tiers(k)[top] = {}
    BY DEF Trees
  <2>7. g \in Placed(k)
    BY <2>5, <2>6, PlacedAre
  <2> QED BY <2>3, <2>4, <2>5, <2>7
<1> QED BY <1>2, <1>3

-----------------------------------------------------------------------------
(***************************************************************************)
(* A tree is finite, so that a search has a last round.                    *)
(***************************************************************************)

\* The values of a function on a finite set.
LEMMA FiniteImage ==
  ASSUME NEW S, IsFiniteSet(S), NEW f
  PROVE  IsFiniteSet({f[x] : x \in S})
<1> DEFINE T == {f[x] : x \in S}
           g == [x \in S |-> f[x]]
<1>1. g \in Surjection(S, T)
  BY DEF Surjection
<1> HIDE DEF g, T
<1>2. IsFiniteSet(T)
  BY <1>1, FS_Surjection
<1> QED BY <1>2 DEF T

\* What is under a finite tier.
LEMMA UnderFinite ==
  ASSUME NEW es, IsFiniteSet(es), \A e \in es : \E H : e[2].kids \in Seq(H)
  PROVE  IsFiniteSet(Under(es))
<1> DEFINE nodes(e) == {k \in DOMAIN e[2].kids : e[2].kids[k].tag = "Node"}
           below(e) == {<<Append(e[1], i), e[2].kids[i].node>> : i \in nodes(e)}
           f == [e \in es |-> below(e)]
<1>1. ASSUME NEW e \in es
      PROVE  IsFiniteSet(below(e))
  <2> DEFINE g == [i \in nodes(e) |-> <<Append(e[1], i), e[2].kids[i].node>>]
  <2>1. IsFiniteSet(nodes(e))
    <3>1. PICK H : e[2].kids \in Seq(H)
      OBVIOUS
    <3>2. Len(e[2].kids) \in Nat /\ DOMAIN e[2].kids = 1 .. Len(e[2].kids)
      BY <3>1
    <3>3. IsFiniteSet(1 .. Len(e[2].kids))
      BY <3>2, FS_Interval
    <3>4. nodes(e) \in SUBSET (1 .. Len(e[2].kids))
      BY <3>2
    <3> HIDE DEF nodes
    <3> QED BY <3>3, <3>4, FS_Subset
  <2>2. below(e) = {g[i] : i \in nodes(e)}
    OBVIOUS
  <2> HIDE DEF nodes, g, below
  <2> QED BY <2>1, <2>2, FiniteImage
<1>2. Under(es) = UNION {f[e] : e \in es}
  BY DEF Under
<1>3. \A x \in {f[e] : e \in es} : IsFiniteSet(x)
  BY <1>1
<1>4. IsFiniteSet({f[e] : e \in es})
  <2> HIDE DEF f
  <2> QED BY FiniteImage
<1> HIDE DEF f
<1> QED BY <1>2, <1>3, <1>4, FS_UNION

\* The number of nodes of a tree of All.
LEMMA PlacedFinite ==
  ASSUME NEW All, NEW Below, Trees(All, Below), NEW n \in All
  PROVE  Cardinality(Placed(n)) \in Nat
<1> DEFINE S == {d \in Nat : IsFiniteSet(Tiers(n)[d])}
<1>1. PICK top \in Nat : Tiers(n)[top] = {}
  BY DEF Trees
<1>2. 0 \in S
  <2>1. IsFiniteSet({<< <<>>, n >>})
    BY FS_Singleton
  <2> QED BY <2>1, TiersAre
<1>3. ASSUME NEW d \in S
      PROVE  d + 1 \in S
  <2>1. d \in Nat /\ d + 1 \in Nat /\ Tiers(n)[d + 1] = Under(Tiers(n)[d])
    BY TiersAre
  <2>2. \A e \in Tiers(n)[d] : e \in Placed(n)
    BY <1>1, <2>1, PlacedAre
  <2>3. \A e \in Tiers(n)[d] : e[2] \in All
    BY <2>2, PlacedNodes
  <2>4. \A e \in Tiers(n)[d] : \E H : e[2].kids \in Seq(H)
    BY <2>3 DEF Trees
  <2>5. IsFiniteSet(Under(Tiers(n)[d]))
    BY <2>1, <2>4, UnderFinite
  <2> QED BY <2>1, <2>5
<1>4. S = Nat
  <2>1. S \in SUBSET Nat
    OBVIOUS
  <2> HIDE DEF S
  <2> QED BY <1>2, <1>3, <2>1, UpTo
<1>5. Placed(n) \in SUBSET UNION {Tiers(n)[d] : d \in 0 .. top}
  <2>1. ASSUME NEW e \in Placed(n)
        PROVE  \E d \in 0 .. top : e \in Tiers(n)[d]
    <3>1. PICK d \in Nat : e \in Tiers(n)[d]
      BY <1>1, <2>1, PlacedAre
    <3>2. ~(d >= top)
      BY <1>1, <3>1, EmptyUnder
    <3> QED BY <3>1, <3>2
  <2> QED BY <2>1
<1>6. IsFiniteSet(UNION {Tiers(n)[d] : d \in 0 .. top})
  <2>1. IsFiniteSet(0 .. top)
    BY FS_Interval
  <2>2. IsFiniteSet({Tiers(n)[d] : d \in 0 .. top})
    BY <2>1, FiniteImage
  <2>3. \A x \in {Tiers(n)[d] : d \in 0 .. top} : IsFiniteSet(x)
    BY <1>4
  <2> QED BY <2>2, <2>3, FS_UNION
<1>7. IsFiniteSet(Placed(n))
  BY <1>5, <1>6, FS_Subset
<1> QED BY <1>7, FS_CardinalityType

-----------------------------------------------------------------------------
(***************************************************************************)
(* The levels of a branch: each but the last is at a handle to a node.     *)
(***************************************************************************)

IsLevel(l, S) ==
  \E n \in S : \E o, w : l = [node |-> n, ofs |-> o, own |-> w]

IsBranch(ls, All, Below) ==
  /\ \E S : ls \in Seq(S)
  /\ \A i \in DOMAIN ls : IsLevel(ls[i], All) /\ (i # 1 => IsLevel(ls[i], Below))
  /\ \A i \in 1 .. Len(ls) - 1 : At(ls[i].node, ls[i].ofs).tag = "Node"

\* The last level of a branch may be changed.
LEMMA LastLevel ==
  ASSUME NEW All, NEW Below, NEW ls, IsBranch(ls, All, Below), Len(ls) >= 1,
         NEW l, IsLevel(l, All), Len(ls) # 1 => IsLevel(l, Below)
  PROVE  LET to == [ls EXCEPT ![Len(ls)] = l]
         IN IsBranch(to, All, Below) /\ Len(to) = Len(ls) /\ Top(to) = l
<1> DEFINE to == [ls EXCEPT ![Len(ls)] = l]
<1>1. PICK S : ls \in Seq(S)
  BY DEF IsBranch
<1>0. Len(ls) \in Nat /\ DOMAIN ls = 1 .. Len(ls)
  BY <1>1
<1>2. to \in Seq(S \cup {l}) /\ Len(to) = Len(ls)
  BY <1>1
<1>3. to[Len(ls)] = l /\ \A i \in 1 .. Len(ls) - 1 : to[i] = ls[i]
  <2>1. Len(ls) \in DOMAIN ls /\ \A i \in 1 .. Len(ls) - 1 : i \in DOMAIN ls /\ i # Len(ls)
    <3>1. PICK k \in Nat : k = Len(ls)
      BY <1>0
    <3>2. k \in 1 .. k /\ \A i \in 1 .. k - 1 : i \in 1 .. k /\ i # k
      BY <3>1
    <3> HIDE DEF to
    <3> QED BY <1>0, <3>1, <3>2, Zenon
  <2>2. \A i \in DOMAIN ls : to[i] = IF i = Len(ls) THEN l ELSE ls[i]
    BY Zenon
  <2> HIDE DEF to
  <2> QED BY <2>1, <2>2
<1>4. \A i \in DOMAIN to : i = Len(ls) \/ i \in 1 .. Len(ls) - 1
  BY <1>0
<1> HIDE DEF to
<1>5. \A i \in DOMAIN to : IsLevel(to[i], All) /\ (i # 1 => IsLevel(to[i], Below))
  <2>1. \A i \in 1 .. Len(ls) - 1 : i \in DOMAIN ls
    BY <1>0
  <2> QED BY <1>3, <1>4, <2>1 DEF IsBranch
<1>6. \A i \in 1 .. Len(to) - 1 : At(to[i].node, to[i].ofs).tag = "Node"
  BY <1>2, <1>3 DEF IsBranch
<1>7. IsBranch(to, All, Below)
  BY <1>2, <1>5, <1>6 DEF IsBranch
<1> QED BY <1>2, <1>3, <1>7 DEF to, Top

\* A level may be added where the last one is at a node.
LEMMA OneLevelMore ==
  ASSUME NEW All, NEW Below, NEW ls, IsBranch(ls, All, Below), Len(ls) >= 1, HandleOf(ls).tag = "Node",
         NEW l, IsLevel(l, All), IsLevel(l, Below)
  PROVE  IsBranch(Append(ls, l), All, Below) /\ Len(Append(ls, l)) >= 1
<1>1. PICK S : ls \in Seq(S)
  BY DEF IsBranch
<1> DEFINE to == Append(ls, l)
<1>2. /\ to \in Seq(S \cup {l}) /\ Len(to) = Len(ls) + 1 /\ Len(ls) \in Nat
      /\ DOMAIN ls = 1 .. Len(ls) /\ DOMAIN to = 1 .. Len(ls) + 1
      /\ to[Len(ls) + 1] = l /\ \A i \in 1 .. Len(ls) : to[i] = ls[i]
  BY <1>1
<1> HIDE DEF to
<1>3. \A i \in DOMAIN to : IsLevel(to[i], All) /\ (i # 1 => IsLevel(to[i], Below))
  <2>1. \A i \in DOMAIN to : i = Len(ls) + 1 \/ i \in DOMAIN ls
    BY <1>2
  <2> QED BY <1>2, <2>1 DEF IsBranch
<1>4. \A i \in 1 .. Len(to) - 1 : At(to[i].node, to[i].ofs).tag = "Node"
  <2>1. \A i \in 1 .. Len(to) - 1 :
          to[i] = ls[i] /\ (i = Len(ls) \/ i \in 1 .. Len(ls) - 1)
    <3> SUFFICES ASSUME NEW i \in 1 .. Len(to) - 1
                 PROVE  to[i] = ls[i] /\ (i = Len(ls) \/ i \in 1 .. Len(ls) - 1)
      OBVIOUS
    <3>0. PICK k \in Nat : k = Len(ls) /\ Len(to) = k + 1
      BY <1>2
    <3>1. i \in 1 .. k /\ (i = k \/ i \in 1 .. k - 1)
      BY <3>0
    <3> QED BY <1>2, <3>0, <3>1
  <2> QED BY <2>1 DEF IsBranch, HandleOf, Top
<1>5. IsBranch(to, All, Below)
  BY <1>2, <1>3, <1>4 DEF IsBranch
<1> QED BY <1>2, <1>5 DEF to

\* The node a level is at, which leads to nodes of Below only; a level stays one
\* when it moves, is owned or gets another node below it.
LEMMA LevelNode ==
  ASSUME NEW All, NEW Below, Trees(All, Below),
         NEW Here, Here = All \/ Here = Below, NEW l, IsLevel(l, Here)
  PROVE  /\ l.node \in Here
         /\ \A o : IsLevel([l EXCEPT !.ofs = o], Here)
         /\ IsLevel(Owned(l), Here)
         /\ At(l.node, l.ofs).tag = "Node" =>
              /\ At(l.node, l.ofs).node \in Below /\ At(l.node, l.ofs).node \in All
              /\ \A n \in Below : IsLevel(InsertChild(l, n), Here)
<1>0. Here \subseteq All
  BY DEF Trees
<1>1. PICK n \in Here : \E o, w : l = [node |-> n, ofs |-> o, own |-> w]
  BY DEF IsLevel
<1>2. PICK o, w : l = [node |-> n, ofs |-> o, own |-> w]
  BY <1>1
<1>3. ASSUME NEW p
      PROVE  IsLevel([l EXCEPT !.ofs = p], Here)
  <2>1. [l EXCEPT !.ofs = p] = [node |-> n, ofs |-> p, own |-> w]
    BY <1>2
  <2> QED BY <2>1 DEF IsLevel
<1>a. \A v : [l EXCEPT !.own = v] = [node |-> n, ofs |-> o, own |-> v]
  BY <1>2
<1>4. IsLevel(Owned(l), Here)
  <2>1. Owned(l) = [node |-> n, ofs |-> o, own |-> TRUE]
    BY <1>a, Zenon DEF Owned
  <2> QED BY <2>1 DEF IsLevel
<1>5. ASSUME At(l.node, l.ofs).tag = "Node", NEW m \in Below
      PROVE  IsLevel(InsertChild(l, m), Here)
  <2>1. With(n, o, NewNode(m)) \in Here
    <3>1. At(n, o).tag = "Node"
      BY <1>2, <1>5
    <3>2. o \in 0 .. Len(n.kids) - 1
      BY <3>1 DEF At, None
    <3>3. PICK H : n.kids \in Seq(H)
      BY <1>0 DEF Trees
    <3>4. PICK i \in DOMAIN n.kids : i = o + 1
      BY <3>2, <3>3
    <3>5. [n EXCEPT !.kids[i] = NewNode(m)] \in Here
      <4>1. n.kids[i].tag = "Node"
        BY <3>1, <3>2, <3>4 DEF At
      <4>2. Becomes(n, [n EXCEPT !.kids[i] = NewNode(m)], All, Below)
        BY <1>0, <4>1 DEF Trees
      <4> QED BY <4>2 DEF Becomes
    <3> QED BY <3>4, <3>5 DEF With
  <2>2. InsertChild(l, m) = [node |-> With(n, o, NewNode(m)), ofs |-> o, own |-> TRUE]
    <3> DEFINE x == With(n, o, NewNode(m))
    <3>1. [l EXCEPT !.node = x] = [node |-> x, ofs |-> o, own |-> w] /\ l.node = n /\ l.ofs = o
      <4> HIDE DEF x
      <4> QED BY <1>2
    <3>2. \A v : [[node |-> x, ofs |-> o, own |-> w] EXCEPT !.own = v] = [node |-> x, ofs |-> o, own |-> v]
      <4> HIDE DEF x
      <4> QED OBVIOUS
    <3> QED BY <3>1, <3>2, Zenon DEF InsertChild, Owned
  <2> QED BY <2>1, <2>2 DEF IsLevel
<1>6. /\ l.node \in Here
      /\ At(l.node, l.ofs).tag = "Node" =>
           At(l.node, l.ofs).node \in Below /\ At(l.node, l.ofs).node \in All
  <2>1. PICK p : p = l.ofs
    OBVIOUS
  <2>2. PICK k \in All : k = l.node
    BY <1>0, <1>2
  <2> QED BY <1>2, <2>1, <2>2, LeavesBelow
<1> QED BY <1>3, <1>4, <1>5, <1>6

\* The lowest level may be closed.
LEMMA OneLevelLess ==
  ASSUME NEW All, NEW Below, Trees(All, Below), NEW ls, IsBranch(ls, All, Below), Len(ls) > 1
  PROVE  IsBranch(PopLevel(ls), All, Below) /\ Len(PopLevel(ls)) = Len(ls) - 1
<1> DEFINE up == SubSeq(ls, 1, Len(ls) - 1)
<1>1. PICK S : ls \in Seq(S)
  BY DEF IsBranch
<1>2. /\ up \in Seq(S) /\ Len(up) = Len(ls) - 1 /\ Len(ls) \in Nat /\ Len(up) >= 1
      /\ DOMAIN ls = 1 .. Len(ls) /\ DOMAIN up = 1 .. Len(ls) - 1
      /\ \A i \in 1 .. Len(ls) - 1 : up[i] = ls[i]
  BY <1>1
<1>3. Seqs!Front(ls) = up
  BY DEF Seqs!Front
<1> HIDE DEF up
<1>4. IsBranch(up, All, Below)
  <2>1. \A i \in DOMAIN up : i \in DOMAIN ls /\ up[i] = ls[i]
    BY <1>2
  <2>2. \A i \in 1 .. Len(up) - 1 : i \in 1 .. Len(ls) - 1 /\ up[i] = ls[i]
    BY <1>2
  <2> QED BY <1>2, <2>1, <2>2 DEF IsBranch
<1>5. PICK l : /\ l = up[Len(up)] /\ IsLevel(l, All) /\ (Len(up) # 1 => IsLevel(l, Below))
               /\ At(l.node, l.ofs).tag = "Node"
  <2>1. Len(up) \in DOMAIN up /\ Len(up) \in 1 .. Len(ls) - 1 /\ up[Len(up)] = ls[Len(up)]
    BY <1>2
  <2> QED BY <1>4, <2>1 DEF IsBranch
<1>6. Top(ls).node \in Below
  <2>1. IsLevel(ls[Len(ls)], Below)
    BY <1>2 DEF IsBranch
  <2>2. PICK k : k = ls[Len(ls)]
    OBVIOUS
  <2> QED BY <2>1, <2>2, LevelNode DEF Top
<1>7. PICK k : /\ k = InsertChild(l, Top(ls).node) /\ IsLevel(k, All)
               /\ Len(up) # 1 => IsLevel(k, Below)
  <2>1. PICK n \in Below : n = Top(ls).node
    BY <1>6
  <2>2. IsLevel(InsertChild(l, n), All)
    BY <1>5, LevelNode
  <2>3. ASSUME Len(up) # 1
        PROVE  IsLevel(InsertChild(l, n), Below)
    BY <1>5, <2>3, LevelNode
  <2> QED BY <2>1, <2>2, <2>3
<1>8. LET to == [up EXCEPT ![Len(up)] = k] IN IsBranch(to, All, Below) /\ Len(to) = Len(up)
  <2>1. Len(up) >= 1 /\ IsLevel(k, All) /\ (Len(up) # 1 => IsLevel(k, Below))
    BY <1>2, <1>7
  <2> QED BY <1>4, <2>1, LastLevel
<1>9. PopLevel(ls) = IF Top(ls).own THEN [up EXCEPT ![Len(up)] = k] ELSE up
  BY <1>3, <1>5, <1>7 DEF PopLevel
<1> QED BY <1>2, <1>4, <1>8, <1>9

\* A branch that is dropped leaves a tree of All.
LEMMA RelinkedNode ==
  ASSUME NEW All, NEW Below, Trees(All, Below), NEW ls, IsBranch(ls, All, Below), Len(ls) >= 1
  PROVE  Relinked(ls) \in All
<1>0. PICK f : RelinkedBy(ls, f)
  BY RelinkedIs
<1>1. /\ Relinked(ls) = f[Len(ls) - 1][1].node
      /\ f[0] = ls
      /\ \A k \in Nat : f[k + 1] = PopLevel(f[k])
  BY <1>0 DEF RelinkedBy
<1>2. PICK S : ls \in Seq(S)
  BY DEF IsBranch
<1>3. PICK len \in Nat : len = Len(ls) /\ len >= 1
  BY <1>2
<1> DEFINE T == {k \in Nat : k < len => IsBranch(f[k], All, Below) /\ Len(f[k]) = len - k}
<1>4. 0 \in T
  BY <1>1, <1>3
<1>5. ASSUME NEW k \in T
      PROVE  k + 1 \in T
  <2> SUFFICES ASSUME k + 1 < len
               PROVE  IsBranch(f[k + 1], All, Below) /\ Len(f[k + 1]) = len - (k + 1)
    OBVIOUS
  <2>1. k \in Nat /\ k < len /\ len - k > 1 /\ (len - k) - 1 = len - (k + 1)
    OBVIOUS
  <2>2. PICK g : g = f[k] /\ IsBranch(g, All, Below) /\ Len(g) = len - k
    BY <2>1
  <2>3. Len(g) > 1
    BY <2>1, <2>2
  <2>4. IsBranch(PopLevel(g), All, Below) /\ Len(PopLevel(g)) = Len(g) - 1
    BY <2>2, <2>3, OneLevelLess
  <2> QED BY <1>1, <2>1, <2>2, <2>4
<1>6. T = Nat
  <2>1. T \in SUBSET Nat
    OBVIOUS
  <2> HIDE DEF T
  <2> QED BY <1>4, <1>5, <2>1, UpTo
<1>7. IsBranch(f[len - 1], All, Below) /\ Len(f[len - 1]) = 1
  <2>1. len - 1 \in Nat /\ len - 1 < len /\ len - (len - 1) = 1
    BY <1>3
  <2>2. len - 1 \in T
    <3> HIDE DEF T
    <3> QED BY <1>6, <2>1
  <2> QED BY <2>1, <2>2
<1>8. PICK g : g = f[len - 1] /\ IsBranch(g, All, Below) /\ Len(g) = 1
  BY <1>7
<1>9. IsLevel(g[1], All)
  <2>1. PICK R : g \in Seq(R)
    BY <1>8 DEF IsBranch
  <2>2. 1 \in DOMAIN g
    BY <1>8, <2>1
  <2> QED BY <1>8, <2>2 DEF IsBranch
<1>10. g[1].node \in All
  BY <1>9 DEF IsLevel
<1> QED BY <1>1, <1>3, <1>8, <1>10

\* Where a search may be: it has a branch, which ends at a leaf once one is found.
IsSearch(s, All, Below) ==
  /\ IsBranch(s.levels, All, Below)
  /\ Len(s.levels) >= 1
  /\ s.tag = "leaf" => HandleOf(s.levels).tag = "Leaf"

\* A round of a search goes from a branch to a branch.
LEMMA RoundKeeps ==
  ASSUME NEW All, NEW Below, Trees(All, Below), NEW s, IsSearch(s, All, Below), NEW bad
  PROVE  IsSearch(Round(s, bad), All, Below)
<1>1. PICK ls : ls = s.levels /\ IsBranch(ls, All, Below) /\ Len(ls) >= 1
  BY DEF IsSearch
<1>2. PICK r : r = LevelSearch(Top(ls), s.method)
  OBVIOUS
<1>3. PICK top : top = Top(ls)
  OBVIOUS
<1>4. IsLevel(top, All) /\ (Len(ls) # 1 => IsLevel(top, Below))
  <2>1. PICK S : ls \in Seq(S)
    BY <1>1 DEF IsBranch
  <2>2. Len(ls) \in DOMAIN ls
    BY <1>1, <2>1
  <2> QED BY <1>1, <1>3, <2>2 DEF IsBranch, Top
<1>5. PICK l : l = [top EXCEPT !.ofs = @ + r.at]
  OBVIOUS
<1>6. IsLevel(l, All) /\ (Len(ls) # 1 => IsLevel(l, Below))
  <2>1. PICK o : o = top.ofs + r.at
    OBVIOUS
  <2>2. IsLevel([top EXCEPT !.ofs = o], All)
    BY <1>4, LevelNode
  <2>3. ASSUME Len(ls) # 1
        PROVE  IsLevel([top EXCEPT !.ofs = o], Below)
    BY <1>4, <2>3, LevelNode
  <2> QED BY <1>5, <2>1, <2>2, <2>3
<1>7. PICK to : to = [ls EXCEPT ![Len(ls)] = l]
  OBVIOUS
<1>8. IsBranch(to, All, Below) /\ Len(to) >= 1 /\ Top(to) = l
  BY <1>1, <1>6, <1>7, LastLevel
<1>9. to = [ls EXCEPT ![Len(ls)].ofs = @ + r.at]
  BY <1>3, <1>5, <1>7 DEF Top
<1>10. PICK h : h = HandleOf(to)
  OBVIOUS
<1> DEFINE result(tag) == [tag |-> tag, levels |-> to]
           again(next) == [tag |-> "again", levels |-> next, method |-> r.method]
<1>11. ASSUME NEW tag, tag = "leaf" => h.tag = "Leaf"
       PROVE  IsSearch(result(tag), All, Below)
  BY <1>8, <1>10, <1>11 DEF IsSearch
<1>12. ASSUME NEW next, IsBranch(next, All, Below), Len(next) >= 1
       PROVE  IsSearch(again(next), All, Below)
  BY <1>12 DEF IsSearch
<1>13. Round(s, bad) =
         CASE r.tag = "Leaf" -> result(IF h.tag = "Leaf" THEN "leaf" ELSE "none")
           [] r.tag = "Path" /\ Unreadable(h, bad) -> result("error")
           [] r.tag = "Path" /\ h.tag = "Node" /\ ~Unreadable(h, bad) -> again(Append(to, Level(h.node)))
           [] r.tag = "Path" /\ h.tag # "Node" -> result("none")
           [] r.tag = "None" /\ Len(ls) > 1 -> again(Advance(PopLevel(ls)))
           [] OTHER -> result("none")
  BY <1>1, <1>2, <1>9, <1>10 DEF Round
<1>14. ASSUME h.tag = "Node"
       PROVE  IsSearch(again(Append(to, Level(h.node))), All, Below)
  <2>1. PICK n \in Below : n = h.node /\ n \in All
    BY <1>6, <1>8, <1>10, <1>14, LevelNode DEF HandleOf
  <2>2. PICK k : k = Level(n) /\ IsLevel(k, All) /\ IsLevel(k, Below)
    BY <2>1 DEF Level, IsLevel
  <2>3. IsBranch(Append(to, k), All, Below) /\ Len(Append(to, k)) >= 1
    BY <1>8, <1>10, <1>14, <2>2, OneLevelMore
  <2> HIDE DEF again
  <2> QED BY <1>12, <2>1, <2>2, <2>3
<1>15. ASSUME Len(ls) > 1
       PROVE  IsSearch(again(Advance(PopLevel(ls))), All, Below)
  <2>1. PICK up : up = PopLevel(ls) /\ IsBranch(up, All, Below) /\ Len(up) >= 1
    <3>1. PICK S : ls \in Seq(S)
      BY <1>1 DEF IsBranch
    <3>2. Len(ls) - 1 >= 1
      BY <1>15, <3>1
    <3> QED BY <1>1, <1>15, <3>2, OneLevelLess
  <2>2. PICK k : k = up[Len(up)] /\ IsLevel(k, All) /\ (Len(up) # 1 => IsLevel(k, Below))
    <3>1. PICK S : up \in Seq(S)
      BY <2>1 DEF IsBranch
    <3>2. Len(up) \in DOMAIN up
      BY <2>1, <3>1
    <3> QED BY <2>1, <3>2 DEF IsBranch
  <2>3. PICK o : o = k.ofs + 1
    OBVIOUS
  <2>4. PICK j : /\ j = [k EXCEPT !.ofs = o] /\ IsLevel(j, All)
                 /\ Len(up) # 1 => IsLevel(j, Below)
    <3>1. IsLevel([k EXCEPT !.ofs = o], All)
      BY <2>2, LevelNode
    <3>2. ASSUME Len(up) # 1
          PROVE  IsLevel([k EXCEPT !.ofs = o], Below)
      BY <2>2, <3>2, LevelNode
    <3> QED BY <3>1, <3>2
  <2>5. PICK next : next = [up EXCEPT ![Len(up)] = j] /\ IsBranch(next, All, Below) /\ Len(next) = Len(up)
    BY <2>1, <2>4, LastLevel
  <2>6. next = Advance(PopLevel(ls))
    BY <2>1, <2>2, <2>3, <2>4, <2>5 DEF Advance
  <2> HIDE DEF again
  <2> QED BY <1>12, <2>1, <2>5, <2>6
<1> HIDE DEF result, again
<1>16. CASE r.tag = "Leaf"
  <2>1. PICK tag : tag = (IF h.tag = "Leaf" THEN "leaf" ELSE "none")
    OBVIOUS
  <2>2. tag = "leaf" => h.tag = "Leaf"
    BY <2>1
  <2> QED BY <1>11, <1>13, <1>16, <2>1, <2>2
<1>17. IsSearch(result("none"), All, Below) /\ IsSearch(result("error"), All, Below)
  <2>1. PICK a, b : a = "none" /\ b = "error"
    OBVIOUS
  <2> QED BY <1>11, <2>1
<1>18. CASE r.tag = "Path"
  BY <1>13, <1>14, <1>17, <1>18
<1>19. CASE r.tag # "Leaf" /\ r.tag # "Path"
  <2>1. CASE r.tag = "None" /\ Len(ls) > 1
    BY <1>13, <1>15, <2>1
  <2>2. CASE ~(r.tag = "None" /\ Len(ls) > 1)
    BY <1>13, <1>17, <1>19, <2>2
  <2> QED BY <2>1, <2>2
<1> QED BY <1>16, <1>18, <1>19

\* So does a search.
LEMMA SearchKeeps ==
  ASSUME NEW All, NEW Below, Trees(All, Below), NEW ls, IsBranch(ls, All, Below), Len(ls) >= 1, NEW m, NEW bad
  PROVE  IsSearch(Search(ls, m, bad), All, Below)
<1>0. PICK f : SearchBy(ls, m, bad, f)
  BY SearchIs
<1>1. /\ Search(ls, m, bad) = f[2 * Cardinality(Placed(ls[1].node)) + 1]
      /\ f[0] = [tag |-> "again", levels |-> ls, method |-> m]
      /\ \A k \in Nat : f[k + 1] = IF f[k].tag = "again" THEN Round(f[k], bad) ELSE f[k]
  BY <1>0 DEF SearchBy
<1>2. ls[1].node \in All
  <2>1. PICK S : ls \in Seq(S)
    BY DEF IsBranch
  <2>2. 1 \in DOMAIN ls
    BY <2>1
  <2>3. IsLevel(ls[1], All)
    BY <2>2 DEF IsBranch
  <2> QED BY <2>3 DEF IsLevel
<1>3. PICK n \in All : n = ls[1].node
  BY <1>2
<1>4. Cardinality(Placed(n)) \in Nat
  BY PlacedFinite
<1>5. PICK last \in Nat : last = 2 * Cardinality(Placed(n)) + 1
  BY <1>4
<1> DEFINE T == {k \in Nat : IsSearch(f[k], All, Below)}
<1>6. 0 \in T
  BY <1>1 DEF IsSearch
<1>7. ASSUME NEW k \in T
      PROVE  k + 1 \in T
  <2>1. PICK s : s = f[k] /\ IsSearch(s, All, Below)
    OBVIOUS
  <2>2. IsSearch(Round(s, bad), All, Below)
    BY <2>1, RoundKeeps
  <2>3. k \in Nat /\ k + 1 \in Nat
    OBVIOUS
  <2>4. f[k + 1] = IF s.tag = "again" THEN Round(s, bad) ELSE s
    BY <1>1, <2>1, <2>3
  <2>5. IsSearch(f[k + 1], All, Below)
    BY <2>1, <2>2, <2>4
  <2> QED BY <2>3, <2>5
<1>8. T = Nat
  <2>1. T \in SUBSET Nat
    OBVIOUS
  <2> HIDE DEF T
  <2> QED BY <1>6, <1>7, <2>1, UpTo
<1>9. IsSearch(f[last], All, Below)
  BY <1>8
<1> QED BY <1>1, <1>3, <1>5, <1>9

-----------------------------------------------------------------------------
(***************************************************************************)
(* The inductive invariant: the tree is one of All, and an open branch     *)
(* leads down its levels to a leaf.                                        *)
(***************************************************************************)

Leads(All, Below) ==
  /\ tree \in All
  /\ IsBranch(levels, All, Below)
  /\ ~Closed => HandleOf(levels).tag = "Leaf"

\* A branch that is not closed has a level.
LEMMA HasTop ==
  ASSUME NEW All, NEW Below, NEW ls, IsBranch(ls, All, Below), ls # <<>>
  PROVE  /\ Len(ls) \in Nat /\ Len(ls) >= 1 /\ DOMAIN ls = 1 .. Len(ls)
         /\ 1 \in DOMAIN ls /\ Len(ls) \in DOMAIN ls
         /\ IsLevel(Top(ls), All) /\ (Len(ls) # 1 => IsLevel(Top(ls), Below))
         /\ ls[1].node \in All
<1>1. PICK S : ls \in Seq(S)
  BY DEF IsBranch
<1>2. PICK k \in Nat : k = Len(ls) /\ DOMAIN ls = 1 .. k /\ k >= 1
  BY <1>1
<1>3. 1 \in 1 .. k /\ k \in 1 .. k
  BY <1>2
<1>4. IsLevel(ls[1], All) /\ IsLevel(ls[k], All) /\ (k # 1 => IsLevel(ls[k], Below))
  BY <1>2, <1>3 DEF IsBranch
<1>5. ls[1].node \in All
  BY <1>4 DEF IsLevel
<1> QED BY <1>2, <1>3, <1>4, <1>5, Zenon DEF Top

\* The branch that no call has opened.
LEMMA NoBranch ==
  ASSUME NEW All, NEW Below
  PROVE  IsBranch(<<>>, All, Below)
<1>1. <<>> \in Seq({}) /\ Len(<<>>) = 0 /\ DOMAIN <<>> = {}
  OBVIOUS
<1> QED BY <1>1 DEF IsBranch

\* Moving on from a leaf leaves a branch.
LEMMA AdvanceKeeps ==
  ASSUME NEW All, NEW Below, Trees(All, Below), NEW ls, IsBranch(ls, All, Below), ls # <<>>
  PROVE  IsBranch(Advance(ls), All, Below) /\ Len(Advance(ls)) >= 1
<1>1. Len(ls) >= 1 /\ IsLevel(Top(ls), All) /\ (Len(ls) # 1 => IsLevel(Top(ls), Below))
  BY HasTop
<1>2. PICK k : k = ls[Len(ls)] /\ IsLevel(k, All) /\ (Len(ls) # 1 => IsLevel(k, Below))
  BY <1>1 DEF Top
<1>3. PICK o : o = k.ofs + 1
  OBVIOUS
<1>4. PICK j : /\ j = [k EXCEPT !.ofs = o] /\ IsLevel(j, All)
               /\ Len(ls) # 1 => IsLevel(j, Below)
  <2>1. IsLevel([k EXCEPT !.ofs = o], All)
    BY <1>2, LevelNode
  <2>2. ASSUME Len(ls) # 1
        PROVE  IsLevel([k EXCEPT !.ofs = o], Below)
    BY <1>2, <2>2, LevelNode
  <2> QED BY <2>1, <2>2
<1>5. PICK next : next = [ls EXCEPT ![Len(ls)] = j] /\ IsBranch(next, All, Below) /\ Len(next) = Len(ls)
  BY <1>1, <1>4, LastLevel
<1>6. next = Advance(ls)
  BY <1>2, <1>3, <1>4, <1>5 DEF Advance
<1> QED BY <1>1, <1>5, <1>6

\* What a search leaves, whatever it found.
LEMMA AnswerKeeps ==
  ASSUME NEW All, NEW Below, Trees(All, Below), NEW r, IsSearch(r, All, Below), NEW w, Answer(r, w)
  PROVE  Leads(All, Below)'
<1>1. tree' = Relinked(r.levels) /\ levels' = IF r.tag = "leaf" THEN r.levels ELSE <<>>
  BY DEF Answer
<1>2. PICK ls : ls = r.levels /\ IsBranch(ls, All, Below) /\ Len(ls) >= 1
  BY DEF IsSearch
<1>3. Relinked(ls) \in All
  BY <1>2, RelinkedNode
<1>4. CASE r.tag = "leaf"
  <2>1. levels' = ls /\ HandleOf(ls).tag = "Leaf"
    BY <1>1, <1>2, <1>4 DEF IsSearch
  <2>2. HandleOf(levels') = HandleOf(levels)'
    BY DEF HandleOf, Top
  <2> QED BY <1>1, <1>2, <1>3, <2>1, <2>2 DEF Leads
<1>5. CASE r.tag # "leaf"
  <2>1. levels' = <<>>
    BY <1>1, <1>5
  <2> QED BY <1>1, <1>2, <1>3, <2>1, NoBranch DEF Leads, Closed
<1> QED BY <1>4, <1>5

\* A search from the root.
LEMMA OpenKeeps ==
  ASSUME NEW All, NEW Below, Trees(All, Below), Leads(All, Below), NEW m, Open(m)
  PROVE  Leads(All, Below)'
<1>1. PICK n \in All : n = tree
  BY DEF Leads
<1>2. PICK l : l = Level(n) /\ IsLevel(l, All)
  BY DEF Level, IsLevel
<1>3. PICK ls : ls = << l >>
  OBVIOUS
<1>4. ls \in Seq({l}) /\ Len(ls) = 1 /\ DOMAIN ls = {1} /\ ls[1] = l
  BY <1>3
<1>5. IsBranch(ls, All, Below) /\ Len(ls) >= 1
  <2>1. \A i \in DOMAIN ls : IsLevel(ls[i], All)
    BY <1>2, <1>4
  <2>2. 1 .. Len(ls) - 1 = {}
    BY <1>4
  <2> QED BY <1>4, <2>1, <2>2 DEF IsBranch
<1>6. PICK bad : Answer(Search(ls, m, bad), [NoWalk EXCEPT !.by = m])
  BY <1>1, <1>2, <1>3 DEF Open
<1>7. PICK r : r = Search(ls, m, bad) /\ IsSearch(r, All, Below)
  BY <1>5, SearchKeeps
<1>8. PICK w : w = [NoWalk EXCEPT !.by = m]
  OBVIOUS
<1> QED BY <1>6, <1>7, <1>8, AnswerKeeps

\* A search on from the leaf the branch is at.
LEMMA StepKeeps ==
  ASSUME NEW All, NEW Below, Trees(All, Below), Leads(All, Below), Step
  PROVE  Leads(All, Below)'
<1>1. PICK ls : ls = levels /\ IsBranch(ls, All, Below) /\ ls # <<>>
  BY DEF Leads, Step, Holding, Closed
<1>2. PICK next : next = Advance(ls) /\ IsBranch(next, All, Below) /\ Len(next) >= 1
  BY <1>1, AdvanceKeeps
<1>3. PICK m : m = First
  OBVIOUS
<1>4. PICK bad : Answer(Search(next, m, bad), walk)
  BY <1>1, <1>2, <1>3 DEF Step
<1>5. PICK r : r = Search(next, m, bad) /\ IsSearch(r, All, Below)
  BY <1>2, SearchKeeps
<1>6. PICK w : w = walk
  OBVIOUS
<1> QED BY <1>4, <1>5, <1>6, AnswerKeeps

\* A leaf that is written through a branch stays where it is.
LEMMA TouchKeeps ==
  ASSUME NEW All, NEW Below, Trees(All, Below), Leads(All, Below), NEW l \in Input, Touch(l)
  PROVE  Leads(All, Below)'
<1>1. PICK ls : ls = levels /\ IsBranch(ls, All, Below) /\ ls # <<>> /\ HandleOf(ls).tag = "Leaf"
  BY DEF Leads, Touch, Holding, Closed
<1>2. PICK top : /\ top = Top(ls) /\ IsLevel(top, All) /\ Len(ls) >= 1
                 /\ Len(ls) # 1 => IsLevel(top, Below)
  BY <1>1, HasTop
<1>3. PICK n \in All : \E o, w : top = [node |-> n, ofs |-> o, own |-> w]
  BY <1>2 DEF IsLevel
<1>4. PICK o, w : top = [node |-> n, ofs |-> o, own |-> w]
  BY <1>3
<1>5. At(n, o).tag = "Leaf"
  BY <1>1, <1>2, <1>4 DEF HandleOf
<1>6. PICK H : n.kids \in Seq(H)
  BY DEF Trees
<1>7. o \in 0 .. Len(n.kids) - 1
  BY <1>5 DEF At, None
<1>8. PICK i \in DOMAIN n.kids : i = o + 1
  BY <1>6, <1>7
<1>9. PICK k \in All : k = [n EXCEPT !.kids[i] = Leaf(l)] /\ (n \in Below => k \in Below)
  <2>1. n.kids[i].tag = "Leaf"
    BY <1>5, <1>7, <1>8 DEF At
  <2>2. Becomes(n, [n EXCEPT !.kids[i] = Leaf(l)], All, Below)
    BY <2>1 DEF Trees
  <2> QED BY <2>2 DEF Becomes
<1>10. k.kids = [n.kids EXCEPT ![i] = Leaf(l)]
  <2>1. "kids" \in DOMAIN n
    BY DEF Trees
  <2> QED BY <1>9, <2>1
<1>11. At(k, o).tag = "Leaf"
  <2>1. Len(k.kids) = Len(n.kids) /\ k.kids[i] = Leaf(l)
    BY <1>6, <1>10
  <2>2. At(k, o) = Leaf(l)
    BY <1>7, <1>8, <2>1 DEF At
  <2> QED BY <2>2 DEF Leaf
<1>12. PICK j : j = Owned([top EXCEPT !.node = k])
  OBVIOUS
<1>13. j = [node |-> k, ofs |-> o, own |-> TRUE]
  <2>1. [top EXCEPT !.node = k] = [node |-> k, ofs |-> o, own |-> w]
    BY <1>4
  <2>2. \A v : [[node |-> k, ofs |-> o, own |-> w] EXCEPT !.own = v] =
                 [node |-> k, ofs |-> o, own |-> v]
    OBVIOUS
  <2> QED BY <1>12, <2>1, <2>2, Zenon DEF Owned
<1>14. /\ IsLevel(j, All) /\ j.node = k /\ j.ofs = o
       /\ Len(ls) # 1 => IsLevel(j, Below)
  <2>1. ASSUME Len(ls) # 1
        PROVE  n \in Below
    <3>1. top.node \in Below
      BY <1>2, <2>1, LevelNode
    <3> QED BY <1>4, <3>1
  <2> QED BY <1>9, <1>13, <2>1 DEF IsLevel
<1>15. PICK to : /\ to = [ls EXCEPT ![Len(ls)] = j]
                 /\ IsBranch(to, All, Below) /\ Len(to) = Len(ls) /\ Top(to) = j
  <2>1. IsBranch(ls, All, Below) /\ Len(ls) >= 1
    BY <1>1, <1>2
  <2>2. IsLevel(j, All) /\ (Len(ls) # 1 => IsLevel(j, Below))
    BY <1>14
  <2>3. LET to == [ls EXCEPT ![Len(ls)] = j]
        IN  IsBranch(to, All, Below) /\ Len(to) = Len(ls) /\ Top(to) = j
    BY <2>1, <2>2, LastLevel
  <2> QED BY <2>3
<1>16. levels' = to /\ tree' = Relinked(to)
  <2>1. With(top.node, top.ofs, Leaf(l)) = k
    BY <1>4, <1>8, <1>9 DEF With
  <2> QED BY <1>1, <1>2, <1>12, <1>15, <2>1 DEF Touch
<1>17. Relinked(to) \in All
  BY <1>2, <1>15, RelinkedNode
<1>18. HandleOf(to).tag = "Leaf"
  BY <1>11, <1>14, <1>15 DEF HandleOf
<1>19. HandleOf(levels)' = HandleOf(to)
  BY <1>16 DEF HandleOf, Top
<1> QED BY <1>15, <1>16, <1>17, <1>18, <1>19 DEF Leads

\* Taking a proof owns every level, and moves none.
LEMMA TakeProofKeeps ==
  ASSUME NEW All, NEW Below, Trees(All, Below), Leads(All, Below), TakeProof
  PROVE  Leads(All, Below)'
<1>1. PICK ls : ls = levels /\ IsBranch(ls, All, Below) /\ ls # <<>> /\ HandleOf(ls).tag = "Leaf"
  BY DEF Leads, TakeProof, Holding, Closed
<1>2. PICK to : to = [i \in DOMAIN ls |-> Owned(ls[i])]
  OBVIOUS
<1>3. PICK len \in Nat : len = Len(ls) /\ DOMAIN ls = 1 .. len /\ len >= 1
  BY <1>1, HasTop
<1>4. to \in Seq({to[i] : i \in 1 .. len}) /\ Len(to) = len /\ DOMAIN to = 1 .. len
  BY <1>2, <1>3
<1>5. ASSUME NEW i \in 1 .. len
      PROVE  /\ IsLevel(to[i], All) /\ (i # 1 => IsLevel(to[i], Below))
             /\ to[i].node = ls[i].node /\ to[i].ofs = ls[i].ofs
  <2>1. PICK k : k = ls[i] /\ IsLevel(k, All) /\ (i # 1 => IsLevel(k, Below))
    BY <1>1, <1>3 DEF IsBranch
  <2>2. to[i] = Owned(k)
    BY <1>2, <1>3, <2>1
  <2>3. IsLevel(Owned(k), All) /\ (i # 1 => IsLevel(Owned(k), Below))
    BY <2>1, LevelNode
  <2>4. PICK n, o, w : k = [node |-> n, ofs |-> o, own |-> w]
    BY <2>1 DEF IsLevel
  <2>5. Owned(k).node = n /\ Owned(k).ofs = o
    BY <2>4 DEF Owned
  <2> QED BY <2>1, <2>2, <2>3, <2>4, <2>5
<1>6. IsBranch(to, All, Below)
  <2>1. \A i \in 1 .. len - 1 : i \in 1 .. len /\ At(ls[i].node, ls[i].ofs).tag = "Node"
    BY <1>1, <1>3 DEF IsBranch
  <2> QED BY <1>4, <1>5, <2>1 DEF IsBranch
<1>7. HandleOf(to).tag = "Leaf"
  <2>1. len \in 1 .. len
    BY <1>3
  <2> QED BY <1>1, <1>3, <1>4, <1>5, <2>1 DEF HandleOf, Top
<1>8. levels' = to /\ tree' = Relinked(to)
  BY <1>1, <1>2 DEF TakeProof
<1>9. Relinked(to) \in All
  BY <1>3, <1>4, <1>6, RelinkedNode
<1>10. HandleOf(levels)' = HandleOf(to)
  BY <1>8 DEF HandleOf, Top
<1> QED BY <1>6, <1>7, <1>8, <1>9, <1>10 DEF Leads

\* What is done with a branch, and a save, keep the invariant.
LEMMA BranchKeeps ==
  ASSUME NEW All, NEW Below, Trees(All, Below), Leads(All, Below), BranchNext
  PROVE  Leads(All, Below)'
<1>1. ASSUME NEW m \in Searches(faults), Open(m)
      PROVE  Leads(All, Below)'
  <2>1. PICK k : k = m
    OBVIOUS
  <2> QED BY <1>1, <2>1, OpenKeeps
<1>2. CASE Step
  BY <1>2, StepKeeps
<1>3. ASSUME NEW l \in Input, Touch(l)
      PROVE  Leads(All, Below)'
  BY <1>3, TouchKeeps
<1>4. CASE TakeProof
  BY <1>4, TakeProofKeeps
<1>5. CASE DropBranch
  BY <1>5, NoBranch DEF DropBranch, Leads, Closed
<1>6. CASE Return
  BY <1>6 DEF Return, Leads, Closed, HandleOf, Top
<1>7. CASE Save
  <2>1. PICK n \in All : n = tree
    BY DEF Leads
  <2>2. Stored(n) \in All
    BY DEF Trees
  <2> QED BY <1>7, <2>1, <2>2 DEF Save, Leads, Closed, Idle, HandleOf, Top
<1> QED BY <1>1, <1>2, <1>3, <1>4, <1>5, <1>6, <1>7 DEF BranchNext

\* So do steps of something else.
LEMMA StutterKeeps ==
  ASSUME NEW All, NEW Below, Leads(All, Below), UNCHANGED vars
  PROVE  Leads(All, Below)'
BY DEF vars, Leads, Closed, HandleOf, Top

\* A call of the structure that leaves a tree of All, too.
LEMMA ChangeKeeps ==
  ASSUME NEW All, NEW Below, Leads(All, Below), Idle, NEW n \in All, NEW answer, Changed(n, answer)
  PROVE  Leads(All, Below)'
BY DEF Changed, Leads, Closed, Idle, HandleOf, Top

\* The invariant holds in every state, of all nodes.
LEMMA AlwaysLeads ==
  ASSUME Trees(Node, Node), Whole \subseteq Node
  PROVE  Spec => []Leads(Node, Node)
<1>1. Init => Leads(Node, Node)
  BY NoBranch DEF Init, BranchInit, Leads, Closed
<1>2. Leads(Node, Node) /\ [Next]_vars => Leads(Node, Node)'
  <2> SUFFICES ASSUME Leads(Node, Node), [Next]_vars
               PROVE  Leads(Node, Node)'
    OBVIOUS
  <2>1. CASE BranchNext
    BY <2>1, BranchKeeps
  <2>2. CASE Call
    <3>1. PICK answer \in Answers :
            Idle /\ \E n \in IF answer = Failed \/ faults > 0 THEN Node ELSE Whole : Changed(n, answer)
      BY <2>2 DEF Call
    <3>2. PICK n \in IF answer = Failed \/ faults > 0 THEN Node ELSE Whole : Changed(n, answer)
      BY <3>1
    <3>3. PICK m \in Node : m = n
      OBVIOUS
    <3> QED BY <3>1, <3>2, <3>3, ChangeKeeps
  <2>3. CASE UNCHANGED vars
    BY <2>3, StutterKeeps
  <2> QED BY <2>1, <2>2, <2>3 DEF Next
<1> QED BY <1>1, <1>2, PTL DEF Spec

\* A proof that is accepted against a tree has its leaf in that tree.
LEMMA ProvesLeaf ==
  ASSUME NEW All, NEW Below, Trees(All, Below), Leads(All, Below), ~Closed, NEW t \in All, Proves(Proof, t)
  PROVE  HandleOf(Proof).leaf \in Leaves(t)
<1>1. PICK ls : ls = levels /\ IsBranch(ls, All, Below) /\ ls # <<>> /\ HandleOf(ls).tag = "Leaf"
  BY DEF Leads, Closed
<1>2. PICK len \in Nat : len = Len(ls) /\ DOMAIN ls = 1 .. len /\ len >= 1
  BY <1>1, HasTop
<1>3. PICK p : p = Proof
  OBVIOUS
<1>4. Len(p) = len /\ \A i \in 1 .. len : p[i].node = ls[i].node /\ p[i].ofs = ls[i].ofs
  BY <1>1, <1>2, <1>3 DEF Proof
<1>5. \A i \in 1 .. len : p[i].node \in All
  <2>1. \A i \in 1 .. len : IsLevel(ls[i], All)
    BY <1>1, <1>2 DEF IsBranch
  <2>2. \A l : IsLevel(l, All) => l.node \in All
    BY DEF IsLevel
  <2> QED BY <1>4, <2>1, <2>2
<1>6. /\ Bare(p[1].node) = Bare(t)
      /\ \A i \in 1 .. len - 1 :
           /\ At(p[i].node, p[i].ofs).tag = "Node"
           /\ Bare(At(p[i].node, p[i].ofs).node) = Bare(p[i + 1].node)
  BY <1>3, <1>4 DEF Proves
<1>7. PICK leaf : leaf = HandleOf(p).leaf
  OBVIOUS
<1>8. leaf \in Leaves(p[len].node)
  <2>1. len \in 1 .. len
    BY <1>2
  <2>a. PICK n \in All : n = p[len].node
    BY <1>5, <2>1
  <2>2. PICK o : o = p[len].ofs
    OBVIOUS
  <2>3. At(n, o).tag = "Leaf" /\ leaf = At(n, o).leaf
    BY <1>1, <1>2, <1>4, <1>7, <2>1, <2>a, <2>2 DEF HandleOf, Top
  <2> QED BY <2>a, <2>3, LeafHere
<1> DEFINE T == {k \in Nat : k < len => leaf \in Leaves(p[len - k].node)}
<1>9. 0 \in T
  BY <1>2, <1>8
<1>10. ASSUME NEW k \in T
       PROVE  k + 1 \in T
  <2> SUFFICES ASSUME k + 1 < len
               PROVE  leaf \in Leaves(p[len - (k + 1)].node)
    OBVIOUS
  <2>1. PICK i \in 1 .. len - 1 : i = len - (k + 1) /\ i + 1 = len - k
    BY <1>2
  <2>2. i \in 1 .. len /\ i + 1 \in 1 .. len
    BY <1>2
  <2>3. leaf \in Leaves(p[i + 1].node)
    BY <2>1
  <2>4. PICK n \in All, m \in All : n = p[i].node /\ m = p[i + 1].node
    BY <1>5, <2>2
  <2>5. PICK o : o = p[i].ofs
    OBVIOUS
  <2>6. At(n, o).tag = "Node" /\ Bare(At(n, o).node) = Bare(m)
    BY <1>6, <2>4, <2>5
  <2>7. At(n, o).node \in All /\ Leaves(At(n, o).node) \subseteq Leaves(n)
    BY <2>6, LeavesBelow
  <2>8. PICK x \in All : x = At(n, o).node
    BY <2>7
  <2>9. Leaves(m) \subseteq Leaves(x)
    BY <2>6, <2>8, SameDigest
  <2> QED BY <2>1, <2>3, <2>4, <2>7, <2>8, <2>9
<1>11. T = Nat
  <2>1. T \in SUBSET Nat
    OBVIOUS
  <2> HIDE DEF T
  <2> QED BY <1>9, <1>10, <2>1, UpTo
<1>12. leaf \in Leaves(p[1].node)
  <2>1. len - 1 \in Nat /\ len - 1 < len /\ len - (len - 1) = 1
    BY <1>2
  <2>2. len - 1 \in T
    <3> HIDE DEF T
    <3> QED BY <1>11, <2>1
  <2> QED BY <2>1, <2>2
<1>13. PICK n \in All : n = p[1].node
  <2>1. 1 \in 1 .. len
    BY <1>2
  <2> QED BY <1>5, <2>1
<1>14. Leaves(n) \subseteq Leaves(t)
  BY <1>6, <1>13, SameDigest
<1> QED BY <1>3, <1>7, <1>12, <1>13, <1>14

\* A proof of membership that is taken from an open branch (proof.rs) is
\* accepted only against a tree that has the leaf it is for, be it the tree
\* before the writes through the branch or after them: for any structure, as its
\* calls may leave any tree and its search method may select any handle.
THEOREM ProofsAreSound ==
  ASSUME Trees(Node, Node), Whole \subseteq Node
  PROVE  Spec => []ProofSound
<1>1. Leads(Node, Node) => ProofSound
  <2> SUFFICES ASSUME Leads(Node, Node), ~Closed, NEW t \in {tree, levels[1].node}, Proves(Proof, t)
               PROVE  HandleOf(Proof).leaf \in Leaves(t)
    BY DEF ProofSound
  <2>1. levels[1].node \in Node
    <3>1. PICK ls : ls = levels /\ IsBranch(ls, Node, Node) /\ ls # <<>>
      BY DEF Leads, Closed
    <3> QED BY <3>1, HasTop
  <2>2. PICK n \in Node : n = t
    BY <2>1 DEF Leads
  <2> QED BY <2>2, ProvesLeaf
<1> QED BY <1>1, AlwaysLeads, PTL

\* The tiers of the tree below a node of a tree are among those of the tree.
LEMMA TiersOn ==
  ASSUME NEW n, NEW j \in Nat, NEW y \in Tiers(n)[j], NEW d \in Nat, NEW x \in Tiers(y[2])[d]
  PROVE  \E g \in Tiers(n)[j + d] : g[2] = x[2]
<1> DEFINE k == y[2]
           S == {c \in Nat : \A z \in Tiers(k)[c] : \E g \in Tiers(n)[j + c] : g[2] = z[2]}
<1>1. 0 \in S
  <2>1. PICK v : v = k
    OBVIOUS
  <2>a. Tiers(v)[0] = {<< <<>>, v >>}
    BY TiersAre
  <2>2. \A z \in {<< <<>>, k >>} : z[2] = k
    OBVIOUS
  <2>3. \A z \in Tiers(k)[0] : \E g \in Tiers(n)[j] : g[2] = z[2]
    BY <2>1, <2>a, <2>2
  <2>4. j + 0 = j /\ 0 \in Nat
    OBVIOUS
  <2> QED BY <2>3, <2>4
<1>2. ASSUME NEW c \in S
      PROVE  c + 1 \in S
  <2>1. /\ c \in Nat /\ c + 1 \in Nat /\ j + c \in Nat /\ j + (c + 1) = (j + c) + 1
        /\ Tiers(k)[c + 1] = Under(Tiers(k)[c])
        /\ Tiers(n)[(j + c) + 1] = Under(Tiers(n)[j + c])
    <3>1. c \in Nat /\ c + 1 \in Nat /\ j + c \in Nat /\ j + (c + 1) = (j + c) + 1
      OBVIOUS
    <3> QED BY <3>1, TiersAre
  <2>2. ASSUME NEW z \in Under(Tiers(k)[c])
        PROVE  \E g \in Under(Tiers(n)[j + c]) : g[2] = z[2]
    <3>0. PICK v \in Tiers(k)[c] : \E i \in DOMAIN v[2].kids :
            v[2].kids[i].tag = "Node" /\ z = <<Append(v[1], i), v[2].kids[i].node>>
      BY <2>2 DEF Under
    <3>1. PICK i \in DOMAIN v[2].kids :
            v[2].kids[i].tag = "Node" /\ z = <<Append(v[1], i), v[2].kids[i].node>>
      BY <3>0
    <3>2. PICK g \in Tiers(n)[j + c] : g[2] = v[2]
      OBVIOUS
    <3>3. <<Append(g[1], i), g[2].kids[i].node>> \in Under(Tiers(n)[j + c])
      <4>1. i \in DOMAIN g[2].kids /\ g[2].kids[i].tag = "Node"
        BY <3>1, <3>2
      <4> QED BY <4>1, UnderHas
    <3>4. z[2] = g[2].kids[i].node
      BY <3>1, <3>2
    <3> QED BY <3>3, <3>4
  <2> QED BY <2>1, <2>2
<1>3. S = Nat
  <2>1. S \in SUBSET Nat
    OBVIOUS
  <2> HIDE DEF S
  <2> QED BY <1>1, <1>2, <2>1, UpTo
<1> QED BY <1>3

\* The nodes of a tree: the root, what its handles lead to, and what those of
\* any of its nodes lead to; none is deeper than the tree.
LEMMA NodesAre ==
  ASSUME NEW All, NEW Below, Trees(All, Below), NEW n \in All
  PROVE  /\ Nodes(n) \subseteq All /\ n \in Nodes(n)
         /\ \A m \in Nodes(n) :
              /\ \A i \in DOMAIN m.kids : m.kids[i].tag = "Node" => m.kids[i].node \in Nodes(n)
              /\ \A d \in Nat : Tiers(n)[d] = {} => Tiers(m)[d] = {}
              /\ m = n \/ \E i \in DOMAIN n.kids :
                            n.kids[i].tag = "Node" /\ m \in Nodes(n.kids[i].node)
<1>1. \E d \in Nat : Tiers(n)[d] = {}
  BY DEF Trees
<1>2. Nodes(n) \subseteq All /\ n \in Nodes(n)
  <2>1. << <<>>, n >> \in Placed(n) /\ << <<>>, n >>[2] = n
    BY PlacedBelow
  <2> QED BY <2>1, PlacedNodes DEF Nodes
<1>3. ASSUME NEW m \in Nodes(n)
      PROVE  /\ \A i \in DOMAIN m.kids : m.kids[i].tag = "Node" => m.kids[i].node \in Nodes(n)
             /\ \A d \in Nat : Tiers(n)[d] = {} => Tiers(m)[d] = {}
             /\ m = n \/ \E i \in DOMAIN n.kids :
                           n.kids[i].tag = "Node" /\ m \in Nodes(n.kids[i].node)
  <2>1. PICK e \in Placed(n) : e[2] = m
    BY DEF Nodes
  <2>2. PICK j \in Nat : e \in Tiers(n)[j]
    BY <1>1, PlacedAre
  <2>3. ASSUME NEW i \in DOMAIN m.kids, m.kids[i].tag = "Node"
        PROVE  m.kids[i].node \in Nodes(n)
    <3>1. PICK x : x = <<Append(e[1], i), e[2].kids[i].node>>
      OBVIOUS
    <3>2. x \in Under(Tiers(n)[j])
      BY <2>1, <2>2, <2>3, <3>1, UnderHas
    <3>3. Tiers(n)[j + 1] = Under(Tiers(n)[j])
      BY TiersAre
    <3>4. x \in Placed(n)
      <4>1. PICK d \in Nat : d = j + 1
        OBVIOUS
      <4>2. x \in Tiers(n)[d]
        BY <3>2, <3>3, <4>1
      <4> QED BY <1>1, <4>2, PlacedAre
    <3>5. x[2] = m.kids[i].node
      BY <2>1, <3>1
    <3> QED BY <3>4, <3>5 DEF Nodes
  <2>4. ASSUME NEW d \in Nat, Tiers(n)[d] = {}, NEW x \in Tiers(m)[d]
        PROVE  FALSE
    <3>1. PICK g \in Tiers(n)[j + d] : g[2] = x[2]
      BY <2>1, <2>2, <2>4, TiersOn
    <3>2. j + d \in Nat /\ j + d >= d
      OBVIOUS
    <3> QED BY <2>4, <3>1, <3>2, EmptyUnder
  <2>5. m = n \/ \E i \in DOMAIN n.kids :
                   n.kids[i].tag = "Node" /\ m \in Nodes(n.kids[i].node)
    BY <2>1, PlacedIs DEF Nodes
  <2> QED BY <2>3, <2>4, <2>5
<1> QED BY <1>2, <1>3

\* Nothing that a handle of a tree leads to is as deep as the tree.
LEMMA KidsLower ==
  ASSUME NEW All, NEW Below, Trees(All, Below), NEW n \in All, NEW d \in Nat, Tiers(n)[d + 1] = {},
         NEW i \in DOMAIN n.kids, n.kids[i].tag = "Node"
  PROVE  Tiers(n.kids[i].node)[d] = {}
<1>1. PICK y : y = <<Append(<<>>, i), n.kids[i].node>>
  OBVIOUS
<1>2. y \in Tiers(n)[1]
  <2>1. Tiers(n)[0] = {<< <<>>, n >>} /\ Tiers(n)[0 + 1] = Under({<< <<>>, n >>})
    BY TiersAre
  <2>2. y \in Under({<< <<>>, n >>})
    BY <1>1 DEF Under
  <2> QED BY <2>1, <2>2
<1>3. SUFFICES ASSUME NEW x \in Tiers(y[2])[d]
               PROVE  FALSE
  BY <1>1
<1>4. PICK g \in Tiers(n)[1 + d] : g[2] = x[2]
  BY <1>2, TiersOn
<1>5. 1 + d = d + 1
  OBVIOUS
<1> QED BY <1>4, <1>5

-----------------------------------------------------------------------------
(***************************************************************************)
(* The keys of a tree and what a save writes of it, node by node.          *)
(***************************************************************************)

\* What is made of a node from what is made of the nodes below it: the keys of
\* its leaves, and what a save writes.

Made(what, m, f) ==
  CASE what = "keys"    -> Seqs!FlattenSeq(KeysBy(m, f))
    [] what = "written" -> Recode([m EXCEPT !.kids = WrittenBy(m, f)])

\* It is made of all nodes of n in f.
MadeBy(what, n, f) == f = [m \in Nodes(n) |-> Made(what, m, f)]

\* What is made of n.
MadeOf(what, n) == (CHOOSE f : MadeBy(what, n, f))[n]

\* Nothing else matters.
LEMMA MadeSame ==
  ASSUME NEW what \in {"keys", "written"}, NEW m, NEW f, NEW g,
         \A i \in DOMAIN m.kids : m.kids[i].tag = "Node" => f[m.kids[i].node] = g[m.kids[i].node]
  PROVE  Made(what, m, f) = Made(what, m, g)
<1>1. KeysBy(m, f) = KeysBy(m, g)
  BY DEF KeysBy
<1>2. WrittenBy(m, f) = WrittenBy(m, g)
  BY DEF WrittenBy
<1> QED BY <1>1, <1>2 DEF Made

\* What is made of a node does not depend on the tree it is made in.
LEMMA MadeOnce ==
  ASSUME NEW All, NEW Below, Trees(All, Below), NEW what \in {"keys", "written"},
         NEW n \in All, NEW k \in All, NEW f, NEW g, MadeBy(what, n, f), MadeBy(what, k, g),
         NEW m \in Nodes(n), m \in Nodes(k)
  PROVE  f[m] = g[m]
<1> DEFINE S == {d \in Nat : \A x \in Nodes(n) \cap Nodes(k) : Tiers(x)[d] = {} => f[x] = g[x]}
<1>1. Nodes(n) \subseteq All /\ Nodes(k) \subseteq All
  BY NodesAre
<1>2. /\ \A x \in Nodes(n) : f[x] = Made(what, x, f)
      /\ \A x \in Nodes(k) : g[x] = Made(what, x, g)
  BY Zenon DEF MadeBy
<1>3. 0 \in S
  <2>1. SUFFICES ASSUME NEW x \in Nodes(n), Tiers(x)[0] = {}
                 PROVE  FALSE
    OBVIOUS
  <2> QED BY <2>1, TiersAre
<1>4. ASSUME NEW d \in S
      PROVE  d + 1 \in S
  <2>1. SUFFICES ASSUME NEW x \in Nodes(n), x \in Nodes(k), Tiers(x)[d + 1] = {}
                 PROVE  f[x] = g[x]
    OBVIOUS
  <2>2. ASSUME NEW i \in DOMAIN x.kids, x.kids[i].tag = "Node"
        PROVE  f[x.kids[i].node] = g[x.kids[i].node]
    <3>1. x.kids[i].node \in Nodes(n) /\ x.kids[i].node \in Nodes(k)
      BY <2>1, <2>2, NodesAre
    <3>2. PICK y \in All : y = x
      BY <1>1
    <3>3. Tiers(y.kids[i].node)[d] = {}
      BY <2>1, <2>2, <3>2, KidsLower
    <3> QED BY <3>1, <3>2, <3>3
  <2>3. Made(what, x, f) = Made(what, x, g)
    BY <2>2, MadeSame
  <2> QED BY <1>2, <2>1, <2>3
<1>5. S = Nat
  <2>1. S \in SUBSET Nat
    OBVIOUS
  <2> HIDE DEF S
  <2> QED BY <1>3, <1>4, <2>1, UpTo
<1>6. PICK d \in Nat : Tiers(m)[d] = {}
  BY <1>1 DEF Trees
<1> QED BY <1>5, <1>6

\* Something is made of every tree.
LEMMA MadeAlways ==
  ASSUME NEW All, NEW Below, Trees(All, Below), NEW what \in {"keys", "written"}, NEW n \in All
  PROVE  \E f : MadeBy(what, n, f)
<1> DEFINE Has(m) == \E f : MadeBy(what, m, f)
           S == {d \in Nat : \A m \in All : Tiers(m)[d] = {} => Has(m)}
<1>1. 0 \in S
  <2>1. SUFFICES ASSUME NEW m \in All, Tiers(m)[0] = {}
                 PROVE  FALSE
    OBVIOUS
  <2> QED BY <2>1, TiersAre
<1>2. ASSUME NEW d \in S
      PROVE  d + 1 \in S
  <2>1. SUFFICES ASSUME NEW m \in All, Tiers(m)[d + 1] = {}
                 PROVE  Has(m)
    OBVIOUS
  <2>2. CASE Tiers(m)[d] = {}
    BY <2>2
  <2>3. CASE Tiers(m)[d] # {}
    <3> DEFINE of == [x \in Nodes(m) |-> MadeOf(what, x)]
               f == [x \in Nodes(m) |-> IF x = m THEN Made(what, m, of) ELSE MadeOf(what, x)]
    <3>1. Nodes(m) \subseteq All /\ m \in Nodes(m)
      BY NodesAre
    <3>2. ASSUME NEW x \in Nodes(m), x # m
          PROVE  Tiers(x)[d] = {} /\ MadeBy(what, x, CHOOSE h : MadeBy(what, x, h))
      <4>1. PICK i \in DOMAIN m.kids : m.kids[i].tag = "Node" /\ x \in Nodes(m.kids[i].node)
        BY <3>2, NodesAre
      <4>2. PICK k \in All : k = m.kids[i].node
        BY <4>1, KidNode
      <4>3. Tiers(k)[d] = {}
        BY <2>1, <4>1, <4>2, KidsLower
      <4>4. Tiers(x)[d] = {}
        BY <4>1, <4>2, <4>3, NodesAre
      <4>5. Has(x)
        BY <3>1, <4>4
      <4> QED BY <4>4, <4>5
    <3>3. ASSUME NEW x \in Nodes(m), NEW i \in DOMAIN x.kids, x.kids[i].tag = "Node"
          PROVE  /\ x.kids[i].node \in Nodes(m) /\ x.kids[i].node # m
                 /\ of[x.kids[i].node] = f[x.kids[i].node]
      <4>1. x.kids[i].node \in Nodes(m)
        BY <3>3, NodesAre
      <4>2. PICK y \in All : y = x
        BY <3>1
      <4>3. Tiers(y)[d + 1] = {}
        BY <2>1, <4>2, NodesAre
      <4>4. Tiers(y.kids[i].node)[d] = {}
        BY <3>3, <4>2, <4>3, KidsLower
      <4> QED BY <2>3, <4>1, <4>2, <4>4
    <3>4. ASSUME NEW x \in Nodes(m)
          PROVE  f[x] = Made(what, x, f)
      <4>1. Made(what, x, of) = Made(what, x, f)
        <5>1. \A i \in DOMAIN x.kids : x.kids[i].tag = "Node" => of[x.kids[i].node] = f[x.kids[i].node]
          BY <3>3
        <5> HIDE DEF of, f
        <5> QED BY <5>1, MadeSame
      <4>2. CASE x = m
        <5>1. f[m] = Made(what, m, of)
          BY <3>1
        <5> HIDE DEF of, f
        <5> QED BY <4>1, <4>2, <5>1
      <4>3. CASE x # m
        <5>1. PICK g : MadeBy(what, x, g) /\ MadeOf(what, x) = g[x]
          BY <3>2, <4>3 DEF MadeOf
        <5>2. f[x] = g[x]
          BY <4>3, <5>1
        <5>3. g[x] = Made(what, x, g)
          <6>1. x \in Nodes(x)
            BY <3>1, NodesAre
          <6> QED BY <5>1, <6>1, Zenon DEF MadeBy
        <5>4. ASSUME NEW i \in DOMAIN x.kids, x.kids[i].tag = "Node"
              PROVE  g[x.kids[i].node] = of[x.kids[i].node]
          <6>1. x.kids[i].node \in Nodes(m) /\ x.kids[i].node # m
            BY <3>3, <5>4
          <6>2. PICK k \in All : k = x.kids[i].node
            BY <3>1, <6>1
          <6>3. PICK h : MadeBy(what, k, h) /\ MadeOf(what, k) = h[k]
            BY <3>2, <6>1, <6>2 DEF MadeOf
          <6>4. k \in Nodes(x) /\ k \in Nodes(k)
            <7>1. x \in All /\ x \in Nodes(x)
              BY <3>1, NodesAre
            <7> QED BY <5>4, <6>2, <7>1, NodesAre
          <6>5. x \in All
            BY <3>1
          <6>6. g[k] = h[k]
            BY <5>1, <6>3, <6>4, <6>5, MadeOnce
          <6>7. of[k] = MadeOf(what, k)
            BY <6>1, <6>2
          <6> QED BY <6>2, <6>3, <6>6, <6>7
        <5>5. Made(what, x, g) = Made(what, x, of)
          <6> HIDE DEF of, f
          <6> QED BY <5>4, MadeSame
        <5> HIDE DEF of, f
        <5> QED BY <4>1, <5>2, <5>3, <5>5
      <4> QED BY <4>2, <4>3
    <3>5. f = [x \in Nodes(m) |-> f[x]]
      OBVIOUS
    <3> HIDE DEF of, f
    <3>6. f = [x \in Nodes(m) |-> Made(what, x, f)]
      BY <3>4, <3>5
    <3>7. MadeBy(what, m, f)
      BY <3>6, Zenon DEF MadeBy
    <3> QED BY <3>7
  <2> QED BY <2>2, <2>3
<1>3. S = Nat
  <2>1. S \in SUBSET Nat
    OBVIOUS
  <2> HIDE DEF S
  <2> QED BY <1>1, <1>2, <2>1, UpTo
<1>4. PICK d \in Nat : Tiers(n)[d] = {}
  BY DEF Trees
<1> QED BY <1>3, <1>4

\* So that what is made of a tree is made of the root, from what is made of the
\* trees its handles lead to.
LEMMA MadeIs ==
  ASSUME NEW All, NEW Below, Trees(All, Below), NEW what \in {"keys", "written"}, NEW n \in All,
         NEW of, \A i \in DOMAIN n.kids :
                   n.kids[i].tag = "Node" => of[n.kids[i].node] = MadeOf(what, n.kids[i].node)
  PROVE  MadeOf(what, n) = Made(what, n, of)
<1>1. PICK f : MadeBy(what, n, f) /\ MadeOf(what, n) = f[n]
  BY MadeAlways DEF MadeOf
<1>2. f[n] = Made(what, n, f)
  <2>1. n \in Nodes(n)
    BY NodesAre
  <2> QED BY <1>1, <2>1, Zenon DEF MadeBy
<1>3. ASSUME NEW i \in DOMAIN n.kids, n.kids[i].tag = "Node"
      PROVE  f[n.kids[i].node] = of[n.kids[i].node]
  <2>1. PICK k \in All : k = n.kids[i].node
    BY <1>3, KidNode
  <2>2. PICK h : MadeBy(what, k, h) /\ MadeOf(what, k) = h[k]
    BY MadeAlways DEF MadeOf
  <2>3. k \in Nodes(n) /\ k \in Nodes(k)
    BY <1>3, <2>1, NodesAre
  <2>4. f[k] = h[k]
    BY <1>1, <2>2, <2>3, MadeOnce
  <2> QED BY <1>3, <2>1, <2>2, <2>4
<1>4. Made(what, n, f) = Made(what, n, of)
  BY <1>3, MadeSame
<1> QED BY <1>1, <1>2, <1>4

\* The parts up to each, joined.
Flattened(parts, m, f) == f = [i \in 1 .. m |-> IF i = 1 THEN parts[i] ELSE f[i - 1] \o parts[i]]

\* Parts can be joined one by one.
LEMMA Flattens ==
  ASSUME NEW parts, NEW m \in Nat
  PROVE  \E f : Flattened(parts, m, f)
<1> DEFINE Is(c, f) == Flattened(parts, c, f)
           S == {c \in Nat : \E f : Is(c, f)}
<1>1. 0 \in S
  <2>1. PICK f : f = [i \in 1 .. 0 |-> {}]
    OBVIOUS
  <2>2. f = [i \in 1 .. 0 |-> IF i = 1 THEN parts[i] ELSE f[i - 1] \o parts[i]]
    BY <2>1
  <2>3. Is(0, f)
    BY <2>2, Zenon DEF Flattened
  <2> QED BY <2>3
<1>2. ASSUME NEW c \in S
      PROVE  c + 1 \in S
  <2>1. PICK f : Is(c, f)
    OBVIOUS
  <2>2. \A i \in 1 .. c : f[i] = IF i = 1 THEN parts[i] ELSE f[i - 1] \o parts[i]
    BY <2>1, Zenon DEF Flattened
  <2> DEFINE last == IF c + 1 = 1 THEN parts[c + 1] ELSE f[c] \o parts[c + 1]
             g == [i \in 1 .. c + 1 |-> IF i = c + 1 THEN last ELSE f[i]]
  <2>3. ASSUME NEW i \in 1 .. c + 1
        PROVE  g[i] = IF i = 1 THEN parts[i] ELSE g[i - 1] \o parts[i]
    <3>1. CASE i = c + 1
      <4>1. g[i] = last /\ i - 1 = c
        BY <3>1
      <4>2. ASSUME i # 1
            PROVE  g[i - 1] = f[c]
        <5>1. i - 1 \in 1 .. c + 1 /\ i - 1 # c + 1 /\ i - 1 = c
          BY <3>1, <4>2
        <5> HIDE DEF last
        <5> QED BY <5>1
      <4> HIDE DEF g
      <4> QED BY <3>1, <4>1, <4>2
    <3>2. CASE i # c + 1
      <4>1. g[i] = f[i] /\ i \in 1 .. c
        <5> HIDE DEF last
        <5> QED BY <3>2
      <4>2. ASSUME i # 1
            PROVE  g[i - 1] = f[i - 1]
        <5>1. i - 1 \in 1 .. c + 1 /\ i - 1 # c + 1
          BY <3>2, <4>2
        <5> HIDE DEF last
        <5> QED BY <5>1
      <4> HIDE DEF g
      <4> QED BY <2>2, <4>1, <4>2
    <3> QED BY <3>1, <3>2
  <2>4. g = [i \in 1 .. c + 1 |-> g[i]]
    OBVIOUS
  <2> HIDE DEF g
  <2>5. g = [i \in 1 .. c + 1 |-> IF i = 1 THEN parts[i] ELSE g[i - 1] \o parts[i]]
    BY <2>3, <2>4
  <2>6. Is(c + 1, g)
    BY <2>5, Zenon DEF Flattened
  <2> QED BY <2>6
<1>3. S = Nat
  <2>1. S \in SUBSET Nat
    OBVIOUS
  <2> HIDE DEF S
  <2> QED BY <1>1, <1>2, <2>1, UpTo
<1> QED BY <1>3

\* How far the joined sequence has come at the end of each part.
Joins(parts, X, at) ==
  LET all == Seqs!FlattenSeq(parts)
  IN /\ all \in Seq(X)
     /\ \A i \in 0 .. Len(parts) : at[i] \in 0 .. Len(all)
     /\ at[0] = 0 /\ at[Len(parts)] = Len(all)
     /\ \A i \in 1 .. Len(parts) :
          /\ at[i] = at[i - 1] + Len(parts[i])
          /\ \A j \in 1 .. Len(parts[i]) : all[at[i - 1] + j] = parts[i][j]

\* The joined sequence has the parts one after the other.
LEMMA JoinsParts ==
  ASSUME NEW X, NEW parts \in Seq(Seq(X))
  PROVE  \E at : Joins(parts, X, at)
<1>1. PICK len \in Nat : len = Len(parts) /\ DOMAIN parts = 1 .. len
  OBVIOUS
<1>2. \A i \in 1 .. len : parts[i] \in Seq(X)
  BY <1>1
<1>3. CASE len = 0
  <2>1. Seqs!FlattenSeq(parts) = parts /\ parts = <<>>
    BY <1>1, <1>3 DEF Seqs!FlattenSeq
  <2>2. parts \in Seq(X) /\ Len(parts) = 0
    BY <2>1
  <2>3. PICK at : at = [i \in {0} |-> 0]
    OBVIOUS
  <2> QED BY <2>1, <2>2, <2>3 DEF Joins
<1>4. CASE len # 0
  <2>1. PICK all : all = Seqs!FlattenSeq(parts)
    OBVIOUS
  <2>2. all = (CHOOSE f : Flattened(parts, len, f))[len]
    BY <1>1, <1>4, <2>1 DEF Seqs!FlattenSeq, Flattened
  <2>3. PICK f : Flattened(parts, len, f) /\ all = f[len]
    BY <2>2, Flattens
  <2>4. \A i \in 1 .. len : f[i] = IF i = 1 THEN parts[i] ELSE f[i - 1] \o parts[i]
    BY <2>3, Zenon DEF Flattened
  <2>5. PICK at : at = [i \in 0 .. len |-> IF i = 0 THEN 0 ELSE Len(f[i])]
    OBVIOUS
  <2> DEFINE Good(c) == /\ f[c] \in Seq(X)
                        /\ at[c] = Len(f[c])
                        /\ \A i \in 1 .. c :
                             /\ at[i - 1] \in Nat /\ at[i] \in Nat
                             /\ at[i] = at[i - 1] + Len(parts[i]) /\ at[i] <= Len(f[c])
                             /\ \A j \in 1 .. Len(parts[i]) : f[c][at[i - 1] + j] = parts[i][j]
             S == {d \in Nat : d + 1 <= len => Good(d + 1)}
  <2>6. 0 \in S
    <3>1. 1 \in 1 .. len /\ 0 + 1 = 1 /\ 1 - 1 = 0
      BY <1>4
    <3>2. f[1] = parts[1] /\ f[1] \in Seq(X)
      BY <1>2, <2>4, <3>1
    <3>3. at[0] = 0 /\ at[1] = Len(f[1]) /\ Len(f[1]) \in Nat
      BY <2>5, <3>1, <3>2
    <3>4. \A i \in 1 .. 1 : i = 1
      OBVIOUS
    <3>5. Good(1)
      BY <3>1, <3>2, <3>3, <3>4
    <3> HIDE DEF Good
    <3> QED BY <3>1, <3>5
  <2>7. ASSUME NEW d \in S
        PROVE  d + 1 \in S
    <3> SUFFICES ASSUME (d + 1) + 1 <= len
                 PROVE  Good((d + 1) + 1)
      OBVIOUS
    <3>1. PICK c \in Nat : c = d + 1 /\ c >= 1 /\ c + 1 <= len
      OBVIOUS
    <3>2. Good(c)
      BY <3>1
    <3>3. c + 1 \in 1 .. len /\ c + 1 # 1 /\ (c + 1) - 1 = c /\ c \in 1 .. len
      BY <1>1, <3>1
    <3>4. f[c + 1] = f[c] \o parts[c + 1] /\ parts[c + 1] \in Seq(X) /\ f[c] \in Seq(X)
      BY <1>2, <2>4, <3>2, <3>3
    <3>5. PICK p \in Seq(X), q \in Seq(X) : p = f[c] /\ q = parts[c + 1] /\ f[c + 1] = p \o q
      BY <3>4
    <3>6. /\ p \o q \in Seq(X) /\ Len(p \o q) = Len(p) + Len(q) /\ Len(p) \in Nat /\ Len(q) \in Nat
          /\ \A j \in 1 .. Len(p) : (p \o q)[j] = p[j]
          /\ \A j \in 1 .. Len(q) : (p \o q)[Len(p) + j] = q[j]
      OBVIOUS
    <3>7. at[c + 1] = Len(f[c + 1]) /\ at[c] = Len(p)
      <4>1. c + 1 \in 0 .. len /\ c + 1 # 0
        BY <3>1
      <4> QED BY <2>5, <3>2, <3>5, <4>1
    <3>8. ASSUME NEW i \in 1 .. c + 1
          PROVE  /\ at[i - 1] \in Nat /\ at[i] \in Nat
                 /\ at[i] = at[i - 1] + Len(parts[i]) /\ at[i] <= Len(f[c + 1])
                 /\ \A j \in 1 .. Len(parts[i]) : f[c + 1][at[i - 1] + j] = parts[i][j]
      <4>1. CASE i = c + 1
        <5>1. i - 1 = c /\ parts[i] = q /\ f[c + 1] = p \o q
          BY <3>5, <4>1
        <5>2. at[i - 1] = Len(p) /\ at[i] = Len(p \o q)
          BY <3>5, <3>7, <4>1, <5>1
        <5>3. at[i] = at[i - 1] + Len(parts[i]) /\ at[i - 1] \in Nat /\ at[i] \in Nat
          BY <3>6, <5>1, <5>2
        <5>4. at[i] <= Len(f[c + 1])
          BY <5>1, <5>2, <5>3
        <5>5. \A j \in 1 .. Len(parts[i]) : f[c + 1][at[i - 1] + j] = parts[i][j]
          BY <3>6, <5>1, <5>2
        <5> QED BY <5>3, <5>4, <5>5
      <4>2. CASE i # c + 1
        <5>1. i \in 1 .. c
          BY <4>2
        <5>2. /\ at[i - 1] \in Nat /\ at[i] \in Nat
              /\ at[i] = at[i - 1] + Len(parts[i]) /\ at[i] <= Len(p)
              /\ \A j \in 1 .. Len(parts[i]) : p[at[i - 1] + j] = parts[i][j]
          BY <3>2, <3>5, <5>1
        <5>3. Len(parts[i]) \in Nat
          <6>1. parts[i] \in Seq(X)
            BY <1>2, <3>3, <5>1
          <6> QED BY <6>1
        <5>4. \A j \in 1 .. Len(parts[i]) : at[i - 1] + j \in 1 .. Len(p)
          <6>1. PICK a \in Nat, b \in Nat, l \in Nat, h \in Nat :
                  a = at[i - 1] /\ b = at[i] /\ l = Len(parts[i]) /\ h = Len(p)
            BY <3>6, <5>2, <5>3
          <6>2. b = a + l /\ b <= h
            BY <5>2, <6>1
          <6>3. \A j \in 1 .. l : a + j \in 1 .. h
            BY <6>2
          <6> QED BY <6>1, <6>3
        <5>5. \A j \in 1 .. Len(parts[i]) : f[c + 1][at[i - 1] + j] = parts[i][j]
          BY <3>5, <3>6, <5>2, <5>4
        <5>6. at[i] <= Len(f[c + 1])
          <6>1. Len(f[c + 1]) = Len(p) + Len(q)
            BY <3>5, <3>6
          <6> QED BY <3>6, <5>2, <6>1
        <5> QED BY <5>2, <5>5, <5>6
      <4> QED BY <4>1, <4>2
    <3>9. f[c + 1] \in Seq(X)
      BY <3>5, <3>6
    <3> QED BY <3>1, <3>7, <3>8, <3>9
  <2>8. S = Nat
    <3>1. S \in SUBSET Nat
      OBVIOUS
    <3> HIDE DEF S
    <3> QED BY <2>6, <2>7, <3>1, UpTo
  <2>9. Good(len)
    <3>1. len - 1 \in Nat /\ (len - 1) + 1 = len
      BY <1>4
    <3>2. len - 1 \in S
      <4> HIDE DEF S
      <4> QED BY <2>8, <3>1
    <3> HIDE DEF Good
    <3> QED BY <3>1, <3>2
  <2>10. at[0] = 0 /\ all = f[len] /\ all \in Seq(X) /\ at[len] = Len(all)
    BY <2>3, <2>5, <2>9
  <2>11. \A i \in 0 .. len : at[i] \in 0 .. Len(all)
    <3>1. SUFFICES ASSUME NEW i \in 0 .. len
                   PROVE  at[i] \in 0 .. Len(all)
      OBVIOUS
    <3>2. CASE i = 0
      BY <2>10, <3>2
    <3>3. CASE i # 0
      <4>1. i \in 1 .. len
        BY <3>3
      <4> QED BY <2>9, <2>10, <4>1
    <3> QED BY <3>2, <3>3
  <2> HIDE DEF S
  <2> QED BY <1>1, <2>1, <2>9, <2>10, <2>11 DEF Joins
<1> QED BY <1>3, <1>4

InputKeys == {l.key : l \in Input}

\* The keys below each handle of a node, and what a save leaves of the handles.
KeyParts(n) ==
  [i \in DOMAIN n.kids |->
     CASE n.kids[i].tag = "Leaf" -> <<n.kids[i].leaf.key>>
       [] n.kids[i].tag = "Node" -> KeysOf(n.kids[i].node)
       [] OTHER -> <<>>]
StoredKids(n) ==
  [i \in DOMAIN n.kids |->
     IF n.kids[i].tag = "Node"
     THEN [n.kids[i] EXCEPT !.node = Stored(@), !.stored = TRUE] ELSE n.kids[i]]

\* KeysOf and Stored as the general case has them.
KeysMade(n, f) == f = [m \in Nodes(n) |-> Seqs!FlattenSeq(KeysBy(m, f))]
SaveMade(n, f) == f = [m \in Nodes(n) |-> Recode([m EXCEPT !.kids = WrittenBy(m, f)])]

LEMMA MadeIn ==
  ASSUME NEW All, NEW Below, Trees(All, Below), NEW n \in All
  PROVE  KeysOf(n) = MadeOf("keys", n) /\ Stored(n) = MadeOf("written", n)
<1>1. PICK keys : keys = "keys"
  OBVIOUS
<1>2. PICK written : written = "written"
  OBVIOUS
<1>3. \A m, f : Made(keys, m, f) = Seqs!FlattenSeq(KeysBy(m, f))
  BY <1>1 DEF Made
<1>4. \A m, f : Made(written, m, f) = Recode([m EXCEPT !.kids = WrittenBy(m, f)])
  BY <1>2 DEF Made
<1>5. \A f : KeysMade(n, f) <=> MadeBy(keys, n, f)
  BY <1>3 DEF KeysMade, MadeBy
<1>6. \A f : SaveMade(n, f) <=> MadeBy(written, n, f)
  BY <1>4 DEF SaveMade, MadeBy
<1>7. KeysOf(n) = (CHOOSE f : KeysMade(n, f))[n]
  BY DEF KeysOf, KeysMade
<1>8. Stored(n) = (CHOOSE f : SaveMade(n, f))[n]
  BY DEF Stored, SaveMade
<1>9. keys \in {"keys", "written"} /\ written \in {"keys", "written"}
  BY <1>1, <1>2
<1>10. n \in Nodes(n)
  BY NodesAre
<1>11. KeysOf(n) = MadeOf(keys, n)
  <2>1. PICK f : MadeBy(keys, n, f) /\ MadeOf(keys, n) = f[n]
    BY <1>9, MadeAlways DEF MadeOf
  <2>2. PICK g : MadeBy(keys, n, g) /\ KeysOf(n) = g[n]
    BY <1>5, <1>7, <2>1
  <2> QED BY <1>9, <1>10, <2>1, <2>2, MadeOnce
<1>12. Stored(n) = MadeOf(written, n)
  <2>1. PICK f : MadeBy(written, n, f) /\ MadeOf(written, n) = f[n]
    BY <1>9, MadeAlways DEF MadeOf
  <2>2. PICK g : MadeBy(written, n, g) /\ Stored(n) = g[n]
    BY <1>6, <1>8, <2>1
  <2> QED BY <1>9, <1>10, <2>1, <2>2, MadeOnce
<1> QED BY <1>1, <1>2, <1>11, <1>12

\* The keys of a tree are those below each of its handles, from left to right.
LEMMA KeysAre ==
  ASSUME NEW All, NEW Below, Trees(All, Below), NEW n \in All
  PROVE  KeysOf(n) = Seqs!FlattenSeq(KeyParts(n))
<1>1. PICK keys : keys = "keys"
  OBVIOUS
<1>2. \A m \in All : KeysOf(m) = MadeOf(keys, m)
  BY <1>1, MadeIn
<1> DEFINE of == [m \in All |-> KeysOf(m)]
<1>3. ASSUME NEW i \in DOMAIN n.kids, n.kids[i].tag = "Node"
      PROVE  of[n.kids[i].node] = KeysOf(n.kids[i].node) /\ of[n.kids[i].node] = MadeOf(keys, n.kids[i].node)
  <2>1. n.kids[i].node \in All
    BY <1>3, KidNode
  <2> QED BY <1>2, <2>1
<1>4. KeysBy(n, of) = KeyParts(n)
  BY <1>3 DEF KeysBy, KeyParts
<1> HIDE DEF of
<1>5. MadeOf(keys, n) = Made(keys, n, of)
  <2>1. keys \in {"keys", "written"}
    BY <1>1
  <2> QED BY <1>3, <2>1, MadeIs
<1>6. Made(keys, n, of) = Seqs!FlattenSeq(KeysBy(n, of))
  BY <1>1 DEF Made
<1> QED BY <1>2, <1>4, <1>5, <1>6

\* A save writes a node with handles to what it writes of those below.
LEMMA StoredIs ==
  ASSUME NEW All, NEW Below, Trees(All, Below), NEW n \in All
  PROVE  Stored(n) = Recode([n EXCEPT !.kids = StoredKids(n)])
<1>1. PICK written : written = "written"
  OBVIOUS
<1>2. \A m \in All : Stored(m) = MadeOf(written, m)
  BY <1>1, MadeIn
<1> DEFINE of == [m \in All |-> Stored(m)]
<1>3. ASSUME NEW i \in DOMAIN n.kids, n.kids[i].tag = "Node"
      PROVE  of[n.kids[i].node] = Stored(n.kids[i].node) /\ of[n.kids[i].node] = MadeOf(written, n.kids[i].node)
  <2>1. n.kids[i].node \in All
    BY <1>3, KidNode
  <2> QED BY <1>2, <2>1
<1>4. WrittenBy(n, of) = StoredKids(n)
  BY <1>3 DEF WrittenBy, StoredKids
<1> HIDE DEF of
<1>5. MadeOf(written, n) = Made(written, n, of)
  <2>1. written \in {"keys", "written"}
    BY <1>1
  <2> QED BY <1>3, <2>1, MadeIs
<1>6. Made(written, n, of) = Recode([n EXCEPT !.kids = WrittenBy(n, of)])
  BY <1>1 DEF Made
<1> QED BY <1>2, <1>4, <1>5, <1>6

\* They are keys that leaves can have.
LEMMA KeysIn ==
  ASSUME NEW All, NEW Below, Trees(All, Below), NEW n \in All
  PROVE  KeysOf(n) \in Seq(InputKeys) /\ KeyParts(n) \in Seq(Seq(InputKeys))
<1> DEFINE S == {d \in Nat : \A m \in All : Tiers(m)[d] = {} => KeysOf(m) \in Seq(InputKeys)}
<1>1. ASSUME NEW m \in All,
             \A i \in DOMAIN m.kids : m.kids[i].tag = "Node" => KeysOf(m.kids[i].node) \in Seq(InputKeys)
      PROVE  KeysOf(m) \in Seq(InputKeys) /\ KeyParts(m) \in Seq(Seq(InputKeys))
  <2>1. ASSUME NEW i \in DOMAIN m.kids
        PROVE  KeyParts(m)[i] \in Seq(InputKeys)
    <3>1. CASE m.kids[i].tag = "Leaf"
      <4>1. IsHandle(m.kids[i], Below)
        BY DEF Trees
      <4>2. PICK h : h = m.kids[i]
        OBVIOUS
      <4>3. h # None
        BY <3>1, <4>2 DEF None
      <4>4. ~ \E k \in Below : \E a, b : h = [tag |-> "Node", node |-> k, ann |-> a, stored |-> b]
        <5>1. ASSUME NEW k \in Below, NEW a, NEW b, h = [tag |-> "Node", node |-> k, ann |-> a, stored |-> b]
              PROVE  FALSE
          <6>1. h.tag = "Node"
            BY <5>1
          <6> QED BY <3>1, <4>2, <6>1
        <5> QED BY <5>1
      <4>5. PICK l \in Input : h = Leaf(l)
        BY <4>1, <4>2, <4>3, <4>4 DEF IsHandle
      <4>6. h.leaf.key \in InputKeys
        BY <4>5 DEF Leaf, InputKeys
      <4>7. KeyParts(m)[i] = << h.leaf.key >>
        BY <3>1, <4>2 DEF KeyParts
      <4> QED BY <4>6, <4>7
    <3>2. CASE m.kids[i].tag = "Node"
      BY <1>1, <3>2 DEF KeyParts
    <3>3. CASE m.kids[i].tag # "Leaf" /\ m.kids[i].tag # "Node"
      BY <3>3 DEF KeyParts
    <3> QED BY <3>1, <3>2, <3>3
  <2>2. PICK H : m.kids \in Seq(H)
    BY DEF Trees
  <2>3. PICK len \in Nat : DOMAIN m.kids = 1 .. len
    BY <2>2
  <2>4. PICK parts : parts = KeyParts(m)
    OBVIOUS
  <2>5. parts = [i \in 1 .. len |-> parts[i]] /\ \A i \in 1 .. len : parts[i] \in Seq(InputKeys)
    BY <2>1, <2>3, <2>4 DEF KeyParts
  <2>6. parts \in Seq(Seq(InputKeys))
    BY <2>5
  <2>7. PICK at : Joins(parts, InputKeys, at)
    BY <2>6, JoinsParts
  <2>8. Seqs!FlattenSeq(parts) \in Seq(InputKeys)
    BY <2>7 DEF Joins
  <2> QED BY <2>4, <2>6, <2>8, KeysAre
<1>2. 0 \in S
  <2>1. SUFFICES ASSUME NEW m \in All, Tiers(m)[0] = {}
                 PROVE  FALSE
    OBVIOUS
  <2> QED BY <2>1, TiersAre
<1>3. ASSUME NEW d \in S
      PROVE  d + 1 \in S
  <2>1. SUFFICES ASSUME NEW m \in All, Tiers(m)[d + 1] = {}
                 PROVE  KeysOf(m) \in Seq(InputKeys)
    OBVIOUS
  <2>2. ASSUME NEW i \in DOMAIN m.kids, m.kids[i].tag = "Node"
        PROVE  KeysOf(m.kids[i].node) \in Seq(InputKeys)
    <3>1. m.kids[i].node \in All /\ Tiers(m.kids[i].node)[d] = {}
      BY <2>1, <2>2, KidNode, KidsLower
    <3> QED BY <3>1
  <2> QED BY <1>1, <2>2
<1>4. S = Nat
  <2>1. S \in SUBSET Nat
    OBVIOUS
  <2> HIDE DEF S
  <2> QED BY <1>2, <1>3, <2>1, UpTo
<1>5. \A m \in All : KeysOf(m) \in Seq(InputKeys)
  <2>1. SUFFICES ASSUME NEW m \in All
                 PROVE  KeysOf(m) \in Seq(InputKeys)
    OBVIOUS
  <2>2. PICK d \in Nat : Tiers(m)[d] = {}
    BY DEF Trees
  <2> QED BY <1>4, <2>2
<1>6. \A i \in DOMAIN n.kids : n.kids[i].tag = "Node" => KeysOf(n.kids[i].node) \in Seq(InputKeys)
  BY <1>5, KidNode
<1> QED BY <1>1, <1>6

-----------------------------------------------------------------------------
(***************************************************************************)
(* The place of a branch in the keys of the tree, which the drop of it     *)
(* leaves as they are.                                                     *)
(***************************************************************************)

\* The number of keys to the left of offset o of a node.
Before(n, o) == (CHOOSE at : Joins(KeyParts(n), InputKeys, at))[o]

\* How the keys of a tree are laid out over the handles of its root.
Layout(n, kids) ==
  LET keys == KeysOf(n)
  IN /\ keys \in Seq(InputKeys)
     /\ Len(n.kids) = Len(kids)
     /\ Before(n, 0) = 0 /\ Before(n, Len(kids)) = Len(keys)
     /\ \A o \in 0 .. Len(kids) : Before(n, o) \in 0 .. Len(keys)
     /\ \A o \in 0 .. Len(kids) - 1 :
          LET h == kids[o + 1]
              here == KeyParts(n)[o + 1]
          IN /\ At(n, o) = h
             /\ here \in Seq(InputKeys)
             /\ Before(n, o + 1) = Before(n, o) + Len(here)
             /\ \A j \in 1 .. Len(here) : keys[Before(n, o) + j] = here[j]
             /\ here = CASE h.tag = "Leaf" -> <<h.leaf.key>>
                         [] h.tag = "Node" -> KeysOf(h.node)
                         [] OTHER -> <<>>

LEMMA LayoutIs ==
  ASSUME NEW All, NEW Below, Trees(All, Below), NEW n \in All
  PROVE  Layout(n, n.kids)
<1>1. PICK parts : parts = KeyParts(n)
  OBVIOUS
<1>2. PICK keys : keys = KeysOf(n)
  OBVIOUS
<1>3. keys = Seqs!FlattenSeq(parts) /\ parts \in Seq(Seq(InputKeys)) /\ keys \in Seq(InputKeys)
  BY <1>1, <1>2, KeysAre, KeysIn
<1>4. PICK at : Joins(parts, InputKeys, at) /\ \A o : Before(n, o) = at[o]
  <2>1. PICK at : at = CHOOSE f : Joins(parts, InputKeys, f)
    OBVIOUS
  <2>2. Joins(parts, InputKeys, at)
    BY <1>3, <2>1, JoinsParts
  <2> QED BY <1>1, <2>1, <2>2 DEF Before
<1>5. PICK H : n.kids \in Seq(H)
  BY DEF Trees
<1>6. PICK len \in Nat : len = Len(n.kids) /\ DOMAIN n.kids = 1 .. len
  BY <1>5
<1>7. Len(parts) = len
  <2>1. DOMAIN parts = 1 .. len
    BY <1>1, <1>6 DEF KeyParts
  <2> QED BY <1>3, <2>1
<1>8. /\ Before(n, 0) = 0 /\ Before(n, len) = Len(keys)
      /\ \A o \in 0 .. len : Before(n, o) \in 0 .. Len(keys)
  BY <1>3, <1>4, <1>7 DEF Joins
<1>9. ASSUME NEW o \in 0 .. len - 1
      PROVE  /\ At(n, o) = n.kids[o + 1]
             /\ parts[o + 1] \in Seq(InputKeys)
             /\ Before(n, o + 1) = Before(n, o) + Len(parts[o + 1])
             /\ \A j \in 1 .. Len(parts[o + 1]) : keys[Before(n, o) + j] = parts[o + 1][j]
             /\ parts[o + 1] = CASE n.kids[o + 1].tag = "Leaf" -> <<n.kids[o + 1].leaf.key>>
                                 [] n.kids[o + 1].tag = "Node" -> KeysOf(n.kids[o + 1].node)
                                 [] OTHER -> <<>>
  <2>1. PICK i \in 1 .. len : i = o + 1 /\ i - 1 = o
    BY <1>6
  <2>2. /\ at[i] = at[i - 1] + Len(parts[i])
        /\ \A j \in 1 .. Len(parts[i]) : keys[at[i - 1] + j] = parts[i][j]
    BY <1>3, <1>4, <1>7, <2>1 DEF Joins
  <2>3. parts[i] \in Seq(InputKeys)
    BY <1>3, <1>7, <2>1
  <2>4. At(n, o) = n.kids[i]
    BY <1>6, <2>1 DEF At
  <2>5. parts[i] = CASE n.kids[i].tag = "Leaf" -> <<n.kids[i].leaf.key>>
                     [] n.kids[i].tag = "Node" -> KeysOf(n.kids[i].node)
                     [] OTHER -> <<>>
    BY <1>1, <1>6, <2>1 DEF KeyParts
  <2> QED BY <1>4, <2>1, <2>2, <2>3, <2>4, <2>5
<1> QED BY <1>1, <1>2, <1>3, <1>6, <1>8, <1>9 DEF Layout

\* Handles with the same keys at and below them make the same keys.
LEMMA SameParts ==
  ASSUME NEW All, NEW Below, Trees(All, Below), NEW n \in All, NEW m \in All, KeyParts(n) = KeyParts(m)
  PROVE  KeysOf(n) = KeysOf(m) /\ \A o : Before(n, o) = Before(m, o)
BY KeysAre DEF Before

\* A node keeps the keys where they are when a leaf is written with the same key,
\* and when a handle leads to another node with the same keys.
LEMMA WithKeys ==
  ASSUME NEW All, NEW Below, Trees(All, Below), NEW n \in All, NEW o, At(n, o).tag # "None", NEW h,
         \/ /\ At(n, o).tag = "Leaf" /\ h.tag = "Leaf" /\ h.leaf.key = At(n, o).leaf.key
         \/ /\ At(n, o).tag = "Node" /\ h.tag = "Node" /\ KeysOf(h.node) = KeysOf(At(n, o).node)
  PROVE  /\ KeyParts(With(n, o, h)) = KeyParts(n)
         /\ Len(With(n, o, h).kids) = Len(n.kids)
         /\ At(With(n, o, h), o) = h
<1>1. o \in 0 .. Len(n.kids) - 1 /\ At(n, o) = n.kids[o + 1]
  BY DEF At, None
<1>2. PICK H : n.kids \in Seq(H)
  BY DEF Trees
<1>3. PICK i \in DOMAIN n.kids : i = o + 1
  BY <1>1, <1>2
<1>4. PICK m : m = With(n, o, h)
  OBVIOUS
<1>5. m.kids = [n.kids EXCEPT ![i] = h]
  <2>1. "kids" \in DOMAIN n
    BY DEF Trees
  <2> QED BY <1>3, <1>4, <2>1 DEF With
<1>6. /\ DOMAIN m.kids = DOMAIN n.kids /\ m.kids[i] = h /\ Len(m.kids) = Len(n.kids)
      /\ \A j \in DOMAIN n.kids : j # i => m.kids[j] = n.kids[j]
  BY <1>2, <1>5
<1>7. KeyParts(m) = KeyParts(n)
  <2>1. ASSUME NEW j \in DOMAIN n.kids
        PROVE  KeyParts(m)[j] = KeyParts(n)[j]
    <3>1. CASE j = i
      BY <1>1, <1>3, <1>6, <3>1 DEF KeyParts
    <3>2. CASE j # i
      BY <1>6, <3>2 DEF KeyParts
    <3> QED BY <3>1, <3>2
  <2>2. /\ KeyParts(m) = [j \in DOMAIN n.kids |-> KeyParts(m)[j]]
        /\ KeyParts(n) = [j \in DOMAIN n.kids |-> KeyParts(n)[j]]
    BY <1>6 DEF KeyParts
  <2> QED BY <2>1, <2>2
<1>8. At(m, o) = h
  BY <1>1, <1>3, <1>6 DEF At
<1> QED BY <1>4, <1>6, <1>7, <1>8

-----------------------------------------------------------------------------

\* Where the keys of each level of a branch are among those of the tree.
Place(ls, keys, off) ==
  /\ off[1] = 0 /\ KeysOf(ls[1].node) = keys
  /\ \A i \in DOMAIN ls :
       LET here == KeysOf(ls[i].node)
       IN /\ off[i] \in Nat /\ off[i] + Len(here) <= Len(keys)
          /\ \A j \in 1 .. Len(here) : keys[off[i] + j] = here[j]
  /\ \A i \in 1 .. Len(ls) - 1 :
       /\ KeysOf(At(ls[i].node, ls[i].ofs).node) = KeysOf(ls[i + 1].node)
       /\ off[i + 1] = off[i] + Before(ls[i].node, ls[i].ofs)

\* So many keys are to the left of where a branch is.
IsAt(ls, keys, p) ==
  /\ Top(ls).ofs \in 0 .. Len(Top(ls).node.kids)
  /\ \E off : Place(ls, keys, off) /\ p = off[Len(ls)] + Before(Top(ls).node, Top(ls).ofs)

\* The last level may be l.
LastPlaced(ls, l, keys, off) ==
  LET to == [ls EXCEPT ![Len(ls)] = l]
  IN /\ Place(to, keys, off) /\ Len(to) = Len(ls) /\ Top(to) = l
     /\ KeysOf(l.node) = KeysOf(Top(ls).node)
     /\ \A o : Before(l.node, o) = Before(Top(ls).node, o)

\* So it may, if the keys below it are where they were.
LEMMA PlaceLast ==
  ASSUME NEW All, NEW Below, Trees(All, Below), NEW ls, IsBranch(ls, All, Below), ls # <<>>,
         NEW keys, NEW off, Place(ls, keys, off),
         NEW l, l.node \in All, KeyParts(l.node) = KeyParts(Top(ls).node)
  PROVE  LastPlaced(ls, l, keys, off)
<1>1. PICK len \in Nat : len = Len(ls) /\ len >= 1 /\ DOMAIN ls = 1 .. len
  BY HasTop
<1>2. PICK to : to = [ls EXCEPT ![Len(ls)] = l]
  OBVIOUS
<1>3. PICK S : ls \in Seq(S)
  BY DEF IsBranch
<1>4. /\ Len(to) = len /\ DOMAIN to = 1 .. len /\ to[len] = l
      /\ \A i \in 1 .. len : i # len => to[i] = ls[i]
  BY <1>1, <1>2, <1>3
<1>5. PICK n \in All, m \in All : n = l.node /\ m = ls[len].node
  <2>1. IsLevel(ls[len], All)
    BY <1>1 DEF IsBranch
  <2>2. ls[len].node \in All
    BY <2>1 DEF IsLevel
  <2> QED BY <2>2
<1>6. KeysOf(n) = KeysOf(m) /\ \A o : Before(n, o) = Before(m, o)
  BY <1>1, <1>5, SameParts DEF Top
<1>7. \A i \in 1 .. len : KeysOf(to[i].node) = KeysOf(ls[i].node)
  BY <1>4, <1>5, <1>6
<1>8. \A i \in 1 .. len - 1 : i # len /\ i \in 1 .. len /\ i + 1 \in 1 .. len
  BY <1>1
<1>9. off[1] = 0 /\ KeysOf(to[1].node) = keys
  <2>1. 1 \in 1 .. len
    BY <1>1
  <2> QED BY <1>7, <2>1 DEF Place
<1>10. \A i \in 1 .. len :
         /\ off[i] \in Nat /\ off[i] + Len(KeysOf(to[i].node)) <= Len(keys)
         /\ \A j \in 1 .. Len(KeysOf(to[i].node)) : keys[off[i] + j] = KeysOf(to[i].node)[j]
  BY <1>1, <1>7 DEF Place
<1>11. \A i \in 1 .. len - 1 :
         /\ KeysOf(At(to[i].node, to[i].ofs).node) = KeysOf(to[i + 1].node)
         /\ off[i + 1] = off[i] + Before(to[i].node, to[i].ofs)
  BY <1>1, <1>4, <1>7, <1>8 DEF Place
<1>12. Place(to, keys, off)
  BY <1>4, <1>9, <1>10, <1>11 DEF Place
<1> QED BY <1>1, <1>2, <1>4, <1>5, <1>6, <1>12 DEF Top, LastPlaced

\* A branch from the root is to the left of all keys.
LEMMA RootPlace ==
  ASSUME NEW All, NEW Below, Trees(All, Below), NEW n \in All
  PROVE  IsAt(<<Level(n)>>, KeysOf(n), 0)
<1>1. PICK ls : ls = <<Level(n)>>
  OBVIOUS
<1>2. /\ Len(ls) = 1 /\ DOMAIN ls = {1} /\ ls[1].node = n /\ ls[1].ofs = 0
      /\ 1 .. Len(ls) - 1 = {}
  BY <1>1 DEF Level
<1>3. PICK kids : kids = n.kids
  OBVIOUS
<1>4. Layout(n, kids)
  BY <1>3, LayoutIs
<1>5. PICK H : n.kids \in Seq(H)
  BY DEF Trees
<1>6. Len(n.kids) \in Nat /\ 0 \in 0 .. Len(n.kids)
  BY <1>5
<1>7. PICK off : off = [i \in {1} |-> 0]
  OBVIOUS
<1>8. off[1] = 0
  BY <1>7
<1>9. KeysOf(n) \in Seq(InputKeys) /\ Before(n, 0) = 0
  BY <1>4 DEF Layout
<1>10. Len(KeysOf(n)) \in Nat
  BY <1>9
<1>11. Place(ls, KeysOf(n), off)
  BY <1>2, <1>8, <1>10 DEF Place
<1>12. 0 = off[Len(ls)] + Before(Top(ls).node, Top(ls).ofs)
  BY <1>2, <1>8, <1>9 DEF Top
<1> QED BY <1>1, <1>2, <1>6, <1>11, <1>12 DEF IsAt, Top

\* Going down a level leaves it where it is.
LEMMA PlaceMore ==
  ASSUME NEW All, NEW Below, Trees(All, Below), NEW ls, IsBranch(ls, All, Below), ls # <<>>,
         HandleOf(ls).tag = "Node", NEW keys \in Seq(InputKeys), NEW p, IsAt(ls, keys, p)
  PROVE  IsAt(Append(ls, Level(HandleOf(ls).node)), keys, p)
<1>1. PICK len \in Nat : len = Len(ls) /\ len >= 1 /\ DOMAIN ls = 1 .. len
  BY HasTop
<1>2. PICK S : ls \in Seq(S)
  BY DEF IsBranch
<1>3. IsLevel(Top(ls), All)
  BY HasTop
<1>n. PICK n \in All : \E o : n = Top(ls).node /\ o = Top(ls).ofs
  BY <1>3 DEF IsLevel
<1>4. PICK o : n = Top(ls).node /\ o = Top(ls).ofs
  BY <1>n
<1>5. PICK off : Place(ls, keys, off) /\ p = off[len] + Before(n, o)
  BY <1>1, <1>4 DEF IsAt
<1>6. At(n, o).tag = "Node" /\ o \in 0 .. Len(n.kids) - 1
  BY <1>4 DEF HandleOf, At, None
<1>7. PICK m \in All : m = At(n, o).node /\ m = HandleOf(ls).node
  BY <1>4, <1>6, LeavesBelow DEF HandleOf
<1>8. PICK to : to = Append(ls, Level(m))
  OBVIOUS
<1>9. /\ Len(to) = len + 1 /\ DOMAIN to = 1 .. len + 1 /\ to[len + 1] = Level(m)
      /\ \A i \in 1 .. len : to[i] = ls[i]
  BY <1>1, <1>2, <1>8
<1>10. PICK at : at = [i \in 1 .. len + 1 |-> IF i = len + 1 THEN p ELSE off[i]]
  OBVIOUS
<1>11. at[len + 1] = p /\ \A i \in 1 .. len : at[i] = off[i]
  BY <1>1, <1>10
<1>12. PICK kids : kids = n.kids
  OBVIOUS
<1>13. Layout(n, kids)
  BY <1>12, LayoutIs
<1>14. Level(m).node = m /\ Level(m).ofs = 0
  BY DEF Level
<1>15. /\ off[len] \in Nat /\ off[len] + Len(KeysOf(n)) <= Len(keys)
       /\ \A j \in 1 .. Len(KeysOf(n)) : keys[off[len] + j] = KeysOf(n)[j]
  BY <1>1, <1>4, <1>5 DEF Place, Top
<1>16. /\ KeysOf(n) \in Seq(InputKeys) /\ KeysOf(m) \in Seq(InputKeys)
       /\ Before(n, o) \in Nat /\ Before(n, o) + Len(KeysOf(m)) <= Len(KeysOf(n))
       /\ \A j \in 1 .. Len(KeysOf(m)) : KeysOf(n)[Before(n, o) + j] = KeysOf(m)[j]
  <2>1. o \in 0 .. Len(kids) - 1 /\ o + 1 \in 0 .. Len(kids) /\ o \in 0 .. Len(kids) /\ kids[o + 1] = At(n, o)
    <3>1. PICK H : n.kids \in Seq(H)
      BY DEF Trees
    <3>2. Len(kids) \in Nat /\ o \in 0 .. Len(kids) - 1
      BY <1>6, <1>12, <3>1
    <3> QED BY <1>12, <3>2 DEF At
  <2>2. KeyParts(n)[o + 1] = KeysOf(m)
    BY <1>6, <1>7, <1>13, <2>1 DEF Layout
  <2>3. /\ KeysOf(n) \in Seq(InputKeys) /\ KeysOf(m) \in Seq(InputKeys)
        /\ Before(n, o + 1) = Before(n, o) + Len(KeysOf(m))
        /\ \A j \in 1 .. Len(KeysOf(m)) : KeysOf(n)[Before(n, o) + j] = KeysOf(m)[j]
        /\ Before(n, o) \in 0 .. Len(KeysOf(n)) /\ Before(n, o + 1) \in 0 .. Len(KeysOf(n))
    BY <1>13, <2>1, <2>2 DEF Layout
  <2>4. Len(KeysOf(n)) \in Nat /\ Len(KeysOf(m)) \in Nat
    BY <2>3
  <2> QED BY <2>3, <2>4
<1>17. /\ p \in Nat /\ p + Len(KeysOf(m)) <= Len(keys)
       /\ \A j \in 1 .. Len(KeysOf(m)) : keys[p + j] = KeysOf(m)[j]
  <2>1. PICK a \in Nat, b \in Nat, c \in Nat, d \in Nat :
          a = off[len] /\ b = Before(n, o) /\ c = Len(KeysOf(m)) /\ d = Len(KeysOf(n))
    BY <1>15, <1>16
  <2>2. Len(keys) \in Nat
    OBVIOUS
  <2>3. p = a + b /\ b + c <= d /\ a + d <= Len(keys)
    BY <1>5, <1>15, <1>16, <2>1
  <2>4. p \in Nat /\ p + c <= Len(keys)
    BY <2>2, <2>3
  <2>5. ASSUME NEW j \in 1 .. c
        PROVE  keys[p + j] = KeysOf(m)[j]
    <3>1. b + j \in 1 .. d /\ a + (b + j) = p + j
      BY <2>3
    <3>2. keys[a + (b + j)] = KeysOf(n)[b + j]
      BY <1>15, <2>1, <3>1
    <3>3. KeysOf(n)[b + j] = KeysOf(m)[j]
      BY <1>16, <2>1
    <3> QED BY <3>1, <3>2, <3>3
  <2> QED BY <2>1, <2>4, <2>5
<1>18. at[1] = 0 /\ KeysOf(to[1].node) = keys
  <2>1. 1 \in 1 .. len
    BY <1>1
  <2> QED BY <1>5, <1>9, <1>11, <2>1 DEF Place
<1>19. ASSUME NEW i \in 1 .. len + 1
       PROVE  /\ at[i] \in Nat /\ at[i] + Len(KeysOf(to[i].node)) <= Len(keys)
              /\ \A j \in 1 .. Len(KeysOf(to[i].node)) : keys[at[i] + j] = KeysOf(to[i].node)[j]
  <2>1. CASE i = len + 1
    BY <1>9, <1>11, <1>14, <1>17, <2>1
  <2>2. CASE i # len + 1
    <3>1. i \in 1 .. len
      BY <2>2
    <3>2. /\ off[i] \in Nat /\ off[i] + Len(KeysOf(ls[i].node)) <= Len(keys)
          /\ \A j \in 1 .. Len(KeysOf(ls[i].node)) : keys[off[i] + j] = KeysOf(ls[i].node)[j]
      BY <1>1, <1>5, <3>1 DEF Place
    <3>3. at[i] = off[i] /\ to[i] = ls[i]
      BY <1>9, <1>11, <3>1
    <3> QED BY <3>2, <3>3
  <2> QED BY <2>1, <2>2
<1>20. ASSUME NEW i \in 1 .. (len + 1) - 1
       PROVE  /\ KeysOf(At(to[i].node, to[i].ofs).node) = KeysOf(to[i + 1].node)
              /\ at[i + 1] = at[i] + Before(to[i].node, to[i].ofs)
  <2>1. CASE i = len
    <3>1. to[i] = Top(ls) /\ to[i + 1] = Level(m) /\ at[i + 1] = p /\ at[i] = off[len]
      BY <1>1, <1>9, <1>11, <2>1 DEF Top
    <3> QED BY <1>4, <1>5, <1>7, <1>14, <3>1
  <2>2. CASE i # len
    <3>1. i \in 1 .. len - 1 /\ i \in 1 .. len /\ i + 1 \in 1 .. len
      BY <2>2
    <3> QED BY <1>1, <1>5, <1>9, <1>11, <3>1 DEF Place
  <2> QED BY <2>1, <2>2
<1>21. Place(to, keys, at)
  BY <1>9, <1>18, <1>19, <1>20 DEF Place
<1>22. Top(to).node = m /\ Top(to).ofs = 0
  BY <1>9, <1>14 DEF Top
<1>23. Before(m, 0) = 0 /\ 0 \in 0 .. Len(m.kids)
  <2>1. PICK k : k = m.kids
    OBVIOUS
  <2>2. Layout(m, k)
    BY <2>1, LayoutIs
  <2>3. PICK H : m.kids \in Seq(H)
    BY DEF Trees
  <2> QED BY <2>2, <2>3 DEF Layout
<1>24. p = at[Len(to)] + Before(Top(to).node, Top(to).ofs)
  BY <1>9, <1>11, <1>17, <1>22, <1>23
<1> QED BY <1>7, <1>8, <1>21, <1>22, <1>23, <1>24 DEF IsAt

\* Closing the lowest level: the level above is at the keys it had.
LEMMA PlaceLess ==
  ASSUME NEW All, NEW Below, Trees(All, Below), NEW ls, IsBranch(ls, All, Below), Len(ls) > 1,
         NEW keys, NEW off, Place(ls, keys, off)
  PROVE  LET up == PopLevel(ls)
         IN /\ Place(up, keys, off)
            /\ HandleOf(up).tag = "Node" /\ KeysOf(HandleOf(up).node) = KeysOf(Top(ls).node)
            /\ off[Len(ls)] = off[Len(up)] + Before(Top(up).node, Top(up).ofs)
<1>1. PICK len \in Nat : len = Len(ls) /\ len > 1 /\ DOMAIN ls = 1 .. len
  <2>1. PICK S : ls \in Seq(S)
    BY DEF IsBranch
  <2> QED BY <2>1
<1>2. PICK up : up = SubSeq(ls, 1, len - 1)
  OBVIOUS
<1>3. /\ Len(up) = len - 1 /\ DOMAIN up = 1 .. len - 1 /\ up # <<>>
      /\ \A i \in 1 .. len - 1 : up[i] = ls[i]
  <2>1. PICK S : ls \in Seq(S)
    BY DEF IsBranch
  <2>2. /\ Len(up) = len - 1 /\ DOMAIN up = 1 .. len - 1 /\ Len(up) >= 1
        /\ \A i \in 1 .. len - 1 : up[i] = ls[i]
    BY <1>1, <1>2, <2>1
  <2>3. Len(<<>>) = 0
    OBVIOUS
  <2> QED BY <2>2, <2>3
<1>4. Seqs!Front(ls) = up
  BY <1>1, <1>2 DEF Seqs!Front
<1>5. IsBranch(up, All, Below)
  <2>1. PICK S : ls \in Seq(S)
    BY DEF IsBranch
  <2>2. up \in Seq(S)
    BY <1>1, <1>2, <2>1
  <2>3. \A i \in 1 .. len - 1 : i \in 1 .. len
    OBVIOUS
  <2>4. \A i \in 1 .. Len(up) - 1 : i \in 1 .. len - 1 /\ up[i] = ls[i]
    BY <1>1, <1>3
  <2> QED BY <1>1, <1>3, <2>2, <2>3, <2>4 DEF IsBranch
<1>6. Place(up, keys, off)
  <2>1. 1 \in 1 .. len - 1
    BY <1>1
  <2>2. \A i \in 1 .. len - 1 : i \in 1 .. len
    OBVIOUS
  <2>3. \A i \in 1 .. Len(up) - 1 : i \in 1 .. Len(ls) - 1 /\ i \in 1 .. len - 1 /\ i + 1 \in 1 .. len - 1
    BY <1>1, <1>3
  <2>4. off[1] = 0 /\ KeysOf(up[1].node) = keys
    BY <1>3, <2>1 DEF Place
  <2>5. \A i \in DOMAIN up :
          /\ off[i] \in Nat /\ off[i] + Len(KeysOf(up[i].node)) <= Len(keys)
          /\ \A j \in 1 .. Len(KeysOf(up[i].node)) : keys[off[i] + j] = KeysOf(up[i].node)[j]
    BY <1>1, <1>3, <2>2 DEF Place
  <2>6. \A i \in 1 .. Len(up) - 1 :
          /\ KeysOf(At(up[i].node, up[i].ofs).node) = KeysOf(up[i + 1].node)
          /\ off[i + 1] = off[i] + Before(up[i].node, up[i].ofs)
    <3>1. SUFFICES ASSUME NEW i \in 1 .. Len(up) - 1
                   PROVE  /\ KeysOf(At(up[i].node, up[i].ofs).node) = KeysOf(up[i + 1].node)
                          /\ off[i + 1] = off[i] + Before(up[i].node, up[i].ofs)
      OBVIOUS
    <3>2. up[i] = ls[i] /\ up[i + 1] = ls[i + 1]
      BY <1>3, <2>3
    <3>3. /\ KeysOf(At(ls[i].node, ls[i].ofs).node) = KeysOf(ls[i + 1].node)
          /\ off[i + 1] = off[i] + Before(ls[i].node, ls[i].ofs)
      BY <2>3 DEF Place
    <3> QED BY <3>2, <3>3
  <2> QED BY <2>4, <2>5, <2>6 DEF Place
<1>7. PICK l : l = up[len - 1] /\ l = ls[len - 1] /\ l = Top(up)
  <2>1. len - 1 \in 1 .. len - 1
    BY <1>1
  <2> QED BY <1>3, <2>1 DEF Top
<1>8. /\ At(l.node, l.ofs).tag = "Node"
      /\ KeysOf(At(l.node, l.ofs).node) = KeysOf(Top(ls).node)
      /\ off[len] = off[len - 1] + Before(l.node, l.ofs)
  <2>1. len - 1 \in 1 .. Len(ls) - 1 /\ (len - 1) + 1 = len
    BY <1>1
  <2> QED BY <1>1, <1>7, <2>1 DEF IsBranch, Place, Top
<1>9. IsLevel(l, All)
  <2>1. len - 1 \in 1 .. len
    BY <1>1
  <2> QED BY <1>1, <1>7, <2>1 DEF IsBranch
<1>n. PICK n \in All : \E o, w : l = [node |-> n, ofs |-> o, own |-> w]
  BY <1>9 DEF IsLevel
<1>10. PICK o, w : l = [node |-> n, ofs |-> o, own |-> w]
  BY <1>n
<1>11. Top(ls).node \in Below
  <2>1. IsLevel(ls[len], Below)
    BY <1>1 DEF IsBranch
  <2> QED BY <1>1, <2>1 DEF IsLevel, Top
<1>12. PICK m \in Below : m = Top(ls).node
  BY <1>11
<1>13. CASE ~Top(ls).own
  <2>1. PopLevel(ls) = up
    BY <1>4, <1>13 DEF PopLevel
  <2> QED BY <1>1, <1>3, <1>6, <1>7, <1>8, <2>1 DEF HandleOf
<1>14. CASE Top(ls).own
  <2>a. NewNode(m).tag = "Node" /\ NewNode(m).node = m
    BY DEF NewNode
  <2>1. PICK h : h = NewNode(m) /\ h.tag = "Node" /\ h.node = m
    BY <2>a
  <2>2. PICK k : k = InsertChild(l, m)
    OBVIOUS
  <2>3. PICK x : x = With(n, o, h)
    OBVIOUS
  <2>4. k.node = x /\ k.ofs = o
    BY <1>10, <2>1, <2>2, <2>3 DEF InsertChild, Owned
  <2>5. KeyParts(x) = KeyParts(n) /\ At(x, o) = h
    <3>1. At(n, o).tag = "Node" /\ KeysOf(At(n, o).node) = KeysOf(m)
      BY <1>8, <1>10, <1>12
    <3> QED BY <2>1, <2>3, <3>1, WithKeys
  <2>6. k.node \in All
    <3>1. At(l.node, l.ofs).tag = "Node"
      BY <1>8
    <3>2. IsLevel(InsertChild(l, m), All)
      BY <1>9, <3>1, LevelNode
    <3> QED BY <2>2, <3>2 DEF IsLevel
  <2>7. PICK to : to = [up EXCEPT ![Len(up)] = k]
    OBVIOUS
  <2>8. /\ Place(to, keys, off) /\ Len(to) = Len(up) /\ Top(to) = k
        /\ \A i : Before(k.node, i) = Before(l.node, i)
    <3>1. KeyParts(k.node) = KeyParts(Top(up).node)
      BY <1>7, <1>10, <2>4, <2>5
    <3>2. LastPlaced(up, k, keys, off)
      BY <1>3, <1>5, <1>6, <2>6, <3>1, PlaceLast
    <3> QED BY <1>7, <2>7, <3>2 DEF LastPlaced
  <2>9. PopLevel(ls) = to
    BY <1>4, <1>7, <1>12, <1>14, <2>2, <2>7, <1>3 DEF PopLevel
  <2>10. HandleOf(to) = h
    BY <2>4, <2>5, <2>8 DEF HandleOf
  <2> QED BY <1>1, <1>3, <1>8, <1>10, <1>12, <2>1, <2>4, <2>8, <2>9, <2>10
<1> QED BY <1>13, <1>14

\* The last level at another offset.
Moved(ls, o) == [ls EXCEPT ![Len(ls)] = [Top(ls) EXCEPT !.ofs = o]]

\* Moving along the lowest level.
LEMMA PlaceMoved ==
  ASSUME NEW All, NEW Below, Trees(All, Below), NEW ls, IsBranch(ls, All, Below), ls # <<>>,
         NEW keys, NEW off, Place(ls, keys, off), NEW o
  PROVE  /\ Place(Moved(ls, o), keys, off)
         /\ Top(Moved(ls, o)).node = Top(ls).node /\ Top(Moved(ls, o)).ofs = o
         /\ o \in 0 .. Len(Top(ls).node.kids) =>
              IsAt(Moved(ls, o), keys, off[Len(ls)] + Before(Top(ls).node, o))
<1>n. PICK n \in All : \E a, w : Top(ls) = [node |-> n, ofs |-> a, own |-> w]
  <2>1. IsLevel(Top(ls), All)
    BY HasTop
  <2> QED BY <2>1 DEF IsLevel
<1>1. PICK a, w : Top(ls) = [node |-> n, ofs |-> a, own |-> w]
  BY <1>n
<1>2. PICK l : l = [Top(ls) EXCEPT !.ofs = o]
  OBVIOUS
<1>3. l.node = n /\ l.ofs = o
  BY <1>1, <1>2
<1>4. LastPlaced(ls, l, keys, off)
  <2>1. l.node \in All /\ KeyParts(l.node) = KeyParts(Top(ls).node)
    BY <1>1, <1>3
  <2> QED BY <2>1, PlaceLast
<1>5. PICK to : to = [ls EXCEPT ![Len(ls)] = l] /\ to = Moved(ls, o)
  BY <1>2 DEF Moved
<1>6. Place(to, keys, off) /\ Len(to) = Len(ls) /\ Top(to) = l
  BY <1>4, <1>5 DEF LastPlaced
<1>7. Top(to).node = Top(ls).node /\ Top(to).ofs = o
  BY <1>1, <1>3, <1>6
<1>8. ASSUME o \in 0 .. Len(Top(ls).node.kids)
      PROVE  IsAt(to, keys, off[Len(ls)] + Before(Top(ls).node, o))
  <2>1. Top(to).ofs \in 0 .. Len(Top(to).node.kids)
    BY <1>7, <1>8
  <2>2. off[Len(ls)] + Before(Top(ls).node, o) = off[Len(to)] + Before(Top(to).node, Top(to).ofs)
    BY <1>6, <1>7
  <2> QED BY <1>6, <2>1, <2>2 DEF IsAt
<1> QED BY <1>5, <1>6, <1>7, <1>8

\* From a leaf, the branch moves on by one key.
LEMMA PlaceLeaf ==
  ASSUME NEW All, NEW Below, Trees(All, Below), NEW ls, IsBranch(ls, All, Below), ls # <<>>,
         HandleOf(ls).tag = "Leaf", NEW keys \in Seq(InputKeys), NEW off, Place(ls, keys, off)
  PROVE  \E p \in Nat : /\ p = off[Len(ls)] + Before(Top(ls).node, Top(ls).ofs)
                        /\ IsAt(ls, keys, p) /\ IsAt(Advance(ls), keys, p + 1)
                        /\ p + 1 <= Len(keys) /\ keys[p + 1] = KeyAt(ls)
<1>n. PICK n \in All : \E o, w : Top(ls) = [node |-> n, ofs |-> o, own |-> w]
  <2>1. IsLevel(Top(ls), All)
    BY HasTop
  <2> QED BY <2>1 DEF IsLevel
<1>1. PICK o, w : Top(ls) = [node |-> n, ofs |-> o, own |-> w]
  BY <1>n
<1>2. PICK kids : kids = n.kids
  OBVIOUS
<1>3. Layout(n, kids)
  BY <1>2, LayoutIs
<1>4. PICK len \in Nat : len = Len(kids)
  <2>1. PICK H : n.kids \in Seq(H)
    BY DEF Trees
  <2> QED BY <1>2, <2>1
<1>5. At(n, o).tag = "Leaf" /\ o \in 0 .. len - 1
  BY <1>1, <1>2, <1>4 DEF HandleOf, At, None
<1>6. o \in 0 .. len /\ o + 1 \in 0 .. len
  BY <1>5
<1>7. KeyParts(n)[o + 1] = << At(n, o).leaf.key >> /\ kids[o + 1] = At(n, o)
  BY <1>2, <1>3, <1>4, <1>5 DEF Layout
<1>8. /\ Before(n, o + 1) = Before(n, o) + 1
      /\ KeysOf(n)[Before(n, o) + 1] = At(n, o).leaf.key
      /\ Before(n, o) \in 0 .. Len(KeysOf(n)) /\ Before(n, o + 1) \in 0 .. Len(KeysOf(n))
      /\ KeysOf(n) \in Seq(InputKeys)
  <2>1. PICK k : k = At(n, o).leaf.key
    OBVIOUS
  <2>2. Len(<<k>>) = 1 /\ 1 \in 1 .. 1 /\ <<k>>[1] = k
    OBVIOUS
  <2>3. /\ Before(n, o + 1) = Before(n, o) + Len(<<k>>)
        /\ \A j \in 1 .. Len(<<k>>) : KeysOf(n)[Before(n, o) + j] = <<k>>[j]
    BY <1>3, <1>4, <1>5, <1>7, <2>1 DEF Layout
  <2>4. /\ Before(n, o) \in 0 .. Len(KeysOf(n)) /\ Before(n, o + 1) \in 0 .. Len(KeysOf(n))
        /\ KeysOf(n) \in Seq(InputKeys)
    BY <1>3, <1>4, <1>6 DEF Layout
  <2> QED BY <2>1, <2>2, <2>3, <2>4
<1>9. PICK top : top = Len(ls) /\ top \in DOMAIN ls
  BY HasTop
<1>10. /\ off[top] \in Nat /\ off[top] + Len(KeysOf(n)) <= Len(keys)
       /\ \A j \in 1 .. Len(KeysOf(n)) : keys[off[top] + j] = KeysOf(n)[j]
  BY <1>1, <1>9 DEF Place, Top
<1>11. PICK a \in Nat, b \in Nat, c \in Nat, d \in Nat :
         a = off[top] /\ b = Before(n, o) /\ c = Len(KeysOf(n)) /\ d = Len(keys)
  <2>1. Len(KeysOf(n)) \in Nat /\ Len(keys) \in Nat
    BY <1>8
  <2>2. Before(n, o) \in Nat
    BY <1>8, <2>1
  <2> QED BY <1>10, <2>1, <2>2
<1>12. b + 1 <= c /\ a + c <= d
  BY <1>8, <1>10, <1>11
<1>13. PICK p \in Nat : p = a + b /\ p + 1 <= d /\ p + 1 = a + (b + 1)
  BY <1>12
<1>14. keys[p + 1] = At(n, o).leaf.key
  <2>1. b + 1 \in 1 .. c
    BY <1>12
  <2> QED BY <1>8, <1>10, <1>11, <1>13, <2>1
<1>15. KeyAt(ls) = At(n, o).leaf.key
  BY <1>1 DEF KeyAt, HandleOf
<1>16. IsAt(ls, keys, p)
  BY <1>1, <1>2, <1>4, <1>6, <1>9, <1>11, <1>13 DEF IsAt
<1>17. Advance(ls) = Moved(ls, o + 1)
  <2>1. Top(ls).ofs + 1 = o + 1
    BY <1>1
  <2> QED BY <2>1 DEF Advance, Moved, Top
<1>18. IsAt(Moved(ls, o + 1), keys, p + 1)
  <2>1. PICK e : e = o + 1
    OBVIOUS
  <2>2. IsAt(Moved(ls, e), keys, off[top] + Before(n, e))
    BY <1>1, <1>2, <1>4, <1>6, <1>9, <2>1, PlaceMoved
  <2>3. off[top] + Before(n, e) = p + 1
    BY <1>8, <1>11, <1>13, <2>1
  <2> QED BY <2>1, <2>2, <2>3
<1>19. p = off[Len(ls)] + Before(Top(ls).node, Top(ls).ofs)
  BY <1>1, <1>9, <1>11, <1>13
<1> QED BY <1>11, <1>13, <1>14, <1>15, <1>16, <1>17, <1>18, <1>19

\* Closing the lowest level and moving on from it skips the keys below it.
LEMMA PlaceUp ==
  ASSUME NEW All, NEW Below, Trees(All, Below), NEW ls, IsBranch(ls, All, Below), Len(ls) > 1,
         NEW keys, NEW off, Place(ls, keys, off)
  PROVE  IsAt(Advance(PopLevel(ls)), keys, off[Len(ls)] + Len(KeysOf(Top(ls).node)))
<1>1. PICK up : up = PopLevel(ls) /\ IsBranch(up, All, Below) /\ Len(up) = Len(ls) - 1
  BY OneLevelLess
<1>2. up # <<>>
  <2>1. PICK S : ls \in Seq(S)
    BY DEF IsBranch
  <2>2. Len(up) >= 1
    BY <1>1, <2>1
  <2>3. Len(<<>>) = 0
    OBVIOUS
  <2> QED BY <2>2, <2>3
<1>3. /\ Place(up, keys, off)
      /\ HandleOf(up).tag = "Node" /\ KeysOf(HandleOf(up).node) = KeysOf(Top(ls).node)
      /\ off[Len(ls)] = off[Len(up)] + Before(Top(up).node, Top(up).ofs)
  BY <1>1, PlaceLess
<1>n. PICK n \in All : \E o, w : Top(up) = [node |-> n, ofs |-> o, own |-> w]
  <2>1. IsLevel(Top(up), All)
    BY <1>1, <1>2, HasTop
  <2> QED BY <2>1 DEF IsLevel
<1>4. PICK o, w : Top(up) = [node |-> n, ofs |-> o, own |-> w]
  BY <1>n
<1>5. PICK kids : kids = n.kids
  OBVIOUS
<1>6. Layout(n, kids)
  BY <1>5, LayoutIs
<1>7. PICK len \in Nat : len = Len(kids)
  <2>1. PICK H : n.kids \in Seq(H)
    BY DEF Trees
  <2> QED BY <1>5, <2>1
<1>8. At(n, o).tag = "Node" /\ o \in 0 .. len - 1 /\ KeysOf(At(n, o).node) = KeysOf(Top(ls).node)
  BY <1>3, <1>4, <1>5, <1>7 DEF HandleOf, At, None
<1>9. PICK here : here = KeysOf(Top(ls).node)
  OBVIOUS
<1>10. o \in 0 .. len /\ o + 1 \in 0 .. len
  BY <1>8
<1>11. KeyParts(n)[o + 1] = here
  BY <1>5, <1>6, <1>7, <1>8, <1>9 DEF Layout
<1>12. /\ Before(n, o + 1) = Before(n, o) + Len(here) /\ here \in Seq(InputKeys)
       /\ Before(n, o) \in Nat
  <2>1. /\ Before(n, o + 1) = Before(n, o) + Len(here) /\ here \in Seq(InputKeys)
        /\ Before(n, o) \in 0 .. Len(KeysOf(n)) /\ KeysOf(n) \in Seq(InputKeys)
    BY <1>6, <1>7, <1>8, <1>10, <1>11 DEF Layout
  <2>2. Len(KeysOf(n)) \in Nat
    BY <2>1
  <2> QED BY <2>1, <2>2
<1>13. PICK top : top = Len(up) /\ off[top] \in Nat
  <2>1. Len(up) \in DOMAIN up
    BY <1>1, <1>2, HasTop
  <2> QED BY <1>3, <2>1 DEF Place
<1>14. PICK e : e = o + 1
  OBVIOUS
<1>15. IsAt(Moved(up, e), keys, off[top] + Before(n, e))
  BY <1>1, <1>2, <1>3, <1>4, <1>5, <1>7, <1>10, <1>13, <1>14, PlaceMoved
<1>16. off[top] + Before(n, e) = off[Len(ls)] + Len(here)
  <2>1. Len(here) \in Nat
    BY <1>12
  <2> QED BY <1>3, <1>4, <1>12, <1>13, <1>14, <2>1
<1>17. Advance(up) = Moved(up, e)
  <2>1. Top(up).ofs + 1 = e
    BY <1>4, <1>14
  <2> QED BY <2>1 DEF Advance, Moved, Top
<1> QED BY <1>1, <1>9, <1>15, <1>16, <1>17

\* The same nodes and offsets.
LEMMA PlaceSame ==
  ASSUME NEW ls, NEW to, NEW len \in Nat, len >= 1, Len(ls) = len, Len(to) = len,
         DOMAIN ls = 1 .. len, DOMAIN to = 1 .. len,
         \A i \in 1 .. len : to[i].node = ls[i].node /\ to[i].ofs = ls[i].ofs,
         NEW keys, NEW p, IsAt(ls, keys, p)
  PROVE  IsAt(to, keys, p)
<1>1. PICK off : Place(ls, keys, off) /\ p = off[len] + Before(Top(ls).node, Top(ls).ofs)
  BY DEF IsAt
<1>2. Top(to).node = Top(ls).node /\ Top(to).ofs = Top(ls).ofs
  <2>1. len \in 1 .. len
    OBVIOUS
  <2> QED BY <2>1 DEF Top
<1>3. Place(to, keys, off)
  <2>1. off[1] = 0 /\ KeysOf(to[1].node) = keys
    <3>1. 1 \in 1 .. len
      OBVIOUS
    <3> QED BY <1>1, <3>1 DEF Place
  <2>2. \A i \in 1 .. len :
          /\ off[i] \in Nat /\ off[i] + Len(KeysOf(to[i].node)) <= Len(keys)
          /\ \A j \in 1 .. Len(KeysOf(to[i].node)) : keys[off[i] + j] = KeysOf(to[i].node)[j]
    <3>1. SUFFICES ASSUME NEW i \in 1 .. len
                   PROVE  /\ off[i] \in Nat /\ off[i] + Len(KeysOf(to[i].node)) <= Len(keys)
                          /\ \A j \in 1 .. Len(KeysOf(to[i].node)) :
                               keys[off[i] + j] = KeysOf(to[i].node)[j]
      OBVIOUS
    <3>2. to[i].node = ls[i].node
      OBVIOUS
    <3>3. /\ off[i] \in Nat /\ off[i] + Len(KeysOf(ls[i].node)) <= Len(keys)
          /\ \A j \in 1 .. Len(KeysOf(ls[i].node)) : keys[off[i] + j] = KeysOf(ls[i].node)[j]
      BY <1>1 DEF Place
    <3> QED BY <3>2, <3>3
  <2>3. ASSUME NEW i \in 1 .. len - 1
        PROVE  /\ KeysOf(At(to[i].node, to[i].ofs).node) = KeysOf(to[i + 1].node)
               /\ off[i + 1] = off[i] + Before(to[i].node, to[i].ofs)
    <3>1. i \in 1 .. len /\ i + 1 \in 1 .. len
      OBVIOUS
    <3>2. /\ KeysOf(At(ls[i].node, ls[i].ofs).node) = KeysOf(ls[i + 1].node)
          /\ off[i + 1] = off[i] + Before(ls[i].node, ls[i].ofs)
      BY <1>1 DEF Place
    <3> QED BY <3>1, <3>2
  <2> QED BY <2>1, <2>2, <2>3 DEF Place
<1> QED BY <1>1, <1>2, <1>3 DEF IsAt

\* A branch that is dropped leaves the keys of its tree.
LEMMA RelinkedKeys ==
  ASSUME NEW All, NEW Below, Trees(All, Below), NEW ls, IsBranch(ls, All, Below), Len(ls) >= 1,
         NEW keys, NEW off, Place(ls, keys, off)
  PROVE  KeysOf(Relinked(ls)) = keys
<1>0. PICK f : RelinkedBy(ls, f)
  BY RelinkedIs
<1>1. /\ Relinked(ls) = f[Len(ls) - 1][1].node
      /\ f[0] = ls
      /\ \A k \in Nat : f[k + 1] = PopLevel(f[k])
  BY <1>0 DEF RelinkedBy
<1>2. PICK len \in Nat : len = Len(ls) /\ len >= 1
  <2>1. PICK S : ls \in Seq(S)
    BY DEF IsBranch
  <2> QED BY <2>1
<1> DEFINE T == {k \in Nat : k < len => /\ IsBranch(f[k], All, Below) /\ Len(f[k]) = len - k
                                        /\ Place(f[k], keys, off)}
<1>3. 0 \in T
  BY <1>1, <1>2
<1>4. ASSUME NEW k \in T
      PROVE  k + 1 \in T
  <2> SUFFICES ASSUME k + 1 < len
               PROVE  /\ IsBranch(f[k + 1], All, Below) /\ Len(f[k + 1]) = len - (k + 1)
                      /\ Place(f[k + 1], keys, off)
    OBVIOUS
  <2>1. k \in Nat /\ k < len /\ len - k > 1 /\ (len - k) - 1 = len - (k + 1)
    OBVIOUS
  <2>2. PICK g : g = f[k] /\ IsBranch(g, All, Below) /\ Len(g) = len - k /\ Place(g, keys, off)
    BY <2>1
  <2>3. Len(g) > 1
    BY <2>1, <2>2
  <2>4. IsBranch(PopLevel(g), All, Below) /\ Len(PopLevel(g)) = Len(g) - 1
    BY <2>2, <2>3, OneLevelLess
  <2>5. Place(PopLevel(g), keys, off)
    BY <2>2, <2>3, PlaceLess
  <2> QED BY <1>1, <2>1, <2>2, <2>4, <2>5
<1>5. T = Nat
  <2>1. T \in SUBSET Nat
    OBVIOUS
  <2> HIDE DEF T
  <2> QED BY <1>3, <1>4, <2>1, UpTo
<1>6. Place(f[len - 1], keys, off)
  <2>1. len - 1 \in Nat /\ len - 1 < len
    BY <1>2
  <2>2. len - 1 \in T
    <3> HIDE DEF T
    <3> QED BY <1>5, <2>1
  <2> QED BY <2>1, <2>2
<1> QED BY <1>1, <1>2, <1>6 DEF Place

-----------------------------------------------------------------------------
(***************************************************************************)
(* A search on from a place finds the next leaf.                           *)
(***************************************************************************)

\* The least of some numbers.
LEMMA LeastOf ==
  ASSUME NEW S \in SUBSET Nat, S # {}
  PROVE  Seqs!Min(S) \in S /\ \A k \in S : Seqs!Min(S) <= k
<1>1. PICK m \in S : \A k \in S : <<k, m>> \notin OpToRel(<, Nat)
  BY NatLessThanWellFounded, WFMin
<1>2. \A k \in S : m <= k
  <2>1. SUFFICES ASSUME NEW k \in S, k < m
                 PROVE  FALSE
    OBVIOUS
  <2>2. <<k, m>> \in OpToRel(<, Nat)
    BY <2>1 DEF OpToRel
  <2> QED BY <1>1, <2>2
<1> QED BY <1>2 DEF Seqs!Min

\* There are no keys at handles to nothing.
LEMMA SkipsNone ==
  ASSUME NEW All, NEW Below, Trees(All, Below), NEW n \in All,
         NEW a \in 0 .. Len(n.kids), NEW b \in 0 .. Len(n.kids), a <= b,
         \A i \in a .. b - 1 : At(n, i).tag = "None"
  PROVE  Before(n, b) = Before(n, a)
<1>1. PICK kids : kids = n.kids
  OBVIOUS
<1>2. Layout(n, kids)
  BY <1>1, LayoutIs
<1>3. PICK len \in Nat : len = Len(kids)
  <2>1. PICK H : n.kids \in Seq(H)
    BY DEF Trees
  <2> QED BY <1>1, <2>1
<1> DEFINE S == {d \in Nat : a + d <= b => Before(n, a + d) = Before(n, a)}
<1>4. 0 \in S
  BY <1>1, <1>3
<1>5. ASSUME NEW d \in S
      PROVE  d + 1 \in S
  <2>1. SUFFICES ASSUME a + (d + 1) <= b
                 PROVE  Before(n, a + (d + 1)) = Before(n, a)
    OBVIOUS
  <2>2. PICK i \in 0 .. len - 1 : i = a + d /\ i + 1 = a + (d + 1) /\ i \in a .. b - 1
    BY <1>1, <1>3, <2>1
  <2>3. Before(n, i) = Before(n, a)
    BY <1>1, <1>3, <2>1, <2>2
  <2>4. At(n, i).tag = "None" /\ At(n, i) = kids[i + 1]
    BY <1>2, <1>3, <2>2 DEF Layout
  <2>5. KeyParts(n)[i + 1] = <<>>
    BY <1>2, <1>3, <2>2, <2>4 DEF Layout
  <2>6. Before(n, i + 1) = Before(n, i) + Len(<<>>) /\ Before(n, i) \in 0 .. Len(KeysOf(n)) /\ KeysOf(n) \in Seq(InputKeys)
    <3>1. i \in 0 .. len
      BY <2>2
    <3> QED BY <1>2, <1>3, <2>2, <2>5, <3>1 DEF Layout
  <2>7. Len(<<>>) = 0 /\ Len(KeysOf(n)) \in Nat
    BY <2>6
  <2> QED BY <2>2, <2>3, <2>6, <2>7
<1>6. S = Nat
  <2>1. S \in SUBSET Nat
    OBVIOUS
  <2> HIDE DEF S
  <2> QED BY <1>4, <1>5, <2>1, UpTo
<1>7. PICK d \in Nat : a + d = b
  <2>1. b - a \in Nat /\ a + (b - a) = b
    BY <1>1, <1>3
  <2> QED BY <2>1
<1>8. d \in S
  <2> HIDE DEF S
  <2> QED BY <1>6
<1> QED BY <1>3, <1>7, <1>8

\* What the search for the first leaf finds from offset o of a node on: the first
\* handle that leads to something, or that there is none.
FindsFirst(r, n, o, len) ==
  /\ r.method = First
  /\ \/ r.tag = "None" /\ \A i \in o .. len - 1 : At(n, i).tag = "None"
     \/ /\ o + r.at \in o .. len - 1
        /\ At(n, o + r.at).tag # "None"
        /\ \A i \in o .. (o + r.at) - 1 : At(n, i).tag = "None"
        /\ r.tag = IF At(n, o + r.at).tag = "Leaf" THEN "Leaf" ELSE "Path"

LEMMA FirstFinds ==
  ASSUME NEW All, NEW Below, Trees(All, Below), NEW n \in All, NEW l, l.node = n,
         NEW o, l.ofs = o, NEW len \in Nat, len = Len(n.kids), o \in 0 .. len
  PROVE  FindsFirst(LevelSearch(l, First), n, o, len)
<1>1. CASE o + 1 > len
  <2>1. LevelSearch(l, First) = Found("None", 0, First)
    BY <1>1 DEF LevelSearch
  <2>2. \A i \in o .. len - 1 : At(n, i).tag = "None"
    BY <1>1
  <2>3. PICK r : r = LevelSearch(l, First)
    OBVIOUS
  <2>4. r.method = First /\ r.tag = "None"
    BY <2>1, <2>3 DEF Found
  <2>5. FindsFirst(r, n, o, len)
    BY <2>2, <2>4 DEF FindsFirst
  <2> QED BY <2>3, <2>5
<1>2. CASE ~(o + 1 > len)
  <2> DEFINE full == {i \in o .. Len(n.kids) - 1 : At(n, i).tag # "None"}
  <2>1. LevelSearch(l, First) = FirstSelect(First, n, o)
    <3>1. First.how = "first"
      BY DEF First
    <3> QED BY <1>2, <3>1 DEF LevelSearch, Select
  <2>2. CASE full = {}
    <3>1. FirstSelect(First, n, o) = Found("None", 0, First)
      BY <2>2 DEF FirstSelect
    <3>2. \A i \in o .. len - 1 : At(n, i).tag = "None"
      BY <2>2
    <3>3. PICK r : r = Found("None", 0, First)
      OBVIOUS
    <3>4. r.method = First /\ r.tag = "None"
      BY <3>3 DEF Found
    <3>5. FindsFirst(r, n, o, len)
      BY <3>2, <3>4 DEF FindsFirst
    <3>6. LevelSearch(l, First) = r
      BY <2>1, <3>1, <3>3
    <3> QED BY <3>5, <3>6
  <2>3. CASE full # {}
    <3>1. full \in SUBSET Nat
      OBVIOUS
    <3>2. PICK i : i = Seqs!Min(full)
      OBVIOUS
    <3>3. i \in full /\ \A k \in full : i <= k
      <4> HIDE DEF full
      <4> QED BY <2>3, <3>1, <3>2, LeastOf
    <3>4. FirstSelect(First, n, o) = Found(IF At(n, i).tag = "Leaf" THEN "Leaf" ELSE "Path", i - o, First)
      BY <2>3, <3>2 DEF FirstSelect
    <3>5. o + (i - o) = i /\ i \in o .. len - 1 /\ At(n, i).tag # "None"
      BY <3>3
    <3>6. \A k \in o .. i - 1 : At(n, k).tag = "None"
      BY <3>3, <3>5
    <3>7. PICK r : r = Found(IF At(n, i).tag = "Leaf" THEN "Leaf" ELSE "Path", i - o, First)
      OBVIOUS
    <3>8. r.method = First /\ r.at = i - o /\ r.tag = IF At(n, i).tag = "Leaf" THEN "Leaf" ELSE "Path"
      BY <3>7 DEF Found
    <3>9. FindsFirst(r, n, o, len)
      BY <3>5, <3>6, <3>8 DEF FindsFirst
    <3> QED BY <2>1, <3>4, <3>7, <3>9
  <2> QED BY <2>2, <2>3
<1> QED BY <1>1, <1>2

\* The levels of a search still have the keys of the tree.
Keeps(s, keys) == \E off : Place(s.levels, keys, off)

\* The search for the first leaf from the place of key p + 1 on.
Seeks(s, keys, p) ==
  /\ s.tag = "again" => s.method = First /\ IsAt(s.levels, keys, p)
  /\ s.tag = "leaf" => IsAt(s.levels, keys, p)
  /\ s.tag = "none" => p = Len(keys)

\* A round of any search keeps the keys, and one of the search for the first leaf
\* passes over none.
LEMMA RoundPlaces ==
  ASSUME NEW All, NEW Below, Trees(All, Below), NEW s, IsSearch(s, All, Below), NEW bad,
         NEW keys \in Seq(InputKeys), NEW off, Place(s.levels, keys, off)
  PROVE  /\ Keeps(Round(s, bad), keys)
         /\ /\ s.method = First /\ Top(s.levels).ofs \in 0 .. Len(Top(s.levels).node.kids)
            => Seeks(Round(s, bad), keys, off[Len(s.levels)] + Before(Top(s.levels).node, Top(s.levels).ofs))
<1>1. PICK ls : ls = s.levels /\ IsBranch(ls, All, Below) /\ Len(ls) >= 1
  BY DEF IsSearch
<1>2. PICK r : r = LevelSearch(Top(ls), s.method)
  OBVIOUS
<1>3. Place(ls, keys, off)
  BY <1>1
<1>4. ls # <<>>
  <2>1. Len(<<>>) = 0
    OBVIOUS
  <2> QED BY <1>1, <2>1
<1>n. PICK n \in All : \E o, w : Top(ls) = [node |-> n, ofs |-> o, own |-> w]
  <2>1. IsLevel(Top(ls), All)
    BY <1>1, <1>4, HasTop
  <2> QED BY <2>1 DEF IsLevel
<1>5. PICK o, w : Top(ls) = [node |-> n, ofs |-> o, own |-> w]
  BY <1>n
<1>6. PICK e : e = o + r.at
  OBVIOUS
<1>7. PICK to : to = Moved(ls, e)
  OBVIOUS
<1>8. /\ Place(to, keys, off) /\ Top(to).node = n /\ Top(to).ofs = e
      /\ e \in 0 .. Len(n.kids) => IsAt(to, keys, off[Len(ls)] + Before(n, e))
  BY <1>1, <1>3, <1>4, <1>5, <1>7, PlaceMoved
<1>9. to = [ls EXCEPT ![Len(ls)].ofs = @ + r.at]
  <2>1. Top(ls).ofs + r.at = e
    BY <1>5, <1>6
  <2> QED BY <1>7, <2>1 DEF Moved, Top
<1>10. IsBranch(to, All, Below) /\ to # <<>> /\ Len(to) = Len(ls)
  <2>1. PICK l : l = [Top(ls) EXCEPT !.ofs = e]
    OBVIOUS
  <2>2. IsLevel(Top(ls), All) /\ (Len(ls) # 1 => IsLevel(Top(ls), Below))
    BY <1>1, <1>4, HasTop
  <2>3. IsLevel(l, All)
    <3>1. PICK k : k = Top(ls) /\ IsLevel(k, All)
      BY <2>2
    <3> QED BY <2>1, <3>1, LevelNode
  <2>4. ASSUME Len(ls) # 1
        PROVE  IsLevel(l, Below)
    <3>1. PICK k : k = Top(ls) /\ IsLevel(k, Below)
      BY <2>2, <2>4
    <3> QED BY <2>1, <3>1, LevelNode
  <2>5. LET t == [ls EXCEPT ![Len(ls)] = l]
        IN IsBranch(t, All, Below) /\ Len(t) = Len(ls) /\ Top(t) = l
    BY <1>1, <2>3, <2>4, LastLevel
  <2>6. IsBranch(to, All, Below) /\ Len(to) = Len(ls)
    BY <1>7, <2>1, <2>5 DEF Moved
  <2>7. Len(<<>>) = 0
    OBVIOUS
  <2> QED BY <1>1, <2>6, <2>7
<1>11. PICK h : h = HandleOf(to) /\ h = At(n, e)
  BY <1>8 DEF HandleOf
<1> DEFINE result(tag) == [tag |-> tag, levels |-> to]
           again(next) == [tag |-> "again", levels |-> next, method |-> r.method]
<1>12. Round(s, bad) =
         CASE r.tag = "Leaf" -> result(IF h.tag = "Leaf" THEN "leaf" ELSE "none")
           [] r.tag = "Path" /\ Unreadable(h, bad) -> result("error")
           [] r.tag = "Path" /\ h.tag = "Node" /\ ~Unreadable(h, bad) -> again(Append(to, Level(h.node)))
           [] r.tag = "Path" /\ h.tag # "Node" -> result("none")
           [] r.tag = "None" /\ Len(ls) > 1 -> again(Advance(PopLevel(ls)))
           [] OTHER -> result("none")
  BY <1>1, <1>2, <1>9, <1>11 DEF Round
<1>13. \A tag : Keeps(result(tag), keys)
  BY <1>8 DEF Keeps
<1>14. ASSUME h.tag = "Node"
       PROVE  /\ e \in 0 .. Len(n.kids)
              /\ IsAt(Append(to, Level(h.node)), keys, off[Len(ls)] + Before(n, e))
  <2>1. e \in 0 .. Len(n.kids)
    <3>1. e \in 0 .. Len(n.kids) - 1
      BY <1>11, <1>14 DEF At, None
    <3>2. PICK H : n.kids \in Seq(H)
      BY DEF Trees
    <3> QED BY <3>1, <3>2
  <2>2. PICK p : p = off[Len(ls)] + Before(n, e)
    OBVIOUS
  <2>3. IsAt(to, keys, p)
    BY <1>8, <2>1, <2>2
  <2>4. IsAt(Append(to, Level(HandleOf(to).node)), keys, p)
    BY <1>10, <1>11, <1>14, <2>3, PlaceMore
  <2> QED BY <1>11, <2>1, <2>2, <2>4
<1>15. ASSUME Len(ls) > 1
       PROVE  IsAt(Advance(PopLevel(ls)), keys, off[Len(ls)] + Len(KeysOf(n)))
  <2>1. IsAt(Advance(PopLevel(ls)), keys, off[Len(ls)] + Len(KeysOf(Top(ls).node)))
    BY <1>1, <1>3, <1>15, PlaceUp
  <2> QED BY <1>5, <2>1
<1>16. \A next, p : IsAt(next, keys, p) => Keeps(again(next), keys)
  BY DEF IsAt, Keeps
<1> HIDE DEF result, again
<1>17. Keeps(Round(s, bad), keys)
  <2>1. CASE r.tag = "Leaf"
    BY <1>12, <1>13, <2>1
  <2>2. CASE r.tag = "Path"
    BY <1>12, <1>13, <1>14, <1>16, <2>2
  <2>3. CASE r.tag # "Leaf" /\ r.tag # "Path"
    <3>1. CASE r.tag = "None" /\ Len(ls) > 1
      BY <1>12, <1>15, <1>16, <3>1
    <3>2. CASE ~(r.tag = "None" /\ Len(ls) > 1)
      BY <1>12, <1>13, <2>3, <3>2
    <3> QED BY <3>1, <3>2
  <2> QED BY <2>1, <2>2, <2>3
<1>18. ASSUME s.method = First, o \in 0 .. Len(n.kids)
       PROVE  Seeks(Round(s, bad), keys, off[Len(ls)] + Before(n, o))
  <2>1. PICK p : p = off[Len(ls)] + Before(n, o)
    OBVIOUS
  <2>2. PICK len \in Nat : len = Len(n.kids)
    <3>1. PICK H : n.kids \in Seq(H)
      BY DEF Trees
    <3> QED BY <3>1
  <2>3. PICK l : l = Top(ls) /\ l.node = n /\ l.ofs = o
    BY <1>5
  <2>4. FindsFirst(r, n, o, len)
    BY <1>2, <1>18, <2>2, <2>3, FirstFinds
  <2>5. r.method = First
    BY <2>4 DEF FindsFirst
  <2>6. ASSUME e \in o .. len - 1, At(n, e).tag # "None", \A i \in o .. e - 1 : At(n, i).tag = "None",
               r.tag = IF At(n, e).tag = "Leaf" THEN "Leaf" ELSE "Path"
        PROVE  Seeks(Round(s, bad), keys, p)
    <3>1. e \in 0 .. len /\ o <= e
      BY <1>18, <2>2, <2>6
    <3>2. Before(n, e) = Before(n, o)
      BY <1>18, <2>2, <2>6, <3>1, SkipsNone
    <3>3. IsAt(to, keys, p)
      BY <1>8, <2>1, <2>2, <3>1, <3>2
    <3>4. CASE h.tag = "Leaf"
      <4>1. Round(s, bad) = result("leaf")
        BY <1>11, <1>12, <2>6, <3>4
      <4>2. result("leaf").tag = "leaf" /\ result("leaf").levels = to
        BY DEF result
      <4> QED BY <3>3, <4>1, <4>2 DEF Seeks
    <3>5. CASE h.tag # "Leaf"
      <4>1. r.tag = "Path"
        BY <1>11, <2>6, <3>5
      <4>2. h.tag = "Node"
        <5>1. PICK j \in DOMAIN n.kids : h = n.kids[j]
          <6>1. PICK H : n.kids \in Seq(H)
            BY DEF Trees
          <6>2. e + 1 \in DOMAIN n.kids /\ e \in 0 .. Len(n.kids) - 1
            BY <1>18, <2>2, <2>6, <6>1
          <6> QED BY <1>11, <6>2 DEF At
        <5>2. IsHandle(h, Below)
          BY <5>1 DEF Trees
        <5>3. \A x : Leaf(x).tag = "Leaf"
          BY DEF Leaf
        <5>4. h # None
          BY <1>11, <2>6 DEF None
        <5>5. PICK m \in Below : \E a, b : h = [tag |-> "Node", node |-> m, ann |-> a, stored |-> b]
          BY <3>5, <5>2, <5>3, <5>4 DEF IsHandle
        <5> QED BY <5>5
      <4>3. CASE Unreadable(h, bad)
        <5>1. Round(s, bad) = result("error")
          BY <1>12, <4>1, <4>2, <4>3
        <5>2. result("error").tag = "error"
          BY DEF result
        <5> QED BY <5>1, <5>2 DEF Seeks
      <4>4. CASE ~Unreadable(h, bad)
        <5>1. PICK next : next = Append(to, Level(h.node))
          OBVIOUS
        <5>2. Round(s, bad) = again(next)
          BY <1>12, <4>1, <4>2, <4>4, <5>1
        <5>3. again(next).tag = "again" /\ again(next).levels = next /\ again(next).method = First
          BY <2>5 DEF again
        <5>4. IsAt(next, keys, p)
          BY <1>14, <2>1, <3>2, <4>2, <5>1
        <5> QED BY <5>2, <5>3, <5>4 DEF Seeks
      <4> QED BY <4>3, <4>4
    <3> QED BY <3>4, <3>5
  <2>7. ASSUME r.tag = "None", \A i \in o .. len - 1 : At(n, i).tag = "None"
        PROVE  Seeks(Round(s, bad), keys, p)
    <3>1. len \in 0 .. len /\ o <= len
      BY <1>18, <2>2
    <3>2. Before(n, len) = Before(n, o)
      BY <1>18, <2>2, <2>7, <3>1, SkipsNone
    <3>3. Before(n, len) = Len(KeysOf(n))
      <4>1. PICK kids : kids = n.kids
        OBVIOUS
      <4>2. Layout(n, kids)
        BY <4>1, LayoutIs
      <4> QED BY <2>2, <4>1, <4>2 DEF Layout
    <3>4. CASE Len(ls) > 1
      <4>1. PICK next : next = Advance(PopLevel(ls))
        OBVIOUS
      <4>2. Round(s, bad) = again(next)
        BY <1>12, <2>7, <3>4, <4>1
      <4>3. again(next).tag = "again" /\ again(next).levels = next /\ again(next).method = First
        BY <2>5 DEF again
      <4>4. IsAt(next, keys, p)
        BY <1>15, <2>1, <3>2, <3>3, <3>4, <4>1
      <4> QED BY <4>2, <4>3, <4>4 DEF Seeks
    <3>5. CASE ~(Len(ls) > 1)
      <4>1. Round(s, bad) = result("none")
        BY <1>12, <2>7, <3>5
      <4>2. result("none").tag = "none"
        BY DEF result
      <4>3. Len(ls) = 1
        <5>1. PICK S : ls \in Seq(S)
          BY <1>1 DEF IsBranch
        <5>2. PICK k \in Nat : k = Len(ls)
          BY <5>1
        <5>3. k >= 1 /\ ~(k > 1)
          BY <1>1, <3>5, <5>2
        <5>4. k = 1
          BY <5>3
        <5> QED BY <5>2, <5>4
      <4>4. off[1] = 0 /\ KeysOf(n) = keys
        BY <1>3, <1>5, <4>3 DEF Place, Top
      <4>5. p = Len(keys)
        BY <2>1, <3>2, <3>3, <4>3, <4>4
      <4> QED BY <4>1, <4>2, <4>5 DEF Seeks
    <3> QED BY <3>4, <3>5
  <2> QED BY <1>6, <2>1, <2>4, <2>6, <2>7 DEF FindsFirst
<1> QED BY <1>1, <1>5, <1>17, <1>18

\* So it is with the whole search.
LEMMA SearchPlaces ==
  ASSUME NEW All, NEW Below, Trees(All, Below), NEW ls, IsBranch(ls, All, Below), Len(ls) >= 1,
         NEW m, NEW bad, NEW keys \in Seq(InputKeys), NEW off, Place(ls, keys, off),
         NEW p, m = First => IsAt(ls, keys, p)
  PROVE  /\ IsSearch(Search(ls, m, bad), All, Below) /\ Keeps(Search(ls, m, bad), keys)
         /\ m = First => Seeks(Search(ls, m, bad), keys, p)
<1>0. PICK f : SearchBy(ls, m, bad, f)
  BY SearchIs
<1>1. /\ Search(ls, m, bad) = f[2 * Cardinality(Placed(ls[1].node)) + 1]
      /\ f[0] = [tag |-> "again", levels |-> ls, method |-> m]
      /\ \A k \in Nat : f[k + 1] = IF f[k].tag = "again" THEN Round(f[k], bad) ELSE f[k]
  BY <1>0 DEF SearchBy
<1>2. PICK n \in All : n = ls[1].node
  <2>1. ls # <<>>
    <3>1. Len(<<>>) = 0
      OBVIOUS
    <3> QED BY <3>1
  <2> QED BY <2>1, HasTop
<1>3. PICK last \in Nat : last = 2 * Cardinality(Placed(n)) + 1
  BY PlacedFinite
<1> DEFINE Holds(s) == /\ IsSearch(s, All, Below) /\ Keeps(s, keys)
                       /\ m = First => Seeks(s, keys, p)
           T == {k \in Nat : Holds(f[k])}
<1>4. 0 \in T
  <2>1. PICK s : s = f[0] /\ s.levels = ls /\ s.tag = "again" /\ s.method = m
    <3>1. PICK s : s = f[0]
      OBVIOUS
    <3>2. s = [tag |-> "again", levels |-> ls, method |-> m]
      BY <1>1, <3>1
    <3> QED BY <3>1, <3>2
  <2>2. IsSearch(s, All, Below)
    BY <2>1 DEF IsSearch
  <2>3. Keeps(s, keys)
    BY <2>1 DEF Keeps
  <2>4. m = First => Seeks(s, keys, p)
    BY <2>1 DEF Seeks
  <2>5. Holds(s)
    BY <2>2, <2>3, <2>4
  <2> HIDE DEF Holds
  <2> QED BY <2>1, <2>5
<1>5. ASSUME NEW k \in T
      PROVE  k + 1 \in T
  <2>1. PICK s : s = f[k] /\ Holds(s)
    OBVIOUS
  <2>2. k \in Nat /\ k + 1 \in Nat
    OBVIOUS
  <2>3. f[k + 1] = IF s.tag = "again" THEN Round(s, bad) ELSE s
    BY <1>1, <2>1, <2>2
  <2>4. ASSUME s.tag = "again"
        PROVE  Holds(Round(s, bad))
    <3>1. PICK o : Place(s.levels, keys, o)
      BY <2>1 DEF Keeps
    <3>2. IsSearch(Round(s, bad), All, Below) /\ Keeps(Round(s, bad), keys)
      BY <2>1, <3>1, RoundKeeps, RoundPlaces
    <3>3. ASSUME m = First
          PROVE  Seeks(Round(s, bad), keys, p)
      <4>1. s.method = First /\ IsAt(s.levels, keys, p)
        BY <2>1, <2>4, <3>3 DEF Seeks
      <4>2. Top(s.levels).ofs \in 0 .. Len(Top(s.levels).node.kids)
        BY <4>1 DEF IsAt
      <4>3. PICK at : Place(s.levels, keys, at) /\ p = at[Len(s.levels)] + Before(Top(s.levels).node, Top(s.levels).ofs)
        BY <4>1 DEF IsAt
      <4> QED BY <2>1, <4>1, <4>2, <4>3, RoundPlaces
    <3> QED BY <3>2, <3>3
  <2> HIDE DEF Holds
  <2>5. Holds(f[k + 1])
    BY <2>1, <2>3, <2>4
  <2> QED BY <2>2, <2>5
<1>6. T = Nat
  <2>1. T \in SUBSET Nat
    OBVIOUS
  <2> HIDE DEF T
  <2> QED BY <1>4, <1>5, <2>1, UpTo
<1>7. Holds(f[last])
  <2> HIDE DEF Holds
  <2> QED BY <1>6
<1>8. Search(ls, m, bad) = f[last]
  BY <1>1, <1>2, <1>3
<1> QED BY <1>7, <1>8

-----------------------------------------------------------------------------
(***************************************************************************)
(* The inductive invariant of iteration: where in the keys of the tree the *)
(* open branch is, and that its walk has been at those before.             *)
(***************************************************************************)

\* A walk has been at the keys up to the one that counts as end, one after the other.
Walked(by, seen, keys, end) ==
  \E start \in 1 .. Len(keys) + 1 :
    /\ end = start + Len(seen) - 1 /\ end <= Len(keys)
    /\ by = First => start = 1
    /\ seen = SubSeq(keys, start, end)

\* No branch is open, or the branch ls is at the last leaf that its walk has been at,
\* or it was dropped after the last leaf of the tree.
WalkAt(t, ls, w) ==
  \/ w = NoWalk /\ ls = <<>>
  \/ \E by : \E seen \in Seq(InputKeys) :
       \/ /\ ls # <<>> /\ w = [by |-> by, seen |-> seen, done |-> FALSE]
          /\ \E p \in Nat : /\ p + 1 <= Len(KeysOf(t)) /\ IsAt(ls, KeysOf(t), p)
                            /\ Walked(by, seen, KeysOf(t), p + 1)
       \/ /\ ls = <<>> /\ w = [by |-> by, seen |-> seen, done |-> TRUE]
          /\ Walked(by, seen, KeysOf(t), Len(KeysOf(t)))

\* One key more.
LEMMA WalkedOn ==
  ASSUME NEW by, NEW seen \in Seq(InputKeys), NEW keys \in Seq(InputKeys), NEW p \in Nat,
         p + 1 <= Len(keys), Walked(by, seen, keys, p)
  PROVE  /\ Append(seen, keys[p + 1]) \in Seq(InputKeys)
         /\ Walked(by, Append(seen, keys[p + 1]), keys, p + 1)
<1>1. PICK len \in Nat, m \in Nat : len = Len(keys) /\ m = Len(seen)
  OBVIOUS
<1>2. PICK start \in 1 .. len + 1 :
        /\ p = start + m - 1 /\ p <= len
        /\ by = First => start = 1
        /\ seen = SubSeq(keys, start, p)
  BY <1>1 DEF Walked
<1>3. PICK k : k = keys[p + 1] /\ k \in InputKeys
  <2>1. p + 1 \in 1 .. len
    BY <1>1
  <2> QED BY <1>1, <2>1
<1>4. PICK to : /\ to = Append(seen, k) /\ to \in Seq(InputKeys) /\ Len(to) = m + 1
               /\ \A i \in 1 .. m : to[i] = seen[i]
               /\ to[m + 1] = k
  BY <1>1, <1>3, AppendProperties
<1>5. p + 1 = start + (m + 1) - 1 /\ p + 1 <= len
  BY <1>1, <1>2
<1>6. to = SubSeq(keys, start, p + 1)
  <2>3. ASSUME NEW i \in 1 .. m + 1
        PROVE  to[i] = keys[start + i - 1]
    <3>1. CASE i = m + 1
      <4>1. start + i - 1 = p + 1
        BY <1>2, <3>1
      <4> QED BY <1>3, <1>4, <3>1, <4>1
    <3>2. CASE i # m + 1
      <4>1. i \in 1 .. m
        BY <3>2
      <4>2. SubSeq(keys, start, p)[i] = keys[start + i - 1]
        BY <1>1, <1>2, <4>1
      <4> QED BY <1>2, <1>4, <4>1, <4>2
    <3> QED BY <3>1, <3>2
  <2>4. PICK sub : sub = SubSeq(keys, start, p + 1)
    OBVIOUS
  <2>5. /\ sub \in Seq(InputKeys) /\ Len(sub) = m + 1
        /\ \A i \in 1 .. m + 1 : sub[i] = keys[start + i - 1]
    <3>1. ASSUME NEW i \in start .. p + 1
          PROVE  keys[i] \in InputKeys
      <4>1. i \in 1 .. len
        BY <1>2, <1>5
      <4> QED BY <1>1, <4>1
    <3>2. start \in Int /\ p + 1 \in Int /\ start <= p + 1 /\ (p + 1) - start + 1 = m + 1
      BY <1>1, <1>2
    <3>3. /\ sub \in Seq(InputKeys)
          /\ Len(sub) = IF start <= p + 1 THEN (p + 1) - start + 1 ELSE 0
          /\ \A i \in 1 .. (p + 1) - start + 1 : sub[i] = keys[start + i - 1]
      BY <2>4, <3>1, <3>2, SubSeqProperties
    <3> QED BY <3>2, <3>3
  <2>6. to \in Seq(InputKeys) /\ Len(to) = Len(sub) /\ \A i \in 1 .. Len(to) : to[i] = sub[i]
    BY <1>4, <2>3, <2>5
  <2>7. to = sub
    BY <2>5, <2>6
  <2> QED BY <2>4, <2>7
<1>7. Walked(by, to, keys, p + 1)
  BY <1>1, <1>2, <1>4, <1>5, <1>6 DEF Walked
<1> QED BY <1>3, <1>4, <1>7

\* A walk that has been nowhere yet may start anywhere, but the iterator that a
\* caller opens at the first leaf.
LEMMA WalkStarts ==
  ASSUME NEW by, NEW keys \in Seq(InputKeys), NEW p \in 0 .. Len(keys), by = First => p = 0
  PROVE  <<>> \in Seq(InputKeys) /\ Walked(by, <<>>, keys, p)
<1>1. PICK len \in Nat : len = Len(keys)
  OBVIOUS
<1>2. PICK start \in 1 .. len + 1 : start = p + 1
  BY <1>1
<1>3. Len(<<>>) = 0 /\ p = start + 0 - 1 /\ p <= len
  BY <1>1, <1>2
<1>4. <<>> = SubSeq(keys, start, p)
  BY <1>1, <1>2
<1> QED BY <1>1, <1>2, <1>3, <1>4 DEF Walked

\* What a search that was to find key p + 1 leaves.
LEMMA AnswerWalks ==
  ASSUME NEW All, NEW Below, Trees(All, Below), NEW r, IsSearch(r, All, Below),
         NEW by, NEW seen \in Seq(InputKeys), NEW keys \in Seq(InputKeys), NEW p \in 0 .. Len(keys),
         Keeps(r, keys), Walked(by, seen, keys, p),
         r.tag = "leaf" => IsAt(r.levels, keys, p), r.tag = "none" => p = Len(keys),
         Answer(r, [by |-> by, seen |-> seen, done |-> FALSE])
  PROVE  WalkAt(tree', levels', walk') /\ KeysOf(tree') = keys
<1>1. PICK ls : ls = r.levels /\ IsBranch(ls, All, Below) /\ Len(ls) >= 1 /\ ls # <<>>
  <2>1. Len(<<>>) = 0
    OBVIOUS
  <2> QED BY <2>1 DEF IsSearch
<1>2. KeysOf(tree') = keys
  <2>1. PICK off : Place(ls, keys, off)
    BY <1>1 DEF Keeps
  <2>2. KeysOf(Relinked(ls)) = keys
    BY <1>1, <2>1, RelinkedKeys
  <2> QED BY <1>1, <2>2 DEF Answer
<1>3. PICK w : w = [by |-> by, seen |-> seen, done |-> FALSE]
  OBVIOUS
<1>4. /\ levels' = IF r.tag = "leaf" THEN ls ELSE <<>>
      /\ walk' = CASE r.tag = "leaf" -> [w EXCEPT !.seen = Append(@, KeyAt(ls))]
                   [] r.tag = "none" -> [w EXCEPT !.done = TRUE]
                   [] OTHER -> NoWalk
  BY <1>1, <1>3 DEF Answer
<1>5. ASSUME r.tag = "leaf"
      PROVE  WalkAt(tree', levels', walk')
  <2>1. HandleOf(ls).tag = "Leaf"
    BY <1>1, <1>5 DEF IsSearch
  <2>2. PICK off : Place(ls, keys, off) /\ p = off[Len(ls)] + Before(Top(ls).node, Top(ls).ofs)
    BY <1>1, <1>5 DEF IsAt
  <2>3. p \in Nat /\ p + 1 <= Len(keys) /\ keys[p + 1] = KeyAt(ls)
    BY <1>1, <2>1, <2>2, PlaceLeaf
  <2>4. PICK to : to = Append(seen, keys[p + 1]) /\ to \in Seq(InputKeys) /\ Walked(by, to, keys, p + 1)
    BY <2>3, WalkedOn
  <2>5. walk' = [by |-> by, seen |-> to, done |-> FALSE]
    <3>1. walk' = [w EXCEPT !.seen = Append(@, KeyAt(ls))]
      BY <1>4, <1>5
    <3> QED BY <1>3, <2>3, <2>4, <3>1
  <2>6. levels' = ls
    BY <1>4, <1>5
  <2> QED BY <1>1, <1>2, <1>5, <2>3, <2>4, <2>5, <2>6 DEF WalkAt
<1>6. ASSUME r.tag = "none"
      PROVE  WalkAt(tree', levels', walk')
  <2>1. levels' = <<>> /\ walk' = [w EXCEPT !.done = TRUE]
    BY <1>4, <1>6
  <2>2. walk' = [by |-> by, seen |-> seen, done |-> TRUE]
    BY <1>3, <2>1
  <2>3. p = Len(keys)
    BY <1>6
  <2> QED BY <1>2, <2>1, <2>2, <2>3 DEF WalkAt
<1>7. ASSUME r.tag # "leaf", r.tag # "none"
      PROVE  WalkAt(tree', levels', walk')
  BY <1>4, <1>7 DEF WalkAt
<1> QED BY <1>2, <1>5, <1>6, <1>7

\* A search from the root.
LEMMA OpenWalks ==
  ASSUME NEW All, NEW Below, Trees(All, Below), Leads(All, Below), NEW m, Open(m)
  PROVE  WalkAt(tree', levels', walk') /\ KeysOf(tree') = KeysOf(tree)
<1>1. PICK n \in All : n = tree
  BY DEF Leads
<1>2. PICK keys : keys = KeysOf(n) /\ keys \in Seq(InputKeys)
  BY KeysIn
<1>3. PICK ls : ls = <<Level(n)>>
  OBVIOUS
<1>4. IsAt(ls, keys, 0)
  BY <1>2, <1>3, RootPlace
<1>5. PICK off : Place(ls, keys, off)
  BY <1>4 DEF IsAt
<1>6. IsBranch(ls, All, Below) /\ Len(ls) >= 1
  <2>1. PICK l : l = Level(n) /\ IsLevel(l, All)
    BY DEF Level, IsLevel
  <2>2. ls \in Seq({l}) /\ Len(ls) = 1 /\ DOMAIN ls = {1} /\ ls[1] = l
    BY <1>3, <2>1
  <2>3. \A i \in DOMAIN ls : IsLevel(ls[i], All)
    BY <2>1, <2>2
  <2>4. 1 .. Len(ls) - 1 = {}
    BY <2>2
  <2> QED BY <2>2, <2>3, <2>4 DEF IsBranch
<1>7. PICK bad : Answer(Search(ls, m, bad), [NoWalk EXCEPT !.by = m])
  BY <1>1, <1>3 DEF Open
<1>8. PICK r : r = Search(ls, m, bad)
  OBVIOUS
<1>9. /\ IsSearch(r, All, Below) /\ Keeps(r, keys)
      /\ m = First => Seeks(r, keys, 0)
  BY <1>2, <1>4, <1>5, <1>6, <1>8, SearchPlaces
<1>10. \E p \in 0 .. Len(keys) :
         /\ m = First => p = 0
         /\ r.tag = "leaf" => IsAt(r.levels, keys, p)
         /\ r.tag = "none" => p = Len(keys)
  <2>1. PICK len \in Nat : len = Len(keys)
    BY <1>2
  <2>2. 0 \in 0 .. len /\ len \in 0 .. len
    BY <2>1
  <2>3. CASE m = First
    BY <1>9, <2>1, <2>2, <2>3 DEF Seeks
  <2>4. CASE m # First /\ r.tag = "leaf"
    <3>1. PICK to : to = r.levels /\ IsBranch(to, All, Below) /\ Len(to) >= 1 /\ HandleOf(to).tag = "Leaf"
      BY <1>9, <2>4 DEF IsSearch
    <3>2. to # <<>>
      <4>1. Len(<<>>) = 0
        OBVIOUS
      <4> QED BY <3>1, <4>1
    <3>3. PICK at : Place(to, keys, at)
      BY <1>9, <3>1 DEF Keeps
    <3>4. PICK p \in Nat : IsAt(to, keys, p) /\ p + 1 <= Len(keys)
      BY <1>2, <3>1, <3>2, <3>3, PlaceLeaf
    <3>5. p \in 0 .. len
      BY <2>1, <3>4
    <3> QED BY <2>1, <2>4, <3>1, <3>4, <3>5
  <2>5. CASE m # First /\ r.tag # "leaf"
    BY <2>1, <2>2, <2>5
  <2> QED BY <2>3, <2>4, <2>5
<1>11. PICK p \in 0 .. Len(keys) :
         /\ m = First => p = 0
         /\ r.tag = "leaf" => IsAt(r.levels, keys, p)
         /\ r.tag = "none" => p = Len(keys)
  BY <1>10
<1>12. PICK by, seen : by = m /\ seen = <<>>
  OBVIOUS
<1>13. [NoWalk EXCEPT !.by = m] = [by |-> by, seen |-> seen, done |-> FALSE]
  <2>1. PICK a : NoWalk = [by |-> a, seen |-> seen, done |-> FALSE]
    BY <1>12 DEF NoWalk
  <2>2. \A v, d : [[by |-> a, seen |-> seen, done |-> d] EXCEPT !.by = v] =
                  [by |-> v, seen |-> seen, done |-> d]
    OBVIOUS
  <2> QED BY <1>12, <2>1, <2>2, Zenon
<1>14. seen \in Seq(InputKeys) /\ Walked(by, seen, keys, p)
  BY <1>2, <1>11, <1>12, WalkStarts
<1>15. Answer(r, [by |-> by, seen |-> seen, done |-> FALSE])
  BY <1>7, <1>8, <1>13
<1>16. WalkAt(tree', levels', walk') /\ KeysOf(tree') = keys
  BY <1>2, <1>9, <1>11, <1>14, <1>15, AnswerWalks
<1> QED BY <1>1, <1>2, <1>16

\* What an open branch knows of its walk.
Walking(by, seen, keys, p) ==
  /\ seen \in Seq(InputKeys) /\ walk = [by |-> by, seen |-> seen, done |-> FALSE]
  /\ keys = KeysOf(tree) /\ keys \in Seq(InputKeys)
  /\ p \in Nat /\ p + 1 <= Len(keys) /\ IsAt(levels, keys, p) /\ Walked(by, seen, keys, p + 1)

LEMMA IsWalking ==
  ASSUME NEW All, NEW Below, Trees(All, Below), Leads(All, Below),
         WalkAt(tree, levels, walk), levels # <<>>
  PROVE  \E by, seen, keys, p : Walking(by, seen, keys, p)
<1>1. PICK n \in All : n = tree
  BY DEF Leads
<1>2. PICK keys : keys = KeysOf(n) /\ keys \in Seq(InputKeys)
  BY KeysIn
<1>3. PICK by : \E seen \in Seq(InputKeys) :
        /\ walk = [by |-> by, seen |-> seen, done |-> FALSE]
        /\ \E p \in Nat : /\ p + 1 <= Len(KeysOf(tree)) /\ IsAt(levels, KeysOf(tree), p)
                          /\ Walked(by, seen, KeysOf(tree), p + 1)
  BY DEF WalkAt
<1>4. PICK seen \in Seq(InputKeys) :
        /\ walk = [by |-> by, seen |-> seen, done |-> FALSE]
        /\ \E p \in Nat : /\ p + 1 <= Len(KeysOf(tree)) /\ IsAt(levels, KeysOf(tree), p)
                          /\ Walked(by, seen, KeysOf(tree), p + 1)
  BY <1>3
<1>5. PICK p \in Nat : /\ p + 1 <= Len(KeysOf(tree)) /\ IsAt(levels, KeysOf(tree), p)
                       /\ Walked(by, seen, KeysOf(tree), p + 1)
  BY <1>4
<1>6. Walking(by, seen, keys, p)
  BY <1>1, <1>2, <1>4, <1>5 DEF Walking
<1> QED BY <1>6

\* The next leaf.
LEMMA StepWalks ==
  ASSUME NEW All, NEW Below, Trees(All, Below), Leads(All, Below),
         WalkAt(tree, levels, walk), Step
  PROVE  WalkAt(tree', levels', walk') /\ KeysOf(tree') = KeysOf(tree)
<1>1. PICK ls : ls = levels /\ IsBranch(ls, All, Below) /\ ls # <<>> /\ HandleOf(ls).tag = "Leaf"
  BY DEF Leads, Step, Holding, Closed
<1>2. PICK by, seen, keys, p : Walking(by, seen, keys, p)
  BY <1>1, IsWalking
<1>3. PICK off : Place(ls, keys, off) /\ p = off[Len(ls)] + Before(Top(ls).node, Top(ls).ofs)
  BY <1>1, <1>2 DEF Walking, IsAt
<1>4. PICK next : next = Advance(ls) /\ IsBranch(next, All, Below) /\ Len(next) >= 1
  BY <1>1, AdvanceKeeps
<1>5. PICK q : q = p + 1 /\ IsAt(next, keys, q) /\ q \in 0 .. Len(keys)
  <2>1. keys \in Seq(InputKeys) /\ p \in Nat /\ p + 1 <= Len(keys)
    BY <1>2 DEF Walking
  <2>2. IsAt(next, keys, p + 1)
    BY <1>1, <1>3, <1>4, <2>1, PlaceLeaf
  <2> QED BY <2>1, <2>2
<1>6. PICK at : Place(next, keys, at)
  BY <1>5 DEF IsAt
<1>7. PICK bad : Answer(Search(next, First, bad), walk)
  BY <1>1, <1>4 DEF Step
<1>8. PICK r : r = Search(next, First, bad)
  OBVIOUS
<1>9. keys \in Seq(InputKeys) /\ seen \in Seq(InputKeys) /\ Walked(by, seen, keys, q)
  BY <1>2, <1>5 DEF Walking
<1>10. IsSearch(r, All, Below) /\ Keeps(r, keys) /\ Seeks(r, keys, q)
  <2>1. PICK m : m = First
    OBVIOUS
  <2>2. m = First => IsAt(next, keys, q)
    BY <1>5
  <2> QED BY <1>4, <1>6, <1>8, <1>9, <2>1, <2>2, SearchPlaces
<1>11. Answer(r, [by |-> by, seen |-> seen, done |-> FALSE])
  BY <1>2, <1>7, <1>8 DEF Walking
<1>12. (r.tag = "leaf" => IsAt(r.levels, keys, q)) /\ (r.tag = "none" => q = Len(keys))
  BY <1>10 DEF Seeks
<1>13. WalkAt(tree', levels', walk') /\ KeysOf(tree') = keys
  BY <1>5, <1>9, <1>10, <1>11, <1>12, AnswerWalks
<1> QED BY <1>2, <1>13 DEF Walking

\* A branch whose levels have become to, and its tree what they leave.
LEMMA StaysAt ==
  ASSUME NEW All, NEW Below, Trees(All, Below), NEW by, NEW seen, NEW keys, NEW p,
         Walking(by, seen, keys, p),
         NEW to, IsBranch(to, All, Below), to # <<>>, IsAt(to, keys, p),
         levels' = to, tree' = Relinked(to), walk' = walk
  PROVE  WalkAt(tree', levels', walk') /\ KeysOf(tree') = KeysOf(tree)
<1>1. PICK off : Place(to, keys, off)
  BY DEF IsAt
<1>2. Len(to) >= 1
  BY HasTop
<1>3. KeysOf(tree') = keys
  BY <1>1, <1>2, RelinkedKeys
<1>4. /\ seen \in Seq(InputKeys) /\ walk' = [by |-> by, seen |-> seen, done |-> FALSE]
      /\ p \in Nat /\ p + 1 <= Len(keys) /\ IsAt(levels', keys, p) /\ Walked(by, seen, keys, p + 1)
  BY DEF Walking
<1>5. WalkAt(tree', levels', walk')
  BY <1>3, <1>4 DEF WalkAt
<1>6. KeysOf(tree) = keys
  BY DEF Walking
<1> QED BY <1>3, <1>5, <1>6

\* A proof is taken.
LEMMA TakeProofWalks ==
  ASSUME NEW All, NEW Below, Trees(All, Below), Leads(All, Below),
         WalkAt(tree, levels, walk), TakeProof
  PROVE  WalkAt(tree', levels', walk') /\ KeysOf(tree') = KeysOf(tree)
<1>1. PICK ls : ls = levels /\ IsBranch(ls, All, Below) /\ ls # <<>>
  BY DEF Leads, TakeProof, Holding, Closed
<1>2. PICK by, seen, keys, p : Walking(by, seen, keys, p)
  BY <1>1, IsWalking
<1>3. PICK to : to = [i \in DOMAIN ls |-> Owned(ls[i])]
  OBVIOUS
<1>4. PICK len \in Nat : len = Len(ls) /\ DOMAIN ls = 1 .. len /\ len >= 1
  BY <1>1, HasTop
<1>5. to \in Seq({to[i] : i \in 1 .. len}) /\ Len(to) = len /\ DOMAIN to = 1 .. len
  BY <1>3, <1>4
<1>6. \A i \in 1 .. len : to[i].node = ls[i].node /\ to[i].ofs = ls[i].ofs
  <2> SUFFICES ASSUME NEW i \in 1 .. len
               PROVE  to[i].node = ls[i].node /\ to[i].ofs = ls[i].ofs
    OBVIOUS
  <2>1. PICK k : k = ls[i] /\ IsLevel(k, All)
    BY <1>1, <1>4 DEF IsBranch
  <2>2. to[i] = Owned(k)
    BY <1>3, <1>4, <2>1
  <2>3. PICK n, o, w : k = [node |-> n, ofs |-> o, own |-> w]
    BY <2>1 DEF IsLevel
  <2>4. Owned(k).node = n /\ Owned(k).ofs = o
    BY <2>3 DEF Owned
  <2> QED BY <2>1, <2>2, <2>3, <2>4
<1>7. levels' = to /\ tree' = Relinked(to) /\ walk' = walk
  BY <1>1, <1>3 DEF TakeProof
<1>8. IsBranch(to, All, Below)
  <2>1. Leads(All, Below)'
    BY TakeProofKeeps
  <2> QED BY <1>7, <2>1 DEF Leads
<1>9. to # <<>>
  <2>1. Len(<<>>) = 0
    OBVIOUS
  <2> QED BY <1>4, <1>5, <2>1
<1>10. IsAt(ls, keys, p)
  BY <1>1, <1>2 DEF Walking
<1>11. IsAt(to, keys, p)
  BY <1>4, <1>5, <1>6, <1>10, PlaceSame
<1> QED BY <1>2, <1>7, <1>8, <1>9, <1>11, StaysAt

\* A leaf is written, the key of which stays.
LEMMA TouchWalks ==
  ASSUME NEW All, NEW Below, Trees(All, Below), Leads(All, Below),
         WalkAt(tree, levels, walk), NEW l \in Input, Touch(l)
  PROVE  WalkAt(tree', levels', walk') /\ KeysOf(tree') = KeysOf(tree)
<1>1. PICK ls : ls = levels /\ IsBranch(ls, All, Below) /\ ls # <<>> /\ HandleOf(ls).tag = "Leaf"
  BY DEF Leads, Touch, Holding, Closed
<1>2. PICK by, seen, keys, p : Walking(by, seen, keys, p)
  BY <1>1, IsWalking
<1>3. IsAt(ls, keys, p)
  BY <1>1, <1>2 DEF Walking
<1>4. PICK off : Place(ls, keys, off) /\ p = off[Len(ls)] + Before(Top(ls).node, Top(ls).ofs)
  BY <1>3 DEF IsAt
<1>5. PICK top : top = Top(ls) /\ IsLevel(top, All)
  BY <1>1, HasTop
<1>6. PICK n \in All : \E o, w : top = [node |-> n, ofs |-> o, own |-> w]
  BY <1>5 DEF IsLevel
<1>7. PICK o, w : top = [node |-> n, ofs |-> o, own |-> w]
  BY <1>6
<1>8. At(n, o).tag = "Leaf" /\ l.key = At(n, o).leaf.key
  BY <1>1, <1>5, <1>7 DEF HandleOf, KeyAt, Touch
<1>9. o \in 0 .. Len(n.kids) - 1
  BY <1>8 DEF At, None
<1>10. PICK k \in All : k = With(n, o, Leaf(l))
  <2>1. PICK H : n.kids \in Seq(H)
    BY DEF Trees
  <2>2. PICK i \in DOMAIN n.kids : i = o + 1
    BY <1>9, <2>1
  <2>3. n.kids[i].tag = "Leaf"
    BY <1>8, <1>9, <2>2 DEF At
  <2>4. Becomes(n, [n EXCEPT !.kids[i] = Leaf(l)], All, Below)
    BY <2>3 DEF Trees
  <2> QED BY <2>2, <2>4 DEF Becomes, With
<1>11. KeyParts(k) = KeyParts(n) /\ Len(k.kids) = Len(n.kids)
  <2>1. PICK h : h = Leaf(l)
    OBVIOUS
  <2>2. h.tag = "Leaf" /\ h.leaf.key = At(n, o).leaf.key
    BY <1>8, <2>1 DEF Leaf
  <2>3. At(n, o).tag # "None"
    BY <1>8
  <2> QED BY <1>8, <1>10, <2>1, <2>2, <2>3, WithKeys
<1>12. PICK j : j = Owned([top EXCEPT !.node = k])
  OBVIOUS
<1>13. j.node = k /\ j.ofs = o
  <2>1. [top EXCEPT !.node = k] = [node |-> k, ofs |-> o, own |-> w]
    BY <1>7
  <2>2. \A v : [[node |-> k, ofs |-> o, own |-> w] EXCEPT !.own = v] =
                 [node |-> k, ofs |-> o, own |-> v]
    OBVIOUS
  <2>3. j = [node |-> k, ofs |-> o, own |-> TRUE]
    BY <1>12, <2>1, <2>2, Zenon DEF Owned
  <2> QED BY <2>3
<1>14. LastPlaced(ls, j, keys, off)
  <2>1. j.node \in All /\ KeyParts(j.node) = KeyParts(Top(ls).node)
    BY <1>5, <1>7, <1>11, <1>13
  <2> QED BY <1>1, <1>4, <2>1, PlaceLast
<1>15. PICK to : to = [ls EXCEPT ![Len(ls)] = j]
  OBVIOUS
<1>16. Place(to, keys, off) /\ Len(to) = Len(ls) /\ Top(to) = j /\ Before(k, o) = Before(n, o)
  BY <1>5, <1>7, <1>13, <1>14, <1>15 DEF LastPlaced
<1>17. IsAt(to, keys, p)
  <2>1. Top(to).ofs \in 0 .. Len(Top(to).node.kids)
    <3>1. Top(ls).ofs \in 0 .. Len(Top(ls).node.kids)
      BY <1>3 DEF IsAt
    <3> QED BY <1>5, <1>7, <1>11, <1>13, <1>16, <3>1
  <2>2. p = off[Len(to)] + Before(Top(to).node, Top(to).ofs)
    BY <1>4, <1>5, <1>7, <1>13, <1>16
  <2> QED BY <1>16, <2>1, <2>2 DEF IsAt
<1>18. levels' = to /\ tree' = Relinked(to) /\ walk' = walk
  BY <1>1, <1>5, <1>7, <1>10, <1>12, <1>15 DEF Touch
<1>19. IsBranch(to, All, Below)
  <2>1. Leads(All, Below)'
    BY TouchKeeps
  <2> QED BY <1>18, <2>1 DEF Leads
<1>20. to # <<>>
  <2>1. Len(<<>>) = 0 /\ Len(ls) >= 1
    BY <1>1, HasTop
  <2> QED BY <1>16, <2>1
<1> QED BY <1>2, <1>17, <1>18, <1>19, <1>20, StaysAt

\* A caller goes on: an iterator that ended is given up, an open branch is not.
LEMMA ReturnWalks ==
  ASSUME WalkAt(tree, levels, walk), Return
  PROVE  WalkAt(tree', levels', walk')
<1>1. CASE Closed
  BY <1>1 DEF Return, Closed, WalkAt
<1>2. CASE ~Closed
  BY <1>2 DEF Return, WalkAt
<1> QED BY <1>1, <1>2

\* The leaves that a branch has been at, in every step.
LEMMA BranchWalks ==
  ASSUME NEW All, NEW Below, Trees(All, Below), Leads(All, Below),
         WalkAt(tree, levels, walk), BranchNext
  PROVE  WalkAt(tree', levels', walk') /\ (KeysOf(tree') = KeysOf(tree) \/ Save)
<1>1. ASSUME NEW m \in Searches(faults), Open(m)
      PROVE  WalkAt(tree', levels', walk') /\ KeysOf(tree') = KeysOf(tree)
  <2>1. PICK k : k = m
    OBVIOUS
  <2> QED BY <1>1, <2>1, OpenWalks
<1>2. CASE Step
  BY <1>2, StepWalks
<1>3. ASSUME NEW l \in Input, Touch(l)
      PROVE  WalkAt(tree', levels', walk') /\ KeysOf(tree') = KeysOf(tree)
  BY <1>3, TouchWalks
<1>4. CASE TakeProof
  BY <1>4, TakeProofWalks
<1>5. CASE DropBranch
  BY <1>5 DEF DropBranch, WalkAt
<1>6. CASE Return
  BY <1>6, ReturnWalks DEF Return
<1>7. CASE Save
  BY <1>7 DEF Save, Idle, Closed, WalkAt
<1> QED BY <1>1, <1>2, <1>3, <1>4, <1>5, <1>6, <1>7 DEF BranchNext

-----------------------------------------------------------------------------
(***************************************************************************)
(* Annotations: the fresh trees are trees themselves, so that the same     *)
(* invariant holds of them.                                                *)
(***************************************************************************)

\* The handle to a node is up to date, and the node has something in it.
UpToDate(h) == h.tag = "Node" => ~Empty(h.node) /\ h.ann = Annotation(h.node)

\* A tree is fresh if its root's handles are, and the trees they lead to.
LEMMA FreshIs ==
  ASSUME NEW All, NEW Below, Trees(All, Below), NEW n \in All
  PROVE  Fresh(n) <=> \A i \in DOMAIN n.kids :
           /\ UpToDate(n.kids[i])
           /\ n.kids[i].tag = "Node" => Fresh(n.kids[i].node)
<1>1. \A m : Fresh(m) <=> \A e \in Placed(m) : \A i \in DOMAIN e[2].kids : UpToDate(e[2].kids[i])
  BY DEF Fresh, Held, Seqs!Range, UpToDate
<1>2. ASSUME Fresh(n), NEW i \in DOMAIN n.kids
      PROVE  UpToDate(n.kids[i])
  <2>1. << <<>>, n >> \in Placed(n)
    BY PlacedBelow
  <2> QED BY <1>1, <1>2, <2>1
<1>3. ASSUME Fresh(n), NEW i \in DOMAIN n.kids, n.kids[i].tag = "Node"
      PROVE  Fresh(n.kids[i].node)
  <2>1. SUFFICES ASSUME NEW e \in Placed(n.kids[i].node), NEW j \in DOMAIN e[2].kids
                 PROVE  UpToDate(e[2].kids[j])
    BY <1>1
  <2>2. PICK g \in Placed(n) : g[2] = e[2]
    BY <1>3, PlacedBelow
  <2> QED BY <1>1, <1>3, <2>2
<1>4. ASSUME \A i \in DOMAIN n.kids :
               /\ UpToDate(n.kids[i])
               /\ n.kids[i].tag = "Node" => Fresh(n.kids[i].node),
             NEW e \in Placed(n), NEW j \in DOMAIN e[2].kids
      PROVE  UpToDate(e[2].kids[j])
  <2>1. CASE e[2] = n
    BY <1>4, <2>1
  <2>2. CASE e[2] # n
    <3>1. PICK i \in DOMAIN n.kids :
            n.kids[i].tag = "Node" /\ \E g \in Placed(n.kids[i].node) : g[2] = e[2]
      BY <2>2, PlacedIs
    <3>2. PICK g \in Placed(n.kids[i].node) : g[2] = e[2]
      BY <3>1
    <3>3. Fresh(n.kids[i].node)
      BY <1>4, <3>1
    <3> QED BY <1>1, <3>2, <3>3
  <2> QED BY <2>1, <2>2
<1> QED BY <1>1, <1>2, <1>3, <1>4

\* Encoding a node and decoding it again leaves its handles as they are.
RecodeKeepsHandles ==
  \A n \in Node : Recode([n EXCEPT !.kids = StoredKids(n)]).kids = StoredKids(n)

\* What a save leaves of a handle.
LEMMA StoredKid ==
  ASSUME Trees(Node, Node), RecodeKeepsHandles, NEW n \in Node
  PROVE  /\ DOMAIN Stored(n).kids = DOMAIN n.kids
         /\ \A i \in DOMAIN n.kids :
              LET h == n.kids[i]
                  to == Stored(n).kids[i]
              IN /\ h.tag # "Node" => to = h
                 /\ h.tag = "Node" => /\ h.node \in Node
                                      /\ to.tag = "Node" /\ to.node = Stored(h.node)
                                      /\ to.ann = h.ann
<1>1. Stored(n).kids = StoredKids(n)
  BY StoredIs DEF RecodeKeepsHandles
<1>2. DOMAIN Stored(n).kids = DOMAIN n.kids
  BY <1>1 DEF StoredKids
<1>3. ASSUME NEW i \in DOMAIN n.kids, n.kids[i].tag = "Node"
      PROVE  /\ n.kids[i].node \in Node
             /\ Stored(n).kids[i].tag = "Node" /\ Stored(n).kids[i].node = Stored(n.kids[i].node)
             /\ Stored(n).kids[i].ann = n.kids[i].ann
  <2>1. PICK h : h = n.kids[i] /\ h.tag = "Node"
    BY <1>3
  <2>2. PICK m, a, b : h = [tag |-> "Node", node |-> m, ann |-> a, stored |-> b]
    <3>1. IsHandle(h, Node)
      BY <1>3, <2>1 DEF Trees
    <3>2. PICK m \in Node : \E a, b : h = [tag |-> "Node", node |-> m, ann |-> a, stored |-> b]
      <4>1. h # None
        BY <2>1 DEF None
      <4>2. \A l : h # Leaf(l)
        BY <2>1 DEF Leaf
      <4> QED BY <3>1, <4>1, <4>2 DEF IsHandle
    <3> QED BY <3>2
  <2>3. n.kids[i].node \in Node
    BY <1>3, KidNode
  <2>4. Stored(n).kids[i] = [h EXCEPT !.node = Stored(@), !.stored = TRUE]
    BY <1>1, <2>1 DEF StoredKids
  <2>5. PICK k : k = Stored(m)
    OBVIOUS
  <2>6. Stored(n).kids[i] = [[h EXCEPT !.node = k] EXCEPT !.stored = TRUE]
    BY <2>2, <2>4, <2>5
  <2>7. [h EXCEPT !.node = k] = [tag |-> "Node", node |-> k, ann |-> a, stored |-> b]
    BY <2>2
  <2>8. \A v : LET to == [[tag |-> "Node", node |-> k, ann |-> a, stored |-> b] EXCEPT !.stored = v]
               IN to.tag = "Node" /\ to.node = k /\ to.ann = a
    OBVIOUS
  <2>9. PICK to : to = Stored(n).kids[i]
    OBVIOUS
  <2>10. PICK v : to = [[tag |-> "Node", node |-> k, ann |-> a, stored |-> b] EXCEPT !.stored = v]
    BY <2>6, <2>7, <2>9
  <2>11. to.tag = "Node" /\ to.node = k /\ to.ann = a
    BY <2>8, <2>10
  <2>12. h.node = m /\ h.ann = a
    BY <2>2
  <2> QED BY <2>1, <2>3, <2>5, <2>9, <2>11, <2>12
<1>4. ASSUME NEW i \in DOMAIN n.kids, n.kids[i].tag # "Node"
      PROVE  Stored(n).kids[i] = n.kids[i]
  BY <1>1, <1>4 DEF StoredKids
<1> QED BY <1>2, <1>3, <1>4

\* A save leaves the annotation of a node what it was.
LEMMA StoredAnn ==
  ASSUME Trees(Node, Node), RecodeKeepsHandles, NEW n \in Node
  PROVE  Annotation(Stored(n)) = Annotation(n) /\ Empty(Stored(n)) = Empty(n)
<1>1. PICK m : m = Stored(n)
  OBVIOUS
<1>2. /\ DOMAIN m.kids = DOMAIN n.kids
      /\ \A i \in DOMAIN n.kids :
           /\ n.kids[i].tag # "Node" => m.kids[i] = n.kids[i]
           /\ n.kids[i].tag = "Node" => m.kids[i].tag = "Node" /\ m.kids[i].ann = n.kids[i].ann
  BY <1>1, StoredKid
<1>3. \A i \in DOMAIN n.kids : m.kids[i].tag = n.kids[i].tag
  BY <1>2
<1>4. \A i \in DOMAIN n.kids : AnnOfHandle(m.kids[i]) = AnnOfHandle(n.kids[i])
  BY <1>2 DEF AnnOfHandle
<1>5. AnnsAt(m) = AnnsAt(n)
  BY <1>2, <1>3, <1>4, Zenon DEF AnnsAt
<1>6. Annotation(m) = Annotation(n)
  BY <1>5 DEF Annotation
<1>7. Empty(m) = Empty(n)
  BY <1>2, <1>3 DEF Empty
<1> QED BY <1>1, <1>6, <1>7

\* A save leaves a fresh tree fresh, and the keys of any tree in their places.
LEMMA SaveKeeps ==
  ASSUME Trees(Node, Node), RecodeKeepsHandles, NEW n \in Node
  PROVE  (Fresh(n) => Fresh(Stored(n))) /\ KeysOf(Stored(n)) = KeysOf(n)
<1> DEFINE Holds(m) == (Fresh(m) => Fresh(Stored(m))) /\ KeysOf(Stored(m)) = KeysOf(m)
           T == {d \in Nat : \A m \in Node : Tiers(m)[d] = {} => Holds(m)}
<1>1. 0 \in T
  BY TiersAre
<1>2. ASSUME NEW d \in T
      PROVE  d + 1 \in T
  <2>1. SUFFICES ASSUME NEW m \in Node, Tiers(m)[d + 1] = {}
                 PROVE  Holds(m)
    OBVIOUS
  <2>2. PICK to \in Node : to = Stored(m)
    BY DEF Trees
  <2>3. /\ DOMAIN to.kids = DOMAIN m.kids
        /\ \A i \in DOMAIN m.kids :
             /\ m.kids[i].tag # "Node" => to.kids[i] = m.kids[i]
             /\ m.kids[i].tag = "Node" =>
                  /\ m.kids[i].node \in Node
                  /\ to.kids[i].tag = "Node" /\ to.kids[i].node = Stored(m.kids[i].node)
                  /\ to.kids[i].ann = m.kids[i].ann
    BY <2>2, StoredKid
  <2>4. ASSUME NEW i \in DOMAIN m.kids, m.kids[i].tag = "Node"
        PROVE  Holds(m.kids[i].node)
    BY <2>1, <2>3, <2>4, KidsLower
  <2>5. ASSUME Fresh(m)
        PROVE  Fresh(to)
    <3>1. ASSUME NEW i \in DOMAIN to.kids
          PROVE  UpToDate(to.kids[i]) /\ (to.kids[i].tag = "Node" => Fresh(to.kids[i].node))
      <4>1. UpToDate(m.kids[i]) /\ (m.kids[i].tag = "Node" => Fresh(m.kids[i].node))
        BY <2>3, <2>5, <3>1, FreshIs
      <4>2. CASE m.kids[i].tag = "Node"
        <5>1. PICK k \in Node : k = m.kids[i].node /\ Fresh(k) /\ Holds(k)
          BY <2>3, <2>4, <3>1, <4>1, <4>2
        <5>2. Annotation(Stored(k)) = Annotation(k) /\ Empty(Stored(k)) = Empty(k)
          BY StoredAnn
        <5>3. ~Empty(k) /\ m.kids[i].ann = Annotation(k)
          BY <4>1, <4>2, <5>1 DEF UpToDate
        <5>4. to.kids[i].tag = "Node" /\ to.kids[i].node = Stored(k) /\ to.kids[i].ann = m.kids[i].ann
          BY <2>3, <3>1, <4>2, <5>1
        <5> QED BY <5>1, <5>2, <5>3, <5>4 DEF UpToDate
      <4>3. CASE m.kids[i].tag # "Node"
        BY <2>3, <3>1, <4>1, <4>3
      <4> QED BY <4>2, <4>3
    <3> QED BY <3>1, FreshIs
  <2>6. KeyParts(to) = KeyParts(m)
    <3>1. ASSUME NEW i \in DOMAIN m.kids
          PROVE  /\ to.kids[i].tag = m.kids[i].tag
                 /\ m.kids[i].tag = "Leaf" => to.kids[i].leaf = m.kids[i].leaf
                 /\ m.kids[i].tag = "Node" => KeysOf(to.kids[i].node) = KeysOf(m.kids[i].node)
      BY <2>3, <2>4
    <3>2. ASSUME NEW i \in DOMAIN m.kids
          PROVE  KeyParts(to)[i] = KeyParts(m)[i]
      BY <2>3, <3>1 DEF KeyParts
    <3> QED BY <2>3, <3>1, Zenon DEF KeyParts
  <2>7. KeysOf(to) = KeysOf(m)
    BY <2>2, <2>6, SameParts
  <2> QED BY <2>2, <2>5, <2>7
<1>3. T = Nat
  <2>1. T \in SUBSET Nat
    OBVIOUS
  <2> HIDE DEF T
  <2> QED BY <1>1, <1>2, <2>1, UpTo
<1>4. PICK d \in Nat : Tiers(n)[d] = {}
  BY DEF Trees
<1> QED BY <1>3, <1>4

\* The fresh nodes of a type, and those of them that handles may lead to.
FreshNode == {n \in Node : Fresh(n)}
FreshFull == {n \in FreshNode : ~Empty(n)}

\* A node with another handle that is up to date and leads to a fresh tree.
LEMMA FreshWith ==
  ASSUME Trees(Node, Node), NEW n \in FreshNode, NEW i \in DOMAIN n.kids, NEW h,
         [n EXCEPT !.kids[i] = h] \in Node,
         h.tag # "None", UpToDate(h), h.tag = "Node" => Fresh(h.node)
  PROVE  Becomes(n, [n EXCEPT !.kids[i] = h], FreshNode, FreshFull)
<1>1. PICK m \in Node : m = [n EXCEPT !.kids[i] = h]
  OBVIOUS
<1>2. n \in Node /\ Fresh(n) /\ "kids" \in DOMAIN n
  BY DEF FreshNode, Trees
<1>3. PICK H : n.kids \in Seq(H)
  BY <1>2 DEF Trees
<1>4. m.kids = [n.kids EXCEPT ![i] = h]
  BY <1>1, <1>2
<1>5. /\ DOMAIN m.kids = DOMAIN n.kids
      /\ m.kids[i] = h
      /\ \A j \in DOMAIN n.kids : j # i => m.kids[j] = n.kids[j]
  BY <1>3, <1>4
<1>6. ASSUME NEW j \in DOMAIN m.kids
      PROVE  /\ UpToDate(m.kids[j])
             /\ m.kids[j].tag = "Node" => Fresh(m.kids[j].node)
  <2>1. CASE j = i
    BY <1>5, <2>1
  <2>2. CASE j # i
    <3>1. UpToDate(n.kids[j]) /\ (n.kids[j].tag = "Node" => Fresh(n.kids[j].node))
      BY <1>2, <1>5, FreshIs
    <3> QED BY <1>5, <2>2, <3>1
  <2> QED BY <2>1, <2>2
<1>7. Fresh(m)
  BY <1>6, FreshIs
<1>8. ~Empty(m)
  BY <1>5 DEF Empty
<1> QED BY <1>1, <1>7, <1>8 DEF Becomes, FreshNode, FreshFull

\* Fresh nodes are trees.
LEMMA FreshTrees ==
  ASSUME Trees(Node, Node), RecodeKeepsHandles
  PROVE  Trees(FreshNode, FreshFull)
<1>1. SUFFICES ASSUME NEW n \in FreshNode
               PROVE  /\ "kids" \in DOMAIN n
                      /\ \E H : n.kids \in Seq(H)
                      /\ \E d \in Nat : Tiers(n)[d] = {}
                      /\ \A i \in DOMAIN n.kids :
                           /\ IsHandle(n.kids[i], FreshFull)
                           /\ n.kids[i].tag = "Leaf" => \A l \in Input :
                                Becomes(n, [n EXCEPT !.kids[i] = Leaf(l)], FreshNode, FreshFull)
                           /\ n.kids[i].tag = "Node" => \A m \in FreshFull :
                                Becomes(n, [n EXCEPT !.kids[i] = NewNode(m)], FreshNode, FreshFull)
                      /\ Stored(n) \in FreshNode
  BY DEF Trees, FreshFull
<1>2. n \in Node /\ Fresh(n)
  BY DEF FreshNode
<1>3. /\ "kids" \in DOMAIN n
      /\ \E H : n.kids \in Seq(H)
      /\ \E d \in Nat : Tiers(n)[d] = {}
      /\ Stored(n) \in FreshNode
  BY <1>2, SaveKeeps DEF Trees, FreshNode
<1>4. ASSUME NEW i \in DOMAIN n.kids
      PROVE  IsHandle(n.kids[i], FreshFull)
  <2>1. IsHandle(n.kids[i], Node)
    BY <1>2 DEF Trees
  <2>2. CASE n.kids[i].tag = "Node"
    <3>1. n.kids[i].node \in Node
      BY <2>1, <2>2, NodeHandle
    <3>2. PICK m, a, b : n.kids[i] = [tag |-> "Node", node |-> m, ann |-> a, stored |-> b]
      BY <2>1, <2>2, NodeHandle
    <3>3. UpToDate(n.kids[i]) /\ Fresh(n.kids[i].node)
      BY <1>2, <2>2, FreshIs
    <3>4. m \in FreshFull
      BY <2>2, <3>1, <3>2, <3>3 DEF UpToDate, FreshNode, FreshFull
    <3> QED BY <3>2, <3>4 DEF IsHandle
  <2>3. CASE n.kids[i].tag # "Node"
    <3>1. PICK h : h = n.kids[i]
      OBVIOUS
    <3>2. ~ \E m \in Node : \E a, b : h = [tag |-> "Node", node |-> m, ann |-> a, stored |-> b]
      <4>1. ASSUME NEW m \in Node, NEW a, NEW b, h = [tag |-> "Node", node |-> m, ann |-> a, stored |-> b]
            PROVE  FALSE
        <5>1. h.tag = "Node"
          BY <4>1
        <5> QED BY <2>3, <3>1, <5>1
      <4> QED BY <4>1
    <3>3. h = None \/ \E l \in Input : h = Leaf(l)
      BY <2>1, <3>1, <3>2 DEF IsHandle
    <3> QED BY <3>1, <3>3 DEF IsHandle
  <2> QED BY <2>2, <2>3
<1>5. ASSUME NEW i \in DOMAIN n.kids, n.kids[i].tag = "Leaf", NEW l \in Input
      PROVE  Becomes(n, [n EXCEPT !.kids[i] = Leaf(l)], FreshNode, FreshFull)
  <2>1. PICK h : h = Leaf(l)
    OBVIOUS
  <2>2. h.tag = "Leaf"
    BY <2>1 DEF Leaf
  <2>3. h.tag # "None" /\ UpToDate(h) /\ (h.tag = "Node" => Fresh(h.node))
    BY <2>2 DEF UpToDate
  <2>4. [n EXCEPT !.kids[i] = h] \in Node
    BY <1>2, <1>5, <2>1 DEF Trees, Becomes
  <2> QED BY <2>1, <2>3, <2>4, FreshWith
<1>6. ASSUME NEW i \in DOMAIN n.kids, n.kids[i].tag = "Node", NEW m \in FreshFull
      PROVE  Becomes(n, [n EXCEPT !.kids[i] = NewNode(m)], FreshNode, FreshFull)
  <2>1. PICK h : h = NewNode(m)
    OBVIOUS
  <2>2. m \in Node /\ Fresh(m) /\ ~Empty(m)
    BY DEF FreshNode, FreshFull
  <2>3. h.tag = "Node" /\ h.node = m /\ h.ann = Annotation(m)
    BY <2>1 DEF NewNode
  <2>4. h.tag # "None" /\ UpToDate(h) /\ (h.tag = "Node" => Fresh(h.node))
    BY <2>2, <2>3 DEF UpToDate
  <2>5. [n EXCEPT !.kids[i] = h] \in Node
    BY <1>2, <1>6, <2>1, <2>2 DEF Trees, Becomes
  <2> QED BY <2>1, <2>4, <2>5, FreshWith
<1> QED BY <1>3, <1>4, <1>5, <1>6

\* Failed reads are counted.
LEMMA FaultsGrow ==
  ASSUME [Next]_vars
  PROVE  faults' = faults \/ faults' = faults + 1
<1>1. ASSUME NEW r, NEW w, Answer(r, w)
      PROVE  faults' = faults \/ faults' = faults + 1
  BY <1>1 DEF Answer
<1>2. ASSUME NEW m \in Searches(faults), Open(m)
      PROVE  faults' = faults \/ faults' = faults + 1
  <2>1. PICK bad : Answer(Search(<<Level(tree)>>, m, bad), [NoWalk EXCEPT !.by = m])
    BY <1>2 DEF Open
  <2> QED BY <1>1, <2>1
<1>3. CASE Step
  <2>1. PICK bad : Answer(Search(Advance(levels), First, bad), walk)
    BY <1>3 DEF Step
  <2> QED BY <1>1, <2>1
<1>4. CASE BranchNext
  BY <1>2, <1>3, <1>4 DEF BranchNext, Touch, TakeProof, DropBranch, Return, Save
<1>5. CASE Call
  BY <1>5 DEF Call, Changed
<1> QED BY <1>4, <1>5 DEF Next, vars

\* The inductive invariant of the runs without a failed read.
Freshly == faults \in Nat /\ (faults = 0 => Leads(FreshNode, FreshFull))

\* It holds in every state.
LEMMA AlwaysFresh ==
  ASSUME Trees(Node, Node),
         Whole \subseteq {n \in Node : Fresh(n)},
         RecodeKeepsHandles
  PROVE  Spec => []Freshly
<1>1. Trees(FreshNode, FreshFull) /\ Whole \subseteq FreshNode
  BY FreshTrees DEF FreshNode
<1>2. Init => Freshly
  BY <1>1, NoBranch DEF Init, BranchInit, Leads, Closed, Freshly
<1>3. Freshly /\ [Next]_vars => Freshly'
  <2> SUFFICES ASSUME Freshly, [Next]_vars
               PROVE  Freshly'
    OBVIOUS
  <2>1. faults' \in Nat /\ (faults' = 0 => faults = 0)
    BY FaultsGrow DEF Freshly
  <2>2. ASSUME faults' = 0
        PROVE  Leads(FreshNode, FreshFull)'
    <3>1. faults = 0 /\ Leads(FreshNode, FreshFull)
      BY <2>1, <2>2 DEF Freshly
    <3>2. CASE BranchNext
      BY <1>1, <3>1, <3>2, BranchKeeps
    <3>3. CASE Call
      <4>1. PICK answer \in Answers :
              Idle /\ \E n \in IF answer = Failed \/ faults > 0 THEN Node ELSE Whole : Changed(n, answer)
        BY <3>3 DEF Call
      <4>2. PICK n \in IF answer = Failed \/ faults > 0 THEN Node ELSE Whole : Changed(n, answer)
        BY <4>1
      <4>3. answer # Failed
        BY <2>2, <3>1, <4>2 DEF Changed
      <4>4. PICK m \in FreshNode : m = n
        BY <1>1, <3>1, <4>3
      <4> QED BY <3>1, <4>1, <4>2, <4>4, ChangeKeeps
    <3>4. CASE UNCHANGED vars
      BY <3>1, <3>4, StutterKeeps
    <3> QED BY <3>2, <3>3, <3>4 DEF Next
  <2> QED BY <2>1, <2>2 DEF Freshly
<1> QED BY <1>2, <1>3, PTL DEF Spec

\* Searches, iteration, writes through branches and proofs (raw_branch.rs,
\* handle.rs) leave every annotation the combination over its node, as long as
\* no read has failed: for any structure whose calls do so, too, and whose nodes
\* keep their handles when they are encoded and decoded. A save keeps them fresh.
THEOREM AnnotationsStayFresh ==
  ASSUME Trees(Node, Node),
         Whole \subseteq {n \in Node : Fresh(n)},
         RecodeKeepsHandles
  PROVE  Spec => []AnnotationsFresh
<1>1. Freshly => AnnotationsFresh
  BY DEF Freshly, AnnotationsFresh, Leads, FreshNode
<1> QED BY <1>1, AlwaysFresh, PTL

-----------------------------------------------------------------------------
(***************************************************************************)
(* The proofs that a branch gives: what a digest sees of a tree, and the   *)
(* levels that fit together by it.                                         *)
(***************************************************************************)

\* A node as its digest has it, but what is below it.
Bared(n) == [n EXCEPT !.kids = [i \in DOMAIN n.kids |-> Hashed(n.kids[i])]]

LEMMA BareIs ==
  ASSUME NEW n
  PROVE  Bare(n) = {<<e[1], Bared(e[2])>> : e \in Placed(n)}
BY DEF Bare, Bared, Hashed

\* Trees with the same digest have roots that are the same but for what is below them.
LEMMA SameRoot ==
  ASSUME NEW All, NEW Below, Trees(All, Below), NEW m \in All, NEW n \in All, Bare(m) = Bare(n)
  PROVE  Bared(m) = Bared(n)
<1>1. << <<>>, m >> \in Placed(m)
  BY PlacedBelow
<1>2. << <<>>, Bared(m) >> \in Bare(m)
  <2>1. << <<>>, m >>[1] = <<>> /\ << <<>>, m >>[2] = m
    OBVIOUS
  <2> QED BY <1>1, <2>1, BareIs
<1>3. PICK g \in Placed(n) : << <<>>, Bared(m) >> = <<g[1], Bared(g[2])>>
  BY <1>2, BareIs
<1>4. g[1] = <<>> /\ Bared(g[2]) = Bared(m)
  BY <1>3
<1>5. PICK d \in Nat : g \in Tiers(n)[d]
  <2>1. \E top \in Nat : Tiers(n)[top] = {}
    BY DEF Trees
  <2> QED BY <2>1, PlacedAre
<1>6. d = 0
  <2>1. Len(g[1]) = d
    BY <1>5, TierWays
  <2>2. Len(<<>>) = 0
    OBVIOUS
  <2> QED BY <1>4, <2>1, <2>2
<1>7. g = << <<>>, n >>
  BY <1>5, <1>6, TiersAre
<1>8. g[2] = n
  BY <1>7
<1> QED BY <1>4, <1>8

\* What two nodes have in common that are the same but for what is below them.
LEMMA SameBared ==
  ASSUME NEW All, NEW Below, Trees(All, Below), NEW m \in All, NEW n \in All, Bared(m) = Bared(n)
  PROVE  /\ DOMAIN m.kids = DOMAIN n.kids
         /\ \A i \in DOMAIN n.kids : Hashed(m.kids[i]) = Hashed(n.kids[i])
<1>1. "kids" \in DOMAIN m /\ "kids" \in DOMAIN n
  BY DEF Trees
<1>2. PICK f, g : /\ f = [i \in DOMAIN m.kids |-> Hashed(m.kids[i])]
                  /\ g = [i \in DOMAIN n.kids |-> Hashed(n.kids[i])]
  OBVIOUS
<1>3. [m EXCEPT !.kids = f] = [n EXCEPT !.kids = g]
  BY <1>2 DEF Bared
<1>4. f = g
  BY <1>1, <1>3
<1>5. DOMAIN f = DOMAIN m.kids /\ DOMAIN g = DOMAIN n.kids
  BY <1>2
<1>6. /\ \A i \in DOMAIN m.kids : f[i] = Hashed(m.kids[i])
      /\ \A i \in DOMAIN n.kids : g[i] = Hashed(n.kids[i])
  BY <1>2, Zenon
<1> QED BY <1>4, <1>5, <1>6

\* Two handles that look the same to a digest.
LEMMA SameHashed ==
  ASSUME NEW Below, NEW a, NEW b, IsHandle(a, Below), IsHandle(b, Below), Hashed(a) = Hashed(b)
  PROVE  a.tag = b.tag /\ (a.tag # "None" => AnnOfHandle(a) = AnnOfHandle(b))
<1>1. \A h : IsHandle(h, Below) =>
        IF h.tag = "Node" THEN Hashed(h).tag = "Node" /\ Hashed(h).ann = h.ann
                          ELSE Hashed(h) = h
  <2>1. SUFFICES ASSUME NEW h, IsHandle(h, Below), h.tag = "Node"
                 PROVE  Hashed(h).tag = "Node" /\ Hashed(h).ann = h.ann
    BY DEF Hashed
  <2>2. PICK m, x, y : h = [tag |-> "Node", node |-> m, ann |-> x, stored |-> y]
    BY <2>1, NodeHandle
  <2> QED BY <2>2 DEF Hashed
<1> QED BY <1>1 DEF AnnOfHandle

\* The digest of a node determines its annotation.
LEMMA SameAnnotation ==
  ASSUME NEW All, NEW Below, Trees(All, Below), NEW m \in All, NEW n \in All, Bare(m) = Bare(n)
  PROVE  Annotation(m) = Annotation(n)
<1>1. /\ DOMAIN m.kids = DOMAIN n.kids
      /\ \A i \in DOMAIN n.kids : Hashed(m.kids[i]) = Hashed(n.kids[i])
  BY SameRoot, SameBared
<1>2. \A i \in DOMAIN n.kids :
        /\ m.kids[i].tag = n.kids[i].tag
        /\ m.kids[i].tag # "None" => AnnOfHandle(m.kids[i]) = AnnOfHandle(n.kids[i])
  <2>1. \A i \in DOMAIN n.kids : IsHandle(m.kids[i], Below) /\ IsHandle(n.kids[i], Below)
    BY <1>1 DEF Trees
  <2> QED BY <1>1, <2>1, SameHashed
<1>3. AnnsAt(m) = AnnsAt(n)
  BY <1>1, <1>2, Zenon DEF AnnsAt
<1> QED BY <1>3 DEF Annotation

\* What a digest sees of a tree is in one that differs from it only below handles
\* that lead to trees with the same digests.
LEMMA BareIn ==
  ASSUME NEW All, NEW Below, Trees(All, Below), NEW m \in All, NEW n \in All,
         Bared(m) = Bared(n),
         \A i \in DOMAIN n.kids : n.kids[i].tag = "Node" =>
           m.kids[i].tag = "Node" /\ Bare(m.kids[i].node) = Bare(n.kids[i].node)
  PROVE  Bare(n) \subseteq Bare(m)
<1>1. SUFFICES ASSUME NEW e \in Placed(n)
               PROVE  <<e[1], Bared(e[2])>> \in Bare(m)
  BY BareIs
<1>2. PICK d \in Nat : e \in Tiers(n)[d]
  <2>1. \E top \in Nat : Tiers(n)[top] = {}
    BY DEF Trees
  <2> QED BY <2>1, PlacedAre
<1>3. CASE d = 0
  <2>1. e = << <<>>, n >>
    BY <1>2, <1>3, TiersAre
  <2>2. e[1] = <<>> /\ e[2] = n
    BY <2>1
  <2>3. << <<>>, m >> \in Placed(m)
    BY PlacedBelow
  <2>4. PICK g \in Placed(m) : g[1] = <<>> /\ g[2] = m
    BY <2>3
  <2>5. <<g[1], Bared(g[2])>> \in Bare(m)
    BY BareIs
  <2> QED BY <2>2, <2>4, <2>5
<1>4. CASE d # 0
  <2>1. PICK c \in Nat : d = c + 1
    <3>1. d - 1 \in Nat /\ d = (d - 1) + 1
      BY <1>4
    <3> QED BY <3>1
  <2>a. e \in Tiers(n)[c + 1]
    BY <1>2, <2>1
  <2>2. PICK i \in DOMAIN n.kids :
          n.kids[i].tag = "Node" /\ \E g \in Tiers(n.kids[i].node)[c] : e = OnWay(i, g)
    <3>1. \A x \in Tiers(n)[c + 1] : \E j \in DOMAIN n.kids :
            /\ n.kids[j].tag = "Node"
            /\ \E g \in Tiers(n.kids[j].node)[c] : x = OnWay(j, g)
      BY <2>1, TierIs
    <3> QED BY <2>a, <3>1, Zenon
  <2>3. PICK k \in All : k = n.kids[i].node
    BY <2>2, KidNode
  <2>4. PICK g \in Tiers(k)[c] : e = OnWay(i, g)
    BY <2>2, <2>3
  <2>5. g \in Placed(k)
    <3>1. \E top \in Nat : Tiers(k)[top] = {}
      BY DEF Trees
    <3> QED BY <2>4, <3>1, PlacedAre
  <2>6. i \in DOMAIN m.kids /\ m.kids[i].tag = "Node"
    BY <2>2, SameBared
  <2>7. PICK j \in All : j = m.kids[i].node /\ Bare(j) = Bare(k)
    BY <2>2, <2>3, <2>6, KidNode
  <2>8. <<g[1], Bared(g[2])>> \in Bare(j)
    BY <2>5, <2>7, BareIs
  <2>9. PICK h \in Placed(j) : <<g[1], Bared(g[2])>> = <<h[1], Bared(h[2])>>
    BY <2>8, BareIs
  <2>10. PICK b \in Nat : h \in Tiers(j)[b]
    <3>1. \E top \in Nat : Tiers(j)[top] = {}
      BY DEF Trees
    <3> QED BY <3>1, PlacedAre
  <2>11. OnWay(i, h) \in Tiers(m)[b + 1]
    BY <2>6, <2>7, <2>10, TierOfKid
  <2>12. PICK x \in Placed(m) : x = OnWay(i, h)
    <3>1. \E top \in Nat : Tiers(m)[top] = {}
      BY DEF Trees
    <3>2. PICK d1 \in Nat : d1 = b + 1
      OBVIOUS
    <3> QED BY <2>11, <3>1, <3>2, PlacedAre
  <2>13. <<x[1], Bared(x[2])>> \in Bare(m)
    BY BareIs
  <2>14. e[1] = <<i>> \o g[1] /\ e[2] = g[2] /\ x[1] = <<i>> \o h[1] /\ x[2] = h[2]
    BY <2>4, <2>12 DEF OnWay
  <2>15. g[1] = h[1] /\ Bared(g[2]) = Bared(h[2])
    BY <2>9
  <2> QED BY <2>13, <2>14, <2>15
<1> QED BY <1>3, <1>4

\* Another subtree with the same digest leaves the digest of a tree, if its
\* annotations were right.
LEMMA SameSubtree ==
  ASSUME Trees(FreshNode, FreshFull), NEW n \in FreshNode, NEW o, At(n, o).tag = "Node",
         NEW m \in FreshFull, Bare(m) = Bare(At(n, o).node)
  PROVE  Bare(With(n, o, NewNode(m))) = Bare(n)
<1>1. PICK H : n.kids \in Seq(H)
  BY DEF Trees
<1>2. o \in 0 .. Len(n.kids) - 1
  BY DEF At, None
<1>3. PICK i \in DOMAIN n.kids : i = o + 1
  BY <1>1, <1>2
<1>4. PICK a : a = n.kids[i] /\ a.tag = "Node" /\ IsHandle(a, FreshFull) /\ Bare(m) = Bare(a.node)
  BY <1>2, <1>3 DEF At, Trees
<1>5. PICK k, x, y : a = [tag |-> "Node", node |-> k, ann |-> x, stored |-> y]
  <2>1. IsHandle(a, FreshFull) /\ a.tag = "Node"
    BY <1>4
  <2> QED BY <2>1, NodeHandle, Zenon
<1>6. k \in FreshNode /\ x = Annotation(k)
  <2>1. a.node \in FreshFull
    BY <1>4, NodeHandle
  <2>2. Fresh(n)
    BY DEF FreshNode
  <2>3. UpToDate(a)
    <3>1. << <<>>, n >> \in Placed(n)
      BY PlacedBelow
    <3>2. << <<>>, n >>[2] = n
      OBVIOUS
    <3>3. a \in Held(n)
      BY <1>4, <3>1, <3>2 DEF Held, Seqs!Range
    <3> QED BY <2>2, <3>3 DEF Fresh, UpToDate
  <2> QED BY <1>4, <1>5, <2>1, <2>3 DEF UpToDate, FreshFull
<1>7. Annotation(m) = x
  <2>1. m \in FreshNode /\ Bare(m) = Bare(k)
    BY <1>4, <1>5 DEF FreshFull
  <2> QED BY <1>6, <2>1, SameAnnotation
<1>8. PICK h : /\ h = NewNode(m) /\ h.tag = "Node" /\ h.node = m
               /\ h = [tag |-> "Node", node |-> m, ann |-> x, stored |-> FALSE]
  BY <1>7 DEF NewNode
<1>9. Hashed(h) = Hashed(a)
  <2> DEFINE to(g, z, f) == [g EXCEPT !.node = z, !.stored = f]
             new(r, s, t) == [tag |-> "Node", node |-> r, ann |-> s, stored |-> t]
  <2>1. ASSUME NEW r, NEW s, NEW t, NEW f, NEW z
        PROVE  to(new(r, s, t), z, f) = new(z, s, f)
    <3>1. PICK e, g : e = new(r, s, t) /\ g = new(z, s, t)
      OBVIOUS
    <3>2. [e EXCEPT !.node = z] = g
      BY <3>1
    <3>3. [g EXCEPT !.stored = f] = new(z, s, f)
      BY <3>1
    <3>4. [e EXCEPT !.node = z, !.stored = f] = [[e EXCEPT !.node = z] EXCEPT !.stored = f]
      OBVIOUS
    <3> QED BY <3>1, <3>2, <3>3, <3>4
  <2>2. Hashed(h) = to(h, NoNode, FALSE) /\ Hashed(a) = to(a, NoNode, FALSE)
    BY <1>4, <1>8, Zenon DEF Hashed
  <2>3. h = new(m, x, FALSE) /\ a = new(k, x, y)
    BY <1>5, <1>8, Zenon
  <2> HIDE DEF to, new
  <2>4. PICK f : f = FALSE
    OBVIOUS
  <2>5. to(new(m, x, f), NoNode, f) = new(NoNode, x, f) /\ to(new(k, x, y), NoNode, f) = new(NoNode, x, f)
    BY <2>1
  <2>6. to(h, NoNode, f) = to(a, NoNode, f)
    BY <2>3, <2>4, <2>5
  <2> QED BY <2>2, <2>4, <2>6
<1>10. PICK w : w = [n EXCEPT !.kids[i] = h]
  OBVIOUS
<1>11. w \in FreshNode
  <2>1. n.kids[i].tag = "Node"
    BY <1>4
  <2>2. Becomes(n, [n EXCEPT !.kids[i] = NewNode(m)], FreshNode, FreshFull)
    BY <2>1 DEF Trees
  <2> QED BY <1>8, <1>10, <2>2 DEF Becomes
<1>12. "kids" \in DOMAIN n
  BY DEF Trees
<1>13. w.kids = [n.kids EXCEPT ![i] = h]
  BY <1>10, <1>12
<1>14. /\ DOMAIN w.kids = DOMAIN n.kids
       /\ w.kids[i] = h
       /\ \A j \in DOMAIN n.kids : j # i => w.kids[j] = n.kids[j]
  BY <1>1, <1>13
<1>15. Bared(w) = Bared(n)
  <2>1. \A j \in DOMAIN n.kids : Hashed(w.kids[j]) = Hashed(n.kids[j])
    BY <1>4, <1>9, <1>14
  <2>2. [j \in DOMAIN w.kids |-> Hashed(w.kids[j])] = [j \in DOMAIN n.kids |-> Hashed(n.kids[j])]
    BY <1>14, <2>1, Zenon
  <2>3. PICK f : f = [j \in DOMAIN n.kids |-> Hashed(n.kids[j])]
    OBVIOUS
  <2>4. w = [n EXCEPT !.kids = w.kids]
    BY <1>10, <1>12, <1>13
  <2>5. ASSUME NEW g
        PROVE  [[n EXCEPT !.kids = g] EXCEPT !.kids = f] = [n EXCEPT !.kids = f]
    BY <1>12
  <2>6. [w EXCEPT !.kids = f] = [n EXCEPT !.kids = f]
    BY <2>4, <2>5, Zenon
  <2> QED BY <2>2, <2>3, <2>6, Zenon DEF Bared
<1>16. \A j \in DOMAIN n.kids :
         /\ w.kids[j].tag = n.kids[j].tag
         /\ n.kids[j].tag = "Node" => Bare(w.kids[j].node) = Bare(n.kids[j].node)
  BY <1>4, <1>8, <1>14
<1>17. Bare(w) = Bare(n)
  <2>1. Bare(n) \subseteq Bare(w)
    BY <1>11, <1>15, <1>16, BareIn
  <2>2. Bare(w) \subseteq Bare(n)
    BY <1>11, <1>14, <1>15, <1>16, BareIn
  <2> QED BY <2>1, <2>2
<1> QED BY <1>3, <1>8, <1>10, <1>17 DEF With

\* Each level is at the subtree that the next one is about, as a digest sees it.
Linked(ls) ==
  \A i \in 1 .. Len(ls) - 1 : Bare(At(ls[i].node, ls[i].ofs).node) = Bare(ls[i + 1].node)

\* The last level may be changed to one that has the same digest.
LEMMA LinkLast ==
  ASSUME NEW All, NEW Below, NEW ls, IsBranch(ls, All, Below), Len(ls) >= 1, Linked(ls),
         NEW l, Bare(l.node) = Bare(Top(ls).node)
  PROVE  Linked([ls EXCEPT ![Len(ls)] = l])
<1>1. PICK len \in Nat : len = Len(ls) /\ len >= 1 /\ DOMAIN ls = 1 .. len
  <2>1. PICK S : ls \in Seq(S)
    BY DEF IsBranch
  <2> QED BY <2>1
<1>2. PICK to : to = [ls EXCEPT ![len] = l]
  OBVIOUS
<1>3. Len(to) = len
  <2>1. PICK S : ls \in Seq(S)
    BY DEF IsBranch
  <2> QED BY <1>1, <1>2, <2>1
<1>4. \A i \in 1 .. len : to[i] = IF i = len THEN l ELSE ls[i]
  BY <1>1, <1>2
<1>5. ASSUME NEW i \in 1 .. len - 1
      PROVE  Bare(At(to[i].node, to[i].ofs).node) = Bare(to[i + 1].node)
  <2>1. i \in 1 .. len /\ i # len /\ i + 1 \in 1 .. len
    BY <1>1
  <2>2. to[i] = ls[i]
    BY <1>4, <2>1
  <2>3. Bare(to[i + 1].node) = Bare(ls[i + 1].node)
    <3>1. CASE i + 1 = len
      BY <1>1, <1>4, <2>1, <3>1 DEF Top
    <3>2. CASE i + 1 # len
      BY <1>4, <2>1, <3>2
    <3> QED BY <3>1, <3>2
  <2> QED BY <1>1, <2>2, <2>3 DEF Linked
<1> QED BY <1>1, <1>2, <1>3, <1>5 DEF Linked

\* A level may be added for the subtree the last one is at.
LEMMA LinkMore ==
  ASSUME NEW All, NEW Below, NEW ls, IsBranch(ls, All, Below), Len(ls) >= 1, Linked(ls),
         NEW l, Bare(l.node) = Bare(HandleOf(ls).node)
  PROVE  Linked(Append(ls, l))
<1>1. PICK len \in Nat : len = Len(ls) /\ len >= 1
  <2>1. PICK S : ls \in Seq(S)
    BY DEF IsBranch
  <2> QED BY <2>1
<1>2. PICK to : to = Append(ls, l)
  OBVIOUS
<1>3. Len(to) = len + 1 /\ to[len + 1] = l /\ \A i \in 1 .. len : to[i] = ls[i]
  <2>1. PICK S : ls \in Seq(S)
    BY DEF IsBranch
  <2> QED BY <1>1, <1>2, <2>1
<1>4. ASSUME NEW i \in 1 .. len
      PROVE  Bare(At(to[i].node, to[i].ofs).node) = Bare(to[i + 1].node)
  <2>1. CASE i = len
    BY <1>1, <1>3, <2>1 DEF HandleOf, Top
  <2>2. CASE i # len
    <3>1. i \in 1 .. len - 1 /\ i + 1 \in 1 .. len
      BY <1>1, <2>2
    <3> QED BY <1>1, <1>3, <3>1 DEF Linked
  <2> QED BY <2>1, <2>2
<1>5. (len + 1) - 1 = len
  BY <1>1
<1> QED BY <1>2, <1>3, <1>4, <1>5 DEF Linked

\* Closing the lowest level keeps the digests of those above, if annotations are right.
LEMMA LinkLess ==
  ASSUME Trees(FreshNode, FreshFull), NEW ls, IsBranch(ls, FreshNode, FreshFull), Len(ls) > 1, Linked(ls)
  PROVE  Linked(PopLevel(ls))
<1>1. PICK len \in Nat : len = Len(ls) /\ len > 1 /\ DOMAIN ls = 1 .. len
  <2>1. PICK S : ls \in Seq(S)
    BY DEF IsBranch
  <2> QED BY <2>1
<1>2. PICK up : up = SubSeq(ls, 1, len - 1)
  OBVIOUS
<1>3. /\ Len(up) = len - 1 /\ DOMAIN up = 1 .. len - 1
      /\ \A i \in 1 .. len - 1 : up[i] = ls[i]
  <2>1. PICK S : ls \in Seq(S)
    BY DEF IsBranch
  <2> QED BY <1>1, <1>2, <2>1
<1>4. Seqs!Front(ls) = up
  BY <1>1, <1>2 DEF Seqs!Front
<1>5. IsBranch(up, FreshNode, FreshFull)
  <2>1. PICK S : ls \in Seq(S)
    BY DEF IsBranch
  <2>2. up \in Seq(S)
    BY <1>1, <1>2, <2>1
  <2>3. \A i \in 1 .. len - 1 : i \in 1 .. len
    OBVIOUS
  <2>4. \A i \in 1 .. Len(up) - 1 : i \in 1 .. len - 1 /\ up[i] = ls[i]
    BY <1>1, <1>3
  <2> QED BY <1>1, <1>3, <2>2, <2>3, <2>4 DEF IsBranch
<1>6. Linked(up)
  <2>1. \A i \in 1 .. Len(up) - 1 : i \in 1 .. len - 1 /\ i + 1 \in 1 .. len - 1
    BY <1>1, <1>3
  <2> QED BY <1>1, <1>3, <2>1 DEF Linked
<1>7. PICK l : l = up[len - 1] /\ l = ls[len - 1] /\ l = Top(up)
  <2>1. len - 1 \in 1 .. len - 1
    BY <1>1
  <2> QED BY <1>3, <2>1 DEF Top
<1>8. At(l.node, l.ofs).tag = "Node" /\ Bare(At(l.node, l.ofs).node) = Bare(Top(ls).node)
  <2>1. len - 1 \in 1 .. Len(ls) - 1 /\ (len - 1) + 1 = len
    BY <1>1
  <2> QED BY <1>1, <1>7, <2>1 DEF IsBranch, Linked, Top
<1>9. IsLevel(l, FreshNode)
  <2>1. len - 1 \in 1 .. len
    BY <1>1
  <2> QED BY <1>1, <1>7, <2>1 DEF IsBranch
<1>n. PICK n \in FreshNode : \E o, w : l = [node |-> n, ofs |-> o, own |-> w]
  BY <1>9 DEF IsLevel
<1>10. PICK o, w : l = [node |-> n, ofs |-> o, own |-> w]
  BY <1>n
<1>11. Top(ls).node \in FreshFull
  <2>1. IsLevel(ls[len], FreshFull)
    BY <1>1 DEF IsBranch
  <2> QED BY <1>1, <2>1 DEF IsLevel, Top
<1>12. PICK m \in FreshFull : m = Top(ls).node
  BY <1>11
<1>13. CASE ~Top(ls).own
  BY <1>4, <1>6, <1>13 DEF PopLevel
<1>14. CASE Top(ls).own
  <2>1. PICK x : x = With(n, o, NewNode(m))
    OBVIOUS
  <2>2. PICK k : k = InsertChild(l, m)
    OBVIOUS
  <2>3. k.node = x
    BY <1>10, <2>1, <2>2 DEF InsertChild, Owned
  <2>4. Bare(x) = Bare(n)
    <3>1. At(n, o).tag = "Node" /\ Bare(m) = Bare(At(n, o).node)
      BY <1>8, <1>10, <1>12
    <3> QED BY <2>1, <3>1, SameSubtree
  <2>5. Bare(k.node) = Bare(Top(up).node)
    BY <1>7, <1>10, <2>3, <2>4
  <2>6. Linked([up EXCEPT ![Len(up)] = k])
    <3>1. Len(up) >= 1
      BY <1>1, <1>3
    <3> QED BY <1>5, <1>6, <2>5, <3>1, LinkLast
  <2>7. PopLevel(ls) = [up EXCEPT ![Len(up)] = k]
    BY <1>3, <1>4, <1>7, <1>12, <1>14, <2>2 DEF PopLevel
  <2> QED BY <2>6, <2>7
<1> QED BY <1>13, <1>14

\* Moving along the lowest level keeps the digests.
LEMMA LinkMoved ==
  ASSUME NEW All, NEW Below, Trees(All, Below), NEW ls, IsBranch(ls, All, Below), ls # <<>>, Linked(ls), NEW o
  PROVE  /\ Linked(Moved(ls, o)) /\ IsBranch(Moved(ls, o), All, Below) /\ Len(Moved(ls, o)) >= 1
<1>1. Len(ls) >= 1 /\ IsLevel(Top(ls), All) /\ (Len(ls) # 1 => IsLevel(Top(ls), Below))
  BY HasTop
<1>2. PICK t : t = Top(ls) /\ IsLevel(t, All) /\ (Len(ls) # 1 => IsLevel(t, Below))
  BY <1>1
<1>3. PICK l : l = [t EXCEPT !.ofs = o]
  OBVIOUS
<1>4. IsLevel(l, All) /\ (Len(ls) # 1 => IsLevel(l, Below))
  <2>1. IsLevel([t EXCEPT !.ofs = o], All)
    BY <1>2, LevelNode
  <2>2. ASSUME Len(ls) # 1
        PROVE  IsLevel([t EXCEPT !.ofs = o], Below)
    BY <1>2, <2>2, LevelNode
  <2> QED BY <1>3, <2>1, <2>2
<1>5. l.node = t.node
  <2>1. PICK n, p, w : t = [node |-> n, ofs |-> p, own |-> w]
    BY <1>2 DEF IsLevel
  <2> QED BY <1>3, <2>1
<1>6. PICK to : to = [ls EXCEPT ![Len(ls)] = l]
  OBVIOUS
<1>7. Linked(to)
  BY <1>1, <1>2, <1>5, <1>6, LinkLast
<1>8. IsBranch(to, All, Below) /\ Len(to) = Len(ls)
  <2>1. LET z == [ls EXCEPT ![Len(ls)] = l]
        IN IsBranch(z, All, Below) /\ Len(z) = Len(ls) /\ Top(z) = l
    BY <1>1, <1>4, LastLevel
  <2> QED BY <1>6, <2>1
<1>9. to = Moved(ls, o)
  BY <1>2, <1>3, <1>6 DEF Moved
<1> QED BY <1>1, <1>7, <1>8, <1>9

\* A round of a search leaves the levels linked, if annotations are right.
LEMMA RoundLinks ==
  ASSUME Trees(FreshNode, FreshFull), NEW s, IsSearch(s, FreshNode, FreshFull), Linked(s.levels), NEW bad
  PROVE  Linked(Round(s, bad).levels)
<1>1. PICK ls : ls = s.levels /\ IsBranch(ls, FreshNode, FreshFull) /\ Len(ls) >= 1 /\ Linked(ls)
  BY DEF IsSearch
<1>2. PICK r : r = LevelSearch(Top(ls), s.method)
  OBVIOUS
<1>3. ls # <<>>
  <2>1. Len(<<>>) = 0
    OBVIOUS
  <2> QED BY <1>1, <2>1
<1>4. PICK e : e = Top(ls).ofs + r.at
  OBVIOUS
<1>5. PICK to : /\ to = Moved(ls, e) /\ Linked(to)
                /\ IsBranch(to, FreshNode, FreshFull) /\ Len(to) >= 1
  BY <1>1, <1>3, LinkMoved
<1>6. to = [ls EXCEPT ![Len(ls)].ofs = @ + r.at]
  BY <1>4, <1>5 DEF Moved, Top
<1>7. PICK h : h = HandleOf(to)
  OBVIOUS
<1> DEFINE result(tag) == [tag |-> tag, levels |-> to]
           again(next) == [tag |-> "again", levels |-> next, method |-> r.method]
<1>8. Round(s, bad) =
        CASE r.tag = "Leaf" -> result(IF h.tag = "Leaf" THEN "leaf" ELSE "none")
          [] r.tag = "Path" /\ Unreadable(h, bad) -> result("error")
          [] r.tag = "Path" /\ h.tag = "Node" /\ ~Unreadable(h, bad) -> again(Append(to, Level(h.node)))
          [] r.tag = "Path" /\ h.tag # "Node" -> result("none")
          [] r.tag = "None" /\ Len(ls) > 1 -> again(Advance(PopLevel(ls)))
          [] OTHER -> result("none")
  BY <1>1, <1>2, <1>6, <1>7 DEF Round
<1>9. \A tag : result(tag).levels = to
  OBVIOUS
<1>10. \A next : again(next).levels = next
  OBVIOUS
<1> HIDE DEF result, again
<1>11. Linked(Append(to, Level(h.node)))
  <2>a. PICK n : n = h.node
    OBVIOUS
  <2>b. Level(n).node = n
    BY DEF Level
  <2>1. PICK l : l = Level(h.node) /\ l.node = h.node
    BY <2>a, <2>b
  <2>2. Bare(l.node) = Bare(HandleOf(to).node)
    BY <1>7, <2>1
  <2> QED BY <1>5, <2>1, <2>2, LinkMore
<1>12. ASSUME Len(ls) > 1
       PROVE  Linked(Advance(PopLevel(ls)))
  <2>1. PICK up : up = PopLevel(ls) /\ Linked(up) /\ IsBranch(up, FreshNode, FreshFull) /\ Len(up) = Len(ls) - 1
    BY <1>1, <1>12, LinkLess, OneLevelLess
  <2>2. up # <<>>
    <3>1. PICK S : ls \in Seq(S)
      BY <1>1 DEF IsBranch
    <3>2. PICK len \in Nat : len = Len(ls) /\ len > 1
      BY <1>12, <3>1
    <3>3. len - 1 # 0
      BY <3>2
    <3>4. Len(<<>>) = 0
      OBVIOUS
    <3> QED BY <2>1, <3>2, <3>3, <3>4
  <2>3. PICK o : o = Top(up).ofs + 1
    OBVIOUS
  <2>4. Linked(Moved(up, o))
    BY <2>1, <2>2, LinkMoved
  <2>5. Advance(up) = Moved(up, o)
    BY <2>3 DEF Moved, Advance, Top
  <2> QED BY <2>1, <2>4, <2>5
<1>13. \/ \E tag : Round(s, bad) = result(tag)
       \/ Round(s, bad) = again(Append(to, Level(h.node)))
       \/ Len(ls) > 1 /\ Round(s, bad) = again(Advance(PopLevel(ls)))
  <2>1. CASE r.tag = "Leaf"
    <3>1. PICK tag : tag = (IF h.tag = "Leaf" THEN "leaf" ELSE "none")
      OBVIOUS
    <3>2. Round(s, bad) = result(tag)
      BY <1>8, <2>1, <3>1
    <3> QED BY <3>2
  <2>2. CASE r.tag = "Path"
    BY <1>8, <2>2
  <2>3. CASE r.tag # "Leaf" /\ r.tag # "Path"
    <3>1. CASE r.tag = "None" /\ Len(ls) > 1
      BY <1>8, <3>1
    <3>2. CASE ~(r.tag = "None" /\ Len(ls) > 1)
      <4>1. Round(s, bad) = result("none")
        BY <1>8, <2>3, <3>2
      <4> QED BY <4>1
    <3> QED BY <3>1, <3>2
  <2> QED BY <2>1, <2>2, <2>3
<1> QED BY <1>5, <1>9, <1>10, <1>11, <1>12, <1>13

\* So does the whole search.
LEMMA SearchLinks ==
  ASSUME Trees(FreshNode, FreshFull), NEW ls, IsBranch(ls, FreshNode, FreshFull), Len(ls) >= 1,
         Linked(ls), NEW m, NEW bad
  PROVE  Linked(Search(ls, m, bad).levels)
<1>0. PICK f : SearchBy(ls, m, bad, f)
  BY SearchIs
<1>1. /\ Search(ls, m, bad) = f[2 * Cardinality(Placed(ls[1].node)) + 1]
      /\ f[0] = [tag |-> "again", levels |-> ls, method |-> m]
      /\ \A k \in Nat : f[k + 1] = IF f[k].tag = "again" THEN Round(f[k], bad) ELSE f[k]
  BY <1>0 DEF SearchBy
<1>2. PICK n \in FreshNode : n = ls[1].node
  <2>1. ls # <<>>
    <3>1. Len(<<>>) = 0
      OBVIOUS
    <3> QED BY <3>1
  <2> QED BY <2>1, HasTop
<1>3. PICK last \in Nat : last = 2 * Cardinality(Placed(n)) + 1
  BY PlacedFinite
<1> DEFINE Holds(s) == IsSearch(s, FreshNode, FreshFull) /\ Linked(s.levels)
           T == {k \in Nat : Holds(f[k])}
<1>4. 0 \in T
  <2>1. PICK s : s = f[0] /\ s.levels = ls /\ s.tag = "again"
    <3>1. PICK s : s = f[0]
      OBVIOUS
    <3>2. s = [tag |-> "again", levels |-> ls, method |-> m]
      BY <1>1, <3>1
    <3> QED BY <3>1, <3>2
  <2> QED BY <2>1 DEF IsSearch
<1>5. ASSUME NEW k \in T
      PROVE  k + 1 \in T
  <2>1. PICK s : s = f[k] /\ Holds(s)
    OBVIOUS
  <2>2. k \in Nat /\ k + 1 \in Nat
    OBVIOUS
  <2>3. f[k + 1] = IF s.tag = "again" THEN Round(s, bad) ELSE s
    BY <1>1, <2>1, <2>2
  <2>4. Holds(Round(s, bad))
    BY <2>1, RoundKeeps, RoundLinks
  <2> HIDE DEF Holds
  <2>5. Holds(f[k + 1])
    BY <2>1, <2>3, <2>4
  <2> QED BY <2>2, <2>5
<1>6. T = Nat
  <2>1. T \in SUBSET Nat
    OBVIOUS
  <2> HIDE DEF T
  <2> QED BY <1>4, <1>5, <2>1, UpTo
<1>7. Holds(f[last])
  <2> HIDE DEF Holds
  <2> QED BY <1>6
<1>8. Search(ls, m, bad) = f[last]
  BY <1>1, <1>2, <1>3
<1> QED BY <1>7, <1>8

\* The levels of a branch make a proof that is accepted just when they are linked.
LEMMA ProvesIs ==
  ASSUME NEW All, NEW Below, NEW ls, IsBranch(ls, All, Below), ls # <<>>
  PROVE  Proves([i \in DOMAIN ls |-> [node |-> ls[i].node, ofs |-> ls[i].ofs]], ls[1].node)
           <=> Linked(ls)
<1>1. PICK p : p = [i \in DOMAIN ls |-> [node |-> ls[i].node, ofs |-> ls[i].ofs]]
  OBVIOUS
<1>2. PICK len \in Nat : len = Len(ls) /\ DOMAIN ls = 1 .. len /\ len >= 1
  BY HasTop
<1>3. Len(p) = len
  BY <1>1, <1>2
<1>4. \A i \in 1 .. len : p[i].node = ls[i].node /\ p[i].ofs = ls[i].ofs
  BY <1>1, <1>2
<1>5. \A i \in 1 .. len - 1 : i \in 1 .. len /\ i + 1 \in 1 .. len
  BY <1>2
<1>6. \A i \in 1 .. len - 1 : At(ls[i].node, ls[i].ofs).tag = "Node"
  BY <1>2 DEF IsBranch
<1>7. 1 \in 1 .. len
  BY <1>2
<1> QED BY <1>1, <1>2, <1>3, <1>4, <1>5, <1>6, <1>7 DEF Proves, Linked

\* What a search that finds a leaf leaves.
LEMMA AnswerLinks ==
  ASSUME NEW r, NEW w, Answer(r, w), Linked(r.levels), levels' # <<>>
  PROVE  Linked(levels')
BY DEF Answer

\* Without a write, a branch stays linked, and is when it is opened.
LEMMA BranchLinks ==
  ASSUME Trees(FreshNode, FreshFull), Leads(FreshNode, FreshFull), BranchNext,
         levels' # <<>>, levels = <<>> \/ Linked(levels), ~ \E l \in Input : Touch(l)
  PROVE  Linked(levels')
<1>1. ASSUME NEW m, Open(m)
      PROVE  Linked(levels')
  <2>1. PICK n \in FreshNode : n = tree
    BY DEF Leads
  <2>2. PICK l : l = Level(n) /\ IsLevel(l, FreshNode)
    BY DEF Level, IsLevel
  <2>3. PICK ls : ls = << l >>
    OBVIOUS
  <2>4. ls \in Seq({l}) /\ Len(ls) = 1 /\ DOMAIN ls = {1} /\ ls[1] = l /\ 1 .. Len(ls) - 1 = {}
    BY <2>3
  <2>5. IsBranch(ls, FreshNode, FreshFull) /\ Len(ls) >= 1 /\ Linked(ls)
    <3>1. \A i \in DOMAIN ls : IsLevel(ls[i], FreshNode)
      BY <2>2, <2>4
    <3> QED BY <2>4, <3>1 DEF IsBranch, Linked
  <2>6. PICK bad : Answer(Search(<<Level(tree)>>, m, bad), [NoWalk EXCEPT !.by = m])
    BY <1>1 DEF Open
  <2>7. PICK r : r = Search(ls, m, bad) /\ Linked(r.levels)
    BY <2>5, SearchLinks
  <2>8. PICK w : w = [NoWalk EXCEPT !.by = m]
    OBVIOUS
  <2>9. Answer(r, w)
    BY <2>1, <2>2, <2>3, <2>6, <2>7, <2>8
  <2> QED BY <2>7, <2>9, AnswerLinks
<1>2. CASE Step
  <2>1. PICK ls : ls = levels /\ IsBranch(ls, FreshNode, FreshFull) /\ ls # <<>> /\ Linked(ls)
    BY <1>2 DEF Leads, Step, Holding, Closed
  <2>2. PICK o : o = Top(ls).ofs + 1
    OBVIOUS
  <2>3. PICK next : /\ next = Moved(ls, o) /\ Linked(next)
                    /\ IsBranch(next, FreshNode, FreshFull) /\ Len(next) >= 1
    BY <2>1, LinkMoved
  <2>4. next = Advance(ls)
    BY <2>2, <2>3 DEF Moved, Advance, Top
  <2>5. PICK m, w : m = First /\ w = walk
    OBVIOUS
  <2>6. PICK bad : Answer(Search(Advance(levels), First, bad), walk)
    BY <1>2 DEF Step
  <2>7. PICK r : r = Search(next, m, bad) /\ Linked(r.levels)
    BY <2>3, SearchLinks
  <2>8. Answer(r, w)
    BY <2>1, <2>4, <2>5, <2>6, <2>7
  <2> QED BY <2>7, <2>8, AnswerLinks
<1>3. CASE TakeProof
  <2>1. PICK ls : ls = levels /\ IsBranch(ls, FreshNode, FreshFull) /\ ls # <<>> /\ Linked(ls)
    BY <1>3 DEF Leads, TakeProof, Holding, Closed
  <2>2. PICK len \in Nat : len = Len(ls) /\ DOMAIN ls = 1 .. len
    BY <2>1, HasTop
  <2>3. PICK to : to = [i \in DOMAIN ls |-> Owned(ls[i])] /\ levels' = to
    BY <1>3, <2>1 DEF TakeProof
  <2>4. Len(to) = len
    BY <2>2, <2>3
  <2>5. ASSUME NEW i \in 1 .. len
        PROVE  to[i].node = ls[i].node /\ to[i].ofs = ls[i].ofs
    <3>1. PICK k : k = ls[i] /\ IsLevel(k, FreshNode)
      BY <2>1, <2>2 DEF IsBranch
    <3>2. PICK n, o, w : k = [node |-> n, ofs |-> o, own |-> w]
      BY <3>1 DEF IsLevel
    <3>3. to[i] = Owned(k)
      BY <2>2, <2>3, <3>1
    <3> QED BY <3>1, <3>2, <3>3 DEF Owned
  <2>6. \A i \in 1 .. len - 1 : i \in 1 .. len /\ i + 1 \in 1 .. len
    BY <2>2
  <2> QED BY <2>1, <2>2, <2>3, <2>4, <2>5, <2>6 DEF Linked
<1>4. CASE Return
  BY <1>4 DEF Return
<1>5. ~Save /\ ~DropBranch
  BY DEF Save, Idle, Closed, DropBranch
<1> QED BY <1>1, <1>2, <1>3, <1>4, <1>5 DEF BranchNext

\* Read-only branches (proof.rs, raw_branch.rs:180-240) over trees whose annotations
\* are right: what the levels hold is accepted as a proof from when the branch is
\* opened, through iteration and proofs taken, until something is written.
THEOREM ProofsStayAccepted ==
  ASSUME Trees(Node, Node),
         Whole \subseteq {n \in Node : Fresh(n)},
         RecodeKeepsHandles
  PROVE  Spec => ProofsHold
<1>1. Trees(FreshNode, FreshFull)
  BY FreshTrees
<1>2. ASSUME Freshly, Freshly', Next, faults' = 0, ~Closed', Closed \/ Accepted,
             ~ \E l \in Input : Touch(l)
      PROVE  Accepted'
  <2>1. faults = 0
    BY <1>2, FaultsGrow DEF Freshly
  <2>2. Leads(FreshNode, FreshFull) /\ IsBranch(levels', FreshNode, FreshFull) /\ levels' # <<>>
    BY <1>2, <2>1 DEF Freshly, Leads, Closed
  <2>3. PICK ls : ls = levels' /\ IsBranch(ls, FreshNode, FreshFull) /\ ls # <<>>
    BY <2>2
  <2>4. Accepted' <=> Linked(ls)
    <3>1. Accepted' <=> Proves([i \in DOMAIN ls |-> [node |-> ls[i].node, ofs |-> ls[i].ofs]], ls[1].node)
      BY <2>3 DEF Accepted, Proof
    <3> QED BY <2>3, <3>1, ProvesIs
  <2>5. levels = <<>> \/ Linked(levels)
    <3>1. CASE Closed
      BY <3>1 DEF Closed
    <3>2. CASE ~Closed
      <4>1. PICK on : on = levels /\ IsBranch(on, FreshNode, FreshFull) /\ on # <<>>
        BY <2>2, <3>2 DEF Leads, Closed
      <4>2. Accepted <=> Proves([i \in DOMAIN on |-> [node |-> on[i].node, ofs |-> on[i].ofs]], on[1].node)
        BY <4>1 DEF Accepted, Proof
      <4> QED BY <1>2, <3>2, <4>1, <4>2, ProvesIs
    <3> QED BY <3>1, <3>2
  <2>6. CASE BranchNext
    BY <1>1, <1>2, <2>2, <2>3, <2>4, <2>5, <2>6, BranchLinks
  <2>7. ~Call
    BY <2>2 DEF Call, Changed, Idle, Closed
  <2> QED BY <1>2, <2>6, <2>7 DEF Next
<1>3. Freshly /\ Freshly' /\ [Next]_vars =>
        [(faults' = 0 /\ ~Closed' /\ (Closed \/ Accepted) /\ ~ \E l \in Input : Touch(l)) => Accepted']_vars
  BY <1>2
<1> QED BY <1>3, AlwaysFresh, PTL DEF Spec, ProofsHold

-----------------------------------------------------------------------------
(***************************************************************************)
(* Iteration, and what leaves the keys in their places.                    *)
(***************************************************************************)

\* Every state is one of a walk.
LEMMA AlwaysWalks ==
  ASSUME Trees(Node, Node), Whole \subseteq Node
  PROVE  Spec => [](Leads(Node, Node) /\ WalkAt(tree, levels, walk))
<1>1. Init => WalkAt(tree, levels, walk)
  BY DEF Init, BranchInit, WalkAt
<1>2. Leads(Node, Node) /\ WalkAt(tree, levels, walk) /\ [Next]_vars => WalkAt(tree, levels, walk)'
  <2> SUFFICES ASSUME Leads(Node, Node), WalkAt(tree, levels, walk), [Next]_vars
               PROVE  WalkAt(tree', levels', walk')
    OBVIOUS
  <2>1. CASE BranchNext
    BY <2>1, BranchWalks
  <2>2. CASE Call
    BY <2>2 DEF Call, Changed, Idle, Closed, WalkAt
  <2>3. CASE UNCHANGED vars
    BY <2>3 DEF vars
  <2> QED BY <2>1, <2>2, <2>3 DEF Next
<1> QED BY <1>1, <1>2, AlwaysLeads, PTL DEF Spec

\* Iteration (iter.rs, branch.rs) over any tree, of any structure and however it is
\* annotated, and on from what any search method found: the leaves are visited one
\* after the other, none twice and none left out, also while they are written to,
\* and an iterator ends only after the last.
THEOREM WalksGoOn ==
  ASSUME Trees(Node, Node), Whole \subseteq Node
  PROVE  Spec => []WalkOn
<1>1. WalkAt(tree, levels, walk) => WalkOn
  <2> SUFFICES ASSUME WalkAt(tree, levels, walk), walk # NoWalk
               PROVE  WalkOn
    BY DEF WalkOn
  <2>1. PICK keys : keys = KeysOf(tree)
    OBVIOUS
  <2>2. PICK by, seen : 
          \/ /\ levels # <<>> /\ walk = [by |-> by, seen |-> seen, done |-> FALSE]
             /\ \E p \in Nat : Walked(by, seen, keys, p + 1)
          \/ /\ levels = <<>> /\ walk = [by |-> by, seen |-> seen, done |-> TRUE]
             /\ Walked(by, seen, keys, Len(keys))
    BY <2>1 DEF WalkAt
  <2>3. ASSUME NEW end, Walked(by, seen, keys, end), walk.by = by, walk.seen = seen,
               walk.done <=> end = Len(keys) /\ Closed
        PROVE  WalkOn
    BY <2>1, <2>3 DEF WalkOn, Walked
  <2>4. CASE levels # <<>>
    <3>1. walk = [by |-> by, seen |-> seen, done |-> FALSE] /\ \E p \in Nat : Walked(by, seen, keys, p + 1)
      BY <2>2, <2>4
    <3>2. PICK p \in Nat : Walked(by, seen, keys, p + 1)
      BY <3>1
    <3>3. PICK end : end = p + 1 /\ Walked(by, seen, keys, end)
      BY <3>2
    <3>4. walk.by = by /\ walk.seen = seen /\ ~walk.done /\ ~Closed
      BY <2>4, <3>1, Zenon DEF Closed
    <3> QED BY <2>3, <3>3, <3>4
  <2>5. CASE levels = <<>>
    <3>1. walk = [by |-> by, seen |-> seen, done |-> TRUE] /\ Walked(by, seen, keys, Len(keys))
      BY <2>2, <2>5
    <3>2. PICK end : end = Len(keys) /\ Walked(by, seen, keys, end)
      BY <3>1
    <3>3. walk.by = by /\ walk.seen = seen /\ walk.done /\ Closed
      BY <2>5, <3>1, Zenon DEF Closed
    <3> QED BY <2>3, <3>2, <3>3
  <2> QED BY <2>4, <2>5
<1> QED BY <1>1, AlwaysWalks, PTL

\* Iterating, writing through branches, proving (raw_branch.rs) and saving
\* (handle.rs) leave the keys of any tree of any structure in their places, if a
\* node that is encoded and decoded keeps its handles.
THEOREM KeysStayPut ==
  ASSUME Trees(Node, Node), Whole \subseteq Node, RecodeKeepsHandles
  PROVE  Spec => KeysStay
<1>1. ASSUME Leads(Node, Node), WalkAt(tree, levels, walk), Next, KeysOf(tree') # KeysOf(tree)
      PROVE  Idle /\ Changed(tree', reply') /\ ~Save
  <2>1. ~Save
    <3>1. PICK n \in Node : n = tree
      BY <1>1 DEF Leads
    <3>2. KeysOf(Stored(n)) = KeysOf(n)
      BY SaveKeeps
    <3> QED BY <1>1, <3>1, <3>2 DEF Save
  <2>2. ~BranchNext
    BY <1>1, <2>1, BranchWalks
  <2>3. Idle /\ Changed(tree', reply')
    BY <1>1, <2>2 DEF Next, Call, Changed
  <2> QED BY <2>1, <2>3
<1>2. Leads(Node, Node) /\ WalkAt(tree, levels, walk) /\ [Next]_vars =>
        [KeysOf(tree') # KeysOf(tree) => Idle /\ Changed(tree', reply') /\ ~Save]_vars
  BY <1>1
<1> QED BY <1>2, AlwaysWalks, PTL DEF Spec, KeysStay
=============================================================================
