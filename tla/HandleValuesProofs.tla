------------------------- MODULE HandleValuesProofs -------------------------
(***************************************************************************)
(* HandleStore implements VersionedTrees, for any trees, threads, slots    *)
(* and bounds, and one store. Two nodes read alike if each handle of the   *)
(* one leads to a node that reads like the one the same handle of the      *)
(* other leads to: each step of HandleStore is shown to keep such a        *)
(* relation, between the nodes before the step and those after it.         *)
(***************************************************************************)
EXTENDS HandleStoreStores, HandleValues, NaturalsInduction, WellFoundedInduction

-----------------------------------------------------------------------------
(***************************************************************************)
(* Reading is well defined.                                                *)
(***************************************************************************)

\* Induction, for a set.
LEMMA SetInduction ==
  ASSUME NEW S \in SUBSET Nat, 0 \in S, \A n \in S : n + 1 \in S
  PROVE  S = Nat
<1> SUFFICES ASSUME Nat \ S # {}
             PROVE  FALSE
    OBVIOUS
<1>1. PICK m \in Nat \ S : \A k \in Nat \ S : <<k, m>> \notin OpToRel(<, Nat)
    BY NatLessThanWellFounded, WFMin
<1>2. m \in Nat /\ m # 0
    OBVIOUS
<1>3. m - 1 \in Nat /\ m - 1 < m /\ (m - 1) + 1 = m
    BY <1>2
<1>4. m - 1 \in S
    BY <1>1, <1>3 DEF OpToRel
<1> QED BY <1>3, <1>4

\* What is read at level n, given in f what is read one level less down.
Level(hp, sto, n, f) ==
  [c \in Content |->
    [s \in Slot |->
      CASE Leads(sto, c[s]) /\ n > 0 -> Sub(f[n - 1][Behind(hp, sto, c[s])])
        [] Leads(sto, c[s]) /\ n = 0 -> Deeper
        [] InStore(c[s]) /\ ~Leads(sto, c[s]) -> Missing
        [] OTHER -> c[s]]]

\* A level depends on nothing but the one below it.
LEMMA LevelOf ==
  ASSUME NEW hp, NEW sto, NEW n \in Nat, NEW f, NEW g, n > 0 => f[n - 1] = g[n - 1]
  PROVE  Level(hp, sto, n, f) = Level(hp, sto, n, g)
<1>1. CASE n = 0
  <2>1. ~(n > 0)
      BY <1>1
  <2> QED BY <2>1 DEF Level
<1>2. CASE n > 0
    BY <1>2 DEF Level
<1> QED BY <1>1, <1>2

\* There is such a function: each level is determined by the one below it.
LEMMA ReadingDef ==
  ASSUME NEW hp, NEW sto
  PROVE  Reading(hp, sto) = [n \in Nat |-> Level(hp, sto, n, Reading(hp, sto))]
<1> DEFINE Upto(m, g) == g = [k \in 0 .. m |-> Level(hp, sto, k, g)]
           Has(m) == \E g : Upto(m, g)
           Least(m) == CHOOSE g : Upto(m, g)
           all == [n \in Nat |-> Least(n)[n]]
<1>1. ASSUME NEW m \in Nat, NEW l \in Nat, m <= l, NEW g, NEW h, Upto(m, g), Upto(l, h)
      PROVE  g[m] = h[m]
  <2> DEFINE S == {k \in Nat : k <= m => g[k] = h[k]}
  <2>a. /\ \A k \in 0 .. m : g[k] = Level(hp, sto, k, g)
        /\ \A k \in 0 .. l : h[k] = Level(hp, sto, k, h)
      BY <1>1, Zenon
  <2>1. \A k \in 0 .. m : g[k] = Level(hp, sto, k, g) /\ h[k] = Level(hp, sto, k, h)
      BY <1>1, <2>a
  <2> HIDE DEF Upto
  <2>2. 0 \in S
      BY <2>1, LevelOf
  <2>3. ASSUME NEW k \in S
        PROVE  k + 1 \in S
    <3> SUFFICES ASSUME k + 1 <= m
                 PROVE  g[k + 1] = h[k + 1]
        OBVIOUS
    <3>1. g[k] = h[k] /\ k + 1 \in 0 .. m /\ (k + 1) - 1 = k /\ k + 1 \in Nat
        OBVIOUS
    <3> QED BY <2>1, <3>1, LevelOf
  <2> HIDE DEF S
  <2>4. S \in SUBSET Nat
      BY DEF S
  <2>5. S = Nat
      BY <2>2, <2>3, <2>4, SetInduction
  <2> QED BY <2>5 DEF S
<1>2. \A m \in Nat : Has(m)
  <2> DEFINE S == {m \in Nat : Has(m)}
  <2>1. 0 \in S
    <3> DEFINE g == [k \in 0 .. 0 |-> Level(hp, sto, 0, k)]
    <3>1. \A k \in 0 .. 0 : g[k] = Level(hp, sto, k, g)
        BY LevelOf
    <3> QED BY <3>1
  <2>2. ASSUME NEW m \in S
        PROVE  m + 1 \in S
    <3>1. PICK g : Upto(m, g)
        OBVIOUS
    <3> DEFINE h == [k \in 0 .. m + 1 |-> IF k = m + 1 THEN Level(hp, sto, m + 1, g) ELSE g[k]]
    <3>2. ASSUME NEW k \in 0 .. m + 1
          PROVE  h[k] = Level(hp, sto, k, h)
      <4>1. k > 0 => h[k - 1] = g[k - 1]
          OBVIOUS
      <4>2. \A j \in 0 .. m : g[j] = Level(hp, sto, j, g)
          BY <3>1, Zenon
      <4>3. k # m + 1 => k \in 0 .. m
          OBVIOUS
      <4>4. h[k] = Level(hp, sto, k, g)
          BY <4>2, <4>3
      <4> HIDE DEF h
      <4> QED BY <4>1, <4>4, LevelOf
    <3>3. Upto(m + 1, h)
        BY <3>2
    <3>4. m + 1 \in Nat /\ Has(m + 1)
      <4> HIDE DEF h, Upto
      <4> QED BY <3>3
    <3> HIDE DEF Has
    <3> QED BY <3>4
  <2> HIDE DEF Has
  <2>3. S \in SUBSET Nat
      OBVIOUS
  <2> HIDE DEF S
  <2>4. S = Nat
      BY <2>1, <2>2, <2>3, SetInduction
  <2> QED BY <2>4 DEF S
<1>3. \A m \in Nat : Upto(m, Least(m))
    BY <1>2
<1>4. ASSUME NEW n \in Nat
      PROVE  all[n] = Level(hp, sto, n, all)
  <2>1. all[n] = Least(n)[n]
      OBVIOUS
  <2>2. Least(n)[n] = Level(hp, sto, n, Least(n))
    <3>1. \A k \in 0 .. n : Least(n)[k] = Level(hp, sto, k, Least(n))
        BY <1>3, Zenon
    <3> QED BY <3>1
  <2>3. ASSUME n > 0
        PROVE  Least(n)[n - 1] = all[n - 1]
    <3>1. n - 1 \in Nat /\ n - 1 <= n
        BY <2>3
    <3>2. all[n - 1] = Least(n - 1)[n - 1]
        BY <3>1
    <3> HIDE DEF Upto, Least, all
    <3> QED BY <1>1, <1>3, <3>1, <3>2
  <2> HIDE DEF Least, all
  <2> QED BY <2>1, <2>2, <2>3, LevelOf
<1>5. all = [n \in Nat |-> Level(hp, sto, n, all)]
  <2> HIDE DEF Least
  <2>1. all = [n \in Nat |-> all[n]]
      OBVIOUS
  <2> QED BY <1>4, <2>1
<1>6. Reading(hp, sto) = CHOOSE f : f = [n \in Nat |-> Level(hp, sto, n, f)]
    BY DEF Reading, Level
<1> HIDE DEF all
<1> QED BY <1>5, <1>6

\* What is read in one handle.
Shown(hp, sto, n, h) ==
  IF Leads(sto, h)
  THEN IF n = 0 THEN Deeper ELSE Sub(Reading(hp, sto)[n - 1][Behind(hp, sto, h)])
  ELSE IF InStore(h) THEN Missing ELSE h

\* What is read at a level, handle by handle.
LEMMA ReadingOf ==
  ASSUME NEW hp, NEW sto, NEW n \in Nat, NEW c \in Content
  PROVE  Reading(hp, sto)[n][c] = [s \in Slot |-> Shown(hp, sto, n, c[s])]
<1> DEFINE read == Reading(hp, sto)
           slot(s) == CASE Leads(sto, c[s]) /\ n > 0 -> Sub(read[n - 1][Behind(hp, sto, c[s])])
                        [] Leads(sto, c[s]) /\ n = 0 -> Deeper
                        [] InStore(c[s]) /\ ~Leads(sto, c[s]) -> Missing
                        [] OTHER -> c[s]
<1>1. read[n] = Level(hp, sto, n, read)
  <2> HIDE DEF read
  <2>1. read = [k \in Nat |-> Level(hp, sto, k, read)]
      BY ReadingDef DEF read
  <2> QED BY <2>1
<1>2. read[n][c] = [s \in Slot |-> slot(s)]
    BY <1>1 DEF Level
<1>3. ASSUME NEW s \in Slot
      PROVE  slot(s) = Shown(hp, sto, n, c[s])
  <2> HIDE DEF read
  <2>1. n = 0 \/ n > 0
      OBVIOUS
  <2>2. CASE Leads(sto, c[s]) /\ n > 0
    <3>1. n # 0 /\ n > 0
        BY <2>2
    <3> QED BY <2>2, <3>1 DEF Shown, read
  <2>3. CASE Leads(sto, c[s]) /\ n = 0
    <3>1. ~(n > 0)
        BY <2>3
    <3> QED BY <2>3, <3>1 DEF Shown
  <2>4. CASE ~Leads(sto, c[s])
      BY <2>4 DEF Shown
  <2> QED BY <2>1, <2>2, <2>3, <2>4
<1> HIDE DEF slot
<1> QED BY <1>2, <1>3

-----------------------------------------------------------------------------
(***************************************************************************)
(* Nodes that read alike.                                                  *)
(***************************************************************************)

\* Handles to the same node of the stores sto, or to none.
Same(sto, h, k) ==
  /\ ~HasNode(h) /\ ~HasNode(k)
  /\ \/ ~InStore(h) /\ k = h
     \/ /\ InStore(h) /\ InStore(k)
        /\ h.store \in Store /\ k.store = h.store
        /\ k.hash = h.hash /\ h.hash \in DOMAIN sto[h.store]

\* Nodes without nodes in memory below them that were written as the same.
AsWritten(sto, c, e) ==
  /\ c \in Content /\ e \in Content
  /\ \A s \in Slot : Same(sto, c[s], e[s])

\* The stores have all they refer to.
WholeStores(sto) ==
  \A st \in Store : \A d \in DOMAIN sto[st] :
    LET c == Decode(st, sto[st][d]) IN AsWritten(sto, c, c)

\* They have not lost or changed a node.
Grown(sp, sq) ==
  \A st \in Store : \A d \in DOMAIN sp[st] :
    d \in DOMAIN sq[st] /\ sq[st][d] = sp[st][d]

\* Two handles, h to a node of hp and k to one of hq, that read alike if the
\* pairs of Q do: they lead to such a pair, to the same node of the stores, or h
\* leads to a node of hp that k has as it was written.
Paired(Q, hp, sp, hq, sq, h, k) ==
  \/ Same(sp, h, k)
  \/ HasNode(h) /\ HasNode(k) /\ <<h.id, k.id>> \in Q
  \/ /\ HasNode(h) /\ ~HasNode(k) /\ Leads(sq, k)
     /\ AsWritten(sp, hp[h.id], Behind(hq, sq, k))

\* The handles of nodes that are a pair of Q, slot by slot, are such handles.
Pairing(Q, hp, sp, hq, sq) ==
  /\ Q \in SUBSET (Holder \X Holder)
  /\ \A m, n : <<m, n>> \in Q =>
       \A s \in Slot : Paired(Q, hp, sp, hq, sq, hp[m][s], hq[n][s])

\* Nodes in a relation R that holds of what their handles lead to read alike at
\* every level.
LEMMA ReadAlike ==
  ASSUME NEW hp, NEW sp, NEW hq, NEW sq, NEW R \in SUBSET (Content \X Content),
         \A p \in R : \A s \in Slot :
           LET h == p[1][s]
               k == p[2][s]
           IN \/ ~HasNode(h) /\ ~InStore(h) /\ k = h
              \/ /\ Leads(sp, h) /\ Leads(sq, k)
                 /\ <<Behind(hp, sp, h), Behind(hq, sq, k)>> \in R
  PROVE  \A n \in Nat : \A p \in R :
           Reading(hp, sp)[n][p[1]] = Reading(hq, sq)[n][p[2]]
<1> DEFINE S == {n \in Nat : \A p \in R :
                   Reading(hp, sp)[n][p[1]] = Reading(hq, sq)[n][p[2]]}
<1>1. ASSUME NEW n \in Nat, n = 0 \/ n - 1 \in S, NEW p \in R
      PROVE  Reading(hp, sp)[n][p[1]] = Reading(hq, sq)[n][p[2]]
  <2>1. p[1] \in Content /\ p[2] \in Content
      OBVIOUS
  <2>2. ASSUME NEW s \in Slot
        PROVE  Shown(hp, sp, n, p[1][s]) = Shown(hq, sq, n, p[2][s])
    <3>1. PICK h, k : h = p[1][s] /\ k = p[2][s]
        OBVIOUS
    <3>2. CASE ~HasNode(h) /\ ~InStore(h) /\ k = h
        BY <3>1, <3>2 DEF Shown, Leads
    <3>3. CASE /\ Leads(sp, h) /\ Leads(sq, k)
               /\ <<Behind(hp, sp, h), Behind(hq, sq, k)>> \in R
      <4>1. PICK b, c : b = Behind(hp, sp, h) /\ c = Behind(hq, sq, k)
          OBVIOUS
      <4>2. n # 0 => Reading(hp, sp)[n - 1][b] = Reading(hq, sq)[n - 1][c]
        <5>1. <<b, c>> \in R /\ <<b, c>>[1] = b /\ <<b, c>>[2] = c
            BY <3>3, <4>1
        <5> QED BY <1>1, <5>1
      <4> QED BY <3>1, <3>3, <4>1, <4>2 DEF Shown
    <3> QED BY <3>1, <3>2, <3>3
  <2>3. /\ Reading(hp, sp)[n][p[1]] = [s \in Slot |-> Shown(hp, sp, n, p[1][s])]
        /\ Reading(hq, sq)[n][p[2]] = [s \in Slot |-> Shown(hq, sq, n, p[2][s])]
      BY <2>1, ReadingOf
  <2> QED BY <2>2, <2>3, Zenon
<1>2. 0 \in S
    BY <1>1
<1>3. ASSUME NEW n \in S
      PROVE  n + 1 \in S
  <2>1. n + 1 \in Nat /\ (n + 1) - 1 = n
      OBVIOUS
  <2> HIDE DEF S
  <2>2. \A p \in R : Reading(hp, sp)[n + 1][p[1]] = Reading(hq, sq)[n + 1][p[2]]
      BY <1>1, <2>1
  <2> QED BY <2>1, <2>2 DEF S
<1>4. S \in SUBSET Nat
    OBVIOUS
<1> HIDE DEF S
<1>5. S = Nat
    BY <1>2, <1>3, <1>4, SetInduction
<1> QED BY <1>5 DEF S

\* What a step must show of the nodes it relates, to leave what they read.
LEMMA PairsReadAlike ==
  ASSUME NEW hp \in [Holder -> Content], NEW hq \in [Holder -> Content],
         NEW sp, NEW sq, WholeStores(sp), Grown(sp, sq),
         NEW Q, Pairing(Q, hp, sp, hq, sq)
  PROVE  /\ \A n \in Nat : \A m, l : <<m, l>> \in Q =>
              Reading(hp, sp)[n][hp[m]] = Reading(hq, sq)[n][hq[l]]
         /\ \A n \in Nat : \A c, e : AsWritten(sp, c, e) =>
              Reading(hp, sp)[n][c] = Reading(hq, sq)[n][e]
<1> DEFINE P == {<<hp[p[1]], hq[p[2]]>> : p \in Q}
           W == {p \in Content \X Content : AsWritten(sp, p[1], p[2])}
           R == P \cup W
           Linked(h, k) == \/ ~HasNode(h) /\ ~InStore(h) /\ k = h
                           \/ /\ Leads(sp, h) /\ Leads(sq, k)
                              /\ <<Behind(hp, sp, h), Behind(hq, sq, k)>> \in R
<1>1. \A c, e : AsWritten(sp, c, e) => <<c, e>> \in W
    BY DEF AsWritten
<1>2. \A m, n : <<m, n>> \in Q => <<hp[m], hq[n]>> \in P
  <2> SUFFICES ASSUME NEW m, NEW n, <<m, n>> \in Q
               PROVE  <<hp[m], hq[n]>> \in P
      OBVIOUS
  <2>1. PICK p \in Q : p = <<m, n>>
      OBVIOUS
  <2>2. p[1] = m /\ p[2] = n
      BY <2>1
  <2> QED BY <2>2
<1>3. R \in SUBSET (Content \X Content)
    BY DEF Pairing
<1>4. ASSUME NEW h, NEW k, Same(sp, h, k)
      PROVE  Linked(h, k)
  <2>1. CASE ~InStore(h) /\ k = h
      BY <1>4, <2>1 DEF Same
  <2>2. CASE /\ InStore(h) /\ InStore(k) /\ h.store \in Store /\ k.store = h.store
             /\ k.hash = h.hash /\ h.hash \in DOMAIN sp[h.store]
    <3>1. PICK c : c = Decode(h.store, sp[h.store][h.hash])
        OBVIOUS
    <3>2. ~HasNode(h) /\ ~HasNode(k)
        BY <1>4 DEF Same
    <3>3. /\ k.hash \in DOMAIN sq[k.store]
          /\ Behind(hp, sp, h) = c /\ Behind(hq, sq, k) = c
        BY <2>2, <3>1, <3>2 DEF Grown, Behind
    <3>4. AsWritten(sp, c, c)
        BY <2>2, <3>1 DEF WholeStores
    <3>5. <<c, c>> \in W
        BY <1>1, <3>4
    <3> HIDE DEF W, P
    <3> QED BY <2>2, <3>3, <3>5 DEF Leads
  <2> HIDE DEF R
  <2> QED BY <1>4, <2>1, <2>2 DEF Same
<1>5. ASSUME NEW p \in R, NEW s \in Slot
      PROVE  Linked(p[1][s], p[2][s])
  <2>1. CASE p \in W
    <3>1. Same(sp, p[1][s], p[2][s])
        BY <2>1 DEF AsWritten
    <3> HIDE DEF Linked
    <3> QED BY <1>4, <3>1
  <2>2. CASE p \in P
    <3>1. PICK q \in Q : p = <<hp[q[1]], hq[q[2]]>>
        BY <2>2
    <3>2. PICK m, n : m = q[1] /\ n = q[2]
        OBVIOUS
    <3>3. q = <<m, n>> /\ p[1] = hp[m] /\ p[2] = hq[n]
        BY <3>1, <3>2 DEF Pairing
    <3>4. PICK h, k : h = hp[m][s] /\ k = hq[n][s]
        OBVIOUS
    <3>5. Paired(Q, hp, sp, hq, sq, h, k)
        BY <3>3, <3>4 DEF Pairing
    <3>6. CASE Same(sp, h, k)
      <4> HIDE DEF Linked
      <4> QED BY <1>4, <3>3, <3>4, <3>6
    <3>7. CASE HasNode(h) /\ HasNode(k) /\ <<h.id, k.id>> \in Q
      <4>1. <<hp[h.id], hq[k.id]>> \in R
          BY <1>2, <3>7
      <4>2. <<Behind(hp, sp, h), Behind(hq, sq, k)>> \in R
        <5> HIDE DEF R
        <5> QED BY <3>7, <4>1 DEF Behind
      <4> HIDE DEF R
      <4> QED BY <3>3, <3>4, <3>7, <4>2 DEF Leads
    <3>8. CASE /\ HasNode(h) /\ ~HasNode(k) /\ Leads(sq, k)
               /\ AsWritten(sp, hp[h.id], Behind(hq, sq, k))
      <4>1. <<hp[h.id], Behind(hq, sq, k)>> \in R
          BY <1>1, <3>8
      <4>2. <<Behind(hp, sp, h), Behind(hq, sq, k)>> \in R
        <5> HIDE DEF R
        <5> QED BY <3>8, <4>1 DEF Behind
      <4> HIDE DEF R
      <4> QED BY <3>3, <3>4, <3>8, <4>2 DEF Leads
    <3> HIDE DEF Linked
    <3> QED BY <3>5, <3>6, <3>7, <3>8 DEF Paired
  <2> HIDE DEF Linked
  <2> QED BY <2>1, <2>2
<1>6. \A n \in Nat : \A p \in R :
        Reading(hp, sp)[n][p[1]] = Reading(hq, sq)[n][p[2]]
  <2> HIDE DEF R
  <2> QED BY <1>3, <1>5, ReadAlike
<1>7. \A c, e : <<c, e>>[1] = c /\ <<c, e>>[2] = e
    OBVIOUS
<1>8. ASSUME NEW n \in Nat, NEW m, NEW l, <<m, l>> \in Q
      PROVE  Reading(hp, sp)[n][hp[m]] = Reading(hq, sq)[n][hq[l]]
  <2>1. <<hp[m], hq[l]>> \in R
      BY <1>2, <1>8
  <2> HIDE DEF R
  <2> QED BY <1>6, <1>7, <2>1
<1>9. ASSUME NEW n \in Nat, NEW c, NEW e, AsWritten(sp, c, e)
      PROVE  Reading(hp, sp)[n][c] = Reading(hq, sq)[n][e]
  <2>1. <<c, e>> \in R
      BY <1>1, <1>9
  <2> HIDE DEF R
  <2> QED BY <1>6, <1>7, <2>1
<1> QED BY <1>8, <1>9

-----------------------------------------------------------------------------
(***************************************************************************)
(* The steps of HandleStore.                                               *)
(***************************************************************************)

\* The inductive invariant, for one store.
Resolved(st) == Coherent /\ Complete(st)

\* Whatever is not in memory leads to the stores, and they have it.
LEMMA SameInStore ==
  ASSUME NEW st, Store = {st}, Resolved(st)
  PROVE  /\ WholeStores(store)
         /\ \A n \in Holder : \A s \in Slot :
              ~HasNode(heap[n][s]) => Same(store, heap[n][s], heap[n][s])
         /\ \A snap \in snaps :
              /\ snap[1] \in Store /\ snap[2] \in DOMAIN store[snap[1]]
              /\ store[snap[1]][snap[2]] \in Blob
<1>1. TypeOK /\ NoDangling
    BY NothingDangles DEF Resolved, Coherent, Owned
<1>2. ASSUME NEW t \in Store, NEW d \in DOMAIN store[t], NEW c, c = Decode(t, store[t][d])
      PROVE  AsWritten(store, c, c)
  <2>1. store[t][d] \in Blob
      BY <1>1 DEF TypeOK, IsContentMap
  <2>2. c \in Content /\ \A s \in Slot : ~HasNode(c[s])
      BY <1>2, <2>1, DecodeTyped, DecodeNoNode
  <2>3. ASSUME NEW s \in Slot, InStore(c[s])
        PROVE  c[s].store \in Store /\ c[s].hash \in DOMAIN store[c[s].store]
    <3>1. PICK e : e = store[t][d][s]
        OBVIOUS
    <3>2. c[s] = DecodeEntry(t, e) /\ e \in Entry
        BY <1>2, <2>1, <3>1 DEF Decode, Blob
    <3>3. e.tag = "Hashed" /\ c[s].store = t /\ c[s].hash = e.hash
        BY <2>3, <3>2 DEF DecodeEntry, Persisted, InStore, Entry, None
    <3>4. e.hash \in DOMAIN store[t]
        BY <1>1, <3>1, <3>3 DEF NoDangling, SnapshotsComplete, Contains
    <3> QED BY <3>3, <3>4
  <2> QED BY <2>2, <2>3 DEF AsWritten, Same
<1>3. ASSUME NEW n \in Holder, NEW s \in Slot, ~HasNode(heap[n][s])
      PROVE  Same(store, heap[n][s], heap[n][s])
  <2>1. PICK f, h : f = <<n, s>> /\ h = heap[n][s]
      OBVIOUS
  <2>2. f \in Frame /\ At(heap, f) = h /\ h \in Handle
      BY <1>1, <2>1, HeapOps DEF Frame, At, TypeOK
  <2>3. InStore(h) => h.store \in Store /\ h.hash \in DOMAIN store[h.store]
      BY <1>1, <2>2, HandleKinds DEF NoDangling, Contains, HasNode, InStore, None
  <2> QED BY <1>3, <2>1, <2>3 DEF Same
<1>4. ASSUME NEW snap \in snaps
      PROVE  /\ snap[1] \in Store /\ snap[2] \in DOMAIN store[snap[1]]
             /\ store[snap[1]][snap[2]] \in Blob
    BY <1>1 DEF TypeOK, IsContentMap, NoDangling, SnapshotsComplete, Contains
<1>5. WholeStores(store)
    BY <1>2 DEF WholeStores
<1> QED BY <1>3, <1>4, <1>5

\* A handle that a step has left alone is paired with itself.
LEMMA OwnPair ==
  ASSUME NEW st, Store = {st}, Resolved(st), NEW hq, NEW sq, NEW Q,
         NEW n \in Holder, NEW s \in Slot,
         HasNode(heap[n][s]) => <<heap[n][s].id, heap[n][s].id>> \in Q
  PROVE  Paired(Q, heap, store, hq, sq, heap[n][s], heap[n][s])
<1>1. PICK h : h = heap[n][s]
    OBVIOUS
<1>2. ~HasNode(h) => Same(store, h, h)
    BY <1>1, SameInStore
<1> QED BY <1>1, <1>2 DEF Paired

\* Most steps pair each of the nodes they leave alone with itself.
LEMMA OwnPairing ==
  ASSUME NEW hp, NEW sp, NEW hq, NEW sq, NEW K \in SUBSET Holder,
         NEW Q, Q = {<<n, n>> : n \in K},
         \A n \in K : \A s \in Slot : Paired(Q, hp, sp, hq, sq, hp[n][s], hq[n][s])
  PROVE  Pairing(Q, hp, sp, hq, sq)
<1>1. Q \in SUBSET (Holder \X Holder)
    OBVIOUS
<1>2. ASSUME NEW m, NEW n, <<m, n>> \in Q, NEW s \in Slot
      PROVE  Paired(Q, hp, sp, hq, sq, hp[m][s], hq[n][s])
  <2>1. m = n /\ n \in K
      BY <1>2
  <2> QED BY <2>1
<1> QED BY <1>1, <1>2, Zenon DEF Pairing

\* What a handle leads to in memory is a node in use.
LEMMA NodeBelow ==
  ASSUME TypeOK, NEW n \in Holder, NEW s \in Slot, HasNode(heap[n][s])
  PROVE  /\ <<n, s>> \in Frame /\ RefersTo(heap, <<n, s>>, heap[n][s].id)
         /\ heap[n][s].id \in Holder /\ heap[n][s].id \notin Tree
         /\ heap[n][s].id \notin Fresh(heap)
<1>1. PICK g : g = <<n, s>>
    OBVIOUS
<1>2. g \in Frame /\ At(heap, g) = heap[n][s] /\ heap \in [Holder -> Content]
    BY <1>1 DEF Frame, At, TypeOK
<1>3. /\ heap[n][s].id \in Holder /\ heap[n][s].id \notin Tree
      /\ RefersTo(heap, g, heap[n][s].id)
    BY <1>2, NodeFrame
<1> QED BY <1>1, <1>2, <1>3 DEF Fresh

\* A step that pairs nodes leaves what the paired variables read, what the
\* snapshots read, and what any node read that is in a store.
LEMMA StepReads ==
  ASSUME Typed, Injective, NEW st, Store = {st}, Resolved(st), [Next]_vars,
         NEW Q, Pairing(Q, heap, store, heap', store')
  PROVE  /\ \A q, r \in Tree : <<q, r>> \in Q => TreeValue(r)' = TreeValue(q)
         /\ \A snap \in snaps : SnapValue(snap)' = SnapValue(snap)
         /\ \A c, e : AsWritten(store, c, e) => ValueOf(e)' = ValueOf(c)
<1>1. PICK hp, sp : hp = heap /\ sp = store
    OBVIOUS
<1>2. PICK hq, sq : hq = heap' /\ sq = store'
    OBVIOUS
<1>3. TypeOK /\ TypeOK'
    BY NextTyped DEF Resolved, Coherent, Owned
<1>4. hp \in [Holder -> Content] /\ hq \in [Holder -> Content]
    BY <1>1, <1>2, <1>3 DEF TypeOK
<1>5. Grown(sp, sq)
    BY <1>1, <1>2, StepGrows DEF Grown, Resolved
<1>6. WholeStores(sp)
    BY <1>1, SameInStore
<1>7. Pairing(Q, hp, sp, hq, sq)
    BY <1>1, <1>2
<1>8. MaxDepth \in Nat
    BY ConstantsOK DEF ConstantsOK
<1>9. /\ \A m, l : <<m, l>> \in Q =>
           Reading(hp, sp)[MaxDepth][hp[m]] = Reading(hq, sq)[MaxDepth][hq[l]]
      /\ \A c, e : AsWritten(sp, c, e) =>
           Reading(hp, sp)[MaxDepth][c] = Reading(hq, sq)[MaxDepth][e]
  <2>1. /\ \A n \in Nat : \A m, l : <<m, l>> \in Q =>
             Reading(hp, sp)[n][hp[m]] = Reading(hq, sq)[n][hq[l]]
        /\ \A n \in Nat : \A c, e : AsWritten(sp, c, e) =>
             Reading(hp, sp)[n][c] = Reading(hq, sq)[n][e]
    <3> QED BY <1>4, <1>5, <1>6, <1>7, PairsReadAlike
  <2> QED BY <1>8, <2>1, Zenon
<1>10. \A c, e : AsWritten(store, c, e) => ValueOf(e)' = ValueOf(c)
    BY <1>1, <1>2, <1>9 DEF ValueOf
<1>11. \A q, r \in Tree : <<q, r>> \in Q => TreeValue(r)' = TreeValue(q)
    BY <1>1, <1>2, <1>9 DEF TreeValue, ValueOf
<1>12. ASSUME NEW snap \in snaps
       PROVE  SnapValue(snap)' = SnapValue(snap)
  <2>1. snap[1] \in Store /\ snap[2] \in DOMAIN store[snap[1]]
      BY SameInStore
  <2>2. PICK c : c = Decode(snap[1], store[snap[1]][snap[2]])
      OBVIOUS
  <2>3. AsWritten(store, c, c)
      BY <1>1, <1>6, <2>1, <2>2 DEF WholeStores
  <2>4. c = Decode(snap[1], store'[snap[1]][snap[2]])
      BY <1>1, <1>2, <1>5, <2>1, <2>2 DEF Grown
  <2> QED BY <1>10, <2>2, <2>3, <2>4 DEF SnapValue
<1> QED BY <1>10, <1>11, <1>12

-----------------------------------------------------------------------------
(***************************************************************************)
(* Mutating calls: nobody else reads a node that they write.               *)
(***************************************************************************)

\* The nodes that a call of r has not borrowed.
Apart(r) ==
  {n \in Holder : n # r /\ n \notin Fresh(heap) /\ \A f \in open[r] : n # At(heap, f).id}

\* What a mutating call holds is not apart from it; every other tree is.
LEMMA NotApart ==
  ASSUME Owned, NEW r \in Tree
  PROVE  /\ r \notin Apart(r) /\ cur[r] \notin Apart(r)
         /\ \A f \in CurFrame(r) : f[1] \notin Apart(r)
         /\ \A q \in Tree : q # r => q \in Apart(r)
<1>1. \A f \in open[r] : At(heap, f).id \notin Apart(r)
    BY DEF Apart
<1>2. r \notin Apart(r)
    BY DEF Apart
<1>3. cur[r] \notin Apart(r)
  <2>1. cur[r] = r \/ \E f \in open[r] : cur[r] = At(heap, f).id
      BY DEF Owned, Path, CurFrame, RefersTo
  <2> QED BY <1>1, <1>2, <2>1
<1>4. ASSUME NEW f \in CurFrame(r)
      PROVE  f[1] \notin Apart(r)
  <2>1. f[1] = r \/ \E g \in open[r] : f[1] = At(heap, g).id
      BY DEF Owned, Path, CurFrame, RefersTo
  <2> QED BY <1>1, <1>2, <2>1
<1>5. ASSUME NEW q \in Tree, q # r
      PROVE  q \in Apart(r)
  <2>1. q \in Holder /\ q \notin Id
      BY ConstantsOK DEF ConstantsOK, Holder
  <2>2. \A f \in open[r] : At(heap, f).id \in Id
      BY OpenFrames
  <2> QED BY <1>5, <2>1, <2>2 DEF Apart, Fresh
<1> QED BY <1>2, <1>3, <1>4, <1>5

\* Nor does one of them lead to one that it has.
LEMMA ApartIsClosed ==
  ASSUME Owned, NEW r \in Tree, NEW n \in Apart(r), NEW s \in Slot, HasNode(heap[n][s])
  PROVE  heap[n][s].id \in Apart(r)
<1>1. PICK g, i : g = <<n, s>> /\ i = heap[n][s].id
    OBVIOUS
<1>2. /\ g \in Frame /\ g[1] = n /\ RefersTo(heap, g, i)
      /\ i \in Holder /\ i \notin Tree /\ i \notin Fresh(heap)
    BY <1>1, NodeBelow DEF Apart, Owned
<1>3. ASSUME NEW f \in open[r], i = At(heap, f).id
      PROVE  FALSE
  <2>1. g = f
      BY <1>2, <1>3, OpenFrames, OnlyReference
  <2>2. n = r \/ \E h \in open[r] : n = At(heap, h).id
      BY <1>2, <2>1 DEF Owned, Path, RefersTo
  <2> QED BY <2>2 DEF Apart
<1> QED BY <1>1, <1>2, <1>3 DEF Apart

\* make_mut writes the current node and a new one.
LEMMA MakeMutApart ==
  ASSUME Owned, NEW r \in Tree, NEW s \in Slot, HasNode(heap[cur[r]][s]),
         heap' \in MakeMut(heap, <<cur[r], s>>), NEW n \in Apart(r)
  PROVE  heap'[n] = heap[n]
<1>1. PICK f, h : f = <<cur[r], s>> /\ h = heap[cur[r]][s]
    OBVIOUS
<1>2. /\ f \in Frame /\ f[1] = cur[r] /\ At(heap, f) = h /\ heap \in [Holder -> Content]
    BY <1>1, CurFrameTyped DEF Owned, TypeOK, At
<1>3. CASE ~Shared(heap, h.id)
    BY <1>1, <1>2, <1>3 DEF MakeMut
<1>4. CASE Shared(heap, h.id)
  <2>1. PICK i \in Fresh(heap) :
          heap' = Alloc(heap, f, i, NodeHandle(i, h.ann, h.hash), heap[h.id])
      BY <1>1, <1>2, <1>4 DEF MakeMut
  <2>2. i \in Id /\ i # f[1]
      BY <1>2, FreshNotBorrowed
  <2>3. /\ h.id \in Id /\ h.id \in Holder /\ h.ann \in Ann
        /\ h.hash \in Digest \cup {NoHash}
      BY <1>1, <1>2, NodeFrame
  <2>4. PICK m, c : m = NodeHandle(i, h.ann, h.hash) /\ c = heap[h.id]
      OBVIOUS
  <2>5. m \in Handle /\ c \in Content /\ heap' = Alloc(heap, f, i, m, c)
      BY <1>2, <2>1, <2>2, <2>3, <2>4, Constructors
  <2>6. n \in Holder /\ n # i /\ n # f[1]
      BY <1>2, NotApart DEF Apart
  <2> QED BY <1>2, <2>2, <2>5, <2>6, NodeOps
<1> QED BY <1>3, <1>4

\* No step of a mutating call writes another node.
LEMMA MutateApart ==
  ASSUME Owned, TypeOK', NEW r \in Tree, Mutate(r), NEW n \in Apart(r)
  PROVE  heap'[n] = heap[n]
<1>0. /\ heap \in [Holder -> Content] /\ n \in Holder /\ n # cur[r]
      /\ \A s \in Slot : <<cur[r], s>> \in Frame /\ <<cur[r], s>>[1] = cur[r]
      /\ \A f \in CurFrame(r) : f \in Frame /\ f[1] # n
    BY CurFrameTyped, NotApart DEF Owned, TypeOK, Apart
<1>1. \A s \in Slot, h \in Handle : Replace(heap, <<cur[r], s>>, h)[n] = heap[n]
    BY <1>0, NodeOps
<1>2. \A f \in CurFrame(r), h \in Handle : Replace(heap, f, h)[n] = heap[n]
    BY <1>0, NodeOps
<1>3. \A i \in Fresh(heap), s \in Slot, h \in Handle, c \in Content :
        Alloc(heap, <<cur[r], s>>, i, h, c)[n] = heap[n]
  <2>1. \A i \in Fresh(heap) : i \in Id /\ i # cur[r] /\ i # n
      BY FreshNotBorrowed DEF Apart
  <2> QED BY <1>0, <2>1, NodeOps
<1>4. CASE UNCHANGED heap
    BY <1>4
<1>5. ASSUME NEW s \in Slot, InnerMutNode(r, s)
      PROVE  heap'[n] = heap[n]
    BY <1>5, MakeMutApart DEF InnerMutNode
<1>6. ASSUME NEW s \in Slot, InnerMutRestore(r, s)
      PROVE  heap'[n] = heap[n]
  <2>1. PICK h : h = heap[cur[r]][s]
      OBVIOUS
  <2>2. h \in Handle /\ InStore(h) /\ h.hash \in DOMAIN store[h.store]
      BY <1>6, <2>1, CurFrameTyped DEF Owned, InnerMutRestore, Contains
  <2>3. h.store \in Store /\ h.hash \in Digest /\ h.ann \in Ann
      BY <2>2, HandleKinds DEF HasNode, InStore, None
  <2>4. store[h.store][h.hash] \in Blob
      BY <2>2, <2>3 DEF Owned, TypeOK, IsContentMap
  <2>5. PICK i \in Fresh(heap) :
          heap' = Alloc(heap, <<cur[r], s>>, i, NodeHandle(i, h.ann, NoHash),
                        Decode(h.store, store[h.store][h.hash]))
      BY <1>6, <2>1 DEF InnerMutRestore
  <2>6. NodeHandle(i, h.ann, NoHash) \in Handle
      BY <2>3, Constructors DEF Fresh
  <2>7. Decode(h.store, store[h.store][h.hash]) \in Content
      BY <2>3, <2>4, DecodeTyped
  <2> QED BY <1>3, <2>5, <2>6, <2>7
<1>7. ASSUME NEW s \in Slot, NEW l \in Leaf, PutLeaf(r, s, l)
      PROVE  heap'[n] = heap[n]
    BY <1>1, <1>7, Constructors DEF PutLeaf
<1>8. ASSUME NEW s \in Slot, InnerMutFails(r, s) \/ RemoveLeaf(r, s)
      PROVE  heap'[n] = heap[n]
    BY <1>1, <1>8, Constructors DEF InnerMutFails, RemoveLeaf
<1>9. ASSUME NEW s \in Slot, NEW t \in Slot, NEW u \in Slot, NEW l \in Leaf,
             Split(r, s, t, u, l)
      PROVE  heap'[n] = heap[n]
  <2>1. PICK i \in Fresh(heap), h \in Handle, c \in Content :
          heap' = Alloc(heap, <<cur[r], s>>, i, h, c)
      BY <1>9, SplitHeap
  <2> QED BY <1>3, <2>1
<1>10. ASSUME NEW s \in Slot, Collapse(r, s)
       PROVE  heap'[n] = heap[n]
  <2>1. PICK f \in CurFrame(r) :
          heap' = Release(Replace(heap, f, heap[cur[r]][s]), cur[r])
      BY <1>10 DEF Collapse
  <2>2. heap[cur[r]][s] \in Handle /\ f \in Frame /\ cur[r] \in Id
      BY CurFrameTyped DEF Owned
  <2>3. PICK p : p = Replace(heap, f, heap[cur[r]][s])
      OBVIOUS
  <2>4. p \in [Holder -> Content] /\ p[n] = heap[n]
      BY <1>0, <1>2, <2>2, <2>3, HeapOps
  <2> QED BY <1>0, <2>1, <2>2, <2>3, <2>4, NodeOps
<1>11. CASE DropHandleMut(r)
  <2> DEFINE h(f) == NodeHandle(At(heap, f).id,
                                IF NodeAnn(heap[cur[r]]) = NoAnn THEN At(heap, f).ann
                                ELSE NodeAnn(heap[cur[r]]), NoHash)
  <2>1. PICK f \in CurFrame(r) : heap' = Replace(heap, f, h(f))
      BY <1>11 DEF DropHandleMut
  <2>2. h(f) \in Handle
      BY <2>1, HandleWritten
  <2> HIDE DEF h
  <2> QED BY <1>2, <2>1, <2>2
<1> QED BY <1>4, <1>5, <1>6, <1>7, <1>8, <1>9, <1>10, <1>11
        DEF Mutate, BeginMutate, EndMutate

\* A mutating call changes no variable but its own, and no snapshot.
LEMMA MutateReads ==
  ASSUME Typed, Injective, NEW st, Store = {st}, Resolved(st), NEW r \in Tree,
         Scheduled(r), Mutate(r)
  PROVE  /\ \A q \in Tree : q # r => TreeValue(q)' = TreeValue(q)
         /\ \A snap \in snaps : SnapValue(snap)' = SnapValue(snap)
<1>1. [Next]_vars
    BY DEF Next
<1>2. Owned /\ TypeOK'
    BY <1>1, NextTyped DEF Resolved, Coherent, Owned
<1>3. PICK Q : Q = {<<n, n>> : n \in Apart(r)}
    OBVIOUS
<1>4. ASSUME NEW n \in Apart(r), NEW s \in Slot
      PROVE  Paired(Q, heap, store, heap', store', heap[n][s], heap'[n][s])
  <2>1. n \in Holder
      BY DEF Apart
  <2>2. HasNode(heap[n][s]) => <<heap[n][s].id, heap[n][s].id>> \in Q
      BY <1>2, <1>3, ApartIsClosed
  <2>3. heap'[n][s] = heap[n][s]
      BY <1>2, MutateApart
  <2> QED BY <2>1, <2>2, <2>3, OwnPair
<1>5. Pairing(Q, heap, store, heap', store')
  <2>1. Apart(r) \in SUBSET Holder
      BY DEF Apart
  <2> QED BY <1>3, <1>4, <2>1, OwnPairing
<1>6. \A q \in Tree : q # r => <<q, q>> \in Q
    BY <1>2, <1>3, NotApart
<1> QED BY <1>1, <1>5, <1>6, StepReads

-----------------------------------------------------------------------------
(***************************************************************************)
(* root_hash and persist: they write nodes, but each reads as before.      *)
(***************************************************************************)

\* What no step of theirs changes.
ReadsTheSame ==
  /\ \A q \in Tree : TreeValue(q)' = TreeValue(q)
  /\ \A snap \in snaps : SnapValue(snap)' = SnapValue(snap)

\* A step that leaves nodes and stores alone leaves all values.
LEMMA SameReads ==
  ASSUME UNCHANGED <<heap, store>>
  PROVE  ReadsTheSame
BY DEF ReadsTheSame, TreeValue, SnapValue, ValueOf

\* A clone of a node reads like the node.
LEMMA MakeMutReads ==
  ASSUME Typed, Injective, NEW st, Store = {st}, Resolved(st), Next, NEW r \in Tree,
         NEW s \in Slot, HasNode(heap[cur[r]][s]), heap' \in MakeMut(heap, <<cur[r], s>>),
         UNCHANGED store
  PROVE  ReadsTheSame
<1>1. PICK f, h : f = <<cur[r], s>> /\ h = heap[cur[r]][s]
    OBVIOUS
<1>2. /\ Owned /\ heap \in [Holder -> Content] /\ f \in Frame /\ f[1] = cur[r]
      /\ At(heap, f) = h /\ cur[r] \in Holder
    BY <1>1, CurFrameTyped DEF Resolved, Coherent, Owned, TypeOK, At
<1>3. CASE ~Shared(heap, h.id)
  <2>1. UNCHANGED heap
      BY <1>1, <1>2, <1>3 DEF MakeMut
  <2> QED BY <2>1, SameReads
<1>4. CASE Shared(heap, h.id)
  <2>1. PICK i \in Fresh(heap) :
          heap' = Alloc(heap, f, i, NodeHandle(i, h.ann, h.hash), heap[h.id])
      BY <1>1, <1>2, <1>4 DEF MakeMut
  <2>2. i \in Id /\ i \in Holder /\ i # f[1]
      BY <1>2, FreshNotBorrowed DEF Holder
  <2>3. /\ h.id \in Id /\ h.id \in Holder /\ h.ann \in Ann
        /\ h.hash \in Digest \cup {NoHash}
      BY <1>1, <1>2, NodeFrame
  <2>4. PICK m, c : m = NodeHandle(i, h.ann, h.hash) /\ c = heap[h.id]
      OBVIOUS
  <2>5. /\ m \in Handle /\ HasNode(m) /\ m.id = i /\ c \in Content
        /\ heap' = Alloc(heap, f, i, m, c)
      BY <1>2, <2>1, <2>2, <2>3, <2>4, Constructors DEF NodeHandle, HasNode
  <2>6. PICK Q : Q = {<<n, n>> : n \in Holder \ Fresh(heap)} \cup {<<h.id, i>>}
      OBVIOUS
  \* Nothing leads to the new node yet.
  <2>7. ASSUME NEW n \in Holder, NEW x \in Slot, HasNode(heap[n][x])
        PROVE  <<heap[n][x].id, heap[n][x].id>> \in Q
    BY <1>2, <2>6, <2>7, NodeBelow DEF Owned
  <2>8. /\ \A n \in Holder : n # f[1] => heap'[n] = IF n = i THEN c ELSE heap[n]
        /\ \A x \in Slot : heap'[f[1]][x] = IF x = f[2] THEN m ELSE heap[f[1]][x]
      BY <1>2, <2>2, <2>5, NodeOps
  <2>9. ASSUME NEW n \in Holder \ Fresh(heap), NEW x \in Slot
        PROVE  Paired(Q, heap, store, heap', store', heap[n][x], heap'[n][x])
    <3>1. CASE n = f[1] /\ x = f[2]
      <4>1. heap[n][x] = h /\ heap'[n][x] = m
          BY <1>1, <2>8, <3>1
      <4>2. HasNode(h) /\ HasNode(m) /\ <<h.id, m.id>> \in Q
          BY <1>1, <2>5, <2>6
      <4> QED BY <4>1, <4>2 DEF Paired
    <3>2. CASE ~(n = f[1] /\ x = f[2])
      <4>1. heap'[n][x] = heap[n][x]
          BY <2>1, <2>8, <3>2
      <4> QED BY <2>7, <4>1, OwnPair
    <3> QED BY <3>1, <3>2
  <2>10. ASSUME NEW x \in Slot
         PROVE  Paired(Q, heap, store, heap', store', heap[h.id][x], heap'[i][x])
    <3>1. heap'[i][x] = heap[h.id][x]
        BY <2>2, <2>4, <2>8
    <3> QED BY <2>3, <2>7, <3>1, OwnPair
  <2>11. Pairing(Q, heap, store, heap', store')
    <3>1. Q \in SUBSET (Holder \X Holder)
        BY <2>2, <2>3, <2>6
    <3>2. ASSUME NEW k, NEW n, <<k, n>> \in Q, NEW x \in Slot
          PROVE  Paired(Q, heap, store, heap', store', heap[k][x], heap'[n][x])
      <4>1. (k = n /\ n \in Holder \ Fresh(heap)) \/ (k = h.id /\ n = i)
          BY <2>6, <3>2
      <4> QED BY <2>9, <2>10, <4>1
    <3> QED BY <3>1, <3>2, Zenon DEF Pairing
  <2>12. \A q \in Tree : <<q, q>> \in Q
    <3>1. \A q \in Tree : q \in Holder /\ q \notin Fresh(heap)
        BY ConstantsOK DEF ConstantsOK, Holder, Fresh
    <3> QED BY <2>6, <3>1
  <2> QED BY <2>11, <2>12, StepReads DEF ReadsTheSame
<1> QED BY <1>3, <1>4

\* A cached hash is not read.
LEMMA HashUpReads ==
  ASSUME Typed, Injective, NEW st, Store = {st}, Resolved(st), Next, NEW r \in Tree,
         HashUp(r)
  PROVE  ReadsTheSame
<1>1. Owned /\ TypeOK' /\ heap \in [Holder -> Content]
    BY NextTyped DEF Resolved, Coherent, Owned, TypeOK
<1>2. PICK f \in CurFrame(r) :
        heap' = Replace(heap, f, NodeHandle(At(heap, f).id, At(heap, f).ann,
                                            Hash(Encode(heap[cur[r]]))))
    BY DEF HashUp
<1>3. PICK h, k : h = At(heap, f) /\ k = NodeHandle(h.id, h.ann, Hash(Encode(heap[cur[r]])))
    OBVIOUS
<1>4. /\ f \in Frame /\ f = <<f[1], f[2]>> /\ f[1] \in Holder /\ f[2] \in Slot
      /\ HasNode(h) /\ h = heap[f[1]][f[2]]
      /\ k \in Handle /\ HasNode(k) /\ k.id = h.id
    BY <1>1, <1>2, <1>3, CurFrameTyped, HandleWritten DEF Owned, Frame, NodeHandle, HasNode, At
<1>5. /\ \A n \in Holder : n # f[1] => heap'[n] = heap[n]
      /\ \A s \in Slot : heap'[f[1]][s] = IF s = f[2] THEN k ELSE heap[f[1]][s]
  <2>1. heap' = Replace(heap, f, k)
      BY <1>2, <1>3
  <2> QED BY <1>1, <1>4, <2>1, NodeOps
<1>6. PICK Q : Q = {<<n, n>> : n \in Holder}
    OBVIOUS
<1>7. ASSUME NEW n \in Holder, NEW s \in Slot, HasNode(heap[n][s])
      PROVE  <<heap[n][s].id, heap[n][s].id>> \in Q
    BY <1>1, <1>6, <1>7, NodeBelow DEF Owned
<1>8. ASSUME NEW n \in Holder, NEW s \in Slot
      PROVE  Paired(Q, heap, store, heap', store', heap[n][s], heap'[n][s])
  <2>1. CASE n = f[1] /\ s = f[2]
    <3>1. heap[n][s] = h /\ heap'[n][s] = k
        BY <1>4, <1>5, <2>1
    <3>2. <<h.id, k.id>> \in Q
        BY <1>4, <1>7
    <3> QED BY <1>4, <3>1, <3>2 DEF Paired
  <2>2. CASE ~(n = f[1] /\ s = f[2])
    <3>1. heap'[n][s] = heap[n][s]
        BY <1>5, <2>2
    <3> QED BY <1>7, <3>1, OwnPair
  <2> QED BY <2>1, <2>2
<1>9. Pairing(Q, heap, store, heap', store')
    BY <1>6, <1>8, OwnPairing
<1>10. \A q \in Tree : <<q, q>> \in Q
    BY <1>6 DEF Holder
<1> QED BY <1>9, <1>10, StepReads DEF ReadsTheSame

\* A node that is ready to be written reads like what is written.
LEMMA WrittenReads ==
  ASSUME NEW st, Store = {st}, Resolved(st), NEW r \in Tree, Written(r),
         Encode(heap[cur[r]]) \in Blob
  PROVE  AsWritten(store, heap[cur[r]], Decode(st, Encode(heap[cur[r]])))
<1>1. PICK c, e : c = heap[cur[r]] /\ e = Decode(st, Encode(heap[cur[r]]))
    OBVIOUS
<1>2. /\ c \in Content /\ e \in Content /\ cur[r] \in Holder
      /\ \A s \in Slot : ~HasNode(c[s]) /\ c[s] \in Handle
    BY <1>1, DecodeTyped, CurFrameTyped DEF Written, Resolved, Coherent, Owned, TypeOK
<1>3. ASSUME NEW s \in Slot
      PROVE  Same(store, c[s], e[s])
  <2>1. Same(store, c[s], c[s])
      BY <1>1, <1>2, SameInStore
  <2>2. e[s] = DecodeEntry(st, EncodeHandle(c[s]))
      BY <1>1 DEF Encode, Decode
  <2>3. CASE InStore(c[s])
    <3>1. e[s] = Persisted(st, c[s].hash, c[s].ann)
        BY <2>2, <2>3 DEF EncodeHandle, DecodeEntry, Hashed
    <3>2. ~HasNode(e[s]) /\ InStore(e[s]) /\ e[s].store = st /\ e[s].hash = c[s].hash
        BY <3>1 DEF Persisted, HasNode, InStore
    <3> QED BY <2>1, <2>3, <3>2 DEF Same
  <2>4. CASE ~InStore(c[s])
    <3>1. EncodeHandle(c[s]) = c[s]
        BY <1>2, <2>4 DEF EncodeHandle
    <3>2. c[s].tag # "Hashed"
        BY <1>2 DEF Handle, None
    <3>3. e[s] = c[s]
        BY <2>2, <3>1, <3>2 DEF DecodeEntry
    <3> QED BY <2>1, <3>3
  <2> QED BY <2>3, <2>4
<1> QED BY <1>1, <1>2, <1>3 DEF AsWritten

\* Whatever put does with bytes that are there already: after it, the store has
\* the node that was put.
LEMMA PutIsThere ==
  ASSUME Injective, Coherent, NEW st \in Store, NEW b \in Blob, Put(st, Hash(b), b)
  PROVE  Hash(b) \in DOMAIN store'[st] /\ store'[st][Hash(b)] = b
<1>1. PICK d : d = Hash(b)
    OBVIOUS
<1>2. /\ d \in DOMAIN store'[st]
      /\ \/ d \in DOMAIN store[st] /\ store'[st][d] = store[st][d]
         \/ store'[st][d] = b
    BY <1>1, PutStores
<1>3. d \in DOMAIN store[st] => store[st][d] = b
    BY <1>1 DEF Injective, Coherent, StoreSound, Owned, TypeOK, IsContentMap
<1> QED BY <1>1, <1>2, <1>3

\* The node that is put reads from the store as it did in memory.
LEMMA PersistUpReads ==
  ASSUME Typed, Injective, NEW st, Store = {st}, Resolved(st), Next, NEW r \in Tree,
         PersistUp(r)
  PROVE  ReadsTheSame
<1>1. /\ Coherent /\ Owned /\ TypeOK /\ TypeOK' /\ dest[r] = st /\ Written(r)
      /\ heap \in [Holder -> Content]
    BY NextTyped DEF Resolved, Coherent, Owned, TypeOK, PersistUp
<1>2. PICK b : b = Encode(heap[cur[r]])
    OBVIOUS
<1>3. PICK f \in CurFrame(r), h \in Handle :
        /\ h = Persisted(dest[r], Hash(b), At(heap, f).ann)
        /\ heap' = Release(Replace(heap, f, h), cur[r])
        /\ Put(dest[r], Hash(b), b) /\ b \in Blob
    BY <1>1, <1>2, PersistedFrame
<1>4. /\ f \in Frame /\ f = <<f[1], f[2]>> /\ f \in open[r] /\ cur[r] \in Holder
      /\ HasNode(At(heap, f)) /\ At(heap, f).id = cur[r] /\ At(heap, f) = heap[f[1]][f[2]]
    BY <1>1, CurFrameTyped DEF Frame, At
<1>5. /\ ~HasNode(h) /\ InStore(h) /\ h.store = st /\ h.hash = Hash(b)
    BY <1>1, <1>3 DEF Persisted, HasNode, InStore
<1>6. Hash(b) \in DOMAIN store'[st] /\ store'[st][Hash(b)] = b
    BY <1>1, <1>3, PutIsThere
<1>7. /\ \A n \in Holder : n = f[1] \/ n = cur[r] \/ heap'[n] = heap[n]
      /\ \A s \in Slot : heap'[f[1]][s] = IF s = f[2] THEN h ELSE heap[f[1]][s]
    BY <1>1, <1>3, LeftHeap
<1>8. PICK Q : Q = {<<n, n>> : n \in Holder \ {cur[r]}}
    OBVIOUS
<1>9. ASSUME NEW n \in Holder \ {cur[r]}, NEW s \in Slot
      PROVE  Paired(Q, heap, store, heap', store', heap[n][s], heap'[n][s])
  <2>1. CASE n = f[1] /\ s = f[2]
    <3>1. heap[n][s] = At(heap, f) /\ heap'[n][s] = h
        BY <1>4, <1>7, <2>1
    <3>2. Leads(store', h) /\ Behind(heap', store', h) = Decode(st, b)
        BY <1>5, <1>6 DEF Leads, Behind
    <3>3. AsWritten(store, heap[cur[r]], Decode(st, b))
        BY <1>1, <1>2, <1>3, WrittenReads
    <3> QED BY <1>4, <1>5, <3>1, <3>2, <3>3 DEF Paired
  <2>2. CASE ~(n = f[1] /\ s = f[2])
    <3>1. heap'[n][s] = heap[n][s]
        BY <1>7, <2>2
    <3>2. HasNode(heap[n][s]) => <<heap[n][s].id, heap[n][s].id>> \in Q
      <4> SUFFICES ASSUME HasNode(heap[n][s])
                   PROVE  heap[n][s].id \in Holder /\ heap[n][s].id # cur[r]
          BY <1>8
      <4>1. PICK g, i : g = <<n, s>> /\ i = heap[n][s].id
          OBVIOUS
      <4>2. g \in Frame /\ RefersTo(heap, g, i) /\ i \in Holder
          BY <1>1, <4>1, NodeBelow
      <4>3. i = cur[r] => g = f
          BY <1>1, <1>4, <4>2, OpenFrames, OnlyReference
      <4> QED BY <1>4, <2>2, <4>1, <4>2, <4>3
    <3> QED BY <3>1, <3>2, OwnPair
  <2> QED BY <2>1, <2>2
<1>10. Pairing(Q, heap, store, heap', store')
    BY <1>8, <1>9, OwnPairing
<1>11. \A q \in Tree : <<q, q>> \in Q
  <2>1. \A q \in Tree : q \in Holder /\ q # cur[r]
      BY <1>1, CurFrameTyped, ConstantsOK DEF ConstantsOK, Holder
  <2> QED BY <1>8, <2>1
<1> QED BY <1>10, <1>11, StepReads DEF ReadsTheSame

\* The snapshot that persist returns has the value of the tree.
LEMMA PersistDoneReads ==
  ASSUME Typed, Injective, NEW st, Store = {st}, Resolved(st), Next, NEW r \in Tree,
         PersistDone(r)
  PROVE  /\ ReadsTheSame
         /\ \E d : /\ snaps' = snaps \cup {<<st, d>>}
                   /\ SnapValue(<<st, d>>)' = TreeValue(r)
<1>1. /\ Coherent /\ Owned /\ TypeOK /\ dest[r] = st /\ Written(r) /\ cur[r] = r
      /\ heap \in [Holder -> Content] /\ r \in Holder
    BY DEF Resolved, Coherent, Owned, TypeOK, PersistDone, AtRoot, Holder
<1>2. PICK b : b = Encode(heap[r])
    OBVIOUS
<1>3. /\ Put(st, Hash(b), b) /\ snaps' = snaps \cup {<<st, Hash(b)>>} /\ UNCHANGED heap
    BY <1>1, <1>2 DEF PersistDone
<1>4. b \in Blob
    BY <1>1, <1>2, EncodeTyped DEF Written, IsHashed
<1>5. Hash(b) \in DOMAIN store'[st] /\ store'[st][Hash(b)] = b
    BY <1>1, <1>3, <1>4, PutIsThere
<1>6. PICK Q : Q = {<<n, n>> : n \in Holder}
    OBVIOUS
<1>7. ASSUME NEW n \in Holder, NEW s \in Slot
      PROVE  Paired(Q, heap, store, heap', store', heap[n][s], heap'[n][s])
  <2>1. HasNode(heap[n][s]) => <<heap[n][s].id, heap[n][s].id>> \in Q
      BY <1>1, <1>6, NodeBelow
  <2> QED BY <1>3, <2>1, OwnPair
<1>8. Pairing(Q, heap, store, heap', store')
    BY <1>6, <1>7, OwnPairing
<1>9. ReadsTheSame
  <2>1. \A q \in Tree : <<q, q>> \in Q
      BY <1>6 DEF Holder
  <2> QED BY <1>8, <2>1, StepReads DEF ReadsTheSame
<1>10. SnapValue(<<st, Hash(b)>>)' = TreeValue(r)
  <2>1. PICK c, e : c = heap[r] /\ e = Decode(st, b)
      OBVIOUS
  <2>2. AsWritten(store, c, e)
      BY <1>1, <1>2, <1>4, <2>1, WrittenReads
  <2>3. ValueOf(e)' = ValueOf(c)
      BY <1>8, <2>2, StepReads
  <2> QED BY <1>5, <2>1, <2>3 DEF SnapValue, TreeValue
<1> QED BY <1>3, <1>9, <1>10

-----------------------------------------------------------------------------
(***************************************************************************)
(* Restore and clone.                                                      *)
(***************************************************************************)

\* What a node in use leads to is in use.
LEMMA LiveBelow ==
  ASSUME NEW hp \in [Holder -> Content], NEW n \in Tree \cup Live(hp), NEW s \in Slot,
         HasNode(hp[n][s])
  PROVE  hp[n][s].id \in Live(hp)
<1>1. PICK f, i : f = <<n, s>> /\ i = hp[n][s].id
    OBVIOUS
<1>2. n \in Holder
    BY DEF Live, Holder
<1>3. f \in Frame /\ f[1] = n /\ At(hp, f) = hp[n][s]
    BY <1>1, <1>2 DEF Frame, At
<1>4. i \in Id
    BY <1>1, <1>3, NodeFrame
<1>5. ASSUME NEW K \in SUBSET Id, Closed(hp, K)
      PROVE  i \in K
  <2>1. n \in Tree \cup K
      BY <1>5 DEF Live
  <2> QED BY <1>1, <1>3, <1>5, <2>1 DEF Closed
<1> QED BY <1>1, <1>4, <1>5 DEF Live

\* A variable gets another tree: the others keep theirs, and it reads like any
\* other variable that has this tree.
LEMMA ReplaceTreeReads ==
  ASSUME Typed, Injective, NEW st, Store = {st}, Resolved(st), Next, NEW r \in Tree,
         NEW c \in Content, heap' = Collect([heap EXCEPT ![r] = c]), UNCHANGED store
  PROVE  /\ \A q \in Tree : q # r => TreeValue(q)' = TreeValue(q)
         /\ \A snap \in snaps : SnapValue(snap)' = SnapValue(snap)
         /\ heap'[r] = c
         /\ \A p \in Tree : p # r /\ heap[p] = c => TreeValue(r)' = TreeValue(p)
         /\ AsWritten(store, c, c) => TreeValue(r)' = ValueOf(c)
<1>1. TypeOK /\ heap \in [Holder -> Content] /\ r \in Holder
    BY DEF Resolved, Coherent, Owned, TypeOK, Holder
<1>2. PICK hp : hp = [heap EXCEPT ![r] = c]
    OBVIOUS
<1>3. /\ hp \in [Holder -> Content] /\ hp[r] = c
      /\ \A n \in Holder : n # r => hp[n] = heap[n]
    BY <1>1, <1>2
<1>4. PICK L : L = Live(hp)
    OBVIOUS
<1>5. L \subseteq Id /\ \A n \in L : n \in Holder /\ n # r
    BY <1>4, ConstantsOK DEF Live, Holder, ConstantsOK
<1>6. \A n \in Tree \cup L : heap'[n] = hp[n]
  <2>1. \A n \in Tree \cup L : n \in Holder
      BY <1>5 DEF Holder
  <2> QED BY <1>2, <1>3, <1>4, <2>1, NodeOps
<1>7. PICK Q : Q = {<<n, n>> : n \in (Tree \ {r}) \cup L}
                     \cup {<<p, r>> : p \in {q \in Tree \ {r} : heap[q] = c}}
    OBVIOUS
<1>8. ASSUME NEW n \in Holder, n \in (Tree \ {r}) \cup L, NEW m, heap'[m] = heap[n],
             NEW s \in Slot
      PROVE  Paired(Q, heap, store, heap', store', heap[n][s], heap'[m][s])
  <2>1. HasNode(heap[n][s]) => <<heap[n][s].id, heap[n][s].id>> \in Q
    <3>1. hp[n] = heap[n]
        BY <1>3, <1>5, <1>8
    <3>2. n \in Tree \cup Live(hp)
        BY <1>4, <1>8
    <3>3. HasNode(heap[n][s]) => heap[n][s].id \in L
        BY <1>3, <1>4, <3>1, <3>2, LiveBelow
    <3> QED BY <1>7, <3>3
  <2> QED BY <1>8, <2>1, OwnPair
<1>9. \A n \in (Tree \ {r}) \cup L : n \in Holder /\ heap'[n] = heap[n]
    BY <1>3, <1>5, <1>6 DEF Holder
<1>10. ASSUME NEW m, NEW n, <<m, n>> \in Q
       PROVE  m \in Holder /\ n \in Holder /\ m \in (Tree \ {r}) \cup L /\ heap'[n] = heap[m]
  <2>1. CASE m = n /\ n \in (Tree \ {r}) \cup L
      BY <1>9, <2>1
  <2>2. CASE n = r /\ m \in Tree \ {r} /\ heap[m] = c
      BY <1>1, <1>3, <1>6, <2>2 DEF Holder
  <2> QED BY <1>7, <1>10, <2>1, <2>2
<1>11. Pairing(Q, heap, store, heap', store')
  <2>1. Q \in SUBSET (Holder \X Holder)
      BY <1>1, <1>7, <1>9
  <2>2. ASSUME NEW m, NEW n, <<m, n>> \in Q, NEW s \in Slot
        PROVE  Paired(Q, heap, store, heap', store', heap[m][s], heap'[n][s])
      BY <1>8, <1>10, <2>2
  <2> QED BY <2>1, <2>2, Zenon DEF Pairing
<1>12. /\ \A q, p \in Tree : <<q, p>> \in Q => TreeValue(p)' = TreeValue(q)
       /\ \A snap \in snaps : SnapValue(snap)' = SnapValue(snap)
       /\ AsWritten(store, c, c) => ValueOf(c)' = ValueOf(c)
    BY <1>11, StepReads
<1>13. heap'[r] = c
    BY <1>3, <1>6
<1>14. AsWritten(store, c, c) => TreeValue(r)' = ValueOf(c)
    BY <1>12, <1>13 DEF TreeValue
<1>15. \A q \in Tree : q # r => <<q, q>> \in Q
    BY <1>7
<1>16. \A p \in Tree : p # r /\ heap[p] = c => <<p, r>> \in Q
    BY <1>7
<1> QED BY <1>12, <1>13, <1>14, <1>15, <1>16

\* The variable gets the value of the snapshot.
LEMMA RestoreReads ==
  ASSUME Typed, Injective, NEW st, Store = {st}, Resolved(st), Next, NEW r \in Tree,
         NEW snap \in snaps, Restore(r, snap[1], snap[2])
  PROVE  /\ \A q \in Tree : q # r => TreeValue(q)' = TreeValue(q)
         /\ \A k \in snaps : SnapValue(k)' = SnapValue(k)
         /\ TreeValue(r)' = SnapValue(snap)
<1>1. PICK c : c = Decode(snap[1], store[snap[1]][snap[2]])
    OBVIOUS
<1>2. /\ snap[1] \in Store /\ snap[2] \in DOMAIN store[snap[1]]
      /\ WholeStores(store)
    BY SameInStore
<1>3. AsWritten(store, c, c) /\ c \in Content
    BY <1>1, <1>2 DEF WholeStores, AsWritten
<1>4. heap' = Collect([heap EXCEPT ![r] = c]) /\ UNCHANGED store
    BY <1>1 DEF Restore
<1> QED BY <1>1, <1>3, <1>4, ReplaceTreeReads DEF SnapValue

\* The clone gets the value of what it is a clone of.
LEMMA CloneReads ==
  ASSUME Typed, Injective, NEW st, Store = {st}, Resolved(st), Next, NEW r \in Tree,
         NEW q \in Tree, Clone(r, q)
  PROVE  /\ \A p \in Tree : p # q => TreeValue(p)' = TreeValue(p)
         /\ \A k \in snaps : SnapValue(k)' = SnapValue(k)
         /\ TreeValue(q)' = TreeValue(r)
<1>1. PICK c : c = heap[r]
    OBVIOUS
<1>2. c \in Content /\ q # r
    BY <1>1 DEF Resolved, Coherent, Owned, TypeOK, Holder, Clone
<1>3. heap' = Collect([heap EXCEPT ![q] = c]) /\ UNCHANGED store
    BY <1>1 DEF Clone
<1> QED BY <1>1, <1>2, <1>3, ReplaceTreeReads

-----------------------------------------------------------------------------
(***************************************************************************)
(* The simulation.                                                         *)
(***************************************************************************)

\* The variables of VersionedTrees.
ValueMap == [r \in Tree |-> TreeValue(r)]
SavedMap == [snap \in snaps |-> SnapValue(snap)]
Busy     == {r \in Tree : Mutating(r) \/ op[r] = "abort"}

\* The initial states are initial states of VersionedTrees.
LEMMA ValuesInit == Init => Values!Init
BY DEF Init, Values!Init, Mutating

\* The saved values, if no snapshot is added and each reads as before.
LEMMA SavedSame ==
  ASSUME UNCHANGED snaps, \A snap \in snaps : SnapValue(snap)' = SnapValue(snap)
  PROVE  UNCHANGED SavedMap
BY DEF SavedMap

\* A step that changes nothing that is read, and neither begins nor ends a
\* mutating call, stutters.
LEMMA StutterStep ==
  ASSUME ReadsTheSame, UNCHANGED <<snaps, Busy>>
  PROVE  UNCHANGED Values!vars
<1>1. UNCHANGED SavedMap
    BY SavedSame DEF ReadsTheSame
<1>2. UNCHANGED ValueMap
    BY DEF ReadsTheSame, ValueMap
<1> QED BY <1>1, <1>2 DEF Values!vars, ValueMap, SavedMap, Busy

\* A call that goes from one state to another, neither of them a mutating one.
LEMMA SameBusy ==
  ASSUME TypeOK, NEW r \in Tree, NEW o, op' = [op EXCEPT ![r] = o],
         op[r] \notin {"mutate", "abort"}, o \notin {"mutate", "abort"}
  PROVE  UNCHANGED Busy
<1>1. \A q \in Tree : op'[q] \in {"mutate", "abort"} <=> op[q] \in {"mutate", "abort"}
    BY DEF TypeOK
<1> QED BY <1>1 DEF Busy, Mutating

\* The steps of VersionedTrees, one lemma for each: a mutating call begins.
LEMMA BeginStep ==
  ASSUME TypeOK, NEW r \in Tree, BeginMutate(r)
  PROVE  Values!Next
<1>1. UNCHANGED <<heap, store, snaps>> /\ op' = [op EXCEPT ![r] = "mutate"] /\ op[r] = "idle"
    BY DEF BeginMutate, Idle
<1>2. UNCHANGED ValueMap /\ UNCHANGED SavedMap
    BY <1>1, SameReads, SavedSame DEF ReadsTheSame, ValueMap
<1>3. r \notin Busy /\ Busy' = Busy \cup {r}
    BY <1>1 DEF Busy, Mutating, TypeOK
<1>4. Values!Begin(r)
    BY <1>2, <1>3 DEF Values!Begin, ValueMap, SavedMap, Busy
<1> QED BY <1>4 DEF Values!Next

\* The other steps of a mutating call change its variable at most.
LEMMA ChangeStep ==
  ASSUME Typed, Injective, NEW st, Store = {st}, Resolved(st), NEW r \in Tree,
         Scheduled(r), Mutate(r), ~BeginMutate(r)
  PROVE  Values!Next
<1>1. TypeOK
    BY DEF Resolved, Coherent, Owned
<1>2. /\ \A q \in Tree \ {r} : TreeValue(q)' = TreeValue(q)
      /\ \A snap \in snaps : SnapValue(snap)' = SnapValue(snap)
    BY MutateReads
<1>3. /\ UNCHANGED snaps
      /\ op[r] \in {"mutate", "abort"}
      /\ \/ UNCHANGED op
         \/ op' = [op EXCEPT ![r] = "abort"]
         \/ op' = [op EXCEPT ![r] = "idle"]
    BY DEF Mutate, InnerMutNode, InnerMutRestore, InnerMutFails, PutLeaf, RemoveLeaf,
       Split, Collapse, DropHandleMut, EndMutate, Edit, Mutating
<1>4. r \in Busy /\ Busy' \in {Busy, Busy \ {r}}
  <2>1. r \in Busy
      BY <1>3 DEF Busy, Mutating
  <2>2. UNCHANGED op => Busy' = Busy
      BY DEF Busy, Mutating
  <2>3. op' = [op EXCEPT ![r] = "abort"] => Busy' = Busy
      BY <1>1, <1>3 DEF Busy, Mutating, TypeOK
  <2>4. op' = [op EXCEPT ![r] = "idle"] => Busy' = Busy \ {r}
      BY <1>1, <1>3 DEF Busy, Mutating, TypeOK
  <2>5. Busy' = Busy \/ Busy' = Busy \ {r}
      BY <1>3, <2>2, <2>3, <2>4
  <2> QED BY <2>1, <2>5
<1>5. UNCHANGED SavedMap
    BY <1>2, <1>3, SavedSame
<1>6. /\ DOMAIN ValueMap' = Tree
      /\ \A q \in Tree \ {r} : ValueMap'[q] = ValueMap[q]
    BY <1>2 DEF ValueMap
<1>7. Values!Change(r)
    BY <1>4, <1>5, <1>6 DEF Values!Change, ValueMap, SavedMap, Busy
<1> QED BY <1>7 DEF Values!Next

\* persist saves the value under its digest.
LEMMA SaveStep ==
  ASSUME Typed, Injective, NEW st, Store = {st}, Resolved(st), Next, NEW r \in Tree,
         PersistDone(r)
  PROVE  Values!Next
<1>1. op[r] = "persist" /\ op' = [op EXCEPT ![r] = "idle"] /\ TypeOK
    BY DEF Resolved, Coherent, Owned, PersistDone, Written, Persisting
<1>2. PICK d : /\ snaps' = snaps \cup {<<st, d>>}
               /\ SnapValue(<<st, d>>)' = TreeValue(r)
    BY PersistDoneReads
<1>3. PICK k : k = <<st, d>>
    OBVIOUS
<1>4. ReadsTheSame
    BY PersistDoneReads
<1>5. r \notin Busy /\ UNCHANGED Busy
    BY <1>1, SameBusy DEF Busy, Mutating, TypeOK
<1>6. UNCHANGED ValueMap
    BY <1>4 DEF ReadsTheSame, ValueMap
<1>7. /\ DOMAIN SavedMap = snaps /\ k \in DOMAIN SavedMap'
      /\ SavedMap' = [j \in snaps \cup {k} |-> IF j = k THEN ValueMap[r] ELSE SavedMap[j]]
      /\ k \in snaps => SavedMap[k] = ValueMap[r]
    BY <1>2, <1>3, <1>4 DEF ReadsTheSame, SavedMap, ValueMap
<1>8. Values!Save(r, k)
    BY <1>5, <1>6, <1>7 DEF Values!Save, ValueMap, SavedMap, Busy
<1> QED BY <1>7, <1>8 DEF Values!Next, SavedMap

\* A restored tree has the value of the snapshot.
LEMMA LoadStep ==
  ASSUME Typed, Injective, NEW st, Store = {st}, Resolved(st), Next, NEW r \in Tree,
         NEW snap \in snaps, Restore(r, snap[1], snap[2])
  PROVE  Values!Next
<1>1. UNCHANGED <<snaps, op>> /\ op[r] = "idle"
    BY DEF Restore, Idle
<1>2. /\ \A q \in Tree : q # r => TreeValue(q)' = TreeValue(q)
      /\ \A k \in snaps : SnapValue(k)' = SnapValue(k)
      /\ TreeValue(r)' = SnapValue(snap)
    BY RestoreReads
<1>3. r \notin Busy /\ UNCHANGED Busy
    BY <1>1 DEF Busy, Mutating
<1>4. UNCHANGED SavedMap
    BY <1>1, <1>2, SavedSame
<1>5. ValueMap' = [ValueMap EXCEPT ![r] = SavedMap[snap]] /\ snap \in DOMAIN SavedMap
    BY <1>2 DEF ValueMap, SavedMap
<1>6. Values!Load(r, snap)
    BY <1>3, <1>4, <1>5 DEF Values!Load, ValueMap, SavedMap, Busy
<1> QED BY <1>5, <1>6 DEF Values!Next, SavedMap

\* A clone has the value of the tree.
LEMMA CopyStep ==
  ASSUME Typed, Injective, NEW st, Store = {st}, Resolved(st), Next, NEW r \in Tree,
         NEW q \in Tree, Clone(r, q)
  PROVE  Values!Next
<1>1. UNCHANGED <<snaps, op>> /\ op[r] = "idle" /\ op[q] = "idle"
    BY DEF Clone, Idle
<1>2. /\ \A p \in Tree : p # q => TreeValue(p)' = TreeValue(p)
      /\ \A k \in snaps : SnapValue(k)' = SnapValue(k)
      /\ TreeValue(q)' = TreeValue(r)
    BY CloneReads
<1>3. {q, r} \cap Busy = {} /\ UNCHANGED Busy
    BY <1>1 DEF Busy, Mutating
<1>4. UNCHANGED SavedMap
    BY <1>1, <1>2, SavedSame
<1>5. ValueMap' = [ValueMap EXCEPT ![q] = ValueMap[r]]
    BY <1>2 DEF ValueMap
<1>6. Values!Copy(r, q)
    BY <1>3, <1>4, <1>5 DEF Values!Copy, ValueMap, SavedMap, Busy
<1> QED BY <1>6 DEF Values!Next

\* Steps of root_hash and persist, but the last of persist, stutter.
LEMMA QuietStepReads ==
  ASSUME Typed, Injective, NEW st, Store = {st}, Resolved(st), Next, NEW r \in Tree,
         \/ HashStep(r) \/ (PersistStep(r) /\ ~PersistDone(r)) \/ BeginHash(r)
         \/ \E s \in Store : BeginPersist(r, s)
  PROVE  UNCHANGED Values!vars
<1>1. TypeOK
    BY DEF Resolved, Coherent, Owned
<1>2. /\ UNCHANGED snaps
      /\ op[r] \notin {"mutate", "abort"}
      /\ \/ UNCHANGED op
         \/ \E o \in {"idle", "hash", "persist"} : op' = [op EXCEPT ![r] = o]
    BY DEF HashStep, HashDown, HashUp, HashDone, PersistStep, PersistDown, PersistUp,
       PutFails, Written, BeginHash, BeginPersist, Hashing, Persisting, Idle
<1>3. UNCHANGED Busy
  <2>1. CASE UNCHANGED op
      BY <2>1 DEF Busy, Mutating
  <2>2. ASSUME NEW o \in {"idle", "hash", "persist"}, op' = [op EXCEPT ![r] = o]
        PROVE  UNCHANGED Busy
      BY <1>1, <1>2, <2>2, SameBusy
  <2> QED BY <1>2, <2>1, <2>2
<1>4. ReadsTheSame
  <2>1. CASE UNCHANGED <<heap, store>>
      BY <2>1, SameReads
  <2>2. ASSUME NEW s \in Slot, HashDown(r, s) \/ PersistDown(r, s)
        PROVE  ReadsTheSame
      BY <2>2, MakeMutReads DEF HashDown, PersistDown, IsHashed
  <2>3. CASE HashUp(r)
      BY <2>3, HashUpReads
  <2>4. CASE PersistUp(r)
      BY <2>4, PersistUpReads
  <2> QED BY <2>1, <2>2, <2>3, <2>4
          DEF HashStep, PersistStep, HashDone, PutFails, BeginHash, BeginPersist
<1> QED BY <1>2, <1>3, <1>4, StutterStep

\* Every step is a step of VersionedTrees or leaves its variables alone.
LEMMA ValuesNext ==
  ASSUME Typed, Injective, NEW st, Store = {st}, Resolved(st), [Next]_vars
  PROVE  Values!Next \/ UNCHANGED Values!vars
<1>1. CASE UNCHANGED vars
  <2>1. ReadsTheSame
      BY <1>1, SameReads DEF vars
  <2> QED BY <1>1, <2>1, StutterStep DEF vars, Busy, Mutating
<1>2. CASE Next
  <2>1. PICK r \in Tree :
          Scheduled(r) /\ (Mutate(r) \/ HashStep(r) \/ PersistStep(r) \/ Whole(r))
      BY <1>2 DEF Next
  <2>2. CASE Mutate(r)
    <3>1. TypeOK
        BY DEF Resolved, Coherent, Owned
    <3> QED BY <2>1, <2>2, <3>1, BeginStep, ChangeStep
  <2>3. CASE HashStep(r)
      BY <1>2, <2>3, QuietStepReads
  <2>4. CASE PersistStep(r)
      BY <1>2, <2>4, QuietStepReads, SaveStep
  <2>5. CASE Whole(r)
      BY <1>2, <2>5, QuietStepReads, LoadStep, CopyStep DEF Whole
  <2> QED BY <2>1, <2>2, <2>3, <2>4, <2>5
<1> QED BY <1>1, <1>2

\* Laziness, sharing, hashing, persisting and failing calls do not show: trees of
\* handles over one store behave as plain values, of which a mutation changes one, a
\* clone is a copy, and a snapshot is the value that was persisted, for ever.
THEOREM HandlesAreValues ==
  ASSUME Typed, Injective, NEW st, Store = {st}
  PROVE  Spec => ImplementsValues
<1>1. Init => Resolved(st)
    BY InitCoherent, InitComplete DEF Resolved
<1>2. Resolved(st) /\ [Next]_vars => Resolved(st)'
    BY NextCoherent, NextComplete DEF Resolved
<1>3. Resolved(st) /\ [Next]_vars => [Values!Next]_(Values!vars)
    BY ValuesNext
<1>4. Init => Values!Init
    BY ValuesInit
<1> QED BY <1>1, <1>2, <1>3, <1>4, PTL DEF Spec, Values!Spec, ImplementsValues
=============================================================================
