-------------------------- MODULE DiskStoreProofs --------------------------
(***************************************************************************)
(* Theorems about DiskStore, for any callers, any trees of nodes of any    *)
(* lengths, and any number of interrupted puts.                            *)
(***************************************************************************)
EXTENDS DiskStore, SequenceTheorems, TLAPS

-----------------------------------------------------------------------------
(***************************************************************************)
(* Bytes of nodes in the data file.                                        *)
(***************************************************************************)

\* Length[d] bytes, each with its position in the node.
LEMMA BytesOf ==
  ASSUME NEW d \in Digest
  PROVE  /\ Length[d] \in Nat \ {0}
         /\ Bytes(d) \in Seq(Byte)
         /\ Len(Bytes(d)) = Length[d]
         /\ \A k \in 1 .. Length[d] : Bytes(d)[k] = <<d, k>>
<1>1. Length[d] \in Nat \ {0}
  BY ConstantsOK DEF ConstantsOK
<1>2. \A k \in 1 .. Length[d] : <<d, k>> \in Byte
  BY <1>1 DEF Byte
<1>3. Bytes(d) \in [1 .. Length[d] -> Byte]
  BY <1>2 DEF Bytes
<1>4. Bytes(d) \in Seq(Byte) /\ Len(Bytes(d)) = Length[d]
  BY <1>1, <1>3
<1> QED
  BY <1>1, <1>4 DEF Bytes

\* The bytes an interrupted write leaves: the first n of them.
LEMMA PartOf ==
  ASSUME NEW d \in Digest, NEW n \in 0 .. Length[d]
  PROVE  /\ SubSeq(Bytes(d), 1, n) \in Seq(Byte)
         /\ Len(SubSeq(Bytes(d), 1, n)) = n
         /\ \A k \in 1 .. n : SubSeq(Bytes(d), 1, n)[k] = <<d, k>>
<1> DEFINE b == Bytes(d)
<1>1. /\ Length[d] \in Nat /\ b \in Seq(Byte) /\ Len(b) = Length[d]
      /\ \A k \in 1 .. Length[d] : b[k] = <<d, k>>
  BY BytesOf
<1> HIDE DEF b
<1>2. /\ n \in Nat /\ n <= Len(b)
      /\ 1 .. n \subseteq 1 .. Len(b)
  BY <1>1
<1>3. SubSeq(b, 1, n) = [k \in 1 .. n |-> b[k]]
  BY <1>1, <1>2
<1>4. \A k \in 1 .. n : b[k] \in Byte
  BY <1>1, <1>2, ElementOfSeq
<1>5. SubSeq(b, 1, n) \in Seq(Byte) /\ Len(SubSeq(b, 1, n)) = n
  BY <1>2, <1>3, <1>4
<1> QED
  BY <1>1, <1>2, <1>3, <1>5 DEF b

\* Reading Length[d] bytes behind position i gives the node d exactly if each of
\* them is the byte it should be.
LEMMA ReadsNode ==
  ASSUME NEW d \in Digest, NEW s \in Seq(Byte), NEW i \in Nat,
         i + Length[d] <= Len(s)
  PROVE  SubSeq(s, i + 1, i + Length[d]) = Bytes(d)
           <=> \A k \in 1 .. Length[d] : s[i + k] = <<d, k>>
<1> DEFINE l == Length[d]
           t == SubSeq(s, i + 1, i + l)
<1>1. l \in Nat \ {0} /\ Len(s) \in Nat
  BY BytesOf, LenProperties
<1>2. Bytes(d) = [k \in 1 .. l |-> <<d, k>>]
  BY DEF Bytes
<1> HIDE DEF l
<1>3. i + 1 \in 1 .. Len(s) + 1 /\ i + l \in i .. Len(s)
  BY <1>1 DEF l
<1>4. t = [k \in 1 .. l |-> s[i + k]]
  BY <1>1, <1>3
<1> QED
  BY <1>2, <1>4 DEF l

-----------------------------------------------------------------------------
(***************************************************************************)
(* The inductive invariant.                                                *)
(***************************************************************************)

\* The data file holds no byte of a node that is not in the index.
Addressed == \A n \in 1 .. Len(data) : data[n][1] \in DOMAIN index

\* data_offset is where the next byte goes.
AtEnd == Intact => offset = Len(data)

\* A put between its two writes: its node is the next one of its persist, and
\* the index sends readers to the end of the data file.
OnePut ==
  ~Unlocked =>
    /\ pc[writing[1]] = "put"
    /\ writing[2] \in todo[writing[1]]
    /\ (Below[writing[2]] \ {writing[2]}) \cap todo[writing[1]] = {}
    /\ Indexed(writing[2])
    /\ Intact => index[writing[2]] = Len(data)

\* A persist that is under way or failed: what of its tree is not in memory any
\* more can be read, and once it has returned this is all of the tree.
Working(c) == pc[c] # "idle"

Persisting ==
  \A c \in Caller : Working(c) =>
    /\ goal[c] \in Digest
    /\ todo[c] \subseteq Below[goal[c]]
    /\ pc[c] \in {"flush", "root"} => todo[c] = {}

Persisted ==
  Intact => \A c \in Caller : Working(c) =>
              \A d \in Below[goal[c]] \ todo[c] : Readable(d)

IInv ==
  /\ TypeOK
  /\ Addressed
  /\ AtEnd
  /\ OnePut
  /\ Persisting
  /\ Persisted
  /\ IndexSound
  /\ RootRestorable
  /\ HeldReadable

-----------------------------------------------------------------------------
(***************************************************************************)
(* What the steps do to the nodes that can be read.                        *)
(***************************************************************************)

\* Readable, byte by byte: for an index f and a data file s.
At(f, s, d) ==
  /\ d \in DOMAIN f
  /\ f[d] + Length[d] <= Len(s)
  /\ \A k \in 1 .. Length[d] : s[f[d] + k] = <<d, k>>

\* What TypeOK says of the index and the data file.
Stored(f, s) ==
  /\ DOMAIN f \subseteq Digest
  /\ f \in [DOMAIN f -> 0 .. Len(s)]
  /\ s \in Seq(Byte)

LEMMA ReadableAt ==
  ASSUME Stored(index, data), NEW d \in Digest
  PROVE  Readable(d) <=> At(index, data, d)
<1>1. ASSUME Indexed(d), End(d) <= Len(data)
      PROVE  SubSeq(data, index[d] + 1, End(d)) = Bytes(d)
               <=> \A k \in 1 .. Length[d] : data[index[d] + k] = <<d, k>>
  <2>1. data \in Seq(Byte) /\ index[d] \in Nat
    BY <1>1 DEF Stored, Indexed
  <2> QED
    BY <1>1, <2>1, ReadsNode DEF End
<1> QED
  BY <1>1 DEF Readable, At, Indexed, End

\* The same for the state after a step.
LEMMA ReadableAtNext ==
  ASSUME Stored(index', data'), NEW d \in Digest
  PROVE  Readable(d)' <=> At(index', data', d)
<1>1. ASSUME Indexed(d)', End(d)' <= Len(data')
      PROVE  SubSeq(data', index'[d] + 1, End(d)') = Bytes(d)
               <=> \A k \in 1 .. Length[d] : data'[index'[d] + k] = <<d, k>>
  <2>1. data' \in Seq(Byte) /\ index'[d] \in Nat
    BY <1>1 DEF Stored, Indexed
  <2> QED
    BY <1>1, <2>1, ReadsNode DEF End
<1> QED
  BY <1>1 DEF Readable, At, Indexed, End, Bytes

\* A step that leaves index and file alone changes nothing that can be read.
LEMMA SameReadable ==
  ASSUME UNCHANGED <<index, data>>
  PROVE  \A d : Readable(d)' <=> Readable(d)
BY DEF Readable, Indexed, End, Bytes

\* An insert in the index makes nothing readable yet, and hides nothing: no byte
\* of the new node is in the file.
LEMMA InsertedReadable ==
  ASSUME Stored(index, data), Addressed, offset \in 0 .. Len(data),
         NEW c \in Caller, NEW d \in Digest, IndexInsert(c, d)
  PROVE  /\ Stored(index', data')
         /\ DOMAIN index' = DOMAIN index \cup {d} /\ index'[d] = offset
         /\ \A e \in Digest : Readable(e)' <=> Readable(e)
<1>1. /\ d \notin DOMAIN index /\ data' = data
      /\ DOMAIN index' = DOMAIN index \cup {d}
      /\ index'[d] = offset
      /\ \A e \in DOMAIN index : index'[e] = index[e]
  BY DEF IndexInsert, Indexed
<1>2. Stored(index', data')
  BY <1>1 DEF Stored, IndexInsert
<1>3. Len(data) \in Nat /\ Length[d] \in Nat \ {0}
  BY LenProperties, BytesOf DEF Stored
<1>4. ~ At(index', data', d)
  <2> SUFFICES ASSUME At(index', data', d) PROVE FALSE
    OBVIOUS
  <2>1. offset + 1 \in 1 .. Len(data) /\ 1 \in 1 .. Length[d]
    BY <1>1, <1>3 DEF At
  <2>2. data[offset + 1] = <<d, 1>>
    BY <1>1, <2>1 DEF At
  <2>3. data[offset + 1][1] \in DOMAIN index
    BY <2>1 DEF Addressed
  <2> QED
    BY <1>1, <2>2, <2>3
<1>5. ASSUME NEW e \in Digest, e # d
      PROVE  At(index', data', e) <=> At(index, data, e)
  BY <1>1, <1>5 DEF At
<1>6. ~ At(index, data, d)
  BY <1>1 DEF At
<1> QED
  BY <1>1, <1>2, <1>4, <1>5, <1>6, ReadableAt, ReadableAtNext

\* An append leaves what could be read readable, and adds the node it is about
\* if the index points to the end of the file and all its bytes are there. It adds
\* no other: the last byte of a node is written by its own put only.
LEMMA AppendedReadable ==
  ASSUME Stored(index, data), UNCHANGED index,
         NEW d \in Digest, NEW n \in 0 .. Length[d], NEW t \in Seq(Byte),
         Len(t) = n, \A k \in 1 .. n : t[k] = <<d, k>>,
         data' = data \o t
  PROVE  /\ Stored(index', data')
         /\ Len(data') = Len(data) + n
         /\ \A j \in 1 .. Len(data) : data'[j] = data[j]
         /\ \A j \in 1 .. n : data'[Len(data) + j] = <<d, j>>
         /\ \A e \in Digest : Readable(e) => Readable(e)'
         /\ \A e \in Digest :
              Readable(e)' => Readable(e) \/ (e = d /\ n = Length[d])
         /\ Indexed(d) /\ index[d] = Len(data) /\ n = Length[d] => Readable(d)'
<1> DEFINE m == Len(data)
<1>1. data \in Seq(Byte) /\ m \in Nat /\ n \in Nat /\ Length[d] \in Nat
  BY LenProperties, BytesOf DEF Stored
<1>2. /\ data' \in Seq(Byte) /\ Len(data') = m + n
      /\ \A j \in 1 .. m + n : data'[j] = IF j <= m THEN data[j] ELSE t[j - m]
  BY <1>1, ConcatProperties
<1>3. \A j \in 1 .. m : data'[j] = data[j]
  BY <1>1, <1>2
<1>4. \A j \in 1 .. n : data'[m + j] = <<d, j>>
  <2> TAKE j \in 1 .. n
  <2>1. m + j \in 1 .. m + n /\ ~(m + j <= m) /\ (m + j) - m = j
    BY <1>1
  <2> QED
    BY <1>2, <2>1
<1>5. Stored(index', data')
  BY <1>1, <1>2 DEF Stored
<1> HIDE DEF m
<1>6. ASSUME NEW e \in Digest, At(index, data, e)
      PROVE  At(index', data', e)
  <2>1. index[e] \in Nat /\ Length[e] \in Nat
    BY <1>1, <1>6, BytesOf DEF Stored, At
  <2>2. index[e] + Length[e] <= m
    BY <1>6 DEF At, m
  <2>3. \A k \in 1 .. Length[e] : index[e] + k \in 1 .. m
    BY <1>1, <2>1, <2>2
  <2>4. index[e] + Length[e] <= m + n
    BY <1>1, <2>1, <2>2
  <2> QED
    BY <1>2, <1>3, <1>6, <2>3, <2>4 DEF At
<1>7. ASSUME NEW e \in Digest, At(index', data', e), ~ At(index, data, e)
      PROVE  e = d /\ n = Length[d]
  <2>1. index[e] \in Nat /\ Length[e] \in Nat \ {0} /\ e \in DOMAIN index
    BY <1>7, BytesOf DEF Stored, At
  <2>2. index[e] + Length[e] <= m + n
    BY <1>2, <1>7 DEF At
  <2>3. \A k \in 1 .. Length[e] : data'[index[e] + k] = <<e, k>>
    BY <1>7 DEF At
  <2>4. ~(index[e] + Length[e] <= m)
    <3> SUFFICES ASSUME index[e] + Length[e] <= m PROVE FALSE
      OBVIOUS
    <3>1. \A k \in 1 .. Length[e] : index[e] + k \in 1 .. m
      BY <1>1, <2>1
    <3> QED
      BY <1>3, <1>7, <2>1, <2>3, <3>1 DEF At, m
  <2> DEFINE l == Length[e]
             i == index[e]
  <2> HIDE DEF l, i
  <2>5. i \in Nat /\ l \in Nat \ {0} /\ i + l <= m + n /\ ~(i + l <= m)
    BY <2>1, <2>2, <2>4 DEF i, l
  <2>6. PICK j \in 1 .. n : m + j = i + l
    <3>1. (i + l) - m \in 1 .. n /\ m + ((i + l) - m) = i + l
      BY <1>1, <2>5
    <3> QED
      BY <3>1
  <2>7. l \in 1 .. l
    BY <2>5
  <2>8. data'[m + j] = <<e, l>>
    BY <2>3, <2>6, <2>7 DEF i, l
  <2>9. data'[m + j] = <<d, j>>
    BY <1>4
  <2>10. e = d /\ j = l
    <3>1. <<e, l>> = <<d, j>>
      BY <2>8, <2>9, Zenon
    <3> QED
      BY <3>1
  <2>11. j <= n /\ n <= Length[d]
    BY <1>1
  <2> QED
    BY <1>1, <2>10, <2>11 DEF l
<1>8. ASSUME Indexed(d), index[d] = m, n = Length[d]
      PROVE  At(index', data', d)
  <2>1. d \in DOMAIN index' /\ index'[d] = m
    BY <1>8 DEF Indexed
  <2>2. index'[d] + Length[d] <= Len(data')
    BY <1>1, <1>2, <1>8, <2>1
  <2> QED
    BY <1>4, <1>8, <2>1, <2>2 DEF At
<1> QED
  BY <1>2, <1>3, <1>4, <1>5, <1>6, <1>7, <1>8, ReadableAt, ReadableAtNext DEF m

-----------------------------------------------------------------------------
(***************************************************************************)
(* The invariant is inductive: one lemma per action.                       *)
(***************************************************************************)

\* A node is among those below it, what is below one of them is below it too, and
\* its kids are among them.
LEMMA BelowNode ==
  ASSUME NEW d \in Digest
  PROVE  /\ d \in Below[d] /\ Below[d] \subseteq Digest
         /\ \A e \in Below[d] : Below[e] \subseteq Below[d]
         /\ Kids[d] \subseteq Below[d] \ {d}
<1>1. \A k \in Kids[d] : k \in Digest /\ k \in Below[k] /\ d \notin Below[k]
  BY ConstantsOK DEF ConstantsOK
<1>2. Below[d] = {d} \cup UNION {Below[k] : k \in Kids[d]}
  BY ConstantsOK DEF ConstantsOK
<1>3. \A e \in Below[d] : Below[e] \subseteq Below[d]
  BY ConstantsOK DEF ConstantsOK
<1>4. Below[d] \subseteq Digest
  BY ConstantsOK DEF ConstantsOK
<1>5. Kids[d] \subseteq Below[d] \ {d}
  BY <1>1, <1>2
<1> QED
  BY <1>2, <1>3, <1>4, <1>5

LEMMA NobodyIsOther == Nobody \notin Caller /\ Nobody \notin Digest /\ Owner \in Caller
BY ConstantsOK DEF ConstantsOK

LEMMA InitIInv == Init => IInv
<1> SUFFICES ASSUME Init PROVE IInv
  OBVIOUS
<1>1. data \in Seq(Byte) /\ Len(data) = 0 /\ DOMAIN index = {}
  BY EmptySeq DEF Init
<1>2. TypeOK
  <2>1. index \in [DOMAIN index -> 0 .. Len(data)] /\ MaxTears \in Nat
    BY <1>1, ConstantsOK DEF Init, ConstantsOK
  <2> QED
    BY <1>1, <2>1 DEF Init, TypeOK
<1>3. Addressed /\ AtEnd
  BY <1>1 DEF Init, Addressed, AtEnd
<1>4. OnePut /\ Persisting /\ Persisted
  BY DEF Init, OnePut, Unlocked, Persisting, Persisted, Working
<1>5. IndexSound /\ RootRestorable /\ HeldReadable
  BY <1>1 DEF Init, IndexSound, RootRestorable, HeldReadable
<1> QED
  BY <1>2, <1>3, <1>4, <1>5 DEF IInv

\* What a step leaves as it was when it touches neither the index nor the file:
\* only the callers move.
LEMMA OnlyCallersMove ==
  ASSUME IInv, UNCHANGED <<index, data, offset, writing, tears>>
  PROVE  /\ Addressed' /\ AtEnd' /\ IndexSound'
         /\ Intact' = Intact
         /\ \A d : Readable(d)' <=> Readable(d)
         /\ UNCHANGED root => RootRestorable'
<1>1. \A d : Readable(d)' <=> Readable(d)
  BY SameReadable
<1>2. Intact' = Intact
  BY DEF Intact
<1>3. Addressed' /\ AtEnd'
  BY <1>2 DEF IInv, Addressed, AtEnd
<1>4. IndexSound'
  BY <1>1, <1>2 DEF IInv, IndexSound
<1>5. UNCHANGED root => RootRestorable'
  BY <1>1, <1>2 DEF IInv, RootRestorable
<1> QED
  BY <1>1, <1>2, <1>3, <1>4, <1>5

\* What the caller may start from, it can read.
LEMMA KeptReadable ==
  ASSUME IInv, Intact, NEW c \in Caller, NEW kept \in Kept(c)
  PROVE  \A d \in kept : Readable(d)
<1>1. ASSUME NEW d \in {held[c]} \cap Digest, kept = Below[d] \ {d}
      PROVE  \A e \in kept : Readable(e)
  BY <1>1, NobodyIsOther DEF IInv, HeldReadable
<1>2. ASSUME NEW d \in {goal[c]} \cap (IF pc[c] = "failed" THEN Digest ELSE {}),
             kept = Below[d] \ ({d} \cup todo[c])
      PROVE  \A e \in kept : Readable(e)
  BY <1>2 DEF IInv, Persisted, Working
<1> QED
  BY <1>1, <1>2 DEF Kept

LEMMA BeginIInv ==
  ASSUME IInv, NEW c \in Caller, NEW d \in Digest, Begin(c, d)
  PROVE  IInv'
<1> USE DEF Begin, Call
<1>1. PICK kept \in Kept(c) :
        todo' = [todo EXCEPT ![c] = (Below[d] \ kept) \cup {d}]
  OBVIOUS
<1>2. /\ Addressed' /\ AtEnd' /\ IndexSound' /\ RootRestorable'
      /\ Intact' = Intact /\ \A e : Readable(e)' <=> Readable(e)
  BY OnlyCallersMove
<1>3. TypeOK'
  BY <1>1, BelowNode DEF IInv, TypeOK
<1>4. OnePut'
  <2>1. ~Unlocked => writing[1] # c
    BY DEF IInv, OnePut
  <2>2. ~Unlocked => writing[1] \in Caller
    BY DEF IInv, TypeOK, Unlocked
  <2> QED
    BY <1>1, <1>2, <2>1, <2>2 DEF IInv, TypeOK, OnePut, Unlocked, Indexed
<1>5. Persisting'
  BY <1>1, BelowNode DEF IInv, TypeOK, Persisting, Working
<1>6. Persisted'
  <2>1. Intact => \A e \in kept : Readable(e)
    BY KeptReadable
  <2> QED
    BY <1>1, <1>2, <2>1 DEF IInv, TypeOK, Persisted, Working
<1>7. HeldReadable'
  BY <1>2 DEF IInv, HeldReadable
<1> QED
  BY <1>2, <1>3, <1>4, <1>5, <1>6, <1>7 DEF IInv

LEMMA RetryIInv ==
  ASSUME IInv, NEW c \in Caller, Retry(c)
  PROVE  IInv'
<1> USE DEF Retry, Call
<1>1. /\ Addressed' /\ AtEnd' /\ IndexSound' /\ RootRestorable'
      /\ Intact' = Intact /\ \A e : Readable(e)' <=> Readable(e)
  BY OnlyCallersMove
<1>2. goal[c] \in Digest /\ todo[c] \subseteq Below[goal[c]]
  BY DEF IInv, Persisting, Working
<1>3. TypeOK'
  BY <1>2 DEF IInv, TypeOK
<1>4. OnePut'
  <2>1. ~Unlocked => writing[1] # c
    BY DEF IInv, OnePut
  <2>2. ~Unlocked => writing[1] \in Caller
    BY DEF IInv, TypeOK, Unlocked
  <2> QED
    BY <1>1, <2>1, <2>2 DEF IInv, TypeOK, OnePut, Unlocked, Indexed
<1>5. Persisting'
  BY <1>2, BelowNode DEF IInv, TypeOK, Persisting, Working
<1>6. Persisted'
  BY <1>1 DEF IInv, TypeOK, Persisted, Working
<1>7. HeldReadable'
  BY <1>1 DEF IInv, HeldReadable
<1> QED
  BY <1>1, <1>3, <1>4, <1>5, <1>6, <1>7 DEF IInv

LEMMA AlreadyThereIInv ==
  ASSUME IInv, NEW c \in Caller, NEW d \in Digest, AlreadyThere(c, d)
  PROVE  IInv'
<1> USE DEF AlreadyThere, Due
<1>1. /\ Addressed' /\ AtEnd' /\ IndexSound' /\ RootRestorable'
      /\ Intact' = Intact /\ \A e : Readable(e)' <=> Readable(e)
  BY OnlyCallersMove
<1>2. TypeOK'
  BY DEF IInv, TypeOK
<1>3. OnePut'
  BY DEF OnePut, Unlocked
<1>4. Persisting'
  BY DEF IInv, TypeOK, Persisting, Working
<1>5. Intact => Readable(d)
  BY NobodyIsOther DEF IInv, IndexSound, Indexed, Unlocked
<1>6. Persisted'
  BY <1>1, <1>5 DEF IInv, TypeOK, Persisted, Working
<1>7. HeldReadable'
  BY <1>1 DEF IInv, HeldReadable
<1> QED
  BY <1>1, <1>2, <1>3, <1>4, <1>6, <1>7 DEF IInv

LEMMA IndexInsertIInv ==
  ASSUME IInv, NEW c \in Caller, NEW d \in Digest, IndexInsert(c, d)
  PROVE  IInv'
<1> USE DEF IndexInsert, Due
<1>1. Stored(index, data) /\ offset \in 0 .. Len(data)
  BY DEF IInv, TypeOK, Stored
<1>2. /\ Stored(index', data') /\ DOMAIN index' = DOMAIN index \cup {d}
      /\ index'[d] = offset
      /\ \A e \in Digest : Readable(e)' <=> Readable(e)
  BY <1>1, InsertedReadable DEF IInv
<1>3. Intact' = Intact /\ writing'[1] = c /\ writing'[2] = d
  BY DEF Intact
<1>4. TypeOK'
  BY <1>2 DEF IInv, TypeOK, Stored
<1>5. Addressed' /\ AtEnd'
  BY <1>2, <1>3 DEF IInv, Addressed, AtEnd
<1>6. OnePut'
  BY <1>2, <1>3 DEF IInv, AtEnd, OnePut, Indexed
<1>7. Persisting'
  BY DEF IInv, Persisting, Working
<1>8. ASSUME NEW e \in Caller, goal[e] \in Digest
      PROVE  Below[goal[e]] \subseteq Digest
  BY <1>8, BelowNode
<1>9. Persisted'
  BY <1>2, <1>3, <1>8 DEF IInv, Persisting, Persisted, Working
<1>10. IndexSound'
  BY <1>1, <1>2, <1>3, NobodyIsOther DEF IInv, IndexSound, Unlocked, Stored
<1>11. RootRestorable'
  BY <1>2, <1>3, BelowNode DEF IInv, TypeOK, RootRestorable
<1>12. HeldReadable'
  BY <1>2, <1>3, BelowNode DEF IInv, TypeOK, HeldReadable
<1> QED
  BY <1>4, <1>5, <1>6, <1>7, <1>9, <1>10, <1>11, <1>12 DEF IInv

\* The node of the put under way, and what an append of its bytes does.
LEMMA PutUnderWay ==
  ASSUME IInv, ~Unlocked
  PROVE  /\ writing[1] \in Caller /\ writing[2] \in Digest
         /\ pc[writing[1]] = "put" /\ Indexed(writing[2])
         /\ Intact => index[writing[2]] = Len(data)
BY DEF IInv, TypeOK, OnePut, Unlocked

LEMMA DataWriteReadable ==
  ASSUME IInv, NEW c \in Caller, DataWrite(c), NEW w, w = writing[2]
  PROVE  /\ ~Unlocked /\ c = writing[1] /\ w \in Digest /\ Indexed(w)
         /\ Stored(index', data')
         /\ Len(data') = Len(data) + Length[w]
         /\ \A j \in 1 .. Len(data) : data'[j] = data[j]
         /\ \A j \in 1 .. Length[w] : data'[Len(data) + j] = <<w, j>>
         /\ \A e \in Digest : Readable(e) => Readable(e)'
         /\ \A e \in Digest : Readable(e)' => Readable(e) \/ e = w
         /\ Intact => Readable(w)'
<1>1. ~Unlocked /\ c = writing[1]
  BY NobodyIsOther DEF Unlocked, DataWrite
<1>2. w \in Digest /\ Indexed(w) /\ (Intact => index[w] = Len(data))
  BY <1>1, PutUnderWay
<1>3. Stored(index, data)
  BY DEF IInv, TypeOK, Stored
<1>4. /\ Bytes(w) \in Seq(Byte)
      /\ Len(Bytes(w)) = Length[w]
      /\ Length[w] \in 0 .. Length[w]
      /\ \A k \in 1 .. Length[w] : Bytes(w)[k] = <<w, k>>
  BY <1>2, BytesOf
<1>5. UNCHANGED index /\ data' = data \o Bytes(w)
  BY DEF DataWrite
<1> QED
  BY <1>1, <1>2, <1>3, <1>4, <1>5, AppendedReadable

LEMMA DataWriteIInv ==
  ASSUME IInv, NEW c \in Caller, DataWrite(c)
  PROVE  IInv'
<1> USE DEF DataWrite
<1>w. PICK w : w = writing[2]
  OBVIOUS
<1> DEFINE l == Length[w]
<1>1. /\ ~Unlocked /\ c = writing[1] /\ w \in Digest /\ Indexed(w)
      /\ Stored(index', data')
      /\ Len(data') = Len(data) + l
      /\ \A j \in 1 .. Len(data) : data'[j] = data[j]
      /\ \A j \in 1 .. l : data'[Len(data) + j] = <<w, j>>
      /\ \A e \in Digest : Readable(e) => Readable(e)'
      /\ Intact => Readable(w)'
  BY <1>w, DataWriteReadable
<1>2. l \in Nat /\ Len(data) \in Nat
  BY <1>1, BytesOf, LenProperties DEF IInv, TypeOK
<1>3. Intact' = Intact /\ Unlocked'
  BY DEF Intact, Unlocked
<1> HIDE DEF l
<1>4. TypeOK'
  <2>1. offset \in 0 .. Len(data)
    BY DEF IInv, TypeOK
  <2>2. offset + l \in 0 .. Len(data')
    BY <1>1, <1>2, <2>1
  <2>3. offset' \in 0 .. Len(data')
    BY <1>w, <2>2 DEF l
  <2> QED
    BY <1>1, <2>3 DEF IInv, TypeOK, Stored
<1>5. Addressed'
  <2> SUFFICES ASSUME NEW n \in 1 .. Len(data') PROVE data'[n][1] \in DOMAIN index
    BY DEF Addressed
  <2>1. CASE n \in 1 .. Len(data)
    BY <1>1, <2>1 DEF IInv, Addressed
  <2>2. CASE n \notin 1 .. Len(data)
    <3>1. PICK j \in 1 .. l : n = Len(data) + j
      <4>1. n - Len(data) \in 1 .. l /\ n = Len(data) + (n - Len(data))
        BY <1>1, <1>2, <2>2
      <4> QED
        BY <4>1
    <3>2. data'[n] = <<w, j>>
      BY <1>1, <3>1
    <3>3. w \in DOMAIN index
      BY <1>1 DEF Indexed
    <3> QED
      BY <3>2, <3>3
  <2> QED
    BY <2>1, <2>2
<1>6. AtEnd'
  BY <1>1, <1>3, <1>w DEF IInv, AtEnd, l
<1>7. OnePut'
  BY <1>3 DEF OnePut
<1>8. Persisting'
  BY DEF IInv, TypeOK, Persisting, Working
<1>9. Persisted'
  BY <1>1, <1>3, <1>w, BelowNode DEF IInv, TypeOK, Persisting, Persisted, Working
<1>10. IndexSound'
  BY <1>1, <1>3, <1>w DEF IInv, TypeOK, IndexSound
<1>11. RootRestorable'
  BY <1>1, <1>3, BelowNode DEF IInv, TypeOK, RootRestorable
<1>12. HeldReadable'
  BY <1>1, <1>3, BelowNode DEF IInv, TypeOK, HeldReadable
<1> QED
  BY <1>4, <1>5, <1>6, <1>7, <1>8, <1>9, <1>10, <1>11, <1>12 DEF IInv

\* An interrupted put changes nothing that can be read, not even its own node.
LEMMA TornReadable ==
  ASSUME IInv, ~Unlocked, Torn, UNCHANGED index
  PROVE  /\ Stored(index', data') /\ Len(data) <= Len(data')
         /\ tears' \in 1 .. MaxTears
         /\ Addressed'
         /\ \A e \in Digest : Readable(e)' <=> Readable(e)
<1>1. PICK w : w = writing[2]
  OBVIOUS
<1>2. w \in Digest /\ Indexed(w)
  BY <1>1, PutUnderWay
<1>3. PICK n \in 0 .. Length[w] - 1 : data' = data \o SubSeq(Bytes(w), 1, n)
  BY <1>1 DEF Torn
<1>4. n \in 0 .. Length[w] /\ n # Length[w]
  BY <1>2, BytesOf
<1>5. PICK t : t = SubSeq(Bytes(w), 1, n)
  OBVIOUS
<1>6. /\ t \in Seq(Byte) /\ Len(t) = n /\ \A k \in 1 .. n : t[k] = <<w, k>>
      /\ data' = data \o t
  BY <1>2, <1>3, <1>4, <1>5, PartOf
<1>7. Stored(index, data)
  BY DEF IInv, TypeOK, Stored
<1>8. /\ Stored(index', data')
      /\ Len(data') = Len(data) + n
      /\ \A j \in 1 .. Len(data) : data'[j] = data[j]
      /\ \A j \in 1 .. n : data'[Len(data) + j] = <<w, j>>
      /\ \A e \in Digest : Readable(e) => Readable(e)'
      /\ \A e \in Digest : Readable(e)' => Readable(e) \/ (e = w /\ n = Length[w])
  BY <1>2, <1>4, <1>6, <1>7, AppendedReadable
<1>9. Len(data) \in Nat /\ n \in Nat
  BY <1>4, <1>7, LenProperties DEF Stored
<1>10. Addressed'
  <2> SUFFICES ASSUME NEW i \in 1 .. Len(data') PROVE data'[i][1] \in DOMAIN index
    BY DEF Addressed
  <2>1. CASE i \in 1 .. Len(data)
    BY <1>8, <2>1 DEF IInv, Addressed
  <2>2. CASE i \notin 1 .. Len(data)
    <3>1. PICK j \in 1 .. n : i = Len(data) + j
      <4>1. i - Len(data) \in 1 .. n /\ i = Len(data) + (i - Len(data))
        BY <1>8, <1>9, <2>2
      <4> QED
        BY <4>1
    <3>2. data'[i] = <<w, j>>
      BY <1>8, <3>1
    <3> QED
      BY <1>2, <3>2 DEF Indexed
  <2> QED
    BY <2>1, <2>2
<1>11. tears' \in 1 .. MaxTears
  BY ConstantsOK DEF IInv, TypeOK, Torn, ConstantsOK
<1> QED
  BY <1>4, <1>8, <1>9, <1>10, <1>11

LEMMA DataWriteFailsIInv ==
  ASSUME IInv, NEW c \in Caller, DataWriteFails(c)
  PROVE  IInv'
<1> USE DEF DataWriteFails, Call
<1>1. ~Unlocked
  BY NobodyIsOther DEF Unlocked
<1>2. /\ Stored(index', data') /\ Len(data) <= Len(data')
      /\ tears' \in 1 .. MaxTears /\ Addressed'
  BY <1>1, TornReadable
<1>3. Len(data) \in Nat /\ Len(data') \in Nat /\ offset \in 0 .. Len(data)
  BY <1>2, LenProperties DEF IInv, TypeOK, Stored
<1>4. ~Intact' /\ Unlocked'
  BY <1>2 DEF Intact, Unlocked
<1>5. offset' \in 0 .. Len(data') /\ tears' \in 0 .. MaxTears
  BY <1>2, <1>3
<1>6. TypeOK'
  BY <1>2, <1>5 DEF IInv, TypeOK, Stored
<1>7. AtEnd' /\ Persisted' /\ IndexSound' /\ RootRestorable' /\ HeldReadable'
  BY <1>4 DEF AtEnd, Persisted, IndexSound, RootRestorable, HeldReadable
<1>8. OnePut'
  BY <1>4 DEF OnePut
<1>9. pc[c] = "put"
  BY <1>1, PutUnderWay
<1>10. Persisting'
  BY <1>9 DEF IInv, TypeOK, Persisting, Working
<1> QED
  BY <1>2, <1>6, <1>7, <1>8, <1>10 DEF IInv

\* The tree of a persist that has nothing left to put can be read in full.
LEMMA FinishedReadable ==
  ASSUME IInv, Intact, NEW c \in Caller, Working(c), todo[c] = {}
  PROVE  goal[c] \in Digest /\ \A d \in Below[goal[c]] : Readable(d)
BY DEF IInv, Persisting, Persisted

LEMMA ReturnIInv ==
  ASSUME IInv, NEW c \in Caller, Return(c) \/ Commit(c)
  PROVE  IInv'
<1> USE DEF Return, Commit, Call
<1>1. /\ Addressed' /\ AtEnd' /\ IndexSound' /\ RootRestorable'
      /\ Intact' = Intact /\ \A e : Readable(e)' <=> Readable(e)
  BY OnlyCallersMove
<1>2. pc[c] = "put" /\ todo[c] = {} /\ held' = [held EXCEPT ![c] = goal[c]]
  OBVIOUS
<1>3. Working(c)
  BY <1>2 DEF Working
<1>4. TypeOK'
  BY DEF IInv, TypeOK
<1>5. OnePut'
  BY DEF IInv, TypeOK, OnePut, Unlocked, Intact, Indexed
<1>6. Persisting'
  BY DEF IInv, TypeOK, Persisting, Working
<1>7. Persisted'
  BY <1>1 DEF IInv, TypeOK, Persisted, Working
<1>8. HeldReadable'
  <2>1. Intact => \A d \in Below[goal[c]] : Readable(d)
    BY <1>2, <1>3, FinishedReadable
  <2> QED
    BY <1>1, <1>2, <2>1 DEF IInv, TypeOK, HeldReadable
<1> QED
  BY <1>1, <1>4, <1>5, <1>6, <1>7, <1>8 DEF IInv

LEMMA FlushIInv ==
  ASSUME IInv, NEW c \in Caller, Flush(c) \/ Fail(c)
  PROVE  IInv'
<1> USE DEF Flush, Fail, Call
<1>1. /\ Addressed' /\ AtEnd' /\ IndexSound' /\ RootRestorable'
      /\ Intact' = Intact /\ \A e : Readable(e)' <=> Readable(e)
  BY OnlyCallersMove
<1>2. TypeOK'
  BY DEF IInv, TypeOK
<1>3. OnePut'
  BY DEF IInv, TypeOK, OnePut, Unlocked, Intact, Indexed
<1>4. Persisting'
  BY DEF IInv, TypeOK, Persisting, Working
<1>5. Persisted'
  BY <1>1 DEF IInv, TypeOK, Persisted, Working
<1>6. HeldReadable'
  BY <1>1 DEF IInv, HeldReadable
<1> QED
  BY <1>1, <1>2, <1>3, <1>4, <1>5, <1>6 DEF IInv

LEMMA WriteRootIInv ==
  ASSUME IInv, NEW c \in Caller, WriteRoot(c)
  PROVE  IInv'
<1> USE DEF WriteRoot, Call
<1>1. /\ Addressed' /\ AtEnd' /\ IndexSound'
      /\ Intact' = Intact /\ \A e : Readable(e)' <=> Readable(e)
  BY OnlyCallersMove
<1>2. TypeOK'
  BY DEF IInv, TypeOK
<1>3. OnePut'
  BY DEF IInv, TypeOK, OnePut, Unlocked, Intact, Indexed
<1>4. Persisting'
  BY DEF IInv, TypeOK, Persisting, Working
<1>5. Persisted'
  BY <1>1 DEF IInv, TypeOK, Persisted, Working
<1>6. Working(c) /\ todo[c] = {}
  BY DEF IInv, Persisting, Working
<1>7. RootRestorable'
  BY <1>1, <1>6, FinishedReadable DEF RootRestorable
<1>8. HeldReadable'
  BY <1>1 DEF IInv, HeldReadable
<1> QED
  BY <1>1, <1>2, <1>3, <1>4, <1>5, <1>7, <1>8 DEF IInv

LEMMA RestoreRootIInv == ASSUME IInv, RestoreRoot PROVE IInv'
<1> USE DEF RestoreRoot, Call
<1>1. /\ Addressed' /\ AtEnd' /\ IndexSound' /\ RootRestorable'
      /\ Intact' = Intact /\ \A e : Readable(e)' <=> Readable(e)
  BY OnlyCallersMove
<1>2. TypeOK'
  BY DEF IInv, TypeOK
<1>3. OnePut'
  BY DEF IInv, TypeOK, OnePut, Unlocked, Intact, Indexed
<1>4. Persisting'
  BY DEF IInv, TypeOK, Persisting, Working
<1>5. Persisted'
  BY <1>1 DEF IInv, TypeOK, Persisted, Working
<1>6. HeldReadable'
  BY <1>1, NobodyIsOther DEF IInv, TypeOK, HeldReadable, RootRestorable
<1> QED
  BY <1>1, <1>2, <1>3, <1>4, <1>5, <1>6 DEF IInv

LEMMA RestartIInv == ASSUME IInv, Restart PROVE IInv'
<1> USE DEF Restart
<1>1. /\ Stored(index', data') /\ tears' \in 0 .. MaxTears /\ Addressed'
      /\ \A e \in Digest : Readable(e)' <=> Readable(e)
      /\ Intact' => Intact
  <2>1. CASE Unlocked
    BY <2>1, SameReadable DEF IInv, TypeOK, Stored, Addressed, Intact
  <2>2. CASE ~Unlocked
    <3>1. /\ Stored(index', data') /\ tears' \in 1 .. MaxTears /\ Addressed'
          /\ \A e \in Digest : Readable(e)' <=> Readable(e)
      BY <2>2, TornReadable
    <3>2. tears' \in 0 .. MaxTears /\ ~Intact'
      BY <3>1 DEF Intact
    <3> QED
      BY <3>1, <3>2
  <2> QED
    BY <2>1, <2>2
<1>2. offset' = Len(data') /\ offset' \in 0 .. Len(data')
  BY <1>1, LenProperties DEF Stored
<1>3. TypeOK'
  BY <1>1, <1>2 DEF IInv, TypeOK, Stored
<1>4. AtEnd' /\ OnePut' /\ Persisting' /\ Persisted' /\ HeldReadable'
  BY <1>2 DEF AtEnd, OnePut, Unlocked, Persisting, Persisted, Working, HeldReadable
<1>5. IndexSound'
  <2> SUFFICES ASSUME Intact', NEW d \in DOMAIN index
               PROVE  Readable(d)'
    BY DEF IndexSound
  <2>1. Unlocked
    <3>1. ~Unlocked => ~Intact'
      BY TornReadable DEF Intact
    <3> QED
      BY <3>1
  <2>2. d \in Digest /\ d # writing[2]
    BY <2>1, NobodyIsOther DEF IInv, TypeOK, Unlocked
  <2> QED
    BY <1>1, <2>2 DEF IInv, IndexSound
<1>6. RootRestorable'
  BY <1>1, BelowNode DEF IInv, TypeOK, RootRestorable
<1> QED
  BY <1>1, <1>3, <1>4, <1>5, <1>6 DEF IInv

LEMMA NextIInv == IInv /\ [Next]_vars => IInv'
<1> SUFFICES ASSUME IInv, [Next]_vars PROVE IInv'
  OBVIOUS
<1>1. ASSUME NEW c \in Caller, NEW d \in Digest,
             Begin(c, d) \/ AlreadyThere(c, d) \/ IndexInsert(c, d)
      PROVE  IInv'
  BY <1>1, BeginIInv, AlreadyThereIInv, IndexInsertIInv
<1>2. ASSUME NEW c \in Caller,
             \/ Retry(c) \/ DataWrite(c) \/ DataWriteFails(c)
             \/ Return(c) \/ Commit(c) \/ Flush(c) \/ WriteRoot(c) \/ Fail(c)
      PROVE  IInv'
  BY <1>2, RetryIInv, DataWriteIInv, DataWriteFailsIInv, ReturnIInv, FlushIInv,
     WriteRootIInv
<1>3. CASE RestoreRoot
  BY <1>3, RestoreRootIInv
<1>4. CASE Restart
  BY <1>4, RestartIInv
<1>5. CASE UNCHANGED vars
  <2>1. /\ Addressed' /\ AtEnd' /\ IndexSound' /\ RootRestorable'
        /\ Intact' = Intact /\ \A e : Readable(e)' <=> Readable(e)
    BY <1>5, OnlyCallersMove DEF vars
  <2>2. TypeOK' /\ OnePut' /\ Persisting'
    BY <1>5 DEF vars, IInv, TypeOK, OnePut, Unlocked, Intact, Indexed, Persisting,
       Working
  <2>3. Persisted' /\ HeldReadable'
    BY <1>5, <2>1 DEF vars, IInv, Persisted, Working, HeldReadable
  <2> QED
    BY <2>1, <2>2, <2>3 DEF IInv
<1> QED
  BY <1>1, <1>2, <1>3, <1>4, <1>5 DEF Next

LEMMA Invariance == Spec => []IInv
BY InitIInv, NextIInv, PTL DEF Spec

-----------------------------------------------------------------------------
(***************************************************************************)
(* The invariants of DiskStore.                                            *)
(***************************************************************************)

\* Offsets in the index and data_offset stay within the data file, and the file
\* holds bytes of nodes only: over calls that fail in the middle and restarts.
THEOREM DiskTypeCorrect == Spec => []TypeOK
BY Invariance, PTL DEF IInv

\* As long as no put was torn, each digest in the index leads to the bytes of its
\* node, but the one the put under way has inserted and not yet written
\* (DiskBackend::put inserts in the index before it writes).
THEOREM IndexIsSound == Spec => []IndexSound
BY Invariance, PTL DEF IInv

\* As long as no put was torn, the tree the root file names can be read in full
\* at every moment (Root::set_root: persist, flush, then the atomic write).
THEOREM RootIsRestorable == Spec => []RootRestorable
BY Invariance, PTL DEF IInv

\* As long as no put was torn, a tree that was persisted can be read in full,
\* also where its nodes were put by others (Transaction::commit).
THEOREM HeldIsReadable == Spec => []HeldReadable
BY Invariance, PTL DEF IInv

-----------------------------------------------------------------------------
(***************************************************************************)
(* DiskStore implements ContentStore.                                      *)
(***************************************************************************)

\* The content a step leaves alone, for the refinement mapping.
LEMMA SameContent ==
  ASSUME \A e \in Digest : Readable(e)' <=> Readable(e)
  PROVE  {e \in Digest : Readable(e)}' = {e \in Digest : Readable(e)}
OBVIOUS

\* The initial states are empty stores without a root.
LEMMA ContentsInit == Init => Contents!Init
BY DEF Init, Contents!Init, Readable, Indexed, Intact

\* A put that comes to its end adds one node, and the nodes below it are there.
LEMMA AddStep ==
  ASSUME IInv, NEW c \in Caller, DataWrite(c)
  PROVE  Contents!Next \/ UNCHANGED Contents!vars
<1>1. PICK w : w = writing[2]
  OBVIOUS
<1>2. /\ ~Unlocked /\ c = writing[1] /\ w \in Digest
      /\ \A e \in Digest : Readable(e) => Readable(e)'
      /\ \A e \in Digest : Readable(e)' => Readable(e) \/ e = w
      /\ Intact => Readable(w)'
  BY <1>1, DataWriteReadable
<1>3. UNCHANGED <<root, tears>> /\ Intact' = Intact
  BY DEF DataWrite, Intact
<1>4. CASE Readable(w)'
  <2>1. {e \in Digest : Readable(e)}' = {e \in Digest : Readable(e)} \cup {w}
    BY <1>2, <1>4
  <2>2. Intact => Kids[w] \subseteq {e \in Digest : Readable(e)}
    <3>1. /\ Working(c) /\ w \in todo[c] /\ (Below[w] \ {w}) \cap todo[c] = {}
      BY <1>1, <1>2 DEF IInv, OnePut, Working
    <3>2. goal[c] \in Digest /\ w \in Below[goal[c]]
      BY <3>1 DEF IInv, Persisting
    <3>3. Below[w] \subseteq Below[goal[c]] /\ Kids[w] \subseteq Below[w] \ {w}
          /\ Below[w] \subseteq Digest
      BY <1>2, <3>2, BelowNode
    <3>4. Kids[w] \subseteq Below[goal[c]] \ todo[c]
      BY <3>1, <3>3
    <3> QED
      BY <3>1, <3>3, <3>4 DEF IInv, Persisted
  <2>3. Contents!Add(w)
    BY <1>3, <2>1, <2>2 DEF Contents!Add
  <2> QED
    BY <1>2, <2>3 DEF Contents!Next
<1>5. CASE ~Readable(w)'
  <2>1. \A e \in Digest : Readable(e)' <=> Readable(e)
    BY <1>2, <1>5
  <2> QED
    BY <1>3, <2>1, SameContent DEF Contents!vars
<1> QED
  BY <1>4, <1>5

\* A put that is interrupted is the write that tears the medium.
LEMMA TearStep ==
  ASSUME IInv, ~Unlocked, Torn, UNCHANGED <<index, root>>
  PROVE  Contents!Next
<1>1. tears' \in 1 .. MaxTears /\ \A e \in Digest : Readable(e)' <=> Readable(e)
  BY TornReadable
<1>2. Intact' = FALSE
  BY <1>1 DEF Intact
<1> QED
  BY <1>1, <1>2, SameContent DEF Contents!Next, Contents!Tear

\* The write of the root file sets a root that is there with all below it.
LEMMA SetRootStep ==
  ASSUME IInv, NEW c \in Caller, WriteRoot(c)
  PROVE  Contents!Next
<1>1. Working(c) /\ todo[c] = {} /\ goal[c] \in Digest
  BY DEF IInv, Persisting, Working, WriteRoot
<1>2. PICK d \in Digest : d = goal[c]
  BY <1>1
<1>3. Intact => Below[d] \in Contents!Complete /\ d \in Below[d]
  <2> SUFFICES ASSUME Intact
               PROVE  Below[d] \in Contents!Complete /\ d \in Below[d]
    OBVIOUS
  <2>1. \A e \in Below[d] : Readable(e) /\ e \in Digest
    BY <1>1, <1>2, FinishedReadable, BelowNode
  <2>2. \A e \in Below[d] : Kids[e] \subseteq Below[d]
    BY <2>1, BelowNode
  <2> QED
    BY <2>1, <2>2, BelowNode DEF Contents!Complete
<1>4. \A e \in Digest : Readable(e)' <=> Readable(e)
  BY SameReadable DEF WriteRoot
<1>5. Contents!SetRoot(d)
  BY <1>2, <1>3, <1>4, SameContent DEF Contents!SetRoot, WriteRoot, Intact
<1> QED
  BY <1>5 DEF Contents!Next

\* Every other step stutters.
LEMMA StutterStep ==
  ASSUME UNCHANGED <<root, tears>>, \A e \in Digest : Readable(e)' <=> Readable(e)
  PROVE  UNCHANGED Contents!vars
BY SameContent DEF Contents!vars, Intact

LEMMA ContentsNext ==
  IInv /\ [Next]_vars => [Contents!Next]_(Contents!vars)
<1> SUFFICES ASSUME IInv, [Next]_vars
             PROVE  Contents!Next \/ UNCHANGED Contents!vars
  OBVIOUS
<1>1. ASSUME UNCHANGED <<index, data, root, tears>>
      PROVE  UNCHANGED Contents!vars
  BY <1>1, SameReadable, StutterStep
<1>2. ASSUME NEW c \in Caller, NEW d \in Digest, IndexInsert(c, d)
      PROVE  UNCHANGED Contents!vars
  <2>1. Stored(index, data) /\ Addressed /\ offset \in 0 .. Len(data)
    BY DEF IInv, TypeOK, Stored
  <2>2. \A e \in Digest : Readable(e)' <=> Readable(e)
    BY <1>2, <2>1, InsertedReadable
  <2> QED
    BY <1>2, <2>2, StutterStep DEF IndexInsert
<1>3. ASSUME NEW c \in Caller, NEW d \in Digest, Begin(c, d) \/ AlreadyThere(c, d)
      PROVE  UNCHANGED Contents!vars
  BY <1>1, <1>3 DEF Begin, AlreadyThere
<1>4. ASSUME NEW c \in Caller,
             Retry(c) \/ Return(c) \/ Commit(c) \/ Flush(c) \/ Fail(c)
      PROVE  UNCHANGED Contents!vars
  BY <1>1, <1>4 DEF Retry, Return, Commit, Flush, Fail
<1>5. ASSUME NEW c \in Caller, DataWriteFails(c)
      PROVE  Contents!Next
  <2>1. ~Unlocked
    BY <1>5, NobodyIsOther DEF Unlocked, DataWriteFails
  <2> QED
    BY <1>5, <2>1, TearStep DEF DataWriteFails
<1>6. CASE RestoreRoot
  BY <1>1, <1>6 DEF RestoreRoot
<1>7. CASE Restart
  BY <1>1, <1>7, TearStep DEF Restart
<1>8. CASE UNCHANGED vars
  BY <1>1, <1>8 DEF vars
<1> QED
  BY <1>2, <1>3, <1>4, <1>5, <1>6, <1>7, <1>8, AddStep, SetRootStep DEF Next

\* The disk backend implements the content store: nodes appear below to above,
\* none is lost over failed calls and restarts, and a torn put harms none that
\* could be read.
THEOREM DiskImplementsContents == Spec => ImplementsContentStore
BY Invariance, ContentsInit, ContentsNext, PTL
   DEF Spec, Contents!Spec, ImplementsContentStore

============================================================================
