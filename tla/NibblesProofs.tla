---------------------------- MODULE NibblesProofs ----------------------------
(***************************************************************************)
(* What the operations on nibble buffers do to the nibbles they spell, for *)
(* buffers of any length: the radix tree cuts, joins and saves the paths   *)
(* to its values with them.                                                *)
(***************************************************************************)
EXTENDS Nibbles, SequenceTheorems, WellFoundedInduction, TLAPS

\* A buffer has the byte of each of its nibbles.
LEMMA NibbleInBuffer ==
  ASSUME NEW b \in NibbleBuf, NEW i \in 0 .. Count(b) - 1
  PROVE  /\ (b.front + i) \div 2 + 1 \in 1 .. Len(b.bytes)
         /\ b.bytes[(b.front + i) \div 2 + 1] \in Byte
         /\ NibbleAt(b, i) \in Nibble
<1>1. (b.front + i) \div 2 + 1 \in 1 .. Len(b.bytes)
  BY DEF NibbleBuf, Count
<1>2. b.bytes[(b.front + i) \div 2 + 1] \in Byte
  BY <1>1 DEF NibbleBuf
<1>3. NibbleAt(b, i) \in Nibble
  BY <1>2 DEF NibbleAt, Nibble, Byte
<1> QED BY <1>1, <1>2, <1>3

\* The bytes from start to end that the nibbles from f to k are in.
LEMMA BytesOf ==
  ASSUME NEW f \in Nat, NEW k \in Nat, NEW l \in Nat, f <= k, k <= 2 * l
  PROVE  /\ f \div 2 \in Nat /\ (k + 1) \div 2 \in Nat
         /\ 2 * (f \div 2) <= f
         /\ f \div 2 <= (k + 1) \div 2 /\ (k + 1) \div 2 <= l
         /\ f - 2 * (f \div 2) \in Nat /\ k - 2 * (f \div 2) \in Nat
         /\ k - 2 * (f \div 2) <= 2 * ((k + 1) \div 2 - f \div 2)
         /\ (k - 2 * (f \div 2) + 1) \div 2 = (k + 1) \div 2 - f \div 2
  OBVIOUS

\* Moving the start by whole bytes.
LEMMA Shifted ==
  ASSUME NEW n \in Nat, NEW s \in Nat, 2 * s <= n
  PROVE  /\ (n - 2 * s) \div 2 = n \div 2 - s
         /\ (n - 2 * s) % 2 = n % 2
  OBVIOUS

\* A buffer is made of bytes and two offsets into them.
LEMMA Parts ==
  ASSUME NEW b \in NibbleBuf
  PROVE  \E s \in Seq(Byte), f \in Nat, k \in Nat :
           b = [bytes |-> s, front |-> f, back |-> k] /\ f <= k /\ k <= 2 * Len(s)
  BY DEF NibbleBuf

\* bytes are those of s that the nibbles from f to k are in.
SavedAs(s, f, k, start, bytes) ==
  /\ Saved([bytes |-> s, front |-> f, back |-> k]) =
       [bytes |-> bytes, front |-> f - 2 * start, back |-> k - 2 * start]
  /\ \A j \in 1 .. Len(bytes) : bytes[j] = s[start + j]
  /\ Len(bytes) = (k - 2 * start + 1) \div 2
  /\ 2 * start <= f /\ k - 2 * start <= 2 * Len(bytes)

\* Saving takes the bytes that the nibbles are in.
LEMMA SavedBytes ==
  ASSUME NEW s \in Seq(Byte), NEW f \in Nat, NEW k \in Nat, f <= k, k <= 2 * Len(s),
         NEW start \in Nat, start = f \div 2
  PROVE  \E bytes \in Seq(Byte) : SavedAs(s, f, k, start, bytes)
<1>1. PICK end \in Nat : end = (k + 1) \div 2
  OBVIOUS
<1>2. PICK bytes : bytes = SubSeq(s, start + 1, end)
  OBVIOUS
<1>3. Len(s) \in Nat
  OBVIOUS
<1>4. /\ 2 * start <= f /\ start <= end /\ end <= Len(s)
      /\ f - 2 * start \in Nat /\ k - 2 * start \in Nat
      /\ k - 2 * start <= 2 * (end - start)
      /\ (k - 2 * start + 1) \div 2 = end - start
  BY <1>1, <1>3, BytesOf
<1>5. /\ bytes \in Seq(Byte)
      /\ Len(bytes) = end - start
      /\ \A j \in 1 .. end - start : bytes[j] = s[start + j]
  <2>1. \A j \in start + 1 .. end : s[j] \in Byte
    BY <1>4
  <2>2. /\ bytes \in Seq(Byte)
        /\ Len(bytes) = IF start + 1 <= end THEN end - (start + 1) + 1 ELSE 0
        /\ \A j \in 1 .. end - (start + 1) + 1 : bytes[j] = s[start + 1 + j - 1]
    BY <1>2, <2>1, SubSeqProperties
  <2>3. start <= end
    BY <1>4
  <2>4. Len(bytes) = end - start
    BY <2>2, <2>3
  <2>5. \A j \in 1 .. end - start : bytes[j] = s[start + j]
    <3> TAKE j \in 1 .. end - start
    <3>1. j \in 1 .. end - (start + 1) + 1 /\ start + 1 + j - 1 = start + j
      OBVIOUS
    <3> QED BY <2>2, <3>1
  <2> QED BY <2>2, <2>4, <2>5
<1>6. Saved([bytes |-> s, front |-> f, back |-> k]) =
        [bytes |-> bytes, front |-> f - 2 * start, back |-> k - 2 * start]
  BY <1>1, <1>2 DEF Saved
<1>7. \A j \in 1 .. Len(bytes) : bytes[j] = s[start + j]
  BY <1>5
<1>8. /\ Len(bytes) = (k - 2 * start + 1) \div 2
      /\ 2 * start <= f /\ k - 2 * start <= 2 * Len(bytes)
  BY <1>4, <1>5
<1> QED BY <1>5, <1>6, <1>7, <1>8, Zenon DEF SavedAs

\* Saving a buffer and restoring it gives a buffer with the same nibbles,
\* wherever in its bytes they begin and end (nibbles.rs:277-322).
THEOREM SaveKeepsNibbles ==
  ASSUME NEW b \in NibbleBuf
  PROVE  /\ Restored(Saved(b)) \in NibbleBuf
         /\ Spelled(Restored(Saved(b))) = Spelled(b)
<1>1. PICK s \in Seq(Byte), f \in Nat, k \in Nat :
        b = [bytes |-> s, front |-> f, back |-> k] /\ f <= k /\ k <= 2 * Len(s)
  BY Parts
<1>2. PICK start \in Nat : start = f \div 2
  OBVIOUS
<1>3. f <= k /\ k <= 2 * Len(s)
  BY <1>1
<1>4. PICK bytes \in Seq(Byte) : SavedAs(s, f, k, start, bytes)
  BY <1>2, <1>3, SavedBytes
<1>5. PICK r : r = Restored(Saved(b))
  OBVIOUS
<1>6. r = [bytes |-> bytes, front |-> f - 2 * start, back |-> k - 2 * start]
  <2>1. SubSeq(bytes, 1, (k - 2 * start + 1) \div 2) = bytes
    <3>1. SubSeq(bytes, 1, Len(bytes)) = bytes
      BY SubSeqFull
    <3> QED BY <1>4, <3>1, Zenon DEF SavedAs
  <2>2. Saved(b) = [bytes |-> bytes, front |-> f - 2 * start, back |-> k - 2 * start]
    BY <1>1, <1>4, Zenon DEF SavedAs
  <2> QED BY <1>5, <2>1, <2>2 DEF Restored
<1>7. /\ 2 * start <= f /\ f - 2 * start \in Nat /\ k - 2 * start \in Nat
      /\ f - 2 * start <= k - 2 * start
  <2>1. 2 * start <= f
    BY <1>4, Zenon DEF SavedAs
  <2> QED BY <1>3, <2>1
<1>8. r \in NibbleBuf
  BY <1>4, <1>6, <1>7 DEF NibbleBuf, SavedAs
<1>9. Count(r) = Count(b) /\ Count(b) = k - f
  <2>1. k - 2 * start - (f - 2 * start) = k - f
    BY <1>3
  <2> QED BY <1>1, <1>6, <2>1 DEF Count
<1>10. ASSUME NEW i \in 0 .. Count(b) - 1
       PROVE  NibbleAt(r, i) = NibbleAt(b, i)
  <2>1. i \in Nat
    BY <1>9
  <2>2. PICK n \in Nat : n = f + i
    BY <2>1
  <2>3. /\ (n - 2 * start) \div 2 = n \div 2 - start
        /\ (n - 2 * start) % 2 = n % 2
        /\ f - 2 * start + i = n - 2 * start
    BY <1>7, <2>1, <2>2, Shifted
  <2>4. (n - 2 * start) \div 2 + 1 \in 1 .. Len(bytes)
    <3>1. r = [bytes |-> bytes, front |-> f - 2 * start, back |-> k - 2 * start] /\ i \in 0 .. Count(r) - 1
      BY <1>6, <1>9
    <3>2. (r.front + i) \div 2 + 1 \in 1 .. Len(r.bytes)
      BY <1>8, <3>1, NibbleInBuffer
    <3> QED BY <3>1, <3>2, <2>3
  <2>5. bytes[(n - 2 * start) \div 2 + 1] = s[n \div 2 + 1]
    <3>1. PICK j \in 1 .. Len(bytes) : j = (n - 2 * start) \div 2 + 1
      BY <2>4
    <3>2. n \div 2 \in Int
      OBVIOUS
    <3>3. start + j = n \div 2 + 1
      BY <2>3, <3>1, <3>2
    <3>4. bytes[j] = s[start + j]
      BY <1>4, Zenon DEF SavedAs
    <3> QED BY <3>1, <3>3, <3>4, Zenon
  <2>6. NibbleAt(b, i) = IF n % 2 = 0 THEN s[n \div 2 + 1] \div 16 ELSE s[n \div 2 + 1] % 16
    BY <1>1, <2>2 DEF NibbleAt
  <2>7. NibbleAt(r, i) = IF n % 2 = 0 THEN s[n \div 2 + 1] \div 16 ELSE s[n \div 2 + 1] % 16
    BY <1>6, <2>3, <2>5 DEF NibbleAt
  <2> QED BY <2>6, <2>7
<1>11. Spelled(r) = Spelled(b)
  BY <1>9, <1>10 DEF Spelled
<1> QED BY <1>5, <1>8, <1>11

\* A shorter buffer is one, and spells what is left of the nibbles.
LEMMA Trims ==
  ASSUME NEW b \in NibbleBuf, NEW n \in 0 .. Count(b)
  PROVE  /\ TrimFront(b, n) \in NibbleBuf /\ Count(TrimFront(b, n)) = Count(b) - n
         /\ TrimBack(b, n) \in NibbleBuf /\ Count(TrimBack(b, n)) = Count(b) - n
         /\ \A i \in 0 .. Count(b) - n - 1 :
              /\ NibbleAt(TrimFront(b, n), i) = NibbleAt(b, n + i)
              /\ NibbleAt(TrimBack(b, n), i) = NibbleAt(b, i)
<1>1. Count(b) \in Nat /\ b.front \in Nat /\ b.back \in Nat /\ n \in Nat
  BY DEF NibbleBuf, Count
<1>2. TrimFront(b, n) = [bytes |-> b.bytes, front |-> b.front + n, back |-> b.back]
  BY DEF TrimFront, NibbleBuf
<1>3. TrimBack(b, n) = [bytes |-> b.bytes, front |-> b.front, back |-> b.back - n]
  BY DEF TrimBack, NibbleBuf
<1>4. TrimFront(b, n) \in NibbleBuf /\ Count(TrimFront(b, n)) = Count(b) - n
  BY <1>2 DEF NibbleBuf, Count
<1>5. TrimBack(b, n) \in NibbleBuf /\ Count(TrimBack(b, n)) = Count(b) - n
  BY <1>3 DEF NibbleBuf, Count
<1>6. ASSUME NEW i \in 0 .. Count(b) - n - 1
      PROVE  NibbleAt(TrimFront(b, n), i) = NibbleAt(b, n + i)
  <2>1. b.front + n + i = b.front + (n + i)
    BY <1>1
  <2> QED BY <1>2, <2>1 DEF NibbleAt
<1>7. ASSUME NEW i \in 0 .. Count(b) - n - 1
      PROVE  NibbleAt(TrimBack(b, n), i) = NibbleAt(b, i)
  BY <1>3 DEF NibbleAt
<1> QED BY <1>4, <1>5, <1>6, <1>7

\* Every nibble both buffers begin with is in their common prefix, and the
\* ones after it differ.
LEMMA CommonIsLongest ==
  ASSUME NEW a \in NibbleBuf, NEW b \in NibbleBuf
  PROVE  /\ CommonLen(a, b) \in 0 .. Count(a) /\ CommonLen(a, b) <= Count(b)
         /\ Agree(a, b, CommonLen(a, b))
         /\ (CommonLen(a, b) < Count(a) /\ CommonLen(a, b) < Count(b)) =>
              NibbleAt(a, CommonLen(a, b)) # NibbleAt(b, CommonLen(a, b))
<1> DEFINE shared == {n \in 0 .. Count(a) : n <= Count(b) /\ Agree(a, b, n)}
<1>1. Count(a) \in Nat /\ Count(b) \in Nat
  BY DEF NibbleBuf, Count
<1>2. 0 \in shared
  BY <1>1 DEF Agree
<1>3. PICK top \in shared : \A m \in shared : m <= top
  <2> DEFINE rest == {Count(a) - m : m \in shared}
  <2>1. rest \subseteq Nat /\ rest # {}
    BY <1>1, <1>2
  <2>2. PICK r \in rest : \A q \in rest : ~(<<q, r>> \in OpToRel(<, Nat))
    <3> HIDE DEF rest
    <3> QED BY <2>1, NatLessThanWellFounded, WFMin
  <2>3. PICK n \in shared : r = Count(a) - n
    OBVIOUS
  <2>4. ASSUME NEW m \in shared PROVE m <= n
    <3>1. Count(a) - m \in rest /\ Count(a) - m \in Nat /\ r \in Nat
      BY <2>1
    <3>2. ~(Count(a) - m < r)
      BY <2>2, <3>1 DEF OpToRel
    <3> QED BY <1>1, <2>3, <3>2
  <2> QED BY <2>3, <2>4
<1>4. CommonLen(a, b) \in shared /\ \A m \in shared : m <= CommonLen(a, b)
  <2>1. CommonLen(a, b) = CHOOSE n \in shared : \A m \in shared : m <= n
    BY DEF CommonLen
  <2> HIDE DEF shared
  <2> QED BY <1>3, <2>1
<1>5. ASSUME CommonLen(a, b) < Count(a), CommonLen(a, b) < Count(b),
             NibbleAt(a, CommonLen(a, b)) = NibbleAt(b, CommonLen(a, b))
      PROVE  FALSE
  <2>1. PICK l \in Nat : l = CommonLen(a, b)
    BY <1>1, <1>4
  <2>2. Agree(a, b, l + 1)
    <3>1. \A i \in 0 .. l + 1 - 1 : i \in 0 .. l - 1 \/ i = l
      OBVIOUS
    <3>2. \A i \in 0 .. l - 1 : NibbleAt(a, i) = NibbleAt(b, i)
      BY <1>4, <2>1 DEF Agree
    <3> QED BY <1>5, <2>1, <3>1, <3>2 DEF Agree
  <2>3. l + 1 \in 0 .. Count(a) /\ l + 1 <= Count(b)
    BY <1>1, <1>5, <2>1
  <2>4. l + 1 \in shared
    BY <2>2, <2>3
  <2> HIDE DEF shared
  <2> QED BY <1>4, <2>1, <2>4
<1> QED BY <1>4, <1>5

\* The nibbles of a buffer are a sequence.
LEMMA SpelledType ==
  ASSUME NEW b \in NibbleBuf
  PROVE  /\ Spelled(b) \in Seq(Nibble)
         /\ Len(Spelled(b)) = Count(b) /\ Count(b) \in Nat
         /\ \A i \in 1 .. Count(b) : Spelled(b)[i] = NibbleAt(b, i - 1)
<1>1. PICK n \in Nat : n = Count(b)
  BY DEF NibbleBuf, Count
<1>2. \A i \in 1 .. n : i - 1 \in 0 .. n - 1
  OBVIOUS
<1>3. \A i \in 1 .. n : NibbleAt(b, i - 1) \in Nibble
  BY <1>1, <1>2, NibbleInBuffer
<1>4. Spelled(b) = [i \in 1 .. n |-> NibbleAt(b, i - 1)]
  BY <1>1 DEF Spelled
<1> QED BY <1>1, <1>3, <1>4

\* Cutting a buffer in two.
LEMMA Cut ==
  ASSUME NEW b \in NibbleBuf, NEW c \in NibbleBuf, NEW n \in 0 .. Count(b),
         Count(c) = n, \A i \in 0 .. n - 1 : NibbleAt(c, i) = NibbleAt(b, i)
  PROVE  Spelled(b) = Spelled(c) \o Spelled(TrimFront(b, n))
<1>1. Count(b) \in Nat /\ n \in Nat /\ Count(b) - n \in Nat
  BY SpelledType
<1>2. PICK r \in NibbleBuf : r = TrimFront(b, n)
  BY Trims
<1>3. Count(r) = Count(b) - n /\ \A i \in 0 .. Count(b) - n - 1 : NibbleAt(r, i) = NibbleAt(b, n + i)
  BY <1>2, Trims
<1>4. /\ Spelled(c) \o Spelled(r) \in Seq(Nibble)
      /\ Len(Spelled(c) \o Spelled(r)) = Count(b)
      /\ \A i \in 1 .. Count(b) :
           (Spelled(c) \o Spelled(r))[i] = IF i <= n THEN Spelled(c)[i] ELSE Spelled(r)[i - n]
  <2>1. /\ Spelled(c) \in Seq(Nibble) /\ Len(Spelled(c)) = n
        /\ Spelled(r) \in Seq(Nibble) /\ Len(Spelled(r)) = Count(b) - n
    BY <1>3, SpelledType
  <2>2. Len(Spelled(c)) + Len(Spelled(r)) = Count(b)
    BY <1>1, <2>1
  <2>3. /\ Spelled(c) \o Spelled(r) \in Seq(Nibble)
        /\ Len(Spelled(c) \o Spelled(r)) = Len(Spelled(c)) + Len(Spelled(r))
        /\ \A i \in 1 .. Len(Spelled(c)) + Len(Spelled(r)) :
             (Spelled(c) \o Spelled(r))[i] =
               IF i <= Len(Spelled(c)) THEN Spelled(c)[i] ELSE Spelled(r)[i - Len(Spelled(c))]
    BY <2>1, ConcatProperties, Zenon
  <2>4. Len(Spelled(c)) = n
    BY <2>1
  <2> QED BY <2>2, <2>3, <2>4, Zenon
<1>5. ASSUME NEW i \in 1 .. Count(b)
      PROVE  Spelled(b)[i] = (Spelled(c) \o Spelled(r))[i]
  <2>1. CASE i <= n
    <3>1. i \in 1 .. n /\ i - 1 \in 0 .. n - 1
      BY <1>1, <2>1
    <3>2. Spelled(c)[i] = NibbleAt(c, i - 1) /\ Spelled(b)[i] = NibbleAt(b, i - 1)
      BY <3>1, SpelledType
    <3> QED BY <1>4, <2>1, <3>1, <3>2
  <2>2. CASE ~(i <= n)
    <3>1. /\ i - n \in 1 .. Count(b) - n /\ i - n - 1 \in 0 .. Count(b) - n - 1
          /\ n + (i - n - 1) = i - 1
      BY <1>1, <2>2
    <3>2. Spelled(r)[i - n] = NibbleAt(r, i - n - 1) /\ Spelled(b)[i] = NibbleAt(b, i - 1)
      BY <1>3, <3>1, SpelledType
    <3> QED BY <1>3, <1>4, <2>2, <3>1, <3>2
  <2> QED BY <2>1, <2>2
<1> QED BY <1>2, <1>4, <1>5, SpelledType, SeqEqual

\* A split (lib.rs:196-216) keeps both ways. The path in the node and the search
\* are each their common prefix and what is left after it, and if nibbles are
\* left of both they begin differently: the two go to different handles.
THEOREM SplitKeepsWays ==
  ASSUME NEW search \in NibbleBuf, NEW path \in NibbleBuf,
         NEW common \in NibbleBuf, common = CommonPrefix(search, path)
  PROVE  /\ Spelled(search) = Spelled(common) \o Spelled(TrimFront(search, Count(common)))
         /\ Spelled(path) = Spelled(common) \o Spelled(TrimFront(path, Count(common)))
         /\ (Count(common) < Count(search) /\ Count(common) < Count(path)) =>
              FirstNibble(TrimFront(search, Count(common))) #
                FirstNibble(TrimFront(path, Count(common)))
<1>1. PICK n \in Nat : n = CommonLen(search, path)
  BY CommonIsLongest
<1>2. /\ n \in 0 .. Count(search) /\ n \in 0 .. Count(path)
      /\ Count(search) \in Nat /\ Count(path) \in Nat
  BY <1>1, CommonIsLongest, SpelledType
<1>3. Agree(search, path, n)
  BY <1>1, CommonIsLongest
<1>4. Count(search) - n \in 0 .. Count(search) /\ Count(search) - (Count(search) - n) = n
  BY <1>2
<1>5. common = TrimBack(search, Count(search) - n)
  BY <1>1 DEF CommonPrefix
<1>6. Count(common) = n
  BY <1>4, <1>5, Trims
<1>7. \A i \in 0 .. n - 1 : NibbleAt(common, i) = NibbleAt(search, i)
  BY <1>4, <1>5, Trims
<1>8. \A i \in 0 .. n - 1 : NibbleAt(common, i) = NibbleAt(path, i)
  BY <1>3, <1>7 DEF Agree
<1>9. ASSUME n < Count(search), n < Count(path)
      PROVE  FirstNibble(TrimFront(search, n)) # FirstNibble(TrimFront(path, n))
  <2>1. 0 \in 0 .. Count(search) - n - 1 /\ 0 \in 0 .. Count(path) - n - 1 /\ n + 0 = n
    BY <1>2, <1>9
  <2>2. NibbleAt(TrimFront(search, n), 0) = NibbleAt(search, n)
    BY <1>2, <2>1, Trims
  <2>3. NibbleAt(TrimFront(path, n), 0) = NibbleAt(path, n)
    BY <1>2, <2>1, Trims
  <2>4. NibbleAt(search, n) # NibbleAt(path, n)
    BY <1>1, <1>9, CommonIsLongest
  <2> QED BY <2>2, <2>3, <2>4 DEF FirstNibble
<1>10. Spelled(search) = Spelled(common) \o Spelled(TrimFront(search, n))
  BY <1>2, <1>6, <1>7, Cut
<1>11. Spelled(path) = Spelled(common) \o Spelled(TrimFront(path, n))
  BY <1>2, <1>6, <1>8, Cut
<1> QED BY <1>6, <1>9, <1>10, <1>11

\* Replacing a nibble of a byte.
LEMMA NibbleOfByte ==
  ASSUME NEW y \in Byte, NEW x \in Nibble
  PROVE  /\ (y % 16) + 16 * x \in Byte /\ 16 * (y \div 16) + x \in Byte
         /\ ((y % 16) + 16 * x) \div 16 = x
         /\ (16 * (y \div 16) + x) % 16 = x
         /\ (16 * (y \div 16) + x) \div 16 = y \div 16
  BY DEF Byte, Nibble

\* push (nibbles.rs:234) puts a nibble after the others and changes none of
\* them, also when the byte it goes into holds the last of them.
THEOREM PushAppends ==
  ASSUME NEW b \in NibbleBuf, NEW x \in Nibble
  PROVE  Push(b, x) \in NibbleBuf /\ Spelled(Push(b, x)) = Append(Spelled(b), x)
<1>1. PICK s \in Seq(Byte), f \in Nat, k \in Nat :
        b = [bytes |-> s, front |-> f, back |-> k] /\ f <= k /\ k <= 2 * Len(s)
  BY Parts
<1>2. f <= k /\ k <= 2 * Len(s) /\ Len(s) \in Nat
  BY <1>1
<1>3. PICK at \in Nat : at = k \div 2 + 1
  OBVIOUS
<1>4. PICK t : t = IF at > Len(s) THEN Append(s, 0) ELSE s
  OBVIOUS
<1>5. /\ t \in Seq(Byte) /\ Len(t) \in Nat /\ at \in 1 .. Len(t) /\ k + 1 <= 2 * Len(t)
      /\ \A j \in 1 .. Len(s) : t[j] = s[j]
  <2>1. CASE at > Len(s)
    <3>1. t = Append(s, 0) /\ 0 \in Byte
      BY <1>4, <2>1 DEF Byte
    <3>2. t \in Seq(Byte) /\ Len(t) = Len(s) + 1 /\ \A j \in 1 .. Len(s) : t[j] = s[j]
      BY <3>1, AppendProperties
    <3> QED BY <1>2, <1>3, <2>1, <3>2
  <2>2. CASE ~(at > Len(s))
    BY <1>2, <1>3, <1>4, <2>2
  <2> QED BY <2>1, <2>2
<1>6. PICK byte : byte = IF k % 2 = 0 THEN (t[at] % 16) + 16 * x ELSE (16 * (t[at] \div 16)) + x
  OBVIOUS
<1>7. t[at] \in Byte
  BY <1>5, ElementOfSeq
<1>8. byte \in Byte
  BY <1>6, <1>7, NibbleOfByte
<1>9. PICK u : u = [t EXCEPT ![at] = byte]
  OBVIOUS
<1>10. /\ u \in Seq(Byte) /\ Len(u) = Len(t) /\ u[at] = byte
       /\ \A j \in 1 .. Len(s) : j # at => u[j] = s[j]
  BY <1>5, <1>8, <1>9
<1>11. PICK r : r = Push(b, x)
  OBVIOUS
<1>12. r = [bytes |-> u, front |-> f, back |-> k + 1]
  <2>1. Count(b) = k - f /\ f + (k - f) = k
    BY <1>1, <1>2 DEF Count
  <2>2. [b EXCEPT !.back = @ + 1] = [bytes |-> s, front |-> f, back |-> k + 1]
    BY <1>1
  <2>3. PICK c : c = [bytes |-> s, front |-> f, back |-> k + 1]
    OBVIOUS
  <2>4. c.bytes = s /\ c.front + (k - f) = k
    BY <2>1, <2>3
  <2>5. SetNibble(c, k - f, x) = [c EXCEPT !.bytes = u]
    BY <1>3, <1>4, <1>6, <1>9, <2>4, Zenon DEF SetNibble
  <2>6. [c EXCEPT !.bytes = u] = [bytes |-> u, front |-> f, back |-> k + 1]
    BY <2>3
  <2> QED BY <1>11, <2>1, <2>2, <2>3, <2>5, <2>6 DEF Push
<1>13. r \in NibbleBuf
  BY <1>2, <1>5, <1>10, <1>12 DEF NibbleBuf
<1>14. Count(b) = k - f /\ Count(r) = k - f + 1 /\ k - f \in Nat
  BY <1>1, <1>2, <1>12 DEF Count
<1>15. NibbleAt(r, k - f) = x
  <2>1. f + (k - f) = k
    BY <1>2
  <2>2. NibbleAt(r, k - f) = IF k % 2 = 0 THEN byte \div 16 ELSE byte % 16
    BY <1>3, <1>10, <1>12, <2>1 DEF NibbleAt
  <2> QED BY <1>6, <1>7, <2>2, NibbleOfByte
<1>16. ASSUME NEW i \in 0 .. k - f - 1
       PROVE  NibbleAt(r, i) = NibbleAt(b, i)
  <2>1. PICK n \in Nat : n = f + i
    BY <1>14
  <2>2. n < k
    BY <1>2, <2>1
  <2>3. PICK j \in Nat : j = n \div 2 + 1
    OBVIOUS
  <2>4. /\ j \in 1 .. Len(s)
        /\ j = at => n % 2 = 0 /\ k % 2 # 0
    BY <1>2, <1>3, <2>2, <2>3
  <2>5. NibbleAt(r, i) = IF n % 2 = 0 THEN u[j] \div 16 ELSE u[j] % 16
    BY <1>12, <2>1, <2>3 DEF NibbleAt
  <2>6. NibbleAt(b, i) = IF n % 2 = 0 THEN s[j] \div 16 ELSE s[j] % 16
    BY <1>1, <2>1, <2>3 DEF NibbleAt
  <2>7. CASE j = at
    <3>1. byte = (16 * (t[at] \div 16)) + x /\ t[at] = s[j] /\ u[j] = byte
      BY <1>5, <1>6, <1>10, <2>4, <2>7
    <3>2. byte \div 16 = s[j] \div 16
      BY <1>7, <3>1, NibbleOfByte
    <3> QED BY <2>4, <2>5, <2>6, <2>7, <3>1, <3>2
  <2>8. CASE j # at
    BY <1>10, <2>4, <2>5, <2>6, <2>8
  <2> QED BY <2>7, <2>8
<1>17. PICK w : w = Append(Spelled(b), x)
  OBVIOUS
<1>18. /\ w \in Seq(Nibble) /\ Len(w) = k - f + 1
       /\ \A i \in 1 .. k - f : w[i] = Spelled(b)[i]
       /\ w[k - f + 1] = x
  <2>1. Spelled(b) \in Seq(Nibble) /\ Len(Spelled(b)) = k - f
    BY <1>14, SpelledType
  <2> QED BY <1>17, <2>1, AppendProperties
<1>19. ASSUME NEW i \in 1 .. k - f + 1
       PROVE  Spelled(r)[i] = w[i]
  <2>1. Spelled(r)[i] = NibbleAt(r, i - 1)
    BY <1>13, <1>14, SpelledType
  <2>2. CASE i = k - f + 1
    BY <1>14, <1>15, <1>18, <2>1, <2>2
  <2>3. CASE i # k - f + 1
    <3>1. i \in 1 .. k - f /\ i - 1 \in 0 .. k - f - 1
      BY <1>14, <2>3
    <3>2. Spelled(b)[i] = NibbleAt(b, i - 1)
      BY <1>14, <3>1, SpelledType
    <3> QED BY <1>16, <1>18, <2>1, <3>1, <3>2
  <2> QED BY <2>2, <2>3
<1>20. Spelled(r) \in Seq(Nibble) /\ Len(Spelled(r)) = k - f + 1
  BY <1>13, <1>14, SpelledType
<1>21. Spelled(r) = w
  BY <1>18, <1>19, <1>20, SeqEqual
<1> QED BY <1>11, <1>13, <1>17, <1>21

\* Induction, for a set.
LEMMA UpTo ==
  ASSUME NEW S \in SUBSET Nat, 0 \in S, \A n \in S : n + 1 \in S
  PROVE  S = Nat
<1> SUFFICES ASSUME Nat \ S # {}
             PROVE  FALSE
  OBVIOUS
<1>1. PICK m \in Nat \ S : \A k \in Nat \ S : <<k, m>> \notin OpToRel(<, Nat)
  BY NatLessThanWellFounded, WFMin
<1>2. m \in Nat /\ m # 0
  OBVIOUS
<1>3. m - 1 \in Nat /\ m - 1 < m /\ (m - 1) + 1 = m
  BY <1>2
<1>4. m - 1 \in S
  BY <1>1, <1>3 DEF OpToRel
<1> QED BY <1>3, <1>4

\* The buffers while append pushes the first n nibbles of c, one by one.
Pushing(b, c, n, first) ==
  first = [k \in 0 .. n |-> IF k = 0 THEN b ELSE Push(first[k - 1], NibbleAt(c, k - 1))]

\* append goes through such buffers, to its last.
LEMMA AppendPushes ==
  ASSUME NEW b \in NibbleBuf, NEW c \in NibbleBuf
  PROVE  \E first : Pushing(b, c, Count(c), first) /\ Extended(b, c) = first[Count(c)]
<1> DEFINE S == {n \in Nat : \E first : Pushing(b, c, n, first)}
<1>1. 0 \in S
  <2> DEFINE first == [k \in 0 .. 0 |-> b]
  <2>1. Pushing(b, c, 0, first)
    BY DEF Pushing
  <2> QED BY <2>1
<1>2. ASSUME NEW n \in S
      PROVE  n + 1 \in S
  <2>1. PICK f : Pushing(b, c, n, f)
    OBVIOUS
  <2> DEFINE last == Push(f[n], NibbleAt(c, n))
             g == [k \in 0 .. n + 1 |-> IF k = n + 1 THEN last ELSE f[k]]
  <2>2. ASSUME NEW k \in 0 .. n + 1
        PROVE  g[k] = IF k = 0 THEN b ELSE Push(g[k - 1], NibbleAt(c, k - 1))
    <3>1. CASE k = n + 1
      <4>1. k # 0 /\ k - 1 = n /\ k - 1 # n + 1 /\ k - 1 \in 0 .. n + 1
        BY <3>1
      <4>2. g[k] = last /\ g[k - 1] = f[n]
        BY <3>1, <4>1
      <4> QED BY <4>1, <4>2
    <3>2. CASE k # n + 1
      <4>1. k \in 0 .. n /\ (k # 0 => k - 1 \in 0 .. n + 1 /\ k - 1 # n + 1)
        BY <3>2
      <4>2. g[k] = f[k] /\ (k # 0 => g[k - 1] = f[k - 1])
        BY <3>2, <4>1
      <4>3. \A j \in 0 .. n : f[j] = IF j = 0 THEN b ELSE Push(f[j - 1], NibbleAt(c, j - 1))
        BY <2>1, Zenon DEF Pushing
      <4> HIDE DEF g
      <4> QED BY <4>1, <4>2, <4>3
    <3> QED BY <3>1, <3>2
  <2>3. Pushing(b, c, n + 1, g)
    BY <2>2 DEF Pushing
  <2>4. n + 1 \in Nat
    OBVIOUS
  <2> HIDE DEF g
  <2> QED BY <2>3, <2>4
<1>3. S = Nat
  <2>1. S \in SUBSET Nat
    OBVIOUS
  <2> HIDE DEF S
  <2> QED BY <1>1, <1>2, <2>1, UpTo
<1>4. \E first : Pushing(b, c, Count(c), first)
  BY <1>3, SpelledType
<1>5. Extended(b, c) = (CHOOSE first : Pushing(b, c, Count(c), first))[Count(c)]
  BY DEF Extended, Pushing
<1> QED BY <1>4, <1>5

\* Appending to the second of two sequences is appending to both.
LEMMA AppendConcat ==
  ASSUME NEW w \in Seq(Nibble), NEW u \in Seq(Nibble), NEW x \in Nibble
  PROVE  Append(w \o u, x) = w \o Append(u, x)
<1>1. PICK a \in Seq(Nibble) : a = w \o u
  BY ConcatProperties
<1>2. PICK e \in Seq(Nibble) : e = Append(u, x)
  BY AppendProperties
<1>3. PICK l \in Nat, m \in Nat : l = Len(w) /\ m = Len(u)
  OBVIOUS
<1>4. /\ Len(a) = l + m
      /\ \A i \in 1 .. l + m : a[i] = IF i <= l THEN w[i] ELSE u[i - l]
  BY <1>1, <1>3, ConcatProperties
<1>5. /\ Len(e) = m + 1 /\ e[m + 1] = x
      /\ \A i \in 1 .. m : e[i] = u[i]
  BY <1>2, <1>3
<1>6. /\ w \o e \in Seq(Nibble)
      /\ Len(w \o e) = l + (m + 1)
      /\ \A i \in 1 .. l + (m + 1) : (w \o e)[i] = IF i <= l THEN w[i] ELSE e[i - l]
  <2>1. /\ w \o e \in Seq(Nibble)
        /\ Len(w \o e) = Len(w) + Len(e)
        /\ \A i \in 1 .. Len(w) + Len(e) :
             (w \o e)[i] = IF i <= Len(w) THEN w[i] ELSE e[i - Len(w)]
    BY ConcatProperties, Zenon
  <2> QED BY <1>3, <1>5, <2>1, Zenon
<1>7. PICK r : r = Append(a, x)
  OBVIOUS
<1>8. /\ r \in Seq(Nibble) /\ Len(r) = l + m + 1 /\ r[l + m + 1] = x
      /\ \A i \in 1 .. l + m : r[i] = a[i]
  BY <1>4, <1>7
<1>9. ASSUME NEW i \in 1 .. l + m + 1
      PROVE  r[i] = (w \o e)[i]
  <2>0. (w \o e)[i] = IF i <= l THEN w[i] ELSE e[i - l]
    BY <1>6
  <2>1. CASE i = l + m + 1
    <3>1. ~(i <= l) /\ i - l = m + 1
      BY <2>1
    <3> QED BY <1>5, <1>8, <2>0, <2>1, <3>1
  <2>2. CASE i # l + m + 1
    <3>1. i \in 1 .. l + m /\ (~(i <= l) => i - l \in 1 .. m)
      BY <2>2
    <3>2. ~(i <= l) => e[i - l] = u[i - l]
      BY <1>5, <3>1
    <3>3. r[i] = IF i <= l THEN w[i] ELSE u[i - l]
      BY <1>4, <1>8, <3>1
    <3> QED BY <2>0, <3>2, <3>3
  <2> QED BY <2>1, <2>2
<1>10. r = w \o e
  <2>1. l + (m + 1) = l + m + 1
    OBVIOUS
  <2> QED BY <1>6, <1>8, <1>9, <2>1, SeqEqual
<1> QED BY <1>1, <1>2, <1>7, <1>10, Zenon

\* append (nibbles.rs:240) puts the nibbles of one buffer after those of the
\* other, wherever in their bytes the two begin and end: a collapse (lib.rs:325)
\* joins two prefixes into the way to the value that is left.
THEOREM AppendJoins ==
  ASSUME NEW b \in NibbleBuf, NEW c \in NibbleBuf
  PROVE  /\ Extended(b, c) \in NibbleBuf
         /\ Spelled(Extended(b, c)) = Spelled(b) \o Spelled(c)
<1>1. PICK f : Pushing(b, c, Count(c), f) /\ Extended(b, c) = f[Count(c)]
  BY AppendPushes
<1>2. PICK w \in Seq(Nibble), v \in Seq(Nibble) : w = Spelled(b) /\ v = Spelled(c)
  BY SpelledType
<1>3. Len(v) = Count(c) /\ Len(v) \in Nat /\ \A i \in 1 .. Len(v) : v[i] = NibbleAt(c, i - 1)
  BY <1>2, SpelledType
<1> DEFINE Joined(n) == f[n] \in NibbleBuf /\ Spelled(f[n]) = w \o SubSeq(v, 1, n)
           S == {n \in Nat : n <= Len(v) => Joined(n)}
<1>4. \A k \in 0 .. Len(v) : f[k] = IF k = 0 THEN b ELSE Push(f[k - 1], NibbleAt(c, k - 1))
  BY <1>1, <1>3, Zenon DEF Pushing
<1>5. 0 \in S
  <2>1. f[0] = b
    BY <1>3, <1>4
  <2>2. w \o SubSeq(v, 1, 0) = w
    <3>1. SubSeq(v, 1, 0) = << >>
      OBVIOUS
    <3>2. w \o << >> = w
      BY ConcatEmptySeq
    <3> QED BY <3>1, <3>2, Zenon
  <2> QED BY <1>2, <2>1, <2>2
<1>6. ASSUME NEW n \in S
      PROVE  n + 1 \in S
  <2> SUFFICES ASSUME n + 1 <= Len(v)
               PROVE  Joined(n + 1)
    OBVIOUS
  <2>1. /\ n \in Nat /\ n <= Len(v) /\ n + 1 \in 0 .. Len(v) /\ n + 1 # 0 /\ (n + 1) - 1 = n
        /\ n + 1 \in 1 .. Len(v)
    BY <1>3
  <2>2. PICK x : x = NibbleAt(c, n)
    OBVIOUS
  <2>3. v[n + 1] = x /\ x \in Nibble
    <3>1. v[n + 1] = x
      BY <1>3, <2>1, <2>2
    <3> QED BY <2>1, <3>1, ElementOfSeq
  <2>4. PICK g \in NibbleBuf : g = f[n] /\ Spelled(g) = w \o SubSeq(v, 1, n)
    BY <2>1
  <2>5. f[n + 1] = Push(g, x)
    BY <1>4, <2>1, <2>2, <2>4
  <2>6. Push(g, x) \in NibbleBuf /\ Spelled(Push(g, x)) = Append(w \o SubSeq(v, 1, n), x)
    BY <2>3, <2>4, PushAppends
  <2>7. Append(w \o SubSeq(v, 1, n), x) = w \o SubSeq(v, 1, n + 1)
    <3>1. PICK u \in Seq(Nibble) : u = SubSeq(v, 1, n)
      <4>1. \A i \in 1 .. n : i \in 1 .. Len(v)
        BY <1>3, <2>1
      <4>2. \A i \in 1 .. n : v[i] \in Nibble
        BY <4>1, ElementOfSeq
      <4>3. 1 \in Int /\ n \in Int
        BY <2>1
      <4>4. SubSeq(v, 1, n) \in Seq(Nibble)
        BY <4>2, <4>3, SubSeqProperties
      <4> QED BY <4>4
    <3>2. SubSeq(v, 1, n + 1) = Append(u, x)
      BY <2>1, <2>3, <3>1
    <3>3. Append(w \o u, x) = w \o Append(u, x)
      BY <2>3, AppendConcat
    <3> QED BY <3>1, <3>2, <3>3, Zenon
  <2> QED BY <2>5, <2>6, <2>7
<1>7. S = Nat
  <2>1. S \in SUBSET Nat
    OBVIOUS
  <2> HIDE DEF S
  <2> QED BY <1>5, <1>6, <2>1, UpTo
<1>8. Joined(Len(v))
  <2>1. Len(v) \in S /\ Len(v) <= Len(v)
    BY <1>3, <1>7
  <2> HIDE DEF Joined
  <2> QED BY <2>1
<1>9. SubSeq(v, 1, Len(v)) = v
  BY SubSeqFull
<1> QED BY <1>1, <1>2, <1>3, <1>8, <1>9

\* A collapse (lib.rs:319-327): the prefix of the handle, the nibble under which
\* the value was in the node below and the value's own prefix there become the
\* prefix of the value, which spells what the three did.
THEOREM CollapseKeepsWay ==
  ASSUME NEW path \in NibbleBuf, NEW x \in Nibble, NEW prefix \in NibbleBuf
  PROVE  /\ Extended(Push(path, x), prefix) \in NibbleBuf
         /\ Spelled(Extended(Push(path, x), prefix)) =
              (Spelled(path) \o <<x>>) \o Spelled(prefix)
<1>1. PICK p \in NibbleBuf : p = Push(path, x) /\ Spelled(p) = Append(Spelled(path), x)
  BY PushAppends
<1>2. Append(Spelled(path), x) = Spelled(path) \o <<x>>
  BY SpelledType, AppendIsConcat
<1>3. Extended(p, prefix) \in NibbleBuf /\ Spelled(Extended(p, prefix)) = Spelled(p) \o Spelled(prefix)
  BY AppendJoins
<1> QED BY <1>1, <1>2, <1>3, Zenon

\* pop_nibble (lib.rs:177, 206, 268) takes the first nibble and leaves the others: the
\* handle that a way goes to and the prefix it gets there make up the way.
THEOREM PopKeepsWay ==
  ASSUME NEW b \in NibbleBuf, Count(b) > 0
  PROVE  /\ FirstNibble(b) \in Nibble /\ OtherNibbles(b) \in NibbleBuf
         /\ Spelled(b) = <<FirstNibble(b)>> \o Spelled(OtherNibbles(b))
<1>1. PICK n \in Nat : n = Count(b)
  BY SpelledType
<1>2. n - 1 \in 0 .. Count(b) /\ Count(b) - (n - 1) = 1 /\ 1 \in 0 .. Count(b) /\ 0 \in 0 .. Count(b) - 1
  BY <1>1
<1>3. PICK c \in NibbleBuf : c = TrimBack(b, n - 1)
  BY <1>2, Trims
<1>4. Count(c) = 1 /\ NibbleAt(c, 0) = NibbleAt(b, 0)
  BY <1>1, <1>2, <1>3, Trims
<1>5. Spelled(b) = Spelled(c) \o Spelled(TrimFront(b, 1))
  <2>1. \A i \in 0 .. 1 - 1 : NibbleAt(c, i) = NibbleAt(b, i)
    BY <1>4
  <2> QED BY <1>2, <1>4, <2>1, Cut
<1>6. Spelled(c) = <<NibbleAt(b, 0)>>
  BY <1>4 DEF Spelled
<1>7. NibbleAt(b, 0) \in Nibble /\ TrimFront(b, 1) \in NibbleBuf
  BY <1>2, NibbleInBuffer, Trims
<1> QED BY <1>5, <1>6, <1>7 DEF FirstNibble, OtherNibbles
=============================================================================
