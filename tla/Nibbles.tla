-------------------------------- MODULE Nibbles --------------------------------
(***************************************************************************)
(* Sequences of nibbles inside a sequence of bytes, with the offsets where *)
(* they begin and end (structures/radix/src/nibbles.rs): the borrowed      *)
(* Nibbles and the owned NibbleBuf. The bytes may hold nibbles before and  *)
(* after that are not part of the sequence.                                *)
(***************************************************************************)
EXTENDS Integers, Sequences

Byte == 0 .. 255
Nibble == 0 .. 15

NibbleBuf ==
  {b \in [bytes : Seq(Byte), front : Nat, back : Nat] :
     b.front <= b.back /\ b.back <= 2 * Len(b.bytes)}

\* NibbleBuf::default
NoNibbles == [bytes |-> <<>>, front |-> 0, back |-> 0]

\* Nibbles::new
NibblesOf(bytes) == [bytes |-> bytes, front |-> 0, back |-> 2 * Len(bytes)]

Count(b) == b.back - b.front

NibbleAt(b, i) ==
  LET byte == b.bytes[(b.front + i) \div 2 + 1]
  IN IF (b.front + i) % 2 = 0 THEN byte \div 16 ELSE byte % 16

TrimFront(b, by) == [b EXCEPT !.front = @ + by]
TrimBack(b, by) == [b EXCEPT !.back = @ - by]

\* pop_nibble returns the first of the nibbles and leaves the others.
FirstNibble(b) == NibbleAt(b, 0)
OtherNibbles(b) == TrimFront(b, 1)

\* common_prefix: a view of a.
Agree(a, b, n) == \A i \in 0 .. n - 1 : NibbleAt(a, i) = NibbleAt(b, i)
CommonLen(a, b) ==
  LET shared == {n \in 0 .. Count(a) : n <= Count(b) /\ Agree(a, b, n)}
  IN CHOOSE n \in shared : \A m \in shared : m <= n
CommonPrefix(a, b) == TrimBack(a, Count(a) - CommonLen(a, b))

\* NibbleBuf::set: the byte is there already, or is the one past the end.
SetNibble(b, i, x) ==
  LET at == (b.front + i) \div 2 + 1
      bytes == IF at > Len(b.bytes) THEN Append(b.bytes, 0) ELSE b.bytes
      byte == IF (b.front + i) % 2 = 0 THEN (bytes[at] % 16) + 16 * x
              ELSE (16 * (bytes[at] \div 16)) + x
  IN [b EXCEPT !.bytes = [bytes EXCEPT ![at] = byte]]

Push(b, x) == SetNibble([b EXCEPT !.back = @ + 1], Count(b), x)

\* append
Extended(b, c) ==
  LET first[n \in 0 .. Count(c)] ==
        IF n = 0 THEN b ELSE Push(first[n - 1], NibbleAt(c, n - 1))
  IN first[Count(c)]

\* Mutant: the first byte is taken in full.
SavedWhole(b) ==
  [front |-> 0,
   back |-> b.back - 2 * (b.front \div 2),
   bytes |-> SubSeq(b.bytes, b.front \div 2 + 1, (b.back + 1) \div 2)]

\* persist writes the bytes that the nibbles are in; restore reads as many.
Saved(b) ==
  LET start == b.front \div 2
  IN [front |-> b.front - 2 * start,
      back |-> b.back - 2 * start,
      bytes |-> SubSeq(b.bytes, start + 1, (b.back + 1) \div 2)]
Restored(e) ==
  [bytes |-> SubSeq(e.bytes, 1, (e.back + 1) \div 2), front |-> e.front, back |-> e.back]

-----------------------------------------------------------------------------

\* The nibbles themselves: what PartialEq compares.
Spelled(b) == [i \in 1 .. Count(b) |-> NibbleAt(b, i - 1)]
=============================================================================
