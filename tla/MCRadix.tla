-------------------------------- MODULE MCRadix --------------------------------
(* Constants of the model-checking runs of Radix. *)
EXTENDS Radix

CONSTANT u

\* Keys of one length, and the empty one: 1111, 1112 and 1121 nest, 1211
\* begins as they do.
MCKey == {<<>>, <<17, 17>>, <<17, 18>>, <<17, 33>>, <<18, 17>>}
MCInput == [key : Key, val : {u}]

\* Until a read fails.
MCSearches(f) == IF f = 0 THEN {First} \cup {RadixSearch(k) : k \in Key} ELSE {}

\* A key that is the beginning of another.
PrefixKey == {<<17>>, <<17, 17>>}
PrefixInput == [key : Key, val : {u}]
=============================================================================
