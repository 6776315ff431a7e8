-------------------------------- MODULE MCHamt --------------------------------
(* Constants of the model-checking run of Hamt. *)
EXTENDS Hamt, TLC

CONSTANTS k1, k2, k3, u, v

MCInput == [key : Key, val : {u, v}]

\* All three share the first byte, k1 and k2 the second: in HAMT they are six
\* nodes deep at most, in NarrowHAMT nine, and k3 is beside a subtree below the root.
MCHash == (k1 :> <<17, 1, 16>>) @@ (k2 :> <<17, 1, 33>>) @@ (k3 :> <<17, 2, 0>>)

\* All there are.
MCSearches(f) == {First} \cup {Nth(i) : i \in 0 .. 3} \cup {HamtSearch(k) : k \in Key}
=============================================================================
