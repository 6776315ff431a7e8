-------------------------------- MODULE MCTwo3 --------------------------------
(* Constants of the model-checking run of Two3. *)
EXTENDS Two3

CONSTANTS u

\* The values do not steer the tree.
MCInput == [key : Key, val : {u}]

\* Until a read fails: searches for three of the keys, which are at every place
\* among those present, and two of the walks.
MCSearches(f) ==
  IF f = 0 THEN {First, Nth(3)} \cup {Two3Search(k) : k \in {2, 5, 8}} ELSE {}
=============================================================================
