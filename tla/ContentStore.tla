---------------------------- MODULE ContentStore ----------------------------
(***************************************************************************)
(* What a content-addressed store with a root promises: nodes are added    *)
(* below to above, none is ever lost, and the root always is the digest of *)
(* a node that is there with everything below it.                          *)
(* Once a write to its medium was torn, only this is left: what could be   *)
(* read stays readable.                                                    *)
(***************************************************************************)
CONSTANTS
  Digest,   \* the digests of the nodes the program may build
  Kids,     \* the digests in the bytes of each node
  NoRoot    \* no root was set yet

VARIABLES
  content,  \* the nodes that can be read back
  root,     \* what Root::restore restores
  intact    \* no write was torn so far

vars == <<content, root, intact>>

\* The sets of nodes that hold all their sub-nodes.
Complete == {S \in SUBSET content : \A d \in S : Kids[d] \subseteq S}

Init == content = {} /\ root = NoRoot /\ intact = TRUE

Add(d) ==
  /\ intact = TRUE => Kids[d] \subseteq content
  /\ content' = content \cup {d}
  /\ UNCHANGED <<root, intact>>

SetRoot(d) ==
  /\ intact = TRUE => \E S \in Complete : d \in S
  /\ root' = d
  /\ UNCHANGED <<content, intact>>

Tear == intact' = FALSE /\ UNCHANGED <<content, root>>

Next ==
  \/ \E d \in Digest : Add(d) \/ SetRoot(d)
  \/ Tear

Spec == Init /\ [][Next]_vars
=============================================================================
