------------------------------ MODULE AnyTree ------------------------------
(***************************************************************************)
(* Branches over the trees of any structure: what search, iteration,       *)
(* writes through branches and proofs (src/raw_branch.rs, branch.rs,       *)
(* iter.rs, proof.rs) guarantee by themselves, whatever the calls of the   *)
(* structure do to the tree in between.                                    *)
(***************************************************************************)
EXTENDS Branches

CONSTANTS
  Node,      \* the nodes that calls may leave
  Whole,     \* those they leave as long as no read has failed
  Answers    \* what calls return

vars == <<tree, reply, levels, walk, faults>>

\* Any call of the structure.
Call ==
  /\ Idle
  /\ \E answer \in Answers :
       /\ answer = Failed => faults < MaxFaults
       /\ \E n \in IF answer = Failed \/ faults > 0 THEN Node ELSE Whole : Changed(n, answer)

Init == \E n \in Whole : BranchInit(n)
Next == BranchNext \/ Call
Spec == Init /\ [][Next]_vars

-----------------------------------------------------------------------------

\* Keys are added, lost or moved only while no branch is open: iterating, writing
\* to the leaf that a branch is at and proving, whatever of it is relinked
\* (raw_branch.rs:205-230) and whichever read fails on the way, leave them where
\* they are. So does saving (handle.rs:148-250).
KeysStay ==
  [][KeysOf(tree') # KeysOf(tree) => Idle /\ Changed(tree', reply') /\ ~Save]_vars

\* What a branch that is only read from has seen of a tree is enough to prove its
\* leaf: from when a search opens it and on over every later one, also on levels
\* that a proof has taken over and that are put back (proof.rs, raw_branch.rs:180-
\* 240), a proof is accepted against the tree. Only a write makes it wait.
Accepted == Proves(Proof, levels[1].node)
ProofsHold ==
  [][(faults' = 0 /\ ~Closed' /\ (Closed \/ Accepted) /\ ~ \E l \in Input : Touch(l))
     => Accepted']_vars
=============================================================================
