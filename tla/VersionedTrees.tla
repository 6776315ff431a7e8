--------------------------- MODULE VersionedTrees ---------------------------
(***************************************************************************)
(* What kelvin promises of its trees: each variable holds a value, and the *)
(* program changes that value, saves it in a store under its digest, loads *)
(* it back and copies it. Handles, caches, shared nodes and nodes that are *)
(* loaded on demand do not show.                                           *)
(***************************************************************************)
CONSTANT
  Tree     \* the variables of the program

VARIABLES
  value,   \* the value each variable holds
  saved,   \* the value of every snapshot, by <<store, digest>>
  busy     \* the variables some call borrows as &mut self

vars == <<value, saved, busy>>

Init ==
  /\ DOMAIN value = Tree
  /\ DOMAIN saved = {}
  /\ busy = {}

Begin(r) ==
  /\ r \notin busy
  /\ busy' = busy \cup {r}
  /\ UNCHANGED <<value, saved>>

\* A step of a call that borrows r. It may fail and lose part of r, but it
\* has no effect on any other value.
Change(r) ==
  /\ r \in busy
  /\ DOMAIN value' = Tree
  /\ \A q \in Tree \ {r} : value'[q] = value[q]
  /\ UNCHANGED saved
  /\ busy' \in {busy, busy \ {r}}

\* The digest k identifies one value: saved before, it was of the same value.
Save(r, k) ==
  /\ r \notin busy
  /\ saved' = [j \in DOMAIN saved \cup {k} |-> IF j = k THEN value[r] ELSE saved[j]]
  /\ k \in DOMAIN saved => saved[k] = value[r]
  /\ UNCHANGED <<value, busy>>

Load(r, k) ==
  /\ r \notin busy
  /\ value' = [value EXCEPT ![r] = saved[k]]
  /\ UNCHANGED <<saved, busy>>

Copy(r, q) ==
  /\ {q, r} \cap busy = {}
  /\ value' = [value EXCEPT ![q] = value[r]]
  /\ UNCHANGED <<saved, busy>>

Next ==
  \/ \E r \in Tree : Begin(r) \/ Change(r)
  \/ \E r \in Tree : \E k \in DOMAIN saved' : Save(r, k)
  \/ \E r \in Tree : \E k \in DOMAIN saved : Load(r, k)
  \/ \E q, r \in Tree : Copy(r, q)

Spec == Init /\ [][Next]_vars
=============================================================================
