-------------------------------- MODULE KVMap --------------------------------
(***************************************************************************)
(* What each structure promises: a map. A call that fails may lose keys,   *)
(* but it invents none and changes no value. Saving the map and reading it *)
(* back does not show.                                                     *)
(***************************************************************************)
EXTENDS TLC

CONSTANTS
  Key, Value,
  NoVal        \* the None of Option<V>, no value

VARIABLES
  map,         \* the keys present, with their values
  reply        \* what the last call returned

vars == <<map, reply>>

NoReply == [op |-> "none"]
Failed == [op |-> "error"]
Reply(op, k, v) == [op |-> op, key |-> k, val |-> v]

Lookup(k) == IF k \in DOMAIN map THEN map[k] ELSE NoVal
Restricted(ks) == [k \in ks |-> map[k]]

Init ==
  /\ DOMAIN map = {}
  /\ reply = NoReply

Insert(k, v) ==
  /\ reply' = Reply("insert", k, Lookup(k))
  /\ map' = (k :> v) @@ map

Remove(k) ==
  /\ reply' = Reply("remove", k, Lookup(k))
  /\ map' = Restricted(DOMAIN map \ {k})

Get(k) ==
  /\ reply' = Reply("get", k, Lookup(k))
  /\ UNCHANGED map

\* Through the reference that get_mut or a mutable iterator gave out.
Update(k, v) ==
  /\ reply' = NoReply
  /\ k \in DOMAIN map
  /\ map' = [map EXCEPT ![k] = v]

\* Any other call.
Look ==
  /\ reply' = NoReply
  /\ UNCHANGED map

Fail ==
  /\ reply' = Failed
  /\ DOMAIN map' \subseteq DOMAIN map
  /\ map' = Restricted(DOMAIN map')

Next ==
  \/ \E k \in Key, v \in Value : Insert(k, v) \/ Update(k, v)
  \/ \E k \in Key : Remove(k) \/ Get(k)
  \/ Look
  \/ Fail

Spec == Init /\ [][Next]_vars
=============================================================================
