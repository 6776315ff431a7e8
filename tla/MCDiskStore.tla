---------------------------- MODULE MCDiskStore ----------------------------
(* Constants of the model-checking runs of DiskStore. *)
EXTENDS DiskStore, TLC

CONSTANTS m, n, leaf, old, new

\* Two versions of a tree: the new one grew around the old one.
MCKids == leaf :> {} @@ old :> {leaf} @@ new :> {old, leaf}

MCBelow == leaf :> {leaf} @@ old :> {old, leaf} @@ new :> {new, old, leaf}

\* Nodes of different lengths, so that offsets tell them apart.
MCLength == leaf :> 1 @@ old :> 2 @@ new :> 3
=============================================================================
