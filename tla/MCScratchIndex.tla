---- MODULE MCScratchIndex ----
(* Small instances of ScratchIndex for TLC. *)
EXTENDS ScratchIndex

CONSTANT v1

\* A value, and a tombstone over it with a neighbour.
MCBatches == {1 :> v1, (1 :> Deleted) @@ (2 :> v1)}
====
