---- MODULE MCPackedStore ----
(* Small instances of PackedStore for TLC. *)
EXTENDS PackedStore, TLC

\* Node 2 is the parent of node 1.
MCKids == [n \in Nodes |-> IF n = 2 THEN {1} ELSE {}]

MCSymmetry == Permutations(Handles)
====
