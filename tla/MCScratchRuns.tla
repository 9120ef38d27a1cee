---- MODULE MCScratchRuns ----
(* Small instances of ScratchRuns for TLC. *)
EXTENDS ScratchRuns, TLC

\* For runs without a liveness property.
MCSymmetry == Permutations(Hosts) \cup Permutations(Ephemeral)
====
