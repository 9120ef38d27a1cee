----------------------- MODULE MCImmutablePublication -----------------------
(* ImmutablePublication with its callers, names and contents each           *)
(* interchangeable, for TLC.                                                 *)
EXTENDS ImmutablePublication, TLC

Symmetry ==
    Permutations(Publishers) \cup Permutations(FileNames) \cup Permutations(Values)
=============================================================================
