-------------------------- MODULE MCLocalJournalV1 --------------------------
(* LocalJournalV1 with its openers and payloads interchangeable, for TLC.    *)
EXTENDS LocalJournalV1, TLC

Symmetry == Permutations(Openers) \cup Permutations(Ids)
=============================================================================
