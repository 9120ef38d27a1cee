-------------------------- MODULE MCLocalJournalV2 --------------------------
(* LocalJournalV2 with its openers and payloads interchangeable, for TLC.    *)
EXTENDS LocalJournalV2, TLC

Symmetry == Permutations(Openers) \cup Permutations(Ids)
=============================================================================
