---- MODULE MCFixedFiles ----
(* Small instances of FixedFiles for TLC. *)
EXTENDS FixedFiles, TLC

\* Lengths below an edge, with an interior that fits the sample, and beyond it.
MCLength == 0 :> 7 @@ 1 :> 23 @@ 2 :> 1

\* A set in use, and a database that was closed.
MCFound == {{"database", "wal", "shm", "auth"}, {"database"}}
====
