---- MODULE MCSqliteFrontier ----
(* Small instances of SqliteFrontier for TLC. *)
EXTENDS SqliteFrontier, TLC

\* Three peers; 5 and 6 join branches whose clocks differ.
MCBatch ==
    (1 :> [peer |-> 1, heads |-> {}, docs |-> {1, 3}]) @@
    (2 :> [peer |-> 2, heads |-> {}, docs |-> {2}]) @@
    (3 :> [peer |-> 1, heads |-> {1, 2}, docs |-> {2, 3}]) @@
    (4 :> [peer |-> 2, heads |-> {2}, docs |-> {4}]) @@
    (5 :> [peer |-> 3, heads |-> {1, 4}, docs |-> {1}]) @@
    (6 :> [peer |-> 1, heads |-> {3, 5}, docs |-> {2, 4}])

\* Neither ascending nor descending.
MCPriority == <<4, 2, 5, 1, 3, 6>>

\* Connections are interchangeable.
MCSymmetry == Permutations(Conns)
====
