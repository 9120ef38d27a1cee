--------------------------- MODULE AcceptedHistory ---------------------------
(***************************************************************************)
(* What the frontier database promises, without tables, transactions or    *)
(* connections: one history, which only grows, in which every batch stands *)
(* once and behind everything it depends on.                               *)
(***************************************************************************)
EXTENDS Naturals, Sequences, SequencesExt

CONSTANTS Ids, Heads

VARIABLE history

Init == history = <<>>

Causal(h) ==
    /\ IsInjective(h)
    /\ \A i \in 1..Len(h) : Heads[h[i]] \subseteq {h[j] : j \in 1..(i - 1)}

\* One batch is accepted, or all batches of a candidate build.
Extends ==
    /\ IsStrictPrefix(history, history')
    /\ ToSet(history') \subseteq Ids
    /\ Causal(history')

Spec == Init /\ [][Extends]_history
=============================================================================
