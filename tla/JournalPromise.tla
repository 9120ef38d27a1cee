--------------------------- MODULE JournalPromise ---------------------------
(***************************************************************************)
(* What a selected journal segment promises its host, without files, locks *)
(* or crashes: an append-only log of distinct payloads of which a prefix   *)
(* is confirmed.  Confirmed payloads stay; the rest may be taken back.     *)
(* A host that goes on with a handle whose replay failed forfeits the      *)
(* promise (see LocalJournalV2, displaced).                                *)
(***************************************************************************)
EXTENDS Naturals, Sequences

CONSTANT Ids

VARIABLES log, confirmed, void

promise == <<log, confirmed, void>>

Init == log = <<>> /\ confirmed = 0 /\ void = FALSE

\* A new payload becomes visible behind all others.
Extend ==
    /\ \E id \in Ids :
          /\ \A i \in 1..Len(log) : log[i] # id
          /\ log' = Append(log, id)
    /\ UNCHANGED <<confirmed, void>>

\* An append returns: the whole log is now confirmed.
Confirm ==
    /\ confirmed < Len(log)
    /\ confirmed' = Len(log)
    /\ UNCHANGED <<log, void>>

\* A power loss takes back a suffix that was not confirmed.
Retract ==
    /\ \E n \in confirmed..(Len(log) - 1) : log' = SubSeq(log, 1, n)
    /\ UNCHANGED <<confirmed, void>>

Forfeit ==
    /\ void' = TRUE
    /\ log' = <<>>
    /\ confirmed' = 0

Next == ~ void /\ (Extend \/ Confirm \/ Retract \/ Forfeit)

Spec == Init /\ [][Next]_promise
=============================================================================
