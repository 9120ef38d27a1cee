------------------------ MODULE ImmutablePublication ------------------------
(***************************************************************************)
(* Publication of immutable files under fixed names (filesystem.rs).       *)
(*                                                                         *)
(* Publishers run concurrently, in one process or several.  An exact        *)
(* publication (publish_immutable_exact, and a staged publication from     *)
(* construct to commit) syncs a temporary file, links it under its name     *)
(* without replacing anything, and syncs the directory; a file it finds     *)
(* under the name is compared and its directory entry synced.  A batch      *)
(* links files that are not synced and syncs them all in finish.            *)
(*                                                                         *)
(* A power loss may take every link whose directory was not synced and      *)
(* every byte that was not synced.                                          *)
(***************************************************************************)
EXTENDS PublishedFiles

CONSTANT Publishers  \* concurrent callers

VARIABLES
    pc,       \* each publisher: "idle", "temp", "published" or "batch"
    target,   \* the name and content each exact publication is about
    staged    \* the names and contents each batch has published so far

files == <<content, synced, linked>>
ghosts == <<acked, loose, unproved, refused>>
vars == <<files, pc, target, staged, ghosts>>

Publication == FileNames \X Values

TypeOK ==
    /\ content \in [FileNames -> Values \cup {Missing, Junk}]
    /\ synced \in SUBSET FileNames
    /\ linked \in SUBSET FileNames
    /\ pc \in [Publishers -> {"idle", "temp", "published", "batch"}]
    /\ target \in [Publishers -> Publication]
    /\ staged \in [Publishers -> SUBSET Publication]
    /\ acked \in SUBSET Publication
    /\ loose \in SUBSET FileNames
    /\ unproved \in SUBSET FileNames
    /\ refused \in SUBSET FileNames
    /\ \A p \in Publishers : pc[p] # "batch" => staged[p] = {}

Init ==
    /\ content = [n \in FileNames |-> Missing]
    /\ synced = {} /\ linked = {}
    /\ pc = [p \in Publishers |-> "idle"]
    /\ target \in [Publishers -> Publication]
    /\ \A p, q \in Publishers : target[p] = target[q]
    /\ staged = [p \in Publishers |-> {}]
    /\ acked = {} /\ loose = {} /\ unproved = {} /\ refused = {}

Present == {n \in FileNames : content[n] # Missing}

Goto(p, place) == pc' = [pc EXCEPT ![p] = place]

-----------------------------------------------------------------------------
(* publish_immutable_exact; StagedExactImmutablePublication                 *)

\* The temporary file is written and synced.  A failure leaves no trace but
\* the temporary, which the error path removes.
Construct(p, n, v) ==
    /\ pc[p] = "idle"
    /\ Goto(p, "temp")
    /\ target' = [target EXCEPT ![p] = <<n, v>>]
    /\ UNCHANGED <<files, staged, ghosts>>

\* rename_noreplace succeeds.
LinkUnder(p, n, v) ==
    /\ content[n] = Missing
    /\ content' = [content EXCEPT ![n] = v]
    /\ linked' = linked \ {n}

\* Mutant of Link: the temporary was not synced before it was linked.
LinkUnsynced(p) ==
    /\ pc[p] = "temp"
    /\ LinkUnder(p, target[p][1], target[p][2])
    /\ synced' = synced \ {target[p][1]}
    /\ Goto(p, "published")
    /\ UNCHANGED <<target, staged, ghosts>>

Link(p) ==
    /\ pc[p] = "temp"
    /\ LinkUnder(p, target[p][1], target[p][2])
    /\ synced' = synced \cup {target[p][1]}
    /\ Goto(p, "published")
    /\ UNCHANGED <<target, staged, ghosts>>

\* verify_existing: the name already shows the exact bytes, synced or not.
VerifyExisting(p) ==
    /\ pc[p] = "temp"
    /\ content[target[p][1]] = target[p][2]
    /\ unproved' = unproved \cup ({target[p][1]} \ synced)
    /\ Goto(p, "published")
    /\ UNCHANGED <<files, target, staged, acked, loose, refused>>

\* ByteCollision: the name shows something else, which stays.
Collide(p) ==
    /\ pc[p] = "temp"
    /\ content[target[p][1]] \notin {Missing, target[p][2]}
    /\ Goto(p, "idle")
    /\ UNCHANGED <<files, target, staged, ghosts>>

\* Mutant of DirectorySync: the sync only covers what the publication linked.
DirectorySyncSkipped(p) ==
    /\ pc[p] = "published"
    /\ acked' = acked \cup {target[p]}
    /\ Goto(p, "idle")
    /\ UNCHANGED <<files, target, staged, loose, unproved, refused>>

\* The directory is synced with all its entries, and the caller is told.
DirectorySync(p) ==
    /\ pc[p] = "published"
    /\ linked' = Present
    /\ acked' = acked \cup {target[p]}
    /\ Goto(p, "idle")
    /\ UNCHANGED <<content, synced, target, staged, loose, unproved, refused>>

\* An error after the link, or a staged publication that is dropped: the
\* caller is told nothing it could rely on, and a link stays.
GiveUp(p) ==
    /\ pc[p] \in {"temp", "published"}
    /\ Goto(p, "idle")
    /\ UNCHANGED <<files, target, staged, ghosts>>

-----------------------------------------------------------------------------
(* ExactImmutablePublicationBatch                                           *)

BeginBatch(p) ==
    /\ pc[p] = "idle"
    /\ Goto(p, "batch")
    /\ UNCHANGED <<files, target, staged, ghosts>>

\* stage_immutable_unflushed links a file that was only written, or finds the
\* exact bytes; a collision leaves batch and file as they are.
Stage(p, n, v) ==
    /\ pc[p] = "batch"
    /\ \/ /\ LinkUnder(p, n, v)
          /\ synced' = synced \ {n}
          /\ loose' = loose \cup {n}
       \/ /\ content[n] = v
          /\ UNCHANGED <<files, loose>>
    /\ staged' = [staged EXCEPT ![p] = @ \cup {<<n, v>>}]
    /\ UNCHANGED <<pc, target, acked, unproved, refused>>

\* An error after the link leaves the file there and out of the batch.
StageFails(p, n, v) ==
    /\ pc[p] = "batch"
    /\ LinkUnder(p, n, v)
    /\ synced' = synced \ {n}
    /\ loose' = loose \cup {n}
    /\ UNCHANGED <<pc, target, staged, acked, unproved, refused>>

StagedNames(p) == {s[1] : s \in staged[p]}

\* The batch is consumed.
EndBatch(p) ==
    /\ pc[p] = "batch"
    /\ Goto(p, "idle")
    /\ staged' = [staged EXCEPT ![p] = {}]

\* syncfs makes everything on the file system durable.
Finish(p) ==
    /\ EndBatch(p)
    /\ synced' = Present /\ linked' = Present
    /\ acked' = acked \cup staged[p]
    /\ UNCHANGED <<content, target, loose, unproved, refused>>

\* Where syncfs is refused, every file of the batch and its directory are.
FinishFallback(p) ==
    /\ EndBatch(p)
    /\ synced' = synced \cup StagedNames(p)
    /\ linked' = Present
    /\ acked' = acked \cup staged[p]
    /\ UNCHANGED <<content, target, loose, unproved, refused>>

\* The one refusal that is tolerated: the directory of the batch is not synced.
FinishRefused(p) ==
    /\ EndBatch(p)
    /\ synced' = synced \cup StagedNames(p)
    /\ acked' = acked \cup staged[p]
    /\ refused' = refused \cup (StagedNames(p) \ linked)
    /\ UNCHANGED <<content, linked, target, loose, unproved>>

\* A failed finish may have synced some of its files; so may an abandoned batch.
FinishFails(p) ==
    /\ EndBatch(p)
    /\ \E some \in SUBSET StagedNames(p) : synced' = synced \cup some
    /\ UNCHANGED <<content, linked, target, ghosts>>

-----------------------------------------------------------------------------
(* Crashes                                                                  *)

Crash(p) ==
    /\ pc[p] # "idle"
    /\ Goto(p, "idle")
    /\ staged' = [staged EXCEPT ![p] = {}]
    /\ UNCHANGED <<files, target, ghosts>>

PowerLoss ==
    /\ \E lost \in SUBSET (Present \ linked), torn \in SUBSET (Present \ synced) :
          /\ content' = [n \in FileNames |->
                            CASE n \in lost -> Missing
                              [] n \in torn \ lost -> Junk
                              [] OTHER -> content[n]]
          /\ synced' = Present \ lost
          /\ linked' = Present \ lost
    /\ pc' = [p \in Publishers |-> "idle"]
    /\ staged' = [p \in Publishers |-> {}]
    /\ UNCHANGED <<target, ghosts>>

-----------------------------------------------------------------------------
Exact(p) ==
    \/ \E n \in FileNames, v \in Values : Construct(p, n, v)
    \/ Link(p) \/ VerifyExisting(p) \/ Collide(p) \/ DirectorySync(p) \/ GiveUp(p)

Batch(p) ==
    \/ BeginBatch(p)
    \/ \E n \in FileNames, v \in Values : Stage(p, n, v) \/ StageFails(p, n, v)
    \/ Finish(p) \/ FinishFallback(p) \/ FinishRefused(p) \/ FinishFails(p)

Next ==
    \/ \E p \in Publishers : Exact(p) \/ Batch(p) \/ Crash(p)
    \/ PowerLoss

Spec == Init /\ [][Next]_vars

-----------------------------------------------------------------------------
(* Properties                                                               *)

\* No program replaces or removes what a name shows, be it right, divergent or
\* torn: publishers of different bytes never clobber each other.
NeverReplaced ==
    [][~ PowerLoss =>
          \A n \in FileNames : content[n] # Missing => content'[n] = content[n]]_vars

\* CHANGELOG 0.1.0: "Exact immutable filesystem publication with no-follow and
\* durability checks".  An exact publication that finds the bytes of a batch
\* that was not finished syncs the directory only, and returns.
AckedSurvives == \A p \in acked : p[1] \notin refused => content[p[1]] = p[2]
=============================================================================
