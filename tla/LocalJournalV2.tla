--------------------------- MODULE LocalJournalV2 ---------------------------
(***************************************************************************)
(* One selected segment of the local journal, protocol v2                  *)
(* (local_journal_v2.rs): a segment file of frames, and a frontier file    *)
(* that is atomically replaced by every append and alone says which prefix *)
(* of the segment is committed.                                            *)
(*                                                                         *)
(* Several openers (processes, or handles of one process) contend for the  *)
(* segment's exclusive lock.  A process crash keeps every file's page      *)
(* cache; a power loss keeps, cell by cell, the disk, the cache or neither. *)
(* A rename survives a power loss for sure only once its directory has     *)
(* been synced.                                                            *)
(***************************************************************************)
EXTENDS SegmentFile

VARIABLES
    prepared,      \* which of the two files exist: "absent", "segment", "pair"
    segment,       \* the segment as the page cache shows it
    segmentDisk,   \* the segment's synced content
    frontier,      \* the frontier file the directory now names
    frontierDisk,  \* the frontiers a power loss may leave under that name
    lock,          \* the opener that holds the exclusive lock
    pc,            \* where each opener is in open_selected or append
    cursor,        \* each opener's file offset, in frames
    known,         \* each opener's in-memory frontier
    pending,       \* the payload each opener is appending
    outcome,       \* what the host knows of each payload
    displaced      \* an append was written elsewhere than at the frontier

file == <<segment, segmentDisk, frontier, frontierDisk>>
memory == <<cursor, known, pending>>
vars == <<prepared, file, lock, pc, memory, outcome, displaced>>

Frontier == [extent: 0..Capacity, terminal: Frame \cup {Hole}]
InitialFrontier == [extent |-> 0, terminal |-> Hole]

\* FrontierV2::successor for the frame appended next.
NextFrame(f, id) == [seq |-> f.extent + 1, id |-> id]
Successor(f, id) == [extent |-> f.extent + 1, terminal |-> NextFrame(f, id)]

Appending == {"written", "synced", "renamed", "published"}
Live == {"truncating", "ready", "poisoned"} \cup Appending
Outcomes == {"unused", "inflight", "returned", "definite", "unknown",
             "recovered", "discarded"}

TypeOK ==
    /\ prepared \in {"absent", "segment", "pair"}
    /\ segment \in [Pos -> Cell]
    /\ segmentDisk \in [Pos -> Cell]
    /\ frontier \in Frontier
    /\ frontierDisk \in SUBSET Frontier
    /\ lock \in Openers \cup {NoOpener}
    /\ pc \in [Openers -> Live \cup {"closed"}]
    /\ cursor \in [Openers -> 0..Capacity]
    /\ known \in [Openers -> Frontier]
    /\ pending \in [Openers -> Ids \cup {NoId}]
    /\ outcome \in [Ids -> Outcomes]
    /\ displaced \in BOOLEAN

Init ==
    /\ prepared = "absent"
    /\ segment = [i \in Pos |-> Hole]
    /\ segmentDisk = [i \in Pos |-> Hole]
    /\ frontier = InitialFrontier
    /\ frontierDisk = {InitialFrontier}
    /\ lock = NoOpener
    /\ pc = [o \in Openers |-> "closed"]
    /\ cursor = [o \in Openers |-> 0]
    /\ known = [o \in Openers |-> InitialFrontier]
    /\ pending = [o \in Openers |-> NoId]
    /\ outcome = [id \in Ids |-> "unused"]
    /\ displaced = FALSE

-----------------------------------------------------------------------------
(* What a scan reads.                                                       *)

\* Mutant of ScanOk: sequence numbers are not compared.
ScanOkAnySequence(f, s) ==
    /\ \A i \in 1..f.extent : s[i] \in Frame
    /\ f.terminal = IF f.extent = 0 THEN Hole ELSE s[f.extent]

\* scan_v2_prefix: every cell below the extent decodes to the frame with the
\* next sequence number, and the last one is the frontier's terminal frame.
ScanOk(f, s) ==
    /\ \A i \in 1..f.extent : s[i] \in Frame /\ s[i].seq = i
    /\ f.terminal = IF f.extent = 0 THEN Hole ELSE s[f.extent]

HasSuffix(f, s) == \E i \in Pos : i > f.extent /\ s[i] # Hole

\* The payloads a reader of the prefix named by f is served.
Selected(f, s) ==
    {s[i].id : i \in {j \in 1..f.extent : IsFrame(s[j])}}

\* The positions at which the prefix named by f holds a payload.
PositionsOf(id, f, s) ==
    {i \in 1..f.extent : IsFrame(s[i]) /\ s[i].id = id}

-----------------------------------------------------------------------------
(* Preparation, before any host anchors the segment.                        *)

\* The header file is published immutably; an existing one is verified.
PrepareSegment ==
    /\ prepared = "absent"
    /\ prepared' = "segment"
    /\ UNCHANGED <<file, lock, pc, memory, outcome, displaced>>

PrepareFrontier ==
    /\ prepared = "segment"
    /\ prepared' = "pair"
    /\ UNCHANGED <<file, lock, pc, memory, outcome, displaced>>

-----------------------------------------------------------------------------
(* open_selected                                                            *)

\* Reopening tells the host which payload of unknown outcome was selected.
Settle(f, s) ==
    [id \in Ids |->
        IF outcome[id] # "unknown" THEN outcome[id]
        ELSE IF id \in Selected(f, s) THEN "recovered" ELSE "discarded"]

\* Lock, read the header and the frontier, scan the committed prefix.
CanOpen(o) ==
    /\ prepared = "pair"
    /\ pc[o] = "closed"
    /\ lock = NoOpener
    /\ ScanOk(frontier, segment)

OpenClean(o) ==
    /\ CanOpen(o)
    /\ ~ HasSuffix(frontier, segment)
    /\ lock' = o
    /\ pc' = [pc EXCEPT ![o] = "ready"]
    /\ known' = [known EXCEPT ![o] = frontier]
    /\ cursor' = [cursor EXCEPT ![o] = frontier.extent]
    /\ outcome' = Settle(frontier, segment)
    /\ UNCHANGED <<prepared, file, pending, displaced>>

OpenTruncate(o) ==
    /\ CanOpen(o)
    /\ HasSuffix(frontier, segment)
    /\ lock' = o
    /\ pc' = [pc EXCEPT ![o] = "truncating"]
    /\ known' = [known EXCEPT ![o] = frontier]
    /\ segment' = Truncated(segment, frontier.extent)
    /\ UNCHANGED <<prepared, segmentDisk, frontier, frontierDisk, cursor,
                   pending, outcome, displaced>>

\* The truncation's sync_data, then the seek to the committed extent.
OpenSync(o) ==
    /\ pc[o] = "truncating"
    /\ segmentDisk' = segment
    /\ pc' = [pc EXCEPT ![o] = "ready"]
    /\ cursor' = [cursor EXCEPT ![o] = known[o].extent]
    /\ outcome' = Settle(known[o], segment)
    /\ UNCHANGED <<prepared, segment, frontier, frontierDisk, lock, known,
                   pending, displaced>>

\* The handle's memory goes with it; its lock is released.
Forget(o) ==
    /\ lock' = NoOpener
    /\ pc' = [pc EXCEPT ![o] = "closed"]
    /\ cursor' = [cursor EXCEPT ![o] = 0]
    /\ known' = [known EXCEPT ![o] = InitialFrontier]
    /\ pending' = [pending EXCEPT ![o] = NoId]

OpenSyncFails(o) ==
    /\ pc[o] = "truncating"
    /\ segmentDisk' \in Images(segmentDisk, segment)
    /\ Forget(o)
    /\ UNCHANGED <<prepared, segment, frontier, frontierDisk, outcome, displaced>>

\* Dropping a usable or a poisoned handle.
Close(o) ==
    /\ pc[o] \in {"ready", "poisoned"}
    /\ Forget(o)
    /\ UNCHANGED <<prepared, file, outcome, displaced>>

-----------------------------------------------------------------------------
(* append                                                                   *)

\* A poisoned handle, an exhausted sequence or a full segment refuses before
\* anything is written, and the handle stays as it is.
AppendRefused(o, id) ==
    /\ \/ pc[o] = "poisoned"
       \/ pc[o] = "ready" /\ known[o].extent = Capacity
    /\ outcome[id] = "unused"
    /\ outcome' = [outcome EXCEPT ![id] = "definite"]
    /\ UNCHANGED <<prepared, file, lock, pc, memory, displaced>>

CanAppend(o, id) ==
    /\ pc[o] = "ready"
    /\ known[o].extent < Capacity
    /\ outcome[id] = "unused"

\* write_all puts the frame at the file offset, wherever that is.
AppendWrite(o, id) ==
    /\ CanAppend(o, id)
    /\ segment' = [segment EXCEPT ![cursor[o] + 1] = NextFrame(known[o], id)]
    /\ cursor' = [cursor EXCEPT ![o] = cursor[o] + 1]
    /\ displaced' = (displaced \/ cursor[o] # known[o].extent)
    /\ pc' = [pc EXCEPT ![o] = "written"]
    /\ pending' = [pending EXCEPT ![o] = id]
    /\ outcome' = [outcome EXCEPT ![id] = "inflight"]
    /\ UNCHANGED <<prepared, segmentDisk, frontier, frontierDisk, lock, known>>

\* write_all stops early: nothing or a part of the frame was written.
AppendWriteFails(o, id) ==
    /\ CanAppend(o, id)
    /\ \/ UNCHANGED <<segment, displaced>>
       \/ /\ \E part \in Broken : segment' = [segment EXCEPT ![cursor[o] + 1] = part]
          /\ displaced' = (displaced \/ cursor[o] # known[o].extent)
    /\ pc' = [pc EXCEPT ![o] = "poisoned"]
    /\ outcome' = [outcome EXCEPT ![id] = "unknown"]
    /\ UNCHANGED <<prepared, segmentDisk, frontier, frontierDisk, lock, memory>>

\* Mutant of Unknown: the handle is not poisoned.
UnknownNotPoisoned(o) ==
    /\ pc' = [pc EXCEPT ![o] = "ready"]
    /\ pending' = [pending EXCEPT ![o] = NoId]
    /\ outcome' = [outcome EXCEPT ![pending[o]] = "unknown"]
    /\ UNCHANGED <<prepared, lock, cursor, known, displaced>>

\* Every failure after the write leaves the handle poisoned and the outcome
\* unknown to the host.
Unknown(o) ==
    /\ pc' = [pc EXCEPT ![o] = "poisoned"]
    /\ pending' = [pending EXCEPT ![o] = NoId]
    /\ outcome' = [outcome EXCEPT ![pending[o]] = "unknown"]
    /\ UNCHANGED <<prepared, lock, cursor, known, displaced>>

Advance(o, from, to) ==
    /\ pc[o] = from
    /\ pc' = [pc EXCEPT ![o] = to]
    /\ UNCHANGED <<prepared, lock, memory, outcome, displaced>>

SegmentSync(o) ==
    /\ Advance(o, "written", "synced")
    /\ segmentDisk' = segment
    /\ UNCHANGED <<segment, frontier, frontierDisk>>

SegmentSyncFails(o) ==
    /\ pc[o] = "written"
    /\ Unknown(o)
    /\ segmentDisk' \in Images(segmentDisk, segment)
    /\ UNCHANGED <<segment, frontier, frontierDisk>>

\* publish_frontier_durable writes and syncs a temporary, renames it over the
\* frontier and syncs the directory; a failure up to the rename takes nothing.
FrontierTempFails(o) ==
    /\ pc[o] = "synced"
    /\ Unknown(o)
    /\ UNCHANGED file

Rename(o) ==
    /\ frontier' = Successor(known[o], pending[o])
    /\ frontierDisk' = frontierDisk \cup {Successor(known[o], pending[o])}
    /\ UNCHANGED <<segment, segmentDisk>>

\* Mutant of FrontierRename: the frontier is published without the sync_data.
FrontierRenameUnsynced(o) ==
    /\ pc[o] = "written"
    /\ pc' = [pc EXCEPT ![o] = "renamed"]
    /\ UNCHANGED <<prepared, lock, memory, outcome, displaced>>
    /\ Rename(o)

FrontierRename(o) ==
    /\ Advance(o, "synced", "renamed")
    /\ Rename(o)

\* The rename reports an error although the successor was selected.
FrontierRenameAmbiguous(o) ==
    /\ pc[o] = "synced"
    /\ Unknown(o)
    /\ Rename(o)

\* Mutant of DirectorySync: the directory is not synced after the rename.
DirectorySyncSkipped(o) == Advance(o, "renamed", "published") /\ UNCHANGED file

DirectorySync(o) ==
    /\ Advance(o, "renamed", "published")
    /\ frontierDisk' = {frontier}
    /\ UNCHANGED <<segment, segmentDisk, frontier>>

\* Mutant of DirectorySyncFails: the failed sync is ignored (best effort).
DirectorySyncFailsIgnored(o) ==
    Advance(o, "renamed", "published") /\ UNCHANGED file

DirectorySyncFails(o) ==
    /\ pc[o] = "renamed"
    /\ Unknown(o)
    /\ UNCHANGED file

\* The frontier is read back: a mismatch or a read error is an unknown outcome.
AppendReturn(o) ==
    /\ pc[o] = "published"
    /\ frontier = Successor(known[o], pending[o])
    /\ known' = [known EXCEPT ![o] = frontier]
    /\ pc' = [pc EXCEPT ![o] = "ready"]
    /\ pending' = [pending EXCEPT ![o] = NoId]
    /\ outcome' = [outcome EXCEPT ![pending[o]] = "returned"]
    /\ UNCHANGED <<prepared, file, lock, cursor, displaced>>

VerifyFails(o) ==
    /\ pc[o] = "published"
    /\ Unknown(o)
    /\ UNCHANGED file

-----------------------------------------------------------------------------
(* replay reads through a duplicated descriptor, which shares the offset.    *)

\* A complete replay reads to the end of the file.
Replay(o) ==
    /\ pc[o] = "ready"
    /\ known[o].extent > 0
    /\ \A i \in 1..known[o].extent : IsFrame(segment[i])
    /\ cursor' = [cursor EXCEPT ![o] = known[o].extent]
    /\ UNCHANGED <<prepared, file, lock, pc, known, pending, outcome, displaced>>

\* An error at frame i, or a second replay that moves the shared offset, leaves
\* the offset at that frame or as far behind it as the buffer was filled.
ReplayFails(o) ==
    /\ pc[o] = "ready"
    /\ \E i \in 1..known[o].extent, c \in 0..known[o].extent :
          /\ \A j \in 1..(i - 1) : IsFrame(segment[j])
          /\ i - 1 <= c
          /\ cursor' = [cursor EXCEPT ![o] = c]
    /\ UNCHANGED <<prepared, file, lock, pc, known, pending, outcome, displaced>>

-----------------------------------------------------------------------------
(* Crashes                                                                  *)

Crash(o) ==
    /\ pc[o] # "closed"
    /\ Forget(o)
    /\ outcome' = [id \in Ids |->
                      IF outcome[id] = "inflight" THEN "unknown" ELSE outcome[id]]
    /\ UNCHANGED <<prepared, file, displaced>>

PowerLoss ==
    /\ \E image \in Images(segmentDisk, segment) :
          segment' = image /\ segmentDisk' = image
    /\ \E f \in frontierDisk : frontier' = f /\ frontierDisk' = {f}
    /\ lock' = NoOpener
    /\ pc' = [o \in Openers |-> "closed"]
    /\ cursor' = [o \in Openers |-> 0]
    /\ known' = [o \in Openers |-> InitialFrontier]
    /\ pending' = [o \in Openers |-> NoId]
    /\ outcome' = [id \in Ids |->
                      IF outcome[id] = "inflight" THEN "unknown" ELSE outcome[id]]
    /\ UNCHANGED <<prepared, displaced>>

-----------------------------------------------------------------------------
Open(o) == OpenClean(o) \/ OpenTruncate(o) \/ OpenSync(o) \/ OpenSyncFails(o)

AppendFrame(o) ==
    \/ \E id \in Ids :
          AppendRefused(o, id) \/ AppendWrite(o, id) \/ AppendWriteFails(o, id)
    \/ SegmentSync(o) \/ SegmentSyncFails(o)
    \/ FrontierTempFails(o) \/ FrontierRename(o) \/ FrontierRenameAmbiguous(o)
    \/ DirectorySync(o) \/ DirectorySyncFails(o)
    \/ AppendReturn(o) \/ VerifyFails(o)

Next ==
    \/ PrepareSegment \/ PrepareFrontier
    \/ \E o \in Openers :
          Open(o) \/ AppendFrame(o) \/ Replay(o) \/ ReplayFails(o) \/ Close(o) \/ Crash(o)
    \/ PowerLoss

Spec == Init /\ [][Next]_vars

-----------------------------------------------------------------------------
(* Properties                                                               *)

Returned == {id \in Ids : outcome[id] = "returned"}
Unsettled == {id \in Ids : outcome[id] \in {"inflight", "unknown"}}

\* As long as every append was written at the frontier: a payload whose append
\* returned is held once, no more and no less, by the prefix of every frontier
\* a power loss may leave, in the cached and in the synced segment.
ReturnedSelectedOnce ==
    ~ displaced =>
        \A id \in Returned : \A f \in frontierDisk \cup {frontier} :
            /\ Cardinality(PositionsOf(id, f, segment)) = 1
            /\ Cardinality(PositionsOf(id, f, segmentDisk)) = 1

\* As long as every append was written at the frontier: whatever a power loss
\* makes of the unsynced bytes, open_selected accepts what it finds.
AlwaysRecoverable ==
    ~ displaced =>
        /\ ScanOk(frontier, segment)
        /\ \A f \in frontierDisk, image \in Images(segmentDisk, segment) :
               ScanOk(f, image)

\* A payload that append refused, or that a reopen did not find, never comes
\* back: a host that offers it again cannot get it twice.
DiscardedNeverSelected ==
    ~ displaced =>
        \A id \in Ids : outcome[id] \in {"definite", "discarded"} =>
            \A f \in frontierDisk \cup {frontier} : id \notin Selected(f, segment)

\* The poisoned handle and the lock together leave at most one payload whose
\* outcome the host does not know, however many handles and failures there are.
AtMostOneUnsettled == Cardinality(Unsettled) <= 1

\* What the host is told of a payload stays true: at most one outcome is open,
\* and a refusal is for good.
OutcomesHold == DiscardedNeverSelected /\ AtMostOneUnsettled

\* Even after an append was written elsewhere than at the frontier, the scan
\* refuses a segment that lost a returned payload: a handle that opens serves
\* all of them.
FailClosed ==
    [][\A o \in Openers :
          pc[o] \in {"closed", "truncating"} /\ pc'[o] = "ready" =>
              Returned \subseteq Selected(known'[o], segment')]_vars

\* The log a reader of the selected prefix is served, and how much of it
\* appends have returned for.
Log == IF displaced THEN <<>> ELSE [i \in 1..frontier.extent |-> segment[i].id]

Confirmed ==
    IF displaced THEN 0
    ELSE CHOOSE n \in 0..frontier.extent :
            /\ n = 0 \/ segment[n].id \in Returned
            /\ \A i \in (n + 1)..frontier.extent : segment[i].id \notin Returned

Promise == INSTANCE JournalPromise
              WITH log <- Log, confirmed <- Confirmed, void <- displaced

\* The segment implements the promise of a journal: see JournalPromise.
ImplementsPromise == Promise!Spec

\* CHANGELOG 0.2.0: "A returned append is selected exactly once".  A replay
\* that fails leaves the append offset behind the frontier; the next append
\* overwrites committed frames there and returns.
ReturnedAlwaysSelected == Returned \subseteq Selected(frontier, segment)

\* LocalJournalAppendError: "append outcome is unknown until reopen".  A reopen
\* that finds the payload selected does not sync the directory, so a power loss
\* may still take the selection back.
OutcomeSettledByReopen ==
    ~ displaced =>
        \A id \in Ids :
            outcome[id] = "recovered" => id \in Selected(frontier, segment)
=============================================================================
