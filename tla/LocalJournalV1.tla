--------------------------- MODULE LocalJournalV1 ---------------------------
(***************************************************************************)
(* One segment of the local journal, protocol v1 (local_journal.rs): an    *)
(* append-only file of frames without a frontier.  Opening creates the file *)
(* if it is absent, takes its lock, and adopts the longest run of frames;   *)
(* an append is one write and one sync.                                     *)
(*                                                                         *)
(* The file's name is durable once its directory was synced, which only the *)
(* handle that created the file does, after it has got the lock.            *)
(***************************************************************************)
EXTENDS SegmentFile

CONSTANT Short  \* a tail of fewer bytes than the smallest frame

ASSUME ShortAssumption == Short \in Broken

VARIABLES
    entry,        \* the file's name: "absent", "unsynced" or "durable"
    segment,      \* the segment as the page cache shows it
    segmentDisk,  \* the segment's synced content
    lock,         \* the opener that holds the exclusive lock
    pc,           \* where each opener is in open_from_sequence or append
    created,      \* whether the opener's own open created the file
    cursor,       \* each opener's file offset, in frames
    known,        \* the frames each opener counts as committed
    pending,      \* the payload each opener is appending
    outcome,      \* what the host knows of each payload
    displaced,    \* an append was written elsewhere than behind the last frame
    orphaned      \* an append returned before the file's name was durable

file == <<entry, segment, segmentDisk>>
memory == <<created, cursor, known, pending>>
ghosts == <<displaced, orphaned>>
vars == <<file, lock, pc, memory, outcome, ghosts>>

Holding == {"locked", "truncating", "ready", "poisoned", "written"}
Outcomes == {"unused", "inflight", "returned", "definite", "unknown",
             "recovered", "discarded"}

TypeOK ==
    /\ entry \in {"absent", "unsynced", "durable"}
    /\ segment \in [Pos -> Cell]
    /\ segmentDisk \in [Pos -> Cell]
    /\ lock \in Openers \cup {NoOpener}
    /\ pc \in [Openers -> Holding \cup {"closed", "opened"}]
    /\ created \in [Openers -> BOOLEAN]
    /\ cursor \in [Openers -> 0..Capacity]
    /\ known \in [Openers -> 0..Capacity]
    /\ pending \in [Openers -> Ids \cup {NoId}]
    /\ outcome \in [Ids -> Outcomes]
    /\ displaced \in BOOLEAN /\ orphaned \in BOOLEAN

Empty == [i \in Pos |-> Hole]

Init ==
    /\ entry = "absent"
    /\ segment = Empty /\ segmentDisk = Empty
    /\ lock = NoOpener
    /\ pc = [o \in Openers |-> "closed"]
    /\ created = [o \in Openers |-> FALSE]
    /\ cursor = [o \in Openers |-> 0]
    /\ known = [o \in Openers |-> 0]
    /\ pending = [o \in Openers |-> NoId]
    /\ outcome = [id \in Ids |-> "unused"]
    /\ displaced = FALSE /\ orphaned = FALSE

-----------------------------------------------------------------------------
(* scan_segment                                                             *)

InSequence(s, n) == \A i \in 1..n : IsFrame(s[i]) /\ s[i].seq = i

\* The frames adopted: as many as follow each other from the base sequence.
Adopted(s) ==
    CHOOSE n \in 0..Capacity :
        InSequence(s, n) /\ (n < Capacity => ~ InSequence(s, n + 1))

EndsAt(s, n) == \A i \in (n + 1)..Capacity : s[i] = Hole

\* Mutant of HasShortTail: any tail that does not decode is taken for torn.
HasAnyTail(s, n) == n < Capacity /\ s[n + 1] # Hole

\* What follows the adopted frames is too short to hold a frame.
HasShortTail(s, n) == n < Capacity /\ s[n + 1] = Short /\ EndsAt(s, n + 1)

Serves(s, id) == \E i \in 1..Adopted(s) : s[i].id = id

Settle(s) ==
    [id \in Ids |->
        IF outcome[id] # "unknown" THEN outcome[id]
        ELSE IF Serves(s, id) THEN "recovered" ELSE "discarded"]

-----------------------------------------------------------------------------
(* open_from_sequence                                                       *)

\* open_or_create_segment_file: the exclusive create decides who created it.
OpenFile(o) ==
    /\ pc[o] = "closed"
    /\ pc' = [pc EXCEPT ![o] = "opened"]
    /\ created' = [created EXCEPT ![o] = (entry = "absent")]
    /\ entry' = IF entry = "absent" THEN "unsynced" ELSE entry
    /\ UNCHANGED <<segment, segmentDisk, lock, cursor, known, pending, outcome, ghosts>>

\* The handle is dropped, and with it the lock if it holds it.
Forget(o) ==
    /\ lock' = IF lock = o THEN NoOpener ELSE lock
    /\ pc' = [pc EXCEPT ![o] = "closed"]
    /\ created' = [created EXCEPT ![o] = FALSE]
    /\ cursor' = [cursor EXCEPT ![o] = 0]
    /\ known' = [known EXCEPT ![o] = 0]
    /\ pending' = [pending EXCEPT ![o] = NoId]

LockRefused(o) ==
    /\ pc[o] = "opened"
    /\ lock # NoOpener
    /\ Forget(o)
    /\ UNCHANGED <<file, outcome, ghosts>>

Lock(o) ==
    /\ pc[o] = "opened"
    /\ lock = NoOpener
    /\ lock' = o
    /\ pc' = [pc EXCEPT ![o] = "locked"]
    /\ UNCHANGED <<file, memory, outcome, ghosts>>

\* The creator syncs the directory.
EntrySync(o) ==
    /\ pc[o] = "locked" /\ created[o]
    /\ entry' = "durable"
    /\ created' = [created EXCEPT ![o] = FALSE]
    /\ UNCHANGED <<segment, segmentDisk, lock, pc, cursor, known, pending, outcome, ghosts>>

EntrySyncFails(o) ==
    /\ pc[o] = "locked" /\ created[o]
    /\ Forget(o)
    /\ UNCHANGED <<file, outcome, ghosts>>

CanScan(o) == pc[o] = "locked" /\ ~ created[o]

\* The handle becomes usable behind the adopted frames.
Ready(o) ==
    /\ pc' = [pc EXCEPT ![o] = "ready"]
    /\ known' = [known EXCEPT ![o] = Adopted(segment)]
    /\ cursor' = [cursor EXCEPT ![o] = Adopted(segment)]
    /\ outcome' = Settle(segment)
    /\ UNCHANGED <<entry, segment, lock, created, pending, ghosts>>

ScanClean(o) ==
    /\ CanScan(o)
    /\ EndsAt(segment, Adopted(segment))
    /\ Ready(o)
    /\ UNCHANGED segmentDisk

ScanTruncates(o) ==
    /\ CanScan(o)
    /\ HasShortTail(segment, Adopted(segment))
    /\ segment' = Truncated(segment, Adopted(segment))
    /\ pc' = [pc EXCEPT ![o] = "truncating"]
    /\ UNCHANGED <<entry, segmentDisk, lock, memory, outcome, ghosts>>

\* A full-sized tail that does not decode is refused and left as it is.
ScanRefuses(o) ==
    /\ CanScan(o)
    /\ ~ EndsAt(segment, Adopted(segment))
    /\ ~ HasShortTail(segment, Adopted(segment))
    /\ Forget(o)
    /\ UNCHANGED <<file, outcome, ghosts>>

TruncateSync(o) ==
    /\ pc[o] = "truncating"
    /\ segmentDisk' = segment
    /\ Ready(o)

TruncateSyncFails(o) ==
    /\ pc[o] = "truncating"
    /\ segmentDisk' \in Images(segmentDisk, segment)
    /\ Forget(o)
    /\ UNCHANGED <<entry, segment, outcome, ghosts>>

Close(o) ==
    /\ pc[o] \in {"ready", "poisoned"}
    /\ Forget(o)
    /\ UNCHANGED <<file, outcome, ghosts>>

-----------------------------------------------------------------------------
(* append                                                                   *)

AppendRefused(o, id) ==
    /\ pc[o] = "poisoned" \/ (pc[o] = "ready" /\ known[o] = Capacity)
    /\ outcome[id] = "unused"
    /\ outcome' = [outcome EXCEPT ![id] = "definite"]
    /\ UNCHANGED <<file, lock, pc, memory, ghosts>>

CanAppend(o, id) ==
    /\ pc[o] = "ready"
    /\ known[o] < Capacity
    /\ outcome[id] = "unused"

\* write_all puts bytes at the file offset, wherever that is.
Write(o, cell) ==
    /\ segment' = [segment EXCEPT ![cursor[o] + 1] = cell]
    /\ displaced' = (displaced \/ cursor[o] # known[o])

AppendWrite(o, id) ==
    /\ CanAppend(o, id)
    /\ Write(o, [seq |-> known[o] + 1, id |-> id])
    /\ cursor' = [cursor EXCEPT ![o] = cursor[o] + 1]
    /\ pc' = [pc EXCEPT ![o] = "written"]
    /\ pending' = [pending EXCEPT ![o] = id]
    /\ outcome' = [outcome EXCEPT ![id] = "inflight"]
    /\ UNCHANGED <<entry, segmentDisk, lock, created, known, orphaned>>

AppendWriteFails(o, id) ==
    /\ CanAppend(o, id)
    /\ \/ UNCHANGED <<segment, displaced>>
       \/ \E part \in Broken : Write(o, part)
    /\ pc' = [pc EXCEPT ![o] = "poisoned"]
    /\ outcome' = [outcome EXCEPT ![id] = "unknown"]
    /\ UNCHANGED <<entry, segmentDisk, lock, memory, orphaned>>

\* The append is reported as returned.
Returns(o) ==
    /\ pc' = [pc EXCEPT ![o] = "ready"]
    /\ known' = [known EXCEPT ![o] = known[o] + 1]
    /\ pending' = [pending EXCEPT ![o] = NoId]
    /\ outcome' = [outcome EXCEPT ![pending[o]] = "returned"]
    /\ orphaned' = (orphaned \/ entry # "durable")
    /\ UNCHANGED <<entry, segment, lock, created, cursor, displaced>>

\* Mutant of AppendSync: no durability barrier.
AppendSyncSkipped(o) == pc[o] = "written" /\ Returns(o) /\ UNCHANGED segmentDisk

AppendSync(o) ==
    /\ pc[o] = "written"
    /\ Returns(o)
    /\ segmentDisk' = segment

\* Mutant of AppendSyncFails: the failed barrier is ignored.
AppendSyncFailsIgnored(o) ==
    /\ pc[o] = "written"
    /\ Returns(o)
    /\ segmentDisk' \in Images(segmentDisk, segment)

AppendSyncFails(o) ==
    /\ pc[o] = "written"
    /\ segmentDisk' \in Images(segmentDisk, segment)
    /\ pc' = [pc EXCEPT ![o] = "poisoned"]
    /\ pending' = [pending EXCEPT ![o] = NoId]
    /\ outcome' = [outcome EXCEPT ![pending[o]] = "unknown"]
    /\ UNCHANGED <<entry, segment, lock, created, cursor, known, ghosts>>

-----------------------------------------------------------------------------
(* replay shares the offset of append, as in LocalJournalV2.                 *)

Replay(o) ==
    /\ pc[o] = "ready"
    /\ known[o] > 0
    /\ \A i \in 1..known[o] : IsFrame(segment[i])
    /\ cursor' = [cursor EXCEPT ![o] = known[o]]
    /\ UNCHANGED <<file, lock, pc, created, known, pending, outcome, ghosts>>

\* The reader starts at the first frame and stops where reading failed, or as
\* far behind as its buffer was filled.
ReplayFails(o) ==
    /\ pc[o] = "ready"
    /\ \E i \in 1..known[o], c \in 0..known[o] :
          /\ \A j \in 1..(i - 1) : IsFrame(segment[j])
          /\ i - 1 <= c
          /\ cursor' = [cursor EXCEPT ![o] = c]
    /\ UNCHANGED <<file, lock, pc, created, known, pending, outcome, ghosts>>

-----------------------------------------------------------------------------
(* Crashes                                                                  *)

Crash(o) ==
    /\ pc[o] # "closed"
    /\ Forget(o)
    /\ outcome' = [id \in Ids |-> IF id = pending[o] THEN "unknown" ELSE outcome[id]]
    /\ UNCHANGED <<file, ghosts>>

\* An unsynced name may take the whole file with it.
PowerLoss ==
    /\ \/ /\ entry # "absent"
          /\ entry' = "durable"
          /\ \E image \in Images(segmentDisk, segment) :
                segment' = image /\ segmentDisk' = image
       \/ /\ entry # "durable"
          /\ entry' = "absent"
          /\ segment' = Empty /\ segmentDisk' = Empty
    /\ lock' = NoOpener
    /\ pc' = [o \in Openers |-> "closed"]
    /\ created' = [o \in Openers |-> FALSE]
    /\ cursor' = [o \in Openers |-> 0]
    /\ known' = [o \in Openers |-> 0]
    /\ pending' = [o \in Openers |-> NoId]
    /\ outcome' = [id \in Ids |->
                      IF outcome[id] = "inflight" THEN "unknown" ELSE outcome[id]]
    /\ UNCHANGED ghosts

-----------------------------------------------------------------------------
Open(o) ==
    \/ OpenFile(o) \/ LockRefused(o) \/ Lock(o) \/ EntrySync(o) \/ EntrySyncFails(o)
    \/ ScanClean(o) \/ ScanTruncates(o) \/ ScanRefuses(o)
    \/ TruncateSync(o) \/ TruncateSyncFails(o)

AppendFrame(o) ==
    \/ \E id \in Ids :
          AppendRefused(o, id) \/ AppendWrite(o, id) \/ AppendWriteFails(o, id)
    \/ AppendSync(o) \/ AppendSyncFails(o)

Next ==
    \/ \E o \in Openers :
          Open(o) \/ AppendFrame(o) \/ Replay(o) \/ ReplayFails(o) \/ Close(o) \/ Crash(o)
    \/ PowerLoss

Spec == Init /\ [][Next]_vars

-----------------------------------------------------------------------------
(* Properties                                                               *)

Returned == {id \in Ids : outcome[id] = "returned"}

Void == displaced \/ orphaned

PositionsOf(id, s) == {i \in Pos : IsFrame(s[i]) /\ s[i].id = id}

\* A payload whose append returned is adopted by every reopen, once, whatever
\* crash comes first; excepted are appends written at a displaced offset and
\* those that returned before the file's name was durable.
ReturnedAdoptedOnce ==
    ~ Void =>
        \A id \in Returned, s \in {segment, segmentDisk} :
            Cardinality(PositionsOf(id, s)) = 1 /\ Serves(s, id)

\* No step of a program takes a complete frame out of the file: recovery cuts
\* only tails too short to hold one, and a refused segment is left as it is.
NoFrameErased ==
    [][~ PowerLoss /\ ~ displaced' =>
          \A i \in Pos : IsFrame(segment[i]) => segment'[i] = segment[i]]_vars

\* A payload that append refused, or that a reopen did not find, is never found
\* by a later one.
DiscardedNeverAdopted ==
    ~ Void =>
        \A id \in Ids : outcome[id] \in {"definite", "discarded"} =>
            PositionsOf(id, segment) = {} /\ PositionsOf(id, segmentDisk) = {}

\* What the host is told of a payload stays true.
OutcomesHold == ReturnedAdoptedOnce /\ DiscardedNeverAdopted

Log == IF Void THEN <<>> ELSE [i \in 1..Adopted(segment) |-> segment[i].id]

Confirmed ==
    IF Void THEN 0
    ELSE CHOOSE n \in 0..Adopted(segment) :
            /\ n = 0 \/ segment[n].id \in Returned
            /\ \A i \in (n + 1)..Adopted(segment) : segment[i].id \notin Returned

Promise == INSTANCE JournalPromise
              WITH log <- Log, confirmed <- Confirmed, void <- Void

\* A v1 segment keeps the promise of a journal as a v2 segment does.
ImplementsPromise == Promise!Spec

\* append: "On return the frame is guaranteed to survive a restart".  The handle
\* that creates the file may lose the race for its lock, or crash, before it
\* syncs the directory; the handle that appends then never does.
ReturnedSurvivesRestart ==
    ~ displaced => \A id \in Returned : Serves(segment, id)
=============================================================================
