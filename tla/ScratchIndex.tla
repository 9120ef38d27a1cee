---------------------------- MODULE ScratchIndex ----------------------------
(***************************************************************************)
(* The index of one scratch run (scratch.rs): a log-structured merge tree  *)
(* whose segments are pages of a buffered append-only file.                *)
(*                                                                         *)
(* insert_many takes a root and returns a new one, so roots may branch; a  *)
(* full level is merged into the next.  A reference to a page has its      *)
(* offset and its digest; here it carries the segment it stands for, and a *)
(* page reads back when the file holds that segment at that offset.        *)
(* Offsets count pages: a torn page takes a cell of its own.               *)
(***************************************************************************)
EXTENDS Integers, FiniteSets, SequencesExt

CONSTANTS
    Keys,       \* a set of integers, for their order
    Values,
    Deleted,    \* the tombstone
    Batches,    \* the records an insertion may have: keys with values or tombstones
    Torn,       \* a cell of the file that holds part of a page
    Empty,      \* a level without a segment
    Failure,    \* the answer of a lookup that fails
    Levels,     \* SCRATCH_LSM_LEVELS
    BufferSize, \* pages the append buffer holds
    Buffered,   \* entries of the largest page that is buffered
    Budget,     \* entries a lookup session may cache
    MaxPages,   \* bound on the pages written
    MaxFaults   \* bound on failed writes and deaths

ASSUME IndexAssumption ==
    /\ Keys \subseteq Int /\ IsFiniteSet(Keys)
    /\ Deleted \notin Values /\ Failure \notin Values \cup {Deleted}
    /\ Failure \notin [Keys -> Values \cup {Deleted}]
    /\ Batches \subseteq UNION {[D -> Values \cup {Deleted}] : D \in (SUBSET Keys) \ {{}}}
    /\ Levels \in Nat \ {0} /\ BufferSize \in Nat \ {0}
    /\ Buffered \in Nat /\ Budget \in Nat /\ MaxPages \in Nat /\ MaxFaults \in Nat

VARIABLES
    disk,       \* the cells of the page file
    committed,  \* the length of the file the handle believes in
    pending,    \* pages appended and not written
    roots,      \* the roots returned, each with the map it stands for
    session,    \* a lookup session: its root, cached segments and their charge
    isOpen,     \* whether a handle is open
    lost,       \* the references that failed writes and deaths have cost
    faults      \* faults so far

vars == <<disk, committed, pending, roots, session, isOpen, lost, faults>>

Records == UNION {[D -> Values \cup {Deleted}] : D \in (SUBSET Keys) \ {{}}}

\* A segment is a page; a reference to it has its offset.
Pages == [generation : Nat, entries : Records]
Refs == [at : Nat, page : Pages]

ASSUME EmptyAssumption == Empty \notin Refs

Smallest(D) == CHOOSE k \in D : \A j \in D : k <= j
Largest(D) == CHOOSE k \in D : \A j \in D : k >= j

EmptyRoot == [generation |-> 0, levels |-> [l \in 1..Levels |-> Empty]]
NothingInserted == [k \in Keys |-> Deleted]

\* A map with newer records over it.
Overridden(map, records) ==
    [k \in Keys |-> IF k \in DOMAIN records THEN records[k] ELSE map[k]]

NoSession == [root |-> EmptyRoot, map |-> NothingInserted, cached |-> <<>>, resident |-> 0]

Init ==
    /\ disk = <<>> /\ committed = 0 /\ pending = <<>>
    /\ roots = {[root |-> EmptyRoot, map |-> NothingInserted]}
    /\ session = NoSession
    /\ isOpen = TRUE /\ lost = {} /\ faults = 0

Fault == faults < MaxFaults /\ faults' = faults + 1

-----------------------------------------------------------------------------
(* The buffered append file.                                               *)

\* What a read sees: it flushes first.
File == disk \o pending

\* A flush of nothing leaves the length as it is.
Flush ==
    /\ disk' = File /\ pending' = <<>>
    /\ committed' = IF pending = <<>> THEN committed ELSE Len(File)

\* A read flushes, and takes the length anew.
WithFile == disk' = File /\ pending' = <<>> /\ committed' = Len(File)

\* write_all stops after some of the buffer, perhaps inside a page.
PartOfBuffer ==
    /\ pending # <<>> /\ Fault
    /\ \E n \in 0..(Len(pending) - 1), tail \in {<<>>, <<Torn>>} :
        disk' = disk \o SubSeq(pending, 1, n) \o tail
    /\ committed' = Len(disk)

Reads(ref) == ref.at \in DOMAIN File /\ File[ref.at] = ref.page

Occupied(root) == {l \in 1..Levels : root.levels[l] # Empty}
Segments(root) == {root.levels[l] : l \in Occupied(root)}

\* The references to what is in the buffer.
InBuffer == {s \in UNION {Segments(r.root) : r \in roots} : s.at > Len(disk)}

\* The buffer stays, and the next flush writes all of it again, at the end of
\* the file: behind its references, unless nothing was written.
FlushFails ==
    /\ PartOfBuffer
    /\ lost' = IF disk' = disk THEN lost ELSE lost \cup InBuffer
    /\ UNCHANGED pending

\* The offset an append returns, computed before it flushes a full buffer.
NextOffset == committed + Len(pending) + 1

\* Larger pages are written at once, past the buffer.
Fits(page) == Cardinality(DOMAIN page.entries) <= Buffered

\* A page appended after the reads of the same operation flushed (or not).
Appended(page, hasRead) ==
    \/ /\ ~Fits(page)
       /\ disk' = Append(File, page) /\ committed' = Len(disk') /\ pending' = <<>>
    \/ /\ Fits(page) /\ (hasRead \/ Len(pending) = BufferSize)
       /\ disk' = File /\ committed' = Len(disk') /\ pending' = <<page>>
    \/ /\ Fits(page) /\ ~hasRead /\ Len(pending) < BufferSize
       /\ pending' = Append(pending, page) /\ UNCHANGED <<disk, committed>>

\* The write of a large page stops, perhaps inside it.  Nothing is pending, and
\* the length is short of what was written until a read or a write takes it anew.
WriteFails(page) ==
    /\ ~Fits(page) /\ Fault
    /\ \E tail \in {<<>>, <<Torn>>} : disk' = File \o tail
    /\ committed' = Len(File) /\ pending' = <<>>

-----------------------------------------------------------------------------
(* The merge tree.                                                         *)

\* The level an insertion fills: the first that is empty.  Those below are
\* merged into it.
Target(root) ==
    IF Occupied(root) = 1..Levels THEN Levels + 1
    ELSE Smallest((1..Levels) \ Occupied(root))

\* What an insertion merges: its batch, then the segments it takes.
Source(root, batch, l) == IF l = 0 THEN batch ELSE root.levels[l].page.entries
With(root, batch, k) ==
    {l \in 0..(Target(root) - 1) : k \in DOMAIN Source(root, batch, l)}

\* Mutant: a merged segment's record overrides the newer one.
OldestFirst(root, batch) ==
    [k \in {j \in Keys : With(root, batch, j) # {}} |->
        Source(root, batch, Largest(With(root, batch, k)))[k]]

\* The records of the new segment: what is newer stays.
Merged(root, batch) ==
    [k \in {j \in Keys : With(root, batch, j) # {}} |->
        Source(root, batch, Smallest(With(root, batch, k)))[k]]

NewPage(root, batch) == [generation |-> root.generation + 1, entries |-> Merged(root, batch)]

Inserted(root, batch, at) ==
    [generation |-> root.generation + 1,
     levels |-> [l \in 1..Levels |->
         IF l < Target(root) THEN Empty
         ELSE IF l = Target(root) THEN [at |-> at, page |-> NewPage(root, batch)]
         ELSE root.levels[l]]]

\* The levels an insertion merges read, and there is one to fill.
Insertable(r) ==
    /\ isOpen /\ Len(File) < MaxPages
    /\ Target(r.root) <= Levels
    /\ \A l \in 1..(Target(r.root) - 1) : Reads(r.root.levels[l])

\* Whether an insertion reads before it appends.
HasRead(root) == Target(root) > 1

NewOffset(root) == IF HasRead(root) THEN Len(File) + 1 ELSE NextOffset
NewRef(root, batch) == [at |-> NewOffset(root), page |-> NewPage(root, batch)]

\* An offset taken from a length that a failed write left short is wrong.
InsertMany(r, batch) ==
    /\ Insertable(r)
    /\ Appended(NewPage(r.root, batch), HasRead(r.root))
    /\ roots' = roots \cup {[root |-> Inserted(r.root, batch, NewOffset(r.root)),
                             map |-> Overridden(r.map, batch)]}
    /\ lost' = IF HasRead(r.root) \/ committed = Len(disk) THEN lost
               ELSE lost \cup {NewRef(r.root, batch)}
    /\ UNCHANGED <<session, isOpen, faults>>

InsertFails(r, batch) ==
    /\ Insertable(r)
    /\ WriteFails(NewPage(r.root, batch))
    /\ UNCHANGED <<roots, session, isOpen, lost>>

\* Without an empty level, or with a page that does not read, nothing changes
\* but that the reads have flushed.
InsertRefused(r) ==
    /\ isOpen /\ 1 \in Occupied(r.root)
    /\ \/ Target(r.root) > Levels
       \/ \E l \in 1..(Target(r.root) - 1) : ~Reads(r.root.levels[l])
    /\ WithFile /\ UNCHANGED <<roots, session, isOpen, lost, faults>>

Newest(S) == CHOOSE s \in S : \A t \in S : s.page.generation >= t.page.generation

\* The segments a lookup of k reads: those whose range has it, newest first,
\* until the first that has a record.
InRange(ref, k) == Smallest(DOMAIN ref.page.entries) <= k /\ k <= Largest(DOMAIN ref.page.entries)
Candidates(root, k) == {s \in Segments(root) : InRange(s, k)}
Having(S, k) == {s \in S : k \in DOMAIN s.page.entries}
Consulted(root, k) ==
    {s \in Candidates(root, k) :
        \A t \in Having(Candidates(root, k), k) : s.page.generation >= t.page.generation}

\* The newest record of k in these segments.
Record(S, k) == IF Having(S, k) = {} THEN Deleted ELSE Newest(Having(S, k)).page.entries[k]

Lookup(root, k) ==
    IF \E s \in Consulted(root, k) : ~Reads(s) THEN Failure ELSE Record(Consulted(root, k), k)

\* The segments of one generation.
MadeIn(S, g) == {s \in S : s.page.generation = g}

\* scan_prefix merges every segment, oldest first, and drops tombstones.  A
\* narrower prefix filters the same merge.
Scan(root) ==
    LET merged[g \in 0..root.generation] ==
          IF g = 0 THEN NothingInserted
          ELSE IF MadeIn(Segments(root), g) = {} THEN merged[g - 1]
          ELSE Overridden(merged[g - 1], Newest(MadeIn(Segments(root), g)).page.entries)
    IN IF \E s \in Segments(root) : ~Reads(s) THEN Failure
       ELSE merged[root.generation]

-----------------------------------------------------------------------------
(* A lookup session caches decoded segments of one root.                   *)

Charge(ref) == Cardinality(DOMAIN ref.page.entries)
Weight(S) == Cardinality({e \in S \X Keys : e[2] \in DOMAIN e[1].page.entries})

\* The counter after the n least recently used segments went.
Remaining(s, n) ==
    LET gone == Weight(Range(SubSeq(s.cached, 1, n)))
    IN IF gone > s.resident THEN 0 ELSE s.resident - gone

\* Mutant: a segment that fits alone displaces nothing.
EvictNone(s, ref) == 0

\* Least recently used segments go until the new one fits and has a slot.
Evictions(s, ref) ==
    Smallest({n \in 0..Len(s.cached) :
        Remaining(s, n) + Charge(ref) <= Budget /\ Len(s.cached) - n < Levels})

\* The session after a segment was used; most recently used last.
Used(s, ref) ==
    IF Contains(s.cached, ref)
    THEN LET i == CHOOSE i \in DOMAIN s.cached : s.cached[i] = ref
         IN [s EXCEPT !.cached = Append(RemoveAt(@, i), ref)]
    ELSE IF Charge(ref) > Budget THEN s
    ELSE LET n == Evictions(s, ref)
         IN [s EXCEPT !.cached = Append(SubSeq(@, n + 1, Len(@)), ref),
                      !.resident = Remaining(s, n) + Charge(ref)]

\* One session is followed, from whenever it opens; to it, any other only reads.
OpenSession(r) ==
    /\ isOpen /\ session = NoSession
    /\ session' = [root |-> r.root, map |-> r.map, cached |-> <<>>, resident |-> 0]
    /\ UNCHANGED <<disk, committed, pending, roots, isOpen, lost, faults>>

\* One segment is read for a lookup: from the cache, or from the file, which a
\* miss flushes.  A page that does not read ends the lookup.
ReadSegment(a, ref) ==
    IF a.failed THEN a
    ELSE IF Contains(a.session.cached, ref) THEN [a EXCEPT !.session = Used(@, ref)]
    ELSE IF Reads(ref) THEN [a EXCEPT !.session = Used(@, ref), !.missed = TRUE]
    ELSE [a EXCEPT !.failed = TRUE, !.missed = TRUE]

\* One batched lookup reads each segment it needs once, newest first.
Wanted(keys) == UNION {Consulted(session.root, k) : k \in keys}

Batched(keys) ==
    LET last == session.root.generation
        after[n \in 0..last] ==
          IF n = 0 THEN [session |-> session, failed |-> FALSE, missed |-> FALSE]
          ELSE IF MadeIn(Wanted(keys), last + 1 - n) = {} THEN after[n - 1]
          ELSE ReadSegment(after[n - 1], Newest(MadeIn(Wanted(keys), last + 1 - n)))
    IN after[last]

SessionAnswer(keys, k) ==
    IF Batched(keys).failed THEN Failure ELSE Record(Consulted(session.root, k), k)

SessionLookup(keys) ==
    /\ isOpen /\ Wanted(keys) # {}
    /\ session' = Batched(keys).session
    /\ IF Batched(keys).missed THEN WithFile ELSE UNCHANGED <<disk, committed, pending>>
    /\ UNCHANGED <<roots, isOpen, lost, faults>>

\* A lookup outside a session, a scan, a page read: each flushes, and may fail.
\* So does an append to a full buffer.
ReadPages ==
    /\ isOpen /\ (pending # <<>> \/ committed # Len(disk))
    /\ WithFile /\ UNCHANGED <<roots, session, isOpen, lost, faults>>
ReadFails == isOpen /\ FlushFails /\ UNCHANGED <<roots, session, isOpen>>

-----------------------------------------------------------------------------
(* Letting go of the run, and adopting it again.                           *)

\* Drop flushes and ignores the outcome.
Drop ==
    /\ isOpen
    /\ \/ Flush /\ UNCHANGED <<lost, faults>>
       \/ PartOfBuffer /\ pending' = <<>> /\ lost' = lost \cup InBuffer
    /\ isOpen' = FALSE /\ session' = NoSession /\ UNCHANGED roots

Die ==
    /\ isOpen /\ Fault
    /\ pending' = <<>> /\ lost' = lost \cup InBuffer
    /\ isOpen' = FALSE /\ session' = NoSession
    /\ UNCHANGED <<disk, committed, roots>>

\* adopt_retained opens both files at their end.
Adopt ==
    /\ ~isOpen
    /\ committed' = Len(disk)
    /\ isOpen' = TRUE
    /\ UNCHANGED <<disk, pending, roots, session, lost, faults>>

-----------------------------------------------------------------------------
Next ==
    \/ \E r \in roots :
        \/ \E batch \in Batches : InsertMany(r, batch) \/ InsertFails(r, batch)
        \/ InsertRefused(r) \/ OpenSession(r)
    \/ \E keys \in (SUBSET Keys) \ {{}} : SessionLookup(keys)
    \/ ReadPages \/ ReadFails
    \/ Drop \/ Die \/ Adopt

Spec == Init /\ [][Next]_vars

-----------------------------------------------------------------------------
Maps == [Keys -> Values \cup {Deleted}]

IsRoot(r) ==
    /\ r \in [generation : Nat, levels : [1..Levels -> Refs \cup {Empty}]]
    /\ \A s \in Segments(r) : s.page.generation \in 1..r.generation

\* Type correctness, and what validate_lsm_root demands of every root.
TypeOK ==
    /\ \A i \in DOMAIN File : File[i] \in Pages \cup {Torn}
    /\ committed \in Nat /\ Len(pending) <= BufferSize
    /\ \A r \in roots : IsRoot(r.root) /\ r.map \in Maps
    /\ isOpen \in BOOLEAN /\ lost \subseteq Refs /\ faults \in 0..MaxFaults
    /\ IsRoot(session.root)

\* Whatever was merged, deleted and inserted again along the branch of a root, a
\* lookup answers with the newest record or fails.  It fails only where it needs a
\* page that was in the buffer when a write failed or the process ended, or that
\* was appended after a failed write before anything took the length anew.
LookupAnswers ==
    \A r \in roots, k \in Keys :
        LET found == Lookup(r.root, k)
        IN IF found = Failure THEN Consulted(r.root, k) \cap lost # {} ELSE found = r.map[k]

\* A scan gives exactly the live records, or fails, as a lookup does.
ScanAnswers ==
    \A r \in roots :
        LET scanned == Scan(r.root)
        IN IF scanned = Failure THEN Segments(r.root) \cap lost # {}
           ELSE \A k \in Keys : scanned[k] = r.map[k]

\* Every read of a root answers with its newest records.
ReadsNewest == LookupAnswers /\ ScanAnswers

\* A session answers like the root it is bound to, from the cache or the file;
\* its counter is what it caches, within its budget and a slot per level.
SessionBounded ==
    /\ session.resident = Weight(Range(session.cached))
    /\ session.resident <= Budget /\ Len(session.cached) <= Levels
    /\ \A keys \in SUBSET Keys : \A k \in keys :
        LET found == SessionAnswer(keys, k)
        IN IF found = Failure THEN Wanted(keys) \cap lost # {} ELSE found = session.map[k]

\* "Scratch references bind byte offsets, lengths, and digests [...] Buffering
\* consecutive records preserves that contract": while the run stays open a
\* reference that reads its page goes on reading it.
ReferencesBind ==
    [][isOpen /\ isOpen' =>
        \A r \in roots : \A s \in Segments(r.root) : Reads(s) => Reads(s)']_vars

\* The same of what an insertion returns: its root reads.
ReturnedReads ==
    [][\A r \in roots' \ roots : \A s \in Segments(r.root) : Reads(s)']_vars
=============================================================================
