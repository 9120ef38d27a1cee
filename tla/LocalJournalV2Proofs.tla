------------------------ MODULE LocalJournalV2Proofs ------------------------
(***************************************************************************)
(* Theorems about one selected v2 segment, for every number of openers,    *)
(* payloads and frames.                                                    *)
(***************************************************************************)
EXTENDS LocalJournalV2, FiniteSetTheorems, SequenceTheorems, WellFoundedInduction, TLAPS

USE DEF Live, Appending

-----------------------------------------------------------------------------
(* Lemmas about the operators of the model.                                 *)

\* What a power loss leaves in a cell was there, or is broken; a synced cell is
\* left as it is.
LEMMA ImageCells ==
    ASSUME NEW disk, NEW cache, NEW image \in Images(disk, cache)
    PROVE  /\ image = [i \in Pos |-> image[i]]
           /\ \A i \in Pos : image[i] \in {disk[i], cache[i]} \cup Broken
           /\ \A i \in Pos : disk[i] = cache[i] => image[i] = disk[i]
BY DEF Images, CellImages

\* Files of cells stay files of cells.
LEMMA ImageType ==
    ASSUME NEW disk \in [Pos -> Cell], NEW cache \in [Pos -> Cell],
           NEW image \in Images(disk, cache)
    PROVE  image \in [Pos -> Cell]
<1>1. image = [i \in Pos |-> image[i]]
    BY ImageCells
<1>2. \A i \in Pos : image[i] \in Cell
    BY ImageCells DEF Cell
<1>3. QED
    BY <1>1, <1>2

\* The successor of a frontier below the limits is a frontier.
LEMMA SuccessorType ==
    ASSUME NEW f \in Frontier, NEW id \in Ids, f.extent < Capacity
    PROVE  /\ NextFrame(f, id) \in Frame
           /\ Successor(f, id) \in Frontier
<1>1. f.extent + 1 \in Pos /\ f.extent + 1 \in 0..Capacity
    BY CapacityAssumption DEF Frontier, Pos
<1>2. QED
    BY <1>1 DEF NextFrame, Successor, Frame, Frontier

LEMMA InitialFrontierType == InitialFrontier \in Frontier
BY CapacityAssumption DEF InitialFrontier, Frontier

-----------------------------------------------------------------------------
(* Type correctness and the lock.                                           *)

\* The lock is held by the one opener that is not closed.
LockInv == \A o \in Openers : pc[o] # "closed" <=> lock = o

\* Between the write and the return a payload is pending that the segment has
\* room for.
PendingInv ==
    \A o \in Openers : pc[o] \in Appending =>
        pending[o] \in Ids /\ known[o].extent < Capacity

\* The file offset is never beyond the frame that is written next.
CursorInv ==
    \A o \in Openers :
        /\ pc[o] = "ready" => cursor[o] <= known[o].extent
        /\ pc[o] \in Appending => cursor[o] <= known[o].extent + 1

BaseInv == TypeOK /\ LockInv /\ PendingInv /\ CursorInv

LEMMA BaseInit == Init => BaseInv
<1>1. Init => TypeOK
    <2>1. 0 \in 0..Capacity
        BY CapacityAssumption
    <2>2. QED
        BY <2>1, InitialFrontierType DEF Init, TypeOK, Cell, Outcomes
<1>2. Init => LockInv /\ PendingInv /\ CursorInv
    BY SentinelAssumption DEF Init, LockInv, PendingInv, CursorInv
<1>3. QED
    BY <1>1, <1>2 DEF BaseInv

LEMMA BaseStep == BaseInv /\ [Next]_vars => BaseInv'
<1> SUFFICES ASSUME BaseInv, [Next]_vars PROVE BaseInv'
    OBVIOUS
<1> USE SentinelAssumption, CapacityAssumption, InitialFrontierType
    DEF BaseInv, TypeOK, LockInv, PendingInv, CursorInv, Outcomes, file, memory
<1>1. CASE UNCHANGED vars
    BY <1>1 DEF vars
<1>2. CASE PrepareSegment \/ PrepareFrontier
    BY <1>2 DEF PrepareSegment, PrepareFrontier
<1>3. ASSUME NEW o \in Openers, Open(o) PROVE BaseInv'
    <2>1. \A f, s : Settle(f, s) \in [Ids -> Outcomes]
        BY DEF Settle
    <2>2. frontier.extent \in 0..Capacity /\ known[o].extent \in 0..Capacity
        BY DEF Frontier
    <2>3. CASE OpenClean(o)
        BY <2>1, <2>2, <2>3 DEF OpenClean, CanOpen
    <2>4. CASE OpenTruncate(o)
        <3>1. Truncated(segment, frontier.extent) \in [Pos -> Cell]
            BY DEF Truncated, Cell
        <3>2. QED
            BY <2>4, <3>1 DEF OpenTruncate, CanOpen
    <2>5. CASE OpenSync(o)
        BY <2>1, <2>2, <2>5 DEF OpenSync
    <2>6. CASE OpenSyncFails(o)
        <3>1. segmentDisk' \in [Pos -> Cell]
            BY <2>6, ImageType DEF OpenSyncFails
        <3>2. QED
            BY <2>6, <3>1 DEF OpenSyncFails, Forget
    <2>7. QED
        BY <1>3, <2>3, <2>4, <2>5, <2>6 DEF Open
<1>4. ASSUME NEW o \in Openers, NEW id \in Ids, AppendRefused(o, id) PROVE BaseInv'
    BY <1>4 DEF AppendRefused
<1>5. ASSUME NEW o \in Openers, NEW id \in Ids, AppendWrite(o, id) PROVE BaseInv'
    <2>1. /\ known[o].extent < Capacity /\ pc[o] = "ready"
          /\ known[o].extent \in 0..Capacity /\ cursor[o] \in 0..Capacity
        BY <1>5 DEF AppendWrite, CanAppend, Frontier
    <2>2. NextFrame(known[o], id) \in Cell
        BY <2>1, SuccessorType DEF Cell
    <2>3. segment' \in [Pos -> Cell]
        BY <1>5, <2>2 DEF AppendWrite
    <2>4. /\ cursor[o] + 1 \in 0..Capacity
          /\ cursor[o] + 1 <= known[o].extent + 1
        BY <2>1
    <2>5. QED
        BY <1>5, <2>1, <2>3, <2>4 DEF AppendWrite
<1>6. ASSUME NEW o \in Openers, NEW id \in Ids, AppendWriteFails(o, id) PROVE BaseInv'
    BY <1>6 DEF AppendWriteFails, CanAppend, Cell
<1>7. ASSUME NEW o \in Openers, SegmentSync(o) \/ SegmentSyncFails(o) PROVE BaseInv'
    <2>1. segmentDisk' \in [Pos -> Cell]
        BY <1>7, ImageType DEF SegmentSync, SegmentSyncFails
    <2>2. QED
        BY <1>7, <2>1 DEF SegmentSync, SegmentSyncFails, Advance, Unknown
<1>8. ASSUME NEW o \in Openers, FrontierRename(o) \/ FrontierRenameAmbiguous(o)
      PROVE  BaseInv'
    <2>1. Successor(known[o], pending[o]) \in Frontier
        BY <1>8, SuccessorType DEF FrontierRename, FrontierRenameAmbiguous, Advance
    <2>2. QED
        BY <1>8, <2>1 DEF FrontierRename, FrontierRenameAmbiguous, Advance, Unknown, Rename
<1>9. ASSUME NEW o \in Openers,
             FrontierTempFails(o) \/ DirectorySync(o) \/ DirectorySyncFails(o)
               \/ AppendReturn(o) \/ VerifyFails(o)
      PROVE  BaseInv'
    <2>1. CASE AppendReturn(o)
        <3>1. frontier.extent = known[o].extent + 1
            BY <2>1 DEF AppendReturn, Successor
        <3>2. QED
            BY <2>1, <3>1 DEF AppendReturn
    <2>2. CASE DirectorySync(o)
        BY <2>2 DEF DirectorySync, Advance
    <2>3. CASE FrontierTempFails(o) \/ DirectorySyncFails(o) \/ VerifyFails(o)
        BY <2>3 DEF FrontierTempFails, DirectorySyncFails, VerifyFails, Unknown
    <2>4. QED
        BY <1>9, <2>1, <2>2, <2>3
<1>10. ASSUME NEW o \in Openers, Replay(o) \/ ReplayFails(o) PROVE BaseInv'
    BY <1>10 DEF Replay, ReplayFails, Frontier
<1>11. ASSUME NEW o \in Openers, Close(o) \/ Crash(o) PROVE BaseInv'
    BY <1>11 DEF Close, Crash, Forget
<1>12. CASE PowerLoss
    <2>1. segment' \in [Pos -> Cell] /\ segmentDisk' \in [Pos -> Cell]
        BY <1>12, ImageType DEF PowerLoss
    <2>2. QED
        BY <1>12, <2>1 DEF PowerLoss
<1>13. QED
    BY <1>1, <1>2, <1>3, <1>4, <1>5, <1>6, <1>7, <1>8, <1>9, <1>10, <1>11, <1>12
    DEF Next, AppendFrame

LEMMA BaseAlways == Spec => []BaseInv
BY BaseInit, BaseStep, PTL DEF Spec

\* Type correctness: in particular no append passes the segment's capacity and
\* no file offset leaves the segment (local_journal_v2.rs, successor).
THEOREM TypeCorrect == Spec => []TypeOK
<1>1. BaseInv => TypeOK
    BY DEF BaseInv
<1>2. QED
    BY BaseAlways, <1>1, PTL

-----------------------------------------------------------------------------
(* Outcomes.                                                                *)

\* At most one outcome is open; a payload is in flight exactly while its opener
\* appends it, and a usable handle has nothing open.
SettleInv ==
    /\ \A x, y \in Unsettled : x = y
    /\ \A id \in Ids : outcome[id] = "inflight" =>
           \E o \in Openers : pc[o] \in Appending /\ pending[o] = id
    /\ \A o \in Openers :
           /\ pc[o] = "ready" => Unsettled = {}
           /\ pc[o] \in Appending => outcome[pending[o]] = "inflight"

\* While nobody appends, reopening settles everything that was open.
LEMMA SettleSettles ==
    ASSUME BaseInv, SettleInv, \A o \in Openers : pc[o] \notin Appending,
           NEW f, NEW s, outcome' = Settle(f, s)
    PROVE  Unsettled' = {}
<1>1. \A id \in Ids : outcome[id] # "inflight"
    BY DEF SettleInv
<1>2. \A id \in Ids : outcome'[id] \notin {"inflight", "unknown"}
    BY <1>1 DEF Settle
<1>3. QED
    BY <1>2 DEF Unsettled

LEMMA SettleInit == Init => SettleInv
BY DEF Init, SettleInv, Unsettled

LEMMA SettleStep == BaseInv /\ SettleInv /\ [Next]_vars => SettleInv'
<1> SUFFICES ASSUME BaseInv, SettleInv, [Next]_vars PROVE SettleInv'
    OBVIOUS
<1> USE SentinelAssumption DEF BaseInv, TypeOK, LockInv, PendingInv, SettleInv, file, memory
<1>1. CASE UNCHANGED vars
    BY <1>1 DEF vars, Unsettled
<1>2. CASE PrepareSegment \/ PrepareFrontier
    BY <1>2 DEF PrepareSegment, PrepareFrontier, Unsettled
<1>3. ASSUME NEW o \in Openers, OpenClean(o) PROVE SettleInv'
    <2>1. Unsettled' = {}
        BY <1>3, SettleSettles DEF OpenClean, CanOpen
    <2>2. QED
        BY <1>3, <2>1 DEF OpenClean, CanOpen, Unsettled
<1>4. ASSUME NEW o \in Openers, OpenTruncate(o) PROVE SettleInv'
    BY <1>4 DEF OpenTruncate, CanOpen, Unsettled
<1>5. ASSUME NEW o \in Openers, OpenSync(o) PROVE SettleInv'
    <2>1. Unsettled' = {}
        BY <1>5, SettleSettles DEF OpenSync
    <2>2. QED
        BY <1>5, <2>1 DEF OpenSync, Unsettled
<1>6. ASSUME NEW o \in Openers, OpenSyncFails(o) PROVE SettleInv'
    BY <1>6 DEF OpenSyncFails, Forget, Unsettled
<1>7. ASSUME NEW o \in Openers, NEW id \in Ids, AppendRefused(o, id) PROVE SettleInv'
    BY <1>7 DEF AppendRefused, Unsettled
<1>8. ASSUME NEW o \in Openers, NEW id \in Ids,
             AppendWrite(o, id) \/ AppendWriteFails(o, id)
      PROVE  SettleInv'
    <2>1. pc[o] = "ready" /\ Unsettled = {}
        BY <1>8 DEF AppendWrite, AppendWriteFails, CanAppend
    <2>2. Unsettled' = {id}
        BY <1>8, <2>1 DEF AppendWrite, AppendWriteFails, Unsettled
    <2>3. QED
        BY <1>8, <2>1, <2>2 DEF AppendWrite, AppendWriteFails, Unsettled
<1>9. ASSUME NEW o \in Openers, NEW from \in Appending, NEW to \in Appending,
             Advance(o, from, to)
      PROVE  SettleInv'
    BY <1>9 DEF Advance, Unsettled
<1>10. ASSUME NEW o \in Openers, pc[o] \in Appending, Unknown(o) PROVE SettleInv'
    BY <1>10 DEF Unknown, Unsettled
<1>11. ASSUME NEW o \in Openers, AppendReturn(o) PROVE SettleInv'
    <2>1. Unsettled = {pending[o]}
        BY <1>11 DEF AppendReturn, Unsettled
    <2>2. Unsettled' = {}
        BY <1>11, <2>1 DEF AppendReturn, Unsettled
    <2>3. QED
        BY <1>11, <2>2 DEF AppendReturn, Unsettled
<1>12. ASSUME NEW o \in Openers, Replay(o) \/ ReplayFails(o) PROVE SettleInv'
    BY <1>12 DEF Replay, ReplayFails, Unsettled
<1>13. ASSUME NEW o \in Openers, Close(o) PROVE SettleInv'
    BY <1>13 DEF Close, Forget, Unsettled
<1>14. ASSUME NEW o \in Openers, Crash(o) PROVE SettleInv'
    BY <1>14 DEF Crash, Forget, Unsettled
<1>15. CASE PowerLoss
    BY <1>15 DEF PowerLoss, Unsettled
<1>16. ASSUME NEW o \in Openers,
              SegmentSync(o) \/ FrontierRename(o) \/ DirectorySync(o)
       PROVE  SettleInv'
    BY <1>16, <1>9 DEF SegmentSync, FrontierRename, DirectorySync
<1>17. ASSUME NEW o \in Openers,
              SegmentSyncFails(o) \/ FrontierTempFails(o)
                \/ FrontierRenameAmbiguous(o) \/ DirectorySyncFails(o) \/ VerifyFails(o)
       PROVE  SettleInv'
    BY <1>17, <1>10 DEF SegmentSyncFails, FrontierTempFails, FrontierRenameAmbiguous,
                        DirectorySyncFails, VerifyFails
<1>18. QED
    BY <1>1, <1>2, <1>3, <1>4, <1>5, <1>6, <1>7, <1>8, <1>11, <1>12, <1>13, <1>14,
       <1>15, <1>16, <1>17
    DEF Next, Open, AppendFrame

LEMMA SettleAlways == Spec => []SettleInv
BY SettleInit, SettleStep, BaseAlways, PTL DEF Spec

\* The host never has more than one payload whose outcome it does not know: a
\* failed append poisons the handle, and only a reopen, which settles the
\* outcome, makes another handle that appends (append, open_selected).
THEOREM OneUnsettled == Spec => []AtMostOneUnsettled
<1>1. SettleInv => AtMostOneUnsettled
    <2> SUFFICES ASSUME SettleInv PROVE Cardinality(Unsettled) <= 1
        BY DEF AtMostOneUnsettled
    <2>1. CASE Unsettled = {}
        BY <2>1, FS_EmptySet
    <2>2. CASE Unsettled # {}
        <3>1. PICK x : Unsettled = {x}
            BY <2>2 DEF SettleInv
        <3>2. QED
            BY <3>1, FS_Singleton
    <2>3. QED
        BY <2>1, <2>2
<1>2. QED
    BY SettleAlways, <1>1, PTL

-----------------------------------------------------------------------------
(* Frames.                                                                  *)

CellsAt(i) == {segment[i], segmentDisk[i]}

\* A payload that has not been offered is in no cell, and a payload is never in
\* two cells, be it of the cached or of the synced segment.
UniqueInv ==
    /\ \A i \in Pos, x \in Frame :
           x \in CellsAt(i) => outcome[x.id] # "unused"
    /\ \A i, j \in Pos, x, y \in Frame :
           x \in CellsAt(i) /\ y \in CellsAt(j) /\ x.id = y.id => i = j

\* No payload is offered twice.
LEMMA NeverUnusedAgain ==
    ASSUME BaseInv, [Next]_vars, NEW id \in Ids, outcome[id] # "unused"
    PROVE  outcome'[id] # "unused"
<1> USE DEF BaseInv, TypeOK, PendingInv
<1>1. CASE UNCHANGED <<outcome>>
    BY <1>1
<1>2. ASSUME NEW o \in Openers, Open(o) \/ AppendFrame(o) \/ Replay(o)
                 \/ ReplayFails(o) \/ Close(o) \/ Crash(o)
      PROVE  outcome'[id] # "unused"
    <2>1. CASE OpenClean(o) \/ OpenTruncate(o) \/ OpenSync(o) \/ OpenSyncFails(o)
        BY <2>1 DEF OpenClean, OpenTruncate, OpenSync, OpenSyncFails, Settle
    <2>2. ASSUME NEW x \in Ids,
                 AppendRefused(o, x) \/ AppendWrite(o, x) \/ AppendWriteFails(o, x)
          PROVE  outcome'[id] # "unused"
        BY <2>2 DEF AppendRefused, AppendWrite, AppendWriteFails
    <2>3. CASE SegmentSync(o) \/ FrontierRename(o) \/ DirectorySync(o)
        BY <2>3 DEF SegmentSync, FrontierRename, DirectorySync, Advance
    <2>4. CASE \/ SegmentSyncFails(o) \/ FrontierTempFails(o)
               \/ FrontierRenameAmbiguous(o) \/ DirectorySyncFails(o) \/ VerifyFails(o)
        BY <2>4 DEF SegmentSyncFails, FrontierTempFails, FrontierRenameAmbiguous,
                    DirectorySyncFails, VerifyFails, Unknown
    <2>5. CASE AppendReturn(o)
        BY <2>5 DEF AppendReturn
    <2>6. CASE Replay(o) \/ ReplayFails(o) \/ Close(o) \/ Crash(o)
        BY <2>6 DEF Replay, ReplayFails, Close, Crash
    <2>7. QED
        BY <1>2, <2>1, <2>2, <2>3, <2>4, <2>5, <2>6 DEF Open, AppendFrame
<1>3. CASE PowerLoss
    BY <1>3 DEF PowerLoss
<1>4. QED
    BY <1>1, <1>2, <1>3 DEF Next, PrepareSegment, PrepareFrontier, vars

\* Only the write of an append puts a frame into a cell that did not hold it.
LEMMA CellSources ==
    ASSUME BaseInv, [Next]_vars,
           ~ \E o \in Openers, id \in Ids : AppendWrite(o, id)
    PROVE  \A i \in Pos :
               segment'[i] \in CellsAt(i) \cup Broken \cup {Hole}
               /\ segmentDisk'[i] \in CellsAt(i) \cup Broken \cup {Hole}
<1> USE DEF CellsAt, BaseInv, TypeOK
<1>1. CASE UNCHANGED <<segment, segmentDisk>>
    BY <1>1
<1>2. ASSUME NEW o \in Openers, OpenTruncate(o)
      PROVE  \A i \in Pos : segment'[i] \in {segment[i], Hole}
                           /\ segmentDisk'[i] = segmentDisk[i]
    BY <1>2 DEF OpenTruncate, Truncated
<1>3. ASSUME NEW o \in Openers, OpenSync(o) \/ SegmentSync(o)
      PROVE  segment' = segment /\ segmentDisk' = segment
    BY <1>3 DEF OpenSync, SegmentSync
<1>4. ASSUME NEW o \in Openers, OpenSyncFails(o) \/ SegmentSyncFails(o)
      PROVE  \A i \in Pos : segment'[i] = segment[i]
                           /\ segmentDisk'[i] \in {segmentDisk[i], segment[i]} \cup Broken
    BY <1>4, ImageCells DEF OpenSyncFails, SegmentSyncFails
<1>5. ASSUME NEW o \in Openers, NEW id \in Ids, AppendWriteFails(o, id)
      PROVE  \A i \in Pos : segment'[i] \in {segment[i]} \cup Broken
                           /\ segmentDisk'[i] = segmentDisk[i]
    BY <1>5 DEF AppendWriteFails
<1>6. CASE PowerLoss
    <2>1. PICK image \in Images(segmentDisk, segment) :
              segment' = image /\ segmentDisk' = image
        BY <1>6 DEF PowerLoss
    <2>2. QED
        BY <2>1, ImageCells
<1>7. ASSUME NEW o \in Openers,
             OpenClean(o) \/ (\E id \in Ids : AppendRefused(o, id))
               \/ FrontierTempFails(o) \/ FrontierRename(o) \/ FrontierRenameAmbiguous(o)
               \/ DirectorySync(o) \/ DirectorySyncFails(o) \/ AppendReturn(o)
               \/ VerifyFails(o) \/ Replay(o) \/ ReplayFails(o) \/ Close(o) \/ Crash(o)
      PROVE  UNCHANGED <<segment, segmentDisk>>
    BY <1>7 DEF OpenClean, AppendRefused, FrontierTempFails, FrontierRename,
                FrontierRenameAmbiguous, Rename, DirectorySync, DirectorySyncFails,
                AppendReturn, VerifyFails, Replay, ReplayFails, Close, Crash, file
<1>8. CASE PrepareSegment \/ PrepareFrontier \/ UNCHANGED vars
    BY <1>8 DEF PrepareSegment, PrepareFrontier, vars, file
<1>9. QED
    BY <1>1, <1>2, <1>3, <1>4, <1>5, <1>6, <1>7, <1>8 DEF Next, Open, AppendFrame

LEMMA UniqueInit == Init => UniqueInv
BY SentinelAssumption DEF Init, UniqueInv, CellsAt

LEMMA UniqueStep == BaseInv /\ UniqueInv /\ [Next]_vars => UniqueInv'
<1> SUFFICES ASSUME BaseInv, UniqueInv, [Next]_vars PROVE UniqueInv'
    OBVIOUS
<1>1. CASE ~ \E o \in Openers, id \in Ids : AppendWrite(o, id)
    <2>1. \A i \in Pos, x \in Frame :
              x \in {segment'[i], segmentDisk'[i]} => x \in CellsAt(i)
        BY <1>1, CellSources, SentinelAssumption
    <2>2. \A x \in Frame : outcome[x.id] # "unused" => outcome'[x.id] # "unused"
        BY NeverUnusedAgain DEF Frame
    <2>3. QED
        BY <2>1, <2>2 DEF UniqueInv, CellsAt
<1>2. ASSUME NEW o \in Openers, NEW id \in Ids, AppendWrite(o, id)
      PROVE  UniqueInv'
    <2> DEFINE p == cursor[o] + 1
    <2>1. outcome[id] = "unused" /\ outcome' = [outcome EXCEPT ![id] = "inflight"]
        BY <1>2 DEF AppendWrite, CanAppend
    <2>2. segment' = [segment EXCEPT ![p] = NextFrame(known[o], id)]
          /\ segmentDisk' = segmentDisk
        BY <1>2 DEF AppendWrite
    <2>3. \A i \in Pos, x \in Frame : x \in CellsAt(i)' =>
              x \in CellsAt(i) \/ (i = p /\ x.id = id)
        BY <2>2 DEF CellsAt, NextFrame, BaseInv, TypeOK
    <2>4. \A i \in Pos, x \in Frame : x \in CellsAt(i) => x.id # id
        BY <2>1 DEF UniqueInv
    <2> HIDE DEF p
    <2>5. ASSUME NEW i \in Pos, NEW x \in Frame, x \in CellsAt(i)'
          PROVE  outcome'[x.id] # "unused"
        <3>1. x.id \in Ids
            BY DEF Frame
        <3>2. QED
            BY <2>1, <2>3, <2>5, <3>1 DEF UniqueInv, BaseInv, TypeOK
    <2>6. ASSUME NEW i \in Pos, NEW j \in Pos, NEW x \in Frame, NEW y \in Frame,
                 x \in CellsAt(i)', y \in CellsAt(j)', x.id = y.id
          PROVE  i = j
        BY <2>3, <2>4, <2>6 DEF UniqueInv
    <2>7. QED
        BY <2>5, <2>6 DEF UniqueInv
<1>3. QED
    BY <1>1, <1>2

\* The prefix the visible frontier names is synced, and every frontier a power
\* loss may leave names a prefix of it.
PrefixInv ==
    /\ frontier \in frontierDisk
    /\ \A f \in frontierDisk : f.extent <= frontier.extent /\ ScanOk(f, segment)
    /\ \A i \in 1..frontier.extent : segmentDisk[i] = segment[i]

\* What an opener remembers of the frontier and has done of its append.
StepInv ==
    \A o \in Openers :
        /\ pc[o] \in {"truncating", "ready", "written", "synced"} =>
               known[o] = frontier
        /\ pc[o] \in {"written", "synced"} =>
               segment[known[o].extent + 1] = NextFrame(known[o], pending[o])
        /\ pc[o] = "synced" =>
               segmentDisk[known[o].extent + 1] = NextFrame(known[o], pending[o])
        /\ pc[o] \in {"renamed", "published"} =>
               frontier = Successor(known[o], pending[o])
        /\ pc[o] = "published" => frontierDisk = {frontier}

\* Returned payloads are in every surviving prefix, discarded ones in none.
OutcomeInv ==
    /\ \A id \in Returned, f \in frontierDisk :
           \E i \in 1..f.extent : segment[i].id = id
    /\ \A id \in Ids : outcome[id] \in {"definite", "discarded"} =>
           \A i \in 1..frontier.extent : segment[i].id # id

CommitInv == ~ displaced => PrefixInv /\ StepInv /\ OutcomeInv

IInv == BaseInv /\ SettleInv /\ UniqueInv /\ CommitInv

-----------------------------------------------------------------------------
(* The committed prefix.                                                    *)

\* A scan reads nothing beyond the extent.
LEMMA ScanAgrees ==
    ASSUME NEW f \in Frontier, NEW s, NEW t, ScanOk(f, s),
           \A i \in 1..f.extent : t[i] = s[i]
    PROVE  ScanOk(f, t)
<1>1. f.extent # 0 => f.extent \in 1..f.extent
    BY CapacityAssumption DEF Frontier
<1>2. QED
    BY <1>1 DEF ScanOk

\* The step left both frontiers alone, and every selected cell.
PrefixKept ==
    /\ frontier' = frontier
    /\ frontierDisk' = frontierDisk
    /\ \A i \in 1..frontier.extent :
           segment'[i] = segment[i] /\ segmentDisk'[i] = segment[i]

\* Only the selection of a frontier can change what is selected.
LEMMA KeepsPrefix ==
    ASSUME BaseInv, PrefixInv, StepInv, ~ displaced', [Next]_vars,
           ~ PowerLoss,
           ~ \E o \in Openers : \/ FrontierRename(o) \/ FrontierRenameAmbiguous(o)
                               \/ DirectorySync(o)
    PROVE  PrefixKept
<1> USE DEF BaseInv, TypeOK, PrefixInv, PrefixKept
<1>0. \A i \in 1..frontier.extent : i \in Pos
    BY CapacityAssumption DEF Frontier, Pos
<1>1. CASE UNCHANGED file
    BY <1>1 DEF file
<1>2. ASSUME NEW o \in Openers, OpenTruncate(o) PROVE PrefixKept
    BY <1>0, <1>2 DEF OpenTruncate, Truncated
<1>3. ASSUME NEW o \in Openers, OpenSync(o) \/ SegmentSync(o) PROVE PrefixKept
    BY <1>3 DEF OpenSync, SegmentSync
<1>4. ASSUME NEW o \in Openers, OpenSyncFails(o) \/ SegmentSyncFails(o)
      PROVE  PrefixKept
    BY <1>0, <1>4, ImageCells DEF OpenSyncFails, SegmentSyncFails
<1>5. ASSUME NEW o \in Openers, NEW id \in Ids,
             AppendWrite(o, id) \/ AppendWriteFails(o, id)
      PROVE  PrefixKept
    <2>1. pc[o] = "ready" /\ known[o] = frontier
        BY <1>5 DEF AppendWrite, AppendWriteFails, CanAppend, StepInv
    <2>2. \/ segment' = segment
          \/ \E x : segment' = [segment EXCEPT ![frontier.extent + 1] = x]
        <3>1. CASE AppendWrite(o, id)
            BY <3>1, <2>1 DEF AppendWrite
        <3>2. CASE AppendWriteFails(o, id)
            BY <3>2, <2>1 DEF AppendWriteFails
        <3>3. QED
            BY <1>5, <3>1, <3>2
    <2>3. \A i \in 1..frontier.extent : i # frontier.extent + 1
        BY DEF Frontier
    <2>4. UNCHANGED <<segmentDisk, frontier, frontierDisk>>
        BY <1>5 DEF AppendWrite, AppendWriteFails
    <2>5. QED
        BY <1>0, <2>2, <2>3, <2>4
<1>6. ASSUME NEW o \in Openers,
             OpenClean(o) \/ (\E id \in Ids : AppendRefused(o, id))
               \/ FrontierTempFails(o) \/ DirectorySyncFails(o) \/ AppendReturn(o)
               \/ VerifyFails(o) \/ Replay(o) \/ ReplayFails(o) \/ Close(o) \/ Crash(o)
      PROVE  UNCHANGED file
    BY <1>6 DEF OpenClean, AppendRefused, FrontierTempFails, DirectorySyncFails,
                AppendReturn, VerifyFails, Replay, ReplayFails, Close, Crash, file
<1>7. CASE PrepareSegment \/ PrepareFrontier \/ UNCHANGED vars
    BY <1>7 DEF PrepareSegment, PrepareFrontier, vars, file
<1>8. QED
    BY <1>1, <1>2, <1>3, <1>4, <1>5, <1>6, <1>7 DEF Next, Open, AppendFrame

\* A rename selects one more frame, which the segment's sync made durable.
LEMMA RenameSelects ==
    ASSUME BaseInv, PrefixInv, StepInv, NEW o \in Openers,
           FrontierRename(o) \/ FrontierRenameAmbiguous(o)
    PROVE  /\ known[o] = frontier /\ pc[o] = "synced" /\ pending[o] \in Ids
           /\ frontier' = Successor(frontier, pending[o])
           /\ frontierDisk' = frontierDisk \cup {frontier'}
           /\ segment' = segment /\ segmentDisk' = segmentDisk
           /\ frontier'.extent = frontier.extent + 1
           /\ frontier'.extent \in Pos
           /\ segment[frontier.extent + 1] = NextFrame(frontier, pending[o])
           /\ segmentDisk[frontier.extent + 1] = NextFrame(frontier, pending[o])
<1>1. pc[o] = "synced" /\ Rename(o)
    BY DEF FrontierRename, FrontierRenameAmbiguous, Advance
<1>2. known[o] = frontier /\ known[o].extent < Capacity /\ pending[o] \in Ids
    BY <1>1 DEF StepInv, BaseInv, PendingInv
<1>3. frontier.extent + 1 \in Pos
    BY <1>2, CapacityAssumption DEF BaseInv, TypeOK, Frontier, Pos
<1>4. QED
    BY <1>1, <1>2, <1>3 DEF Rename, Successor, StepInv

\* What a power loss leaves of the selected cells is what was selected.
LEMMA PowerLossKeeps ==
    ASSUME BaseInv, PrefixInv, PowerLoss
    PROVE  /\ frontier' \in frontierDisk /\ frontierDisk' = {frontier'}
           /\ frontier'.extent <= frontier.extent
           /\ \A i \in 1..frontier.extent :
                  segment'[i] = segment[i] /\ segmentDisk'[i] = segment[i]
<1>1. \A i \in 1..frontier.extent : i \in Pos
    BY CapacityAssumption DEF BaseInv, TypeOK, Frontier, Pos
<1>2. PICK image \in Images(segmentDisk, segment) :
          segment' = image /\ segmentDisk' = image
    BY DEF PowerLoss
<1>3. \A i \in 1..frontier.extent : image[i] = segment[i]
    BY <1>1, ImageCells DEF PrefixInv
<1>4. QED
    BY <1>2, <1>3 DEF PowerLoss, PrefixInv

LEMMA PrefixStep ==
    ASSUME BaseInv, PrefixInv, StepInv, ~ displaced', [Next]_vars
    PROVE  PrefixInv'
<1> USE DEF BaseInv, TypeOK
<1>1. CASE PrefixKept
    <2>1. ASSUME NEW f \in frontierDisk PROVE ScanOk(f, segment')
        <3>1. \A i \in 1..f.extent : i \in 1..frontier.extent
            BY DEF PrefixInv, Frontier
        <3>2. QED
            BY <1>1, <3>1, ScanAgrees DEF PrefixInv, PrefixKept
    <2>2. QED
        BY <1>1, <2>1 DEF PrefixInv, PrefixKept
<1>2. ASSUME NEW o \in Openers, FrontierRename(o) \/ FrontierRenameAmbiguous(o)
      PROVE  PrefixInv'
    <2> DEFINE n == frontier.extent
    <2>1. n \in Nat /\ frontier.extent \in Nat
        BY DEF Frontier
    <2>2. \A i \in 1..(n + 1) : i \in 1..n \/ i = n + 1
        BY <2>1
    <2>3. ScanOk(frontier', segment)
        <3>1. NextFrame(frontier, pending[o]) \in Frame
            <4>1. n < Capacity /\ frontier \in Frontier /\ pending[o] \in Ids
                BY <1>2, <2>1, CapacityAssumption, RenameSelects DEF Pos
            <4>2. QED
                BY <4>1, SuccessorType
        <3>2. \A i \in 1..(n + 1) : segment[i] \in Frame /\ segment[i].seq = i
            BY <1>2, <2>2, <3>1, RenameSelects DEF PrefixInv, ScanOk, NextFrame
        <3>3. frontier'.terminal = segment[n + 1] /\ n + 1 # 0
            BY <1>2, <2>1, RenameSelects DEF Successor
        <3>4. QED
            BY <1>2, <3>2, <3>3, RenameSelects DEF ScanOk
    <2>4. \A f \in frontierDisk : f.extent <= n + 1
        BY <2>1 DEF PrefixInv, Frontier
    <2>5. \A i \in 1..(n + 1) : segmentDisk[i] = segment[i]
        BY <1>2, <2>2, RenameSelects DEF PrefixInv
    <2> HIDE DEF n
    <2>6. frontier'.extent = n + 1 /\ segment' = segment /\ segmentDisk' = segmentDisk
          /\ frontierDisk' = frontierDisk \cup {frontier'} /\ n + 1 <= n + 1
        BY <1>2, <2>1, RenameSelects DEF n
    <2>7. QED
        BY <2>3, <2>4, <2>5, <2>6 DEF PrefixInv
<1>3. ASSUME NEW o \in Openers, DirectorySync(o) PROVE PrefixInv'
    BY <1>3 DEF DirectorySync, PrefixInv
<1>4. CASE PowerLoss
    <2>1. \A i \in 1..frontier'.extent : i \in 1..frontier.extent
        BY <1>4, PowerLossKeeps DEF Frontier
    <2>2. ScanOk(frontier', segment')
        BY <1>4, <2>1, PowerLossKeeps, ScanAgrees DEF PrefixInv
    <2>3. frontier'.extent <= frontier'.extent
        BY <1>4, PowerLossKeeps DEF Frontier
    <2>4. QED
        BY <1>4, <2>1, <2>2, <2>3, PowerLossKeeps DEF PrefixInv
<1>5. QED
    BY <1>1, <1>2, <1>3, <1>4, KeepsPrefix

LEMMA StepStep ==
    ASSUME BaseInv, PrefixInv, StepInv, ~ displaced', [Next]_vars
    PROVE  StepInv'
<1> USE SentinelAssumption DEF BaseInv, TypeOK, LockInv, PendingInv, StepInv, file, memory
<1>1. CASE PrepareSegment \/ PrepareFrontier \/ UNCHANGED vars
    BY <1>1 DEF PrepareSegment, PrepareFrontier, vars
<1>2. ASSUME NEW o \in Openers, OpenClean(o) \/ OpenTruncate(o) PROVE StepInv'
    BY <1>2 DEF OpenClean, OpenTruncate, CanOpen
<1>3. ASSUME NEW o \in Openers, OpenSync(o) PROVE StepInv'
    BY <1>3 DEF OpenSync
<1>4. ASSUME NEW o \in Openers, OpenSyncFails(o) \/ Close(o) \/ Crash(o)
      PROVE  StepInv'
    <2>1. \A p \in Openers : pc'[p] = "closed"
        BY <1>4 DEF OpenSyncFails, Close, Crash, Forget
    <2>2. QED
        BY <2>1
<1>5. ASSUME NEW o \in Openers,
             (\E id \in Ids : AppendRefused(o, id)) \/ Replay(o) \/ ReplayFails(o)
      PROVE  StepInv'
    BY <1>5 DEF AppendRefused, Replay, ReplayFails
<1>6. ASSUME NEW o \in Openers, NEW id \in Ids, AppendWrite(o, id) PROVE StepInv'
    <2>1. cursor[o] = known[o].extent /\ pc[o] = "ready" /\ known[o] = frontier
          /\ known[o].extent < Capacity
        BY <1>6 DEF AppendWrite, CanAppend
    <2>2. known[o].extent + 1 \in Pos
        BY <2>1, CapacityAssumption DEF Frontier, Pos
    <2>3. segment'[known[o].extent + 1] = NextFrame(known[o], id)
        BY <1>6, <2>1, <2>2 DEF AppendWrite
    <2>4. \A p \in Openers : p # o => pc[p] = "closed"
        BY <2>1
    <2>5. pc'[o] = "written" /\ pending'[o] = id /\ known' = known
          /\ frontier' = frontier /\ \A p \in Openers : p # o => pc'[p] = pc[p]
        BY <1>6 DEF AppendWrite
    <2>6. QED
        BY <2>1, <2>3, <2>4, <2>5
<1>7. ASSUME NEW o \in Openers, NEW id \in Ids, AppendWriteFails(o, id)
      PROVE  StepInv'
    <2>1. \A p \in Openers : p # o => pc[p] = "closed"
        BY <1>7 DEF AppendWriteFails, CanAppend
    <2>2. QED
        BY <1>7, <2>1 DEF AppendWriteFails
<1>8. ASSUME NEW o \in Openers, SegmentSync(o) PROVE StepInv'
    BY <1>8 DEF SegmentSync, Advance
<1>9. ASSUME NEW o \in Openers, pc[o] \in Appending, Unknown(o) PROVE StepInv'
    <2>1. \A p \in Openers : p # o => pc'[p] = "closed"
        BY <1>9 DEF Unknown
    <2>2. pc'[o] = "poisoned"
        BY <1>9 DEF Unknown
    <2>3. QED
        BY <2>1, <2>2
<1>10. ASSUME NEW o \in Openers, FrontierRename(o) PROVE StepInv'
    BY <1>10 DEF FrontierRename, Advance, Rename
<1>11. ASSUME NEW o \in Openers, DirectorySync(o) PROVE StepInv'
    BY <1>11 DEF DirectorySync, Advance
<1>12. ASSUME NEW o \in Openers, AppendReturn(o) PROVE StepInv'
    BY <1>12 DEF AppendReturn
<1>13. CASE PowerLoss
    BY <1>13 DEF PowerLoss
<1>14. ASSUME NEW o \in Openers,
              SegmentSyncFails(o) \/ FrontierTempFails(o)
                \/ FrontierRenameAmbiguous(o) \/ DirectorySyncFails(o) \/ VerifyFails(o)
       PROVE  StepInv'
    BY <1>14, <1>9 DEF SegmentSyncFails, FrontierTempFails, FrontierRenameAmbiguous,
                       DirectorySyncFails, VerifyFails
<1>15. QED
    BY <1>1, <1>2, <1>3, <1>4, <1>5, <1>6, <1>7, <1>8, <1>10, <1>11, <1>12, <1>13, <1>14
    DEF Next, Open, AppendFrame

-----------------------------------------------------------------------------
(* Outcomes against the committed prefix.                                   *)

\* Only a return makes a payload returned; only a refusal or a reopen makes one
\* not appended.
LEMMA OutcomeSources ==
    ASSUME BaseInv, [Next]_vars, NEW id \in Ids
    PROVE  /\ outcome'[id] = "returned" =>
                  \/ outcome[id] = "returned"
                  \/ \E o \in Openers : AppendReturn(o) /\ id = pending[o]
           /\ outcome'[id] \in {"definite", "discarded"} =>
                  \/ outcome[id] \in {"definite", "discarded"}
                  \/ \E o \in Openers : AppendRefused(o, id) \/ OpenClean(o) \/ OpenSync(o)
<1> USE DEF BaseInv, TypeOK, PendingInv
<1>1. CASE UNCHANGED outcome
    BY <1>1
<1>2. ASSUME NEW o \in Openers, OpenClean(o) \/ OpenSync(o)
      PROVE  outcome'[id] = "returned" => outcome[id] = "returned"
    BY <1>2 DEF OpenClean, OpenSync, Settle
<1>3. ASSUME NEW o \in Openers, NEW x \in Ids, AppendRefused(o, x)
      PROVE  outcome'[id] = outcome[id] \/ (id = x /\ outcome'[id] = "definite")
    BY <1>3 DEF AppendRefused
<1>4. ASSUME NEW o \in Openers, NEW x \in Ids,
             AppendWrite(o, x) \/ AppendWriteFails(o, x)
      PROVE  outcome'[id] \in {outcome[id], "inflight", "unknown"}
    BY <1>4 DEF AppendWrite, AppendWriteFails
<1>5. ASSUME NEW o \in Openers,
             SegmentSyncFails(o) \/ FrontierTempFails(o)
               \/ FrontierRenameAmbiguous(o) \/ DirectorySyncFails(o) \/ VerifyFails(o)
      PROVE  outcome'[id] \in {outcome[id], "unknown"}
    BY <1>5 DEF SegmentSyncFails, FrontierTempFails, FrontierRenameAmbiguous,
                DirectorySyncFails, VerifyFails, Unknown
<1>6. ASSUME NEW o \in Openers, AppendReturn(o)
      PROVE  outcome'[id] = outcome[id] \/ (id = pending[o] /\ outcome'[id] = "returned")
    BY <1>6 DEF AppendReturn
<1>7. ASSUME NEW o \in Openers, Crash(o)
      PROVE  outcome'[id] \in {outcome[id], "unknown"}
    BY <1>7 DEF Crash
<1>8. CASE PowerLoss
    BY <1>8 DEF PowerLoss
<1>9. ASSUME NEW o \in Openers,
             OpenTruncate(o) \/ OpenSyncFails(o) \/ SegmentSync(o) \/ FrontierRename(o)
               \/ DirectorySync(o) \/ Replay(o) \/ ReplayFails(o) \/ Close(o)
      PROVE  UNCHANGED outcome
    BY <1>9 DEF OpenTruncate, OpenSyncFails, SegmentSync, FrontierRename, DirectorySync,
                Advance, Replay, ReplayFails, Close
<1>10. CASE PrepareSegment \/ PrepareFrontier \/ UNCHANGED vars
    BY <1>10 DEF PrepareSegment, PrepareFrontier, vars
<1>11. QED
    BY <1>1, <1>2, <1>3, <1>4, <1>5, <1>6, <1>7, <1>8, <1>9, <1>10
    DEF Next, Open, AppendFrame

\* A payload the scanned prefix does not serve is in none of its cells.
LEMMA NotSelected ==
    ASSUME PrefixInv, BaseInv, NEW id, id \notin Selected(frontier, segment)
    PROVE  \A i \in 1..frontier.extent : segment[i].id # id
<1>1. \A i \in 1..frontier.extent : IsFrame(segment[i])
    BY SentinelAssumption DEF PrefixInv, ScanOk, IsFrame
<1>2. QED
    BY <1>1 DEF Selected

LEMMA ReturnedStep ==
    ASSUME BaseInv, PrefixInv, StepInv, OutcomeInv, ~ displaced', [Next]_vars,
           NEW id \in Returned', NEW f \in frontierDisk'
    PROVE  \E i \in 1..f.extent : segment'[i].id = id
<1> USE DEF BaseInv, TypeOK
<1>0. /\ id \in Ids
      /\ frontier.extent \in 0..Capacity /\ frontier \in frontierDisk
      /\ \A g \in frontierDisk : g.extent \in 0..Capacity /\ g.extent <= frontier.extent
    BY DEF Returned, PrefixInv, Frontier
<1>1. CASE id \in Returned
    <2>1. \A g \in frontierDisk :
              \E i \in 1..g.extent : i \in 1..frontier.extent /\ segment[i].id = id
        <3> SUFFICES ASSUME NEW g \in frontierDisk
                     PROVE  \E i \in 1..g.extent :
                                i \in 1..frontier.extent /\ segment[i].id = id
            OBVIOUS
        <3>1. PICK i \in 1..g.extent : segment[i].id = id
            BY <1>1 DEF OutcomeInv
        <3>2. i \in 1..frontier.extent
            BY <1>0
        <3>3. QED
            BY <3>1, <3>2
    <2>2. CASE PrefixKept
        BY <2>1, <2>2 DEF PrefixKept
    <2>3. ASSUME NEW o \in Openers, FrontierRename(o) \/ FrontierRenameAmbiguous(o)
          PROVE  \E i \in 1..f.extent : segment'[i].id = id
        <3>1. segment' = segment /\ f \in frontierDisk \cup {frontier'}
              /\ frontier'.extent = frontier.extent + 1
            BY <2>3, RenameSelects
        <3>2. CASE f \in frontierDisk
            BY <2>1, <3>1, <3>2
        <3>3. CASE f = frontier'
            <4>1. PICK i \in 1..frontier.extent : segment[i].id = id
                BY <1>0, <2>1
            <4>2. i \in 1..f.extent
                BY <1>0, <3>1, <3>3
            <4>3. QED
                BY <3>1, <4>1, <4>2
        <3>4. QED
            BY <3>1, <3>2, <3>3
    <2>4. ASSUME NEW o \in Openers, DirectorySync(o)
          PROVE  \E i \in 1..f.extent : segment'[i].id = id
        <3>1. f = frontier /\ segment' = segment
            BY <2>4 DEF DirectorySync
        <3>2. QED
            BY <1>0, <2>1, <3>1
    <2>5. CASE PowerLoss
        <3>1. f \in frontierDisk
            BY <2>5, PowerLossKeeps
        <3>2. \A i \in 1..frontier.extent : segment'[i] = segment[i]
            BY <2>5, PowerLossKeeps
        <3>3. QED
            BY <2>1, <3>1, <3>2
    <2>6. QED
        BY <2>2, <2>3, <2>4, <2>5, KeepsPrefix
<1>2. ASSUME NEW o \in Openers, AppendReturn(o), id = pending[o]
      PROVE  \E i \in 1..f.extent : segment'[i].id = id
    <2>1. /\ f = frontier /\ segment' = segment
          /\ frontier = Successor(known[o], id)
        BY <1>2 DEF AppendReturn, StepInv, file
    <2>2. known[o].extent \in Nat
        BY DEF Frontier
    <2>3. /\ frontier.extent = known[o].extent + 1
          /\ frontier.terminal = NextFrame(known[o], id)
        BY <2>1 DEF Successor
    <2>4. frontier.terminal = segment[frontier.extent] /\ frontier.extent \in 1..frontier.extent
        BY <1>0, <2>2, <2>3 DEF PrefixInv, ScanOk
    <2>5. segment[frontier.extent].id = id
        BY <2>3, <2>4 DEF NextFrame
    <2>6. QED
        BY <2>1, <2>4, <2>5
<1>3. QED
    BY <1>0, <1>1, <1>2, OutcomeSources DEF Returned

LEMMA DiscardedStep ==
    ASSUME BaseInv, SettleInv, UniqueInv, PrefixInv, StepInv, OutcomeInv,
           ~ displaced', [Next]_vars,
           NEW id \in Ids, outcome'[id] \in {"definite", "discarded"},
           NEW i \in 1..frontier'.extent
    PROVE  segment'[i].id # id
<1> USE DEF BaseInv, TypeOK
<1>0. frontier.extent \in 0..Capacity /\ \A j \in 1..frontier.extent : j \in Pos
    BY CapacityAssumption DEF Frontier, Pos
<1>1. CASE outcome[id] \in {"definite", "discarded"}
    <2>1. \A j \in 1..frontier.extent : segment[j].id # id
        BY <1>1 DEF OutcomeInv
    <2>2. CASE PrefixKept
        BY <2>1, <2>2 DEF PrefixKept
    <2>3. ASSUME NEW o \in Openers, FrontierRename(o) \/ FrontierRenameAmbiguous(o)
          PROVE  segment'[i].id # id
        <3>1. i \in 1..frontier.extent \/ i = frontier.extent + 1
            BY <1>0, <2>3, RenameSelects
        <3>2. segment[frontier.extent + 1].id = pending[o]
            <4>1. segment[frontier.extent + 1] = NextFrame(frontier, pending[o])
                BY <2>3, RenameSelects
            <4>2. NextFrame(frontier, pending[o]).id = pending[o]
                BY DEF NextFrame
            <4>3. QED
                BY <4>1, <4>2
        <3>3. pending[o] # id
            BY <1>1, <2>3, RenameSelects DEF SettleInv
        <3>4. QED
            BY <2>1, <2>3, <3>1, <3>2, <3>3, RenameSelects
    <2>4. ASSUME NEW o \in Openers, DirectorySync(o) PROVE segment'[i].id # id
        BY <2>1, <2>4 DEF DirectorySync
    <2>5. CASE PowerLoss
        <3>1. i \in 1..frontier.extent
            BY <1>0, <2>5, PowerLossKeeps DEF Frontier
        <3>2. QED
            BY <2>1, <2>5, <3>1, PowerLossKeeps
    <2>6. QED
        BY <2>2, <2>3, <2>4, <2>5, KeepsPrefix
<1>2. ASSUME NEW o \in Openers, AppendRefused(o, id) PROVE segment'[i].id # id
    <2>1. frontier' = frontier /\ segment' = segment /\ outcome[id] = "unused"
        BY <1>2 DEF AppendRefused, file
    <2>2. segment[i] \in Frame
        BY <2>1 DEF PrefixInv, ScanOk
    <2>3. QED
        BY <1>0, <2>1, <2>2 DEF UniqueInv, CellsAt
<1>3. ASSUME NEW o \in Openers, OpenClean(o) \/ OpenSync(o),
             outcome[id] \notin {"definite", "discarded"}
      PROVE  segment'[i].id # id
    <2>1. /\ frontier' = frontier /\ segment' = segment
          /\ outcome' = Settle(frontier, segment)
        BY <1>3 DEF OpenClean, OpenSync, StepInv, file
    <2>2. id \notin Selected(frontier, segment)
        BY <1>3, <2>1 DEF Settle
    <2>3. QED
        BY <2>1, <2>2, NotSelected
<1>4. QED
    BY <1>1, <1>2, <1>3, OutcomeSources

-----------------------------------------------------------------------------
(* The inductive invariant.                                                 *)

LEMMA CommitInit == Init => CommitInv
<1> SUFFICES ASSUME Init PROVE CommitInv
    OBVIOUS
<1>1. frontier.extent = 0 /\ frontierDisk = {frontier}
    BY DEF Init, InitialFrontier
<1>2. PrefixInv
    BY <1>1 DEF Init, PrefixInv, ScanOk, InitialFrontier
<1>3. StepInv
    BY DEF Init, StepInv
<1>4. OutcomeInv
    BY DEF Init, OutcomeInv, Returned
<1>5. QED
    BY <1>2, <1>3, <1>4 DEF CommitInv

LEMMA DisplacedStays == ASSUME BaseInv, [Next]_vars, displaced PROVE displaced'
<1>1. ASSUME NEW o \in Openers, Open(o) \/ Replay(o) \/ ReplayFails(o) \/ Close(o) \/ Crash(o)
      PROVE  displaced'
    BY <1>1 DEF Open, OpenClean, OpenTruncate, OpenSync, OpenSyncFails, Replay,
                ReplayFails, Close, Crash
<1>2. ASSUME NEW o \in Openers, AppendFrame(o) PROVE displaced'
    BY <1>2 DEF AppendFrame, AppendRefused, AppendWrite, AppendWriteFails, SegmentSync,
                SegmentSyncFails, FrontierTempFails, FrontierRename,
                FrontierRenameAmbiguous, DirectorySync, DirectorySyncFails,
                AppendReturn, VerifyFails, Advance, Unknown
<1>3. CASE PrepareSegment \/ PrepareFrontier \/ PowerLoss \/ UNCHANGED vars
    BY <1>3 DEF PrepareSegment, PrepareFrontier, PowerLoss, vars
<1>4. QED
    BY <1>1, <1>2, <1>3 DEF Next

LEMMA CommitStep ==
    BaseInv /\ SettleInv /\ UniqueInv /\ CommitInv /\ [Next]_vars => CommitInv'
<1> SUFFICES ASSUME BaseInv, SettleInv, UniqueInv, CommitInv, [Next]_vars, ~ displaced'
             PROVE  PrefixInv' /\ StepInv' /\ OutcomeInv'
    BY DEF CommitInv
<1>1. PrefixInv /\ StepInv /\ OutcomeInv
    BY DisplacedStays DEF CommitInv
<1>2. OutcomeInv'
    BY <1>1, ReturnedStep, DiscardedStep DEF OutcomeInv
<1>3. QED
    BY <1>1, <1>2, PrefixStep, StepStep

LEMMA InvariantAlways == Spec => []IInv
<1>1. Init => UniqueInv /\ CommitInv
    BY UniqueInit, CommitInit
<1>2. BaseInv /\ SettleInv /\ UniqueInv /\ CommitInv /\ [Next]_vars
          => UniqueInv' /\ CommitInv'
    BY UniqueStep, CommitStep
<1>3. BaseInv /\ SettleInv /\ UniqueInv /\ CommitInv => IInv
    BY DEF IInv
<1>4. QED
    BY <1>1, <1>2, <1>3, BaseAlways, SettleAlways, PTL DEF Spec

-----------------------------------------------------------------------------
(* The promises of a segment.                                               *)

\* Every payload whose append returned is held exactly once by the prefix of
\* every frontier a power loss may leave (append: sync, rename, directory sync),
\* unless an append was written elsewhere than at the frontier.
THEOREM ReturnedOnce == Spec => []ReturnedSelectedOnce
<1>1. IInv => ReturnedSelectedOnce
    <2> SUFFICES ASSUME BaseInv, UniqueInv, PrefixInv, OutcomeInv,
                        NEW id \in Returned, NEW f \in frontierDisk \cup {frontier}
                 PROVE  /\ Cardinality(PositionsOf(id, f, segment)) = 1
                        /\ Cardinality(PositionsOf(id, f, segmentDisk)) = 1
        BY DEF ReturnedSelectedOnce, IInv, CommitInv
    <2>1. f \in frontierDisk /\ f.extent \in 0..Capacity /\ f.extent <= frontier.extent
          /\ frontier.extent \in 0..Capacity
        BY DEF PrefixInv, BaseInv, TypeOK, Frontier
    <2>2. \A i \in 1..f.extent : /\ i \in Pos /\ segment[i] \in Frame
                                /\ IsFrame(segment[i])
                                /\ segmentDisk[i] = segment[i]
        BY <2>1, SentinelAssumption, CapacityAssumption DEF PrefixInv, ScanOk, Pos, IsFrame
    <2>3. PICK i \in 1..f.extent : segment[i].id = id
        BY <2>1 DEF OutcomeInv
    <2>4. \A j \in 1..f.extent : segment[j].id = id => j = i
        BY <2>2, <2>3 DEF UniqueInv, CellsAt
    <2>5. PositionsOf(id, f, segment) = {i} /\ PositionsOf(id, f, segmentDisk) = {i}
        BY <2>2, <2>3, <2>4 DEF PositionsOf
    <2>6. QED
        BY <2>5, FS_Singleton
<1>2. QED
    BY InvariantAlways, <1>1, PTL

\* Whatever a power loss leaves of unsynced bytes, the reopening scan accepts it
\* (open_selected, scan_v2_prefix), unless an append was displaced.
THEOREM Recoverable == Spec => []AlwaysRecoverable
<1>1. IInv => AlwaysRecoverable
    <2> SUFFICES ASSUME BaseInv, PrefixInv
                 PROVE  /\ ScanOk(frontier, segment)
                        /\ \A f \in frontierDisk, image \in Images(segmentDisk, segment) :
                               ScanOk(f, image)
        BY DEF AlwaysRecoverable, IInv, CommitInv
    <2>1. ASSUME NEW f \in frontierDisk, NEW image \in Images(segmentDisk, segment)
          PROVE  ScanOk(f, image)
        <3>1. f \in Frontier /\ ScanOk(f, segment)
            BY DEF PrefixInv, BaseInv, TypeOK
        <3>2. \A i \in 1..f.extent : i \in Pos /\ segmentDisk[i] = segment[i]
            BY <3>1, CapacityAssumption DEF PrefixInv, BaseInv, TypeOK, Frontier, Pos
        <3>3. \A i \in 1..f.extent : image[i] = segment[i]
            BY <3>2, ImageCells
        <3>4. QED
            BY <3>1, <3>3, ScanAgrees
    <2>2. QED
        BY <2>1 DEF PrefixInv
<1>2. QED
    BY InvariantAlways, <1>1, PTL

\* A payload the host was told is not in the journal never appears in it, so the
\* host may offer it again (append, open_selected).
THEOREM DiscardedStaysOut == Spec => []DiscardedNeverSelected
<1>1. IInv => DiscardedNeverSelected
    <2> SUFFICES ASSUME BaseInv, PrefixInv, OutcomeInv,
                        NEW id \in Ids, outcome[id] \in {"definite", "discarded"},
                        NEW f \in frontierDisk \cup {frontier}
                 PROVE  id \notin Selected(f, segment)
        BY DEF DiscardedNeverSelected, IInv, CommitInv
    <2>1. \A i \in 1..f.extent : i \in 1..frontier.extent
        BY DEF PrefixInv, BaseInv, TypeOK, Frontier
    <2>2. QED
        BY <2>1 DEF OutcomeInv, Selected
<1>2. QED
    BY InvariantAlways, <1>1, PTL

\* What append and open_selected tell the host of a payload stays true through
\* every failure, crash and power loss.
THEOREM OutcomesStay == Spec => []OutcomesHold
<1>1. DiscardedNeverSelected /\ AtMostOneUnsettled => OutcomesHold
    BY DEF OutcomesHold
<1>2. QED
    BY OneUnsettled, DiscardedStaysOut, <1>1, PTL

-----------------------------------------------------------------------------
(* Appends written elsewhere than at the frontier.                          *)

\* The frame being appended is where the handle's file offset was.
WrittenAt(o, s) ==
    /\ cursor[o] \in Pos
    /\ s[cursor[o]] = NextFrame(known[o], pending[o])

\* Wherever appends were written: what an opener remembers of the frontier, and
\* where the frame of its append is.
HandleInv ==
    /\ frontier \in frontierDisk
    /\ \A f \in frontierDisk : f.extent <= frontier.extent
    /\ \A o \in Openers :
        /\ pc[o] \in {"truncating", "ready", "written", "synced"} =>
               known[o] = frontier
        /\ pc[o] = "truncating" => ScanOk(frontier, segment)
        /\ pc[o] \in Appending => WrittenAt(o, segment)
        /\ pc[o] \in {"synced", "renamed", "published"} => WrittenAt(o, segmentDisk)
        /\ pc[o] \in {"renamed", "published"} =>
               frontier = Successor(known[o], pending[o])
        /\ pc[o] = "published" => frontierDisk = {frontier}

\* A scan that accepts cell i finds the payload there.
HeldOrLost(id, i) == \A x \in CellsAt(i) \cap Frame : x.seq = i => x.id = id

\* Every prefix a power loss may leave has a cell for each returned payload that
\* holds it or fails the scan: a displaced frame has a sequence number beyond
\* its place.
LossShows ==
    \A id \in Returned, f \in frontierDisk :
        \E i \in 1..f.extent : HeldOrLost(id, i)

LEMMA HandleInit == Init => HandleInv
BY DEF Init, HandleInv, InitialFrontier

LEMMA HandleStep == BaseInv /\ HandleInv /\ [Next]_vars => HandleInv'
<1> SUFFICES ASSUME BaseInv, HandleInv, [Next]_vars PROVE HandleInv'
    OBVIOUS
<1> USE SentinelAssumption
    DEF BaseInv, TypeOK, LockInv, PendingInv, HandleInv, WrittenAt, file, memory
<1>1. CASE PrepareSegment \/ PrepareFrontier \/ UNCHANGED vars
    BY <1>1 DEF PrepareSegment, PrepareFrontier, vars
<1>2. ASSUME NEW o \in Openers, OpenClean(o) PROVE HandleInv'
    BY <1>2 DEF OpenClean, CanOpen
<1>3. ASSUME NEW o \in Openers, OpenTruncate(o) PROVE HandleInv'
    <2>1. \A i \in 1..frontier.extent : i \in Pos
        BY CapacityAssumption DEF Frontier, Pos
    <2>2. \A i \in 1..frontier.extent : segment'[i] = segment[i]
        BY <1>3, <2>1 DEF OpenTruncate, Truncated
    <2>3. ScanOk(frontier, segment')
        BY <1>3, <2>2, ScanAgrees DEF OpenTruncate, CanOpen
    <2>4. \A p \in Openers : p # o => pc[p] = "closed"
        BY <1>3 DEF OpenTruncate, CanOpen
    <2>5. /\ frontier' = frontier /\ frontierDisk' = frontierDisk
          /\ pc' = [pc EXCEPT ![o] = "truncating"]
          /\ known' = [known EXCEPT ![o] = frontier]
        BY <1>3 DEF OpenTruncate
    <2>6. QED
        BY <2>3, <2>4, <2>5
<1>4. ASSUME NEW o \in Openers, OpenSync(o) PROVE HandleInv'
    BY <1>4 DEF OpenSync
<1>5. ASSUME NEW o \in Openers, OpenSyncFails(o) \/ Close(o) \/ Crash(o)
      PROVE  HandleInv'
    <2>1. \A p \in Openers : pc'[p] = "closed"
        BY <1>5 DEF OpenSyncFails, Close, Crash, Forget
    <2>2. frontier' = frontier /\ frontierDisk' = frontierDisk
        BY <1>5 DEF OpenSyncFails, Close, Crash
    <2>3. QED
        BY <2>1, <2>2
<1>6. ASSUME NEW o \in Openers,
             (\E id \in Ids : AppendRefused(o, id)) \/ Replay(o) \/ ReplayFails(o)
      PROVE  HandleInv'
    BY <1>6 DEF AppendRefused, Replay, ReplayFails
<1>7. ASSUME NEW o \in Openers, NEW id \in Ids, AppendWrite(o, id) PROVE HandleInv'
    <2>1. /\ pc[o] = "ready" /\ known[o] = frontier /\ known[o].extent < Capacity
          /\ cursor[o] \in Nat /\ cursor[o] <= known[o].extent
        BY <1>7 DEF AppendWrite, CanAppend, CursorInv
    <2>2. cursor[o] + 1 \in Pos
        BY <2>1, CapacityAssumption DEF Frontier, Pos
    <2>3. /\ segment'[cursor[o] + 1] = NextFrame(known[o], id)
          /\ cursor'[o] = cursor[o] + 1 /\ pc'[o] = "written" /\ pending'[o] = id
          /\ known' = known /\ frontier' = frontier /\ frontierDisk' = frontierDisk
        BY <1>7, <2>2 DEF AppendWrite
    <2>4. \A p \in Openers : p # o => pc'[p] = "closed"
        BY <1>7, <2>1 DEF AppendWrite
    <2>5. WrittenAt(o, segment)'
        BY <2>2, <2>3
    <2>6. QED
        BY <2>1, <2>3, <2>4, <2>5
<1>8. ASSUME NEW o \in Openers, NEW id \in Ids, AppendWriteFails(o, id)
      PROVE  HandleInv'
    <2>1. \A p \in Openers : p # o => pc[p] = "closed"
        BY <1>8 DEF AppendWriteFails, CanAppend
    <2>2. QED
        BY <1>8, <2>1 DEF AppendWriteFails
<1>9. ASSUME NEW o \in Openers, SegmentSync(o) PROVE HandleInv'
    BY <1>9 DEF SegmentSync, Advance
<1>10. ASSUME NEW o \in Openers, pc[o] \in Appending, Unknown(o)
       PROVE  \A p \in Openers : pc'[p] \in {"closed", "poisoned"}
    <2>1. \A p \in Openers : p # o => pc'[p] = "closed"
        BY <1>10 DEF Unknown
    <2>2. pc'[o] = "poisoned"
        BY <1>10 DEF Unknown
    <2>3. QED
        BY <2>1, <2>2
<1>11. ASSUME NEW o \in Openers, FrontierRename(o) \/ FrontierRenameAmbiguous(o)
       PROVE  HandleInv'
    <2>1. pc[o] = "synced" /\ Rename(o) /\ known[o] = frontier
        BY <1>11 DEF FrontierRename, FrontierRenameAmbiguous, Advance
    <2>2. /\ frontier'.extent = frontier.extent + 1 /\ frontier.extent \in Nat
          /\ frontierDisk' = frontierDisk \cup {frontier'}
        BY <2>1 DEF Rename, Successor, Frontier
    <2>3. frontier' \in frontierDisk' /\ \A f \in frontierDisk' : f.extent <= frontier'.extent
        BY <2>2 DEF Frontier
    <2>4. CASE FrontierRename(o)
        BY <2>1, <2>3, <2>4 DEF FrontierRename, Advance, Rename
    <2>5. CASE FrontierRenameAmbiguous(o)
        BY <1>10, <2>1, <2>3, <2>5 DEF FrontierRenameAmbiguous
    <2>6. QED
        BY <1>11, <2>4, <2>5
<1>12. ASSUME NEW o \in Openers, DirectorySync(o) PROVE HandleInv'
    <2>1. frontier.extent <= frontier.extent
        BY DEF Frontier
    <2>2. QED
        BY <1>12, <2>1 DEF DirectorySync, Advance
<1>13. ASSUME NEW o \in Openers, AppendReturn(o) PROVE HandleInv'
    BY <1>13 DEF AppendReturn
<1>14. CASE PowerLoss
    <2>1. frontier'.extent <= frontier'.extent
        BY <1>14 DEF PowerLoss, Frontier
    <2>2. QED
        BY <1>14, <2>1 DEF PowerLoss
<1>15. ASSUME NEW o \in Openers,
              SegmentSyncFails(o) \/ FrontierTempFails(o)
                \/ DirectorySyncFails(o) \/ VerifyFails(o)
       PROVE  HandleInv'
    <2>1. /\ pc[o] \in Appending /\ Unknown(o)
          /\ frontier' = frontier /\ frontierDisk' = frontierDisk
        BY <1>15 DEF SegmentSyncFails, FrontierTempFails, DirectorySyncFails, VerifyFails
    <2>2. QED
        BY <1>10, <2>1
<1>16. QED
    BY <1>1, <1>2, <1>3, <1>4, <1>5, <1>6, <1>7, <1>8, <1>9, <1>11, <1>12, <1>13,
       <1>14, <1>15
    DEF Next, Open, AppendFrame

\* Only a rename adds to the frontiers a power loss may leave.
LEMMA FrontierSources ==
    ASSUME BaseInv, HandleInv, [Next]_vars, NEW f \in frontierDisk'
    PROVE  \/ f \in frontierDisk
           \/ \E o \in Openers : /\ FrontierRename(o) \/ FrontierRenameAmbiguous(o)
                                 /\ f = Successor(frontier, pending[o])
<1>1. CASE frontierDisk' = frontierDisk
    BY <1>1
<1>2. ASSUME NEW o \in Openers, FrontierRename(o) \/ FrontierRenameAmbiguous(o)
      PROVE  f \in frontierDisk \/ f = Successor(frontier, pending[o])
    <2>1. pc[o] = "synced" /\ Rename(o)
        BY <1>2 DEF FrontierRename, FrontierRenameAmbiguous, Advance
    <2>2. QED
        BY <2>1 DEF Rename, HandleInv
<1>3. ASSUME NEW o \in Openers, DirectorySync(o) PROVE f \in frontierDisk
    BY <1>3 DEF DirectorySync, HandleInv
<1>4. CASE PowerLoss
    BY <1>4 DEF PowerLoss
<1>5. ASSUME NEW o \in Openers,
             Open(o) \/ Replay(o) \/ ReplayFails(o) \/ Close(o) \/ Crash(o)
               \/ (\E id \in Ids :
                       AppendRefused(o, id) \/ AppendWrite(o, id) \/ AppendWriteFails(o, id))
               \/ SegmentSync(o) \/ SegmentSyncFails(o) \/ FrontierTempFails(o)
               \/ DirectorySyncFails(o) \/ AppendReturn(o) \/ VerifyFails(o)
      PROVE  frontierDisk' = frontierDisk
    BY <1>5 DEF Open, OpenClean, OpenTruncate, OpenSync, OpenSyncFails, Replay, ReplayFails,
                Close, Crash, AppendRefused, AppendWrite, AppendWriteFails, SegmentSync,
                SegmentSyncFails, FrontierTempFails, DirectorySyncFails, AppendReturn,
                VerifyFails, file
<1>6. CASE PrepareSegment \/ PrepareFrontier \/ UNCHANGED vars
    BY <1>6 DEF PrepareSegment, PrepareFrontier, vars, file
<1>7. QED
    BY <1>1, <1>2, <1>3, <1>4, <1>5, <1>6 DEF Next, AppendFrame

\* A write puts no frame into a cell below the frontier that a scan accepts.
LEMMA CellsKept ==
    ASSUME BaseInv, HandleInv, [Next]_vars, NEW id, NEW i \in 1..frontier.extent,
           HeldOrLost(id, i)
    PROVE  HeldOrLost(id, i)'
<1>1. i \in Pos /\ frontier.extent \in Nat
    BY CapacityAssumption DEF BaseInv, TypeOK, Frontier, Pos
<1>2. CASE ~ \E o \in Openers, y \in Ids : AppendWrite(o, y)
    <2>1. \A x \in CellsAt(i)' \cap Frame : x \in CellsAt(i)
        BY <1>1, <1>2, CellSources, SentinelAssumption DEF CellsAt
    <2>2. QED
        BY <2>1 DEF HeldOrLost
<1>3. ASSUME NEW o \in Openers, NEW y \in Ids, AppendWrite(o, y)
      PROVE  HeldOrLost(id, i)'
    <2>1. /\ segment' = [segment EXCEPT ![cursor[o] + 1] = NextFrame(frontier, y)]
          /\ segmentDisk' = segmentDisk
        BY <1>3 DEF AppendWrite, CanAppend, HandleInv
    <2>2. segment'[i] \in {segment[i], NextFrame(frontier, y)}
        BY <1>1, <2>1 DEF BaseInv, TypeOK
    <2>3. NextFrame(frontier, y).seq # i
        BY <1>1 DEF NextFrame
    <2>4. QED
        BY <2>1, <2>2, <2>3 DEF HeldOrLost, CellsAt
<1>4. QED
    BY <1>2, <1>3

LEMMA LossStep ==
    BaseInv /\ HandleInv /\ LossShows /\ [Next]_vars => LossShows'
<1> SUFFICES ASSUME BaseInv, HandleInv, LossShows, [Next]_vars,
                    NEW id \in Returned', NEW f \in frontierDisk'
             PROVE  \E i \in 1..f.extent : HeldOrLost(id, i)'
    BY DEF LossShows
<1>1. /\ id \in Ids /\ frontier \in frontierDisk /\ frontier.extent \in 0..Capacity
      /\ \A g \in frontierDisk : g.extent \in 0..Capacity /\ g.extent <= frontier.extent
    BY DEF Returned, HandleInv, BaseInv, TypeOK, Frontier
<1>2. CASE id \in Returned
    <2>1. PICK g \in frontierDisk : g.extent <= f.extent
        <3>1. CASE f \in frontierDisk
            BY <1>1, <3>1
        <3>2. ASSUME NEW o \in Openers, f = Successor(frontier, pending[o])
              PROVE  frontier.extent <= f.extent
            BY <1>1, <3>2 DEF Successor
        <3>3. QED
            BY <1>1, <3>1, <3>2, FrontierSources
    <2>2. PICK i \in 1..g.extent : HeldOrLost(id, i)
        BY <1>2 DEF LossShows
    <2>3. i \in 1..frontier.extent
        BY <1>1
    <2>4. HeldOrLost(id, i)'
        BY <2>2, <2>3, CellsKept
    <2>5. f.extent \in Int
        BY BaseStep DEF BaseInv, TypeOK, Frontier
    <2>6. i \in 1..f.extent
        BY <1>1, <2>1, <2>5
    <2>7. QED
        BY <2>4, <2>6
<1>3. ASSUME NEW o \in Openers, AppendReturn(o), id = pending[o]
      PROVE  \E i \in 1..f.extent : HeldOrLost(id, i)'
    <2>1. /\ pc[o] = "published" /\ segment' = segment /\ segmentDisk' = segmentDisk
          /\ frontierDisk' = frontierDisk /\ frontier = Successor(known[o], id)
        BY <1>3 DEF AppendReturn, file
    <2>2. f = frontier /\ WrittenAt(o, segment) /\ WrittenAt(o, segmentDisk)
        BY <2>1 DEF HandleInv
    <2>3. /\ f.extent = known[o].extent + 1 /\ known[o].extent \in Nat
          /\ cursor[o] <= known[o].extent + 1
        BY <2>1, <2>2 DEF Successor, BaseInv, CursorInv, TypeOK, Frontier
    <2>4. PICK i \in 1..f.extent : i = cursor[o]
        BY <2>2, <2>3, CapacityAssumption DEF WrittenAt, Pos
    <2>5. HeldOrLost(id, i)'
        BY <1>3, <2>1, <2>2, <2>4 DEF HeldOrLost, CellsAt, WrittenAt, NextFrame
    <2>6. QED
        BY <2>5
<1>4. QED
    BY <1>1, <1>2, <1>3, OutcomeSources DEF Returned

\* A scan that accepts a segment, however its appends were displaced, serves
\* every returned payload.
LEMMA ScanServes ==
    ASSUME BaseInv, HandleInv, LossShows, ScanOk(frontier, segment)
    PROVE  Returned \subseteq Selected(frontier, segment)
<1> SUFFICES ASSUME NEW id \in Returned PROVE id \in Selected(frontier, segment)
    OBVIOUS
<1>1. PICK i \in 1..frontier.extent : HeldOrLost(id, i)
    BY DEF HandleInv, LossShows
<1>2. segment[i] \in Frame /\ segment[i].seq = i
    BY DEF ScanOk
<1>3. segment[i].id = id /\ IsFrame(segment[i])
    BY <1>1, <1>2, SentinelAssumption DEF HeldOrLost, CellsAt, IsFrame
<1>4. QED
    BY <1>3 DEF Selected

LEMMA OpenServes ==
    ASSUME BaseInv, HandleInv, LossShows, [Next]_vars, NEW o \in Openers,
           pc[o] \in {"closed", "truncating"}, pc'[o] = "ready"
    PROVE  Returned \subseteq Selected(known'[o], segment')
<1> USE DEF BaseInv, TypeOK
<1>1. CASE OpenClean(o) \/ OpenSync(o)
    <2>1. ScanOk(frontier, segment) /\ segment' = segment /\ known'[o] = frontier
        BY <1>1 DEF OpenClean, CanOpen, OpenSync, HandleInv, file
    <2>2. QED
        BY <2>1, ScanServes
<1>2. ASSUME NEW p \in Openers, OpenClean(p) \/ OpenSync(p), p # o PROVE FALSE
    BY <1>2 DEF OpenClean, OpenSync
<1>3. ASSUME NEW p \in Openers, OpenTruncate(p) \/ OpenSyncFails(p) \/ Close(p) \/ Crash(p)
      PROVE  FALSE
    BY <1>3 DEF OpenTruncate, OpenSyncFails, Close, Crash, Forget
<1>4. ASSUME NEW p \in Openers,
             (\E id \in Ids : AppendRefused(p, id)) \/ Replay(p) \/ ReplayFails(p)
      PROVE  FALSE
    BY <1>4 DEF AppendRefused, Replay, ReplayFails
<1>5. ASSUME NEW p \in Openers, NEW id \in Ids, AppendWrite(p, id) \/ AppendWriteFails(p, id)
      PROVE  FALSE
    BY <1>5 DEF AppendWrite, AppendWriteFails
<1>6. ASSUME NEW p \in Openers, NEW from, NEW to \in Appending, Advance(p, from, to)
      PROVE  FALSE
    BY <1>6 DEF Advance
<1>7. ASSUME NEW p \in Openers, Unknown(p) PROVE FALSE
    BY <1>7 DEF Unknown
<1>8. ASSUME NEW p \in Openers, AppendReturn(p) PROVE FALSE
    BY <1>8 DEF AppendReturn
<1>9. ASSUME NEW p \in Openers, AppendFrame(p) PROVE FALSE
    BY <1>4, <1>5, <1>6, <1>7, <1>8, <1>9
    DEF AppendFrame, SegmentSync, SegmentSyncFails, FrontierTempFails, FrontierRename,
        FrontierRenameAmbiguous, DirectorySync, DirectorySyncFails, VerifyFails
<1>10. CASE PrepareSegment \/ PrepareFrontier \/ UNCHANGED vars
    BY <1>10 DEF PrepareSegment, PrepareFrontier, vars
<1>11. CASE PowerLoss
    BY <1>11 DEF PowerLoss
<1>12. QED
    BY <1>1, <1>2, <1>3, <1>4, <1>9, <1>10, <1>11 DEF Next, Open

\* A handle that opens serves every payload whose append returned, even after an
\* append overwrote committed frames (open_selected, scan_v2_prefix: the scan of
\* such a segment fails).
THEOREM OpensFailClosed == Spec => FailClosed
<1>1. Init => HandleInv /\ LossShows
    BY HandleInit DEF Init, LossShows, Returned
<1>2. BaseInv /\ HandleInv /\ LossShows /\ [Next]_vars => HandleInv' /\ LossShows'
    BY HandleStep, LossStep
<1>3. BaseInv /\ HandleInv /\ LossShows /\ [Next]_vars =>
          [\A o \in Openers :
              pc[o] \in {"closed", "truncating"} /\ pc'[o] = "ready" =>
                  Returned \subseteq Selected(known'[o], segment')]_vars
    BY OpenServes
<1>4. QED
    BY <1>1, <1>2, <1>3, BaseAlways, PTL DEF Spec, FailClosed

-----------------------------------------------------------------------------
(* The segment keeps the promise of a journal.                              *)

\* The payloads of the first n frames, and the last of them that a host was told
\* of.
List(n, s) == [i \in 1..n |-> s[i].id]

IsLast(n, s, told, m) ==
    /\ m = 0 \/ s[m].id \in told
    /\ \A i \in (m + 1)..n : s[i].id \notin told

Last(n, s, told) == CHOOSE m \in 0..n : IsLast(n, s, told, m)

\* Every nonempty set of natural numbers has a least element.
LEMMA LeastExists ==
    ASSUME NEW T, T \subseteq Nat, T # {}
    PROVE  \E x \in T : \A y \in T : x <= y
<1> DEFINE Less == {p \in Nat \X Nat : p[1] < p[2]}
<1>1. IsWellFoundedOn(Less, Nat)
    <2>1. OpToRel(<, Nat) = Less
        BY DEF OpToRel
    <2>2. QED
        BY <2>1, NatLessThanWellFounded, Zenon
<1> HIDE DEF Less
<1>2. PICK x \in T : \A y \in T : ~ (<<y, x>> \in Less)
    BY <1>1, WFMin, Zenon
<1>3. \A y \in T : ~ (y < x)
    BY <1>2 DEF Less
<1>4. QED
    BY <1>3

LEMMA LastIs ==
    ASSUME NEW n \in Nat, NEW s, NEW told
    PROVE  /\ Last(n, s, told) \in 0..n /\ IsLast(n, s, told, Last(n, s, told))
           /\ \A m \in 0..n : IsLast(n, s, told, m) => m = Last(n, s, told)
<1> DEFINE Clear == {m \in 0..n : \A i \in (m + 1)..n : s[i].id \notin told}
<1>1. PICK m \in Clear : \A k \in Clear : m <= k
    <2>1. n \in Clear /\ Clear \subseteq Nat
        OBVIOUS
    <2> HIDE DEF Clear
    <2>2. QED
        BY <2>1, LeastExists
<1>2. IsLast(n, s, told, m)
    <2>1. CASE m = 0
        BY <1>1, <2>1 DEF IsLast
    <2>2. CASE m # 0
        <3>1. m - 1 \in 0..n /\ m - 1 \notin Clear
            BY <1>1, <2>2
        <3>2. PICK i \in ((m - 1) + 1)..n : s[i].id \in told
            BY <3>1
        <3>3. i = m
            BY <1>1, <3>2
        <3>4. QED
            BY <1>1, <3>2, <3>3 DEF IsLast
    <2>3. QED
        BY <2>1, <2>2
<1>3. Last(n, s, told) \in 0..n /\ IsLast(n, s, told, Last(n, s, told))
    BY <1>1, <1>2 DEF Last
<1>4. \A k, l \in 0..n : IsLast(n, s, told, k) /\ IsLast(n, s, told, l) => ~ (k < l)
    BY DEF IsLast
<1>5. ASSUME NEW k \in 0..n, IsLast(n, s, told, k) PROVE k = Last(n, s, told)
    <2>1. ~ (k < Last(n, s, told)) /\ ~ (Last(n, s, told) < k)
        BY <1>3, <1>4, <1>5
    <2>2. QED
        BY <1>3, <2>1
<1>6. QED
    BY <1>3, <1>5

\* A prefix that holds every payload the host was told of.
LEMMA ShrinkKeeps ==
    ASSUME NEW n \in Nat, NEW k \in 0..n, NEW s, NEW t, NEW told,
           \A i \in 1..n : s[i].id \in Ids,
           \A i \in 1..k : t[i] = s[i],
           Last(n, s, told) <= k
    PROVE  /\ Last(k, t, told) = Last(n, s, told)
           /\ List(n, s) \in Seq(Ids) /\ Len(List(n, s)) = n
           /\ List(k, t) = SubSeq(List(n, s), 1, k)
<1>1. Last(k, t, told) = Last(n, s, told)
    <2>1. Last(n, s, told) \in 0..k /\ IsLast(n, s, told, Last(n, s, told)) /\ k \in Nat
        BY LastIs
    <2>2. IsLast(k, t, told, Last(n, s, told))
        BY <2>1 DEF IsLast
    <2>3. QED
        BY <2>1, <2>2, LastIs
<1>2. /\ List(n, s) \in [1..n -> Ids] /\ List(k, t) \in [1..k -> Ids] /\ k \in Nat
      /\ \A i \in 1..k : List(k, t)[i] = List(n, s)[i]
    BY DEF List
<1>3. /\ List(n, s) \in Seq(Ids) /\ List(k, t) \in Seq(Ids)
      /\ Len(List(n, s)) = n /\ Len(List(k, t)) = k
    BY <1>2, SeqDef, LenProperties
<1> HIDE DEF List
<1> DEFINE sub == SubSeq(List(n, s), 1, k)
<1>4. /\ sub \in Seq(Ids) /\ Len(sub) = k
      /\ \A i \in 1..k : sub[i] = List(n, s)[i]
    <2>1. \A i \in 1..k : List(n, s)[i] \in Ids
        BY <1>2
    <2>2. /\ sub \in Seq(Ids) /\ Len(sub) = IF 1 <= k THEN k - 1 + 1 ELSE 0
          /\ \A i \in 1..(k - 1 + 1) : sub[i] = List(n, s)[1 + i - 1]
        BY <1>3, <2>1, SubSeqProperties
    <2>3. QED
        BY <2>2
<1>5. List(k, t) = sub
    BY <1>2, <1>3, <1>4, SeqEqual
<1>6. QED
    BY <1>1, <1>3, <1>5

\* Unless an append was displaced, the log is the prefix the frontier names.
LEMMA MapsTo ==
    /\ ~ displaced => /\ Log = List(frontier.extent, segment)
                      /\ Confirmed = Last(frontier.extent, segment, Returned)
    /\ displaced => Log = <<>> /\ Confirmed = 0
    /\ ~ displaced' => /\ Log' = List(frontier'.extent, segment')
                       /\ Confirmed' = Last(frontier'.extent, segment', Returned')
    /\ displaced' => Log' = <<>> /\ Confirmed' = 0
BY Zenon DEF Log, Confirmed, List, Last, IsLast

\* The selected prefix is a list of distinct payloads.
LEMMA PrefixIs ==
    ASSUME IInv, ~ displaced
    PROVE  /\ frontier.extent \in 0..Capacity /\ frontier.extent \in Nat
           /\ \A i \in 1..frontier.extent :
                  /\ i \in Pos /\ segment[i] \in Frame /\ segment[i].id \in Ids
                  /\ \A j \in Pos : segment[j] \in Frame /\ segment[j].id = segment[i].id
                                        => j = i
           /\ Last(frontier.extent, segment, Returned) \in 0..frontier.extent
<1>1. frontier.extent \in 0..Capacity /\ frontier.extent \in Nat
    BY CapacityAssumption DEF IInv, BaseInv, TypeOK, Frontier
<1>2. \A i \in 1..frontier.extent : i \in Pos /\ segment[i] \in Frame
    BY <1>1, CapacityAssumption DEF IInv, CommitInv, PrefixInv, ScanOk, Pos
<1>3. \A i \in 1..frontier.extent : segment[i].id \in Ids
    BY <1>2 DEF Frame
<1>4. QED
    BY <1>1, <1>2, <1>3, LastIs DEF IInv, UniqueInv, CellsAt

\* Only a return makes a payload returned, and returned it stays.
LEMMA ReturnedSame ==
    ASSUME IInv, [Next]_vars, ~ \E o \in Openers : AppendReturn(o)
    PROVE  Returned' = Returned
<1> USE DEF IInv, BaseInv, TypeOK, PendingInv
<1>1. \A id \in Ids : outcome'[id] = "returned" => outcome[id] = "returned"
    BY OutcomeSources
<1>2. ASSUME NEW id \in Ids, outcome[id] = "returned" PROVE outcome'[id] = "returned"
    <2>1. ASSUME NEW o \in Openers, Open(o) PROVE outcome'[id] = "returned"
        BY <1>2, <2>1 DEF Open, OpenClean, OpenTruncate, OpenSync, OpenSyncFails, Settle
    <2>2. ASSUME NEW o \in Openers, NEW x \in Ids,
                 AppendRefused(o, x) \/ AppendWrite(o, x) \/ AppendWriteFails(o, x)
          PROVE  outcome'[id] = "returned"
        BY <1>2, <2>2 DEF AppendRefused, AppendWrite, AppendWriteFails, CanAppend
    <2>3. ASSUME NEW o \in Openers, pc[o] \in Appending, Unknown(o)
          PROVE  outcome'[id] = "returned"
        BY <1>2, <2>3 DEF Unknown, SettleInv
    <2>4. ASSUME NEW o \in Openers, AppendFrame(o) PROVE outcome'[id] = "returned"
        BY <1>2, <2>2, <2>3, <2>4
        DEF AppendFrame, SegmentSync, SegmentSyncFails, FrontierTempFails, FrontierRename,
            FrontierRenameAmbiguous, DirectorySync, DirectorySyncFails, VerifyFails, Advance
    <2>5. ASSUME NEW o \in Openers, Replay(o) \/ ReplayFails(o) \/ Close(o) \/ Crash(o)
          PROVE  outcome'[id] = "returned"
        BY <1>2, <2>5 DEF Replay, ReplayFails, Close, Crash
    <2>6. CASE PrepareSegment \/ PrepareFrontier \/ PowerLoss \/ UNCHANGED vars
        BY <1>2, <2>6 DEF PrepareSegment, PrepareFrontier, PowerLoss, vars
    <2>7. QED
        BY <2>1, <2>4, <2>5, <2>6 DEF Next
<1>3. QED
    BY <1>1, <1>2 DEF Returned

\* A step that keeps a prefix with every returned payload takes a suffix from the
\* log that was not confirmed, or leaves the log alone.
LEMMA ShrinkStep ==
    ASSUME IInv, IInv', ~ displaced, ~ displaced', Returned' = Returned,
           frontier'.extent <= frontier.extent,
           \A i \in 1..frontier'.extent : segment'[i] = segment[i],
           Last(frontier.extent, segment, Returned) <= frontier'.extent
    PROVE  [Promise!Next]_(Promise!promise)
<1> DEFINE n == frontier.extent
           k == frontier'.extent
           last == Last(n, segment, Returned)
<1>1. /\ n \in Nat /\ k \in 0..n /\ last \in 0..k
      /\ \A i \in 1..n : segment[i].id \in Ids
    <2>1. k \in Nat
        BY CapacityAssumption DEF IInv, BaseInv, TypeOK, Frontier
    <2>2. QED
        BY <2>1, PrefixIs
<1>2. /\ Last(k, segment', Returned) = last
      /\ List(n, segment) \in Seq(Ids) /\ Len(List(n, segment)) = n
      /\ List(k, segment') = SubSeq(List(n, segment), 1, k)
    <2> HIDE DEF n, k
    <2>1. /\ \A i \in 1..k : segment'[i] = segment[i]
          /\ Last(n, segment, Returned) <= k
        BY DEF k, n
    <2>2. QED
        BY <1>1, <2>1, ShrinkKeeps
<1>3. /\ Log \in Seq(Ids) /\ Len(Log) = n /\ Log' = SubSeq(Log, 1, k)
      /\ Confirmed = last /\ Confirmed' = Confirmed /\ displaced' = displaced
    BY <1>2, MapsTo DEF IInv, BaseInv, TypeOK
<1> HIDE DEF n, k, last
<1>4. CASE k = n
    <2>1. Log' = Log
        BY <1>3, <1>4, SubSeqFull
    <2>2. QED
        BY <1>3, <2>1 DEF Promise!promise
<1>5. CASE k # n
    <2>1. k \in Confirmed..(Len(Log) - 1)
        BY <1>1, <1>3, <1>5
    <2>2. Promise!Retract
        BY <1>3, <2>1 DEF Promise!Retract
    <2>3. QED
        BY <2>2 DEF Promise!Next
<1>6. QED
    BY <1>4, <1>5

\* A power loss takes back a frontier whose rename was not synced.
LEMMA PowerLossPromise ==
    ASSUME IInv, IInv', PowerLoss, ~ displaced, ~ displaced'
    PROVE  [Promise!Next]_(Promise!promise)
<1> DEFINE last == Last(frontier.extent, segment, Returned)
<1>1. Returned' = Returned
    BY DEF PowerLoss, Returned
<1>2. /\ frontier' \in frontierDisk /\ frontier'.extent <= frontier.extent
      /\ \A i \in 1..frontier.extent : segment'[i] = segment[i]
    BY PowerLossKeeps DEF IInv, CommitInv
<1>3. frontier.extent \in Nat /\ frontier'.extent \in Nat
    BY CapacityAssumption DEF IInv, BaseInv, TypeOK, Frontier
<1>4. last <= frontier'.extent
    <2>1. last \in 0..frontier.extent /\ IsLast(frontier.extent, segment, Returned, last)
        BY <1>3, LastIs
    <2>2. CASE last = 0
        BY <1>3, <2>2
    <2>3. CASE last # 0
        <3>1. segment[last].id \in Returned /\ last \in 1..frontier.extent
            BY <2>1, <2>3 DEF IsLast
        <3>2. PICK i \in 1..frontier'.extent : segment[i].id = segment[last].id
            BY <1>2, <3>1 DEF IInv, CommitInv, OutcomeInv
        <3>3. i \in 1..frontier.extent
            BY <1>2, <1>3
        <3>4. i = last
            BY <3>1, <3>2, <3>3, PrefixIs
        <3>5. QED
            BY <1>3, <3>4
    <2>4. QED
        BY <2>2, <2>3
<1>5. \A i \in 1..frontier'.extent : segment'[i] = segment[i]
    BY <1>2, <1>3
<1>6. QED
    BY <1>1, <1>2, <1>4, <1>5, ShrinkStep

\* The rename of a frontier extends the log by the payload being appended.
LEMMA RenamePromise ==
    ASSUME IInv, IInv', NEW o \in Openers,
           FrontierRename(o) \/ FrontierRenameAmbiguous(o), ~ displaced, ~ displaced',
           Returned' = Returned
    PROVE  [Promise!Next]_(Promise!promise)
<1> DEFINE n == frontier.extent
           id == pending[o]
           last == Last(n, segment, Returned)
<1>1. /\ id \in Ids /\ n \in Nat /\ frontier'.extent = n + 1 /\ segment' = segment
      /\ n + 1 \in Pos /\ segment[n + 1] = NextFrame(frontier, id)
      /\ pc[o] = "synced"
    BY RenameSelects, PrefixIs DEF IInv, CommitInv
<1>2. segment[n + 1].id = id /\ segment[n + 1] \in Frame
    BY <1>1 DEF NextFrame, Frame, Pos
<1>3. id \notin Returned
    BY <1>1 DEF IInv, SettleInv, Returned
<1>4. /\ \A i \in 1..n : segment[i].id \in Ids /\ segment[i].id # id
      /\ last \in 0..n /\ IsLast(n, segment, Returned, last)
    <2>1. \A i \in 1..n : n + 1 # i
        BY <1>1
    <2>2. QED
        BY <1>1, <1>2, <2>1, PrefixIs, LastIs
<1>5. Last(n + 1, segment, Returned) = last
    <2>1. \A i \in (last + 1)..(n + 1) : i \in (last + 1)..n \/ i = n + 1
        BY <1>1, <1>4
    <2>2. IsLast(n + 1, segment, Returned, last)
        BY <1>2, <1>3, <1>4, <2>1 DEF IsLast
    <2>3. last \in 0..(n + 1) /\ n + 1 \in Nat
        BY <1>1, <1>4
    <2>4. QED
        BY <2>2, <2>3, LastIs
<1>6. /\ Log = List(n, segment) /\ Log' = List(n + 1, segment)
      /\ Confirmed' = Confirmed /\ displaced' = displaced
    BY <1>1, <1>5, MapsTo DEF IInv, BaseInv, TypeOK
<1> HIDE DEF n, id, last
<1>7. /\ Log \in Seq(Ids) /\ Len(Log) = n /\ \A i \in 1..n : Log[i] = segment[i].id
      /\ Log' \in Seq(Ids) /\ Len(Log') = n + 1
      /\ \A i \in 1..(n + 1) : Log'[i] = segment[i].id
    <2>1. \A i \in 1..(n + 1) : segment[i].id \in Ids
        BY <1>1, <1>2, <1>4
    <2>2. Log \in [1..n -> Ids] /\ Log' \in [1..(n + 1) -> Ids] /\ n + 1 \in Nat
        BY <1>1, <1>4, <1>6, <2>1 DEF List
    <2>3. Log \in Seq(Ids) /\ Len(Log) = n /\ Log' \in Seq(Ids) /\ Len(Log') = n + 1
        BY <1>1, <2>2, SeqDef, LenProperties
    <2>4. QED
        BY <1>6, <2>3 DEF List
<1>8. Log' = Append(Log, id)
    <2>1. /\ Append(Log, id) \in Seq(Ids) /\ Len(Append(Log, id)) = n + 1
          /\ \A i \in 1..n : Append(Log, id)[i] = Log[i]
          /\ Append(Log, id)[n + 1] = id
        BY <1>1, <1>7, AppendProperties
    <2>2. \A i \in 1..(n + 1) : Append(Log, id)[i] = Log'[i]
        BY <1>1, <1>2, <1>7, <2>1
    <2>3. QED
        BY <1>7, <2>1, <2>2, SeqEqual
<1>9. Promise!Extend
    BY <1>1, <1>4, <1>6, <1>7, <1>8 DEF Promise!Extend
<1>10. QED
    BY <1>9 DEF Promise!Next

\* An append that returns confirms the whole log.
LEMMA ReturnPromise ==
    ASSUME IInv, IInv', NEW o \in Openers, AppendReturn(o), ~ displaced, ~ displaced'
    PROVE  [Promise!Next]_(Promise!promise)
<1> DEFINE n == frontier.extent
<1>1. /\ n \in Nat /\ frontier' = frontier /\ segment' = segment
      /\ n = known[o].extent + 1 /\ known[o].extent \in Nat
      /\ frontier.terminal = NextFrame(known[o], pending[o])
      /\ displaced' = displaced
    BY PrefixIs DEF AppendReturn, Successor, file, IInv, BaseInv, TypeOK, Frontier
<1>2. n \in 1..n /\ segment[n] = NextFrame(known[o], pending[o])
    BY <1>1 DEF IInv, CommitInv, PrefixInv, ScanOk
<1>3. segment[n].id \in Returned'
    <2>1. pending[o] \in Ids /\ outcome'[pending[o]] = "returned"
        BY DEF AppendReturn, IInv, BaseInv, TypeOK, PendingInv
    <2>2. segment[n].id = pending[o]
        BY <1>2 DEF NextFrame
    <2>3. QED
        BY <2>1, <2>2 DEF Returned
<1>4. Last(n, segment, Returned') = n
    <2>1. IsLast(n, segment, Returned', n)
        BY <1>1, <1>3 DEF IsLast
    <2>2. QED
        BY <1>2, <2>1, LastIs
<1>5. /\ Log = List(n, segment) /\ Log' = Log /\ Confirmed' = n
      /\ Confirmed \in 0..n
    BY <1>1, <1>4, MapsTo, PrefixIs
<1>6. Len(Log) = n
    <2>1. List(n, segment) \in [1..n -> Ids]
        BY PrefixIs DEF List
    <2>2. QED
        BY <1>1, <1>5, <2>1, SeqDef, LenProperties
<1>7. CASE Confirmed = n
    BY <1>1, <1>5, <1>7 DEF Promise!promise
<1>8. CASE Confirmed # n
    <2>1. Promise!Confirm
        BY <1>1, <1>5, <1>6, <1>8 DEF Promise!Confirm
    <2>2. QED
        BY <2>1 DEF Promise!Next
<1>9. QED
    BY <1>7, <1>8

LEMMA PromiseInit == Init => Promise!Init
<1> SUFFICES ASSUME Init PROVE Promise!Init
    OBVIOUS
<1>1. frontier.extent = 0 /\ ~ displaced /\ displaced = FALSE
    BY DEF Init, InitialFrontier
<1>2. Log = List(0, segment) /\ Confirmed \in 0..0
    BY <1>1, MapsTo, LastIs
<1>3. Log = <<>>
    <2>1. List(0, segment) \in [1..0 -> {}]
        BY DEF List
    <2>2. List(0, segment) \in Seq({}) /\ Len(List(0, segment)) = 0
        BY <2>1, SeqDef, LenProperties
    <2>3. QED
        BY <1>2, <2>2, EmptySeq
<1>4. QED
    BY <1>1, <1>2, <1>3 DEF Promise!Init

LEMMA PromiseStep == IInv /\ IInv' /\ [Next]_vars => [Promise!Next]_(Promise!promise)
<1> SUFFICES ASSUME IInv, IInv', [Next]_vars PROVE [Promise!Next]_(Promise!promise)
    OBVIOUS
<1>1. CASE displaced
    <2>1. displaced' /\ displaced' = displaced
        BY <1>1, DisplacedStays DEF IInv, BaseInv, TypeOK
    <2>2. QED
        BY <1>1, <2>1, MapsTo DEF Promise!promise
<1>2. CASE ~ displaced /\ displaced'
    <2>1. displaced' = TRUE
        BY <1>2 DEF IInv, BaseInv, TypeOK
    <2>2. Promise!Forfeit
        BY <1>2, <2>1, MapsTo DEF Promise!Forfeit
    <2>3. QED
        BY <1>2, <2>2 DEF Promise!Next
<1>3. CASE ~ displaced /\ ~ displaced'
    <2>1. ASSUME NEW o \in Openers, AppendReturn(o)
          PROVE  [Promise!Next]_(Promise!promise)
        BY <1>3, <2>1, ReturnPromise
    <2>2. CASE ~ \E o \in Openers : AppendReturn(o)
        <3>1. Returned' = Returned
            BY <2>2, ReturnedSame
        <3>2. ASSUME NEW o \in Openers, FrontierRename(o) \/ FrontierRenameAmbiguous(o)
              PROVE  [Promise!Next]_(Promise!promise)
            BY <1>3, <3>1, <3>2, RenamePromise
        <3>3. CASE PowerLoss
            BY <1>3, <3>3, PowerLossPromise
        <3>4. frontier.extent <= frontier.extent
              /\ Last(frontier.extent, segment, Returned) <= frontier.extent
            BY <1>3, PrefixIs
        <3>5. ASSUME NEW o \in Openers, DirectorySync(o)
              PROVE  [Promise!Next]_(Promise!promise)
            BY <1>3, <3>1, <3>4, <3>5, ShrinkStep DEF DirectorySync
        <3>6. CASE PrefixKept
            BY <1>3, <3>1, <3>4, <3>6, ShrinkStep DEF PrefixKept
        <3>7. QED
            BY <1>3, <3>2, <3>3, <3>5, <3>6, KeepsPrefix DEF IInv, CommitInv
    <2>3. QED
        BY <2>1, <2>2
<1>4. QED
    BY <1>1, <1>2, <1>3

\* The prefix the frontier selects is a log of distinct payloads whose confirmed
\* prefix stays (append, publish_frontier_durable, open_selected), unless an
\* append was displaced.
THEOREM KeepsPromise == Spec => ImplementsPromise
BY PromiseInit, PromiseStep, InvariantAlways, PTL DEF Spec, ImplementsPromise, Promise!Spec
=============================================================================
