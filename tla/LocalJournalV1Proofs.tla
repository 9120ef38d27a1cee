------------------------ MODULE LocalJournalV1Proofs ------------------------
(***************************************************************************)
(* Theorems about one v1 segment, for every number of openers, payloads    *)
(* and frames.                                                             *)
(***************************************************************************)
EXTENDS LocalJournalV1, FiniteSetTheorems, SequenceTheorems, WellFoundedInduction, TLAPS

\* The lock is held by the one opener that is past the lock.
LockInv == \A o \in Openers : pc[o] \in Holding <=> lock = o

\* Between the write and the return a payload is pending that the segment has
\* room for; at no other time is any.
PendingInv ==
    \A o \in Openers :
        /\ pc[o] = "written" => pending[o] \in Ids /\ known[o] < Capacity
        /\ pc[o] # "written" => pending[o] = NoId

\* The host awaits the outcome of a payload that was written.
InflightInv == \A o \in Openers : pc[o] = "written" => outcome[pending[o]] = "inflight"

\* The file offset is never beyond the frame that is written next.
CursorInv ==
    \A o \in Openers :
        /\ pc[o] = "ready" => cursor[o] <= known[o]
        /\ pc[o] = "written" => cursor[o] <= known[o] + 1

\* What returned under a durable name keeps that name.
EntryInv == ~ orphaned /\ Returned # {} => entry = "durable"

\* Every frame is at its own position, and no payload is in two.
Ordered(s) ==
    /\ \A i \in Pos : IsFrame(s[i]) => s[i].seq = i
    /\ \A i, j \in Pos : IsFrame(s[i]) /\ IsFrame(s[j]) /\ s[i].id = s[j].id => i = j

\* The frames on disk are those of the page cache, if not all of them.
Agree(s, d) == \A i \in Pos : IsFrame(d[i]) => d[i] = s[i]

FrameInv == ~ displaced => Ordered(segment) /\ Agree(segment, segmentDisk)

\* What a handle at each step knows of the segment.
StepOf(o) ==
    /\ pc[o] = "truncating" => EndsAt(segment, Adopted(segment))
    /\ pc[o] \in {"ready", "written"} => InSequence(segment, known[o])
    /\ pc[o] = "ready" => EndsAt(segment, known[o])
    /\ pc[o] = "written" =>
          /\ segment[known[o] + 1] = [seq |-> known[o] + 1, id |-> pending[o]]
          /\ EndsAt(segment, known[o] + 1)

StepInv == ~ displaced => \A o \in Openers : StepOf(o)

\* A payload in the segment was offered, and is neither refused nor given up.
Live == {"inflight", "returned", "unknown", "recovered"}
UsedInv ==
    ~ displaced => \A i \in Pos : IsFrame(segment[i]) => outcome[segment[i].id] \in Live

\* A returned payload and every frame before it are on disk.
Kept(d, id) == \E i \in Pos : InSequence(d, i) /\ d[i].id = id
ReturnedInv == ~ Void => \A id \in Returned : Kept(segmentDisk, id)

BaseInv == TypeOK /\ LockInv /\ PendingInv /\ CursorInv
IInv == BaseInv /\ InflightInv /\ EntryInv /\ FrameInv /\ StepInv /\ UsedInv /\ ReturnedInv

-----------------------------------------------------------------------------
(* What a scan adopts.                                                      *)

\* Every nonempty set of natural numbers has a least element.
LEMMA LeastExists ==
    ASSUME NEW T, T \subseteq Nat, T # {}
    PROVE  \E x \in T : \A y \in T : x <= y
<1> DEFINE Less == {p \in Nat \X Nat : p[1] < p[2]}
<1>1. IsWellFoundedOn(Less, Nat)
  <2>1. OpToRel(<, Nat) = Less
    BY DEF OpToRel
  <2> QED BY <2>1, NatLessThanWellFounded, Zenon
<1> HIDE DEF Less
<1>2. PICK x \in T : \A y \in T : ~ (<<y, x>> \in Less)
  BY <1>1, WFMin, Zenon
<1>3. \A y \in T : ~ (y < x)
  BY <1>2 DEF Less
<1> QED BY <1>3

\* Adopted is the longest run of frames in sequence.
LEMMA AdoptedLongest ==
    ASSUME NEW s
    PROVE  /\ Adopted(s) \in 0..Capacity /\ InSequence(s, Adopted(s))
           /\ \A n \in 0..Capacity : InSequence(s, n) => n <= Adopted(s)
<1> USE CapacityAssumption
<1> DEFINE Longest(n) == InSequence(s, n) /\ (n < Capacity => ~ InSequence(s, n + 1))
           Beyond == {n \in 0..Capacity : ~ InSequence(s, n)}
<1>1. \E n \in 0..Capacity : Longest(n)
  <2>1. CASE Beyond = {}
    <3>1. Capacity \in 0..Capacity /\ InSequence(s, Capacity)
      BY <2>1
    <3> QED BY <3>1
  <2>2. CASE Beyond # {}
    <3>1. PICK n \in Beyond : \A m \in Beyond : n <= m
      <4>1. Beyond \subseteq Nat
        OBVIOUS
      <4> HIDE DEF Beyond
      <4> QED BY <2>2, <4>1, LeastExists
    <3>2. n # 0
      BY <3>1 DEF InSequence
    <3>3. n - 1 \in 0..Capacity /\ InSequence(s, n - 1) /\ ~ InSequence(s, (n - 1) + 1)
      BY <3>1, <3>2
    <3> QED BY <3>3
  <2> QED BY <2>1, <2>2
<1>2. Adopted(s) \in 0..Capacity /\ Longest(Adopted(s))
  BY <1>1 DEF Adopted
<1>3. ASSUME NEW n \in 0..Capacity, InSequence(s, n) PROVE n <= Adopted(s)
  <2> SUFFICES ASSUME n > Adopted(s) PROVE FALSE
    BY <1>2
  <2>1. Adopted(s) < Capacity /\ Adopted(s) + 1 <= n
    BY <1>2
  <2>2. InSequence(s, Adopted(s) + 1)
    BY <1>2, <1>3, <2>1 DEF InSequence
  <2> QED BY <1>2, <2>1, <2>2
<1> QED BY <1>2, <1>3

\* A file cut behind what a scan adopts is adopted whole; no frame is cut off.
LEMMA TruncateAdopts ==
    ASSUME NEW s \in [Pos -> Cell], HasShortTail(s, Adopted(s)), NEW t,
           t = Truncated(s, Adopted(s))
    PROVE  /\ t \in [Pos -> Cell] /\ EndsAt(t, Adopted(t)) /\ Adopted(t) = Adopted(s)
           /\ \A i \in Pos : IsFrame(s[i]) \/ IsFrame(t[i]) => t[i] = s[i]
<1> USE CapacityAssumption
<1> DEFINE n == Adopted(s)
<1>1. n \in 0..Capacity /\ InSequence(s, n)
  BY AdoptedLongest
<1>2. /\ t = [i \in Pos |-> IF i <= n THEN s[i] ELSE Hole]
      /\ \A i \in Pos : t[i] = IF i <= n THEN s[i] ELSE Hole
  BY DEF Truncated
<1>3. t \in [Pos -> Cell]
  BY <1>2 DEF Cell
<1>4. Adopted(t) = n
  <2>1. InSequence(t, n)
    BY <1>1, <1>2 DEF InSequence, Pos
  <2>2. ~ (n < Adopted(t))
    <3> SUFFICES ASSUME n < Adopted(t) PROVE FALSE
      OBVIOUS
    <3>1. Adopted(t) \in 0..Capacity /\ InSequence(t, Adopted(t)) /\ n + 1 \in 1..Adopted(t)
      BY <1>1, AdoptedLongest
    <3>2. IsFrame(t[n + 1]) /\ n + 1 \in Pos
      BY <3>1 DEF InSequence, Pos
    <3> QED BY <1>2, <1>1, <3>2 DEF IsFrame
  <2>3. n <= Adopted(t) /\ Adopted(t) \in 0..Capacity
    BY <1>1, <2>1, AdoptedLongest
  <2> QED BY <1>1, <2>2, <2>3
<1>5. EndsAt(t, n)
  BY <1>1, <1>2 DEF EndsAt, Pos
<1>6. ASSUME NEW i \in Pos, i > n PROVE ~ IsFrame(s[i])
  <2>1. CASE i = n + 1
    BY <2>1, ShortAssumption DEF HasShortTail, IsFrame
  <2>2. CASE i > n + 1
    BY <1>1, <1>6, <2>2 DEF HasShortTail, EndsAt, IsFrame, Pos
  <2> QED BY <1>1, <1>6, <2>1, <2>2 DEF Pos
<1>7. ASSUME NEW i \in Pos, IsFrame(s[i]) \/ IsFrame(t[i]) PROVE t[i] = s[i]
  <2>1. CASE i <= n
    BY <1>2, <2>1
  <2>2. CASE i > n
    BY <1>2, <1>6, <1>7, <2>2 DEF IsFrame
  <2> QED BY <1>1, <2>1, <2>2 DEF Pos
<1> QED BY <1>3, <1>4, <1>5, <1>7

-----------------------------------------------------------------------------
(* What a failed sync or a power loss leaves.                               *)

LEMMA ImageType ==
    ASSUME NEW d \in [Pos -> Cell], NEW s \in [Pos -> Cell], NEW image \in Images(d, s)
    PROVE  /\ image \in [Pos -> Cell]
           /\ \A i \in Pos : image[i] \in {d[i], s[i]} \cup Broken
           /\ \A i \in Pos : d[i] = s[i] => image[i] = d[i]
<1>1. /\ image = [i \in Pos |-> image[i]]
      /\ \A i \in Pos : image[i] \in {d[i], s[i]} \cup Broken
      /\ \A i \in Pos : d[i] = s[i] => image[i] = d[i]
  BY DEF Images, CellImages
<1>2. \A i \in Pos : image[i] \in Cell
  BY <1>1 DEF Cell
<1> QED BY <1>1, <1>2

LEMMA ImageAgrees ==
    ASSUME NEW d \in [Pos -> Cell], NEW s \in [Pos -> Cell], NEW image \in Images(d, s),
           Agree(s, d)
    PROVE  /\ Agree(s, image) /\ (Ordered(s) => Ordered(image))
           /\ \A id \in Ids : Kept(d, id) => Kept(image, id)
<1>1. \A i \in Pos : IsFrame(image[i]) => image[i] = s[i]
  BY ImageType DEF Agree, IsFrame
<1>2. \A i \in Pos : IsFrame(d[i]) => image[i] = d[i]
  BY ImageType DEF Agree
<1>3. Ordered(s) => Ordered(image)
  BY <1>1 DEF Ordered
<1>4. \A id \in Ids : Kept(d, id) => Kept(image, id)
  BY <1>2, CapacityAssumption DEF Kept, InSequence, Pos
<1> QED BY <1>1, <1>3, <1>4 DEF Agree

LEMMA CacheKeeps ==
    ASSUME NEW d, NEW s, Agree(s, d), NEW id, Kept(d, id) PROVE Kept(s, id)
BY CapacityAssumption DEF Agree, Kept, InSequence, Pos

-----------------------------------------------------------------------------
(* Types, the lock and the offset.                                          *)

LEMMA BaseInit == Init => BaseInv
<1> SUFFICES ASSUME Init PROVE BaseInv
  OBVIOUS
<1> USE SentinelAssumption, CapacityAssumption
<1>1. TypeOK
  <2>1. 0 \in 0..Capacity
    OBVIOUS
  <2> QED BY <2>1 DEF Init, TypeOK, Empty, Cell, Outcomes
<1>2. LockInv /\ PendingInv /\ CursorInv
  BY DEF Init, LockInv, PendingInv, CursorInv, Holding
<1> QED BY <1>1, <1>2 DEF BaseInv

\* A handle is dropped.
LEMMA ForgetBase ==
    ASSUME BaseInv, NEW o \in Openers, Forget(o), entry' = entry,
           segment' \in [Pos -> Cell], segmentDisk' \in [Pos -> Cell],
           outcome' \in [Ids -> Outcomes], UNCHANGED ghosts
    PROVE  BaseInv'
<1> USE SentinelAssumption, CapacityAssumption
<1>1. TypeOK'
  BY DEF BaseInv, TypeOK, Forget, ghosts
<1>2. LockInv' /\ PendingInv' /\ CursorInv'
  BY DEF BaseInv, TypeOK, LockInv, PendingInv, CursorInv, Forget, Holding
<1> QED BY <1>1, <1>2 DEF BaseInv

LEMMA SettleType == ASSUME TypeOK, NEW s PROVE Settle(s) \in [Ids -> Outcomes]
BY DEF TypeOK, Settle, Outcomes

\* A handle becomes usable.
LEMMA ReadyBase ==
    ASSUME BaseInv, NEW o \in Openers, pc[o] \in {"locked", "truncating"}, Ready(o),
           segmentDisk' \in [Pos -> Cell]
    PROVE  BaseInv'
<1> USE SentinelAssumption, CapacityAssumption
<1>1. Adopted(segment) \in 0..Capacity /\ outcome' \in [Ids -> Outcomes]
  BY AdoptedLongest, SettleType DEF BaseInv, Ready
<1>2. TypeOK'
  BY <1>1 DEF BaseInv, TypeOK, Ready, Holding, ghosts
<1>3. LockInv' /\ PendingInv' /\ CursorInv'
  BY <1>1 DEF BaseInv, TypeOK, LockInv, PendingInv, CursorInv, Ready, Holding
<1> QED BY <1>2, <1>3 DEF BaseInv

LEMMA OpenBase == ASSUME BaseInv, NEW o \in Openers, Open(o) PROVE BaseInv'
<1> USE SentinelAssumption, CapacityAssumption
<1>1. CASE OpenFile(o)
  BY <1>1 DEF OpenFile, BaseInv, TypeOK, LockInv, PendingInv, CursorInv, Holding, ghosts
<1>2. CASE LockRefused(o) \/ EntrySyncFails(o) \/ ScanRefuses(o)
  BY <1>2, ForgetBase DEF LockRefused, EntrySyncFails, ScanRefuses, file, BaseInv, TypeOK
<1>3. CASE Lock(o)
  <2>1. TypeOK'
    BY <1>3 DEF Lock, BaseInv, TypeOK, file, memory, ghosts, Holding
  <2>2. LockInv'
    BY <1>3 DEF Lock, BaseInv, TypeOK, LockInv, Holding
  <2>3. PendingInv' /\ CursorInv'
    BY <1>3 DEF Lock, BaseInv, TypeOK, PendingInv, CursorInv, memory
  <2> QED BY <2>1, <2>2, <2>3 DEF BaseInv
<1>4. CASE EntrySync(o)
  BY <1>4 DEF EntrySync, BaseInv, TypeOK, LockInv, PendingInv, CursorInv, ghosts
<1>5. CASE ScanClean(o)
  BY <1>5, ReadyBase DEF ScanClean, CanScan, BaseInv, TypeOK
<1>6. CASE ScanTruncates(o)
  <2>1. segment' \in [Pos -> Cell]
    BY <1>6, TruncateAdopts DEF ScanTruncates, BaseInv, TypeOK
  <2>2. TypeOK'
    BY <1>6, <2>1 DEF ScanTruncates, BaseInv, TypeOK, memory, ghosts, Holding
  <2>3. LockInv' /\ PendingInv' /\ CursorInv'
    BY <1>6 DEF ScanTruncates, CanScan, BaseInv, TypeOK, LockInv, PendingInv, CursorInv,
                Holding, memory
  <2> QED BY <2>2, <2>3 DEF BaseInv
<1>7. CASE TruncateSync(o)
  BY <1>7, ReadyBase DEF TruncateSync, BaseInv, TypeOK
<1>8. CASE TruncateSyncFails(o)
  <2>1. segmentDisk' \in [Pos -> Cell]
    BY <1>8, ImageType DEF TruncateSyncFails, BaseInv, TypeOK
  <2> QED BY <1>8, <2>1, ForgetBase DEF TruncateSyncFails, BaseInv, TypeOK
<1> QED BY <1>1, <1>2, <1>3, <1>4, <1>5, <1>6, <1>7, <1>8 DEF Open

LEMMA AppendBase == ASSUME BaseInv, NEW o \in Openers, AppendFrame(o) PROVE BaseInv'
<1> USE SentinelAssumption, CapacityAssumption
<1>1. ASSUME NEW id \in Ids, AppendRefused(o, id) PROVE BaseInv'
  BY <1>1 DEF AppendRefused, BaseInv, TypeOK, LockInv, PendingInv, CursorInv, Outcomes, file,
              memory, ghosts
<1>2. ASSUME NEW id \in Ids, AppendWrite(o, id) PROVE BaseInv'
  <2>1. /\ pc[o] = "ready" /\ known[o] < Capacity /\ known[o] \in 0..Capacity
        /\ cursor[o] \in 0..Capacity /\ cursor[o] <= known[o]
    BY <1>2 DEF AppendWrite, CanAppend, BaseInv, TypeOK, CursorInv
  <2>2. cursor[o] + 1 \in 0..Capacity /\ [seq |-> known[o] + 1, id |-> id] \in Cell
    BY <2>1 DEF Cell, Frame, Pos
  <2>3. segment' \in [Pos -> Cell] /\ displaced' \in BOOLEAN
    BY <1>2, <2>2 DEF AppendWrite, Write, BaseInv, TypeOK
  <2>4. TypeOK'
    BY <1>2, <2>2, <2>3 DEF AppendWrite, BaseInv, TypeOK, Holding, Outcomes
  <2>5. LockInv' /\ PendingInv' /\ CursorInv'
    BY <1>2, <2>1 DEF AppendWrite, BaseInv, TypeOK, LockInv, PendingInv, CursorInv, Holding
  <2> QED BY <2>4, <2>5 DEF BaseInv
<1>3. ASSUME NEW id \in Ids, AppendWriteFails(o, id) PROVE BaseInv'
  <2>1. segment' \in [Pos -> Cell] /\ displaced' \in BOOLEAN
    BY <1>3 DEF AppendWriteFails, Write, BaseInv, TypeOK, Cell
  <2>2. TypeOK'
    BY <1>3, <2>1 DEF AppendWriteFails, BaseInv, TypeOK, Holding, Outcomes, memory
  <2>3. LockInv' /\ PendingInv' /\ CursorInv'
    BY <1>3 DEF AppendWriteFails, CanAppend, BaseInv, TypeOK, LockInv, PendingInv, CursorInv,
                Holding, memory
  <2> QED BY <2>2, <2>3 DEF BaseInv
<1>4. CASE AppendSync(o)
  <2>1. pc[o] = "written" /\ pending[o] \in Ids /\ known[o] + 1 \in 0..Capacity
    BY <1>4 DEF AppendSync, BaseInv, TypeOK, PendingInv
  <2>2. TypeOK'
    BY <1>4, <2>1 DEF AppendSync, Returns, BaseInv, TypeOK, Holding, Outcomes
  <2>3. LockInv' /\ PendingInv' /\ CursorInv'
    BY <1>4, <2>1 DEF AppendSync, Returns, BaseInv, TypeOK, LockInv, PendingInv, CursorInv, Holding
  <2> QED BY <2>2, <2>3 DEF BaseInv
<1>5. CASE AppendSyncFails(o)
  <2>1. pc[o] = "written" /\ pending[o] \in Ids /\ segmentDisk' \in [Pos -> Cell]
    BY <1>5, ImageType DEF AppendSyncFails, BaseInv, TypeOK, PendingInv
  <2>2. TypeOK'
    BY <1>5, <2>1 DEF AppendSyncFails, BaseInv, TypeOK, Holding, Outcomes, ghosts
  <2>3. LockInv' /\ PendingInv' /\ CursorInv'
    BY <1>5, <2>1 DEF AppendSyncFails, BaseInv, TypeOK, LockInv, PendingInv, CursorInv, Holding
  <2> QED BY <2>2, <2>3 DEF BaseInv
<1> QED BY <1>1, <1>2, <1>3, <1>4, <1>5 DEF AppendFrame

LEMMA OtherBase ==
    ASSUME BaseInv, NEW o \in Openers, Replay(o) \/ ReplayFails(o) \/ Close(o) \/ Crash(o)
    PROVE  BaseInv'
<1> USE SentinelAssumption, CapacityAssumption
<1>1. CASE Replay(o)
  BY <1>1 DEF Replay, BaseInv, TypeOK, LockInv, PendingInv, CursorInv, file, ghosts
<1>2. CASE ReplayFails(o)
  <2>1. PICK c \in 0..known[o] : cursor' = [cursor EXCEPT ![o] = c]
    BY <1>2 DEF ReplayFails
  <2>2. c \in 0..Capacity /\ c <= known[o] /\ pc[o] = "ready"
    BY <1>2, <2>1 DEF ReplayFails, BaseInv, TypeOK
  <2> QED BY <1>2, <2>1, <2>2
          DEF ReplayFails, BaseInv, TypeOK, LockInv, PendingInv, CursorInv, file, ghosts
<1>3. CASE Close(o)
  BY <1>3, ForgetBase DEF Close, file, BaseInv, TypeOK
<1>4. CASE Crash(o)
  <2>1. outcome' \in [Ids -> Outcomes]
    BY <1>4 DEF Crash, BaseInv, TypeOK, Outcomes
  <2> QED BY <1>4, <2>1, ForgetBase DEF Crash, file, BaseInv, TypeOK
<1> QED BY <1>1, <1>2, <1>3, <1>4

LEMMA PowerLossBase == ASSUME BaseInv, PowerLoss PROVE BaseInv'
<1> USE SentinelAssumption, CapacityAssumption
<1>1. segment' \in [Pos -> Cell] /\ segmentDisk' \in [Pos -> Cell]
      /\ entry' \in {"absent", "unsynced", "durable"}
  <2>1. \A image \in Images(segmentDisk, segment) : image \in [Pos -> Cell]
    BY ImageType DEF BaseInv, TypeOK
  <2>2. Empty \in [Pos -> Cell]
    BY DEF Empty, Cell
  <2> QED BY <2>1, <2>2 DEF PowerLoss
<1>2. outcome' \in [Ids -> Outcomes]
  BY DEF PowerLoss, BaseInv, TypeOK, Outcomes
<1>3. TypeOK'
  BY <1>1, <1>2 DEF PowerLoss, BaseInv, TypeOK, ghosts
<1>4. LockInv' /\ PendingInv' /\ CursorInv'
  BY DEF PowerLoss, BaseInv, TypeOK, LockInv, PendingInv, CursorInv, Holding
<1> QED BY <1>3, <1>4 DEF BaseInv

LEMMA InflightStep == BaseInv /\ InflightInv /\ [Next]_vars => InflightInv'
<1> SUFFICES ASSUME BaseInv, InflightInv, [Next]_vars, NEW p \in Openers, pc'[p] = "written"
             PROVE  outcome'[pending'[p]] = "inflight"
  BY DEF InflightInv
<1> USE SentinelAssumption
<1>1. /\ pc \in [Openers -> Holding \cup {"closed", "opened"}]
      /\ pending \in [Openers -> Ids \cup {NoId}] /\ outcome \in [Ids -> Outcomes]
      /\ pc[p] = "written" => lock = p /\ pending[p] \in Ids /\ outcome[pending[p]] = "inflight"
      /\ \A o \in Openers : pc[o] # "written" => pending[o] = NoId
      /\ \A o \in Openers : pc[o] \in Holding => lock = o
  BY DEF BaseInv, TypeOK, LockInv, PendingInv, InflightInv, Holding
<1>2. CASE UNCHANGED vars
  BY <1>1, <1>2 DEF vars, memory
<1>3. CASE PowerLoss
  BY <1>3 DEF PowerLoss
<1>4. ASSUME NEW o \in Openers, Open(o) PROVE outcome'[pending'[p]] = "inflight"
  <2>1. CASE LockRefused(o) \/ EntrySyncFails(o) \/ ScanRefuses(o) \/ TruncateSyncFails(o)
    BY <1>1, <2>1 DEF LockRefused, EntrySyncFails, ScanRefuses, TruncateSyncFails, Forget
  <2>2. CASE ScanClean(o) \/ TruncateSync(o)
    BY <1>1, <2>2 DEF ScanClean, TruncateSync, Ready, Settle
  <2>3. CASE OpenFile(o) \/ Lock(o) \/ EntrySync(o) \/ ScanTruncates(o)
    BY <1>1, <2>3 DEF OpenFile, Lock, EntrySync, ScanTruncates, memory
  <2> QED BY <1>4, <2>1, <2>2, <2>3 DEF Open
<1>5. ASSUME NEW o \in Openers, AppendFrame(o) PROVE outcome'[pending'[p]] = "inflight"
  <2>1. ASSUME NEW id \in Ids, AppendRefused(o, id) PROVE outcome'[pending'[p]] = "inflight"
    BY <1>1, <2>1 DEF AppendRefused, memory
  <2>2. ASSUME NEW id \in Ids, AppendWrite(o, id) PROVE outcome'[pending'[p]] = "inflight"
    BY <1>1, <2>2 DEF AppendWrite, CanAppend, Holding
  <2>3. ASSUME NEW id \in Ids, AppendWriteFails(o, id) PROVE outcome'[pending'[p]] = "inflight"
    BY <1>1, <2>3 DEF AppendWriteFails, CanAppend, memory
  <2>4. CASE AppendSync(o) \/ AppendSyncFails(o)
    BY <1>1, <2>4 DEF AppendSync, Returns, AppendSyncFails, Holding
  <2> QED BY <1>5, <2>1, <2>2, <2>3, <2>4 DEF AppendFrame
<1>6. ASSUME NEW o \in Openers, Replay(o) \/ ReplayFails(o) \/ Close(o) \/ Crash(o)
      PROVE  outcome'[pending'[p]] = "inflight"
  <2>1. CASE Replay(o) \/ ReplayFails(o)
    BY <1>1, <2>1 DEF Replay, ReplayFails
  <2>2. CASE Close(o)
    BY <1>1, <2>2 DEF Close, Forget
  <2>3. CASE Crash(o)
    BY <1>1, <2>3 DEF Crash, Forget, Holding
  <2> QED BY <1>6, <2>1, <2>2, <2>3
<1> QED BY <1>2, <1>3, <1>4, <1>5, <1>6 DEF Next

LEMMA BaseStep == BaseInv /\ [Next]_vars => BaseInv'
<1> SUFFICES ASSUME BaseInv, [Next]_vars PROVE BaseInv'
  OBVIOUS
<1>1. CASE UNCHANGED vars
  BY <1>1 DEF vars, file, memory, ghosts, BaseInv, TypeOK, LockInv, PendingInv, CursorInv
<1> QED BY <1>1, OpenBase, AppendBase, OtherBase, PowerLossBase DEF Next

-----------------------------------------------------------------------------
(* The frames of the file and what the host was told of them.               *)

LEMMA DataInit == Init => EntryInv /\ FrameInv /\ StepInv /\ UsedInv /\ ReturnedInv
<1> SUFFICES ASSUME Init PROVE EntryInv /\ FrameInv /\ StepInv /\ UsedInv /\ ReturnedInv
  OBVIOUS
<1>1. Returned = {} /\ \A i \in Pos : ~ IsFrame(segment[i]) /\ ~ IsFrame(segmentDisk[i])
  BY SentinelAssumption DEF Init, Returned, Empty, IsFrame
<1>2. EntryInv /\ UsedInv /\ ReturnedInv
  BY <1>1 DEF EntryInv, UsedInv, ReturnedInv
<1>3. FrameInv
  BY <1>1 DEF FrameInv, Ordered, Agree
<1>4. StepInv
  BY DEF Init, StepInv, StepOf
<1> QED BY <1>2, <1>3, <1>4

\* A step that leaves the page cache alone, reports no further append as
\* returned, and at most syncs, fully or in part.
LEMMA QuietData ==
    ASSUME IInv, segment' = segment, displaced' = displaced, orphaned' = orphaned,
           \/ segmentDisk' \in {segmentDisk, segment}
           \/ segmentDisk' \in Images(segmentDisk, segment),
           entry = "durable" => entry' = "durable",
           Returned' \subseteq Returned,
           \A i \in Pos : IsFrame(segment[i]) /\ outcome[segment[i].id] \in Live =>
               outcome'[segment[i].id] \in Live
    PROVE  EntryInv' /\ FrameInv' /\ UsedInv' /\ ReturnedInv'
<1>1. EntryInv'
  BY DEF IInv, EntryInv
<1>2. ASSUME ~ displaced
      PROVE  /\ Agree(segment, segmentDisk')
             /\ \A id \in Ids : Kept(segmentDisk, id) => Kept(segmentDisk', id)
  <2>1. Ordered(segment) /\ Agree(segment, segmentDisk)
    BY <1>2 DEF IInv, FrameInv
  <2>2. CASE segmentDisk' = segmentDisk
    BY <2>1, <2>2
  <2>3. CASE segmentDisk' = segment
    BY <2>1, <2>3, CacheKeeps DEF Agree
  <2>4. CASE segmentDisk' \in Images(segmentDisk, segment)
    BY <2>1, <2>4, ImageAgrees DEF IInv, BaseInv, TypeOK
  <2> QED BY <2>2, <2>3, <2>4
<1>3. FrameInv'
  BY <1>2 DEF IInv, FrameInv
<1>4. UsedInv'
  BY DEF IInv, UsedInv
<1>5. ReturnedInv'
  BY <1>2 DEF IInv, ReturnedInv, Void, Returned
<1> QED BY <1>1, <1>3, <1>4, <1>5

\* A step of one opener that leaves the page cache alone.
LEMMA QuietStep ==
    ASSUME IInv, NEW o \in Openers, segment' = segment, displaced' = displaced,
           \A p \in Openers \ {o} :
               pc'[p] = pc[p] /\ known'[p] = known[p] /\ pending'[p] = pending[p],
           ~ displaced => StepOf(o)'
    PROVE  StepInv'
BY DEF IInv, StepInv, StepOf

\* A handle is dropped.
LEMMA ForgetData ==
    ASSUME IInv, NEW o \in Openers, Forget(o), entry' = entry, segment' = segment,
           UNCHANGED ghosts,
           \/ segmentDisk' = segmentDisk
           \/ segmentDisk' \in Images(segmentDisk, segment),
           outcome' = outcome
               \/ outcome' = [id \in Ids |-> IF id = pending[o] THEN "unknown" ELSE outcome[id]]
    PROVE  EntryInv' /\ FrameInv' /\ StepInv' /\ UsedInv' /\ ReturnedInv'
<1>1. Returned' \subseteq Returned
  BY DEF Returned
<1>2. \A i \in Pos : IsFrame(segment[i]) /\ outcome[segment[i].id] \in Live =>
          outcome'[segment[i].id] \in Live
  <2>1. \A id \in Ids : outcome[id] \in Live => outcome'[id] \in Live
    BY DEF Live
  <2>2. \A i \in Pos : IsFrame(segment[i]) => segment[i].id \in Ids
    BY SentinelAssumption DEF IInv, BaseInv, TypeOK, IsFrame, Cell, Frame
  <2> QED BY <2>1, <2>2
<1>3. EntryInv' /\ FrameInv' /\ UsedInv' /\ ReturnedInv'
  BY <1>1, <1>2, QuietData DEF ghosts
<1>4. /\ StepOf(o)'
      /\ \A p \in Openers \ {o} :
             pc'[p] = pc[p] /\ known'[p] = known[p] /\ pending'[p] = pending[p]
  BY DEF IInv, BaseInv, TypeOK, Forget, StepOf
<1>5. StepInv'
  BY <1>4, QuietStep DEF ghosts
<1> QED BY <1>3, <1>5


\* A handle becomes usable behind the frames it adopts; nothing follows them.
LEMMA ReadyData ==
    ASSUME IInv, BaseInv', NEW o \in Openers, pc[o] \in {"locked", "truncating"}, Ready(o),
           displaced' = displaced, orphaned' = orphaned,
           segmentDisk' \in {segmentDisk, segment},
           ~ displaced => EndsAt(segment, Adopted(segment))
    PROVE  EntryInv' /\ FrameInv' /\ StepInv' /\ UsedInv' /\ ReturnedInv'
<1> USE CapacityAssumption
<1> DEFINE n == Adopted(segment)
<1>1. n \in 0..Capacity /\ InSequence(segment, n)
  BY AdoptedLongest
<1>2. outcome \in [Ids -> Outcomes] /\ segment \in [Pos -> Cell]
  BY DEF IInv, BaseInv, TypeOK
<1>3. \A id \in Ids : outcome'[id] = IF outcome[id] # "unknown" THEN outcome[id]
                                    ELSE IF Serves(segment, id) THEN "recovered" ELSE "discarded"
  BY DEF Ready, Settle
<1>4. Returned' = Returned
  BY <1>2, <1>3 DEF Returned
<1>5. UsedInv'
  <2> SUFFICES ASSUME ~ displaced, NEW i \in Pos, IsFrame(segment[i])
               PROVE  outcome'[segment[i].id] \in Live
    BY DEF UsedInv, Ready
  <2>1. segment[i].id \in Ids /\ outcome[segment[i].id] \in Live
    BY <1>2, SentinelAssumption DEF IInv, UsedInv, IsFrame, Cell, Frame
  <2>2. i <= n
    BY <1>1 DEF EndsAt, IsFrame, Pos
  <2>3. Serves(segment, segment[i].id)
    BY <1>1, <2>2 DEF Serves, Pos
  <2> QED BY <1>3, <2>1, <2>3 DEF Live
<1>6. EntryInv' /\ FrameInv' /\ ReturnedInv'
  <2>1. EntryInv'
    BY <1>4 DEF IInv, EntryInv, Ready
  <2>2. FrameInv'
    BY DEF IInv, FrameInv, Agree, Ready
  <2>3. ReturnedInv'
    BY <1>4, CacheKeeps DEF IInv, FrameInv, ReturnedInv, Void, Returned, Ready
  <2> QED BY <2>1, <2>2, <2>3
<1>7. StepInv'
  <2>1. pc'[o] = "ready" /\ known'[o] = n
    BY DEF IInv, BaseInv, TypeOK, Ready
  <2>2. ~ displaced => StepOf(o)'
    BY <1>1, <2>1 DEF StepOf, Ready
  <2>3. \A p \in Openers \ {o} :
            pc'[p] = pc[p] /\ known'[p] = known[p] /\ pending'[p] = pending[p]
    BY DEF IInv, BaseInv, TypeOK, Ready
  <2> QED BY <2>2, <2>3, QuietStep DEF Ready
<1> QED BY <1>5, <1>6, <1>7

LEMMA OpenData ==
    ASSUME IInv, BaseInv', NEW o \in Openers, Open(o)
    PROVE  EntryInv' /\ FrameInv' /\ StepInv' /\ UsedInv' /\ ReturnedInv'
<1>1. CASE OpenFile(o) \/ Lock(o) \/ EntrySync(o)
  <2>1. /\ UNCHANGED <<segment, segmentDisk, known, pending, outcome, displaced, orphaned>>
        /\ entry = "durable" => entry' = "durable"
    BY <1>1 DEF OpenFile, Lock, EntrySync, file, memory, ghosts
  <2>2. Returned' = Returned
    BY <2>1 DEF Returned
  <2>3. EntryInv' /\ FrameInv' /\ UsedInv' /\ ReturnedInv'
    BY <2>1, <2>2, QuietData
  <2>4. /\ pc'[o] \in {"opened", "locked"}
        /\ \A p \in Openers \ {o} : pc'[p] = pc[p]
    BY <1>1 DEF OpenFile, Lock, EntrySync, IInv, BaseInv, TypeOK
  <2>5. StepOf(o)'
    BY <2>4 DEF StepOf
  <2>6. StepInv'
    BY <2>1, <2>4, <2>5, QuietStep
  <2> QED BY <2>3, <2>6
<1>2. CASE LockRefused(o) \/ EntrySyncFails(o) \/ ScanRefuses(o)
  BY <1>2, ForgetData DEF LockRefused, EntrySyncFails, ScanRefuses, file
<1>3. CASE ScanClean(o)
  BY <1>3, ReadyData DEF ScanClean, CanScan, Ready, ghosts
<1>4. CASE ScanTruncates(o)
  <2>1. /\ segment \in [Pos -> Cell] /\ lock = o
        /\ UNCHANGED <<entry, segmentDisk, known, pending, outcome, displaced, orphaned>>
    BY <1>4 DEF ScanTruncates, CanScan, IInv, BaseInv, TypeOK, LockInv, Holding, memory, ghosts
  <2>2. /\ EndsAt(segment', Adopted(segment'))
        /\ \A i \in Pos : IsFrame(segment[i]) \/ IsFrame(segment'[i]) => segment'[i] = segment[i]
    <3>1. /\ segment' = Truncated(segment, Adopted(segment))
          /\ HasShortTail(segment, Adopted(segment))
      BY <1>4 DEF ScanTruncates
    <3> QED BY <2>1, <3>1, TruncateAdopts
  <2>3. EntryInv'
    BY <2>1 DEF IInv, EntryInv, Returned
  <2>4. FrameInv'
    BY <2>1, <2>2 DEF IInv, FrameInv, Ordered, Agree
  <2>5. UsedInv'
    BY <2>1, <2>2 DEF IInv, UsedInv
  <2>6. ReturnedInv'
    BY <2>1 DEF IInv, ReturnedInv, Void, Returned
  <2>7. StepInv'
    <3>1. \A p \in Openers : pc'[p] = IF p = o THEN "truncating" ELSE pc[p]
      BY <1>4 DEF ScanTruncates, IInv, BaseInv, TypeOK
    <3>2. \A p \in Openers \ {o} : pc[p] \notin Holding
      BY <2>1 DEF IInv, BaseInv, LockInv
    <3> QED BY <2>2, <3>1, <3>2 DEF StepInv, StepOf, Holding
  <2> QED BY <2>3, <2>4, <2>5, <2>6, <2>7
<1>5. CASE TruncateSync(o)
  <2>1. ~ displaced => EndsAt(segment, Adopted(segment))
    BY <1>5 DEF TruncateSync, IInv, StepInv, StepOf
  <2> QED BY <1>5, <2>1, ReadyData DEF TruncateSync, Ready, ghosts
<1>6. CASE TruncateSyncFails(o)
  BY <1>6, ForgetData DEF TruncateSyncFails
<1> QED BY <1>1, <1>2, <1>3, <1>4, <1>5, <1>6 DEF Open

\* A cell written at the offset of a handle that counts every frame of the file
\* comes behind the last one.
LEMMA WriteData ==
    ASSUME IInv, NEW o \in Openers, NEW id \in Ids, CanAppend(o, id), NEW cell \in Cell,
           Write(o, cell), UNCHANGED <<entry, segmentDisk, known, orphaned>>,
           IsFrame(cell) => cell = [seq |-> known[o] + 1, id |-> id],
           outcome' = [outcome EXCEPT ![id] = IF IsFrame(cell) THEN "inflight" ELSE "unknown"],
           \/ pc' = [pc EXCEPT ![o] = "poisoned"]
           \/ /\ pc' = [pc EXCEPT ![o] = "written"] /\ IsFrame(cell)
              /\ pending' = [pending EXCEPT ![o] = id]
    PROVE  EntryInv' /\ FrameInv' /\ StepInv' /\ UsedInv' /\ ReturnedInv'
<1> USE CapacityAssumption
<1> DEFINE k == known[o] + 1
<1>1. /\ segment \in [Pos -> Cell] /\ pc[o] = "ready" /\ outcome[id] = "unused"
      /\ k \in Pos /\ outcome \in [Ids -> Outcomes] /\ lock = o /\ known[o] \in 0..Capacity
      /\ pending \in [Openers -> Ids \cup {NoId}] /\ pc \in [Openers -> Holding \cup {"closed", "opened"}]
  BY DEF IInv, BaseInv, TypeOK, LockInv, CanAppend, Holding, Pos
<1>2. Returned' = Returned
  BY <1>1 DEF Returned
<1>3. EntryInv' /\ ReturnedInv'
  BY <1>2 DEF IInv, EntryInv, ReturnedInv, Void, Write, Returned
<1>4. ASSUME ~ displaced'
      PROVE  /\ ~ displaced /\ segment' = [segment EXCEPT ![k] = cell]
             /\ InSequence(segment, known[o]) /\ EndsAt(segment, known[o])
             /\ segment[k] = Hole
             /\ \A i \in Pos : IsFrame(segment[i]) => segment[i].id # id
  <2>1. ~ displaced /\ cursor[o] = known[o]
    BY <1>4 DEF Write
  <2>2. InSequence(segment, known[o]) /\ EndsAt(segment, known[o])
    BY <1>1, <2>1 DEF IInv, StepInv, StepOf
  <2>3. segment[k] = Hole
    BY <1>1, <2>2 DEF EndsAt, Pos
  <2>4. \A i \in Pos : IsFrame(segment[i]) => segment[i].id # id
    BY <1>1, <2>1 DEF IInv, UsedInv, Live
  <2> QED BY <2>1, <2>2, <2>3, <2>4 DEF Write
<1>5. FrameInv'
  <2> SUFFICES ASSUME ~ displaced' PROVE Ordered(segment') /\ Agree(segment', segmentDisk)
    BY DEF FrameInv
  <2>1. Ordered(segment) /\ Agree(segment, segmentDisk)
    BY <1>4 DEF IInv, FrameInv
  <2>2. \A i \in Pos : segment'[i] = IF i = k THEN cell ELSE segment[i]
    BY <1>1, <1>4
  <2>3. Ordered(segment')
    <3>1. \A i \in Pos : IsFrame(segment'[i]) => segment'[i].seq = i
      BY <2>1, <2>2 DEF Ordered
    <3>2. \A i, j \in Pos :
              IsFrame(segment'[i]) /\ IsFrame(segment'[j]) /\ segment'[i].id = segment'[j].id => i = j
      BY <1>4, <2>1, <2>2 DEF Ordered
    <3> QED BY <3>1, <3>2 DEF Ordered
  <2>4. Agree(segment', segmentDisk)
    BY <1>4, <2>1, <2>2 DEF Agree, IsFrame
  <2> QED BY <2>3, <2>4
<1>6. UsedInv'
  <2> SUFFICES ASSUME ~ displaced', NEW i \in Pos, IsFrame(segment'[i])
               PROVE  outcome'[segment'[i].id] \in Live
    BY DEF UsedInv
  <2>1. CASE i = k
    <3>1. segment'[i] = cell /\ cell.id = id /\ outcome'[id] = "inflight"
      BY <1>1, <1>4, <2>1
    <3> QED BY <3>1 DEF Live
  <2>2. CASE i # k
    <3>1. segment'[i] = segment[i] /\ segment[i].id # id
      BY <1>1, <1>4, <2>2
    <3>2. outcome[segment[i].id] \in Live
      BY <1>4, <3>1 DEF IInv, UsedInv
    <3> QED BY <1>1, <3>1, <3>2
  <2> QED BY <2>1, <2>2
<1>7. StepInv'
  <2> SUFFICES ASSUME ~ displaced', NEW p \in Openers PROVE StepOf(p)'
    BY DEF StepInv
  <2>1. CASE p # o
    BY <1>1, <2>1 DEF IInv, BaseInv, LockInv, StepOf, Holding
  <2>2. CASE p = o /\ pc'[o] = "poisoned"
    BY <2>2 DEF StepOf
  <2>3. CASE p = o /\ pc'[o] = "written"
    <3>1. \A i \in Pos : segment'[i] = IF i = k THEN cell ELSE segment[i]
      BY <1>1, <1>4
    <3>2. InSequence(segment', known[o])
      BY <1>1, <1>4, <3>1 DEF InSequence, Pos
    <3>3. EndsAt(segment', k)
      BY <1>1, <1>4, <3>1 DEF EndsAt, Pos
    <3>4. segment'[k] = [seq |-> k, id |-> id] /\ pending'[o] = id
      BY <1>1, <2>3, <3>1
    <3> QED BY <2>3, <3>2, <3>3, <3>4 DEF StepOf
  <2> QED BY <1>1, <2>1, <2>2, <2>3
<1> QED BY <1>3, <1>5, <1>6, <1>7

LEMMA AppendData ==
    ASSUME IInv, BaseInv', NEW o \in Openers, AppendFrame(o)
    PROVE  EntryInv' /\ FrameInv' /\ StepInv' /\ UsedInv' /\ ReturnedInv'
<1> USE CapacityAssumption, SentinelAssumption
<1>0. /\ segment \in [Pos -> Cell] /\ outcome \in [Ids -> Outcomes]
      /\ known \in [Openers -> 0..Capacity]
      /\ pending \in [Openers -> Ids \cup {NoId}]
      /\ pc \in [Openers -> Holding \cup {"closed", "opened"}]
      /\ \A i \in Pos : IsFrame(segment[i]) => segment[i].id \in Ids
  BY DEF IInv, BaseInv, TypeOK, IsFrame, Cell, Frame
<1>1. ASSUME NEW id \in Ids, AppendRefused(o, id)
      PROVE  EntryInv' /\ FrameInv' /\ StepInv' /\ UsedInv' /\ ReturnedInv'
  <2>1. /\ UNCHANGED <<entry, segment, segmentDisk, pc, known, pending, displaced, orphaned>>
        /\ outcome[id] = "unused" /\ outcome' = [outcome EXCEPT ![id] = "definite"]
    BY <1>1 DEF AppendRefused, file, memory, ghosts
  <2>2. Returned' = Returned /\ \A i \in Ids : outcome[i] \in Live => outcome'[i] \in Live
    BY <1>0, <2>1 DEF Returned, Live
  <2>3. EntryInv' /\ FrameInv' /\ UsedInv' /\ ReturnedInv'
    BY <1>0, <2>1, <2>2, QuietData
  <2>4. StepInv'
    BY <2>1 DEF IInv, StepInv, StepOf
  <2> QED BY <2>3, <2>4
<1>2. ASSUME NEW id \in Ids, AppendWrite(o, id)
      PROVE  EntryInv' /\ FrameInv' /\ StepInv' /\ UsedInv' /\ ReturnedInv'
  <2> DEFINE cell == [seq |-> known[o] + 1, id |-> id]
  <2>1. cell \in Frame /\ cell \in Cell /\ IsFrame(cell)
    BY <1>0, <1>2 DEF AppendWrite, CanAppend, Frame, Cell, Pos, IsFrame
  <2> QED BY <1>2, <2>1, WriteData DEF AppendWrite
<1>3. ASSUME NEW id \in Ids, AppendWriteFails(o, id)
      PROVE  EntryInv' /\ FrameInv' /\ StepInv' /\ UsedInv' /\ ReturnedInv'
  <2>1. CASE UNCHANGED <<segment, displaced>>
    <3>1. /\ UNCHANGED <<entry, segmentDisk, known, pending, orphaned>>
          /\ outcome[id] = "unused" /\ outcome' = [outcome EXCEPT ![id] = "unknown"]
          /\ pc' = [pc EXCEPT ![o] = "poisoned"]
      BY <1>3 DEF AppendWriteFails, CanAppend, memory
    <3>2. Returned' = Returned /\ \A i \in Ids : outcome[i] \in Live => outcome'[i] \in Live
      BY <1>0, <3>1 DEF Returned, Live
    <3>3. EntryInv' /\ FrameInv' /\ UsedInv' /\ ReturnedInv'
      BY <1>0, <2>1, <3>1, <3>2, QuietData
    <3>4. StepOf(o)'
      BY <1>0, <3>1 DEF StepOf
    <3>5. StepInv'
      BY <1>0, <2>1, <3>1, <3>4, QuietStep
    <3> QED BY <3>3, <3>5
  <2>2. ASSUME NEW part \in Broken, Write(o, part)
        PROVE  EntryInv' /\ FrameInv' /\ StepInv' /\ UsedInv' /\ ReturnedInv'
    <3>1. part \in Cell /\ ~ IsFrame(part)
      BY DEF Cell, IsFrame
    <3> QED BY <1>3, <2>2, <3>1, WriteData DEF AppendWriteFails, memory
  <2> QED BY <1>3, <2>1, <2>2 DEF AppendWriteFails
<1>4. CASE AppendSync(o)
  <2>1. /\ pc[o] = "written" /\ pending[o] \in Ids /\ known[o] < Capacity
        /\ UNCHANGED <<entry, segment, displaced>> /\ segmentDisk' = segment
        /\ orphaned' = (orphaned \/ entry # "durable")
        /\ \A id \in Ids : outcome'[id] = IF id = pending[o] THEN "returned" ELSE outcome[id]
        /\ \A p \in Openers : /\ pc'[p] = IF p = o THEN "ready" ELSE pc[p]
                              /\ known'[p] = IF p = o THEN known[p] + 1 ELSE known[p]
                              /\ p # o => pending'[p] = pending[p]
    BY <1>0, <1>4 DEF AppendSync, Returns, IInv, BaseInv, PendingInv
  <2>2. Returned' = Returned \cup {pending[o]}
    BY <2>1 DEF Returned
  <2>3. EntryInv'
    BY <2>1 DEF IInv, EntryInv
  <2>4. FrameInv'
    BY <2>1 DEF IInv, FrameInv, Agree
  <2>5. UsedInv'
    BY <1>0, <2>1 DEF IInv, UsedInv, Live
  <2>6. ASSUME ~ displaced
        PROVE  /\ InSequence(segment, known[o] + 1) /\ EndsAt(segment, known[o] + 1)
               /\ Kept(segment, pending[o])
    <3>1. /\ InSequence(segment, known[o]) /\ EndsAt(segment, known[o] + 1)
          /\ segment[known[o] + 1] = [seq |-> known[o] + 1, id |-> pending[o]]
      BY <2>1, <2>6 DEF IInv, StepInv, StepOf
    <3>2. known[o] + 1 \in Pos /\ segment[known[o] + 1] \in Frame
      BY <1>0, <2>1, <3>1 DEF Pos, Frame
    <3>3. IsFrame(segment[known[o] + 1])
      BY <3>2 DEF IsFrame
    <3>4. InSequence(segment, known[o] + 1)
      BY <1>0, <3>1, <3>3 DEF InSequence
    <3> QED BY <3>1, <3>2, <3>4 DEF Kept
  <2>7. ReturnedInv'
    <3> SUFFICES ASSUME ~ Void', NEW id \in Returned' PROVE Kept(segmentDisk', id)
      BY DEF ReturnedInv
    <3>1. ~ Void /\ ~ displaced
      BY <2>1 DEF Void
    <3>2. CASE id = pending[o]
      BY <2>1, <2>6, <3>1, <3>2
    <3>3. CASE id \in Returned
      <4>1. Kept(segmentDisk, id) /\ Agree(segment, segmentDisk)
        BY <3>1, <3>3 DEF IInv, ReturnedInv, FrameInv
      <4> QED BY <2>1, <4>1, CacheKeeps
    <3> QED BY <2>2, <3>2, <3>3
  <2>8. ~ displaced => StepOf(o)'
    BY <2>1, <2>6 DEF StepOf
  <2>9. StepInv'
    BY <2>1, <2>8, QuietStep
  <2> QED BY <2>3, <2>4, <2>5, <2>7, <2>9
<1>5. CASE AppendSyncFails(o)
  <2>1. /\ UNCHANGED <<entry, segment, known, displaced, orphaned>>
        /\ segmentDisk' \in Images(segmentDisk, segment)
        /\ \A id \in Ids : outcome'[id] = IF id = pending[o] THEN "unknown" ELSE outcome[id]
        /\ \A p \in Openers : /\ pc'[p] = IF p = o THEN "poisoned" ELSE pc[p]
                              /\ p # o => pending'[p] = pending[p]
    BY <1>0, <1>5 DEF AppendSyncFails, ghosts
  <2>2. Returned' \subseteq Returned
    BY <2>1 DEF Returned
  <2>3. \A id \in Ids : outcome[id] \in Live => outcome'[id] \in Live
    BY <2>1 DEF Live
  <2>4. EntryInv' /\ FrameInv' /\ UsedInv' /\ ReturnedInv'
    BY <1>0, <2>1, <2>2, <2>3, QuietData
  <2>5. StepOf(o)'
    BY <2>1 DEF StepOf
  <2>6. StepInv'
    BY <2>1, <2>5, QuietStep
  <2> QED BY <2>4, <2>6
<1> QED BY <1>1, <1>2, <1>3, <1>4, <1>5 DEF AppendFrame

LEMMA OtherData ==
    ASSUME IInv, BaseInv', NEW o \in Openers,
           Replay(o) \/ ReplayFails(o) \/ Close(o) \/ Crash(o)
    PROVE  EntryInv' /\ FrameInv' /\ StepInv' /\ UsedInv' /\ ReturnedInv'
<1>1. CASE Replay(o) \/ ReplayFails(o)
  <2>1. UNCHANGED <<entry, segment, segmentDisk, pc, known, pending, outcome, displaced, orphaned>>
    BY <1>1 DEF Replay, ReplayFails, file, ghosts
  <2>2. EntryInv' /\ FrameInv' /\ UsedInv' /\ ReturnedInv'
    BY <2>1 DEF IInv, EntryInv, FrameInv, UsedInv, ReturnedInv, Void, Returned
  <2>3. StepInv'
    BY <2>1 DEF IInv, StepInv, StepOf
  <2> QED BY <2>2, <2>3
<1>2. CASE Close(o)
  BY <1>2, ForgetData DEF Close, file
<1>3. CASE Crash(o)
  BY <1>3, ForgetData DEF Crash, file
<1> QED BY <1>1, <1>2, <1>3

LEMMA PowerLossData ==
    ASSUME IInv, BaseInv', PowerLoss
    PROVE  EntryInv' /\ FrameInv' /\ StepInv' /\ UsedInv' /\ ReturnedInv'
<1> USE SentinelAssumption
<1>1. /\ segment \in [Pos -> Cell] /\ segmentDisk \in [Pos -> Cell]
      /\ \A id \in Ids : outcome'[id] = IF outcome[id] = "inflight" THEN "unknown" ELSE outcome[id]
      /\ UNCHANGED <<displaced, orphaned>>
      /\ \A o \in Openers : pc'[o] = "closed"
      /\ \A i \in Pos : IsFrame(segment[i]) => segment[i].id \in Ids
  BY DEF IInv, BaseInv, TypeOK, PowerLoss, ghosts, IsFrame, Cell, Frame
<1>2. Returned' = Returned
  BY <1>1 DEF Returned
<1>3. StepInv'
  BY <1>1 DEF StepInv, StepOf
<1>4. ASSUME NEW image \in Images(segmentDisk, segment), segment' = image,
             segmentDisk' = image, entry' = "durable"
      PROVE  EntryInv' /\ FrameInv' /\ UsedInv' /\ ReturnedInv'
  <2>1. EntryInv'
    BY <1>4 DEF EntryInv
  <2>2. ASSUME ~ displaced
        PROVE  /\ Ordered(image) /\ Agree(segment, image)
               /\ \A id \in Ids : Kept(segmentDisk, id) => Kept(image, id)
    BY <1>1, <2>2, ImageAgrees DEF IInv, FrameInv
  <2>3. FrameInv'
    BY <1>1, <1>4, <2>2 DEF FrameInv, Agree
  <2>4. UsedInv'
    <3> SUFFICES ASSUME ~ displaced, NEW i \in Pos, IsFrame(image[i])
                 PROVE  outcome'[image[i].id] \in Live
      BY <1>1, <1>4 DEF UsedInv
    <3>1. image[i] = segment[i] /\ outcome[segment[i].id] \in Live /\ segment[i].id \in Ids
      BY <1>1, <2>2 DEF Agree, IInv, UsedInv
    <3> QED BY <1>1, <3>1 DEF Live
  <2>5. ReturnedInv'
    BY <1>1, <1>2, <1>4, <2>2 DEF IInv, ReturnedInv, Void, Returned
  <2> QED BY <2>1, <2>3, <2>4, <2>5
<1>5. CASE entry # "durable" /\ segment' = Empty /\ segmentDisk' = Empty
  <2>1. ~ orphaned => Returned = {}
    BY <1>5 DEF IInv, EntryInv
  <2>2. \A i \in Pos : ~ IsFrame(segment'[i]) /\ ~ IsFrame(segmentDisk'[i])
    BY <1>5 DEF Empty, IsFrame
  <2>3. EntryInv' /\ UsedInv' /\ ReturnedInv'
    BY <1>1, <1>2, <2>1, <2>2 DEF EntryInv, UsedInv, ReturnedInv, Void
  <2>4. FrameInv'
    BY <2>2 DEF FrameInv, Ordered, Agree
  <2> QED BY <1>3, <2>3, <2>4
<1> QED BY <1>3, <1>4, <1>5 DEF PowerLoss

LEMMA IInvStep == IInv /\ [Next]_vars => IInv'
<1> SUFFICES ASSUME IInv, [Next]_vars PROVE IInv'
  OBVIOUS
<1>1. BaseInv' /\ InflightInv'
  BY BaseStep, InflightStep DEF IInv
<1>2. CASE UNCHANGED vars
  <2>1. /\ UNCHANGED <<entry, segment, segmentDisk, pc, known, pending, outcome>>
        /\ UNCHANGED <<displaced, orphaned>>
    BY <1>2 DEF vars, file, memory, ghosts
  <2> QED BY <1>1, <2>1 DEF IInv, EntryInv, FrameInv, StepInv, StepOf, UsedInv, ReturnedInv,
                            Void, Returned
<1>3. CASE Next
  BY <1>1, <1>3, OpenData, AppendData, OtherData, PowerLossData DEF Next, IInv
<1> QED BY <1>2, <1>3

LEMMA Invariance == Spec => []IInv
<1>1. Init => InflightInv
  BY DEF Init, InflightInv
<1>2. Init => IInv
  BY <1>1, BaseInit, DataInit DEF IInv
<1> QED BY <1>2, IInvStep, PTL DEF Spec

-----------------------------------------------------------------------------
(* The properties.                                                          *)

\* Every variable keeps its type (the whole module).
THEOREM TypeCorrect == Spec => []TypeOK
<1>1. IInv => TypeOK
  BY DEF IInv, BaseInv
<1> QED BY <1>1, Invariance, PTL

\* A payload whose append returned is adopted by every reopen, once, from the
\* page cache and from the disk (append, scan_segment).
THEOREM ReturnedStays == Spec => []ReturnedAdoptedOnce
<1>1. IInv => ReturnedAdoptedOnce
  <2> SUFFICES ASSUME IInv, ~ Void, NEW id \in Returned, NEW s \in {segment, segmentDisk}
               PROVE  Cardinality(PositionsOf(id, s)) = 1 /\ Serves(s, id)
    BY DEF ReturnedAdoptedOnce
  <2> USE CapacityAssumption
  <2>1. Ordered(segment) /\ Agree(segment, segmentDisk) /\ Kept(segmentDisk, id)
    BY DEF IInv, FrameInv, ReturnedInv, Void
  <2>2. Ordered(s) /\ Kept(s, id)
    <3>1. Ordered(segmentDisk)
      BY <2>1 DEF Ordered, Agree
    <3> QED BY <2>1, <3>1, CacheKeeps
  <2>3. PICK i \in Pos : InSequence(s, i) /\ s[i].id = id
    BY <2>2 DEF Kept
  <2>4. IsFrame(s[i])
    BY <2>3 DEF InSequence, Pos
  <2>5. PositionsOf(id, s) = {i}
    BY <2>2, <2>3, <2>4 DEF PositionsOf, Ordered
  <2>6. i <= Adopted(s) /\ i \in 1..Adopted(s)
    BY <2>3, AdoptedLongest DEF Pos
  <2> QED BY <2>3, <2>5, <2>6, FS_Singleton DEF Serves
<1> QED BY <1>1, Invariance, PTL

\* A payload that append refused, or that a reopen did not find, is in no later
\* image of the file (append, scan_segment).
THEOREM DiscardedStays == Spec => []DiscardedNeverAdopted
<1>1. IInv => DiscardedNeverAdopted
  <2> SUFFICES ASSUME IInv, ~ Void, NEW id \in Ids, outcome[id] \in {"definite", "discarded"}
               PROVE  PositionsOf(id, segment) = {} /\ PositionsOf(id, segmentDisk) = {}
    BY DEF DiscardedNeverAdopted
  <2>1. \A i \in Pos : IsFrame(segment[i]) => segment[i].id # id
    BY DEF IInv, UsedInv, Live, Void
  <2>2. \A i \in Pos : IsFrame(segmentDisk[i]) => segmentDisk[i].id # id
    BY <2>1 DEF IInv, FrameInv, Agree, Void
  <2> QED BY <2>1, <2>2 DEF PositionsOf
<1> QED BY <1>1, Invariance, PTL

\* What the host is told of a payload by append and by a reopen stays true.
THEOREM OutcomesStay == Spec => []OutcomesHold
BY ReturnedStays, DiscardedStays, PTL DEF OutcomesHold

\* No step of a program takes a complete frame out of the file: open_from_sequence
\* cuts only tails too short for one, and append writes behind the last frame.
THEOREM FramesStay == Spec => NoFrameErased
<1>1. IInv /\ [Next]_vars =>
          [~ PowerLoss /\ ~ displaced' =>
              \A i \in Pos : IsFrame(segment[i]) => segment'[i] = segment[i]]_vars
  <2> SUFFICES ASSUME IInv, Next, ~ PowerLoss, ~ displaced', NEW i \in Pos, IsFrame(segment[i])
               PROVE  segment'[i] = segment[i]
    OBVIOUS
  <2>1. PICK o \in Openers :
            Open(o) \/ AppendFrame(o) \/ Replay(o) \/ ReplayFails(o) \/ Close(o) \/ Crash(o)
    BY DEF Next
  <2>2. CASE ScanTruncates(o)
    BY <2>2, TruncateAdopts DEF ScanTruncates, IInv, BaseInv, TypeOK
  <2>3. ASSUME NEW id \in Ids, CanAppend(o, id), NEW cell, Write(o, cell)
        PROVE  segment'[i] = segment[i]
    <3>1. ~ displaced /\ cursor[o] = known[o] /\ known[o] \in 0..Capacity
      BY <2>3 DEF Write, IInv, BaseInv, TypeOK
    <3>2. EndsAt(segment, known[o])
      BY <2>3, <3>1 DEF CanAppend, IInv, StepInv, StepOf
    <3>3. i # known[o] + 1
      BY <3>1, <3>2, CapacityAssumption DEF EndsAt, IsFrame, Pos
    <3> QED BY <2>3, <3>1, <3>3 DEF Write, IInv, BaseInv, TypeOK
  <2>4. ASSUME NEW id \in Ids, AppendWrite(o, id) \/ AppendWriteFails(o, id)
        PROVE  segment'[i] = segment[i]
    BY <2>3, <2>4 DEF AppendWrite, AppendWriteFails
  <2>5. CASE Open(o) /\ ~ ScanTruncates(o)
    BY <2>5 DEF Open, OpenFile, LockRefused, Lock, EntrySync, EntrySyncFails, ScanClean,
                ScanRefuses, TruncateSync, TruncateSyncFails, Ready, file
  <2>6. CASE AppendSync(o) \/ AppendSyncFails(o)
    BY <2>6 DEF AppendSync, AppendSyncFails, Returns
  <2>7. ASSUME NEW id \in Ids, AppendRefused(o, id) PROVE segment' = segment
    BY <2>7 DEF AppendRefused, file
  <2>8. CASE Replay(o) \/ ReplayFails(o) \/ Close(o) \/ Crash(o)
    BY <2>8 DEF Replay, ReplayFails, Close, Crash, file
  <2> QED BY <2>1, <2>2, <2>4, <2>5, <2>6, <2>7, <2>8 DEF AppendFrame
<1> QED BY <1>1, Invariance, PTL DEF Spec, NoFrameErased

-----------------------------------------------------------------------------
(* The segment keeps the promise of a journal.                              *)

\* The payloads a scan adopts, and the last of them that a host was told of.
List(s) == [i \in 1..Adopted(s) |-> s[i].id]

IsLast(s, told, n) ==
    /\ n = 0 \/ s[n].id \in told
    /\ \A i \in (n + 1)..Adopted(s) : s[i].id \notin told

Last(s, told) == CHOOSE n \in 0..Adopted(s) : IsLast(s, told, n)

LEMMA AdoptedIs ==
    ASSUME NEW s, NEW n \in 0..Capacity, InSequence(s, n),
           n < Capacity => ~ IsFrame(s[n + 1])
    PROVE  Adopted(s) = n
<1> USE CapacityAssumption
<1>1. Adopted(s) \in 0..Capacity /\ InSequence(s, Adopted(s)) /\ n <= Adopted(s)
  BY AdoptedLongest
<1>2. ASSUME n < Adopted(s) PROVE FALSE
  <2>1. n < Capacity /\ n + 1 \in 1..Adopted(s)
    BY <1>1, <1>2
  <2> QED BY <1>1, <2>1 DEF InSequence
<1> QED BY <1>1, <1>2

LEMMA ListLen ==
    ASSUME NEW s \in [Pos -> Cell]
    PROVE  /\ List(s) \in Seq(Ids) /\ Len(List(s)) = Adopted(s)
           /\ \A i \in 1..Adopted(s) : List(s)[i] = s[i].id
<1> USE CapacityAssumption
<1>1. Adopted(s) \in 0..Capacity /\ InSequence(s, Adopted(s))
  BY AdoptedLongest
<1>2. \A i \in 1..Adopted(s) : s[i].id \in Ids
  BY <1>1 DEF InSequence, IsFrame, Cell, Frame, Pos
<1>3. List(s) \in [1..Adopted(s) -> Ids] /\ Adopted(s) \in Nat
  BY <1>1, <1>2 DEF List
<1>4. List(s) \in Seq(Ids)
  BY <1>3, SeqDef
<1>5. Len(List(s)) \in Nat /\ DOMAIN List(s) = 1..Len(List(s)) /\ DOMAIN List(s) = 1..Adopted(s)
  BY <1>3, <1>4, LenProperties
<1>6. Len(List(s)) = Adopted(s)
  BY <1>3, <1>5
<1> QED BY <1>4, <1>6 DEF List

LEMMA LastIs ==
    ASSUME NEW s, NEW told
    PROVE  /\ Last(s, told) \in 0..Adopted(s) /\ IsLast(s, told, Last(s, told))
           /\ \A n \in 0..Adopted(s) : IsLast(s, told, n) => n = Last(s, told)
<1> DEFINE a == Adopted(s)
           Clear == {n \in 0..a : \A i \in (n + 1)..a : s[i].id \notin told}
<1>1. a \in Nat
  BY AdoptedLongest, CapacityAssumption
<1>2. PICK n \in Clear : \A m \in Clear : n <= m
  <2>1. a \in Clear /\ Clear \subseteq Nat
    BY <1>1
  <2> HIDE DEF Clear
  <2> QED BY <2>1, LeastExists
<1>3. IsLast(s, told, n)
  <2>1. CASE n = 0
    BY <1>2, <2>1 DEF IsLast
  <2>2. CASE n # 0
    <3>1. n - 1 \in 0..a /\ n - 1 \notin Clear
      BY <1>1, <1>2, <2>2
    <3>2. PICK i \in ((n - 1) + 1)..a : s[i].id \in told
      BY <3>1
    <3>3. i = n
      BY <1>1, <1>2, <3>2
    <3> QED BY <1>2, <3>2, <3>3 DEF IsLast
  <2> QED BY <2>1, <2>2
<1>4. Last(s, told) \in 0..a /\ IsLast(s, told, Last(s, told))
  BY <1>2, <1>3 DEF Last
<1>5. \A m, k \in 0..a : IsLast(s, told, m) /\ IsLast(s, told, k) => ~ (m < k)
  BY <1>1 DEF IsLast
<1>6. ASSUME NEW m \in 0..a, IsLast(s, told, m) PROVE m = Last(s, told)
  <2>1. ~ (m < Last(s, told)) /\ ~ (Last(s, told) < m)
    BY <1>4, <1>5, <1>6
  <2> QED BY <1>1, <1>4, <2>1
<1> QED BY <1>4, <1>6

\* A file of which a scan adopts fewer frames, all those that were reported as
\* returned among them.
LEMMA ShrinkKeeps ==
    ASSUME NEW s \in [Pos -> Cell], NEW t \in [Pos -> Cell], NEW told,
           Adopted(t) <= Adopted(s), \A i \in 1..Adopted(t) : t[i] = s[i],
           Last(s, told) <= Adopted(t)
    PROVE  /\ Last(t, told) = Last(s, told)
           /\ List(t) = SubSeq(List(s), 1, Adopted(t))
<1>1. /\ Adopted(s) \in Nat /\ Adopted(t) \in Nat /\ Last(s, told) \in 0..Adopted(t)
      /\ IsLast(s, told, Last(s, told))
  BY AdoptedLongest, LastIs, CapacityAssumption
<1>2. IsLast(t, told, Last(s, told))
  BY <1>1 DEF IsLast
<1>3. Last(t, told) = Last(s, told)
  BY <1>1, <1>2, LastIs
<1>4. /\ List(t) \in Seq(Ids) /\ Len(List(t)) = Adopted(t)
      /\ \A i \in 1..Adopted(t) : List(t)[i] = List(s)[i] /\ List(s)[i] \in Ids
  <2>1. List(s) \in Seq(Ids) /\ Len(List(s)) = Adopted(s)
    BY ListLen
  <2>2. \A i \in 1..Adopted(t) : List(s)[i] \in Ids /\ i \in 1..Adopted(s)
    BY <1>1, <2>1, ElementOfSeq
  <2> QED BY <2>2, ListLen
<1>5. /\ SubSeq(List(s), 1, Adopted(t)) \in Seq(Ids)
      /\ Len(SubSeq(List(s), 1, Adopted(t))) = Adopted(t)
      /\ \A i \in 1..Adopted(t) : SubSeq(List(s), 1, Adopted(t))[i] = List(s)[i]
  <2> DEFINE m == Adopted(t)
             sub == SubSeq(List(s), 1, m)
  <2>1. /\ sub \in Seq(Ids) /\ Len(sub) = IF 1 <= m THEN m - 1 + 1 ELSE 0
        /\ \A i \in 1..(m - 1 + 1) : sub[i] = List(s)[1 + i - 1]
    BY <1>1, <1>4, SubSeqProperties
  <2> QED BY <1>1, <2>1
<1> QED BY <1>3, <1>4, <1>5, SeqEqual


\* Outside the excepted appends, the log is what a scan adopts.
LEMMA MapsTo ==
    /\ ~ Void => Log = List(segment) /\ Confirmed = Last(segment, Returned)
    /\ Void => Log = <<>> /\ Confirmed = 0
    /\ ~ Void' => Log' = List(segment') /\ Confirmed' = Last(segment', Returned')
    /\ Void' => Log' = <<>> /\ Confirmed' = 0
BY Zenon DEF Log, Confirmed, List, Last, IsLast

\* Every step that reports no append as returned takes a suffix from the log
\* that was not confirmed, or leaves the log alone.
LEMMA ShrinkStep ==
    ASSUME IInv, IInv', ~ Void, ~ Void', Returned' = Returned,
           Adopted(segment') <= Adopted(segment),
           \A i \in 1..Adopted(segment') : segment'[i] = segment[i],
           Last(segment, Returned) <= Adopted(segment')
    PROVE  [Promise!Next]_(Promise!promise)
<1> DEFINE n == Adopted(segment')
<1>1. segment \in [Pos -> Cell] /\ segment' \in [Pos -> Cell] /\ Void' = Void
  BY DEF IInv, BaseInv, TypeOK, Void
<1>2. /\ Last(segment', Returned) = Last(segment, Returned)
      /\ List(segment') = SubSeq(List(segment), 1, n)
  BY <1>1, ShrinkKeeps
<1>3. /\ Log = List(segment) /\ Confirmed = Last(segment, Returned)
      /\ Log' = SubSeq(Log, 1, n) /\ Confirmed' = Confirmed
  BY <1>2, MapsTo
<1>4. /\ Log \in Seq(Ids) /\ Len(Log) = Adopted(segment) /\ Adopted(segment) \in Nat
      /\ n \in Nat /\ Confirmed \in Nat
  BY <1>1, <1>3, ListLen, LastIs, AdoptedLongest, CapacityAssumption
<1>5. CASE n = Len(Log)
  <2>1. Log' = Log
    BY <1>3, <1>4, <1>5, SubSeqFull
  <2> QED BY <1>1, <1>3, <2>1 DEF Promise!promise
<1>6. CASE n # Len(Log)
  <2>1. n \in Confirmed..(Len(Log) - 1)
    BY <1>3, <1>4, <1>6
  <2>2. Promise!Retract
    BY <1>1, <1>3, <2>1 DEF Promise!Retract
  <2> QED BY <2>2 DEF Promise!Next
<1> QED BY <1>5, <1>6

\* A step that leaves the adopted frames alone.
LEMMA SameStep ==
    ASSUME IInv, IInv', ~ Void, ~ Void', Returned' = Returned,
           Adopted(segment') = Adopted(segment),
           \A i \in 1..Adopted(segment) : segment'[i] = segment[i]
    PROVE  [Promise!Next]_(Promise!promise)
<1>1. Adopted(segment) \in Nat /\ Last(segment, Returned) \in 0..Adopted(segment)
  BY LastIs, AdoptedLongest, CapacityAssumption
<1>2. Adopted(segment') <= Adopted(segment) /\ Last(segment, Returned) <= Adopted(segment')
  BY <1>1
<1> QED BY <1>2, ShrinkStep

LEMMA PowerLossPromise ==
    ASSUME IInv, IInv', PowerLoss, ~ Void
    PROVE  [Promise!Next]_(Promise!promise)
<1> USE CapacityAssumption
<1> DEFINE last == Last(segment, Returned)
<1>1. /\ ~ Void' /\ Returned' = Returned /\ ~ displaced /\ ~ orphaned
      /\ segment \in [Pos -> Cell] /\ segmentDisk \in [Pos -> Cell]
      /\ Adopted(segment) \in 0..Capacity /\ InSequence(segment, Adopted(segment))
      /\ last \in 0..Adopted(segment) /\ IsLast(segment, Returned, last)
  <2>1. Returned' = Returned /\ ~ Void'
    BY DEF PowerLoss, Returned, Void, ghosts
  <2> QED BY <2>1, LastIs, AdoptedLongest DEF IInv, BaseInv, TypeOK, Void
<1>2. ASSUME NEW image \in Images(segmentDisk, segment), segment' = image
      PROVE  [Promise!Next]_(Promise!promise)
  <2>1. /\ Ordered(segment) /\ Agree(segment, segmentDisk) /\ Agree(segment, image)
        /\ \A id \in Returned : Kept(segmentDisk, id) /\ Kept(image, id)
    BY <1>1, ImageAgrees DEF IInv, FrameInv, ReturnedInv, Void, Returned
  <2>2. Adopted(image) \in 0..Capacity /\ InSequence(image, Adopted(image))
    BY AdoptedLongest
  <2>3. \A i \in 1..Adopted(image) : image[i] = segment[i]
    BY <2>1, <2>2 DEF InSequence, Agree, Pos
  <2>4. Adopted(image) <= Adopted(segment)
    <3>1. InSequence(segment, Adopted(image))
      BY <2>2, <2>3 DEF InSequence
    <3> QED BY <2>2, <3>1, AdoptedLongest
  <2>5. last <= Adopted(image)
    <3>1. CASE last = 0
      BY <2>2, <3>1
    <3>2. CASE last # 0
      <4>1. last \in Pos /\ segment[last].id \in Returned /\ IsFrame(segment[last])
        BY <1>1, <3>2 DEF IsLast, InSequence, Pos
      <4>2. PICK i \in Pos : InSequence(image, i) /\ image[i].id = segment[last].id
        BY <2>1, <4>1 DEF Kept
      <4>3. IsFrame(image[i]) /\ image[i] = segment[i]
        BY <2>1, <4>2 DEF InSequence, Agree, Pos
      <4>4. i = last
        BY <2>1, <4>1, <4>2, <4>3 DEF Ordered
      <4> QED BY <4>2, <4>4, AdoptedLongest DEF Pos
    <3> QED BY <3>1, <3>2
  <2> QED BY <1>1, <1>2, <2>3, <2>4, <2>5, ShrinkStep
<1>3. CASE entry # "durable" /\ segment' = Empty
  <2>1. Returned = {}
    BY <1>1, <1>3 DEF IInv, EntryInv
  <2>2. Adopted(segment') = 0
    <3>1. InSequence(segment', 0) /\ ~ IsFrame(segment'[0 + 1])
      BY <1>3 DEF InSequence, Empty, IsFrame, Pos
    <3> QED BY <3>1, AdoptedIs
  <2>3. last = 0
    BY <1>1, <2>1 DEF IsLast
  <2> QED BY <1>1, <2>2, <2>3, ShrinkStep
<1> QED BY <1>2, <1>3 DEF PowerLoss

\* An append written in full extends the log.
LEMMA WritePromise ==
    ASSUME IInv, IInv', NEW o \in Openers, NEW id \in Ids, AppendWrite(o, id), ~ Void, ~ Void'
    PROVE  [Promise!Next]_(Promise!promise)
<1> USE CapacityAssumption
<1> DEFINE k == known[o]
<1>1. /\ segment \in [Pos -> Cell] /\ segment' \in [Pos -> Cell]
      /\ ~ displaced /\ cursor[o] = k /\ k \in 0..Capacity /\ k < Capacity
      /\ InSequence(segment, k) /\ EndsAt(segment, k)
      /\ segment' = [segment EXCEPT ![k + 1] = [seq |-> k + 1, id |-> id]]
      /\ outcome[id] = "unused" /\ outcome' = [outcome EXCEPT ![id] = "inflight"]
      /\ outcome \in [Ids -> Outcomes]
  <2>1. /\ ~ displaced /\ cursor[o] = k /\ pc[o] = "ready" /\ k < Capacity
        /\ segment' = [segment EXCEPT ![cursor[o] + 1] = [seq |-> k + 1, id |-> id]]
        /\ outcome[id] = "unused" /\ outcome' = [outcome EXCEPT ![id] = "inflight"]
    BY DEF AppendWrite, CanAppend, Write, Void
  <2>2. InSequence(segment, k) /\ EndsAt(segment, k)
    BY <2>1 DEF IInv, StepInv, StepOf
  <2> QED BY <2>1, <2>2 DEF IInv, BaseInv, TypeOK
<1>2. /\ k + 1 \in Pos /\ segment[k + 1] = Hole /\ ~ IsFrame(segment[k + 1])
      /\ segment'[k + 1] = [seq |-> k + 1, id |-> id] /\ IsFrame(segment'[k + 1])
      /\ \A i \in Pos : i # k + 1 => segment'[i] = segment[i]
  <2>1. k + 1 \in Pos /\ segment'[k + 1] = [seq |-> k + 1, id |-> id]
    BY <1>1 DEF Pos
  <2>2. segment'[k + 1] \in Frame
    BY <2>1 DEF Frame
  <2> QED BY <1>1, <2>1, <2>2, SentinelAssumption DEF EndsAt, Pos, IsFrame
<1>3. Adopted(segment) = k
  BY <1>1, <1>2, AdoptedIs
<1>4. Adopted(segment') = k + 1
  <2>1. InSequence(segment', k + 1)
    BY <1>1, <1>2 DEF InSequence, Pos
  <2>2. k + 1 < Capacity => ~ IsFrame(segment'[(k + 1) + 1])
    BY <1>1, <1>2 DEF EndsAt, IsFrame, Pos
  <2>3. k + 1 \in 0..Capacity
    BY <1>1
  <2> QED BY <2>1, <2>2, <2>3, AdoptedIs
<1>5. Returned' = Returned /\ id \notin Returned
  BY <1>1 DEF Returned
<1>6. Last(segment', Returned) = Last(segment, Returned)
  <2>1. Last(segment, Returned) \in 0..k /\ IsLast(segment, Returned, Last(segment, Returned))
    BY <1>3, LastIs
  <2> DEFINE last == Last(segment, Returned)
  <2>2. \A i \in 1..k : segment'[i] = segment[i]
    BY <1>1, <1>2 DEF Pos
  <2>3. last = 0 \/ segment'[last].id \in Returned
    BY <1>1, <2>1, <2>2 DEF IsLast
  <2>4. ASSUME NEW i \in (last + 1)..(k + 1) PROVE segment'[i].id \notin Returned
    <3>1. CASE i = k + 1
      BY <1>2, <1>5, <3>1
    <3>2. CASE i # k + 1
      <4>1. i \in (last + 1)..k /\ i \in 1..k
        BY <1>1, <2>1, <3>2
      <4> QED BY <1>3, <2>1, <2>2, <4>1 DEF IsLast
    <3> QED BY <3>1, <3>2
  <2>5. IsLast(segment', Returned, last)
    BY <1>4, <2>3, <2>4 DEF IsLast
  <2>6. last \in 0..(k + 1)
    BY <1>1, <2>1
  <2> QED BY <1>4, <2>5, <2>6, LastIs
<1>7. /\ Log = List(segment) /\ Log' = List(segment') /\ Confirmed' = Confirmed /\ Void' = Void
  BY <1>5, <1>6, MapsTo DEF IInv, BaseInv, TypeOK, Void
<1>8. /\ Log \in Seq(Ids) /\ Len(Log) = k /\ \A i \in 1..k : Log[i] = segment[i].id
      /\ Log' \in Seq(Ids) /\ Len(Log') = k + 1 /\ \A i \in 1..(k + 1) : Log'[i] = segment'[i].id
  BY <1>1, <1>3, <1>4, <1>7, ListLen
<1>9. Log' = Append(Log, id)
  <2>1. /\ Append(Log, id) \in Seq(Ids) /\ Len(Append(Log, id)) = k + 1
        /\ \A i \in 1..k : Append(Log, id)[i] = Log[i]
        /\ Append(Log, id)[k + 1] = id
    BY <1>8, AppendProperties
  <2>2. \A i \in 1..k : Log'[i] = Log[i]
    BY <1>1, <1>2, <1>8 DEF Pos
  <2>3. Log'[k + 1] = id
    BY <1>1, <1>2, <1>8
  <2>4. \A i \in 1..(k + 1) : Append(Log, id)[i] = Log'[i]
    BY <1>1, <2>1, <2>2, <2>3
  <2> QED BY <1>8, <2>1, <2>4, SeqEqual
<1>10. \A i \in 1..Len(Log) : Log[i] # id
  <2>1. \A i \in 1..k : i \in Pos /\ IsFrame(segment[i])
    BY <1>1 DEF InSequence, Pos
  <2>2. \A i \in 1..k : segment[i].id # id
    BY <1>1, <2>1 DEF IInv, UsedInv, Live
  <2> QED BY <1>8, <2>2
<1>11. Promise!Extend
  BY <1>7, <1>9, <1>10 DEF Promise!Extend
<1> QED BY <1>11 DEF Promise!Next


\* An append that returns confirms the whole log.
LEMMA SyncPromise ==
    ASSUME IInv, IInv', NEW o \in Openers, AppendSync(o), ~ Void, ~ Void'
    PROVE  [Promise!Next]_(Promise!promise)
<1> USE CapacityAssumption
<1> DEFINE k == known[o] + 1
<1>1. /\ segment \in [Pos -> Cell] /\ segment' = segment /\ known[o] \in 0..Capacity
      /\ known[o] < Capacity /\ pending[o] \in Ids /\ Void' = Void
      /\ InSequence(segment, known[o]) /\ EndsAt(segment, k)
      /\ segment[k] = [seq |-> k, id |-> pending[o]]
      /\ Returned' = Returned \cup {pending[o]}
  <2>1. /\ pc[o] = "written" /\ segment' = segment
        /\ outcome' = [outcome EXCEPT ![pending[o]] = "returned"]
    BY DEF AppendSync, Returns
  <2>2. /\ known[o] \in 0..Capacity /\ known[o] < Capacity /\ pending[o] \in Ids
        /\ outcome \in [Ids -> Outcomes] /\ segment \in [Pos -> Cell] /\ ~ displaced /\ Void' = Void
    BY <2>1 DEF IInv, BaseInv, TypeOK, PendingInv, Void
  <2>3. /\ InSequence(segment, known[o]) /\ EndsAt(segment, k)
        /\ segment[k] = [seq |-> k, id |-> pending[o]]
    BY <2>1, <2>2 DEF IInv, StepInv, StepOf
  <2>4. Returned' = Returned \cup {pending[o]}
    BY <2>1, <2>2 DEF Returned
  <2> QED BY <2>1, <2>2, <2>3, <2>4
<1>2. Adopted(segment) = k /\ k \in 0..Capacity
  <2>1. k \in 0..Capacity /\ k \in Pos
    BY <1>1 DEF Pos
  <2>2. IsFrame(segment[k]) /\ segment[k].seq = k
    <3>1. segment[k] \in Frame
      BY <1>1, <2>1 DEF Frame
    <3> QED BY <1>1, <3>1, SentinelAssumption DEF IsFrame
  <2>3. InSequence(segment, k)
    BY <1>1, <2>2 DEF InSequence
  <2>4. k < Capacity => ~ IsFrame(segment[k + 1])
    BY <1>1 DEF EndsAt, IsFrame
  <2> QED BY <2>1, <2>3, <2>4, AdoptedIs
<1>3. Last(segment, Returned') = k
  <2>1. IsLast(segment, Returned', k)
    BY <1>1, <1>2 DEF IsLast
  <2> QED BY <1>2, <2>1, LastIs
<1>4. /\ Log = List(segment) /\ Log' = Log /\ Confirmed = Last(segment, Returned)
      /\ Confirmed' = k
  BY <1>1, <1>3, MapsTo
<1>5. Len(Log) = k /\ Confirmed \in 0..k
  BY <1>1, <1>2, <1>4, ListLen, LastIs
<1>6. CASE Confirmed = k
  BY <1>1, <1>4, <1>6 DEF Promise!promise
<1>7. CASE Confirmed # k
  <2>1. Promise!Confirm
    BY <1>1, <1>2, <1>4, <1>5, <1>7 DEF Promise!Confirm
  <2> QED BY <2>1 DEF Promise!Next
<1> QED BY <1>6, <1>7

\* Every other step of a program leaves the log alone.
LEMMA SamePromise ==
    ASSUME IInv, IInv', NEW o \in Openers,
           \/ Open(o) \/ Replay(o) \/ ReplayFails(o) \/ Close(o) \/ Crash(o)
           \/ \E id \in Ids : AppendRefused(o, id) \/ AppendWriteFails(o, id)
           \/ AppendSyncFails(o),
           ~ Void, ~ Void'
    PROVE  [Promise!Next]_(Promise!promise)
<1> USE CapacityAssumption
<1>1. /\ outcome \in [Ids -> Outcomes] /\ segment \in [Pos -> Cell]
      /\ pending \in [Openers -> Ids \cup {NoId}] /\ NoId \notin Ids
      /\ \A p \in Openers : pending[p] # NoId => outcome[pending[p]] = "inflight"
      /\ ~ displaced /\ ~ displaced'
      /\ InSequence(segment, Adopted(segment)) /\ Adopted(segment) \in 0..Capacity
  BY AdoptedLongest, SentinelAssumption
  DEF IInv, BaseInv, TypeOK, PendingInv, InflightInv, Void
<1>2. Returned' = Returned
  <2>1. CASE ScanClean(o) \/ TruncateSync(o)
    BY <1>1, <2>1 DEF ScanClean, TruncateSync, Ready, Settle, Returned
  <2>2. CASE Open(o) /\ ~ ScanClean(o) /\ ~ TruncateSync(o)
    BY <2>2 DEF Open, OpenFile, LockRefused, Lock, EntrySync, EntrySyncFails, ScanTruncates,
                ScanRefuses, TruncateSyncFails, Returned
  <2>3. CASE Replay(o) \/ ReplayFails(o) \/ Close(o)
    BY <2>3 DEF Replay, ReplayFails, Close, Returned
  <2>4. CASE Crash(o)
    BY <1>1, <2>4 DEF Crash, Returned
  <2>5. ASSUME NEW id \in Ids, AppendRefused(o, id) \/ AppendWriteFails(o, id)
        PROVE  Returned' = Returned
    BY <1>1, <2>5 DEF AppendRefused, AppendWriteFails, CanAppend, Returned
  <2>6. CASE AppendSyncFails(o)
    <3>1. pending[o] # NoId /\ outcome[pending[o]] = "inflight"
      BY <2>6, <1>1 DEF AppendSyncFails, IInv, BaseInv, PendingInv
    <3> QED BY <1>1, <2>6, <3>1 DEF AppendSyncFails, Returned
  <2> QED BY <2>1, <2>2, <2>3, <2>4, <2>5, <2>6
<1>3. CASE segment' = segment
  BY <1>2, <1>3, SameStep
<1>4. CASE ScanTruncates(o)
  <2>1. /\ Adopted(segment') = Adopted(segment)
        /\ \A i \in Pos : IsFrame(segment[i]) => segment'[i] = segment[i]
    BY <1>1, <1>4, TruncateAdopts DEF ScanTruncates
  <2>2. \A i \in 1..Adopted(segment) : segment'[i] = segment[i]
    BY <1>1, <2>1 DEF InSequence, Pos
  <2> QED BY <1>2, <2>1, <2>2, SameStep
<1>5. ASSUME NEW id \in Ids, NEW part \in Broken, AppendWriteFails(o, id), Write(o, part)
      PROVE  [Promise!Next]_(Promise!promise)
  <2> DEFINE k == known[o]
  <2>1. /\ cursor[o] = k /\ k \in 0..Capacity /\ k < Capacity
        /\ InSequence(segment, k) /\ EndsAt(segment, k)
        /\ segment' = [segment EXCEPT ![k + 1] = part]
    <3>1. /\ cursor[o] = k /\ pc[o] = "ready" /\ k < Capacity
          /\ segment' = [segment EXCEPT ![cursor[o] + 1] = part]
      BY <1>1, <1>5 DEF AppendWriteFails, CanAppend, Write
    <3>2. InSequence(segment, k) /\ EndsAt(segment, k)
      BY <1>1, <3>1 DEF IInv, StepInv, StepOf
    <3> QED BY <3>1, <3>2 DEF IInv, BaseInv, TypeOK
  <2>2. /\ k + 1 \in Pos /\ ~ IsFrame(segment[k + 1]) /\ ~ IsFrame(segment'[k + 1])
        /\ \A i \in 1..k : segment'[i] = segment[i]
    BY <1>1, <2>1 DEF EndsAt, Pos, IsFrame
  <2>3. Adopted(segment) = k
    BY <2>1, <2>2, AdoptedIs
  <2>4. InSequence(segment', k)
    BY <2>1, <2>2 DEF InSequence
  <2>5. Adopted(segment') = k
    BY <2>1, <2>2, <2>4, AdoptedIs
  <2> QED BY <1>2, <2>2, <2>3, <2>5, SameStep
<1>6. segment' = segment \/ ScanTruncates(o)
      \/ \E id \in Ids : \E part \in Broken : AppendWriteFails(o, id) /\ Write(o, part)
  <2>1. CASE Open(o)
    BY <2>1 DEF Open, OpenFile, LockRefused, Lock, EntrySync, EntrySyncFails, ScanClean,
                ScanRefuses, TruncateSync, TruncateSyncFails, Ready, file
  <2>2. CASE Replay(o) \/ ReplayFails(o) \/ Close(o) \/ Crash(o)
    BY <2>2 DEF Replay, ReplayFails, Close, Crash, file
  <2>3. ASSUME NEW id \in Ids, AppendRefused(o, id) PROVE segment' = segment
    BY <2>3 DEF AppendRefused, file
  <2>4. ASSUME NEW id \in Ids, AppendWriteFails(o, id)
        PROVE  segment' = segment \/ \E part \in Broken : Write(o, part)
    BY <2>4 DEF AppendWriteFails
  <2>5. CASE AppendSyncFails(o)
    BY <2>5 DEF AppendSyncFails
  <2> QED BY <2>1, <2>2, <2>3, <2>4, <2>5
<1> QED BY <1>3, <1>4, <1>5, <1>6

LEMMA PromiseInit == Init => Promise!Init
<1> SUFFICES ASSUME Init PROVE Promise!Init
  OBVIOUS
<1>1. segment \in [Pos -> Cell] /\ ~ Void /\ Void = FALSE
  BY DEF Init, Empty, Cell, Void
<1>2. Adopted(segment) = 0
  <2>1. InSequence(segment, 0) /\ ~ IsFrame(segment[0 + 1]) /\ 0 \in 0..Capacity
    BY CapacityAssumption DEF Init, InSequence, Empty, IsFrame, Pos
  <2> QED BY <2>1, AdoptedIs
<1>3. Log \in Seq(Ids) /\ Len(Log) = 0 /\ Confirmed = 0
  BY <1>1, <1>2, ListLen, LastIs, MapsTo
<1>4. Log = <<>>
  BY <1>3, EmptySeq
<1> QED BY <1>1, <1>3, <1>4 DEF Promise!Init

LEMMA PromiseStep == IInv /\ IInv' /\ [Next]_vars => [Promise!Next]_(Promise!promise)
<1> SUFFICES ASSUME IInv, IInv', [Next]_vars PROVE [Promise!Next]_(Promise!promise)
  OBVIOUS
<1>1. CASE UNCHANGED vars
  BY <1>1 DEF vars, file, ghosts, Promise!promise, Log, Confirmed, Void, Adopted, InSequence,
              Returned
<1>2. CASE Next /\ Void
  <2>0. {displaced, orphaned, displaced', orphaned'} \subseteq BOOLEAN
    BY DEF IInv, BaseInv, TypeOK
  <2>1. /\ displaced => displaced'
        /\ orphaned => orphaned'
    <3>1. CASE PowerLoss
      BY <3>1 DEF PowerLoss, ghosts
    <3>2. ASSUME NEW o \in Openers, Open(o)
          PROVE  UNCHANGED <<displaced, orphaned>>
      BY <3>2 DEF Open, OpenFile, LockRefused, Lock, EntrySync, EntrySyncFails, ScanClean,
                  ScanTruncates, ScanRefuses, TruncateSync, TruncateSyncFails, Ready, ghosts
    <3>3. ASSUME NEW o \in Openers, AppendFrame(o)
          PROVE  (displaced => displaced') /\ (orphaned => orphaned')
      <4>1. ASSUME NEW id \in Ids, AppendRefused(o, id)
            PROVE  UNCHANGED <<displaced, orphaned>>
        BY <4>1 DEF AppendRefused, ghosts
      <4>2. ASSUME NEW id \in Ids, AppendWrite(o, id) \/ AppendWriteFails(o, id)
            PROVE  (displaced => displaced') /\ orphaned' = orphaned
        <5>1. \/ displaced' = (displaced \/ cursor[o] # known[o])
              \/ displaced' = displaced
          BY <4>2 DEF AppendWrite, AppendWriteFails, Write
        <5>2. orphaned' = orphaned
          BY <4>2 DEF AppendWrite, AppendWriteFails
        <5> QED BY <2>0, <5>1, <5>2
      <4>3. CASE AppendSync(o) \/ AppendSyncFails(o)
        <5>1. \/ orphaned' = (orphaned \/ entry # "durable")
              \/ orphaned' = orphaned
          BY <4>3 DEF AppendSync, AppendSyncFails, Returns, ghosts
        <5>2. displaced' = displaced
          BY <4>3 DEF AppendSync, AppendSyncFails, Returns, ghosts
        <5> QED BY <2>0, <5>1, <5>2
      <4> QED BY <3>3, <4>1, <4>2, <4>3 DEF AppendFrame
    <3>4. ASSUME NEW o \in Openers, Replay(o) \/ ReplayFails(o) \/ Close(o) \/ Crash(o)
          PROVE  UNCHANGED <<displaced, orphaned>>
      BY <3>4 DEF Replay, ReplayFails, Close, Crash, ghosts
    <3> QED BY <1>2, <3>1, <3>2, <3>3, <3>4 DEF Next
  <2>2. Void' /\ Void' = Void
    BY <1>2, <2>1 DEF Void, IInv, BaseInv, TypeOK
  <2> QED BY <1>2, <2>2, MapsTo DEF Promise!promise
<1>3. CASE ~ Void /\ Void'
  <2>1. Void' = TRUE
    BY <1>3 DEF Void, IInv, BaseInv, TypeOK
  <2>2. Promise!Forfeit
    BY <1>3, <2>1, MapsTo DEF Promise!Forfeit
  <2> QED BY <1>3, <2>2 DEF Promise!Next
<1>4. CASE Next /\ ~ Void /\ ~ Void'
  <2>1. CASE PowerLoss
    BY <1>4, <2>1, PowerLossPromise
  <2>2. ASSUME NEW o \in Openers, AppendFrame(o) PROVE [Promise!Next]_(Promise!promise)
    BY <1>4, <2>2, WritePromise, SyncPromise, SamePromise DEF AppendFrame
  <2>3. ASSUME NEW o \in Openers, Open(o) \/ Replay(o) \/ ReplayFails(o) \/ Close(o) \/ Crash(o)
        PROVE  [Promise!Next]_(Promise!promise)
    BY <1>4, <2>3, SamePromise
  <2> QED BY <1>4, <2>1, <2>2, <2>3 DEF Next
<1> QED BY <1>1, <1>2, <1>3, <1>4

\* A v1 segment keeps the promise of a journal: what a reopen adopts is a log of
\* distinct payloads whose confirmed prefix stays (append, scan_segment).
THEOREM KeepsPromise == Spec => ImplementsPromise
BY PromiseInit, PromiseStep, Invariance, PTL DEF Spec, ImplementsPromise, Promise!Spec
=============================================================================
