-------------------------- MODULE PackedStoreProofs --------------------------
(***************************************************************************)
(* For any handles, nodes, jobs and limits: the packed store never shows a *)
(* head it cannot open, publications and reclamations do not disturb each  *)
(* other, and what was published by a finished call stays published.       *)
(***************************************************************************)
EXTENDS PackedStore, FiniteSetTheorems, TLAPS

\* What a directory offers to a handle that reads its head now.
Held(d) == d.loose \cup UNION d.head

TypeInv ==
    /\ dir \in Directories /\ kept \subseteq Directories /\ dir \in kept
    /\ temps \subseteq Temps
    /\ resolver \in [Handles -> Catalogs \cup {Unknown}]
    /\ task \in [Handles -> Task]
    /\ faults \in 0..MaxFaults
    /\ own \in [Handles -> SUBSET Nodes]
    /\ acked \subseteq Nodes /\ settled \subseteq acked /\ exposed \subseteq Nodes

\* The lock and the lease: a reclamation is alone, and so is a mutation.
LockInv ==
    /\ Deleting # {} => Locked = {}
    /\ \A g, h \in Deleting : g = h
    /\ \A g, h \in Writers : g = h

\* Where an operation is says what it is.
KindInv(h) ==
    /\ task[h].pc \in {"plan", "packs", "head", "barrier"} =>
          task[h].kind \in Kinds /\ resolver[h] # Unknown
    /\ task[h].pc \in {"waiting", "loose", "rebuild", "link"} => task[h].kind \in Kinds
    /\ task[h].pc \in {"rebuild", "link"} => task[h].kind = "remove"
    /\ At(h, "opening") => task[h].kind \in Kinds \cup {"lookup"}

\* Every catalog in memory is covered by the head, which only grows.
CatalogInv(h) ==
    /\ resolver[h] # Unknown => UNION resolver[h] \subseteq UNION dir.head
    /\ At(h, "opening") => /\ Opens(task[h].seen, dir)
                           /\ UNION task[h].seen \subseteq UNION dir.head

\* A plan adds the job to the catalog it starts from, its files are there when
\* their publication has succeeded, and it is the head at the barrier.
PlanInv(h) ==
    /\ task[h].pc \in {"packs", "head", "barrier"} =>
          UNION task[h].plan = (UNION resolver[h]) \cup task[h].job
    /\ task[h].pc \in {"packs", "head"} =>
          task[h].plan \ (resolver[h] \cup task[h].left) \subseteq dir.packs
    /\ At(h, "head") => task[h].plan \in dir.catalogs /\ task[h].left = {}
    /\ At(h, "barrier") => dir.head = task[h].plan

\* The part of a job that is not to do is in loose files; what its nodes refer
\* to is in the job or was there before.
JobInv(h) ==
    task[h].kind \in Kinds =>
        /\ task[h].todo \subseteq task[h].job
        /\ task[h].job \ task[h].todo \subseteq dir.loose
        /\ \A n \in task[h].job : Kids[n] \subseteq task[h].job \cup Held(dir)
        /\ At(h, "loose") /\ task[h].kind = "insert" => task[h].job \subseteq exposed

\* A handle can read what it was told, whenever it reads the head.
OwnInv(h) ==
    /\ own[h] \subseteq Readable(h)
    /\ At(h, "opening") => own[h] \subseteq dir.loose \cup UNION task[h].seen

\* What a reclamation will delete is not what the head reaches.
DoomedInv(h) ==
    At(h, "deleting") =>
        \A f \in task[h].doomed :
            /\ f[1] = "pack" => f[2] \notin dir.head
            /\ f[1] = "catalog" => f[2] # dir.head

HandleInv(h) ==
    /\ KindInv(h) /\ CatalogInv(h) /\ PlanInv(h) /\ JobInv(h) /\ OwnInv(h)
    /\ DoomedInv(h)

\* Every directory a power loss may leave holds what was settled, and the
\* children of what it holds.
HeldInv ==
    /\ \A d \in kept : settled \subseteq Held(d)
    /\ \A d \in kept : \A n \in Held(d) \ exposed : Kids[n] \subseteq Held(d)

IInv ==
    /\ TypeInv /\ LockInv /\ AuthorityOpens /\ HeldInv
    /\ \A h \in Handles : HandleInv(h)

-----------------------------------------------------------------------------
(* What most steps have in common.                                          *)

\* A directory that replaces another one without losing nodes.
Grows ==
    /\ dir' \in Directories /\ dir' \in kept' /\ kept' \subseteq kept \cup {dir'}
    /\ dir.loose \subseteq dir'.loose /\ UNION dir.head \subseteq UNION dir'.head
    /\ Opens(dir'.head, dir')

FilesStay == dir.packs \subseteq dir'.packs /\ dir.catalogs \subseteq dir'.catalogs

\* Only h does something.
OnlyMoves(h) ==
    \A g \in Handles \ {h} :
        task'[g] = task[g] /\ resolver'[g] = resolver[g] /\ own'[g] = own[g]

\* A step of h that changes the head, or forgets exposed nodes, holds the lock
\* or the lease.
Entitled(h) ==
    /\ FilesStay \/ h \in Deleting
    /\ dir'.head = dir.head \/ h \in Locked \cap Writers
    /\ exposed \subseteq exposed' \/ h \in Writers

LEMMA HeldMonotone == Grows => Held(dir) \subseteq Held(dir')
BY DEF Grows, Held

\* The kinds that publish are not those that read or reclaim.
LEMMA KindsAre == Kinds \subseteq {"insert", "construct", "remove"}
BY StoreAssumption

\* The handles that do nothing keep what they rely on.
LEMMA OthersKeep ==
    ASSUME IInv, Grows, NEW h \in Handles, OnlyMoves(h), Entitled(h),
           NEW g \in Handles \ {h}
    PROVE  HandleInv(g)'
<1>1. HandleInv(g) /\ task'[g] = task[g] /\ resolver'[g] = resolver[g] /\ own'[g] = own[g]
  BY DEF IInv, OnlyMoves
<1>2. g \in Locked \cup Writers => dir'.head = dir.head \/ g \notin Writers
  BY DEF Entitled, IInv, LockInv
<1>3. g \in Locked => FilesStay
  BY DEF Entitled, IInv, LockInv
<1>4. g \in Deleting => dir'.head = dir.head
  BY DEF Entitled, IInv, LockInv
<1>5. g \in Writers => exposed \subseteq exposed'
  BY DEF Entitled, IInv, LockInv
<1>6. KindInv(g)'
  BY <1>1 DEF HandleInv, KindInv, At
<1>7. CatalogInv(g)'
  BY <1>1, <1>3 DEF HandleInv, CatalogInv, At, Grows, FilesStay, Opens, Locked
<1>8. PlanInv(g)'
  BY <1>1, <1>2, <1>3 DEF HandleInv, PlanInv, KindInv, At, FilesStay, Locked, Writers
<1>9. JobInv(g)'
  BY <1>1, <1>5, HeldMonotone DEF HandleInv, JobInv, At, Grows, Writers
<1>10. OwnInv(g)'
  BY <1>1 DEF HandleInv, OwnInv, At, Grows, Readable
<1>11. DoomedInv(g)'
  BY <1>1, <1>4 DEF HandleInv, DoomedInv, At, Deleting
<1> QED BY <1>6, <1>7, <1>8, <1>9, <1>10, <1>11 DEF HandleInv

\* The lock and the lease are kept by a handle that takes them when they are
\* free.
LEMMA LockKeeps ==
    ASSUME IInv, NEW h \in Handles, OnlyMoves(h),
           task'[h].kind \in Kinds => h \in Writers \/ Writers = {},
           h \in Locked' => h \in Locked \/ Deleting = {},
           h \in Deleting' => h \in Deleting \/ (Locked = {} /\ Deleting = {}),
           h \notin Locked' \cap Deleting'
    PROVE  LockInv'
<1>1. \A g \in Handles \ {h} :
          /\ g \in Locked' <=> g \in Locked
          /\ g \in Deleting' <=> g \in Deleting
          /\ g \in Writers' <=> g \in Writers
  BY DEF OnlyMoves, Locked, Deleting, Writers, At
<1>2. Locked' \subseteq Handles /\ Deleting' \subseteq Handles /\ Writers' \subseteq Handles
  BY DEF Locked, Deleting, Writers
<1>3. Deleting' # {} => Locked' = {}
  BY <1>1, <1>2 DEF IInv, LockInv
<1>4. \A f, g \in Deleting' : f = g
  BY <1>1, <1>2 DEF IInv, LockInv
<1>5. \A f, g \in Writers' : f = g
  <2>1. h \in Writers' => h \in Writers \/ Writers = {}
    BY DEF Writers
  <2> QED BY <1>1, <1>2, <2>1 DEF IInv, LockInv
<1> QED BY <1>3, <1>4, <1>5 DEF LockInv

\* Nodes that appear are exposed, or have their children; what is settled is
\* there and has its children, and nothing else is kept.
LEMMA HeldKeeps ==
    ASSUME IInv, Grows, NEW J,
           \A n \in Held(dir') \ Held(dir) : n \in exposed' \/ Kids[n] \subseteq Held(dir'),
           \/ settled' = settled /\ exposed \subseteq exposed'
           \/ /\ kept' = {dir'} /\ settled' = settled \cup J /\ exposed' = exposed \ J
              /\ J \subseteq Held(dir') /\ \A n \in J : Kids[n] \subseteq Held(dir')
    PROVE  HeldInv'
<1>1. Held(dir) \subseteq Held(dir') /\ dir \in kept
  BY HeldMonotone DEF IInv, TypeInv
<1>2. settled \subseteq Held(dir) /\ \A n \in Held(dir) \ exposed : Kids[n] \subseteq Held(dir)
  BY <1>1 DEF IInv, HeldInv
<1>3. settled' \subseteq Held(dir')
  BY <1>1, <1>2
<1>4. \A n \in Held(dir') \ exposed' : Kids[n] \subseteq Held(dir')
  BY <1>1, <1>2
<1>5. CASE settled' = settled /\ exposed \subseteq exposed'
  <2>1. ASSUME NEW d \in kept', d # dir'
        PROVE  /\ settled' \subseteq Held(d)
               /\ \A n \in Held(d) \ exposed' : Kids[n] \subseteq Held(d)
    BY <2>1, <1>5 DEF Grows, IInv, HeldInv
  <2>2. \A d \in kept' : settled' \subseteq Held(d)
    BY <2>1, <1>3
  <2>3. \A d \in kept' : \A n \in Held(d) \ exposed' : Kids[n] \subseteq Held(d)
    BY <2>1, <1>4
  <2>4. \A d : (Held(d))' = Held(d)
    BY DEF Held
  <2> QED BY <2>2, <2>3 DEF HeldInv, Held
<1>6. CASE kept' = {dir'}
  BY <1>3, <1>4, <1>6 DEF HeldInv, Held
<1> QED BY <1>5, <1>6

LEMMA HeadsKeep ==
    ASSUME AuthorityOpens, Grows
    PROVE  AuthorityOpens'
BY DEF AuthorityOpens, Grows, Opens

LEMMA StepKeeps ==
    ASSUME IInv, NEW h \in Handles, Grows, OnlyMoves(h), Entitled(h),
           TypeInv', LockInv', HeldInv', HandleInv(h)'
    PROVE  IInv'
<1>1. AuthorityOpens'
  BY HeadsKeep DEF IInv
<1>2. \A g \in Handles : HandleInv(g)'
  BY OthersKeep
<1> QED BY <1>1, <1>2 DEF IInv

\* A step that leaves the directory alone.
LEMMA SameDirectoryGrows ==
    ASSUME IInv, SameDirectory
    PROVE  Grows /\ FilesStay /\ dir' = dir /\ Held(dir') = Held(dir)
BY DEF IInv, TypeInv, AuthorityOpens, SameDirectory, Grows, FilesStay, Held, Opens

LEMMA QuietStep ==
    ASSUME IInv, NEW h \in Handles, SameDirectory, OnlyMoves(h),
           settled' = settled, exposed \subseteq exposed',
           TypeInv', LockInv', HandleInv(h)'
    PROVE  IInv'
<1>1. Grows /\ Entitled(h) /\ Held(dir') = Held(dir)
  BY SameDirectoryGrows DEF Entitled
<1>2. HeldInv'
  BY <1>1, HeldKeeps
<1> QED BY <1>1, <1>2, StepKeeps

\* The fields of a task.
LEMMA TaskFields ==
    ASSUME NEW t \in Task
    PROVE  /\ t.job \subseteq Nodes /\ t.todo \subseteq Nodes
           /\ t.left \subseteq Packs /\ t.plan \in Catalogs /\ t.seen \in Catalogs
           /\ \A w \in {"idle", "opening", "plan", "packs", "head", "barrier", "waiting",
                        "loose", "rebuild", "link", "deleting"} :
                  LET u == [t EXCEPT !.pc = w]
                  IN  /\ u \in Task /\ u.pc = w /\ u.kind = t.kind
                      /\ u.job = t.job /\ u.todo = t.todo /\ u.left = t.left
                      /\ u.plan = t.plan /\ u.seen = t.seen /\ u.doomed = t.doomed
BY DEF Task

LEMMA IdleTask == Idle \in Task /\ Idle.pc = "idle" /\ Idle.kind \notin Kinds
BY KindsAre DEF Idle, Task, Catalogs

\* Giving up an operation releases the lock and the lease and relies on nothing
\* but what the handle was told.
LEMMA IdleHandle ==
    ASSUME IInv, NEW h \in Handles, task'[h] = Idle, OwnInv(h)',
           resolver'[h] # Unknown => UNION resolver'[h] \subseteq UNION dir'.head
    PROVE  HandleInv(h)'
BY IdleTask DEF HandleInv, KindInv, CatalogInv, PlanInv, JobInv, DoomedInv, At

LEMMA IdleLock ==
    ASSUME IInv, NEW h \in Handles, OnlyMoves(h), task'[h] = Idle
    PROVE  LockInv'
<1>1. h \notin Locked' /\ h \notin Deleting' /\ task'[h].kind \notin Kinds
  BY IdleTask DEF Locked, Deleting
<1> QED BY <1>1, LockKeeps

-----------------------------------------------------------------------------
(* Beginning an operation.                                                  *)

\* The task of a handle that has the lock, or waits for it.
LEMMA BeginTask ==
    ASSUME IInv, NEW k \in Kinds \cup {"lookup", "reclaim"}, NEW J \in SUBSET Nodes,
           NEW w \in {"opening", "plan", "waiting", "rebuild"}, NEW c \in Catalogs
    PROVE  [Idle EXCEPT !.pc = w, !.kind = k, !.job = J, !.todo = J, !.seen = c] \in Task
BY IdleTask DEF Task, Idle

LEMMA BeginPublicationStep ==
    ASSUME IInv, NEW h \in Handles, NEW k, NEW J \in Jobs, BeginPublication(h, k, J)
    PROVE  IInv'
<1>1. /\ k \in Kinds /\ J \in SUBSET Nodes /\ Writers = {}
      /\ SameDirectory /\ UNCHANGED <<own, acked, settled, exposed, temps, resolver, faults>>
      /\ \A n \in J : Kids[n] \subseteq J \cup Readable(h)
  BY StoreAssumption DEF BeginPublication, NoNews
<1>2. PICK w \in {"opening", "plan", "waiting"}, c \in Catalogs :
          /\ task' = [task EXCEPT ![h] =
                 [Idle EXCEPT !.pc = w, !.kind = k, !.job = J, !.todo = J, !.seen = c]]
          /\ w = "opening" => c = dir.head /\ resolver[h] = Unknown
          /\ w = "plan" => resolver[h] # Unknown
          /\ w # "waiting" => Deleting = {}
  <2>1. Idle.seen \in Catalogs /\ dir.head \in Catalogs
    BY DEF Idle, Catalogs, IInv, TypeInv, Directories
  <2>2. CASE h \in Packers /\ resolver[h] = Unknown
    BY <2>1, <2>2 DEF BeginPublication, Lock, Move, Idle
  <2>3. CASE h \in Packers /\ resolver[h] # Unknown
    BY <2>1, <2>3 DEF BeginPublication, Lock, Move, Idle
  <2>4. CASE h \notin Packers
    BY <2>1, <2>4 DEF BeginPublication, Move, Idle
  <2> QED BY <2>2, <2>3, <2>4
<1> DEFINE t == [Idle EXCEPT !.pc = w, !.kind = k, !.job = J, !.todo = J, !.seen = c]
<1>3. t \in Task
  BY <1>1, BeginTask
<1>4. /\ t.pc = w /\ t.kind = k /\ t.job = J /\ t.todo = J /\ t.seen = c
  BY DEF Idle
<1>5. task' = [task EXCEPT ![h] = t] /\ task'[h] = t
  BY <1>2 DEF IInv, TypeInv
<1> HIDE DEF t
<1>6. OnlyMoves(h)
  BY <1>1, <1>5 DEF OnlyMoves, IInv, TypeInv
<1>7. TypeInv'
  BY <1>1, <1>3, <1>5 DEF IInv, TypeInv, SameDirectory
<1>8. LockInv'
  BY <1>1, <1>2, <1>4, <1>5, <1>6, LockKeeps DEF Locked, Deleting
<1>9. HandleInv(h)'
  <2>1. dir' = dir /\ Opens(dir.head, dir)
    BY <1>1 DEF SameDirectory, IInv, TypeInv, AuthorityOpens
  <2>2. HandleInv(h)
    BY DEF IInv
  <2>3. Readable(h) \subseteq Held(dir)
    BY <2>2 DEF HandleInv, CatalogInv, Readable, Held
  <2>4. KindInv(h)' /\ PlanInv(h)' /\ DoomedInv(h)'
    BY <1>1, <1>2, <1>4, <1>5 DEF KindInv, PlanInv, DoomedInv, At
  <2>5. CatalogInv(h)'
    BY <1>1, <1>2, <1>4, <1>5, <2>1, <2>2 DEF HandleInv, CatalogInv, At, Opens
  <2>6. JobInv(h)'
    BY <1>1, <1>2, <1>4, <1>5, <2>1, <2>3 DEF JobInv, At, Held
  <2>7. OwnInv(h)'
    BY <1>1, <1>2, <1>4, <1>5, <2>1, <2>2 DEF HandleInv, OwnInv, At, Readable
  <2> QED BY <2>4, <2>5, <2>6, <2>7 DEF HandleInv
<1> QED BY <1>1, <1>6, <1>7, <1>8, <1>9, QuietStep

LEMMA BeginLookupStep ==
    ASSUME IInv, NEW h \in Handles, BeginLookup(h)
    PROVE  IInv'
<1> DEFINE t == [Idle EXCEPT !.pc = "opening", !.kind = "lookup", !.seen = dir.head]
<1>1. /\ SameDirectory /\ UNCHANGED <<own, acked, settled, exposed, temps, resolver, faults>>
      /\ resolver[h] = Unknown /\ Deleting = {}
  BY DEF BeginLookup, NoNews, Lock
<1>2. task' = [task EXCEPT ![h] = t] /\ task'[h] = t
  BY DEF BeginLookup, Lock, Move, IInv, TypeInv, Idle
<1>3. t \in Task /\ t.pc = "opening" /\ t.kind = "lookup" /\ t.seen = dir.head
  BY IdleTask DEF IInv, TypeInv, Directories, Task, Idle
<1>4. "lookup" \notin Kinds
  BY KindsAre
<1> HIDE DEF t
<1>5. OnlyMoves(h)
  BY <1>1, <1>2 DEF OnlyMoves, IInv, TypeInv
<1>6. TypeInv'
  BY <1>1, <1>2, <1>3 DEF IInv, TypeInv, SameDirectory
<1>7. LockInv'
  BY <1>1, <1>2, <1>3, <1>4, <1>5, LockKeeps DEF Locked, Deleting
<1>8. HandleInv(h)'
  <2>1. dir' = dir /\ Opens(dir.head, dir) /\ HandleInv(h)
    BY <1>1 DEF SameDirectory, IInv, TypeInv, AuthorityOpens
  <2>2. KindInv(h)' /\ PlanInv(h)' /\ DoomedInv(h)' /\ JobInv(h)'
    BY <1>2, <1>3, <1>4 DEF KindInv, PlanInv, DoomedInv, JobInv, At
  <2>3. CatalogInv(h)' /\ OwnInv(h)'
    BY <1>1, <1>2, <1>3, <2>1 DEF HandleInv, CatalogInv, OwnInv, Readable, At, Opens
  <2> QED BY <2>2, <2>3 DEF HandleInv
<1> QED BY <1>1, <1>5, <1>6, <1>7, <1>8, QuietStep

LEMMA BeginRemoveStep ==
    ASSUME IInv, NEW h \in Handles, NEW J \in Jobs, BeginRemove(h, J)
    PROVE  IInv'
<1> DEFINE t == [Idle EXCEPT !.pc = "rebuild", !.kind = "remove", !.job = J, !.todo = J]
<1>1. /\ SameDirectory /\ UNCHANGED <<own, acked, settled, exposed, temps, resolver, faults>>
      /\ Writers = {} /\ "remove" \in Kinds /\ J \subseteq Nodes
      /\ \A n \in J : Kids[n] \subseteq J \cup Readable(h)
  BY StoreAssumption DEF BeginRemove, NoNews
<1>2. task' = [task EXCEPT ![h] = t] /\ task'[h] = t
  BY DEF BeginRemove, Move, IInv, TypeInv
<1>3. t \in Task /\ t.pc = "rebuild" /\ t.kind = "remove" /\ t.job = J /\ t.todo = J
  BY IdleTask, <1>1 DEF Task, Idle
<1> HIDE DEF t
<1>4. OnlyMoves(h)
  BY <1>1, <1>2 DEF OnlyMoves, IInv, TypeInv
<1>5. TypeInv'
  BY <1>1, <1>2, <1>3 DEF IInv, TypeInv, SameDirectory
<1>6. LockInv'
  BY <1>1, <1>2, <1>3, <1>4, LockKeeps DEF Locked, Deleting
<1>7. HandleInv(h)'
  <2>1. dir' = dir /\ HandleInv(h)
    BY <1>1 DEF SameDirectory, IInv
  <2>2. Readable(h) \subseteq Held(dir)
    BY <2>1 DEF HandleInv, CatalogInv, Readable, Held
  <2>3. KindInv(h)' /\ PlanInv(h)' /\ DoomedInv(h)'
    BY <1>1, <1>2, <1>3 DEF KindInv, PlanInv, DoomedInv, At
  <2>4. CatalogInv(h)' /\ OwnInv(h)'
    BY <1>1, <1>2, <1>3, <2>1 DEF HandleInv, CatalogInv, OwnInv, Readable, At
  <2>5. JobInv(h)'
    BY <1>1, <1>2, <1>3, <2>1, <2>2 DEF JobInv, At, Held
  <2> QED BY <2>3, <2>4, <2>5 DEF HandleInv
<1> QED BY <1>1, <1>4, <1>5, <1>6, <1>7, QuietStep

LEMMA BeginReclaimStep ==
    ASSUME IInv, NEW h \in Handles, BeginReclaim(h)
    PROVE  IInv'
<1> DEFINE t == [Idle EXCEPT !.pc = "deleting", !.kind = "reclaim", !.doomed = Garbage]
<1>1. /\ SameDirectory /\ UNCHANGED <<own, acked, settled, exposed, temps, resolver, faults>>
      /\ Locked = {} /\ Deleting = {}
  BY DEF BeginReclaim, NoNews
<1>2. task' = [task EXCEPT ![h] = t] /\ task'[h] = t
  BY DEF BeginReclaim, Move, IInv, TypeInv
<1>3. Garbage \subseteq (({"pack"} \X Packs) \cup ({"catalog"} \X Catalogs) \cup ({"temp"} \X Temps))
  BY DEF Garbage, IInv, TypeInv, Directories
<1>4. t \in Task /\ t.pc = "deleting" /\ t.kind = "reclaim" /\ t.doomed = Garbage
  BY IdleTask, <1>3 DEF Task, Idle
<1>5. "reclaim" \notin Kinds
  BY KindsAre
<1> HIDE DEF t
<1>6. OnlyMoves(h)
  BY <1>1, <1>2 DEF OnlyMoves, IInv, TypeInv
<1>7. TypeInv'
  BY <1>1, <1>2, <1>4 DEF IInv, TypeInv, SameDirectory
<1>8. LockInv'
  BY <1>1, <1>2, <1>4, <1>5, <1>6, LockKeeps DEF Locked
<1>9. HandleInv(h)'
  <2>1. dir' = dir /\ HandleInv(h)
    BY <1>1 DEF SameDirectory, IInv
  <2>2. KindInv(h)' /\ PlanInv(h)' /\ JobInv(h)'
    BY <1>2, <1>4, <1>5 DEF KindInv, PlanInv, JobInv, At
  <2>3. CatalogInv(h)' /\ OwnInv(h)'
    BY <1>1, <1>2, <1>4, <2>1 DEF HandleInv, CatalogInv, OwnInv, Readable, At
  <2>4. DoomedInv(h)'
    BY <1>2, <1>4, <2>1 DEF DoomedInv, Garbage
  <2> QED BY <2>2, <2>3, <2>4 DEF HandleInv
<1> QED BY <1>1, <1>6, <1>7, <1>8, <1>9, QuietStep

-----------------------------------------------------------------------------
(* Steps that do not change the directory.                                  *)

LEMMA LockLooseStep ==
    ASSUME IInv, NEW h \in Handles, LockLoose(h)
    PROVE  IInv'
<1> DEFINE t == [task[h] EXCEPT !.pc = "loose"]
<1>1. /\ SameDirectory /\ UNCHANGED <<own, acked, settled, temps, resolver, faults>>
      /\ At(h, "waiting") /\ Deleting = {}
      /\ exposed' = IF task[h].kind = "insert" THEN exposed \cup task[h].job ELSE exposed
  BY DEF LockLoose
<1>2. task' = [task EXCEPT ![h] = t] /\ task'[h] = t
  BY DEF LockLoose, Step, Move, IInv, TypeInv
<1>3. /\ task[h] \in Task /\ task[h].job \subseteq Nodes
      /\ t \in Task /\ t.pc = "loose" /\ t.kind = task[h].kind
      /\ t.job = task[h].job /\ t.todo = task[h].todo
  BY TaskFields DEF IInv, TypeInv
<1> HIDE DEF t
<1>4. OnlyMoves(h)
  BY <1>1, <1>2 DEF OnlyMoves, IInv, TypeInv
<1>5. TypeInv'
  BY <1>1, <1>2, <1>3 DEF IInv, TypeInv, SameDirectory
<1>6. LockInv'
  BY <1>1, <1>2, <1>3, <1>4, LockKeeps DEF Locked, Deleting, Writers
<1>7. HandleInv(h)'
  <2>1. dir' = dir /\ HandleInv(h)
    BY <1>1 DEF SameDirectory, IInv
  <2>2. KindInv(h)' /\ PlanInv(h)' /\ DoomedInv(h)'
    BY <1>1, <1>2, <1>3, <2>1 DEF HandleInv, KindInv, PlanInv, DoomedInv, At
  <2>3. CatalogInv(h)' /\ OwnInv(h)'
    BY <1>1, <1>2, <1>3, <2>1 DEF HandleInv, CatalogInv, OwnInv, Readable, At
  <2>4. JobInv(h)'
    BY <1>1, <1>2, <1>3, <2>1 DEF HandleInv, JobInv, At, Held
  <2> QED BY <2>2, <2>3, <2>4 DEF HandleInv
<1> QED BY <1>1, <1>4, <1>5, <1>6, <1>7, QuietStep

LEMMA OpenStep ==
    ASSUME IInv, NEW h \in Handles, Open(h)
    PROVE  IInv'
<1>1. /\ SameDirectory /\ UNCHANGED <<own, acked, settled, exposed, temps, faults>>
      /\ At(h, "opening")
      /\ resolver' = [resolver EXCEPT ![h] = task[h].seen]
      /\ resolver'[h] = task[h].seen
      /\ task[h] \in Task /\ task[h].seen \in Catalogs
  BY TaskFields DEF Open, NoNews, IInv, TypeInv
<1>2. dir' = dir /\ HandleInv(h)
  BY <1>1 DEF SameDirectory, IInv
<1>3. task[h].seen # Unknown
  BY <1>1, StoreAssumption DEF Catalogs, Packs
<1>4. OwnInv(h)' /\ UNION resolver'[h] \subseteq UNION dir'.head
  <2>1. own'[h] \subseteq dir'.loose \cup UNION resolver'[h]
    BY <1>1, <1>2 DEF HandleInv, OwnInv
  <2>2. UNION resolver'[h] \subseteq UNION dir'.head
    BY <1>1, <1>2 DEF HandleInv, CatalogInv
  <2>3. task'[h].pc # "opening"
    BY <1>1 DEF Open, Step, Move, At, IInv, TypeInv, Idle, Task
  <2> QED BY <2>1, <2>2, <2>3, <1>1, <1>3 DEF OwnInv, Readable, At
<1>5. CASE task[h].kind = "lookup"
  <2>1. task' = [task EXCEPT ![h] = Idle] /\ task'[h] = Idle
    BY <1>5 DEF Open, Move, IInv, TypeInv
  <2>2. OnlyMoves(h)
    BY <1>1, <2>1 DEF OnlyMoves, IInv, TypeInv
  <2>3. TypeInv'
    BY <1>1, <2>1, IdleTask DEF IInv, TypeInv, SameDirectory
  <2>4. LockInv' /\ HandleInv(h)'
    BY <1>4, <2>1, <2>2, IdleLock, IdleHandle
  <2> QED BY <1>1, <2>2, <2>3, <2>4, QuietStep
<1>6. CASE task[h].kind # "lookup"
  <2> DEFINE t == [task[h] EXCEPT !.pc = "plan"]
  <2>1. task' = [task EXCEPT ![h] = t] /\ task'[h] = t
    BY <1>6 DEF Open, Step, Move, IInv, TypeInv
  <2>2. /\ t \in Task /\ t.pc = "plan" /\ t.kind = task[h].kind
        /\ t.job = task[h].job /\ t.todo = task[h].todo
    BY <1>1, TaskFields
  <2> HIDE DEF t
  <2>3. OnlyMoves(h)
    BY <1>1, <2>1 DEF OnlyMoves, IInv, TypeInv
  <2>4. TypeInv'
    BY <1>1, <2>1, <2>2 DEF IInv, TypeInv, SameDirectory
  <2>5. LockInv'
    BY <1>1, <2>1, <2>2, <2>3, LockKeeps DEF Locked, Deleting, Writers, At
  <2>6. HandleInv(h)'
    <3>1. KindInv(h)' /\ PlanInv(h)' /\ DoomedInv(h)'
      BY <1>1, <1>2, <1>3, <1>6, <2>1, <2>2 DEF HandleInv, KindInv, PlanInv, DoomedInv, At
    <3>2. CatalogInv(h)'
      BY <1>4, <2>1, <2>2 DEF CatalogInv, At
    <3>3. JobInv(h)'
      BY <1>1, <1>2, <2>1, <2>2 DEF HandleInv, JobInv, At, Held
    <3> QED BY <1>4, <3>1, <3>2, <3>3 DEF HandleInv
  <2> QED BY <1>1, <2>3, <2>4, <2>5, <2>6, QuietStep
<1> QED BY <1>5, <1>6

\* A plan is a catalog of what the catalog had and the job.
LEMMA AppendedCatalog ==
    ASSUME IInv, NEW h \in Handles, resolver[h] # Unknown, Delta(h) # {}
    PROVE  /\ Appended(h) \in Catalogs
           /\ UNION Appended(h) = (UNION resolver[h]) \cup task[h].job
<1> DEFINE c == resolver[h] \cup {Delta(h)}
<1>1. resolver[h] \in Catalogs /\ task[h] \in Task /\ task[h].job \subseteq Nodes
  <2>1. resolver[h] \in Catalogs \cup {Unknown} /\ task[h] \in Task
    BY DEF IInv, TypeInv
  <2> QED BY <2>1, TaskFields
<1>2. Delta(h) \in Packs
  BY <1>1 DEF Delta, Packs
<1>3. c \in Catalogs /\ c # {}
  BY <1>1, <1>2 DEF Catalogs
<1>4. UNION c = (UNION resolver[h]) \cup task[h].job
  BY DEF Delta
<1>5. UNION c \in Packs
  <2>1. UNION c \subseteq Nodes
    BY <1>3 DEF Catalogs, Packs
  <2>2. UNION c # {}
    BY <1>2 DEF Packs
  <2> QED BY <2>1, <2>2 DEF Packs
<1> HIDE DEF c
<1>6. Appended(h) = c \/ Appended(h) = {UNION c}
  BY DEF Appended, Coalesce, c
<1>7. UNION {UNION c} = UNION c /\ {UNION c} \in Catalogs
  BY <1>5 DEF Catalogs
<1> QED BY <1>3, <1>4, <1>6, <1>7

\* Steps that move only the task of h, within an operation.
LEMMA MoveOnly ==
    ASSUME IInv, NEW h \in Handles, NEW t \in Task, task' = [task EXCEPT ![h] = t],
           SameDirectory, temps' \subseteq Temps,
           UNCHANGED <<own, acked, settled, exposed, resolver, faults>>,
           t.kind = task[h].kind, t.pc # "deleting",
           h \in Locked' => h \in Locked,
           HandleInv(h)'
    PROVE  IInv'
<1>1. task'[h] = t
  BY DEF IInv, TypeInv
<1>2. OnlyMoves(h)
  BY DEF OnlyMoves, IInv, TypeInv
<1>3. TypeInv'
  BY DEF IInv, TypeInv, SameDirectory
<1>4. LockInv'
  BY <1>1, <1>2, LockKeeps DEF Deleting, Writers
<1> QED BY <1>2, <1>3, <1>4, QuietStep

LEMMA PlanPacksStep ==
    ASSUME IInv, NEW h \in Handles, PlanPacks(h)
    PROVE  IInv'
<1> DEFINE t == [task[h] EXCEPT !.pc = "packs", !.plan = Appended(h),
                                !.left = Appended(h) \ resolver[h]]
<1>1. /\ SameDirectory /\ UNCHANGED <<own, acked, settled, exposed, temps, resolver, faults>>
      /\ At(h, "plan") /\ Delta(h) # {}
      /\ task' = [task EXCEPT ![h] = t] /\ task'[h] = t
  BY DEF PlanPacks, NoNews, Move, IInv, TypeInv
<1>2. dir' = dir /\ HandleInv(h) /\ task[h] \in Task
  BY <1>1 DEF SameDirectory, IInv, TypeInv
<1>3. /\ Appended(h) \in Catalogs
      /\ UNION Appended(h) = (UNION resolver[h]) \cup task[h].job
  BY <1>1, <1>2, AppendedCatalog DEF HandleInv, KindInv, At
<1>4. /\ t \in Task /\ t.pc = "packs" /\ t.kind = task[h].kind
      /\ t.job = task[h].job /\ t.todo = task[h].todo
      /\ t.plan = Appended(h) /\ t.left = Appended(h) \ resolver[h]
  BY <1>2, <1>3 DEF Task, Catalogs
<1> HIDE DEF t
<1>5. HandleInv(h)'
  <2>1. KindInv(h)' /\ DoomedInv(h)'
    BY <1>1, <1>2, <1>4 DEF HandleInv, KindInv, DoomedInv, At
  <2>2. CatalogInv(h)' /\ OwnInv(h)'
    BY <1>1, <1>2, <1>4 DEF HandleInv, CatalogInv, OwnInv, Readable, At
  <2>3. JobInv(h)'
    BY <1>1, <1>2, <1>4 DEF HandleInv, JobInv, At, Held
  <2>4. PlanInv(h)'
    BY <1>1, <1>2, <1>3, <1>4 DEF PlanInv, At
  <2> QED BY <2>1, <2>2, <2>3, <2>4 DEF HandleInv
<1>6. h \in Locked
  BY <1>1 DEF Locked, At
<1> QED BY <1>1, <1>4, <1>5, <1>6, MoveOnly DEF IInv, TypeInv

LEMMA FallBackStep ==
    ASSUME IInv, NEW h \in Handles, FallBack(h)
    PROVE  IInv'
<1> DEFINE t == [task[h] EXCEPT !.pc = "waiting"]
<1>1. /\ SameDirectory /\ UNCHANGED <<own, acked, settled, exposed, temps, resolver, faults>>
      /\ At(h, "plan") \/ (At(h, "opening") /\ task[h].kind = "construct")
      /\ task' = [task EXCEPT ![h] = t] /\ task'[h] = t
  BY DEF FallBack, NoNews, Step, Move, At, IInv, TypeInv
<1>2. dir' = dir /\ HandleInv(h) /\ task[h] \in Task
  BY <1>1 DEF SameDirectory, IInv, TypeInv
<1>3. /\ t \in Task /\ t.pc = "waiting" /\ t.kind = task[h].kind
      /\ t.job = task[h].job /\ t.todo = task[h].todo
  BY <1>2, TaskFields
<1> HIDE DEF t
<1>4. HandleInv(h)'
  <2>1. KindInv(h)' /\ PlanInv(h)' /\ DoomedInv(h)'
    BY <1>1, <1>2, <1>3 DEF HandleInv, KindInv, PlanInv, DoomedInv, At
  <2>2. CatalogInv(h)' /\ OwnInv(h)'
    BY <1>1, <1>2, <1>3 DEF HandleInv, CatalogInv, OwnInv, Readable, At
  <2>3. JobInv(h)'
    BY <1>1, <1>2, <1>3 DEF HandleInv, JobInv, At, Held
  <2> QED BY <2>1, <2>2, <2>3 DEF HandleInv
<1>5. h \in Locked
  BY <1>1 DEF Locked, At
<1> QED BY <1>1, <1>3, <1>4, <1>5, MoveOnly DEF IInv, TypeInv

LEMMA StageTempStep ==
    ASSUME IInv, NEW h \in Handles, StageTemp(h)
    PROVE  IInv'
<1>1. PICK x \in Temps : /\ temps' = temps \cup {x}
                         /\ task' = [task EXCEPT ![h] =
                                [task[h] EXCEPT !.pc = "link", !.temp = {x}]]
  BY DEF StageTemp, Move
<1> DEFINE t == [task[h] EXCEPT !.pc = "link", !.temp = {x}]
<1>2. /\ SameDirectory /\ UNCHANGED <<own, acked, settled, exposed, resolver, faults>>
      /\ At(h, "rebuild") /\ task' = [task EXCEPT ![h] = t] /\ task'[h] = t
      /\ temps' \subseteq Temps
  BY <1>1 DEF StageTemp, NoNews, IInv, TypeInv
<1>3. dir' = dir /\ HandleInv(h) /\ task[h] \in Task
  BY <1>2 DEF SameDirectory, IInv, TypeInv
<1>4. /\ t \in Task /\ t.pc = "link" /\ t.kind = task[h].kind
      /\ t.job = task[h].job /\ t.todo = task[h].todo
  BY <1>3 DEF Task
<1> HIDE DEF t
<1>5. HandleInv(h)'
  <2>1. KindInv(h)' /\ PlanInv(h)' /\ DoomedInv(h)'
    BY <1>2, <1>3, <1>4 DEF HandleInv, KindInv, PlanInv, DoomedInv, At
  <2>2. CatalogInv(h)' /\ OwnInv(h)'
    BY <1>2, <1>3, <1>4 DEF HandleInv, CatalogInv, OwnInv, Readable, At
  <2>3. JobInv(h)'
    BY <1>2, <1>3, <1>4 DEF HandleInv, JobInv, At, Held
  <2> QED BY <2>1, <2>2, <2>3 DEF HandleInv
<1>6. h \notin Locked'
  BY <1>2, <1>4 DEF Locked
<1> QED BY <1>2, <1>4, <1>5, <1>6, MoveOnly

-----------------------------------------------------------------------------
(* Operations that end without news.                                        *)

\* Whatever h was doing, it may give up: the directory has only grown, and the
\* catalog it keeps is one it had, or none.
LEMMA GiveUpStep ==
    ASSUME IInv, NEW h \in Handles, Grows, FilesStay \/ h \in Deleting,
           dir'.head = dir.head,
           \A n \in Held(dir') \ Held(dir) : n \in exposed \/ Kids[n] \subseteq Held(dir'),
           Abandon(h), temps' \subseteq Temps, faults' \in 0..MaxFaults,
           kept' \subseteq Directories,
           resolver' = [resolver EXCEPT ![h] = resolver'[h]],
           resolver'[h] \in {resolver[h], Unknown}
    PROVE  IInv'
<1>1. task' = [task EXCEPT ![h] = Idle] /\ task'[h] = Idle
      /\ UNCHANGED <<own, acked, settled, exposed>>
  BY DEF Abandon, Move, NoNews, IInv, TypeInv
<1>2. OnlyMoves(h) /\ Entitled(h)
  BY <1>1 DEF OnlyMoves, Entitled, IInv, TypeInv
<1>3. TypeInv'
  BY <1>1, IdleTask DEF IInv, TypeInv, Grows
<1>4. HandleInv(h)
  BY DEF IInv
<1>5. OwnInv(h)'
  <2>1. own[h] \subseteq dir.loose \cup UNION dir.head
    BY <1>4 DEF HandleInv, CatalogInv, OwnInv, Readable
  <2>2. own[h] \subseteq Readable(h)
    BY <1>4 DEF HandleInv, OwnInv
  <2> QED BY <1>1, <2>1, <2>2, IdleTask DEF OwnInv, Readable, Grows, At
<1>6. resolver'[h] # Unknown => UNION resolver'[h] \subseteq UNION dir'.head
  BY <1>4 DEF HandleInv, CatalogInv
<1>7. LockInv' /\ HandleInv(h)'
  BY <1>1, <1>2, <1>5, <1>6, IdleLock, IdleHandle
<1>8. HeldInv'
  BY <1>1, HeldKeeps
<1> QED BY <1>2, <1>3, <1>7, <1>8, StepKeeps

LEMMA FaultCount ==
    ASSUME IInv, Fault
    PROVE  faults' \in 0..MaxFaults
BY StoreAssumption DEF IInv, TypeInv, Fault

LEMMA ReclaimSyncFailsStep ==
    ASSUME IInv, NEW h \in Handles, ReclaimSyncFails(h)
    PROVE  IInv'
BY GiveUpStep, SameDirectoryGrows, FaultCount
DEF ReclaimSyncFails, SameDirectory, IInv, TypeInv

LEMMA HeadRefusedStep ==
    ASSUME IInv, NEW h \in Handles, HeadRefused(h) \/ HeadFails(h)
    PROVE  IInv'
<1>1. /\ SameDirectory /\ Abandon(h) /\ UNCHANGED temps /\ faults' \in 0..MaxFaults
      /\ AfterTransition(h, resolver[h])
  BY FaultCount DEF HeadRefused, HeadFails, IInv, TypeInv
<1>2. /\ resolver' = [resolver EXCEPT ![h] = resolver'[h]]
      /\ resolver'[h] \in {resolver[h], Unknown}
  BY <1>1 DEF AfterTransition, IInv, TypeInv
<1> QED BY <1>1, <1>2, GiveUpStep, SameDirectoryGrows DEF SameDirectory, IInv, TypeInv

LEMMA DieStep ==
    ASSUME IInv, NEW h \in Handles, Die(h)
    PROVE  IInv'
<1>1. /\ task' = [task EXCEPT ![h] = Idle] /\ task'[h] = Idle
      /\ resolver' = [resolver EXCEPT ![h] = Unknown] /\ resolver'[h] = Unknown
      /\ own' = [own EXCEPT ![h] = {}] /\ own'[h] = {}
      /\ SameDirectory /\ UNCHANGED <<temps, acked, settled, exposed>>
      /\ faults' \in 0..MaxFaults
  BY FaultCount DEF Die, Move, IInv, TypeInv
<1>2. OnlyMoves(h)
  BY <1>1 DEF OnlyMoves, IInv, TypeInv
<1>3. TypeInv'
  BY <1>1, IdleTask DEF IInv, TypeInv, SameDirectory
<1>4. OwnInv(h)'
  BY <1>1, IdleTask DEF OwnInv, At
<1>5. LockInv' /\ HandleInv(h)'
  BY <1>1, <1>2, <1>4, IdleLock, IdleHandle
<1> QED BY <1>1, <1>2, <1>3, <1>5, QuietStep

\* Success without a publication: the catalog has the whole job.
LEMMA AlreadyPackedStep ==
    ASSUME IInv, NEW h \in Handles, AlreadyPacked(h)
    PROVE  IInv'
<1>1. /\ task' = [task EXCEPT ![h] = Idle] /\ task'[h] = Idle
      /\ own' = [own EXCEPT ![h] = @ \cup task[h].job]
      /\ own'[h] = own[h] \cup task[h].job
      /\ acked' = acked \cup task[h].job
      /\ SameDirectory /\ UNCHANGED <<temps, resolver, faults, settled, exposed>>
  BY DEF AlreadyPacked, Acknowledge, Move, IInv, TypeInv
<1>2. dir' = dir /\ HandleInv(h) /\ task[h] \in Task
  BY <1>1 DEF SameDirectory, IInv, TypeInv
<1>3. task[h].job \subseteq Nodes
  BY <1>2, TaskFields
<1>4. resolver[h] # Unknown /\ task[h].job \subseteq UNION resolver[h]
  BY <1>2 DEF AlreadyPacked, HandleInv, KindInv, At, Delta
<1>5. OnlyMoves(h)
  BY <1>1 DEF OnlyMoves, IInv, TypeInv
<1>6. TypeInv'
  BY <1>1, <1>3, IdleTask DEF IInv, TypeInv, SameDirectory
<1>7. OwnInv(h)' /\ (resolver'[h] # Unknown => UNION resolver'[h] \subseteq UNION dir'.head)
  BY <1>1, <1>2, <1>4, IdleTask DEF HandleInv, CatalogInv, OwnInv, Readable, At
<1>8. LockInv' /\ HandleInv(h)'
  BY <1>1, <1>5, <1>7, IdleLock, IdleHandle
<1> QED BY <1>1, <1>5, <1>6, <1>8, QuietStep

-----------------------------------------------------------------------------
(* Steps of a publication that add files.                                   *)

LEMMA AddsFiles ==
    ASSUME IInv, NEW d \in Directories, d.head = dir.head, dir.loose \subseteq d.loose,
           dir.packs \subseteq d.packs, dir.catalogs \subseteq d.catalogs,
           Durably(d) \/ Visibly(d)
    PROVE  /\ Grows /\ FilesStay /\ dir' = d /\ kept' \subseteq Directories
           /\ Held(dir') = d.loose \cup UNION dir.head
BY DEF IInv, TypeInv, AuthorityOpens, Durably, Visibly, Grows, FilesStay, Held, Opens

LEMMA FilesTypes ==
    ASSUME IInv
    PROVE  /\ \A p \in Packs : [dir EXCEPT !.packs = @ \cup {p}] \in Directories
           /\ \A c \in Catalogs : [dir EXCEPT !.catalogs = @ \cup {c}] \in Directories
           /\ \A n \in Nodes : [dir EXCEPT !.loose = @ \cup {n}] \in Directories
BY DEF IInv, TypeInv, Directories

LEMMA PublishPackStep ==
    ASSUME IInv, NEW h \in Handles, PublishPack(h)
    PROVE  IInv'
<1>1. PICK p \in task[h].left :
          /\ Published([dir EXCEPT !.packs = @ \cup {p}])
          /\ Move(h, [task[h] EXCEPT !.left = @ \ {p}])
  BY DEF PublishPack
<1> DEFINE d == [dir EXCEPT !.packs = @ \cup {p}]
           t == [task[h] EXCEPT !.left = @ \ {p}]
<1>2. /\ At(h, "packs") /\ task' = [task EXCEPT ![h] = t] /\ task'[h] = t
      /\ Durably(d)
      /\ UNCHANGED <<own, acked, settled, exposed, temps, resolver, faults>>
  BY <1>1 DEF PublishPack, Published, Move, NoNews, IInv, TypeInv
<1>3. HandleInv(h) /\ task[h] \in Task /\ p \in Packs
  BY TaskFields DEF IInv, TypeInv
<1>4. /\ t \in Task /\ t.pc = "packs" /\ t.kind = task[h].kind /\ t.job = task[h].job
      /\ t.todo = task[h].todo /\ t.plan = task[h].plan /\ t.left = task[h].left \ {p}
  BY <1>2, <1>3 DEF Task, At
<1>5. /\ d \in Directories /\ d.head = dir.head /\ d.loose = dir.loose
      /\ d.packs = dir.packs \cup {p} /\ d.catalogs = dir.catalogs
  BY <1>3, FilesTypes DEF IInv, TypeInv, Directories
<1> HIDE DEF d, t
<1>6. /\ Grows /\ FilesStay /\ dir' = d /\ kept' \subseteq Directories
      /\ Held(dir') = Held(dir)
  BY <1>2, <1>5, AddsFiles DEF Held
<1>7. OnlyMoves(h) /\ Entitled(h)
  BY <1>2, <1>5, <1>6 DEF OnlyMoves, Entitled, IInv, TypeInv
<1>8. TypeInv'
  BY <1>2, <1>4, <1>6 DEF IInv, TypeInv, Grows
<1>9. LockInv'
  BY <1>2, <1>4, <1>7, LockKeeps DEF Locked, Deleting, Writers, At
<1>10. HeldInv'
  BY <1>2, <1>6, HeldKeeps
<1>11. HandleInv(h)'
  <2>1. KindInv(h)' /\ DoomedInv(h)'
    BY <1>2, <1>3, <1>4 DEF HandleInv, KindInv, DoomedInv, At
  <2>2. CatalogInv(h)' /\ OwnInv(h)'
    BY <1>2, <1>3, <1>4, <1>5, <1>6 DEF HandleInv, CatalogInv, OwnInv, Readable, At
  <2>3. JobInv(h)'
    BY <1>2, <1>3, <1>4, <1>5, <1>6 DEF HandleInv, JobInv, At, Held
  <2>4. PlanInv(h)'
    BY <1>2, <1>3, <1>4, <1>5, <1>6 DEF HandleInv, PlanInv, At
  <2> QED BY <2>1, <2>2, <2>3, <2>4 DEF HandleInv
<1> QED BY <1>6, <1>7, <1>8, <1>9, <1>10, <1>11, StepKeeps

LEMMA PublishCatalogStep ==
    ASSUME IInv, NEW h \in Handles, PublishCatalog(h)
    PROVE  IInv'
<1> DEFINE d == [dir EXCEPT !.catalogs = @ \cup {task[h].plan}]
           t == [task[h] EXCEPT !.pc = "head"]
<1>1. /\ At(h, "packs") /\ task[h].left = {}
      /\ task' = [task EXCEPT ![h] = t] /\ task'[h] = t
      /\ Durably(d)
      /\ UNCHANGED <<own, acked, settled, exposed, temps, resolver, faults>>
  BY DEF PublishCatalog, Published, Step, Move, NoNews, IInv, TypeInv
<1>2. HandleInv(h) /\ task[h] \in Task /\ task[h].plan \in Catalogs
  BY TaskFields DEF IInv, TypeInv
<1>3. /\ t \in Task /\ t.pc = "head" /\ t.kind = task[h].kind /\ t.job = task[h].job
      /\ t.todo = task[h].todo /\ t.plan = task[h].plan /\ t.left = task[h].left
  BY <1>2, TaskFields
<1>4. /\ d \in Directories /\ d.head = dir.head /\ d.loose = dir.loose
      /\ d.packs = dir.packs /\ d.catalogs = dir.catalogs \cup {task[h].plan}
  BY <1>2, FilesTypes DEF IInv, TypeInv, Directories
<1> HIDE DEF d, t
<1>5. /\ Grows /\ FilesStay /\ dir' = d /\ kept' \subseteq Directories
      /\ Held(dir') = Held(dir)
  BY <1>1, <1>4, AddsFiles DEF Held
<1>6. OnlyMoves(h) /\ Entitled(h)
  BY <1>1, <1>4, <1>5 DEF OnlyMoves, Entitled, IInv, TypeInv
<1>7. TypeInv'
  BY <1>1, <1>3, <1>5 DEF IInv, TypeInv, Grows
<1>8. LockInv'
  BY <1>1, <1>3, <1>6, LockKeeps DEF Locked, Deleting, Writers, At
<1>9. HeldInv'
  BY <1>1, <1>5, HeldKeeps
<1>10. HandleInv(h)'
  <2>1. KindInv(h)' /\ DoomedInv(h)'
    BY <1>1, <1>2, <1>3 DEF HandleInv, KindInv, DoomedInv, At
  <2>2. CatalogInv(h)' /\ OwnInv(h)'
    BY <1>1, <1>2, <1>3, <1>4, <1>5 DEF HandleInv, CatalogInv, OwnInv, Readable, At
  <2>3. JobInv(h)'
    BY <1>1, <1>2, <1>3, <1>4, <1>5 DEF HandleInv, JobInv, At, Held
  <2>4. PlanInv(h)'
    BY <1>1, <1>2, <1>3, <1>4, <1>5 DEF HandleInv, PlanInv, At
  <2> QED BY <2>1, <2>2, <2>3, <2>4 DEF HandleInv
<1> QED BY <1>5, <1>6, <1>7, <1>8, <1>9, <1>10, StepKeeps

\* A publication that fails leaves a file more, or none.
LEMMA NotPublishedGrows ==
    ASSUME IInv, NEW d \in Directories, d.head = dir.head, dir.loose \subseteq d.loose,
           dir.packs \subseteq d.packs, dir.catalogs \subseteq d.catalogs,
           NotPublished(d)
    PROVE  /\ Grows /\ FilesStay /\ dir'.head = dir.head /\ kept' \subseteq Directories
           /\ Held(dir') \subseteq d.loose \cup UNION dir.head
<1>1. CASE SameDirectory
  BY <1>1, SameDirectoryGrows DEF Held, SameDirectory, IInv, TypeInv
<1>2. CASE Visibly(d)
  BY <1>2, AddsFiles
<1> QED BY <1>1, <1>2 DEF NotPublished

LEMMA PrerequisiteFailsStep ==
    ASSUME IInv, NEW h \in Handles, PrerequisiteFails(h)
    PROVE  IInv'
<1>1. /\ Abandon(h) /\ UNCHANGED <<temps, resolver>> /\ faults' \in 0..MaxFaults
  BY FaultCount DEF PrerequisiteFails
<1>2. task[h].left \subseteq Packs /\ task[h].plan \in Catalogs
  BY TaskFields DEF IInv, TypeInv
<1>3. /\ Grows /\ FilesStay /\ dir'.head = dir.head /\ kept' \subseteq Directories
      /\ Held(dir') \subseteq Held(dir)
  <2>1. CASE \E p \in task[h].left : NotPublished([dir EXCEPT !.packs = @ \cup {p}])
    <3>1. PICK p \in task[h].left : NotPublished([dir EXCEPT !.packs = @ \cup {p}])
      BY <2>1
    <3> DEFINE d == [dir EXCEPT !.packs = @ \cup {p}]
    <3>2. /\ d \in Directories /\ d.head = dir.head /\ d.loose = dir.loose
          /\ d.packs = dir.packs \cup {p} /\ d.catalogs = dir.catalogs
      BY <1>2, FilesTypes DEF IInv, TypeInv, Directories
    <3> HIDE DEF d
    <3> QED BY <3>1, <3>2, NotPublishedGrows DEF Held, d
  <2>2. CASE NotPublished([dir EXCEPT !.catalogs = @ \cup {task[h].plan}])
    <3> DEFINE d == [dir EXCEPT !.catalogs = @ \cup {task[h].plan}]
    <3>1. /\ d \in Directories /\ d.head = dir.head /\ d.loose = dir.loose
          /\ d.packs = dir.packs /\ d.catalogs = dir.catalogs \cup {task[h].plan}
      BY <1>2, FilesTypes DEF IInv, TypeInv, Directories
    <3> HIDE DEF d
    <3> QED BY <2>2, <3>1, NotPublishedGrows DEF Held, d
  <2> QED BY <2>1, <2>2 DEF PrerequisiteFails
<1> QED BY <1>1, <1>3, GiveUpStep DEF IInv, TypeInv

-----------------------------------------------------------------------------
(* The head.                                                                *)

\* At the transition the plan opens, and covers the head it replaces.
LEMMA PlanCovers ==
    ASSUME IInv, NEW h \in Handles, At(h, "head"), dir.head \in {task[h].plan, resolver[h]}
    PROVE  /\ task[h].plan \in dir.catalogs /\ task[h].plan \subseteq dir.packs
           /\ UNION dir.head \subseteq UNION task[h].plan
           /\ UNION task[h].plan = (UNION resolver[h]) \cup task[h].job
           /\ (UNION task[h].plan) \ (UNION dir.head) \subseteq task[h].job
           /\ resolver[h] # Unknown
<1>1. HandleInv(h) /\ Opens(dir.head, dir)
  BY DEF IInv, TypeInv, AuthorityOpens
<1>2. /\ UNION task[h].plan = (UNION resolver[h]) \cup task[h].job
      /\ task[h].plan \ resolver[h] \subseteq dir.packs
      /\ task[h].plan \in dir.catalogs
      /\ resolver[h] # Unknown
  BY <1>1 DEF HandleInv, PlanInv, KindInv, At
<1>3. dir.head \subseteq dir.packs
  BY <1>1 DEF Opens, NoHead
<1>4. task[h].plan \subseteq dir.packs
  BY <1>2, <1>3
<1>5. UNION dir.head \subseteq UNION task[h].plan
  BY <1>2
<1>6. UNION resolver[h] \subseteq UNION dir.head
  BY <1>1, <1>2 DEF HandleInv, CatalogInv
<1> QED BY <1>2, <1>4, <1>5, <1>6

LEMMA SwitchHeadStep ==
    ASSUME IInv, NEW h \in Handles, SwitchHead(h)
    PROVE  IInv'
<1> DEFINE d == [dir EXCEPT !.head = task[h].plan]
           t == [task[h] EXCEPT !.pc = "barrier"]
<1>1. /\ At(h, "head") /\ task' = [task EXCEPT ![h] = t] /\ task'[h] = t
      /\ dir.head \in {task[h].plan, resolver[h]}
      /\ UNCHANGED <<own, acked, settled, exposed, temps, resolver, faults>>
  BY DEF SwitchHead, Step, Move, NoNews, IInv, TypeInv
<1>2. HandleInv(h) /\ task[h] \in Task /\ task[h].plan \in Catalogs
  BY TaskFields DEF IInv, TypeInv
<1>3. /\ t \in Task /\ t.pc = "barrier" /\ t.kind = task[h].kind /\ t.job = task[h].job
      /\ t.todo = task[h].todo /\ t.plan = task[h].plan
  BY <1>2, TaskFields
<1>4. /\ d \in Directories /\ d.head = task[h].plan /\ d.loose = dir.loose
      /\ d.packs = dir.packs /\ d.catalogs = dir.catalogs
  BY <1>2 DEF IInv, TypeInv, Directories
<1>5. (dir' = dir /\ kept' = kept /\ dir.head = task[h].plan) \/ Visibly(d)
  BY DEF SwitchHead, SameDirectory
<1> HIDE DEF d, t
<1>6. /\ Grows /\ FilesStay /\ kept' \subseteq Directories
      /\ dir'.head = task[h].plan /\ dir'.loose = dir.loose
  BY <1>1, <1>4, <1>5, PlanCovers
  DEF IInv, TypeInv, AuthorityOpens, Visibly, Grows, FilesStay, Opens
<1>7. h \in Locked \cap Writers
  BY <1>1, <1>2 DEF HandleInv, KindInv, Locked, Writers, At
<1>8. OnlyMoves(h) /\ Entitled(h)
  BY <1>1, <1>6, <1>7 DEF OnlyMoves, Entitled, IInv, TypeInv
<1>9. TypeInv'
  BY <1>1, <1>3, <1>6 DEF IInv, TypeInv, Grows
<1>10. LockInv'
  BY <1>1, <1>3, <1>7, <1>8, LockKeeps DEF Deleting
<1>11. HeldInv'
  <2>1. Held(dir') \ Held(dir) \subseteq task[h].job /\ task[h].job \subseteq Held(dir')
    BY <1>1, <1>6, PlanCovers DEF Held
  <2>2. Held(dir) \subseteq Held(dir')
    BY <1>6, HeldMonotone
  <2>3. \A n \in task[h].job : Kids[n] \subseteq Held(dir')
    BY <1>2, <1>7, <2>1, <2>2 DEF HandleInv, JobInv, Writers
  <2> QED BY <1>1, <1>6, <2>1, <2>3, HeldKeeps
<1>12. HandleInv(h)'
  <2>1. KindInv(h)' /\ DoomedInv(h)'
    BY <1>1, <1>2, <1>3 DEF HandleInv, KindInv, DoomedInv, At
  <2>2. CatalogInv(h)' /\ OwnInv(h)'
    BY <1>1, <1>2, <1>3, <1>6, PlanCovers
    DEF HandleInv, CatalogInv, OwnInv, Readable, At
  <2>3. JobInv(h)'
    <3>1. Held(dir) \subseteq Held(dir')
      BY <1>6, HeldMonotone
    <3> QED BY <1>1, <1>2, <1>3, <1>6, <3>1 DEF HandleInv, JobInv, At
  <2>4. PlanInv(h)'
    BY <1>1, <1>2, <1>3, <1>6 DEF HandleInv, PlanInv, At
  <2> QED BY <2>1, <2>2, <2>3, <2>4 DEF HandleInv
<1> QED BY <1>6, <1>8, <1>9, <1>10, <1>11, <1>12, StepKeeps

\* A publication that settles its job: the directory is durable and has it.
LEMMA SettleStep ==
    ASSUME IInv, NEW h \in Handles, Grows, FilesStay, dir'.head = dir.head,
           kept' = {dir'}, Settle(h), h \in Writers,
           task[h].job \subseteq Held(dir'),
           Held(dir') \ Held(dir) \subseteq task[h].job,
           temps' \subseteq Temps, UNCHANGED faults,
           NEW r \in Catalogs \cup {Unknown}, resolver' = [resolver EXCEPT ![h] = r],
           r # Unknown => UNION r \subseteq UNION dir'.head,
           own[h] \cup task[h].job \subseteq
               dir'.loose \cup UNION (IF r = Unknown THEN dir'.head ELSE r)
    PROVE  IInv'
<1>1. /\ task' = [task EXCEPT ![h] = Idle] /\ task'[h] = Idle
      /\ own' = [own EXCEPT ![h] = @ \cup task[h].job]
      /\ own'[h] = own[h] \cup task[h].job
      /\ acked' = acked \cup task[h].job
      /\ settled' = settled \cup task[h].job
      /\ exposed' = exposed \ task[h].job
      /\ resolver'[h] = r
  BY DEF Settle, Acknowledge, Move, IInv, TypeInv
<1>2. HandleInv(h) /\ task[h] \in Task
  BY DEF IInv, TypeInv
<1>3. task[h].job \subseteq Nodes
  BY <1>2, TaskFields
<1>4. OnlyMoves(h) /\ Entitled(h)
  BY <1>1 DEF OnlyMoves, Entitled, IInv, TypeInv
<1>5. TypeInv'
  <2>1. acked' \subseteq Nodes /\ settled' \subseteq acked' /\ exposed' \subseteq Nodes
    BY <1>1, <1>3 DEF IInv, TypeInv
  <2>2. own' \in [Handles -> SUBSET Nodes] /\ resolver' \in [Handles -> Catalogs \cup {Unknown}]
    BY <1>1, <1>3 DEF IInv, TypeInv
  <2>3. task' \in [Handles -> Task] /\ faults' \in 0..MaxFaults
    BY <1>1, IdleTask DEF IInv, TypeInv
  <2> QED BY <2>1, <2>2, <2>3 DEF TypeInv, Grows
<1>6. OwnInv(h)' /\ (resolver'[h] # Unknown => UNION resolver'[h] \subseteq UNION dir'.head)
  BY <1>1, IdleTask DEF OwnInv, Readable, At
<1>7. LockInv' /\ HandleInv(h)'
  BY <1>1, <1>4, <1>6, IdleLock, IdleHandle
<1>8. HeldInv'
  <2>1. Held(dir) \subseteq Held(dir')
    BY HeldMonotone
  <2>2. \A n \in task[h].job : Kids[n] \subseteq Held(dir')
    BY <1>2, <2>1 DEF HandleInv, JobInv, Writers
  <2> QED BY <1>1, <2>2, HeldKeeps
<1> QED BY <1>4, <1>5, <1>7, <1>8, StepKeeps

LEMMA HeadSyncedStep ==
    ASSUME IInv, NEW h \in Handles, HeadSynced(h)
    PROVE  IInv'
<1> DEFINE r == IF task[h].kind = "construct" THEN Unknown ELSE task[h].plan
<1>1. /\ At(h, "barrier") /\ Settle(h) /\ UNCHANGED <<temps, faults>>
      /\ dir' = dir /\ kept' = {dir} /\ resolver' = [resolver EXCEPT ![h] = r]
  BY DEF HeadSynced, Durably, AfterTransition
<1>2. HandleInv(h) /\ task[h] \in Task /\ task[h].plan \in Catalogs
  BY TaskFields DEF IInv, TypeInv
<1>3. /\ Grows /\ FilesStay /\ Held(dir') = Held(dir)
  BY <1>1 DEF IInv, TypeInv, AuthorityOpens, Grows, FilesStay, Held, Opens
<1>4. h \in Writers /\ resolver[h] # Unknown
  BY <1>1, <1>2 DEF HandleInv, KindInv, Writers, At
<1>5. dir.head = task[h].plan /\ UNION dir.head = (UNION resolver[h]) \cup task[h].job
  BY <1>1, <1>2 DEF HandleInv, PlanInv, At
<1>6. task[h].job \subseteq Held(dir')
  BY <1>1, <1>5 DEF Held
<1>7. own[h] \cup task[h].job \subseteq dir.loose \cup UNION dir.head
  BY <1>2, <1>4, <1>5 DEF HandleInv, OwnInv, Readable
<1>8. r \in Catalogs \cup {Unknown}
  BY <1>2
<1>9. r # Unknown => r = dir'.head
  BY <1>1, <1>5
<1> HIDE DEF r
<1> QED BY <1>1, <1>3, <1>4, <1>6, <1>7, <1>8, <1>9, SettleStep DEF IInv, TypeInv

-----------------------------------------------------------------------------
(* Loose files.                                                             *)

\* The node published next is exposed, or its children are there.
LEMMA NextHasChildren ==
    ASSUME IInv, NEW h \in Handles, NEW n \in task[h].todo, NextInOrder(h, n),
           task[h].pc \in {"loose", "rebuild", "link"}
    PROVE  /\ n \in Nodes /\ n \in task[h].job /\ h \in Writers
           /\ n \in exposed \/ Kids[n] \subseteq Held(dir)
<1>1. HandleInv(h) /\ task[h] \in Task
  BY DEF IInv, TypeInv
<1>2. task[h].kind \in Kinds /\ task[h].todo \subseteq Nodes
  BY <1>1, TaskFields DEF HandleInv, KindInv
<1>3. /\ task[h].todo \subseteq task[h].job
      /\ task[h].job \ task[h].todo \subseteq dir.loose
      /\ Kids[n] \subseteq task[h].job \cup Held(dir)
  BY <1>1, <1>2 DEF HandleInv, JobInv
<1>4. CASE task[h].kind = "insert"
  <2>1. At(h, "loose")
    BY <1>1, <1>4 DEF HandleInv, KindInv, At
  <2> QED BY <1>1, <1>2, <1>3, <1>4, <2>1 DEF HandleInv, JobInv, Writers
<1>5. CASE task[h].kind # "insert"
  <2>1. Kids[n] \cap task[h].todo = {}
    BY <1>5 DEF NextInOrder
  <2> QED BY <1>2, <1>3, <2>1 DEF Held, Writers
<1> QED BY <1>4, <1>5

LEMMA LoosePublished ==
    ASSUME IInv, NEW h \in Handles, NEW n \in task[h].todo, NextInOrder(h, n),
           task[h].pc \in {"loose", "link"},
           Published([dir EXCEPT !.loose = @ \cup {n}]),
           temps' \subseteq Temps, UNCHANGED <<resolver, faults>>,
           \/ task[h].todo = {n} /\ Settle(h)
           \/ \E t \in Task : /\ Move(h, t) /\ NoNews
                              /\ t.kind = task[h].kind /\ t.job = task[h].job
                              /\ t.todo = task[h].todo \ {n}
                              /\ \/ t.pc = "loose" /\ At(h, "loose")
                                 \/ t.pc = "rebuild" /\ At(h, "link")
    PROVE  IInv'
<1> DEFINE d == [dir EXCEPT !.loose = @ \cup {n}]
<1>1. HandleInv(h) /\ task[h] \in Task /\ task[h].kind \in Kinds
  BY DEF IInv, TypeInv, HandleInv, KindInv
<1>2. n \in Nodes /\ n \in task[h].job /\ h \in Writers
      /\ (n \in exposed \/ Kids[n] \subseteq Held(dir))
  BY NextHasChildren
<1>3. /\ d \in Directories /\ d.head = dir.head /\ d.loose = dir.loose \cup {n}
      /\ d.packs = dir.packs /\ d.catalogs = dir.catalogs
  BY <1>2, FilesTypes DEF IInv, TypeInv, Directories
<1> HIDE DEF d
<1>4. /\ Grows /\ FilesStay /\ dir' = d /\ kept' = {dir'} /\ dir'.head = dir.head
      /\ Held(dir') = Held(dir) \cup {n}
  BY <1>3, AddsFiles DEF Published, Durably, Held, d
<1>5. task[h].job \ task[h].todo \subseteq dir.loose /\ task[h].todo \subseteq task[h].job
  BY <1>1 DEF HandleInv, JobInv
<1>6. CASE task[h].todo = {n} /\ Settle(h)
  <2>1. task[h].job \subseteq dir'.loose
    BY <1>3, <1>4, <1>5, <1>6
  <2>2. task[h].job \subseteq Held(dir') /\ Held(dir') \ Held(dir) \subseteq task[h].job
    BY <1>2, <1>4, <2>1 DEF Held
  <2> DEFINE r == resolver[h]
  <2>3. r \in Catalogs \cup {Unknown} /\ resolver' = [resolver EXCEPT ![h] = r]
    BY DEF IInv, TypeInv
  <2>4. r # Unknown => UNION r \subseteq UNION dir'.head
    BY <1>1, <1>4 DEF HandleInv, CatalogInv
  <2>5. own[h] \cup task[h].job \subseteq
            dir'.loose \cup UNION (IF r = Unknown THEN dir'.head ELSE r)
    BY <1>1, <1>3, <1>4, <2>1 DEF HandleInv, OwnInv, Readable
  <2> HIDE DEF r
  <2> QED BY <1>2, <1>4, <1>6, <2>2, <2>3, <2>4, <2>5, SettleStep
<1>7. ASSUME NEW t \in Task, Move(h, t), NoNews,
             t.kind = task[h].kind, t.job = task[h].job, t.todo = task[h].todo \ {n},
             \/ t.pc = "loose" /\ At(h, "loose")
             \/ t.pc = "rebuild" /\ At(h, "link")
      PROVE  IInv'
  <2>1. /\ task' = [task EXCEPT ![h] = t] /\ task'[h] = t
        /\ UNCHANGED <<own, acked, settled, exposed>>
    BY <1>7 DEF Move, NoNews, IInv, TypeInv
  <2>2. OnlyMoves(h) /\ Entitled(h)
    BY <1>4, <2>1 DEF OnlyMoves, Entitled, IInv, TypeInv
  <2>3. TypeInv'
    BY <1>4, <1>7, <2>1 DEF IInv, TypeInv, Grows
  <2>4. LockInv'
    BY <1>2, <1>7, <2>1, <2>2, LockKeeps DEF Locked, Deleting, At
  <2>5. HeldInv'
    BY <1>2, <1>4, <2>1, HeldKeeps
  <2>6. HandleInv(h)'
    <3>1. KindInv(h)' /\ PlanInv(h)' /\ DoomedInv(h)'
      BY <1>1, <1>7, <2>1 DEF HandleInv, KindInv, PlanInv, DoomedInv, At
    <3>2. CatalogInv(h)' /\ OwnInv(h)'
      BY <1>1, <1>3, <1>4, <1>7, <2>1 DEF HandleInv, CatalogInv, OwnInv, Readable, At
    <3>3. JobInv(h)'
      BY <1>1, <1>3, <1>4, <1>5, <1>7, <2>1 DEF HandleInv, JobInv, At
    <3> QED BY <3>1, <3>2, <3>3 DEF HandleInv
  <2> QED BY <1>4, <2>2, <2>3, <2>4, <2>5, <2>6, StepKeeps
<1> QED BY <1>6, <1>7

LEMMA PublishLooseStep ==
    ASSUME IInv, NEW h \in Handles, PublishLoose(h)
    PROVE  IInv'
<1>1. PICK n \in task[h].todo :
          /\ NextInOrder(h, n)
          /\ Published([dir EXCEPT !.loose = @ \cup {n}])
          /\ IF task[h].todo = {n} THEN Settle(h)
             ELSE Move(h, [task[h] EXCEPT !.todo = @ \ {n}]) /\ NoNews
  BY DEF PublishLoose
<1> DEFINE t == [task[h] EXCEPT !.todo = @ \ {n}]
<1>2. /\ task[h].pc = "loose" /\ At(h, "loose")
      /\ temps' \subseteq Temps /\ UNCHANGED <<resolver, faults>>
  BY DEF PublishLoose, At, IInv, TypeInv
<1>3. task[h] \in Task
  BY DEF IInv, TypeInv
<1>4. /\ t \in Task /\ t.pc = "loose" /\ t.kind = task[h].kind /\ t.job = task[h].job
      /\ t.todo = task[h].todo \ {n}
  BY <1>2, <1>3 DEF Task
<1>5. (task[h].todo = {n} /\ Settle(h)) \/ (Move(h, t) /\ NoNews)
  BY <1>1
<1> HIDE DEF t
<1> QED BY <1>1, <1>2, <1>4, <1>5, LoosePublished

LEMMA LinkTempStep ==
    ASSUME IInv, NEW h \in Handles, LinkTemp(h)
    PROVE  IInv'
<1>1. PICK n \in task[h].todo :
          /\ NextInOrder(h, n)
          /\ Published([dir EXCEPT !.loose = @ \cup {n}])
          /\ IF task[h].todo = {n} THEN Settle(h)
             ELSE /\ Move(h, [task[h] EXCEPT !.pc = "rebuild", !.todo = @ \ {n}, !.temp = {}])
                  /\ NoNews
  BY DEF LinkTemp
<1> DEFINE t == [task[h] EXCEPT !.pc = "rebuild", !.todo = @ \ {n}, !.temp = {}]
<1>2. /\ task[h].pc = "link" /\ At(h, "link")
      /\ temps' \subseteq Temps /\ UNCHANGED <<resolver, faults>>
  BY DEF LinkTemp, At, IInv, TypeInv
<1>3. task[h] \in Task
  BY DEF IInv, TypeInv
<1>4. /\ t \in Task /\ t.pc = "rebuild" /\ t.kind = task[h].kind /\ t.job = task[h].job
      /\ t.todo = task[h].todo \ {n}
  BY <1>3 DEF Task
<1>5. (task[h].todo = {n} /\ Settle(h)) \/ (Move(h, t) /\ NoNews)
  BY <1>1
<1> HIDE DEF t
<1> QED BY <1>1, <1>2, <1>4, <1>5, LoosePublished

\* A loose publication that fails may have made its node visible.
LEMMA LooseNotPublished ==
    ASSUME IInv, NEW h \in Handles, NEW n \in task[h].todo, NextInOrder(h, n),
           task[h].pc \in {"loose", "link"},
           NotPublished([dir EXCEPT !.loose = @ \cup {n}])
    PROVE  /\ Grows /\ FilesStay /\ dir'.head = dir.head /\ kept' \subseteq Directories
           /\ \A m \in Held(dir') \ Held(dir) : m \in exposed \/ Kids[m] \subseteq Held(dir')
<1> DEFINE d == [dir EXCEPT !.loose = @ \cup {n}]
<1>1. n \in Nodes /\ (n \in exposed \/ Kids[n] \subseteq Held(dir))
  BY NextHasChildren
<1>2. /\ d \in Directories /\ d.head = dir.head /\ d.loose = dir.loose \cup {n}
      /\ d.packs = dir.packs /\ d.catalogs = dir.catalogs
  BY <1>1, FilesTypes DEF IInv, TypeInv, Directories
<1> HIDE DEF d
<1>3. /\ Grows /\ FilesStay /\ dir'.head = dir.head /\ kept' \subseteq Directories
      /\ Held(dir') \subseteq Held(dir) \cup {n}
  BY <1>2, NotPublishedGrows DEF Held, d
<1> QED BY <1>1, <1>3, HeldMonotone

LEMMA LooseFailsStep ==
    ASSUME IInv, NEW h \in Handles, LooseFails(h)
    PROVE  IInv'
<1>1. /\ Abandon(h) /\ UNCHANGED <<temps, resolver>> /\ faults' \in 0..MaxFaults
      /\ task[h].pc = "loose"
  BY FaultCount DEF LooseFails, At
<1>2. PICK n \in task[h].todo : /\ NextInOrder(h, n)
                               /\ NotPublished([dir EXCEPT !.loose = @ \cup {n}])
  BY DEF LooseFails
<1> QED BY <1>1, <1>2, LooseNotPublished, GiveUpStep DEF IInv, TypeInv

LEMMA LinkFailsStep ==
    ASSUME IInv, NEW h \in Handles, LinkFails(h)
    PROVE  IInv'
<1>1. /\ Abandon(h) /\ UNCHANGED resolver /\ faults' \in 0..MaxFaults
      /\ task[h].pc = "link" /\ temps' \subseteq Temps
  BY FaultCount DEF LinkFails, At, IInv, TypeInv
<1>2. CASE SameDirectory
  BY <1>1, <1>2, SameDirectoryGrows, GiveUpStep DEF SameDirectory, IInv, TypeInv
<1>3. CASE \E n \in task[h].todo : /\ NextInOrder(h, n)
                                   /\ NotPublished([dir EXCEPT !.loose = @ \cup {n}])
  BY <1>1, <1>3, LooseNotPublished, GiveUpStep DEF IInv, TypeInv
<1> QED BY <1>2, <1>3 DEF LinkFails

-----------------------------------------------------------------------------
(* Reclamation and power loss.                                              *)

LEMMA EndReclaimStep ==
    ASSUME IInv, NEW h \in Handles, EndReclaim(h)
    PROVE  IInv'
<1>1. /\ Abandon(h) /\ UNCHANGED <<temps, resolver>> /\ faults' \in 0..MaxFaults
      /\ dir' = dir /\ kept' \in {kept, {dir}}
  BY FaultCount DEF EndReclaim, Durably, SameDirectory, IInv, TypeInv
<1>2. Grows /\ FilesStay /\ Held(dir') = Held(dir) /\ kept' \subseteq Directories
  BY <1>1 DEF IInv, TypeInv, AuthorityOpens, Grows, FilesStay, Held, Opens
<1> QED BY <1>1, <1>2, GiveUpStep DEF IInv, TypeInv

LEMMA DeleteFileStep ==
    ASSUME IInv, NEW h \in Handles, DeleteFile(h)
    PROVE  IInv'
<1>1. PICK f \in task[h].doomed :
          /\ CASE f[1] = "pack" -> Visibly([dir EXCEPT !.packs = @ \ {f[2]}]) /\ UNCHANGED temps
               [] f[1] = "catalog" -> Visibly([dir EXCEPT !.catalogs = @ \ {f[2]}])
                                      /\ UNCHANGED temps
               [] f[1] = "temp" -> f[2] \in temps /\ temps' = temps \ {f[2]} /\ SameDirectory
          /\ Move(h, [task[h] EXCEPT !.doomed = @ \ {f}, !.deleted = TRUE])
  BY DEF DeleteFile
<1> DEFINE t == [task[h] EXCEPT !.doomed = @ \ {f}, !.deleted = TRUE]
<1>2. /\ At(h, "deleting") /\ task' = [task EXCEPT ![h] = t] /\ task'[h] = t
      /\ UNCHANGED <<own, acked, settled, exposed, resolver, faults>>
  BY <1>1 DEF DeleteFile, Move, NoNews, IInv, TypeInv
<1>3. HandleInv(h) /\ task[h] \in Task
  BY DEF IInv, TypeInv
<1>4. /\ t \in Task /\ t.pc = "deleting" /\ t.kind = task[h].kind /\ t.job = task[h].job
      /\ t.todo = task[h].todo /\ t.doomed = task[h].doomed \ {f}
  BY <1>2, <1>3 DEF Task, At
<1>5. /\ f[1] \in {"pack", "catalog", "temp"}
      /\ f[1] = "pack" => f[2] \notin dir.head
      /\ f[1] = "catalog" => f[2] # dir.head
  <2>1. task[h].doomed \subseteq (({"pack"} \X Packs) \cup ({"catalog"} \X Catalogs)
                                  \cup ({"temp"} \X Temps))
    BY <1>3 DEF Task
  <2>2. f[1] \in {"pack", "catalog", "temp"}
    BY <2>1
  <2> QED BY <1>2, <1>3, <2>2 DEF HandleInv, DoomedInv
<1>6. /\ Grows /\ dir'.head = dir.head /\ dir'.loose = dir.loose
      /\ kept' \subseteq Directories /\ temps' \subseteq Temps
  <2>1. CASE f[1] = "pack"
    <3> DEFINE d == [dir EXCEPT !.packs = @ \ {f[2]}]
    <3>1. Visibly(d) /\ UNCHANGED temps
      BY <1>1, <2>1
    <3>2. /\ d \in Directories /\ d.head = dir.head /\ d.loose = dir.loose
          /\ d.packs = dir.packs \ {f[2]} /\ d.catalogs = dir.catalogs
      BY DEF IInv, TypeInv, Directories
    <3> HIDE DEF d
    <3>3. Opens(d.head, d)
      BY <1>5, <2>1, <3>2 DEF IInv, TypeInv, AuthorityOpens, Opens
    <3> QED BY <3>1, <3>2, <3>3 DEF Visibly, Grows, IInv, TypeInv
  <2>2. CASE f[1] = "catalog"
    <3> DEFINE d == [dir EXCEPT !.catalogs = @ \ {f[2]}]
    <3>1. Visibly(d) /\ UNCHANGED temps
      BY <1>1, <2>2
    <3>2. /\ d \in Directories /\ d.head = dir.head /\ d.loose = dir.loose
          /\ d.packs = dir.packs /\ d.catalogs = dir.catalogs \ {f[2]}
      BY DEF IInv, TypeInv, Directories
    <3> HIDE DEF d
    <3>3. Opens(d.head, d)
      BY <1>5, <2>2, <3>2 DEF IInv, TypeInv, AuthorityOpens, Opens
    <3> QED BY <3>1, <3>2, <3>3 DEF Visibly, Grows, IInv, TypeInv
  <2>3. CASE f[1] = "temp"
    <3>1. SameDirectory /\ temps' = temps \ {f[2]}
      BY <1>1, <2>3
    <3> QED BY <3>1, SameDirectoryGrows DEF SameDirectory, IInv, TypeInv
  <2> QED BY <1>5, <2>1, <2>2, <2>3
<1> HIDE DEF t
<1>7. Held(dir') = Held(dir)
  BY <1>6 DEF Held
<1>8. OnlyMoves(h) /\ Entitled(h)
  BY <1>2, <1>6 DEF OnlyMoves, Entitled, Deleting, At, IInv, TypeInv
<1>9. TypeInv'
  BY <1>2, <1>4, <1>6 DEF IInv, TypeInv, Grows
<1>10. LockInv'
  BY <1>2, <1>4, <1>8, LockKeeps DEF Locked, Deleting, Writers, At
<1>11. HeldInv'
  BY <1>2, <1>6, <1>7, HeldKeeps
<1>12. HandleInv(h)'
  <2>1. KindInv(h)' /\ PlanInv(h)' /\ DoomedInv(h)'
    BY <1>2, <1>3, <1>4, <1>6 DEF HandleInv, KindInv, PlanInv, DoomedInv, At
  <2>2. CatalogInv(h)' /\ OwnInv(h)'
    BY <1>2, <1>3, <1>4, <1>6 DEF HandleInv, CatalogInv, OwnInv, Readable, At
  <2>3. JobInv(h)'
    BY <1>2, <1>3, <1>4, <1>6, <1>7 DEF HandleInv, JobInv, At
  <2> QED BY <2>1, <2>2, <2>3 DEF HandleInv
<1> QED BY <1>6, <1>8, <1>9, <1>10, <1>11, <1>12, StepKeeps

LEMMA PowerLossStep ==
    ASSUME IInv, PowerLoss
    PROVE  IInv'
<1>1. PICK d \in kept : Durably(d)
  BY DEF PowerLoss
<1>2. /\ dir' = d /\ kept' = {d} /\ d \in Directories /\ Opens(d.head, d)
  BY <1>1 DEF Durably, IInv, TypeInv, AuthorityOpens
<1>3. /\ temps' \subseteq Temps /\ faults' \in 0..MaxFaults
      /\ resolver' = [h \in Handles |-> Unknown]
      /\ task' = [h \in Handles |-> Idle]
      /\ own' = [h \in Handles |-> {}]
      /\ UNCHANGED <<acked, settled, exposed>>
  BY FaultCount DEF PowerLoss, IInv, TypeInv
<1>4. TypeInv'
  BY <1>2, <1>3, IdleTask DEF IInv, TypeInv
<1>5. LockInv'
  BY <1>3, IdleTask DEF LockInv, Locked, Deleting, Writers
<1>6. AuthorityOpens'
  BY <1>2 DEF AuthorityOpens, Opens
<1>7. HeldInv'
  BY <1>2, <1>3 DEF IInv, HeldInv, Held
<1>8. ASSUME NEW h \in Handles
      PROVE  HandleInv(h)'
  <2>1. task'[h] = Idle /\ resolver'[h] = Unknown /\ OwnInv(h)'
    BY <1>3, IdleTask DEF OwnInv, At
  <2> QED BY <2>1, IdleHandle
<1> QED BY <1>4, <1>5, <1>6, <1>7, <1>8 DEF IInv

-----------------------------------------------------------------------------
LEMMA InitIInv == Init => IInv
<1> SUFFICES ASSUME Init PROVE IInv OBVIOUS
<1>1. TypeInv
  BY StoreAssumption, IdleTask DEF Init, TypeInv, Directories, Catalogs, NoHead
<1>2. LockInv
  BY IdleTask DEF Init, LockInv, Locked, Deleting, Writers
<1>3. AuthorityOpens /\ HeldInv
  BY DEF Init, AuthorityOpens, HeldInv, Held, Opens, NoHead
<1>4. \A h \in Handles : HandleInv(h)
  BY IdleTask DEF Init, HandleInv, KindInv, CatalogInv, PlanInv, JobInv, OwnInv,
                  DoomedInv, At
<1> QED BY <1>1, <1>2, <1>3, <1>4 DEF IInv

LEMMA StepIInv == IInv /\ [Next]_vars => IInv'
<1> SUFFICES ASSUME IInv, [Next]_vars PROVE IInv' OBVIOUS
<1>1. ASSUME NEW h \in Handles, NEW J \in Jobs,
             (\E k \in Kinds : BeginPublication(h, k, J)) \/ BeginRemove(h, J)
      PROVE  IInv'
  BY <1>1, BeginPublicationStep, BeginRemoveStep
<1>2. ASSUME NEW h \in Handles, BeginLookup(h) \/ Die(h)
      PROVE  IInv'
  BY <1>2, BeginLookupStep, DieStep
<1>3. ASSUME NEW h \in Handles, PackedStep(h)
      PROVE  IInv'
  BY <1>3, OpenStep, AlreadyPackedStep, PlanPacksStep, FallBackStep, PublishPackStep,
     PublishCatalogStep, PrerequisiteFailsStep, SwitchHeadStep, HeadRefusedStep,
     HeadSyncedStep
  DEF PackedStep
<1>4. ASSUME NEW h \in Handles, LooseStep(h)
      PROVE  IInv'
  BY <1>4, LockLooseStep, PublishLooseStep, LooseFailsStep, StageTempStep, LinkTempStep,
     LinkFailsStep
  DEF LooseStep
<1>5. ASSUME NEW h \in Handles, ReclaimStep(h)
      PROVE  IInv'
  BY <1>5, BeginReclaimStep, DeleteFileStep, EndReclaimStep, ReclaimSyncFailsStep
  DEF ReclaimStep
<1>6. CASE PowerLoss
  BY <1>6, PowerLossStep
<1>7. CASE UNCHANGED vars
  <2>1. TypeInv' /\ LockInv' /\ AuthorityOpens' /\ HeldInv'
    BY <1>7 DEF vars, IInv, TypeInv, LockInv, Locked, Deleting, Writers, AuthorityOpens,
                Opens, HeldInv, Held
  <2>2. \A h \in Handles : HandleInv(h)'
    BY <1>7 DEF vars, IInv, HandleInv, KindInv, CatalogInv, PlanInv, JobInv, OwnInv,
                DoomedInv, At, Opens, Held, Readable
  <2> QED BY <2>1, <2>2 DEF IInv
<1> QED BY <1>1, <1>2, <1>3, <1>4, <1>5, <1>6, <1>7 DEF Next

LEMMA Invariance == Spec => []IInv
BY InitIInv, StepIInv, PTL DEF Spec

-----------------------------------------------------------------------------
(* The theorems.                                                            *)

\* A set whose members are all equal has at most one.
LEMMA AtMostOne ==
    ASSUME NEW S, \A x, y \in S : x = y
    PROVE  Cardinality(S) <= 1
<1>1. CASE S = {}
  BY <1>1, FS_EmptySet
<1>2. CASE S # {}
  <2>1. PICK x \in S : S = {x}
    BY <1>2
  <2> QED BY <2>1, FS_Singleton
<1> QED BY <1>1, <1>2

\* Every step keeps the types; a reclamation runs beside no publication and no
\* reader that holds the lock, and one mutation runs at a time.
THEOREM TypeCorrect == Spec => []TypeOK
<1>1. IInv => TypeOK
  <2> SUFFICES ASSUME IInv PROVE TypeOK OBVIOUS
  <2>1. Cardinality(Deleting) <= 1 /\ Cardinality(Writers) <= 1
    BY AtMostOne DEF IInv, LockInv
  <2>2. Deleting # {} => Locked = {}
    BY DEF IInv, LockInv
  <2> QED BY <2>1, <2>2 DEF IInv, TypeInv, TypeOK
<1> QED BY <1>1, Invariance, PTL

\* Whatever a power loss leaves, its head names a catalog whose packs are there,
\* for any interleaving of publications, compactions and reclamations.
THEOREM HeadOpens == Spec => []AuthorityOpens
<1>1. IInv => AuthorityOpens
  BY DEF IInv
<1> QED BY <1>1, Invariance, PTL

\* In every directory a power loss may leave, nodes are those it holds.
LEMMA NodesHeld ==
    ASSUME IInv, NEW d \in kept
    PROVE  NodesIn(d) = Held(d)
BY DEF IInv, AuthorityOpens, NodesIn, Held

\* The nodes whose publication returned to a caller after it published them are
\* in every directory a power loss may leave.
THEOREM SettledStays == Spec => []SettledSurvives
<1>1. IInv => SettledSurvives
  BY NodesHeld DEF IInv, HeldInv, SettledSurvives
<1> QED BY <1>1, Invariance, PTL

\* Only an insertion that did not return exposes a node without its children.
THEOREM ChildrenFirst == Spec => []ChildrenBeforeParents
<1>1. IInv => ChildrenBeforeParents
  BY NodesHeld DEF IInv, HeldInv, ChildrenBeforeParents
<1> QED BY <1>1, Invariance, PTL

\* Between reading the head and opening its packs a handle loses none of them.
THEOREM OpeningSucceeds == Spec => []OpeningSeesFiles
<1>1. IInv => OpeningSeesFiles
  BY DEF IInv, HandleInv, CatalogInv, OpeningSeesFiles
<1> QED BY <1>1, Invariance, PTL

\* No reclamation takes a file that a publication will name.
THEOREM PrerequisitesKept == Spec => []PrerequisitesStay
<1>1. IInv => PrerequisitesStay
  BY DEF IInv, HandleInv, PlanInv, PrerequisitesStay
<1> QED BY <1>1, Invariance, PTL

\* No reclamation fails a lookup or a publication that runs beside it.
THEOREM ReclamationSparesUse == Spec => []ReclaimSparesUse
<1>1. OpeningSeesFiles /\ PrerequisitesStay => ReclaimSparesUse
  BY DEF ReclaimSparesUse
<1> QED BY OpeningSucceeds, PrerequisitesKept, <1>1, PTL

\* A handle reads everything it was told is published, whichever handles
\* published, compacted and reclaimed since it read the head.
THEOREM HandlesReadTheirWrites == Spec => []ReadsItsWrites
<1>1. IInv => ReadsItsWrites
  BY DEF IInv, HandleInv, OwnInv, ReadsItsWrites
<1> QED BY <1>1, Invariance, PTL

LEMMA PublicationKeepsHead ==
    ASSUME NEW d, d.head = dir.head, Published(d) \/ NotPublished(d)
    PROVE  dir'.head = dir.head
BY DEF Published, NotPublished, Durably, Visibly, SameDirectory

\* Only the transition changes the head.
LEMMA OnlySwitches ==
    ASSUME IInv, Next, ~ PowerLoss, dir'.head # dir.head
    PROVE  \E h \in Handles : SwitchHead(h)
<1>1. \A P, C, L : /\ [dir EXCEPT !.packs = P].head = dir.head
                   /\ [dir EXCEPT !.catalogs = C].head = dir.head
                   /\ [dir EXCEPT !.loose = L].head = dir.head
  BY DEF IInv, TypeInv, Directories
<1>2. ~ SameDirectory
  BY DEF SameDirectory
<1>3. ASSUME NEW h \in Handles
      PROVE  /\ \A J \in Jobs : \A k \in Kinds : ~ BeginPublication(h, k, J)
             /\ \A J \in Jobs : ~ BeginRemove(h, J)
             /\ ~ BeginLookup(h) /\ ~ Die(h)
             /\ ~ Open(h) /\ ~ AlreadyPacked(h) /\ ~ PlanPacks(h) /\ ~ FallBack(h)
             /\ ~ HeadRefused(h) /\ ~ HeadFails(h) /\ ~ LockLoose(h) /\ ~ StageTemp(h)
             /\ ~ BeginReclaim(h) /\ ~ ReclaimSyncFails(h)
  BY <1>2 DEF BeginPublication, BeginRemove, BeginLookup, Die, Open, AlreadyPacked,
              PlanPacks, FallBack, HeadRefused, HeadFails, LockLoose, StageTemp,
              BeginReclaim, ReclaimSyncFails
<1>4. ASSUME NEW h \in Handles, HeadSynced(h) \/ EndReclaim(h)
      PROVE  FALSE
  BY <1>2, <1>4 DEF HeadSynced, EndReclaim, Durably
<1>5. ASSUME NEW h \in Handles, PublishPack(h) \/ PublishCatalog(h) \/ PrerequisiteFails(h)
      PROVE  FALSE
  <2>1. PICK d : d.head = dir.head /\ (Published(d) \/ NotPublished(d))
    <3>1. CASE PublishPack(h)
      BY <1>1, <3>1 DEF PublishPack
    <3>2. CASE PublishCatalog(h)
      BY <1>1, <3>2 DEF PublishCatalog
    <3>3. CASE PrerequisiteFails(h)
      BY <1>1, <3>3 DEF PrerequisiteFails
    <3> QED BY <1>5, <3>1, <3>2, <3>3
  <2> QED BY <2>1, PublicationKeepsHead
<1>6. ASSUME NEW h \in Handles, PublishLoose(h) \/ LooseFails(h) \/ LinkTemp(h) \/ LinkFails(h)
      PROVE  FALSE
  <2>1. PICK d : d.head = dir.head /\ (Published(d) \/ NotPublished(d))
    <3>1. \E n : \/ Published([dir EXCEPT !.loose = @ \cup {n}])
                 \/ NotPublished([dir EXCEPT !.loose = @ \cup {n}])
      BY <1>2, <1>6 DEF PublishLoose, LooseFails, LinkTemp, LinkFails
    <3> QED BY <1>1, <3>1
  <2> QED BY <2>1, PublicationKeepsHead
<1>7. ASSUME NEW h \in Handles, DeleteFile(h)
      PROVE  FALSE
  <2>1. PICK f \in task[h].doomed :
            CASE f[1] = "pack" -> Visibly([dir EXCEPT !.packs = @ \ {f[2]}]) /\ UNCHANGED temps
              [] f[1] = "catalog" -> Visibly([dir EXCEPT !.catalogs = @ \ {f[2]}])
                                     /\ UNCHANGED temps
              [] f[1] = "temp" -> f[2] \in temps /\ temps' = temps \ {f[2]} /\ SameDirectory
    BY <1>7 DEF DeleteFile
  <2>2. f[1] \in {"pack", "catalog", "temp"}
    <3>1. task[h] \in Task
      BY DEF IInv, TypeInv
    <3>2. task[h].doomed \subseteq (({"pack"} \X Packs) \cup ({"catalog"} \X Catalogs)
                                    \cup ({"temp"} \X Temps))
      BY <3>1 DEF Task
    <3> QED BY <3>2
  <2>3. \E d : d.head = dir.head /\ Visibly(d)
    BY <1>1, <1>2, <2>1, <2>2
  <2> QED BY <2>3 DEF Visibly
<1> QED BY <1>3, <1>4, <1>5, <1>6, <1>7 DEF Next, PackedStep, LooseStep, ReclaimStep

\* A head is replaced only by one that covers it: no publication from an old
\* catalog takes back what another published.
THEOREM HeadGrows == Spec => HeadOnlyGrows
<1> DEFINE Covers == dir'.head # dir.head =>
                         UNION dir.head \subseteq UNION dir'.head \/ PowerLoss
<1>1. IInv /\ [Next]_vars => [Covers]_vars
  <2> SUFFICES ASSUME IInv, Next, ~ PowerLoss, dir'.head # dir.head
               PROVE  UNION dir.head \subseteq UNION dir'.head
    BY DEF vars
  <2>1. PICK h \in Handles : SwitchHead(h)
    BY OnlySwitches
  <2>2. dir'.head = task[h].plan
    <3>1. [dir EXCEPT !.head = task[h].plan].head = task[h].plan
      BY DEF IInv, TypeInv, Directories
    <3> QED BY <2>1, <3>1 DEF SwitchHead, SameDirectory, Visibly
  <2>3. UNION dir.head \subseteq UNION task[h].plan
    BY <2>1, PlanCovers DEF SwitchHead
  <2> QED BY <2>2, <2>3
<1> QED BY <1>1, Invariance, PTL DEF Spec, HeadOnlyGrows
=============================================================================
