----------------------------- MODULE PackedStore -----------------------------
(***************************************************************************)
(* The physical storage of Patricia nodes in one directory                 *)
(* (packed_patricia.rs, authenticated_patricia.rs).                        *)
(*                                                                         *)
(* A node is a loose file or a member of an immutable pack.  A fixed head  *)
(* names one immutable catalog, a catalog names packs.  A publication puts *)
(* the missing nodes in a new pack, coalesces packs when there are too      *)
(* many, publishes the packs, then the catalog, and replaces the head; when *)
(* the catalog would be too large it publishes loose files.  Handles share  *)
(* the directory: publishers and readers hold a shared lock, reclamation of *)
(* unreachable files an exclusive one.  A handle keeps the catalog it read. *)
(*                                                                         *)
(* The host serializes publications with its writer lease.  A pack is its  *)
(* set of nodes and a catalog its set of packs; both are named by content. *)
(***************************************************************************)
EXTENDS Naturals, FiniteSets

CONSTANTS
    Handles,       \* open stores over the directory
    Packers,       \* the handles whose publisher permits a packed head
    Nodes,         \* node digests
    Kids,          \* the children of each node
    Jobs,          \* the node sets one mutation may stage
    Kinds,         \* the mutations made: of "insert", "construct", "remove"
    Reclaims,      \* whether unreachable files are ever reclaimed
    Temps,         \* names of temporary files
    Unknown,       \* a handle that has not read the head
    TierLimit,     \* packs a catalog may have before they are coalesced
    CatalogLimit,  \* nodes a catalog may hold
    MaxFaults      \* bound on failed steps, process deaths and power losses

ASSUME StoreAssumption ==
    /\ Packers \subseteq Handles
    /\ Kids \in [Nodes -> SUBSET Nodes]
    /\ Jobs \subseteq (SUBSET Nodes) \ {{}}
    /\ Kinds \subseteq {"insert", "construct", "remove"}
    /\ TierLimit \in Nat /\ CatalogLimit \in Nat /\ MaxFaults \in Nat
    /\ Reclaims \in BOOLEAN
    /\ \A c \in SUBSET SUBSET Nodes : c # Unknown

VARIABLES
    dir,       \* the directory as every process sees it
    kept,      \* the directories a power loss may leave
    temps,     \* temporary files (their loss or survival matters to no reader)
    resolver,  \* the catalog each handle holds in memory, or Unknown
    task,      \* what each handle is doing
    faults,    \* faults so far
    own,       \* what each handle was told is published since it opened
    acked,     \* what some handle was told is published
    settled,   \* what was acknowledged after a publication of its own
    exposed    \* what insertions were publishing parents first when they failed

vars == <<dir, kept, temps, resolver, task, faults, own, acked, settled, exposed>>

Packs == (SUBSET Nodes) \ {{}}
Catalogs == SUBSET Packs

\* The head before the first packed publication: no catalog, so no packs.
NoHead == {}

Directories == [head : Catalogs, loose : SUBSET Nodes,
                packs : SUBSET Packs, catalogs : SUBSET Catalogs]

Idle == [pc |-> "idle", kind |-> "none", job |-> {}, todo |-> {}, left |-> {},
         plan |-> {}, seen |-> {}, temp |-> {}, doomed |-> {}, deleted |-> FALSE]

\* A head that every reader can open: the catalog and its packs are there.
Opens(c, d) == c = NoHead \/ (c \in d.catalogs /\ c \subseteq d.packs)

NodesIn(d) == d.loose \cup (IF Opens(d.head, d) THEN UNION d.head ELSE {})

\* What a lookup of h finds: a loose file, or a node of the catalog it holds
\* (of the current one when it has to read the head first).
Readable(h) ==
    dir.loose \cup UNION (IF resolver[h] = Unknown THEN dir.head ELSE resolver[h])

Locked == {h \in Handles : task[h].pc \in {"opening", "plan", "packs", "head", "barrier", "loose"}}
Deleting == {h \in Handles : task[h].pc = "deleting"}
Writers == {h \in Handles : task[h].kind \in Kinds}

\* Five packs of one size tier are coalesced when the tier may hold four.
Coalesce(c) == IF Cardinality(c) > TierLimit THEN {UNION c} ELSE c

Init ==
    /\ dir = [head |-> NoHead, loose |-> {}, packs |-> {}, catalogs |-> {}]
    /\ kept = {dir}
    /\ temps = {}
    /\ resolver = [h \in Handles |-> Unknown]
    /\ task = [h \in Handles |-> Idle]
    /\ faults = 0
    /\ own = [h \in Handles |-> {}]
    /\ acked = {} /\ settled = {} /\ exposed = {}

-----------------------------------------------------------------------------
(* The directory: a barrier makes all of its names durable.                *)

Durably(d) == dir' = d /\ kept' = {d}
Visibly(d) == dir' = d /\ kept' = kept \cup {d}
SameDirectory == UNCHANGED <<dir, kept>>

\* One publication by the host's publisher, which is durable when it succeeds
\* (ImmutablePublication); when it fails the file may be there, unsynced.
Published(d) == Durably(d)
NotPublished(d) == SameDirectory \/ Visibly(d)

At(h, where) == task[h].pc = where
Move(h, t) == task' = [task EXCEPT ![h] = t]
Step(h, where) == Move(h, [task[h] EXCEPT !.pc = where])

Acknowledge(h) ==
    /\ Move(h, Idle)
    /\ own' = [own EXCEPT ![h] = @ \cup task[h].job]
    /\ acked' = acked \cup task[h].job
Settle(h) ==
    /\ Acknowledge(h)
    /\ settled' = settled \cup task[h].job
    /\ exposed' = exposed \ task[h].job
NoNews == UNCHANGED <<own, acked, settled, exposed>>

Fault == faults < MaxFaults /\ faults' = faults + 1

\* The operation of h returns an error: its locks are released.
Abandon(h) == Move(h, Idle) /\ NoNews

-----------------------------------------------------------------------------
(* Beginning an operation, and the shared lock.                            *)

\* lock_shared returns when no reclamation holds the lock; a handle without a
\* catalog reads the head under it, the catalog and its packs afterwards.
Lock(h, t) ==
    /\ Deleting = {}
    /\ Move(h, IF resolver[h] = Unknown
               THEN [t EXCEPT !.pc = "opening", !.seen = dir.head]
               ELSE [t EXCEPT !.pc = "plan"])

\* insert_many and construction publish what they staged: the nodes of a job,
\* whose other children are already readable.  The writer lease is free.
BeginPublication(h, k, J) ==
    /\ At(h, "idle") /\ Writers = {}
    /\ k \in Kinds \ {"remove"}
    /\ \A n \in J : Kids[n] \subseteq J \cup Readable(h)
    /\ IF h \in Packers
       THEN Lock(h, [Idle EXCEPT !.kind = k, !.job = J, !.todo = J])
       ELSE Move(h, [Idle EXCEPT !.pc = "waiting", !.kind = k, !.job = J, !.todo = J])
    /\ SameDirectory /\ NoNews /\ UNCHANGED <<temps, resolver, faults>>

\* A lookup of a handle that holds no catalog reads the head first.
BeginLookup(h) ==
    /\ At(h, "idle") /\ resolver[h] = Unknown
    /\ Lock(h, [Idle EXCEPT !.kind = "lookup"])
    /\ SameDirectory /\ NoNews /\ UNCHANGED <<temps, resolver, faults>>

LockLoose(h) ==
    /\ At(h, "waiting") /\ Deleting = {}
    /\ Step(h, "loose")
    /\ exposed' = IF task[h].kind = "insert" THEN exposed \cup task[h].job ELSE exposed
    /\ SameDirectory /\ UNCHANGED <<own, acked, settled>> /\ UNCHANGED <<temps, resolver, faults>>

\* open_catalog opens every pack the catalog names (it fails when one is gone,
\* which OpeningSeesFiles excludes).
Open(h) ==
    /\ At(h, "opening")
    /\ Opens(task[h].seen, dir)
    /\ resolver' = [resolver EXCEPT ![h] = task[h].seen]
    /\ IF task[h].kind = "lookup" THEN Move(h, Idle) ELSE Step(h, "plan")
    /\ SameDirectory /\ NoNews /\ UNCHANGED <<temps, faults>>

-----------------------------------------------------------------------------
(* The packed publication.                                                 *)

Delta(h) == task[h].job \ UNION resolver[h]
Appended(h) == Coalesce(resolver[h] \cup {Delta(h)})
Fits(c) == Cardinality(UNION c) <= CatalogLimit

\* Every node is in the catalog already: success, with nothing published.
AlreadyPacked(h) ==
    /\ At(h, "plan") /\ Delta(h) = {}
    /\ Acknowledge(h) /\ UNCHANGED <<settled, exposed>>
    /\ SameDirectory /\ UNCHANGED <<temps, resolver, faults>>

\* Mutant: only the pack of new nodes is published, not the coalesced one.
PlanDeltaOnly(h) ==
    /\ At(h, "plan") /\ Delta(h) # {} /\ Fits(Appended(h))
    /\ Move(h, [task[h] EXCEPT !.pc = "packs", !.plan = Appended(h),
                               !.left = {Delta(h)} \cap Appended(h)])
    /\ SameDirectory /\ NoNews /\ UNCHANGED <<temps, resolver, faults>>

PlanPacks(h) ==
    /\ At(h, "plan") /\ Delta(h) # {} /\ Fits(Appended(h))
    /\ Move(h, [task[h] EXCEPT !.pc = "packs", !.plan = Appended(h),
                               !.left = Appended(h) \ resolver[h]])
    /\ SameDirectory /\ NoNews /\ UNCHANGED <<temps, resolver, faults>>

\* Over capacity: the lock is released and taken again for loose files.  A
\* construction may also exceed its memory budget, with or without a catalog.
FallBack(h) ==
    /\ \/ At(h, "plan") /\ Delta(h) # {} /\ ~Fits(Appended(h))
       \/ task[h].pc \in {"opening", "plan"} /\ task[h].kind = "construct"
    /\ Step(h, "waiting")
    /\ SameDirectory /\ NoNews /\ UNCHANGED <<temps, resolver, faults>>

PublishPack(h) ==
    /\ At(h, "packs")
    /\ \E p \in task[h].left :
        /\ Published([dir EXCEPT !.packs = @ \cup {p}])
        /\ Move(h, [task[h] EXCEPT !.left = @ \ {p}])
    /\ NoNews /\ UNCHANGED <<temps, resolver, faults>>

PublishCatalog(h) ==
    /\ At(h, "packs") /\ task[h].left = {}
    /\ Published([dir EXCEPT !.catalogs = @ \cup {task[h].plan}])
    /\ Step(h, "head")
    /\ NoNews /\ UNCHANGED <<temps, resolver, faults>>

PrerequisiteFails(h) ==
    /\ At(h, "packs") /\ Fault
    /\ \/ \E p \in task[h].left : NotPublished([dir EXCEPT !.packs = @ \cup {p}])
       \/ /\ task[h].left = {}
          /\ NotPublished([dir EXCEPT !.catalogs = @ \cup {task[h].plan}])
    /\ Abandon(h) /\ UNCHANGED <<temps, resolver>>

\* transition_regular_exact: the plan may be installed already, and only the
\* head the handle's catalog came from may be replaced.
SwitchHead(h) ==
    /\ At(h, "head")
    /\ dir.head \in {task[h].plan, resolver[h]}
    /\ IF dir.head = task[h].plan
       THEN SameDirectory
       ELSE Visibly([dir EXCEPT !.head = task[h].plan])
    /\ Step(h, "barrier")
    /\ NoNews /\ UNCHANGED <<temps, resolver, faults>>

\* Mutant: the handle goes on with the catalog it had.
KeepCatalog(h, c) ==
    resolver' = [resolver EXCEPT ![h] = IF task[h].kind = "construct" THEN Unknown ELSE @]

\* A construction drops its catalog once the transition was tried.
AfterTransition(h, c) ==
    resolver' = [resolver EXCEPT ![h] = IF task[h].kind = "construct" THEN Unknown ELSE c]

\* UnexpectedHead: an insert keeps the catalog it had.
HeadRefused(h) ==
    /\ At(h, "head")
    /\ dir.head \notin {task[h].plan, resolver[h]}
    /\ AfterTransition(h, resolver[h])
    /\ Abandon(h)
    /\ SameDirectory /\ UNCHANGED <<temps, faults>>

HeadFails(h) ==
    /\ task[h].pc \in {"head", "barrier"} /\ Fault
    /\ AfterTransition(h, resolver[h])
    /\ Abandon(h)
    /\ SameDirectory /\ UNCHANGED temps

\* Mutant: success without the directory barrier.
HeadNotSynced(h) ==
    /\ At(h, "barrier")
    /\ SameDirectory
    /\ AfterTransition(h, task[h].plan)
    /\ Settle(h)
    /\ UNCHANGED <<temps, faults>>

HeadSynced(h) ==
    /\ At(h, "barrier")
    /\ Durably(dir)
    /\ AfterTransition(h, task[h].plan)
    /\ Settle(h)
    /\ UNCHANGED <<temps, faults>>

-----------------------------------------------------------------------------
(* Loose publication.                                                      *)

\* Mutant: every mutation publishes in the order of an insertion.
AnyOrder(h, n) == n \in task[h].todo

\* A construction or removal publishes children first.  An insertion starts at
\* its roots and goes on with their children; roots may share nodes, so that
\* no order is excluded.
NextInOrder(h, n) == task[h].kind # "insert" => Kids[n] \cap task[h].todo = {}

PublishLoose(h) ==
    /\ At(h, "loose")
    /\ \E n \in task[h].todo :
        /\ NextInOrder(h, n)
        /\ Published([dir EXCEPT !.loose = @ \cup {n}])
        /\ IF task[h].todo = {n} THEN Settle(h)
           ELSE Move(h, [task[h] EXCEPT !.todo = @ \ {n}]) /\ NoNews
    /\ UNCHANGED <<temps, resolver, faults>>

LooseFails(h) ==
    /\ At(h, "loose") /\ Fault
    /\ \E n \in task[h].todo : /\ NextInOrder(h, n)
                               /\ NotPublished([dir EXCEPT !.loose = @ \cup {n}])
    /\ Abandon(h) /\ UNCHANGED <<temps, resolver>>

-----------------------------------------------------------------------------
(* remove_many publishes the rebuilt ancestors one by one, children first, *)
(* and takes no lock.                                                      *)

BeginRemove(h, J) ==
    /\ At(h, "idle") /\ Writers = {}
    /\ "remove" \in Kinds
    /\ \A n \in J : Kids[n] \subseteq J \cup Readable(h)
    /\ Move(h, [Idle EXCEPT !.pc = "rebuild", !.kind = "remove", !.job = J, !.todo = J])
    /\ SameDirectory /\ NoNews /\ UNCHANGED <<temps, resolver, faults>>

StageTemp(h) ==
    /\ At(h, "rebuild")
    /\ \E t \in Temps \ temps :
        /\ \A g \in Deleting : <<"temp", t>> \notin task[g].doomed  \* a fresh name
        /\ temps' = temps \cup {t}
        /\ Move(h, [task[h] EXCEPT !.pc = "link", !.temp = {t}])
    /\ SameDirectory /\ NoNews /\ UNCHANGED <<resolver, faults>>

LinkTemp(h) ==
    /\ At(h, "link") /\ task[h].temp \subseteq temps
    /\ temps' = temps \ task[h].temp
    /\ \E n \in task[h].todo :
        /\ NextInOrder(h, n)
        /\ Published([dir EXCEPT !.loose = @ \cup {n}])
        /\ IF task[h].todo = {n} THEN Settle(h)
           ELSE /\ Move(h, [task[h] EXCEPT !.pc = "rebuild", !.todo = @ \ {n}, !.temp = {}])
                /\ NoNews
    /\ UNCHANGED <<resolver, faults>>

\* The temporary is gone, or a step of its publication fails; what is left of
\* it is removed.
LinkFails(h) ==
    /\ At(h, "link")
    /\ \/ Fault /\ task[h].temp \subseteq temps
          /\ \E n \in task[h].todo : /\ NextInOrder(h, n)
                                     /\ NotPublished([dir EXCEPT !.loose = @ \cup {n}])
       \/ ~(task[h].temp \subseteq temps) /\ SameDirectory /\ UNCHANGED faults
    /\ temps' = temps \ task[h].temp
    /\ Abandon(h) /\ UNCHANGED resolver

-----------------------------------------------------------------------------
(* Reclamation of the packs, catalogs and temporaries the head does not     *)
(* reach.                                                                  *)

Garbage ==
    {<<"pack", p>> : p \in dir.packs \ dir.head}
        \cup {<<"catalog", c>> : c \in dir.catalogs \ {dir.head}}
        \cup {<<"temp", t>> : t \in temps}

\* Mutant: a reclamation that only readers keep out.
ReclaimBesidePublishers(h) ==
    /\ At(h, "idle") /\ Reclaims
    /\ \A g \in Handles : ~At(g, "opening")
    /\ dir.head # NoHead /\ Opens(dir.head, dir) /\ Garbage # {}
    /\ Move(h, [Idle EXCEPT !.pc = "deleting", !.kind = "reclaim", !.doomed = Garbage])
    /\ SameDirectory /\ NoNews /\ UNCHANGED <<temps, resolver, faults>>
\* try_lock_exclusive never waits: with a lock held elsewhere it answers Busy.
\* Without a head, or with one that does not open, nothing is scanned.
BeginReclaim(h) ==
    /\ At(h, "idle") /\ Reclaims
    /\ Locked = {} /\ Deleting = {}
    /\ dir.head # NoHead /\ Opens(dir.head, dir)
    /\ Garbage # {}
    /\ Move(h, [Idle EXCEPT !.pc = "deleting", !.kind = "reclaim", !.doomed = Garbage])
    /\ SameDirectory /\ NoNews /\ UNCHANGED <<temps, resolver, faults>>

DeleteFile(h) ==
    /\ At(h, "deleting")
    /\ \E f \in task[h].doomed :
        /\ CASE f[1] = "pack" -> Visibly([dir EXCEPT !.packs = @ \ {f[2]}]) /\ UNCHANGED temps
             [] f[1] = "catalog" -> Visibly([dir EXCEPT !.catalogs = @ \ {f[2]}]) /\ UNCHANGED temps
             [] f[1] = "temp" -> f[2] \in temps /\ temps' = temps \ {f[2]} /\ SameDirectory
        /\ Move(h, [task[h] EXCEPT !.doomed = @ \ {f}, !.deleted = TRUE])
    /\ NoNews /\ UNCHANGED <<resolver, faults>>

\* The end, or a file that cannot be deleted (a temporary renamed meanwhile):
\* the deletions so far are synced.
EndReclaim(h) ==
    /\ At(h, "deleting")
    /\ \/ task[h].doomed = {} /\ UNCHANGED faults
       \/ (\E t \in Temps \ temps : <<"temp", t>> \in task[h].doomed) /\ UNCHANGED faults
       \/ Fault
    /\ IF task[h].deleted THEN Durably(dir) ELSE SameDirectory
    /\ Abandon(h) /\ UNCHANGED <<temps, resolver>>

ReclaimSyncFails(h) ==
    /\ At(h, "deleting") /\ task[h].deleted /\ Fault
    /\ Abandon(h)
    /\ SameDirectory /\ UNCHANGED <<temps, resolver>>

-----------------------------------------------------------------------------
(* The death of a process, and a power loss.                               *)

Die(h) ==
    /\ Fault
    /\ resolver[h] # Unknown \/ ~At(h, "idle")
    /\ Move(h, Idle)
    /\ resolver' = [resolver EXCEPT ![h] = Unknown]
    /\ own' = [own EXCEPT ![h] = {}]
    /\ SameDirectory /\ UNCHANGED <<temps, acked, settled, exposed>>

PowerLoss ==
    /\ Fault
    /\ \E d \in kept : Durably(d)
    /\ \E left \in SUBSET temps : temps' = left
    /\ resolver' = [h \in Handles |-> Unknown]
    /\ task' = [h \in Handles |-> Idle]
    /\ own' = [h \in Handles |-> {}]
    /\ UNCHANGED <<acked, settled, exposed>>

-----------------------------------------------------------------------------
PackedStep(h) ==
    \/ Open(h) \/ AlreadyPacked(h) \/ PlanPacks(h) \/ FallBack(h)
    \/ PublishPack(h) \/ PublishCatalog(h) \/ PrerequisiteFails(h)
    \/ SwitchHead(h) \/ HeadRefused(h) \/ HeadFails(h) \/ HeadSynced(h)

LooseStep(h) ==
    \/ LockLoose(h) \/ PublishLoose(h) \/ LooseFails(h)
    \/ StageTemp(h) \/ LinkTemp(h) \/ LinkFails(h)

ReclaimStep(h) ==
    \/ BeginReclaim(h) \/ DeleteFile(h) \/ EndReclaim(h) \/ ReclaimSyncFails(h)

Next ==
    \/ \E h \in Handles :
        \/ \E J \in Jobs : (\E k \in Kinds : BeginPublication(h, k, J)) \/ BeginRemove(h, J)
        \/ BeginLookup(h)
        \/ PackedStep(h) \/ LooseStep(h) \/ ReclaimStep(h)
        \/ Die(h)
    \/ PowerLoss

Spec == Init /\ [][Next]_vars

-----------------------------------------------------------------------------
Task == [pc : {"idle", "opening", "plan", "packs", "head", "barrier", "waiting", "loose",
               "rebuild", "link", "deleting"},
         kind : {"none", "lookup", "reclaim"} \cup Kinds,
         job : SUBSET Nodes, todo : SUBSET Nodes, left : SUBSET Packs,
         plan : Catalogs, seen : Catalogs, temp : SUBSET Temps,
         doomed : SUBSET (({"pack"} \X Packs) \cup ({"catalog"} \X Catalogs)
                          \cup ({"temp"} \X Temps)),
         deleted : BOOLEAN]

\* Type correctness; and the lock and the lease exclude what they must: no
\* reclamation beside a holder of the shared lock, one writer.
TypeOK ==
    /\ dir \in Directories /\ kept \subseteq Directories /\ dir \in kept
    /\ temps \subseteq Temps
    /\ resolver \in [Handles -> Catalogs \cup {Unknown}]
    /\ task \in [Handles -> Task]
    /\ faults \in 0..MaxFaults
    /\ own \in [Handles -> SUBSET Nodes]
    /\ acked \subseteq Nodes /\ settled \subseteq acked /\ exposed \subseteq Nodes
    /\ Deleting # {} => Locked = {}
    /\ Cardinality(Deleting) <= 1 /\ Cardinality(Writers) <= 1

\* Whatever a power loss leaves, and what is there now, has a head whose
\* catalog and packs are all there (publish_appended_catalog publishes packs,
\* then the catalog, then the head; reclamation keeps what the head reaches).
AuthorityOpens == \A d \in kept : Opens(d.head, d)

\* The nodes a caller was told are published, by a call that published them,
\* are there after any power loss.
SettledSurvives == \A d \in kept : settled \subseteq NodesIn(d)

\* What the files of a head were when it was read they still are when its packs
\* are opened: no lookup or publication fails because of a reclamation.
OpeningSeesFiles ==
    \A h \in Handles : At(h, "opening") => Opens(task[h].seen, dir)

\* The packs and the catalog a publication has put in the directory stay there
\* until its head transition, although no head reaches them.
PrerequisitesStay ==
    \A h \in Handles :
        task[h].pc \in {"packs", "head"} =>
            /\ task[h].plan \ (resolver[h] \cup task[h].left) \subseteq dir.packs
            /\ At(h, "head") => task[h].plan \in dir.catalogs

\* Reclamation takes nothing that a reader is opening or a publication will name.
ReclaimSparesUse == OpeningSeesFiles /\ PrerequisitesStay

\* A handle finds every node it was told is published.
ReadsItsWrites == \A h \in Handles : own[h] \subseteq Readable(h)

\* A replaced head reaches everything the old one did: no publication of a
\* handle with an old catalog undoes another's.
HeadOnlyGrows ==
    [][dir'.head # dir.head => UNION dir.head \subseteq UNION dir'.head \/ PowerLoss]_vars

\* A node that is there after any power loss has its children there, unless an
\* insertion was publishing it parents first and did not return: publications
\* of constructions and removals expose no incomplete tree ("Completed children
\* publish before their parent").
ChildrenBeforeParents ==
    \A d \in kept : \A n \in NodesIn(d) \ exposed : Kids[n] \subseteq NodesIn(d)

\* What a construction reported as published is there after any power loss
\* (CompletedPatriciaIndexConstruction is the evidence of it).
AckedSurvives == \A d \in kept : acked \subseteq NodesIn(d)
=============================================================================
