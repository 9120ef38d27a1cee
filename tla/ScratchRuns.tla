----------------------------- MODULE ScratchRuns -----------------------------
(***************************************************************************)
(* The life of scratch runs in one archive (scratch.rs).                   *)
(*                                                                         *)
(* A run is a directory with a marker, a lease, a page file and a blob     *)
(* file.  Whoever holds the run holds an exclusive lock on its lease.      *)
(* Ephemeral runs are removed by their holder, or, when the holder died,   *)
(* by the next process that creates a run.  Retained runs outlive their    *)
(* holder: the host refers to them, adopts them again, clones them from    *)
(* another archive and sweeps those it no longer refers to.  Nothing waits *)
(* for a lease, and every removal takes several steps.                     *)
(*                                                                         *)
(* A handle on a directory that was removed, or removed and made again,    *)
(* finds nothing in it (detached); names are removed by name.              *)
(***************************************************************************)
EXTENDS Naturals, Sequences, FiniteSets

CONSTANTS
    Hosts,      \* processes that use the archive
    Ephemeral,  \* identities of ephemeral runs
    Retained,   \* identities of retained runs
    Migrated,   \* the retained runs that come from another archive
    None,       \* no run, no holder
    MaxFaults   \* bound on process deaths and failed steps

Runs == Ephemeral \cup Retained

ASSUME RunAssumption ==
    /\ Migrated \subseteq Retained /\ Ephemeral \cap Retained = {}
    /\ None \notin Runs \cup Hosts
    /\ MaxFaults \in Nat

VARIABLES
    here,       \* the run directories in the namespace
    files,      \* the files of each run directory
    lease,      \* who has locked the lease of each run
    whole,      \* the runs whose page and blob files were made to their end
    own,        \* the run each host holds open, or None
    task,       \* what each host is doing
    authority,  \* the retained runs the host's durable state refers to
    faults      \* faults so far

vars == <<here, files, lease, whole, own, task, authority, faults>>

Files == {"marker", "lease", "pages", "blobs"}

\* stale: what a pass still owes, the runs that were stale at its beginning, nobody
\* leased since, and no step of the pass failed on.
Idle == [op |-> "none", pc |-> "idle", run |-> None, todo |-> <<>>, strict |-> FALSE,
         detached |-> FALSE, unseen |-> {}, reachable |-> {}, stale |-> {}]

\* What authenticate_scratch_sibling accepts: all four entries (the marker is
\* written first and removed last but the lease).
Complete(r) == r \in here /\ files[r] = Files

Free(r) == lease[r] = None

\* A run whose holder died: the next create_run has to remove it.
Stale(r) == r \in Ephemeral /\ Complete(r) /\ Free(r)

At(h, where) == task[h].pc = where
Sweepers == {h \in Hosts : task[h].op = "sweep"}
Used == {task[h].run : h \in Hosts} \cup {own[h] : h \in Hosts}

\* Hosts that died before may have left their runs.
Init ==
    /\ here \in SUBSET Ephemeral /\ whole = here
    /\ files = [r \in Runs |-> IF r \in here THEN Files ELSE {}]
    /\ lease = [r \in Runs |-> None]
    /\ own = [h \in Hosts |-> None]
    /\ task = [h \in Hosts |-> Idle]
    /\ authority = {}
    /\ faults = 0

Move(h, t) == task' = [task EXCEPT ![h] = t]
Step(h, where) == Move(h, [task[h] EXCEPT !.pc = where])
SameFiles == UNCHANGED <<here, files>>
Fault == faults < MaxFaults /\ faults' = faults + 1

\* Closing the lease file releases its lock.
Release(h, r) == lease' = [lease EXCEPT ![r] = IF @ = h THEN None ELSE @]

\* h goes on to t; what others saw of r when their pass began is past.
NotStale(h, r, t) ==
    [g \in Hosts |-> IF g = h THEN t ELSE [task[g] EXCEPT !.stale = @ \ {r}]]

-----------------------------------------------------------------------------
(* Construction: a new run, or the clone of one from another archive.      *)

\* The files of a run are made in this order; the lock comes before the run is
\* complete.
FollowedBy(pc) == [marker |-> "lease", lease |-> "lock", lock |-> "pages",
                   pages |-> "blobs", blobs |-> "built"][pc]

MakeDir(h, r, op) ==
    /\ At(h, "idle") /\ own[h] = None
    /\ r \notin here
    /\ here' = here \cup {r} /\ files' = [files EXCEPT ![r] = {}]
    /\ task' = NotStale(h, r, [Idle EXCEPT !.op = op, !.pc = "marker", !.run = r])
    /\ lease' = [lease EXCEPT ![r] = None] /\ whole' = whole \ {r}
    /\ UNCHANGED <<own, authority, faults>>

\* A created run has a fresh name, a clone has that of its source, which only
\* the holder of the source's lease can clone.
CreateRun(h, r) == r \notin Migrated \cup authority \cup Used /\ MakeDir(h, r, "create")
CloneRun(h, r) ==
    /\ r \in Migrated \ authority /\ \A g \in Hosts : task[g].op = "clone" => task[g].run # r
    /\ MakeDir(h, r, "clone")

MakeFile(h) ==
    /\ task[h].pc \in Files /\ ~task[h].detached
    /\ files' = [files EXCEPT ![task[h].run] = @ \cup {task[h].pc}]
    /\ Step(h, FollowedBy(task[h].pc))
    /\ UNCHANGED <<here, lease, whole, own, authority, faults>>

LockLease(h) ==
    /\ At(h, "lock") /\ ~task[h].detached /\ Free(task[h].run)
    /\ lease' = [lease EXCEPT ![task[h].run] = h]
    /\ Step(h, FollowedBy("lock"))
    /\ SameFiles /\ UNCHANGED <<whole, own, authority, faults>>

\* A new run is complete as it is; its creator goes on to the stale siblings.
Built(h) ==
    /\ At(h, "built") /\ task[h].op = "create"
    /\ LET r == task[h].run IN
        /\ own' = [own EXCEPT ![h] = r] /\ whole' = whole \cup {r}
        /\ Move(h, [task[h] EXCEPT !.pc = "pass", !.run = None, !.strict = TRUE,
                                   !.unseen = Runs \ {r},
                                   !.stale = {s \in Runs : Stale(s)}])
    /\ SameFiles /\ UNCHANGED <<lease, authority, faults>>

\* A clone copies both files and checks their lengths.
Copied(h) ==
    /\ At(h, "built") /\ task[h].op = "clone"
    /\ own' = [own EXCEPT ![h] = task[h].run] /\ whole' = whole \cup {task[h].run}
    /\ Move(h, Idle)
    /\ SameFiles /\ UNCHANGED <<lease, authority, faults>>

\* On an error the lease is closed and the partial run, opened again by name,
\* removed, come what may.
BuildFails(h) ==
    /\ task[h].pc \in Files \cup {"lock", "built"}
    /\ \/ Fault
       \/ (task[h].detached \/ (At(h, "lock") /\ ~Free(task[h].run))) /\ UNCHANGED faults
    /\ Release(h, task[h].run)
    /\ Move(h, [task[h] EXCEPT !.pc = "remove", !.strict = FALSE,
                               !.detached = task[h].run \notin here,
                               !.todo = <<"pages", "blobs", "marker", "lease", "dir">>])
    /\ SameFiles /\ UNCHANGED <<whole, own, authority>>

-----------------------------------------------------------------------------
(* Removal, one file after another.  In a pass (strict) an error ends the   *)
(* removal and the pass goes on.                                           *)

Removal == <<"pages", "blobs", "marker", "unlock", "lease", "dir">>

\* What a host does after a removal: go on with its pass, or return.
Resumed(h) ==
    IF task[h].strict
    THEN [task[h] EXCEPT !.pc = "pass", !.run = None, !.todo = <<>>, !.detached = FALSE,
                         !.stale = @ \ {task[h].run}]
    ELSE Idle

Advanced(h) ==
    IF Len(task[h].todo) = 1 THEN Resumed(h) ELSE [task[h] EXCEPT !.todo = Tail(@)]

RemoveFile(h) ==
    /\ At(h, "remove") /\ Head(task[h].todo) \in Files
    /\ LET r == task[h].run  f == Head(task[h].todo)  there == ~task[h].detached /\ f \in files[r] IN
        /\ files' = IF there THEN [files EXCEPT ![r] = @ \ {f}] ELSE files
        /\ IF there \/ ~task[h].strict
           THEN Move(h, Advanced(h)) /\ UNCHANGED lease
           ELSE Move(h, Resumed(h)) /\ Release(h, r)
    /\ UNCHANGED <<here, whole, own, authority, faults>>

Unlock(h) ==
    /\ At(h, "remove") /\ Head(task[h].todo) = "unlock"
    /\ Release(h, task[h].run)
    /\ Move(h, Advanced(h))
    /\ SameFiles /\ UNCHANGED <<whole, own, authority, faults>>

\* remove_dir takes the name, whichever directory it now stands for, and fails
\* on one that is not empty.  Everyone else's handle on it is detached.
RemoveDir(h) ==
    /\ At(h, "remove") /\ Head(task[h].todo) = "dir"
    /\ LET r == task[h].run  removed == r \in here /\ files[r] = {} IN
        /\ here' = IF removed THEN here \ {r} ELSE here
        /\ task' = [g \in Hosts |->
               IF g = h THEN Advanced(h)
               ELSE IF removed /\ task[g].run = r THEN [task[g] EXCEPT !.detached = TRUE]
               ELSE task[g]]
    /\ UNCHANGED <<files, lease, whole, own, authority, faults>>

RemovalFails(h) ==
    /\ At(h, "remove") /\ Head(task[h].todo) # "unlock"
    /\ Fault
    /\ IF task[h].strict
       THEN Move(h, Resumed(h)) /\ Release(h, task[h].run)
       ELSE Move(h, Advanced(h)) /\ UNCHANGED lease
    /\ SameFiles /\ UNCHANGED <<whole, own, authority>>

-----------------------------------------------------------------------------
(* The pass of create_run over stale siblings, and the sweep of retained   *)
(* runs outside a reachable set the host has established.                  *)

\* The host's contract: its references do not change while it sweeps.
BeginSweep(h) ==
    /\ At(h, "idle") /\ Sweepers = {}
    /\ Move(h, [Idle EXCEPT !.op = "sweep", !.pc = "pass", !.strict = TRUE, !.unseen = Runs,
                            !.reachable = authority])
    /\ SameFiles /\ UNCHANGED <<lease, whole, own, authority, faults>>

\* Mutant: a sweep takes every retained run it can lock.
DoomedRetained(h, r) == IF task[h].op = "create" THEN r \in Ephemeral ELSE r \in Retained

\* Which complete siblings a pass would remove if their lease is free.
Doomed(h, r) ==
    IF task[h].op = "create" THEN r \in Ephemeral
    ELSE r \in Retained \ task[h].reachable

\* Its marker and entries are read, without the lock.
Classify(h, r) ==
    /\ At(h, "pass") /\ r \in task[h].unseen \cap here
    /\ Move(h, IF Complete(r) /\ Doomed(h, r)
               THEN [task[h] EXCEPT !.pc = "leasing", !.run = r, !.unseen = @ \ {r}]
               ELSE [task[h] EXCEPT !.unseen = @ \ {r}])
    /\ SameFiles /\ UNCHANGED <<lease, whole, own, authority, faults>>

\* Mutant: the first error ends the pass.
ClassifyFailsAll(h, r) ==
    /\ At(h, "pass") /\ r \in task[h].unseen \cap here
    /\ Fault
    /\ Move(h, [task[h] EXCEPT !.unseen = {}, !.stale = @ \ {r}])
    /\ SameFiles /\ UNCHANGED <<lease, whole, own, authority>>

\* A sibling whose entry, marker or files cannot be read stays (Unclassified),
\* and the pass goes on to the next.
ClassifyFails(h, r) ==
    /\ At(h, "pass") /\ r \in task[h].unseen \cap here
    /\ Fault
    /\ Move(h, [task[h] EXCEPT !.unseen = @ \ {r}, !.stale = @ \ {r}])
    /\ SameFiles /\ UNCHANGED <<lease, whole, own, authority>>

\* Mutant: the lock is ignored.
LockableAnyway(h, r) == ~task[h].detached /\ "lease" \in files[r]

\* The lease is opened and locked without waiting; a run that is held, or gone,
\* is left alone, and the entries are validated again under the lock.
Lockable(h, r) == ~task[h].detached /\ "lease" \in files[r] /\ Free(r)

TakeStale(h) ==
    /\ At(h, "leasing") /\ Lockable(h, task[h].run)
    /\ LET r == task[h].run IN
        /\ IF Complete(r)
           THEN /\ lease' = [lease EXCEPT ![r] = h]
                /\ task' = NotStale(h, r, [task[h] EXCEPT !.pc = "remove", !.todo = Removal])
           ELSE task' = NotStale(h, r, Resumed(h)) /\ UNCHANGED lease
    /\ SameFiles /\ UNCHANGED <<whole, own, authority, faults>>

\* Mutant: the lock waits for the holder.
WaitForHolder(h) ==
    /\ At(h, "leasing") /\ (task[h].detached \/ "lease" \notin files[task[h].run])
    /\ Move(h, [task[h] EXCEPT !.pc = "pass", !.run = None, !.detached = FALSE])
    /\ SameFiles /\ UNCHANGED <<lease, whole, own, authority, faults>>

LeaveAlone(h) ==
    /\ At(h, "leasing") /\ ~Lockable(h, task[h].run)
    /\ Move(h, [task[h] EXCEPT !.pc = "pass", !.run = None, !.detached = FALSE])
    /\ SameFiles /\ UNCHANGED <<lease, whole, own, authority, faults>>

\* An error of opening or locking the lease leaves the sibling too.
LeaseFails(h) ==
    /\ At(h, "leasing") /\ Fault
    /\ Move(h, Resumed(h))
    /\ SameFiles /\ UNCHANGED <<lease, whole, own, authority>>

\* When the namespace cannot be listed, or not to its end, the pass ends there:
\* the new run is returned all the same.
ListingFails(h) ==
    /\ At(h, "pass") /\ Fault
    /\ Move(h, Idle)
    /\ SameFiles /\ UNCHANGED <<lease, whole, own, authority>>

EndPass(h) ==
    /\ At(h, "pass") /\ task[h].unseen \cap here = {}
    /\ Move(h, Idle)
    /\ SameFiles /\ UNCHANGED <<lease, whole, own, authority, faults>>

-----------------------------------------------------------------------------
(* Adoption, the host's references, and letting go.                        *)

\* The host adopts runs its durable state refers to.
AdoptLease(h, r) ==
    /\ At(h, "idle") /\ own[h] = None
    /\ r \in authority \cap here /\ "lease" \in files[r] /\ Free(r)
    /\ lease' = [lease EXCEPT ![r] = h]
    /\ task' = NotStale(h, r, [Idle EXCEPT !.op = "adopt", !.pc = "adopting", !.run = r])
    /\ SameFiles /\ UNCHANGED <<whole, own, authority, faults>>

Adopt(h) ==
    /\ At(h, "adopting") /\ ~task[h].detached /\ Complete(task[h].run)
    /\ own' = [own EXCEPT ![h] = task[h].run]
    /\ Move(h, Idle)
    /\ SameFiles /\ UNCHANGED <<lease, whole, authority, faults>>

AdoptFails(h) ==
    /\ At(h, "adopting")
    /\ IF task[h].detached \/ ~Complete(task[h].run) THEN UNCHANGED faults ELSE Fault
    /\ Release(h, task[h].run)
    /\ Move(h, Idle)
    /\ SameFiles /\ UNCHANGED <<whole, own, authority>>

\* References come and go while no sweep runs; only a run in hand gets one.
Refer(h) ==
    /\ own[h] \in Retained \ authority /\ At(h, "idle") /\ Sweepers = {}
    /\ authority' = authority \cup {own[h]}
    /\ SameFiles /\ UNCHANGED <<lease, whole, own, task, faults>>

Forget(r) ==
    /\ r \in authority /\ Sweepers = {}
    /\ authority' = authority \ {r}
    /\ SameFiles /\ UNCHANGED <<lease, whole, own, task, faults>>

\* Dropping a handle: an ephemeral run is removed, a retained one unlocked.
Drop(h) ==
    /\ At(h, "idle") /\ own[h] # None
    /\ own' = [own EXCEPT ![h] = None]
    /\ IF own[h] \in Ephemeral
       THEN Move(h, [Idle EXCEPT !.op = "drop", !.pc = "remove", !.run = own[h],
                                 !.todo = Removal])
            /\ UNCHANGED lease
       ELSE Release(h, own[h]) /\ UNCHANGED task
    /\ SameFiles /\ UNCHANGED <<whole, authority, faults>>

\* A process that dies loses its locks and leaves its files.
Die(h) ==
    /\ Fault /\ (own[h] # None \/ ~At(h, "idle"))
    /\ lease' = [r \in Runs |-> IF lease[r] = h THEN None ELSE lease[r]]
    /\ own' = [own EXCEPT ![h] = None]
    /\ Move(h, Idle)
    /\ SameFiles /\ UNCHANGED <<whole, authority>>

-----------------------------------------------------------------------------
Construct(h) == MakeFile(h) \/ LockLease(h) \/ Built(h) \/ Copied(h) \/ BuildFails(h)
Remove(h) == RemoveFile(h) \/ Unlock(h) \/ RemoveDir(h) \/ RemovalFails(h)
Pass(h) ==
    \/ \E r \in Runs : Classify(h, r) \/ ClassifyFails(h, r)
    \/ TakeStale(h) \/ LeaveAlone(h) \/ LeaseFails(h)
    \/ EndPass(h) \/ ListingFails(h)

Continue(h) == Construct(h) \/ Remove(h) \/ Pass(h) \/ Adopt(h) \/ AdoptFails(h)

Next ==
    \/ \E h \in Hosts :
        \/ \E r \in Runs : CreateRun(h, r) \/ CloneRun(h, r) \/ AdoptLease(h, r)
        \/ BeginSweep(h) \/ Refer(h) \/ Drop(h) \/ Die(h)
        \/ Continue(h)
    \/ \E r \in Runs : Forget(r)

Spec == Init /\ [][Next]_vars

\* A host that began an operation goes on with it; it need not begin any.
FairSpec == Spec /\ \A h \in Hosts : WF_vars(Continue(h))

-----------------------------------------------------------------------------
Task == [op : {"none", "create", "clone", "sweep", "adopt", "drop"},
         pc : Files \cup {"idle", "lock", "built", "remove", "pass", "leasing", "adopting"},
         run : Runs \cup {None}, todo : Seq(Files \cup {"unlock", "dir"}), strict : BOOLEAN,
         detached : BOOLEAN, unseen : SUBSET Runs, reachable : SUBSET Runs, stale : SUBSET Runs]

\* Type correctness.
TypeOK ==
    /\ here \subseteq Runs /\ files \in [Runs -> SUBSET Files]
    /\ lease \in [Runs -> Hosts \cup {None}]
    /\ whole \subseteq Runs
    /\ own \in [Hosts -> Runs \cup {None}] /\ task \in [Hosts -> Task]
    /\ authority \subseteq Retained /\ faults \in 0..MaxFaults

\* A run that a host holds open is there with all its files and locked by that
\* host: no pass, sweep, failed construction or drop of another touches it.
HeldUntouched ==
    \A h \in Hosts : own[h] # None => Complete(own[h]) /\ lease[own[h]] = h

\* A run the host refers to can be adopted and holds everything: neither a
\* sweep nor the cleanup of a failed or interrupted clone takes it or leaves a
\* part of it.
ReferredIntact == \A r \in authority : Complete(r) /\ r \in whole

\* A pass that lists the whole namespace leaves no run that was stale when it
\* began, unless somebody else leased the run meanwhile or a step of the pass on
\* that very run failed: an error about one sibling costs no other.
PassTakesStale ==
    [][\A h \in Hosts :
          task[h].op = "create" /\ At(h, "pass") /\ task'[h].pc = "idle" /\ faults' = faults
             => \A r \in task[h].stale : ~Stale(r)]_vars

\* An operation that began ends: nobody waits for a lease, not even two
\* creators for each other's.
OperationsEnd == \A h \in Hosts : ~At(h, "idle") ~> At(h, "idle")
=============================================================================
