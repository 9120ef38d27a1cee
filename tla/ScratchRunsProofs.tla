--------------------------- MODULE ScratchRunsProofs ---------------------------
(***************************************************************************)
(* For any hosts, runs and faults: no sweep, pass, cleanup or failed clone *)
(* touches a scratch run that somebody holds or the host refers to.        *)
(***************************************************************************)
EXTENDS ScratchRuns, TLAPS

Build == Files \cup {"lock", "built"}

\* What is left of a removal, with and without a lock to release.
Todos == {<<"pages", "blobs", "marker", "unlock", "lease", "dir">>,
          <<"blobs", "marker", "unlock", "lease", "dir">>,
          <<"marker", "unlock", "lease", "dir">>, <<"unlock", "lease", "dir">>,
          <<"pages", "blobs", "marker", "lease", "dir">>,
          <<"blobs", "marker", "lease", "dir">>, <<"marker", "lease", "dir">>,
          <<"lease", "dir">>, <<"dir">>}

\* The files of a run whose maker is about to do step pc.
Made(pc) == [marker |-> {}, lease |-> {"marker"}, lock |-> {"marker", "lease"},
             pages |-> {"marker", "lease"}, blobs |-> {"marker", "lease", "pages"},
             built |-> Files][pc]

\* Where a host is says what it may have in its hands.
PlaceInv(h) ==
    /\ task[h].pc \in Build \cup {"remove", "leasing", "adopting"} => task[h].run \in Runs
    /\ At(h, "remove") => task[h].todo \in Todos /\ own[h] # task[h].run
    /\ task[h].pc \in Build \cup {"adopting"} => own[h] = None
    /\ task[h].pc \in Build =>
          task[h].op = "clone" \/ (task[h].op = "create" /\ task[h].run \notin Migrated)
    /\ task[h].strict \/ task[h].pc \in {"pass", "leasing"} => task[h].op \in {"create", "sweep"}
    /\ task[h].op = "sweep" => task[h].reachable = authority
    /\ At(h, "leasing") =>
          task[h].run \notin authority /\ (task[h].run \in Retained => task[h].op = "sweep")

\* A run in the making has the files its maker made, and one maker.
MakeInv(h) ==
    task[h].pc \in Build =>
        /\ IF task[h].detached
           THEN At(h, "marker") /\ task[h].run \notin here
           ELSE /\ task[h].run \in here \ authority
                /\ files[task[h].run] = Made(task[h].pc)
                /\ task[h].pc \in {"pages", "blobs", "built"} => lease[task[h].run] = h
        /\ \A g \in Hosts \ {h} : task[g].pc \in Build => task[g].run # task[h].run

\* A run that is being taken apart is nobody's: not open, not being adopted or
\* made, and not referred to.
TearInv(h) ==
    At(h, "remove") /\ ~ task[h].detached =>
        /\ task[h].run \in here \ authority
        /\ \A g \in Hosts :
              /\ own[g] # task[h].run
              /\ task[g].run = task[h].run =>
                    ~ At(g, "adopting") /\ (task[g].pc \in Build => task[g].detached)

\* A run that is held, or adopted, is complete, whole and locked.
HoldInv(h) ==
    /\ own[h] # None => Complete(own[h]) /\ lease[own[h]] = h /\ own[h] \in whole
    /\ At(h, "adopting") =>
          /\ ~ task[h].detached /\ Complete(task[h].run)
          /\ lease[task[h].run] = h /\ task[h].run \in whole

IInv ==
    /\ TypeOK /\ ReferredIntact
    /\ \A h \in Hosts : PlaceInv(h) /\ MakeInv(h) /\ TearInv(h) /\ HoldInv(h)

-----------------------------------------------------------------------------
(* The constant functions.                                                  *)

LEMMA MadeAt ==
    /\ Made("marker") = {} /\ Made("lease") = {"marker"} /\ Made("lock") = {"marker", "lease"}
    /\ Made("pages") = {"marker", "lease"} /\ Made("blobs") = {"marker", "lease", "pages"}
    /\ Made("built") = Files
BY DEF Made

LEMMA MadeWhole == \A pc \in Build : Made(pc) = Files => pc = "built"
BY MadeAt DEF Build, Files

LEMMA MadeNone == \A pc \in Build : Made(pc) = {} => pc = "marker"
BY MadeAt DEF Build, Files

LEMMA FollowedByAt ==
    /\ FollowedBy("marker") = "lease" /\ FollowedBy("lease") = "lock"
    /\ FollowedBy("lock") = "pages" /\ FollowedBy("pages") = "blobs"
    /\ FollowedBy("blobs") = "built"
BY DEF FollowedBy

Entries == Files \cup {"unlock", "dir"}

LEMMA TodosTyped ==
    \A t \in Todos :
        /\ t \in Seq(Entries) /\ Len(t) \in Nat /\ Head(t) \in Entries
        /\ Len(t) # 1 => Tail(t) \in Todos
        /\ Head(t) = "dir" => Len(t) = 1
<1> SUFFICES ASSUME NEW t \in Todos
             PROVE  /\ t \in Seq(Entries) /\ Len(t) \in Nat /\ Head(t) \in Entries
                    /\ Len(t) # 1 => Tail(t) \in Todos
                    /\ Head(t) = "dir" => Len(t) = 1
  OBVIOUS
<1>1. CASE t = <<"pages", "blobs", "marker", "unlock", "lease", "dir">>
  BY <1>1 DEF Todos, Entries, Files
<1>2. CASE t = <<"blobs", "marker", "unlock", "lease", "dir">>
  BY <1>2 DEF Todos, Entries, Files
<1>3. CASE t = <<"marker", "unlock", "lease", "dir">>
  BY <1>3 DEF Todos, Entries, Files
<1>4. CASE t = <<"unlock", "lease", "dir">>
  BY <1>4 DEF Todos, Entries, Files
<1>5. CASE t = <<"pages", "blobs", "marker", "lease", "dir">>
  BY <1>5 DEF Todos, Entries, Files
<1>6. CASE t = <<"blobs", "marker", "lease", "dir">>
  BY <1>6 DEF Todos, Entries, Files
<1>7. CASE t = <<"marker", "lease", "dir">>
  BY <1>7 DEF Todos, Entries, Files
<1>8. CASE t = <<"lease", "dir">>
  BY <1>8 DEF Todos, Entries, Files
<1>9. CASE t = <<"dir">>
  BY <1>9 DEF Todos, Entries, Files
<1> QED BY <1>1, <1>2, <1>3, <1>4, <1>5, <1>6, <1>7, <1>8, <1>9 DEF Todos

LEMMA RemovalTodo ==
    /\ Removal \in Todos
    /\ <<"pages", "blobs", "marker", "lease", "dir">> \in Todos
BY DEF Removal, Todos

LEMMA IdleTask == Idle \in Task
BY DEF Idle, Task, Files

-----------------------------------------------------------------------------
(* Types.                                                                   *)

LEMMA TaskFields ==
    ASSUME TypeOK, NEW h \in Hosts
    PROVE  /\ task[h] \in Task
           /\ task[h].run \in Runs \cup {None}
           /\ task[h].strict \in BOOLEAN /\ task[h].detached \in BOOLEAN
           /\ own[h] \in Runs \cup {None}
BY DEF TypeOK, Task, Files

LEMMA ResumedTyped ==
    ASSUME TypeOK, NEW h \in Hosts
    PROVE  Resumed(h) \in Task
<1>1. task[h] \in Task
  BY DEF TypeOK
<1>2. task[h].stale \ {task[h].run} \in SUBSET Runs
  BY <1>1 DEF Task
<1>3. <<>> \in Seq(Files \cup {"unlock", "dir"})
  OBVIOUS
<1>4. [task[h] EXCEPT !.pc = "pass", !.run = None, !.todo = <<>>, !.detached = FALSE,
                      !.stale = @ \ {task[h].run}] \in Task
  BY <1>1, <1>2, <1>3 DEF Task
<1> QED BY <1>4, IdleTask DEF Resumed

LEMMA AdvancedTyped ==
    ASSUME TypeOK, NEW h \in Hosts, task[h].todo \in Todos
    PROVE  Advanced(h) \in Task
<1>1. task[h] \in Task
  BY DEF TypeOK
<1>2. Len(task[h].todo) # 1 => Tail(task[h].todo) \in Seq(Files \cup {"unlock", "dir"})
  BY TodosTyped DEF Entries
<1> QED BY <1>1, <1>2, ResumedTyped DEF Advanced, Task

LEMMA NotStaleTyped ==
    ASSUME TypeOK, NEW h \in Hosts, NEW r \in Runs, NEW t \in Task
    PROVE  NotStale(h, r, t) \in [Hosts -> Task]
<1> SUFFICES ASSUME NEW g \in Hosts, g # h
             PROVE  [task[g] EXCEPT !.stale = @ \ {r}] \in Task
  BY DEF NotStale
<1>1. task[g] \in Task
  BY DEF TypeOK
<1>2. task[g].stale \ {r} \in SUBSET Runs
  BY <1>1 DEF Task
<1> QED BY <1>1, <1>2 DEF Task

LEMMA ReleaseTyped ==
    ASSUME TypeOK, NEW h \in Hosts, NEW r, Release(h, r)
    PROVE  lease' \in [Runs -> Hosts \cup {None}]
BY DEF TypeOK, Release

LEMMA FaultTyped ==
    ASSUME TypeOK, Fault \/ UNCHANGED faults
    PROVE  faults' \in 0..MaxFaults
BY RunAssumption DEF TypeOK, Fault

LEMMA MoveTyped ==
    ASSUME TypeOK, NEW h \in Hosts, NEW t \in Task, Move(h, t)
    PROVE  task' \in [Hosts -> Task]
BY DEF TypeOK, Move

LEMMA Places ==
    /\ "idle" \notin Build /\ "remove" \notin Build /\ "pass" \notin Build
    /\ "leasing" \notin Build /\ "adopting" \notin Build
BY DEF Build, Files

\* Every step keeps the types.
LEMMA TypesKept ==
    ASSUME TypeOK, \A h \in Hosts : PlaceInv(h), Next
    PROVE  TypeOK'
<1>t. ASSUME NEW h \in Hosts PROVE task[h] \in Task
  BY DEF TypeOK
<1>1. ASSUME NEW h \in Hosts, NEW r \in Runs, NEW op \in {"create", "clone"}, MakeDir(h, r, op)
      PROVE  TypeOK'
  <2>1. [Idle EXCEPT !.op = op, !.pc = "marker", !.run = r] \in Task
    BY IdleTask DEF Task, Files
  <2>2. task' \in [Hosts -> Task]
    BY <1>1, <2>1, NotStaleTyped DEF MakeDir
  <2> QED BY <1>1, <2>2 DEF MakeDir, TypeOK
<1>2. ASSUME NEW h \in Hosts, MakeFile(h)
      PROVE  TypeOK'
  <2>1. task[h].run \in Runs /\ task[h].pc \in Files
    BY <1>2 DEF MakeFile, PlaceInv, Build
  <2>2. FollowedBy(task[h].pc) \in {"lease", "lock", "blobs", "built"}
    BY <2>1, FollowedByAt DEF Files
  <2>3. [task[h] EXCEPT !.pc = FollowedBy(task[h].pc)] \in Task
    BY <1>t, <2>2 DEF Task, Files
  <2>4. task' \in [Hosts -> Task]
    BY <1>2, <2>3, MoveTyped DEF MakeFile, Step
  <2> QED BY <1>2, <2>1, <2>4 DEF MakeFile, TypeOK
<1>3. ASSUME NEW h \in Hosts, LockLease(h)
      PROVE  TypeOK'
  <2>1. [task[h] EXCEPT !.pc = FollowedBy("lock")] \in Task
    BY <1>t, FollowedByAt DEF Task, Files
  <2>2. task' \in [Hosts -> Task]
    BY <1>3, <2>1, MoveTyped DEF LockLease, Step
  <2> QED BY <1>3, <2>2 DEF LockLease, TypeOK, SameFiles
<1>4. ASSUME NEW h \in Hosts, Built(h)
      PROVE  TypeOK'
  <2>1. task[h].run \in Runs
    BY <1>4 DEF Built, PlaceInv, At, Build
  <2>2. [task[h] EXCEPT !.pc = "pass", !.run = None, !.strict = TRUE,
                        !.unseen = Runs \ {task[h].run}, !.stale = {s \in Runs : Stale(s)}] \in Task
    BY <1>t DEF Task
  <2>3. task' \in [Hosts -> Task]
    BY <1>4, <2>2, MoveTyped DEF Built
  <2> QED BY <1>4, <2>1, <2>3 DEF Built, TypeOK, SameFiles
<1>5. ASSUME NEW h \in Hosts, Copied(h)
      PROVE  TypeOK'
  <2>1. task[h].run \in Runs
    BY <1>5 DEF Copied, PlaceInv, At, Build
  <2>2. task' \in [Hosts -> Task]
    BY <1>5, IdleTask, MoveTyped DEF Copied
  <2> QED BY <1>5, <2>1, <2>2 DEF Copied, TypeOK, SameFiles
<1>6. ASSUME NEW h \in Hosts, BuildFails(h)
      PROVE  TypeOK'
  <2>1. [task[h] EXCEPT !.pc = "remove", !.strict = FALSE, !.detached = task[h].run \notin here,
                        !.todo = <<"pages", "blobs", "marker", "lease", "dir">>] \in Task
    <3>1. <<"pages", "blobs", "marker", "lease", "dir">> \in Seq(Files \cup {"unlock", "dir"})
      BY RemovalTodo, TodosTyped DEF Entries
    <3> QED BY <1>t, <3>1 DEF Task
  <2>2. task' \in [Hosts -> Task]
    BY <1>6, <2>1, MoveTyped DEF BuildFails
  <2>3. lease' \in [Runs -> Hosts \cup {None}] /\ faults' \in 0..MaxFaults
    BY <1>6, ReleaseTyped, FaultTyped DEF BuildFails
  <2> QED BY <1>6, <2>2, <2>3 DEF BuildFails, TypeOK, SameFiles
<1>7. ASSUME NEW h \in Hosts, At(h, "remove")
      PROVE  task[h].run \in Runs /\ Advanced(h) \in Task /\ Resumed(h) \in Task
  BY <1>7, AdvancedTyped, ResumedTyped DEF PlaceInv, At
<1>8. ASSUME NEW h \in Hosts, RemoveFile(h)
      PROVE  TypeOK'
  <2>1. task' \in [Hosts -> Task]
    BY <1>7, <1>8, MoveTyped DEF RemoveFile
  <2>2. lease' \in [Runs -> Hosts \cup {None}]
    BY <1>8, ReleaseTyped DEF RemoveFile, TypeOK
  <2>3. files' \in [Runs -> SUBSET Files]
    BY <1>7, <1>8 DEF RemoveFile, TypeOK
  <2> QED BY <1>8, <2>1, <2>2, <2>3 DEF RemoveFile, TypeOK
<1>9. ASSUME NEW h \in Hosts, Unlock(h)
      PROVE  TypeOK'
  <2>1. task' \in [Hosts -> Task]
    BY <1>7, <1>9, MoveTyped DEF Unlock
  <2>2. lease' \in [Runs -> Hosts \cup {None}]
    BY <1>9, ReleaseTyped DEF Unlock
  <2> QED BY <1>9, <2>1, <2>2 DEF Unlock, TypeOK, SameFiles
<1>10. ASSUME NEW h \in Hosts, RemoveDir(h)
       PROVE  TypeOK'
  <2>1. ASSUME NEW g \in Hosts PROVE [task[g] EXCEPT !.detached = TRUE] \in Task
    BY <1>t DEF Task
  <2>2. task' \in [Hosts -> Task]
    BY <1>t, <1>7, <1>10, <2>1 DEF RemoveDir
  <2> QED BY <1>10, <2>2 DEF RemoveDir, TypeOK
<1>11. ASSUME NEW h \in Hosts, RemovalFails(h)
       PROVE  TypeOK'
  <2>1. task' \in [Hosts -> Task]
    BY <1>7, <1>11, MoveTyped DEF RemovalFails
  <2>2. lease' \in [Runs -> Hosts \cup {None}] /\ faults' \in 0..MaxFaults
    BY <1>11, ReleaseTyped, FaultTyped DEF RemovalFails, TypeOK
  <2> QED BY <1>11, <2>1, <2>2 DEF RemovalFails, TypeOK, SameFiles
<1>12. ASSUME NEW h \in Hosts, BeginSweep(h)
       PROVE  TypeOK'
  <2>1. [Idle EXCEPT !.op = "sweep", !.pc = "pass", !.strict = TRUE, !.unseen = Runs,
                     !.reachable = authority] \in Task
    BY IdleTask DEF Task, TypeOK, Runs
  <2>2. task' \in [Hosts -> Task]
    BY <1>12, <2>1, MoveTyped DEF BeginSweep
  <2> QED BY <1>12, <2>2 DEF BeginSweep, TypeOK, SameFiles
<1>13. ASSUME NEW h \in Hosts, NEW r \in Runs, Classify(h, r)
       PROVE  TypeOK'
  <2>1. /\ [task[h] EXCEPT !.pc = "leasing", !.run = r, !.unseen = @ \ {r}] \in Task
        /\ [task[h] EXCEPT !.unseen = @ \ {r}] \in Task
    BY <1>t DEF Task
  <2>2. task' \in [Hosts -> Task]
    BY <1>13, <2>1, MoveTyped DEF Classify
  <2> QED BY <1>13, <2>2 DEF Classify, TypeOK, SameFiles
<1>14. ASSUME NEW h \in Hosts, TakeStale(h)
       PROVE  TypeOK'
  <2>1. task[h].run \in Runs
    BY <1>14 DEF TakeStale, PlaceInv, At
  <2>2. [task[h] EXCEPT !.pc = "remove", !.todo = Removal] \in Task
    <3>1. Removal \in Seq(Files \cup {"unlock", "dir"})
      BY RemovalTodo, TodosTyped DEF Entries
    <3> QED BY <1>t, <3>1 DEF Task
  <2>3. task' \in [Hosts -> Task]
    BY <1>14, <2>1, <2>2, NotStaleTyped, ResumedTyped DEF TakeStale
  <2> QED BY <1>14, <2>1, <2>3 DEF TakeStale, TypeOK, SameFiles
<1>15. ASSUME NEW h \in Hosts, LeaveAlone(h)
       PROVE  TypeOK'
  <2>1. [task[h] EXCEPT !.pc = "pass", !.run = None, !.detached = FALSE] \in Task
    BY <1>t DEF Task
  <2>2. task' \in [Hosts -> Task]
    BY <1>15, <2>1, MoveTyped DEF LeaveAlone
  <2> QED BY <1>15, <2>2 DEF LeaveAlone, TypeOK, SameFiles
<1>c. ASSUME NEW h \in Hosts, NEW r \in Runs, ClassifyFails(h, r)
      PROVE  TypeOK'
  <2>1. [task[h] EXCEPT !.unseen = @ \ {r}, !.stale = @ \ {r}] \in Task
    BY <1>t DEF Task
  <2>2. task' \in [Hosts -> Task]
    BY <1>c, <2>1, MoveTyped DEF ClassifyFails
  <2>3. faults' \in 0..MaxFaults
    BY <1>c, FaultTyped DEF ClassifyFails
  <2> QED BY <1>c, <2>2, <2>3 DEF ClassifyFails, TypeOK, SameFiles
<1>l. ASSUME NEW h \in Hosts, LeaseFails(h) \/ ListingFails(h)
      PROVE  TypeOK'
  <2>1. task' \in [Hosts -> Task]
    BY <1>l, IdleTask, ResumedTyped, MoveTyped DEF LeaseFails, ListingFails
  <2>2. faults' \in 0..MaxFaults
    BY <1>l, FaultTyped DEF LeaseFails, ListingFails
  <2> QED BY <1>l, <2>1, <2>2 DEF LeaseFails, ListingFails, TypeOK, SameFiles
<1>16. ASSUME NEW h \in Hosts, EndPass(h) \/ Adopt(h)
       PROVE  TypeOK'
  <2>1. task' \in [Hosts -> Task]
    BY <1>16, IdleTask, MoveTyped DEF EndPass, Adopt
  <2>2. Adopt(h) => task[h].run \in Runs
    BY DEF Adopt, PlaceInv, At
  <2> QED BY <1>16, <2>1, <2>2 DEF EndPass, Adopt, TypeOK, SameFiles
<1>17. ASSUME NEW h \in Hosts, NEW r \in Runs, AdoptLease(h, r)
       PROVE  TypeOK'
  <2>1. [Idle EXCEPT !.op = "adopt", !.pc = "adopting", !.run = r] \in Task
    BY IdleTask DEF Task
  <2>2. task' \in [Hosts -> Task]
    BY <1>17, <2>1, NotStaleTyped DEF AdoptLease
  <2> QED BY <1>17, <2>2 DEF AdoptLease, TypeOK, SameFiles
<1>18. ASSUME NEW h \in Hosts, AdoptFails(h)
       PROVE  TypeOK'
  <2>1. task' \in [Hosts -> Task]
    BY <1>18, IdleTask, MoveTyped DEF AdoptFails
  <2>2. lease' \in [Runs -> Hosts \cup {None}] /\ faults' \in 0..MaxFaults
    BY <1>18, ReleaseTyped, FaultTyped DEF AdoptFails
  <2> QED BY <1>18, <2>1, <2>2 DEF AdoptFails, TypeOK, SameFiles
<1>19. ASSUME NEW h \in Hosts, Refer(h)
       PROVE  TypeOK'
  BY <1>19 DEF Refer, TypeOK, SameFiles
<1>20. ASSUME NEW r \in Runs, Forget(r)
       PROVE  TypeOK'
  BY <1>20 DEF Forget, TypeOK, SameFiles
<1>21. ASSUME NEW h \in Hosts, Drop(h)
       PROVE  TypeOK'
  <2>1. [Idle EXCEPT !.op = "drop", !.pc = "remove", !.run = own[h], !.todo = Removal] \in Task
    <3>1. Removal \in Seq(Files \cup {"unlock", "dir"})
      BY RemovalTodo, TodosTyped DEF Entries
    <3> QED BY IdleTask, <3>1, TaskFields DEF Task
  <2>2. task' \in [Hosts -> Task]
    BY <1>21, <2>1, MoveTyped DEF Drop, TypeOK
  <2>3. lease' \in [Runs -> Hosts \cup {None}]
    BY <1>21, ReleaseTyped DEF Drop, TypeOK
  <2> QED BY <1>21, <2>2, <2>3 DEF Drop, TypeOK, SameFiles
<1>22. ASSUME NEW h \in Hosts, Die(h)
       PROVE  TypeOK'
  <2>1. task' \in [Hosts -> Task] /\ faults' \in 0..MaxFaults
    BY <1>22, IdleTask, MoveTyped, FaultTyped DEF Die
  <2> QED BY <1>22, <2>1 DEF Die, TypeOK, SameFiles
<1> QED BY <1>1, <1>2, <1>3, <1>4, <1>5, <1>6, <1>8, <1>9, <1>10, <1>11, <1>12, <1>13, <1>14,
           <1>c, <1>l, <1>15, <1>16, <1>17, <1>18, <1>19, <1>20, <1>21, <1>22
        DEF Next, Continue, Construct, Remove, Pass, CreateRun, CloneRun


-----------------------------------------------------------------------------
(* What most steps have in common.                                          *)

\* The part of the invariant beyond the types.
Rest ==
    /\ ReferredIntact
    /\ \A h \in Hosts : PlaceInv(h) /\ MakeInv(h) /\ TearInv(h) /\ HoldInv(h)

\* g does nothing; what its pass saw may be past.
Same(g) ==
    /\ own'[g] = own[g] /\ task'[g].pc = task[g].pc /\ task'[g].op = task[g].op
    /\ task'[g].run = task[g].run /\ task'[g].detached = task[g].detached
    /\ task'[g].strict = task[g].strict /\ task'[g].todo = task[g].todo
    /\ task'[g].reachable = task[g].reachable

OnlyMoves(h) == \A g \in Hosts \ {h} : Same(g)

LEMMA OthersMoveOn ==
    ASSUME TypeOK, NEW h \in Hosts, NEW r \in Runs, NEW t, task' = NotStale(h, r, t),
           \A g \in Hosts \ {h} : own'[g] = own[g]
    PROVE  task'[h] = t /\ OnlyMoves(h)
<1>1. ASSUME NEW g \in Hosts, g # h
      PROVE  Same(g)
  <2>1. task[g] \in Task
    BY DEF TypeOK
  <2>2. task'[g] = [task[g] EXCEPT !.stale = @ \ {r}]
    BY <1>1 DEF NotStale
  <2> QED BY <1>1, <2>1, <2>2 DEF Task, Same
<1> QED BY <1>1 DEF NotStale, OnlyMoves

LEMMA MoveAt ==
    ASSUME TypeOK, NEW h \in Hosts, NEW t, Move(h, t)
    PROVE  task'[h] = t /\ \A g \in Hosts \ {h} : task'[g] = task[g]
BY DEF TypeOK, Move

\* Closing a lease takes only h's own lock.
LEMMA ReleaseAt ==
    ASSUME TypeOK, NEW h \in Hosts, NEW r, Release(h, r)
    PROVE  \A s \in Runs : lease'[s] = lease[s] \/ (lease[s] = h /\ s = r)
BY DEF TypeOK, Release

\* A host that ends an operation, goes on with its pass or looks at another run,
\* or goes on with a removal without touching a file, and lets go of locks at most.
LEMMA LettingGo ==
    ASSUME IInv, NEW h \in Hosts, OnlyMoves(h), UNCHANGED <<here, files, authority, whole>>,
           \A r \in Runs : lease'[r] = lease[r] \/ (lease[r] = h /\ r # own'[h]),
           own'[h] \in {own[h], None}, PlaceInv(h)',
           \/ task'[h].pc \in {"idle", "pass", "leasing"}
           \/ /\ At(h, "remove") /\ At(h, "remove")'
              /\ task'[h].run = task[h].run /\ task'[h].detached = task[h].detached
    PROVE  Rest'
<1>1. ReferredIntact'
  BY DEF IInv, ReferredIntact, Complete
<1>p. ASSUME NEW g \in Hosts, g # h PROVE PlaceInv(g)'
  BY <1>p DEF IInv, PlaceInv, OnlyMoves, Same, At
<1>b. ASSUME NEW g \in Hosts, task'[g].pc \in Build \cup {"adopting"}
      PROVE  g # h
  BY <1>b, Places DEF At
<1>m. ASSUME NEW g \in Hosts PROVE MakeInv(g)'
  <2>1. SUFFICES ASSUME task'[g].pc \in Build PROVE MakeInv(g)'
    BY DEF MakeInv
  <2>2. g # h /\ Same(g) /\ task[g].run \in Runs
    BY <1>b, <2>1 DEF OnlyMoves, Same, IInv, PlaceInv
  <2>3. MakeInv(g)
    BY DEF IInv
  <2>4. \A f \in Hosts \ {g} : task'[f].pc \in Build => task'[f].run # task'[g].run
    BY <1>b, <2>1, <2>2, <2>3 DEF MakeInv, OnlyMoves, Same
  <2>5. task[g].pc \in {"pages", "blobs", "built"} /\ ~ task[g].detached => lease'[task[g].run] = g
    BY <2>1, <2>2, <2>3 DEF MakeInv, Same
  <2> QED BY <2>2, <2>3, <2>4, <2>5 DEF MakeInv, At, Same
<1>t. ASSUME NEW g \in Hosts PROVE TearInv(g)'
  <2>1. SUFFICES ASSUME At(g, "remove")', ~ task'[g].detached PROVE TearInv(g)'
    BY DEF TearInv
  <2>2. At(g, "remove") /\ task'[g].run = task[g].run /\ ~ task[g].detached /\ task[g].run \in Runs
    BY <2>1 DEF OnlyMoves, Same, IInv, PlaceInv, At
  <2>3. TearInv(g)
    BY DEF IInv
  <2>4. ASSUME NEW f \in Hosts
        PROVE  /\ own'[f] # task[g].run
               /\ task'[f].run = task[g].run =>
                     ~ At(f, "adopting")' /\ (task'[f].pc \in Build => task'[f].detached)
    <3>1. own'[f] \in {own[f], None} /\ None # task[g].run
      BY <2>2, RunAssumption DEF OnlyMoves, Same
    <3>2. own[f] # task[g].run
      BY <2>2, <2>3 DEF TearInv
    <3>3. task'[f].pc \in Build \cup {"adopting"} => Same(f)
      BY <1>b DEF OnlyMoves
    <3> QED BY <2>2, <2>3, <3>1, <3>2, <3>3 DEF TearInv, At, Same
  <2> QED BY <2>2, <2>3, <2>4 DEF TearInv
<1>h. ASSUME NEW g \in Hosts PROVE HoldInv(g)'
  <2>1. HoldInv(g) /\ PlaceInv(g) /\ own[g] \in Runs \cup {None}
    BY TaskFields DEF IInv
  <2>2. own'[g] # None => own'[g] = own[g] /\ lease'[own[g]] = g
    BY <2>1 DEF OnlyMoves, Same, HoldInv
  <2>3. At(g, "adopting")' => Same(g) /\ At(g, "adopting") /\ lease'[task[g].run] = g
    BY <1>b, <2>1 DEF OnlyMoves, Same, HoldInv, PlaceInv, At
  <2> QED BY <2>1, <2>2, <2>3 DEF HoldInv, Complete, At, Same
<1> QED BY <1>1, <1>p, <1>m, <1>t, <1>h DEF Rest


LEMMA ResumedPlace ==
    ASSUME IInv, NEW h \in Hosts, task'[h] = Resumed(h), UNCHANGED authority
    PROVE  PlaceInv(h)' /\ task'[h].pc \in {"idle", "pass"}
<1>0. task[h] \in Task /\ PlaceInv(h)
  BY DEF IInv, TypeOK
<1>1. CASE task[h].strict
  <2>1. task'[h].pc = "pass" /\ task'[h].op = task[h].op /\ task'[h].strict = task[h].strict
        /\ task'[h].reachable = task[h].reachable
    BY <1>0, <1>1 DEF Resumed, Task
  <2> QED BY <1>0, <1>1, <2>1, Places DEF PlaceInv, At
<1>2. CASE ~ task[h].strict
  BY <1>2, Places DEF Resumed, Idle, PlaceInv, At
<1> QED BY <1>1, <1>2

LEMMA IdlePlace ==
    ASSUME NEW h \in Hosts, task'[h] = Idle
    PROVE  PlaceInv(h)' /\ task'[h].pc = "idle"
BY Places DEF Idle, PlaceInv, At

\* A removal that goes on, or is over.
LEMMA AdvancedPlace ==
    ASSUME IInv, NEW h \in Hosts, At(h, "remove"), task'[h] = Advanced(h),
           UNCHANGED <<own, authority>>
    PROVE  /\ PlaceInv(h)'
           /\ \/ task'[h].pc \in {"idle", "pass"}
              \/ /\ At(h, "remove") /\ At(h, "remove")'
                 /\ task'[h].run = task[h].run /\ task'[h].detached = task[h].detached
<1>0. task[h] \in Task /\ PlaceInv(h) /\ task[h].todo \in Todos
  BY DEF IInv, TypeOK, PlaceInv
<1>1. CASE Len(task[h].todo) = 1
  BY <1>1, ResumedPlace DEF Advanced
<1>2. CASE Len(task[h].todo) # 1
  <2>1. /\ task'[h].pc = "remove" /\ task'[h].op = task[h].op /\ task'[h].run = task[h].run
        /\ task'[h].strict = task[h].strict /\ task'[h].reachable = task[h].reachable
        /\ task'[h].todo = Tail(task[h].todo) /\ task'[h].detached = task[h].detached
    BY <1>0, <1>2 DEF Advanced, Task, At
  <2>2. Tail(task[h].todo) \in Todos
    BY <1>0, <1>2, TodosTyped
  <2> QED BY <1>0, <2>1, <2>2, Places DEF PlaceInv, At
<1> QED BY <1>1, <1>2

\* h releases the lease of a run it does not hold open.
LEMMA Unlocked ==
    ASSUME IInv, NEW h \in Hosts, NEW r, own'[h] # r, Release(h, r) \/ UNCHANGED lease
    PROVE  \A s \in Runs : lease'[s] = lease[s] \/ (lease[s] = h /\ s # own'[h])
BY ReleaseAt DEF IInv

-----------------------------------------------------------------------------
(* One lemma per kind of step.                                              *)

LEMMA PassStep ==
    ASSUME IInv, NEW h \in Hosts,
           \/ \E r \in Runs : Classify(h, r) \/ ClassifyFails(h, r)
           \/ LeaveAlone(h) \/ LeaseFails(h) \/ EndPass(h) \/ ListingFails(h) \/ BeginSweep(h)
    PROVE  Rest'
<1>0. TypeOK /\ task[h] \in Task /\ PlaceInv(h) /\ authority \subseteq Retained
  BY DEF IInv, TypeOK
<1>1. UNCHANGED <<here, files, lease, whole, own, authority>>
  BY DEF Classify, ClassifyFails, LeaveAlone, LeaseFails, EndPass, ListingFails, BeginSweep,
         SameFiles
<1>2. CASE BeginSweep(h)
  <2>1. task'[h] = [Idle EXCEPT !.op = "sweep", !.pc = "pass", !.strict = TRUE, !.unseen = Runs,
                                !.reachable = authority] /\ OnlyMoves(h)
    BY <1>0, <1>2, MoveAt DEF BeginSweep, OnlyMoves, Same, SameFiles
  <2>2. PlaceInv(h)' /\ task'[h].pc = "pass"
    BY <1>1, <2>1, Places DEF PlaceInv, Idle, At
  <2> QED BY <1>1, <2>1, <2>2, LettingGo
<1>3. CASE EndPass(h) \/ ListingFails(h)
  <2>1. task'[h] = Idle /\ OnlyMoves(h)
    BY <1>0, <1>1, <1>3, MoveAt DEF EndPass, ListingFails, OnlyMoves, Same
  <2> QED BY <1>1, <2>1, IdlePlace, LettingGo
<1>4. CASE LeaveAlone(h)
  <2>1. task'[h] = [task[h] EXCEPT !.pc = "pass", !.run = None, !.detached = FALSE] /\ OnlyMoves(h)
    BY <1>0, <1>4, MoveAt DEF LeaveAlone, OnlyMoves, Same
  <2>2. /\ task'[h].pc = "pass" /\ task'[h].op = task[h].op /\ task'[h].strict = task[h].strict
        /\ task'[h].reachable = task[h].reachable
    BY <1>0, <2>1 DEF Task
  <2>3. PlaceInv(h)'
    BY <1>0, <1>1, <1>4, <2>2, Places DEF PlaceInv, LeaveAlone, At
  <2> QED BY <1>1, <2>1, <2>2, <2>3, LettingGo
<1>5. ASSUME NEW r \in Runs, Classify(h, r)
      PROVE  Rest'
  <2>1. /\ task'[h] = IF Complete(r) /\ Doomed(h, r)
                      THEN [task[h] EXCEPT !.pc = "leasing", !.run = r, !.unseen = @ \ {r}]
                      ELSE [task[h] EXCEPT !.unseen = @ \ {r}]
        /\ OnlyMoves(h) /\ task[h].pc = "pass"
    BY <1>0, <1>5, MoveAt DEF Classify, OnlyMoves, Same, At
  <2>2. /\ task'[h].op = task[h].op /\ task'[h].strict = task[h].strict
        /\ task'[h].reachable = task[h].reachable
        /\ IF Complete(r) /\ Doomed(h, r) THEN task'[h].pc = "leasing" /\ task'[h].run = r
           ELSE task'[h].pc = "pass"
    BY <1>0, <2>1 DEF Task
  <2>3. Doomed(h, r) => r \notin authority /\ (r \in Retained => task[h].op = "sweep")
    BY <1>0, <2>1, RunAssumption DEF Doomed, PlaceInv, At
  <2>4. PlaceInv(h)'
    BY <1>0, <1>1, <2>1, <2>2, <2>3, Places DEF PlaceInv, At
  <2> QED BY <1>1, <2>1, <2>2, <2>4, LettingGo
<1>6. CASE LeaseFails(h)
  <2>1. task'[h] = Resumed(h) /\ OnlyMoves(h)
    BY <1>0, <1>1, <1>6, MoveAt DEF LeaseFails, OnlyMoves, Same
  <2> QED BY <1>1, <2>1, ResumedPlace, LettingGo
<1>7. ASSUME NEW r \in Runs, ClassifyFails(h, r)
      PROVE  Rest'
  <2>1. /\ task'[h] = [task[h] EXCEPT !.unseen = @ \ {r}, !.stale = @ \ {r}]
        /\ OnlyMoves(h) /\ task[h].pc = "pass"
    BY <1>0, <1>1, <1>7, MoveAt DEF ClassifyFails, OnlyMoves, Same, At
  <2>2. /\ task'[h].pc = "pass" /\ task'[h].op = task[h].op /\ task'[h].strict = task[h].strict
        /\ task'[h].reachable = task[h].reachable
    BY <1>0, <2>1 DEF Task
  <2>3. PlaceInv(h)'
    BY <1>0, <1>1, <2>1, <2>2, Places DEF PlaceInv, At
  <2> QED BY <1>1, <2>1, <2>2, <2>3, LettingGo
<1> QED BY <1>2, <1>3, <1>4, <1>5, <1>6, <1>7

LEMMA UnlockStep ==
    ASSUME IInv, NEW h \in Hosts, Unlock(h) \/ RemovalFails(h)
    PROVE  Rest'
<1>0. TypeOK /\ PlaceInv(h) /\ At(h, "remove") /\ own[h] # task[h].run
  BY DEF IInv, PlaceInv, Unlock, RemovalFails
<1>1. UNCHANGED <<here, files, whole, own, authority>>
  BY DEF Unlock, RemovalFails, SameFiles
<1>2. Release(h, task[h].run) \/ UNCHANGED lease
  BY DEF Unlock, RemovalFails
<1>3. \A s \in Runs : lease'[s] = lease[s] \/ (lease[s] = h /\ s # own'[h])
  BY <1>0, <1>1, <1>2, Unlocked
<1>4. OnlyMoves(h) /\ task'[h] \in {Advanced(h), Resumed(h)}
  BY <1>0, <1>1, MoveAt DEF Unlock, RemovalFails, OnlyMoves, Same
<1>5. CASE task'[h] = Advanced(h)
  BY <1>0, <1>1, <1>3, <1>4, <1>5, AdvancedPlace, LettingGo
<1>6. CASE task'[h] = Resumed(h)
  BY <1>0, <1>1, <1>3, <1>4, <1>6, ResumedPlace, LettingGo
<1> QED BY <1>4, <1>5, <1>6

LEMMA AdoptFailsStep ==
    ASSUME IInv, NEW h \in Hosts, AdoptFails(h)
    PROVE  Rest'
<1>0. TypeOK /\ PlaceInv(h) /\ own[h] = None /\ task[h].run \in Runs
  BY DEF IInv, PlaceInv, AdoptFails, At
<1>1. UNCHANGED <<here, files, whole, own, authority>>
  BY DEF AdoptFails, SameFiles
<1>2. \A s \in Runs : lease'[s] = lease[s] \/ (lease[s] = h /\ s # own'[h])
  BY <1>0, <1>1, Unlocked, RunAssumption DEF AdoptFails
<1>3. OnlyMoves(h) /\ task'[h] = Idle
  BY <1>0, <1>1, MoveAt DEF AdoptFails, OnlyMoves, Same
<1> QED BY <1>1, <1>2, <1>3, IdlePlace, LettingGo

LEMMA DieStep ==
    ASSUME IInv, NEW h \in Hosts, Die(h)
    PROVE  Rest'
<1>0. TypeOK
  BY DEF IInv
<1>1. UNCHANGED <<here, files, whole, authority>> /\ own'[h] = None
  BY <1>0 DEF Die, SameFiles, TypeOK
<1>2. \A s \in Runs : lease'[s] = lease[s] \/ (lease[s] = h /\ s # own'[h])
  BY <1>1, RunAssumption DEF Die
<1>3. OnlyMoves(h) /\ task'[h] = Idle
  BY <1>0, MoveAt DEF Die, OnlyMoves, Same, TypeOK
<1> QED BY <1>1, <1>2, <1>3, IdlePlace, LettingGo


\* Nobody who holds, adopts, makes or takes apart a run has it gone.
LEMMA InUse ==
    ASSUME IInv, NEW g \in Hosts, NEW r \in Runs, r \notin here
    PROVE  /\ own[g] # r
           /\ task[g].run = r =>
                 /\ ~ At(g, "adopting")
                 /\ task[g].pc \in Build \cup {"remove"} => task[g].detached
<1>1. HoldInv(g) /\ MakeInv(g) /\ TearInv(g)
  BY DEF IInv
<1>2. own[g] # r
  BY <1>1, RunAssumption DEF HoldInv, Complete
<1>3. task[g].run = r => ~ At(g, "adopting")
  BY <1>1 DEF HoldInv, Complete
<1>4. task[g].run = r /\ task[g].pc \in Build => task[g].detached
  BY <1>1 DEF MakeInv
<1>5. task[g].run = r /\ At(g, "remove") => task[g].detached
  BY <1>1 DEF TearInv
<1> QED BY <1>2, <1>3, <1>4, <1>5 DEF At

\* Of a new directory's name only detached handles are left, and no other maker.
LEMMA MakeDirStep ==
    ASSUME IInv, NEW h \in Hosts, NEW r \in Runs, CreateRun(h, r) \/ CloneRun(h, r)
    PROVE  Rest'
<1>0. TypeOK
  BY DEF IInv
<1>1. PICK op \in {"create", "clone"} :
          MakeDir(h, r, op) /\ (op = "create" => r \notin Migrated)
  BY DEF CreateRun, CloneRun
<1>2. /\ r \notin here /\ here' = here \cup {r} /\ own[h] = None /\ At(h, "idle")
      /\ own' = own /\ authority' = authority
      /\ files'[r] = {} /\ lease'[r] = None /\ whole' = whole \ {r}
      /\ \A s \in Runs \ {r} : files'[s] = files[s] /\ lease'[s] = lease[s]
  BY <1>0, <1>1 DEF MakeDir, TypeOK
<1>3. r \notin authority
  BY DEF CreateRun, CloneRun
<1>4. task'[h] = [Idle EXCEPT !.op = op, !.pc = "marker", !.run = r] /\ OnlyMoves(h)
  BY <1>0, <1>1, OthersMoveOn DEF MakeDir
<1>5. /\ task'[h].op = op /\ task'[h].pc = "marker" /\ task'[h].run = r
      /\ ~ task'[h].detached /\ ~ task'[h].strict
  BY <1>4 DEF Idle
<1>6. ASSUME NEW g \in Hosts, g # h PROVE Same(g)
  BY <1>4, <1>6 DEF OnlyMoves
<1>7. ASSUME NEW g \in Hosts, g # h, task[g].pc \in Build
      PROVE  task[g].run # r
  <2>1. CASE CreateRun(h, r)
    BY <1>7, <2>1 DEF CreateRun, Used
  <2>2. CASE CloneRun(h, r)
    <3>1. task[g].op = "clone" \/ (task[g].op = "create" /\ task[g].run \notin Migrated)
      BY <1>7 DEF IInv, PlaceInv
    <3> QED BY <2>2, <3>1 DEF CloneRun
  <2> QED BY <2>1, <2>2
<1>8. ReferredIntact'
  BY <1>0, <1>2, <1>3 DEF IInv, ReferredIntact, Complete, TypeOK, Runs
<1>p. ASSUME NEW g \in Hosts PROVE PlaceInv(g)'
  <2>1. CASE g = h
    BY <1>1, <1>2, <1>5, <2>1, Places DEF PlaceInv, At, Build, Files
  <2>2. CASE g # h
    BY <1>2, <1>6, <2>2 DEF IInv, PlaceInv, At, Same
  <2> QED BY <2>1, <2>2
<1>m. ASSUME NEW g \in Hosts PROVE MakeInv(g)'
  <2>1. CASE g = h
    <3>1. \A f \in Hosts \ {h} : task'[f].pc \in Build => task'[f].run # r
      BY <1>6, <1>7 DEF Same
    <3> QED BY <1>2, <1>3, <1>5, <2>1, <3>1, MadeAt DEF MakeInv
  <2>2. CASE g # h
    <3>1. SUFFICES ASSUME task[g].pc \in Build PROVE MakeInv(g)'
      BY <1>6, <2>2 DEF MakeInv, Same
    <3>2. task[g].run \in Runs \ {r} /\ MakeInv(g)
      BY <1>7, <2>2, <3>1 DEF IInv, PlaceInv
    <3>3. \A f \in Hosts \ {g} : task'[f].pc \in Build => task'[f].run # task[g].run
      BY <1>5, <1>6, <3>1, <3>2 DEF MakeInv, Same
    <3> QED BY <1>2, <1>6, <2>2, <3>1, <3>2, <3>3 DEF MakeInv, At, Same
  <2> QED BY <2>1, <2>2
<1>t. ASSUME NEW g \in Hosts PROVE TearInv(g)'
  <2>1. SUFFICES ASSUME At(g, "remove")', ~ task'[g].detached PROVE TearInv(g)'
    BY DEF TearInv
  <2>2. g # h /\ At(g, "remove") /\ ~ task[g].detached /\ task'[g].run = task[g].run
        /\ task[g].run \in Runs
    BY <1>5, <1>6, <2>1 DEF At, IInv, PlaceInv, Same
  <2>3. task[g].run # r /\ TearInv(g)
    BY <1>2, <2>2, InUse DEF At, IInv
  <2> QED BY <1>2, <1>5, <1>6, <2>2, <2>3, Places DEF TearInv, At, Same
<1>h. ASSUME NEW g \in Hosts PROVE HoldInv(g)'
  <2>1. HoldInv(g) /\ own[g] # r /\ own[g] \in Runs \cup {None}
    BY <1>0, <1>2, InUse, TaskFields DEF IInv
  <2>2. At(g, "adopting")' => g # h /\ At(g, "adopting") /\ task[g].run \in Runs \ {r}
    BY <1>2, <1>5, <1>6, InUse DEF At, IInv, PlaceInv, Same
  <2> QED BY <1>2, <1>6, <2>1, <2>2 DEF HoldInv, Complete, At, Same
<1> QED BY <1>8, <1>p, <1>m, <1>t, <1>h DEF Rest

\* The next step of a construction: another file, or the lock.
LEMMA MakeStep ==
    ASSUME IInv, NEW h \in Hosts, MakeFile(h) \/ LockLease(h)
    PROVE  Rest'
<1> DEFINE r == task[h].run
<1>0. TypeOK /\ task[h] \in Task
  BY DEF IInv, TypeOK
<1>1. /\ task[h].pc \in Build \ {"built"} /\ ~ task[h].detached
      /\ UNCHANGED <<here, whole, own, authority>>
      /\ task' = [task EXCEPT ![h] = [task[h] EXCEPT !.pc = FollowedBy(task[h].pc)]]
  BY DEF MakeFile, LockLease, Build, Files, At, Step, Move, SameFiles
<1>2. PlaceInv(h) /\ MakeInv(h) /\ r \in Runs /\ own[h] = None
  BY <1>1 DEF IInv, PlaceInv
<1>3. r \in here \ authority /\ files[r] = Made(task[h].pc)
      /\ (task[h].pc \in {"pages", "blobs"} => lease[r] = h)
  BY <1>1, <1>2 DEF MakeInv
<1>4. /\ task'[h].pc = FollowedBy(task[h].pc) /\ task'[h].run = r /\ ~ task'[h].detached
      /\ task'[h].op = task[h].op /\ task'[h].strict = task[h].strict
      /\ task'[h].reachable = task[h].reachable
      /\ \A g \in Hosts \ {h} : task'[g] = task[g]
  BY <1>0, <1>1 DEF TypeOK, Task
<1>5. task'[h].pc \in {"lease", "lock", "pages", "blobs", "built"}
  BY <1>1, <1>4, FollowedByAt DEF Build, Files
<1>6. files'[r] = Made(task'[h].pc) /\ (task'[h].pc \in {"pages", "blobs", "built"} => lease'[r] = h)
  <2>1. CASE MakeFile(h)
    <3>1. files'[r] = files[r] \cup {task[h].pc} /\ lease' = lease /\ task[h].pc \in Files
      BY <1>0, <1>2, <2>1 DEF MakeFile, TypeOK
    <3> QED BY <1>3, <1>4, <3>1, MadeAt, FollowedByAt DEF Files
  <2>2. CASE LockLease(h)
    <3>1. files' = files /\ lease'[r] = h /\ task[h].pc = "lock"
      BY <1>0, <1>2, <2>2 DEF LockLease, TypeOK, SameFiles, At
    <3> QED BY <1>3, <1>4, <3>1, MadeAt, FollowedByAt
  <2> QED BY <2>1, <2>2
<1>7. /\ \A s \in Runs \ {r} : files'[s] = files[s] /\ lease'[s] = lease[s]
      /\ lease'[r] = lease[r] \/ (lease[r] = None /\ lease'[r] = h)
  <2>1. CASE MakeFile(h)
    BY <1>0, <2>1 DEF MakeFile, TypeOK
  <2>2. CASE LockLease(h)
    BY <1>0, <1>2, <2>2 DEF LockLease, TypeOK, SameFiles, Free
  <2> QED BY <2>1, <2>2
<1>8. task[h].pc # "built" /\ task[h].pc \in Build /\ files[r] # Files
  BY <1>1, <1>3, MadeWhole
<1>9. ReferredIntact'
  BY <1>0, <1>1, <1>3, <1>7 DEF IInv, ReferredIntact, Complete, TypeOK, Runs
<1>p. ASSUME NEW g \in Hosts PROVE PlaceInv(g)'
  <2>1. CASE g = h
    BY <1>1, <1>2, <1>4, <1>5, <1>8, <2>1, Places DEF PlaceInv, At
  <2>2. CASE g # h
    BY <1>1, <1>4, <2>2 DEF IInv, PlaceInv, At
  <2> QED BY <2>1, <2>2
<1>m. ASSUME NEW g \in Hosts PROVE MakeInv(g)'
  <2>1. CASE g = h
    BY <1>1, <1>2, <1>3, <1>4, <1>6, <1>8, <2>1 DEF MakeInv
  <2>2. CASE g # h
    <3>1. SUFFICES ASSUME task[g].pc \in Build PROVE MakeInv(g)'
      BY <1>4, <2>2 DEF MakeInv
    <3>2. MakeInv(g) /\ task[g].run \in Runs \ {r}
      BY <1>2, <1>8, <2>2, <3>1 DEF IInv, PlaceInv, MakeInv
    <3>3. \A f \in Hosts \ {g} : task'[f].pc \in Build => task'[f].run # task[g].run
      BY <1>4, <1>8, <3>1, <3>2 DEF MakeInv
    <3> QED BY <1>1, <1>4, <1>7, <2>2, <3>1, <3>2, <3>3 DEF MakeInv, At
  <2> QED BY <2>1, <2>2
<1>t. ASSUME NEW g \in Hosts PROVE TearInv(g)'
  <2>1. SUFFICES ASSUME At(g, "remove")', ~ task'[g].detached PROVE TearInv(g)'
    BY DEF TearInv
  <2>2. g # h /\ At(g, "remove") /\ ~ task[g].detached /\ task'[g] = task[g] /\ TearInv(g)
    BY <1>4, <1>5, <2>1 DEF At, IInv
  <2> QED BY <1>1, <1>4, <1>5, <1>8, <2>2, Places DEF TearInv, At
<1>h. ASSUME NEW g \in Hosts PROVE HoldInv(g)'
  <2>1. HoldInv(g) /\ own[g] \in Runs \cup {None}
    BY <1>0, TaskFields DEF IInv
  <2>2. own[g] # None => own[g] # r
    BY <1>8, <2>1 DEF HoldInv, Complete
  <2>3. At(g, "adopting")' => g # h /\ At(g, "adopting") /\ task[g].run \in Runs \ {r}
    BY <1>4, <1>5, <1>8, <2>1 DEF At, IInv, PlaceInv, HoldInv, Complete
  <2> QED BY <1>1, <1>4, <1>7, <2>1, <2>2, <2>3 DEF HoldInv, Complete, At
<1> QED BY <1>9, <1>p, <1>m, <1>t, <1>h DEF Rest


\* Who holds open, makes or adopts a complete run has its lock.
LEMMA LockedByUser ==
    ASSUME IInv, NEW g \in Hosts, NEW r \in Runs, files[r] = Files
    PROVE  own[g] = r \/ (task[g].run = r /\ (At(g, "adopting") \/
               (task[g].pc \in Build /\ ~ task[g].detached))) => lease[r] = g
<1>1. HoldInv(g) /\ MakeInv(g)
  BY DEF IInv
<1>2. own[g] = r => lease[r] = g
  BY <1>1, RunAssumption DEF HoldInv
<1>3. task[g].run = r /\ At(g, "adopting") => lease[r] = g
  BY <1>1 DEF HoldInv
<1>4. task[g].run = r /\ task[g].pc \in Build /\ ~ task[g].detached => lease[r] = g
  BY <1>1, MadeWhole DEF MakeInv
<1> QED BY <1>2, <1>3, <1>4

\* A construction that is complete: the run is its maker's.
LEMMA BuiltStep ==
    ASSUME IInv, NEW h \in Hosts, Built(h) \/ Copied(h)
    PROVE  Rest'
<1> DEFINE r == task[h].run
<1>0. TypeOK /\ task[h] \in Task
  BY DEF IInv, TypeOK
<1>1. /\ At(h, "built") /\ UNCHANGED <<here, files, lease, authority>>
      /\ whole' = whole \cup {r} /\ own' = [own EXCEPT ![h] = r]
  BY DEF Built, Copied, SameFiles
<1>2. PlaceInv(h) /\ MakeInv(h) /\ r \in Runs /\ task[h].pc \in Build
  BY <1>1 DEF IInv, PlaceInv, At, Build
<1>3. /\ ~ task[h].detached /\ r \in here \ authority /\ files[r] = Files /\ lease[r] = h
  BY <1>1, <1>2, MadeAt DEF MakeInv, At
<1>4. OnlyMoves(h) /\ own'[h] = r
  BY <1>0, <1>1, MoveAt DEF Built, Copied, OnlyMoves, Same, TypeOK
<1>5. PlaceInv(h)' /\ task'[h].pc \in {"pass", "idle"}
  <2>1. CASE Built(h)
    <3>1. task'[h] = [task[h] EXCEPT !.pc = "pass", !.run = None, !.strict = TRUE,
                          !.unseen = Runs \ {r}, !.stale = {s \in Runs : Stale(s)}]
      BY <1>0, <2>1, MoveAt DEF Built
    <3>2. task'[h].pc = "pass" /\ task'[h].op = task[h].op /\ task[h].op = "create"
      BY <1>0, <2>1, <3>1 DEF Task, Built
    <3> QED BY <3>2, Places DEF PlaceInv, At
  <2>2. CASE Copied(h)
    BY <1>0, <2>2, MoveAt, IdlePlace DEF Copied
  <2> QED BY <2>1, <2>2
<1>6. ReferredIntact'
  BY <1>1 DEF IInv, ReferredIntact, Complete
<1>p. ASSUME NEW g \in Hosts PROVE PlaceInv(g)'
  BY <1>1, <1>4, <1>5 DEF IInv, PlaceInv, At, OnlyMoves, Same
<1>m. ASSUME NEW g \in Hosts PROVE MakeInv(g)'
  <2>1. SUFFICES ASSUME task'[g].pc \in Build PROVE MakeInv(g)'
    BY DEF MakeInv
  <2>2. g # h /\ Same(g) /\ MakeInv(g)
    BY <1>4, <1>5, <2>1, Places DEF OnlyMoves, Same, IInv
  <2>3. \A f \in Hosts \ {g} : task'[f].pc \in Build => task'[f].run # task[g].run
    BY <1>4, <1>5, <2>1, <2>2, Places DEF OnlyMoves, Same, MakeInv
  <2> QED BY <1>1, <2>2, <2>3 DEF MakeInv, At, Same
<1>t. ASSUME NEW g \in Hosts PROVE TearInv(g)'
  <2>1. SUFFICES ASSUME At(g, "remove")', ~ task'[g].detached PROVE TearInv(g)'
    BY DEF TearInv
  <2>2. g # h /\ Same(g) /\ TearInv(g) /\ At(g, "remove")
    BY <1>4, <1>5, <2>1 DEF OnlyMoves, Same, IInv, At
  <2>3. task[g].run # r
    BY <1>2, <1>3, <2>1, <2>2 DEF TearInv, Same, At
  <2> QED BY <1>1, <1>4, <1>5, <2>1, <2>2, <2>3, Places DEF TearInv, At, OnlyMoves, Same
<1>h. ASSUME NEW g \in Hosts PROVE HoldInv(g)'
  BY <1>1, <1>3, <1>4, <1>5 DEF IInv, HoldInv, OnlyMoves, Same, At, Complete
<1> QED BY <1>6, <1>p, <1>m, <1>t, <1>h DEF Rest

\* The start of a removal of a run that nobody holds, makes, adopts or refers to.
LEMMA RemovalBegins ==
    ASSUME IInv, NEW h \in Hosts, UNCHANGED <<here, files, authority, whole>>,
           OnlyMoves(h), At(h, "remove")', task'[h].run \in Runs, task'[h].todo \in Todos,
           own'[h] \in {own[h], None}, own'[h] # task'[h].run,
           task'[h].strict => task'[h].op \in {"create", "sweep"},
           task'[h].op = "sweep" => task'[h].reachable = authority,
           \A s \in Runs : \/ lease'[s] = lease[s] \/ (lease[s] = h /\ s # own'[h])
                           \/ (lease[s] = None /\ lease'[s] = h),
           ~ task'[h].detached =>
               /\ task'[h].run \in here \ authority
               /\ \A g \in Hosts \ {h} :
                     /\ own[g] # task'[h].run
                     /\ task[g].run = task'[h].run =>
                           ~ At(g, "adopting") /\ (task[g].pc \in Build => task[g].detached)
    PROVE  Rest'
<1>0. TypeOK
  BY DEF IInv
<1>1. ASSUME NEW g \in Hosts, g # h PROVE Same(g)
  BY <1>1 DEF OnlyMoves
<1>2. ReferredIntact'
  BY DEF IInv, ReferredIntact, Complete
<1>p. ASSUME NEW g \in Hosts PROVE PlaceInv(g)'
  <2>1. CASE g = h
    BY <2>1, Places DEF PlaceInv, At
  <2>2. CASE g # h
    BY <1>1, <2>2 DEF IInv, PlaceInv, At, Same
  <2> QED BY <2>1, <2>2
<1>m. ASSUME NEW g \in Hosts PROVE MakeInv(g)'
  <2>1. SUFFICES ASSUME task'[g].pc \in Build PROVE MakeInv(g)'
    BY DEF MakeInv
  <2>2. g # h /\ MakeInv(g) /\ task[g].pc \in Build /\ task[g].run \in Runs
    BY <1>1, <2>1, Places DEF IInv, PlaceInv, At, Same
  <2>3. \A f \in Hosts \ {g} : task'[f].pc \in Build => task'[f].run # task[g].run
    BY <1>1, <2>2, Places DEF MakeInv, At, Same
  <2>4. lease[task[g].run] = g => lease'[task[g].run] = g
    BY <2>2, RunAssumption
  <2> QED BY <1>1, <2>2, <2>3, <2>4 DEF MakeInv, At, Same
<1>t. ASSUME NEW g \in Hosts PROVE TearInv(g)'
  <2>1. SUFFICES ASSUME At(g, "remove")', ~ task'[g].detached PROVE TearInv(g)'
    BY DEF TearInv
  <2>2. CASE g = h
    BY <1>1, <2>1, <2>2, Places DEF TearInv, At, Same
  <2>3. CASE g # h
    <3>1. TearInv(g) /\ At(g, "remove") /\ task[g].run \in Runs /\ None # task[g].run
      BY <1>1, <2>1, <2>3, RunAssumption DEF IInv, At, PlaceInv, Same
    <3> QED BY <1>1, <2>1, <2>3, <3>1, Places DEF TearInv, At, Same
  <2> QED BY <2>2, <2>3
<1>h. ASSUME NEW g \in Hosts PROVE HoldInv(g)'
  <2>1. HoldInv(g) /\ PlaceInv(g) /\ own[g] \in Runs \cup {None}
    BY <1>0, TaskFields DEF IInv
  <2>2. own'[g] # None => own'[g] = own[g] /\ lease'[own[g]] = g
    BY <1>1, <2>1, RunAssumption DEF HoldInv, Same
  <2>3. At(g, "adopting")' => g # h /\ lease'[task[g].run] = g
    BY <1>1, <2>1, RunAssumption DEF HoldInv, PlaceInv, At, Same
  <2> QED BY <1>1, <2>1, <2>2, <2>3 DEF HoldInv, Complete, At, Same
<1> QED BY <1>2, <1>p, <1>m, <1>t, <1>h DEF Rest


LEMMA BuildFailsStep ==
    ASSUME IInv, NEW h \in Hosts, BuildFails(h)
    PROVE  Rest'
<1> DEFINE r == task[h].run
           t == [task[h] EXCEPT !.pc = "remove", !.strict = FALSE, !.detached = r \notin here,
                                !.todo = <<"pages", "blobs", "marker", "lease", "dir">>]
<1>0. TypeOK /\ task[h] \in Task
  BY DEF IInv, TypeOK
<1>1. /\ task[h].pc \in Build /\ UNCHANGED <<here, files, whole, own, authority>>
      /\ Release(h, r) /\ Move(h, t)
  BY DEF BuildFails, Build, SameFiles
<1>2. PlaceInv(h) /\ MakeInv(h) /\ r \in Runs /\ own[h] = None
  BY <1>1 DEF IInv, PlaceInv
<1>3. task'[h] = t /\ OnlyMoves(h)
  BY <1>0, <1>1, MoveAt DEF OnlyMoves, Same
<1>4. /\ task'[h].pc = "remove" /\ task'[h].run = r /\ ~ task'[h].strict
      /\ (task'[h].detached <=> r \notin here)
      /\ task'[h].todo = <<"pages", "blobs", "marker", "lease", "dir">>
      /\ task'[h].op = task[h].op /\ task'[h].reachable = task[h].reachable
  BY <1>0, <1>3 DEF Task
<1>5. \A s \in Runs : lease'[s] = lease[s] \/ (lease[s] = h /\ s # own'[h])
  BY <1>1, <1>2, RunAssumption, Unlocked
<1>6. ASSUME r \in here, NEW g \in Hosts \ {h}
      PROVE  /\ own[g] # r
             /\ task[g].run = r => ~ At(g, "adopting") /\ (task[g].pc \in Build => task[g].detached)
  <2>1. ~ task[h].detached /\ files[r] = Made(task[h].pc)
        /\ (task[h].pc \in {"pages", "blobs", "built"} => lease[r] = h)
    BY <1>1, <1>2, <1>6 DEF MakeInv
  <2>2. own[g] = r \/ (task[g].run = r /\ At(g, "adopting")) => files[r] = Files /\ lease[r] = g
    BY <1>2, RunAssumption DEF IInv, HoldInv, Complete
  <2>3. task[g].run = r => task[g].pc \notin Build
    BY <1>1, <1>2, <1>6 DEF MakeInv
  <2>4. files[r] = Files => lease[r] = h
    BY <1>1, <2>1, MadeWhole
  <2> QED BY <1>6, <2>2, <2>3, <2>4
<1>7. ~ task'[h].detached =>
          /\ r \in here \ authority
          /\ \A g \in Hosts \ {h} :
                /\ own[g] # r
                /\ task[g].run = r =>
                      ~ At(g, "adopting") /\ (task[g].pc \in Build => task[g].detached)
  <2>1. r \in here => r \notin authority
    BY <1>1, <1>2 DEF MakeInv
  <2> QED BY <1>4, <1>6, <2>1
<1>9. task'[h].op = "sweep" => task'[h].reachable = authority
  BY <1>2, <1>4 DEF PlaceInv
<1>10. own'[h] = None /\ None # r
  BY <1>1, <1>2, RunAssumption
<1>11. At(h, "remove")' /\ task'[h].run \in Runs /\ task'[h].todo \in Todos
  BY <1>2, <1>4, RemovalTodo DEF At
<1>12. own'[h] \in {own[h], None} /\ own'[h] # task'[h].run
  BY <1>4, <1>10
<1>13. \A s \in Runs : \/ lease'[s] = lease[s] \/ (lease[s] = h /\ s # own'[h])
                       \/ (lease[s] = None /\ lease'[s] = h)
  BY <1>5
<1>14. ~ task'[h].detached =>
           /\ task'[h].run \in here \ authority
           /\ \A g \in Hosts \ {h} :
                 /\ own[g] # task'[h].run
                 /\ task[g].run = task'[h].run =>
                       ~ At(g, "adopting") /\ (task[g].pc \in Build => task[g].detached)
  BY <1>4, <1>7
<1>15. task'[h].strict => task'[h].op \in {"create", "sweep"}
  BY <1>4
<1> QED BY <1>1, <1>3, <1>9, <1>11, <1>12, <1>13, <1>14, <1>15, RemovalBegins

LEMMA TakeStep ==
    ASSUME IInv, NEW h \in Hosts, TakeStale(h)
    PROVE  Rest'
<1> DEFINE r == task[h].run
           t == [task[h] EXCEPT !.pc = "remove", !.todo = Removal]
<1>0. TypeOK /\ task[h] \in Task
  BY DEF IInv, TypeOK
<1>1. At(h, "leasing") /\ UNCHANGED <<here, files, whole, own, authority>> /\ Free(r)
  BY DEF TakeStale, SameFiles, Lockable
<1>2. PlaceInv(h) /\ r \in Runs /\ r \notin authority /\ task[h].op \in {"create", "sweep"}
  BY <1>1 DEF IInv, PlaceInv, At
<1>4. CASE Complete(r)
  <2>1. task' = NotStale(h, r, t) /\ lease' = [lease EXCEPT ![r] = h]
    BY <1>4 DEF TakeStale
  <2>2. task'[h] = t /\ OnlyMoves(h)
    BY <1>0, <1>1, <1>2, <2>1, OthersMoveOn
  <2>3. /\ task'[h].pc = "remove" /\ task'[h].run = r /\ task'[h].todo = Removal
        /\ task'[h].op = task[h].op /\ task'[h].reachable = task[h].reachable
        /\ task'[h].strict = task[h].strict
    BY <1>0, <2>2 DEF Task
  <2>4. lease[r] = None /\ None # h /\ files[r] = Files /\ r \in here
    BY <1>1, <1>4, RunAssumption DEF Free, Complete
  <2>5. ASSUME NEW g \in Hosts
        PROVE  /\ own[g] # r
               /\ task[g].run = r =>
                     ~ At(g, "adopting") /\ (task[g].pc \in Build => task[g].detached)
    BY <1>2, <2>4, LockedByUser, RunAssumption
  <2>6. \A s \in Runs : lease'[s] = lease[s] \/ (lease[s] = None /\ lease'[s] = h)
    BY <1>0, <2>1, <2>4 DEF TypeOK
  <2>7. task'[h].op = "sweep" => task'[h].reachable = authority
    BY <1>2, <2>3 DEF PlaceInv
  <2>8. At(h, "remove")' /\ task'[h].run \in Runs /\ task'[h].todo \in Todos
    BY <1>2, <2>3, RemovalTodo DEF At
  <2>9. own'[h] \in {own[h], None} /\ own'[h] # task'[h].run
    BY <1>1, <2>3, <2>5
  <2>10. \A s \in Runs : \/ lease'[s] = lease[s] \/ (lease[s] = h /\ s # own'[h])
                         \/ (lease[s] = None /\ lease'[s] = h)
    BY <2>6
  <2>11. /\ task'[h].run \in here \ authority
         /\ \A g \in Hosts \ {h} :
               /\ own[g] # task'[h].run
               /\ task[g].run = task'[h].run =>
                     ~ At(g, "adopting") /\ (task[g].pc \in Build => task[g].detached)
    BY <1>2, <2>3, <2>4, <2>5
  <2>12. task'[h].strict => task'[h].op \in {"create", "sweep"}
    BY <1>2, <2>3
  <2> QED BY <1>1, <2>2, <2>7, <2>8, <2>9, <2>10, <2>11, <2>12, RemovalBegins
<1>5. CASE ~ Complete(r)
  <2>1. task' = NotStale(h, r, Resumed(h)) /\ lease' = lease
    BY <1>5 DEF TakeStale
  <2>2. task'[h] = Resumed(h) /\ OnlyMoves(h)
    BY <1>0, <1>1, <1>2, <2>1, OthersMoveOn
  <2>3. PlaceInv(h)' /\ task'[h].pc \in {"idle", "pass"}
    BY <1>1, <2>2, ResumedPlace
  <2> QED BY <1>1, <2>1, <2>2, <2>3, LettingGo
<1> QED BY <1>4, <1>5


\* A file that is removed is one of a run being taken apart.
LEMMA RemoveFileStep ==
    ASSUME IInv, NEW h \in Hosts, RemoveFile(h)
    PROVE  Rest'
<1> DEFINE r == task[h].run
           f == Head(task[h].todo)
<1>0. TypeOK /\ PlaceInv(h) /\ TearInv(h) /\ At(h, "remove") /\ r \in Runs /\ own[h] # r
  BY DEF IInv, PlaceInv, RemoveFile, At
<1>1. UNCHANGED <<here, whole, own, authority>>
  BY DEF RemoveFile
<1>2. CASE task[h].detached \/ f \notin files[r]
  <2>1. UNCHANGED files /\ (Release(h, r) \/ UNCHANGED lease)
    BY <1>2 DEF RemoveFile
  <2>2. \A s \in Runs : lease'[s] = lease[s] \/ (lease[s] = h /\ s # own'[h])
    BY <1>0, <1>1, <2>1, Unlocked
  <2>3. OnlyMoves(h) /\ task'[h] \in {Advanced(h), Resumed(h)}
    BY <1>0, <1>1, <1>2, MoveAt DEF RemoveFile, OnlyMoves, Same
  <2>4. CASE task'[h] = Advanced(h)
    BY <1>0, <1>1, <2>1, <2>2, <2>3, <2>4, AdvancedPlace, LettingGo
  <2>5. CASE task'[h] = Resumed(h)
    BY <1>0, <1>1, <2>1, <2>2, <2>3, <2>5, ResumedPlace, LettingGo
  <2> QED BY <2>3, <2>4, <2>5
<1>3. CASE ~ task[h].detached /\ f \in files[r]
  <2>1. /\ UNCHANGED lease /\ Move(h, Advanced(h))
        /\ \A s \in Runs \ {r} : files'[s] = files[s]
    BY <1>0, <1>3 DEF RemoveFile, TypeOK
  <2>2. task'[h] = Advanced(h) /\ OnlyMoves(h)
    BY <1>0, <1>1, <2>1, MoveAt DEF OnlyMoves, Same
  <2>3. /\ PlaceInv(h)'
        /\ \/ task'[h].pc \in {"idle", "pass"}
           \/ /\ At(h, "remove") /\ At(h, "remove")'
              /\ task'[h].run = task[h].run /\ task'[h].detached = task[h].detached
    BY <1>0, <1>1, <2>2, AdvancedPlace
  <2>4. /\ r \in here \ authority
        /\ \A g \in Hosts :
              /\ own[g] # r
              /\ task[g].run = r => ~ At(g, "adopting") /\ (task[g].pc \in Build => task[g].detached)
    BY <1>0, <1>3 DEF TearInv
  <2>5. ReferredIntact'
    BY <1>0, <1>1, <2>1, <2>4 DEF IInv, ReferredIntact, Complete, TypeOK, Runs
  <2>p. ASSUME NEW g \in Hosts PROVE PlaceInv(g)'
    BY <1>1, <2>2, <2>3 DEF IInv, PlaceInv, At, OnlyMoves, Same
  <2>m. ASSUME NEW g \in Hosts PROVE MakeInv(g)'
    <3>1. SUFFICES ASSUME task'[g].pc \in Build PROVE MakeInv(g)'
      BY DEF MakeInv
    <3>2. g # h /\ Same(g) /\ MakeInv(g) /\ task[g].run \in Runs
      BY <2>2, <2>3, <3>1, Places DEF OnlyMoves, Same, IInv, PlaceInv, At
    <3>3. ~ task[g].detached => task[g].run # r
      BY <2>4, <3>1, <3>2 DEF Same
    <3>4. \A e \in Hosts \ {g} : task'[e].pc \in Build => task'[e].run # task[g].run
      BY <2>2, <2>3, <3>1, <3>2, Places DEF OnlyMoves, Same, MakeInv, At
    <3> QED BY <1>1, <2>1, <3>2, <3>3, <3>4 DEF MakeInv, At, Same
  <2>t. ASSUME NEW g \in Hosts PROVE TearInv(g)'
    <3>1. SUFFICES ASSUME At(g, "remove")', ~ task'[g].detached PROVE TearInv(g)'
      BY DEF TearInv
    <3>2. At(g, "remove") /\ task'[g].run = task[g].run /\ ~ task[g].detached /\ TearInv(g)
      BY <2>2, <2>3, <3>1 DEF OnlyMoves, Same, IInv, At
    <3>3. ASSUME NEW e \in Hosts, task'[e].pc \in Build \cup {"adopting"} PROVE Same(e)
      BY <2>2, <2>3, <3>3, Places DEF OnlyMoves, At
    <3> QED BY <1>1, <3>1, <3>2, <3>3 DEF TearInv, At, Same
  <2>h. ASSUME NEW g \in Hosts PROVE HoldInv(g)'
    <3>1. HoldInv(g) /\ PlaceInv(g) /\ own[g] \in Runs \cup {None}
      BY <1>0, TaskFields DEF IInv
    <3>2. At(g, "adopting")' => g # h /\ Same(g) /\ task[g].run \in Runs \ {r}
      BY <2>2, <2>3, <2>4, <3>1 DEF OnlyMoves, Same, PlaceInv, At
    <3> QED BY <1>1, <2>1, <2>4, <3>1, <3>2 DEF HoldInv, Complete, At, Same
  <2> QED BY <2>5, <2>p, <2>m, <2>t, <2>h DEF Rest
<1> QED BY <1>2, <1>3

\* The directory that goes is empty: of those who use the run only a maker that
\* has just begun and others that remove it.
LEMMA RemoveDirStep ==
    ASSUME IInv, NEW h \in Hosts, RemoveDir(h)
    PROVE  Rest'
<1> DEFINE r == task[h].run
           removed == r \in here /\ files[r] = {}
<1>0. TypeOK /\ PlaceInv(h) /\ At(h, "remove") /\ r \in Runs /\ own[h] # r
      /\ task[h].todo \in Todos /\ Head(task[h].todo) = "dir"
  BY DEF IInv, PlaceInv, RemoveDir, At
<1>1. UNCHANGED <<files, lease, whole, own, authority>>
      /\ here' = IF removed THEN here \ {r} ELSE here
  BY DEF RemoveDir
<1>2. task'[h] = Advanced(h)
  BY DEF RemoveDir
<1>3. task'[h] = Resumed(h)
  BY <1>0, <1>2, TodosTyped DEF Advanced
<1>4. PlaceInv(h)' /\ task'[h].pc \in {"idle", "pass"}
  BY <1>1, <1>3, ResumedPlace
<1>5. CASE ~ removed
  <2>1. OnlyMoves(h) /\ here' = here
    BY <1>1, <1>5 DEF RemoveDir, OnlyMoves, Same
  <2> QED BY <1>1, <1>4, <2>1, LettingGo
<1>6. CASE removed
  <2>1. here' = here \ {r} /\ r \in here /\ files[r] = {} /\ {} # Files
    BY <1>1, <1>6 DEF Files
  <2>2. ASSUME NEW g \in Hosts, g # h
        PROVE  /\ task'[g].pc = task[g].pc /\ task'[g].run = task[g].run
               /\ task'[g].op = task[g].op /\ task'[g].strict = task[g].strict
               /\ task'[g].todo = task[g].todo /\ task'[g].reachable = task[g].reachable
               /\ task'[g].detached = (task[g].run = r \/ task[g].detached)
    <3>1. task[g] \in Task
      BY <1>0 DEF TypeOK
    <3>2. task[g].run = r => task'[g] = [task[g] EXCEPT !.detached = TRUE]
      BY <1>6, <2>2 DEF RemoveDir
    <3>3. task[g].run # r => task'[g] = task[g]
      BY <1>6, <2>2 DEF RemoveDir
    <3> QED BY <3>1, <3>2, <3>3 DEF Task
  <2>3. ReferredIntact'
    BY <1>1, <2>1 DEF IInv, ReferredIntact, Complete
  <2>p. ASSUME NEW g \in Hosts PROVE PlaceInv(g)'
    <3>1. CASE g = h
      BY <1>4, <3>1
    <3>2. CASE g # h
      BY <1>1, <2>2, <3>2 DEF IInv, PlaceInv, At
    <3> QED BY <3>1, <3>2
  <2>m. ASSUME NEW g \in Hosts PROVE MakeInv(g)'
    <3>1. SUFFICES ASSUME task'[g].pc \in Build PROVE MakeInv(g)'
      BY DEF MakeInv
    <3>2. g # h /\ task[g].pc \in Build /\ MakeInv(g) /\ task[g].run \in Runs
      BY <1>4, <2>2, <3>1, Places DEF IInv, PlaceInv
    <3>3. \A e \in Hosts \ {g} : task'[e].pc \in Build => task'[e].run # task'[g].run
      BY <1>4, <2>2, <3>2, Places DEF MakeInv
    <3>4. CASE task[g].run = r
      <4>1. At(g, "marker")
        BY <2>1, <3>2, <3>4, MadeNone DEF MakeInv, At
      <4> QED BY <2>1, <2>2, <3>2, <3>3, <3>4, <4>1 DEF MakeInv, At
    <3>5. CASE task[g].run # r
      BY <1>1, <2>1, <2>2, <3>2, <3>3, <3>5 DEF MakeInv, At
    <3> QED BY <3>4, <3>5
  <2>t. ASSUME NEW g \in Hosts PROVE TearInv(g)'
    <3>1. SUFFICES ASSUME At(g, "remove")', ~ task'[g].detached PROVE TearInv(g)'
      BY DEF TearInv
    <3>2. g # h /\ At(g, "remove") /\ TearInv(g) /\ task[g].run # r /\ ~ task[g].detached
          /\ task'[g].run = task[g].run
      BY <1>4, <2>2, <3>1 DEF IInv, At
    <3>3. ASSUME NEW e \in Hosts
          PROVE  /\ own[e] # task[g].run
                 /\ task'[e].run = task[g].run =>
                       ~ At(e, "adopting")' /\ (task'[e].pc \in Build => task'[e].detached)
      <4>1. CASE e = h
        BY <1>4, <3>2, <4>1, Places DEF TearInv, At
      <4>2. CASE e # h
        BY <2>2, <3>2, <4>2 DEF TearInv, At
      <4> QED BY <4>1, <4>2
    <3> QED BY <1>1, <2>1, <3>2, <3>3 DEF TearInv
  <2>h. ASSUME NEW g \in Hosts PROVE HoldInv(g)'
    <3>1. HoldInv(g) /\ own[g] \in Runs \cup {None}
      BY <1>0, TaskFields DEF IInv
    <3>2. own[g] # None => own[g] # r
      BY <2>1, <3>1 DEF HoldInv, Complete
    <3>3. At(g, "adopting")' => g # h /\ At(g, "adopting") /\ task[g].run # r
      BY <1>4, <2>1, <2>2, <3>1 DEF At, HoldInv, Complete
    <3> QED BY <1>1, <2>1, <2>2, <3>1, <3>2, <3>3 DEF HoldInv, Complete, At
  <2> QED BY <2>3, <2>p, <2>m, <2>t, <2>h DEF Rest
<1> QED BY <1>5, <1>6


\* A run that the host refers to is nobody's to remove or make.
LEMMA ReferredFree ==
    ASSUME IInv, NEW g \in Hosts, NEW r \in authority, task[g].run = r
    PROVE  /\ At(g, "remove") => task[g].detached
           /\ task[g].pc \in Build => task[g].detached
BY DEF IInv, TearInv, MakeInv

LEMMA AdoptLeaseStep ==
    ASSUME IInv, NEW h \in Hosts, NEW r \in Runs, AdoptLease(h, r)
    PROVE  Rest'
<1>0. TypeOK
  BY DEF IInv
<1>1. /\ UNCHANGED <<here, files, whole, own, authority>> /\ own[h] = None /\ At(h, "idle")
      /\ r \in authority /\ lease[r] = None /\ lease'[r] = h
      /\ \A s \in Runs \ {r} : lease'[s] = lease[s]
  BY <1>0 DEF AdoptLease, SameFiles, TypeOK, Free
<1>2. task'[h] = [Idle EXCEPT !.op = "adopt", !.pc = "adopting", !.run = r] /\ OnlyMoves(h)
  BY <1>0, <1>1, OthersMoveOn DEF AdoptLease
<1>3. /\ task'[h].op = "adopt" /\ task'[h].pc = "adopting" /\ task'[h].run = r
      /\ ~ task'[h].detached /\ ~ task'[h].strict
  BY <1>2 DEF Idle
<1>4. Complete(r) /\ r \in whole
  BY <1>1 DEF IInv, ReferredIntact
<1>5. ReferredIntact'
  BY <1>1 DEF IInv, ReferredIntact, Complete
<1>p. ASSUME NEW g \in Hosts PROVE PlaceInv(g)'
  <2>1. CASE g = h
    BY <1>1, <1>3, <2>1, Places DEF PlaceInv, At
  <2>2. CASE g # h
    BY <1>1, <1>2, <2>2 DEF IInv, PlaceInv, At, OnlyMoves, Same
  <2> QED BY <2>1, <2>2
<1>m. ASSUME NEW g \in Hosts PROVE MakeInv(g)'
  <2>1. SUFFICES ASSUME task'[g].pc \in Build PROVE MakeInv(g)'
    BY DEF MakeInv
  <2>2. g # h /\ Same(g) /\ MakeInv(g) /\ task[g].pc \in Build /\ task[g].run \in Runs
    <3>1. g # h /\ Same(g)
      BY <1>2, <1>3, <2>1, Places DEF OnlyMoves
    <3>2. MakeInv(g) /\ task[g].pc \in Build
      BY <2>1, <3>1 DEF Same, IInv
    <3>3. task[g].run \in Runs
      BY <3>2 DEF IInv, PlaceInv
    <3> QED BY <3>1, <3>2, <3>3
  <2>3. \A e \in Hosts \ {g} : task'[e].pc \in Build => task'[e].run # task[g].run
    BY <1>2, <1>3, <2>2, Places DEF OnlyMoves, Same, MakeInv
  <2>4. lease[task[g].run] = g => lease'[task[g].run] = g
    BY <1>1, <2>2, RunAssumption
  <2> QED BY <1>1, <2>2, <2>3, <2>4 DEF MakeInv, At, Same
<1>t. ASSUME NEW g \in Hosts PROVE TearInv(g)'
  <2>1. SUFFICES ASSUME At(g, "remove")', ~ task'[g].detached PROVE TearInv(g)'
    BY DEF TearInv
  <2>2. g # h /\ Same(g) /\ TearInv(g) /\ At(g, "remove") /\ ~ task[g].detached
    BY <1>2, <1>3, <2>1 DEF OnlyMoves, Same, IInv, At
  <2>3. task[g].run # r
    BY <1>1, <2>2, ReferredFree
  <2>4. ASSUME NEW e \in Hosts
        PROVE  /\ own[e] # task[g].run
               /\ task'[e].run = task[g].run =>
                     ~ At(e, "adopting")' /\ (task'[e].pc \in Build => task'[e].detached)
    <3>1. CASE e = h
      BY <1>3, <2>2, <2>3, <3>1 DEF TearInv
    <3>2. CASE e # h
      BY <1>2, <2>2, <3>2 DEF TearInv, At, OnlyMoves, Same
    <3> QED BY <3>1, <3>2
  <2> QED BY <1>1, <2>2, <2>4 DEF TearInv, Same
<1>h. ASSUME NEW g \in Hosts PROVE HoldInv(g)'
  <2>1. HoldInv(g) /\ PlaceInv(g) /\ own[g] \in Runs \cup {None}
    BY <1>0, TaskFields DEF IInv
  <2>2. CASE g = h
    BY <1>1, <1>3, <1>4, <2>2 DEF HoldInv, Complete, At
  <2>3. CASE g # h
    <3>1. own[g] # None => lease'[own[g]] = g
      BY <1>1, <2>1, RunAssumption DEF HoldInv
    <3>2. At(g, "adopting") => lease'[task[g].run] = g
      BY <1>1, <2>1, RunAssumption DEF HoldInv, PlaceInv, At
    <3> QED BY <1>1, <1>2, <2>1, <2>3, <3>1, <3>2 DEF HoldInv, Complete, At, OnlyMoves, Same
  <2> QED BY <2>2, <2>3
<1> QED BY <1>5, <1>p, <1>m, <1>t, <1>h DEF Rest

LEMMA AdoptStep ==
    ASSUME IInv, NEW h \in Hosts, Adopt(h)
    PROVE  Rest'
<1> DEFINE r == task[h].run
<1>0. TypeOK /\ HoldInv(h) /\ PlaceInv(h)
  BY DEF IInv
<1>1. /\ UNCHANGED <<here, files, lease, whole, authority>> /\ At(h, "adopting")
      /\ task'[h] = Idle /\ own'[h] = r
      /\ \A g \in Hosts \ {h} : Same(g)
  BY <1>0, MoveAt DEF Adopt, SameFiles, Same, TypeOK
<1>2. r \in Runs /\ Complete(r) /\ lease[r] = h /\ r \in whole
  BY <1>0, <1>1 DEF HoldInv, PlaceInv, At
<1>3. ReferredIntact'
  BY <1>1 DEF IInv, ReferredIntact, Complete
<1>4. PlaceInv(h)' /\ task'[h].pc = "idle"
  BY <1>1, IdlePlace
<1>p. ASSUME NEW g \in Hosts PROVE PlaceInv(g)'
  BY <1>1, <1>4 DEF IInv, PlaceInv, At, Same
<1>m. ASSUME NEW g \in Hosts PROVE MakeInv(g)'
  <2>1. SUFFICES ASSUME task'[g].pc \in Build PROVE MakeInv(g)'
    BY DEF MakeInv
  <2>2. g # h /\ Same(g) /\ MakeInv(g) /\ task[g].pc \in Build
    BY <1>1, <1>4, <2>1, Places DEF Same, IInv
  <2>3. \A e \in Hosts \ {g} : task'[e].pc \in Build => task'[e].run # task[g].run
    BY <1>1, <1>4, <2>2, Places DEF Same, MakeInv
  <2> QED BY <1>1, <2>2, <2>3 DEF MakeInv, At, Same
<1>t. ASSUME NEW g \in Hosts PROVE TearInv(g)'
  <2>1. SUFFICES ASSUME At(g, "remove")', ~ task'[g].detached PROVE TearInv(g)'
    BY DEF TearInv
  <2>2. g # h /\ Same(g) /\ TearInv(g) /\ At(g, "remove") /\ ~ task[g].detached
    BY <1>1, <1>4, <2>1 DEF Same, IInv, At
  <2>3. task[g].run # r
    BY <1>1, <2>2 DEF TearInv
  <2> QED BY <1>1, <1>4, <2>2, <2>3, Places DEF TearInv, At, Same
<1>h. ASSUME NEW g \in Hosts PROVE HoldInv(g)'
  <2>1. CASE g = h
    BY <1>1, <1>2, <1>4, <2>1 DEF HoldInv, Complete, At
  <2>2. CASE g # h
    BY <1>1, <2>2 DEF IInv, HoldInv, Complete, At, Same
  <2> QED BY <2>1, <2>2
<1> QED BY <1>3, <1>p, <1>m, <1>t, <1>h DEF Rest

\* References change only while nobody sweeps; only a run in hand gets one.
LEMMA ReferenceStep ==
    ASSUME IInv, (\E h \in Hosts : Refer(h)) \/ (\E r \in Runs : Forget(r))
    PROVE  Rest'
<1>0. TypeOK /\ Sweepers = {}
  BY DEF IInv, Refer, Forget
<1>1. UNCHANGED <<here, files, lease, whole, own, task>>
  BY DEF Refer, Forget, SameFiles
<1>2. authority' \subseteq authority \/
          \E h \in Hosts : own[h] \in Retained /\ authority' = authority \cup {own[h]}
  BY DEF Refer, Forget
<1>3. ASSUME NEW r \in authority' \ authority
      PROVE  /\ r \in Retained /\ Complete(r) /\ r \in whole
             /\ \A g \in Hosts : /\ task[g].pc \in Build /\ ~ task[g].detached => task[g].run # r
                                 /\ At(g, "remove") /\ ~ task[g].detached => task[g].run # r
                                 /\ At(g, "leasing") => task[g].run # r
  <2>1. PICK h \in Hosts : own[h] = r /\ r \in Retained
    BY <1>2, <1>3
  <2>2. r \in Runs /\ r # None
    BY <2>1, RunAssumption DEF Runs
  <2>3. Complete(r) /\ lease[r] = h /\ r \in whole
    BY <2>1, <2>2 DEF IInv, HoldInv
  <2>4. ASSUME NEW g \in Hosts, task[g].run = r
        PROVE  /\ task[g].pc \in Build => task[g].detached
               /\ At(g, "remove") => task[g].detached
               /\ ~ At(g, "leasing")
    <3>1. At(g, "remove") => task[g].detached
      BY <2>1, <2>4 DEF IInv, TearInv
    <3>2. task[g].pc \in Build => task[g].detached
      <4>1. SUFFICES ASSUME task[g].pc \in Build, ~ task[g].detached PROVE FALSE
        OBVIOUS
      <4>2. lease[r] = g
        BY <2>2, <2>3, <2>4, <4>1, LockedByUser DEF Complete
      <4> QED BY <2>1, <2>2, <2>3, <4>1, <4>2 DEF IInv, PlaceInv
    <3>3. ~ At(g, "leasing")
      BY <1>0, <2>1, <2>4 DEF IInv, PlaceInv, Sweepers
    <3> QED BY <3>1, <3>2, <3>3
  <2> QED BY <2>1, <2>3, <2>4
<1>4. ReferredIntact'
  BY <1>1, <1>3 DEF IInv, ReferredIntact, Complete
<1>p. ASSUME NEW g \in Hosts PROVE PlaceInv(g)'
  BY <1>0, <1>1, <1>3 DEF IInv, PlaceInv, At, Sweepers
<1>m. ASSUME NEW g \in Hosts PROVE MakeInv(g)'
  BY <1>1, <1>3 DEF IInv, MakeInv, At
<1>t. ASSUME NEW g \in Hosts PROVE TearInv(g)'
  BY <1>1, <1>3 DEF IInv, TearInv, At
<1>h. ASSUME NEW g \in Hosts PROVE HoldInv(g)'
  BY <1>1 DEF IInv, HoldInv, Complete, At
<1> QED BY <1>4, <1>p, <1>m, <1>t, <1>h DEF Rest

LEMMA DropStep ==
    ASSUME IInv, NEW h \in Hosts, Drop(h)
    PROVE  Rest'
<1> DEFINE r == own[h]
<1>0. TypeOK /\ HoldInv(h) /\ PlaceInv(h) /\ r \in Runs /\ r # None
  BY TaskFields DEF IInv, Drop
<1>1. /\ UNCHANGED <<here, files, whole, authority>> /\ At(h, "idle") /\ own'[h] = None
      /\ \A g \in Hosts \ {h} : own'[g] = own[g]
  BY <1>0 DEF Drop, SameFiles, TypeOK
<1>2. CASE r \notin Ephemeral
  <2>1. Release(h, r) /\ task' = task
    BY <1>2 DEF Drop
  <2>2. \A s \in Runs : lease'[s] = lease[s] \/ (lease[s] = h /\ s # own'[h])
    BY <1>0, <1>1, <2>1, Unlocked
  <2>3. OnlyMoves(h) /\ PlaceInv(h)' /\ task'[h].pc = "idle"
    BY <1>0, <1>1, <2>1, Places DEF OnlyMoves, Same, PlaceInv, At
  <2> QED BY <1>1, <2>2, <2>3, LettingGo
<1>3. CASE r \in Ephemeral
  <2>1. lease' = lease /\ OnlyMoves(h)
        /\ task'[h] = [Idle EXCEPT !.op = "drop", !.pc = "remove", !.run = r, !.todo = Removal]
    BY <1>0, <1>1, <1>3, MoveAt DEF Drop, OnlyMoves, Same
  <2>2. /\ At(h, "remove")' /\ task'[h].run = r /\ task'[h].run \in Runs
        /\ task'[h].todo = Removal /\ task'[h].op = "drop" /\ ~ task'[h].strict
    BY <1>0, <2>1 DEF Idle, At
  <2>3. r \in here \ authority /\ files[r] = Files /\ lease[r] = h
    BY <1>0, <1>3, RunAssumption DEF HoldInv, Complete, TypeOK
  <2>4. \A g \in Hosts \ {h} :
            /\ own[g] # task'[h].run
            /\ task[g].run = task'[h].run =>
                  ~ At(g, "adopting") /\ (task[g].pc \in Build => task[g].detached)
    BY <1>0, <2>2, <2>3, LockedByUser
  <2>5. own'[h] \in {own[h], None} /\ own'[h] # task'[h].run
    BY <1>0, <1>1, <2>2
  <2>6. \A s \in Runs : \/ lease'[s] = lease[s] \/ (lease[s] = h /\ s # own'[h])
                        \/ (lease[s] = None /\ lease'[s] = h)
    BY <2>1
  <2>7. task'[h].todo \in Todos
    BY <2>2, RemovalTodo
  <2>8. task'[h].op # "sweep" /\ task'[h].run \in here \ authority
    BY <2>2, <2>3
  <2> QED BY <1>1, <2>1, <2>2, <2>4, <2>5, <2>6, <2>7, <2>8, RemovalBegins
<1> QED BY <1>2, <1>3

-----------------------------------------------------------------------------
\* The invariant holds at first, and every step keeps it.
LEMMA Inductive ==
    /\ Init => IInv
    /\ IInv /\ [Next]_vars => IInv'
<1>1. Init => IInv
  <2> SUFFICES ASSUME Init PROVE IInv
    OBVIOUS
  <2>1. TypeOK
    BY IdleTask, RunAssumption DEF Init, TypeOK, Runs
  <2>2. ReferredIntact
    BY DEF Init, ReferredIntact
  <2>3. ASSUME NEW h \in Hosts
        PROVE  PlaceInv(h) /\ MakeInv(h) /\ TearInv(h) /\ HoldInv(h)
    <3>1. task[h] = Idle /\ own[h] = None
      BY <2>3 DEF Init
    <3>2. task[h].pc = "idle" /\ task[h].op = "none" /\ ~ task[h].strict
      BY <3>1 DEF Idle
    <3> QED BY <3>1, <3>2, Places DEF PlaceInv, MakeInv, TearInv, HoldInv, At
  <2> QED BY <2>1, <2>2, <2>3 DEF IInv
<1>2. ASSUME IInv, [Next]_vars
      PROVE  IInv'
  <2>1. CASE UNCHANGED vars
    BY <1>2, <2>1 DEF vars, IInv, TypeOK, ReferredIntact, PlaceInv, MakeInv, TearInv, HoldInv,
                      Complete, At
  <2>2. CASE Next
    <3>1. TypeOK'
      BY <1>2, <2>2, TypesKept DEF IInv
    <3>2. Rest'
      BY <1>2, <2>2, MakeDirStep, MakeStep, BuiltStep, BuildFailsStep, RemoveFileStep, UnlockStep,
         RemoveDirStep, PassStep, TakeStep, AdoptLeaseStep, AdoptStep, AdoptFailsStep,
         ReferenceStep, DropStep, DieStep
         DEF Next, Continue, Construct, Remove, Pass
    <3> QED BY <3>1, <3>2 DEF IInv, Rest
  <2> QED BY <1>2, <2>1, <2>2
<1> QED BY <1>1, <1>2

LEMMA Invariance == Spec => []IInv
BY Inductive, PTL DEF Spec

\* Types and bounds hold for any hosts, runs and faults.
THEOREM TypeCorrect == Spec => []TypeOK
<1>1. IInv => TypeOK
  BY DEF IInv
<1> QED BY <1>1, Invariance, PTL

\* A run that a host holds open is there with all its files and locked by that
\* host, whatever others create, clone, adopt, sweep, drop and fail to do
\* (reclaim_stale_runs, reclaim_unreachable_retained_runs, cleanup_own_run).
THEOREM HeldRunsUntouched == Spec => []HeldUntouched
<1>1. IInv => HeldUntouched
  BY DEF IInv, HeldUntouched, HoldInv
<1> QED BY <1>1, Invariance, PTL

\* A run the host refers to can be adopted and holds everything.
THEOREM ReferredRunsIntact == Spec => []ReferredIntact
<1>1. IInv => ReferredIntact
  BY DEF IInv
<1> QED BY <1>1, Invariance, PTL

-----------------------------------------------------------------------------
(* What a pass takes.                                                       *)

\* Nobody is making r.
Unmade(r) == \A g \in Hosts : task[g].pc \in Build /\ task[g].run = r => task[g].detached

\* A run that was stale when h's pass began and that nobody took since: it is h's
\* if anybody's, and if it is still stale, h has it before it.
StillSeen(h, r) ==
    /\ r \in Ephemeral /\ Unmade(r)
    /\ lease[r] # None => lease[r] = h /\ At(h, "remove") /\ task[h].run = r
    /\ Stale(r) => r \in task[h].unseen
                   \/ (task[h].pc \in {"leasing", "remove"} /\ task[h].run = r)
    /\ task[h].run = r /\ task[h].detached => r \notin here

SeenInv(h) ==
    /\ At(h, "pass") => task[h].run = None /\ ~ task[h].detached
    /\ task[h].stale # {} =>
          task[h].op = "create" /\ task[h].pc \in {"pass", "leasing", "remove"}
    /\ \A r \in task[h].stale : StillSeen(h, r)

PassInv == \A h \in Hosts : SeenInv(h)

\* Nobody makes, completes or locks r.
Calm(r) ==
    /\ Unmade(r)'
    /\ lease'[r] \in {lease[r], None}
    /\ r \in here' => r \in here
    /\ Complete(r)' => Complete(r)

\* g does nothing; the directory it works on may be removed.
Looks(g) ==
    /\ task'[g].op = task[g].op /\ task'[g].pc = task[g].pc /\ task'[g].run = task[g].run
    /\ task'[g].unseen = task[g].unseen /\ task'[g].stale \subseteq task[g].stale
    /\ \/ task'[g].detached = task[g].detached
       \/ task'[g].detached = TRUE /\ task[g].run \in Runs /\ task[g].run \notin here'

LEMMA SeenStays ==
    ASSUME TypeOK, NEW h \in Hosts, SeenInv(h), Looks(h), \A r \in task'[h].stale : Calm(r)
    PROVE  SeenInv(h)'
<1>1. At(h, "pass")' => task'[h].run = None /\ ~ task'[h].detached
  BY RunAssumption DEF SeenInv, Looks, At
<1>2. task'[h].stale # {} =>
          task'[h].op = "create" /\ task'[h].pc \in {"pass", "leasing", "remove"}
  BY DEF SeenInv, Looks
<1>3. ASSUME NEW r \in task'[h].stale PROVE StillSeen(h, r)'
  <2>1. StillSeen(h, r) /\ Calm(r) /\ r \in task[h].stale
    BY <1>3 DEF SeenInv, Looks
  <2>2. r \in Ephemeral /\ Unmade(r)'
    BY <2>1 DEF StillSeen, Calm
  <2>3. lease'[r] # None => lease'[r] = h /\ At(h, "remove")' /\ task'[h].run = r
    BY <2>1 DEF StillSeen, Calm, Looks, At
  <2>4. Stale(r)' => r \in task'[h].unseen
                     \/ (task'[h].pc \in {"leasing", "remove"} /\ task'[h].run = r)
    BY <2>1 DEF StillSeen, Calm, Looks, At, Stale, Free
  <2>5. task'[h].run = r /\ task'[h].detached => r \notin here'
    BY <2>1 DEF StillSeen, Calm, Looks
  <2> QED BY <2>2, <2>3, <2>4, <2>5 DEF StillSeen
<1> QED BY <1>1, <1>2, <1>3 DEF SeenInv

\* It is enough to look at the host that moves.
LEMMA OthersLook ==
    ASSUME TypeOK, PassInv, NEW h \in Hosts, \A g \in Hosts \ {h} : Looks(g), SeenInv(h)',
           \A g \in Hosts \ {h} : \A r \in task'[g].stale : Unmade(r) => Calm(r)
    PROVE  PassInv'
<1>1. ASSUME NEW g \in Hosts, g # h PROVE SeenInv(g)'
  <2>1. SeenInv(g) /\ Looks(g)
    BY <1>1 DEF PassInv
  <2>2. ASSUME NEW r \in task'[g].stale PROVE Calm(r)
    <3>1. Unmade(r)
      BY <2>1, <2>2 DEF Looks, SeenInv, StillSeen
    <3> QED BY <1>1, <3>1
  <2> QED BY <2>1, <2>2, SeenStays
<1> QED BY <1>1 DEF PassInv

LEMMA MoveLooks ==
    ASSUME TypeOK, NEW h \in Hosts, NEW t, Move(h, t)
    PROVE  task'[h] = t /\ \A g \in Hosts \ {h} : Looks(g) /\ task'[g] = task[g]
BY MoveAt DEF Looks

LEMMA NotStaleLooks ==
    ASSUME TypeOK, NEW h \in Hosts, NEW r \in Runs, NEW t, task' = NotStale(h, r, t)
    PROVE  /\ task'[h] = t
           /\ \A g \in Hosts \ {h} : Looks(g) /\ r \notin task'[g].stale
                                     /\ task'[g].detached = task[g].detached
<1>1. ASSUME NEW g \in Hosts, g # h
      PROVE  Looks(g) /\ r \notin task'[g].stale /\ task'[g].detached = task[g].detached
  <2>1. task[g] \in Task
    BY DEF TypeOK
  <2>2. task'[g] = [task[g] EXCEPT !.stale = @ \ {r}]
    BY <1>1 DEF NotStale
  <2>3. task'[g].stale = task[g].stale \ {r}
    BY <2>1, <2>2 DEF Task
  <2> QED BY <2>1, <2>2, <2>3 DEF Task, Looks
<1> QED BY <1>1 DEF NotStale

\* A host that saw nothing yet, or sees nothing any more.
LEMMA SeenNothing ==
    ASSUME NEW h \in Hosts, task'[h].stale = {},
           At(h, "pass")' => task'[h].run = None /\ ~ task'[h].detached
    PROVE  SeenInv(h)'
BY DEF SeenInv

LEMMA Loosened ==
    ASSUME TypeOK, NEW h \in Hosts, NEW s, Release(h, s) \/ UNCHANGED lease
    PROVE  \A r \in Runs : lease'[r] \in {lease[r], None}
BY DEF TypeOK, Release

\* A host that makes nothing leaves everything calm that it does not complete,
\* lock or put there.
LEMMA StaysCalm ==
    ASSUME NEW h \in Hosts, NEW r, Unmade(r),
           \A g \in Hosts \ {h} : task'[g].pc = task[g].pc /\ task'[g].run = task[g].run
                                  /\ (task[g].detached => task'[g].detached),
           \/ task'[h].pc \notin Build \/ task'[h].run # r
           \/ task[h].pc \in Build /\ task[h].run = r /\ (task[h].detached => task'[h].detached),
           lease'[r] \in {lease[r], None}, r \in here' => r \in here,
           files'[r] = Files => files[r] = Files
    PROVE  Calm(r)
<1>1. Unmade(r)'
  BY DEF Unmade
<1> QED BY <1>1 DEF Calm, Complete


LEMMA BuildHere ==
    ASSUME IInv, PassInv, NEW h \in Hosts, task[h].pc \in Build
    PROVE  task[h].stale = {} /\ task[h].run \in Runs
BY Places DEF IInv, PlaceInv, PassInv, SeenInv, Build, Files

\* A host that ends something, or begins something that makes nothing and has
\* seen nothing.
LEMMA PutDown ==
    ASSUME TypeOK, PassInv, NEW h \in Hosts, NEW t, Move(h, t), t.stale = {}, t.pc \notin Build,
           t.pc = "pass" => t.run = None /\ ~ t.detached,
           UNCHANGED <<here, files>>, \A r \in Runs : lease'[r] \in {lease[r], None}
    PROVE  PassInv'
<1>1. task'[h] = t /\ \A g \in Hosts \ {h} : Looks(g) /\ task'[g] = task[g]
  BY MoveLooks
<1>2. SeenInv(h)'
  BY <1>1, SeenNothing DEF At
<1>3. ASSUME NEW g \in Hosts \ {h}, NEW r \in task'[g].stale, Unmade(r) PROVE Calm(r)
  <2>1. r \in Runs
    BY <1>1, <1>3 DEF TypeOK, Task
  <2> QED BY <1>1, <1>3, <2>1, StaysCalm
<1> QED BY <1>1, <1>2, <1>3, OthersLook

\* The steps at which nobody's task changes.
LEMMA TasksStay ==
    ASSUME TypeOK, PassInv, UNCHANGED <<here, files, task>>,
           \A r \in Runs : lease'[r] \in {lease[r], None}
    PROVE  PassInv'
<1> SUFFICES ASSUME NEW h \in Hosts PROVE SeenInv(h)'
  BY DEF PassInv
<1>1. SeenInv(h) /\ Looks(h)
  BY DEF PassInv, Looks
<1>2. ASSUME NEW r \in task'[h].stale PROVE Calm(r)
  <2>1. r \in Runs /\ Unmade(r)
    BY <1>1, <1>2 DEF TypeOK, Task, SeenInv, StillSeen
  <2> QED BY <2>1 DEF Calm, Unmade, Complete
<1> QED BY <1>1, <1>2, SeenStays

LEMMA RestSeen ==
    ASSUME IInv, PassInv, NEW h \in Hosts,
           \/ Copied(h) \/ Adopt(h) \/ EndPass(h) \/ ListingFails(h) \/ AdoptFails(h) \/ Die(h)
           \/ BuildFails(h) \/ BeginSweep(h) \/ Drop(h)
    PROVE  PassInv'
<1>0. TypeOK /\ task[h] \in Task
  BY DEF IInv, TypeOK
<1>1. /\ UNCHANGED <<here, files>>
      /\ \A r \in Runs : lease'[r] \in {lease[r], None}
  <2>1. UNCHANGED <<here, files>>
    BY DEF Copied, Adopt, EndPass, ListingFails, AdoptFails, Die, BuildFails, BeginSweep, Drop,
           SameFiles
  <2>2. CASE Die(h)
    BY <2>1, <2>2 DEF Die
  <2>3. CASE ~ Die(h)
    <3>1. UNCHANGED lease \/ \E s : Release(h, s)
      BY <2>3 DEF Copied, Adopt, EndPass, ListingFails, AdoptFails, BuildFails, BeginSweep, Drop
    <3> QED BY <1>0, <2>1, <3>1, Loosened
  <2> QED BY <2>1, <2>2, <2>3
<1>2. CASE Copied(h) \/ Adopt(h) \/ EndPass(h) \/ ListingFails(h) \/ AdoptFails(h) \/ Die(h)
  <2>1. Move(h, Idle)
    BY <1>2 DEF Copied, Adopt, EndPass, ListingFails, AdoptFails, Die
  <2>2. Idle.stale = {} /\ Idle.pc = "idle"
    BY DEF Idle
  <2> QED BY <1>0, <1>1, <2>1, <2>2, Places, PutDown
<1>3. CASE BuildFails(h)
  <2> DEFINE t == [task[h] EXCEPT !.pc = "remove", !.strict = FALSE,
                                  !.detached = task[h].run \notin here,
                                  !.todo = <<"pages", "blobs", "marker", "lease", "dir">>]
  <2>1. Move(h, t) /\ task[h].pc \in Build
    BY <1>3 DEF BuildFails, Build
  <2>2. t.stale = task[h].stale /\ t.pc = "remove"
    BY <1>0 DEF Task
  <2>3. t.stale = {}
    BY <2>1, <2>2, BuildHere
  <2> HIDE DEF t
  <2> QED BY <1>0, <1>1, <2>1, <2>2, <2>3, Places, PutDown
<1>4. CASE BeginSweep(h)
  <2> DEFINE t == [Idle EXCEPT !.op = "sweep", !.pc = "pass", !.strict = TRUE, !.unseen = Runs,
                               !.reachable = authority]
  <2>1. Move(h, t)
    BY <1>4 DEF BeginSweep
  <2>2. t.stale = {} /\ t.pc = "pass" /\ t.run = None /\ ~ t.detached
    BY DEF Idle
  <2> HIDE DEF t
  <2> QED BY <1>0, <1>1, <2>1, <2>2, Places, PutDown
<1>5. CASE Drop(h) /\ own[h] \in Ephemeral
  <2> DEFINE t == [Idle EXCEPT !.op = "drop", !.pc = "remove", !.run = own[h], !.todo = Removal]
  <2>1. Move(h, t)
    BY <1>5 DEF Drop
  <2>2. t.stale = {} /\ t.pc = "remove"
    BY DEF Idle
  <2> HIDE DEF t
  <2> QED BY <1>0, <1>1, <2>1, <2>2, Places, PutDown
<1>6. CASE Drop(h) /\ own[h] \notin Ephemeral
  <2>1. UNCHANGED task
    BY <1>6 DEF Drop
  <2> QED BY <1>0, <1>1, <2>1, TasksStay
<1> QED BY <1>2, <1>3, <1>4, <1>5, <1>6

LEMMA MakeSeen ==
    ASSUME IInv, PassInv, NEW h \in Hosts, MakeFile(h) \/ LockLease(h)
    PROVE  PassInv'
<1>0. TypeOK /\ task[h] \in Task
  BY DEF IInv, TypeOK
<1> DEFINE t == [task[h] EXCEPT !.pc = FollowedBy(task[h].pc)]
<1>1. /\ Move(h, t) /\ task[h].pc \in Build \ {"built"} /\ ~ task[h].detached
      /\ here' = here
  BY DEF MakeFile, LockLease, Step, Build, Files, At, SameFiles
<1>2. /\ t.pc = FollowedBy(task[h].pc) /\ t.run = task[h].run /\ t.detached = task[h].detached
      /\ t.stale = task[h].stale
  BY <1>0 DEF Task
<1>3. FollowedBy(task[h].pc) \in Build
  BY <1>1, FollowedByAt DEF Build, Files
<1>4. task[h].stale = {} /\ task[h].run \in Runs
  BY <1>1, BuildHere
<1> HIDE DEF t
<1>5. task'[h] = t /\ \A g \in Hosts \ {h} : Looks(g) /\ task'[g] = task[g]
  BY <1>0, <1>1, MoveLooks
<1>6. SeenInv(h)'
  BY <1>2, <1>3, <1>4, <1>5, Places, SeenNothing DEF At
<1>7. ASSUME NEW g \in Hosts \ {h}, NEW r \in task'[g].stale, Unmade(r) PROVE Calm(r)
  <2>1. r \in Runs
    BY <1>0, <1>5, <1>7 DEF TypeOK, Task
  <2>2. r # task[h].run
    BY <1>1, <1>7 DEF Unmade
  <2>3. lease'[r] = lease[r] /\ files'[r] = files[r]
    BY <1>0, <2>1, <2>2 DEF MakeFile, LockLease, SameFiles, TypeOK
  <2> QED BY <1>1, <1>2, <1>5, <1>7, <2>2, <2>3, StaysCalm
<1> QED BY <1>0, <1>5, <1>6, <1>7, OthersLook

LEMMA BeginSeen ==
    ASSUME IInv, PassInv, NEW h \in Hosts, NEW r \in Runs,
           CreateRun(h, r) \/ CloneRun(h, r) \/ AdoptLease(h, r)
    PROVE  PassInv'
<1>0. TypeOK
  BY DEF IInv
<1>1. PICK t : /\ task' = NotStale(h, r, t) /\ t.stale = {} /\ t.pc \in {"marker", "adopting"}
               /\ t.run = r
  <2>1. CASE AdoptLease(h, r)
    <3> DEFINE t == [Idle EXCEPT !.op = "adopt", !.pc = "adopting", !.run = r]
    <3>1. task' = NotStale(h, r, t)
      BY <2>1 DEF AdoptLease
    <3>2. t.stale = {} /\ t.pc = "adopting" /\ t.run = r
      BY DEF Idle
    <3> HIDE DEF t
    <3> QED BY <3>1, <3>2
  <2>2. ASSUME NEW op, MakeDir(h, r, op)
        PROVE  \E t : /\ task' = NotStale(h, r, t) /\ t.stale = {} /\ t.pc \in {"marker", "adopting"}
                      /\ t.run = r
    <3> DEFINE t == [Idle EXCEPT !.op = op, !.pc = "marker", !.run = r]
    <3>1. task' = NotStale(h, r, t)
      BY <2>2 DEF MakeDir
    <3>2. t.stale = {} /\ t.pc = "marker" /\ t.run = r
      BY DEF Idle
    <3> HIDE DEF t
    <3> QED BY <3>1, <3>2
  <2> QED BY <2>1, <2>2 DEF CreateRun, CloneRun
<1>2. /\ task'[h] = t
      /\ \A g \in Hosts \ {h} : Looks(g) /\ r \notin task'[g].stale
                                /\ task'[g].detached = task[g].detached
  BY <1>0, <1>1, NotStaleLooks
<1>3. SeenInv(h)'
  BY <1>1, <1>2, SeenNothing DEF At
<1>4. ASSUME NEW g \in Hosts \ {h}, NEW s \in task'[g].stale, Unmade(s) PROVE Calm(s)
  <2>1. s \in Runs /\ s # r
    BY <1>0, <1>2, <1>4 DEF TypeOK, Task, Looks
  <2>2. lease'[s] = lease[s] /\ files'[s] = files[s] /\ (s \in here' => s \in here)
    BY <1>0, <2>1 DEF CreateRun, CloneRun, MakeDir, AdoptLease, SameFiles, TypeOK
  <2> QED BY <1>1, <1>2, <1>4, <2>1, <2>2, StaysCalm DEF Looks
<1> QED BY <1>0, <1>2, <1>3, <1>4, OthersLook


\* A pass begins with the runs that are stale then.
LEMMA BuiltSeen ==
    ASSUME IInv, PassInv, NEW h \in Hosts, Built(h)
    PROVE  PassInv'
<1>0. TypeOK /\ task[h] \in Task /\ MakeInv(h)
  BY DEF IInv, TypeOK
<1> DEFINE run == task[h].run
           old == {s \in Runs : Stale(s)}
           t == [task[h] EXCEPT !.pc = "pass", !.run = None, !.strict = TRUE,
                                !.unseen = Runs \ {run}, !.stale = old]
<1>1. /\ Move(h, t) /\ task[h].pc = "built" /\ task[h].op = "create"
      /\ UNCHANGED <<here, files, lease>>
  BY DEF Built, At, SameFiles
<1>2. /\ t.pc = "pass" /\ t.run = None /\ t.unseen = Runs \ {run} /\ t.stale = old
      /\ t.op = "create" /\ t.detached = task[h].detached
  BY <1>0, <1>1 DEF Task
<1>3. ~ task[h].detached /\ lease[run] = h /\ run \in Runs
  BY <1>0, <1>1, BuildHere DEF MakeInv, At, Build
<1> HIDE DEF t, run
<1>4. task'[h] = t /\ \A g \in Hosts \ {h} : Looks(g) /\ task'[g] = task[g]
  BY <1>0, <1>1, MoveLooks
<1>5. ASSUME NEW s \in old PROVE StillSeen(h, s)'
  <2>1. /\ s \in Ephemeral /\ s \in Runs /\ Complete(s) /\ lease[s] = None
    BY DEF Stale, Free
  <2>2. s # run
    BY <1>3, <2>1, RunAssumption
  <2>3. ASSUME NEW g \in Hosts, task'[g].pc \in Build, task'[g].run = s
        PROVE  task'[g].detached
    <3>1. g # h /\ task[g].pc \in Build /\ task[g].run = s /\ task'[g] = task[g]
      BY <1>2, <1>4, <2>3, Places
    <3>2. MakeInv(g)
      BY DEF IInv
    <3>3. CASE ~ task[g].detached
      <4>1. Made(task[g].pc) = Files
        BY <2>1, <3>1, <3>2, <3>3 DEF MakeInv, Complete
      <4>2. task[g].pc = "built"
        BY <3>1, <4>1, MadeWhole
      <4>3. lease[s] = g
        BY <3>1, <3>2, <3>3, <4>2 DEF MakeInv
      <4> QED BY <2>1, <4>3, RunAssumption
    <3> QED BY <3>1, <3>3
  <2>4. Unmade(s)'
    BY <2>3 DEF Unmade
  <2>5. lease'[s] = None
    BY <1>1, <2>1
  <2>6. s \in task'[h].unseen /\ task'[h].run # s
    BY <1>2, <1>4, <2>1, <2>2, RunAssumption
  <2> QED BY <2>1, <2>4, <2>5, <2>6 DEF StillSeen
<1>6. SeenInv(h)'
  <2> HIDE DEF old
  <2> QED BY <1>2, <1>3, <1>4, <1>5 DEF SeenInv, At
<1>7. ASSUME NEW g \in Hosts \ {h}, NEW r \in task'[g].stale, Unmade(r) PROVE Calm(r)
  <2>1. r \in Runs
    BY <1>0, <1>4, <1>7 DEF TypeOK, Task
  <2> QED BY <1>1, <1>2, <1>4, <1>7, <2>1, Places, StaysCalm
<1> QED BY <1>0, <1>4, <1>6, <1>7, OthersLook

\* What h still sees when it goes back to its pass: all but the run it had.
LEMMA BackToPass ==
    ASSUME TypeOK, NEW h \in Hosts, SeenInv(h),
           task'[h].pc = "pass", task'[h].run = None, ~ task'[h].detached,
           task'[h].op = task[h].op, task'[h].unseen = task[h].unseen,
           task'[h].stale \subseteq task[h].stale,
           \A r \in task'[h].stale : Calm(r) /\ (task[h].run = r => ~ Stale(r) /\ lease[r] = None)
    PROVE  SeenInv(h)'
<1>1. ASSUME NEW r \in task'[h].stale PROVE StillSeen(h, r)'
  <2>1. StillSeen(h, r) /\ Calm(r) /\ r \in Runs
    BY <1>1 DEF SeenInv, TypeOK, Task
  <2>2. lease[r] = None /\ lease'[r] = None
    BY <1>1, <2>1 DEF StillSeen, Calm
  <2>3. Stale(r)' => Stale(r)
    BY <2>1, <2>2 DEF Calm, Stale, Free
  <2>4. Stale(r) => r \in task[h].unseen
    BY <1>1, <2>1 DEF StillSeen
  <2>5. task'[h].run # r
    BY <2>1, RunAssumption
  <2> QED BY <2>1, <2>2, <2>3, <2>4, <2>5 DEF StillSeen, Calm
<1> QED BY <1>1 DEF SeenInv, At

\* A removal that goes on, or ends.
LEMMA RemovalSeen ==
    ASSUME IInv, PassInv, NEW h \in Hosts, At(h, "remove"),
           task'[h] \in {Advanced(h), Resumed(h)}, \A g \in Hosts \ {h} : Looks(g),
           here' \subseteq here, \A r \in Runs : files'[r] \subseteq files[r],
           \A r \in Runs : files[r] \subseteq Files,
           \A r \in Runs : lease'[r] \in {lease[r], None}
    PROVE  PassInv'
<1>0. TypeOK /\ task[h] \in Task /\ SeenInv(h) /\ task[h].pc = "remove"
  BY DEF IInv, TypeOK, PassInv, At
<1>1. \/ task'[h] = Idle
      \/ task'[h] = [task[h] EXCEPT !.todo = Tail(@)]
      \/ task'[h] = [task[h] EXCEPT !.pc = "pass", !.run = None, !.todo = <<>>, !.detached = FALSE,
                                    !.stale = @ \ {task[h].run}]
  BY DEF Advanced, Resumed
<1>2. task'[h].pc \in {"idle", "pass", "remove"}
  <2>1. Idle.pc = "idle"
    BY DEF Idle
  <2>2. [task[h] EXCEPT !.todo = Tail(@)].pc = "remove"
    BY <1>0 DEF Task
  <2>3. [task[h] EXCEPT !.pc = "pass", !.run = None, !.todo = <<>>, !.detached = FALSE,
                        !.stale = @ \ {task[h].run}].pc = "pass"
    BY <1>0 DEF Task
  <2> QED BY <1>1, <2>1, <2>2, <2>3
<1>3. ASSUME NEW r \in Runs, Unmade(r) PROVE Calm(r)
  <2>1. files'[r] = Files => files[r] = Files
    BY Zenon
  <2>2. \A g \in Hosts \ {h} : task'[g].pc = task[g].pc /\ task'[g].run = task[g].run
                               /\ (task[g].detached => task'[g].detached)
    BY DEF Looks
  <2> QED BY <1>2, <1>3, <2>1, <2>2, Places, StaysCalm
<1>4. ASSUME NEW r \in task[h].stale PROVE Calm(r)
  <2>1. Unmade(r) /\ r \in Runs
    BY <1>0 DEF SeenInv, StillSeen, Task
  <2> QED BY <1>3, <2>1
<1>5. CASE task'[h] = Idle
  <2>1. SeenInv(h)'
    BY <1>5, SeenNothing DEF Idle, At
  <2>2. ASSUME NEW g \in Hosts \ {h}, NEW r \in task'[g].stale, Unmade(r) PROVE Calm(r)
    BY <1>0, <1>3, <2>2 DEF Looks, TypeOK, Task
  <2> QED BY <1>0, <2>1, <2>2, OthersLook
<1>6. ASSUME NEW g \in Hosts \ {h}, NEW r \in task'[g].stale, Unmade(r) PROVE Calm(r)
  BY <1>0, <1>3, <1>6 DEF Looks, TypeOK, Task
<1>7. CASE task'[h] = [task[h] EXCEPT !.todo = Tail(@)]
  <2>1. Looks(h)
    BY <1>0, <1>7 DEF Task, Looks
  <2>2. SeenInv(h)'
    BY <1>0, <1>4, <2>1, SeenStays DEF Looks
  <2> QED BY <1>0, <1>6, <2>2, OthersLook
<1>8. CASE task'[h] = [task[h] EXCEPT !.pc = "pass", !.run = None, !.todo = <<>>,
                                      !.detached = FALSE, !.stale = @ \ {task[h].run}]
  <2>1. /\ task'[h].pc = "pass" /\ task'[h].run = None /\ ~ task'[h].detached
        /\ task'[h].op = task[h].op /\ task'[h].unseen = task[h].unseen
        /\ task'[h].stale = task[h].stale \ {task[h].run}
    BY <1>0, <1>8 DEF Task
  <2>2. SeenInv(h)'
    BY <1>0, <1>4, <2>1, BackToPass
  <2> QED BY <1>0, <1>6, <2>2, OthersLook
<1> QED BY <1>1, <1>5, <1>7, <1>8

LEMMA RemoveSeen ==
    ASSUME IInv, PassInv, NEW h \in Hosts, Remove(h)
    PROVE  PassInv'
<1>0. TypeOK /\ \A r \in Runs : files[r] \subseteq Files
  BY DEF IInv, TypeOK
<1>1. At(h, "remove") /\ PlaceInv(h) /\ task[h].run \in Runs
  BY DEF Remove, RemoveFile, Unlock, RemoveDir, RemovalFails, IInv, PlaceInv, At
<1>2. CASE RemoveFile(h) \/ Unlock(h) \/ RemovalFails(h)
  <2>1. PICK t \in {Advanced(h), Resumed(h)} : Move(h, t)
    BY <1>2 DEF RemoveFile, Unlock, RemovalFails
  <2>2. task'[h] = t /\ \A g \in Hosts \ {h} : Looks(g)
    BY <1>0, <2>1, MoveLooks
  <2>3. here' = here /\ \A r \in Runs : files'[r] \subseteq files[r]
    BY <1>0, <1>1, <1>2 DEF RemoveFile, Unlock, RemovalFails, SameFiles, TypeOK
  <2>4. UNCHANGED lease \/ Release(h, task[h].run)
    BY <1>2 DEF RemoveFile, Unlock, RemovalFails
  <2>5. \A r \in Runs : lease'[r] \in {lease[r], None}
    BY <1>0, <2>4, Loosened
  <2> QED BY <1>0, <1>1, <2>1, <2>2, <2>3, <2>5, RemovalSeen
<1>3. CASE RemoveDir(h)
  <2>1. task'[h] = Advanced(h) /\ UNCHANGED <<files, lease>> /\ here' \subseteq here
    BY <1>3 DEF RemoveDir
  <2>2. ASSUME NEW g \in Hosts, g # h PROVE Looks(g)
    <3> DEFINE removed == task[h].run \in here /\ files[task[h].run] = {}
    <3>1. CASE removed /\ task[g].run = task[h].run
      <4>1. task'[g] = [task[g] EXCEPT !.detached = TRUE] /\ here' = here \ {task[h].run}
        BY <1>3, <2>2, <3>1 DEF RemoveDir
      <4>2. task[g] \in Task /\ task[g].run \in Runs /\ task[g].run \notin here'
        BY <1>0, <1>1, <3>1, <4>1 DEF TypeOK
      <4> QED BY <4>1, <4>2 DEF Looks, Task
    <3>2. CASE ~ (removed /\ task[g].run = task[h].run)
      <4>1. task'[g] = task[g]
        BY <1>3, <2>2, <3>2 DEF RemoveDir
      <4> QED BY <4>1 DEF Looks
    <3> QED BY <3>1, <3>2
  <2> QED BY <1>0, <1>1, <2>1, <2>2, RemovalSeen
<1> QED BY <1>2, <1>3 DEF Remove


\* A step of a pass that touches nothing.
LEMMA LookSeen ==
    ASSUME IInv, PassInv, NEW h \in Hosts, (\E r \in Runs : Classify(h, r)) \/ LeaveAlone(h)
    PROVE  PassInv'
<1>0. TypeOK /\ task[h] \in Task /\ SeenInv(h)
  BY DEF IInv, TypeOK, PassInv
<1>1. UNCHANGED <<here, files, lease>> /\ \E t : Move(h, t)
  BY DEF Classify, LeaveAlone, SameFiles
<1>2. \A g \in Hosts \ {h} : Looks(g) /\ task'[g] = task[g]
  BY <1>0, <1>1, MoveLooks
<1>3. task'[h].pc \in {"pass", "leasing"}
  <2>1. ASSUME NEW r \in Runs, Classify(h, r) PROVE task'[h].pc \in {"pass", "leasing"}
    <3>1. \/ task'[h] = [task[h] EXCEPT !.pc = "leasing", !.run = r, !.unseen = @ \ {r}]
          \/ task'[h] = [task[h] EXCEPT !.unseen = @ \ {r}]
      BY <1>0, <2>1, MoveAt DEF Classify
    <3>2. task[h].pc = "pass"
      BY <2>1 DEF Classify, At
    <3>3. [task[h] EXCEPT !.pc = "leasing", !.run = r, !.unseen = @ \ {r}].pc = "leasing"
      BY <1>0 DEF Task
    <3>4. [task[h] EXCEPT !.unseen = @ \ {r}].pc = "pass"
      BY <1>0, <3>2 DEF Task
    <3> QED BY <3>1, <3>3, <3>4
  <2>2. CASE LeaveAlone(h)
    <3>1. task'[h] = [task[h] EXCEPT !.pc = "pass", !.run = None, !.detached = FALSE]
      BY <1>0, <2>2, MoveAt DEF LeaveAlone
    <3> QED BY <1>0, <3>1 DEF Task
  <2> QED BY <2>1, <2>2
<1>4. ASSUME NEW r \in Runs, Unmade(r) PROVE Calm(r)
  BY <1>1, <1>2, <1>3, <1>4, Places, StaysCalm
<1>5. ASSUME NEW g \in Hosts \ {h}, NEW r \in task'[g].stale, Unmade(r) PROVE Calm(r)
  BY <1>0, <1>2, <1>4, <1>5 DEF TypeOK, Task
<1>6. ASSUME NEW r \in task[h].stale PROVE Calm(r) /\ StillSeen(h, r) /\ r \in Runs
  BY <1>0, <1>4, <1>6 DEF SeenInv, StillSeen, Task
<1>7. ASSUME NEW r \in Runs, Classify(h, r) PROVE SeenInv(h)'
  <2>1. /\ task[h].pc = "pass" /\ task[h].run = None /\ ~ task[h].detached
    BY <1>0, <1>7 DEF Classify, At, SeenInv
  <2>2. CASE Complete(r) /\ Doomed(h, r)
    <3>1. task'[h] = [task[h] EXCEPT !.pc = "leasing", !.run = r, !.unseen = @ \ {r}]
      BY <1>0, <1>7, <2>2, MoveAt DEF Classify
    <3>2. /\ task'[h].pc = "leasing" /\ task'[h].run = r /\ task'[h].unseen = task[h].unseen \ {r}
          /\ ~ task'[h].detached /\ task'[h].stale = task[h].stale /\ task'[h].op = task[h].op
      BY <1>0, <2>1, <3>1 DEF Task
    <3>3. ASSUME NEW s \in task[h].stale PROVE StillSeen(h, s)'
      <4>1. /\ Calm(s) /\ StillSeen(h, s) /\ lease[s] = None /\ (Stale(s)' => Stale(s))
            /\ (Stale(s) => s \in task[h].unseen)
        BY <1>1, <1>6, <2>1, <3>3, RunAssumption DEF StillSeen, At, Stale, Complete, Free
      <4> QED BY <1>1, <3>2, <4>1 DEF StillSeen, Calm
    <3> QED BY <1>0, <3>2, <3>3 DEF SeenInv, At
  <2>3. CASE ~ (Complete(r) /\ Doomed(h, r))
    <3>1. task'[h] = [task[h] EXCEPT !.unseen = @ \ {r}]
      BY <1>0, <1>7, <2>3, MoveAt DEF Classify
    <3>2. /\ task'[h].pc = "pass" /\ task'[h].run = None /\ task'[h].unseen = task[h].unseen \ {r}
          /\ ~ task'[h].detached /\ task'[h].stale = task[h].stale /\ task'[h].op = task[h].op
      BY <1>0, <2>1, <3>1 DEF Task
    <3>3. ASSUME NEW s \in task[h].stale PROVE StillSeen(h, s)'
      <4>1. /\ Calm(s) /\ StillSeen(h, s) /\ lease[s] = None /\ (Stale(s)' => Stale(s))
            /\ (Stale(s) => s \in task[h].unseen) /\ s # None
        BY <1>1, <1>6, <2>1, <3>3, RunAssumption DEF StillSeen, At, Stale, Complete, Free
      <4>2. task[h].op = "create"
        BY <1>0, <3>3 DEF SeenInv
      <4>3. s = r => ~ Stale(s)
        BY <2>3, <4>2 DEF Stale, Doomed
      <4> QED BY <1>1, <3>2, <4>1, <4>3 DEF StillSeen, Calm
    <3> QED BY <1>0, <3>2, <3>3 DEF SeenInv, At
  <2> QED BY <2>2, <2>3
<1>8. CASE LeaveAlone(h)
  <2>1. task'[h] = [task[h] EXCEPT !.pc = "pass", !.run = None, !.detached = FALSE]
        /\ task[h].pc = "leasing"
    BY <1>0, <1>8, MoveAt DEF LeaveAlone, At
  <2>2. /\ task'[h].pc = "pass" /\ task'[h].run = None /\ ~ task'[h].detached
        /\ task'[h].op = task[h].op /\ task'[h].unseen = task[h].unseen
        /\ task'[h].stale = task[h].stale
    BY <1>0, <2>1 DEF Task
  <2>3. ASSUME NEW r \in task[h].stale, task[h].run = r PROVE ~ Stale(r) /\ lease[r] = None
    <3>1. StillSeen(h, r) /\ ~ Lockable(h, r)
      BY <1>6, <1>8, <2>3 DEF LeaveAlone
    <3>2. lease[r] = None
      BY <2>1, <3>1 DEF StillSeen, At
    <3>3. task[h].detached \/ "lease" \notin files[r]
      BY <3>1, <3>2 DEF Lockable, Free
    <3>4. task[h].detached => ~ Complete(r)
      BY <2>3, <3>1 DEF StillSeen, Complete
    <3>5. ~ Complete(r)
      BY <3>3, <3>4 DEF Complete, Files
    <3> QED BY <3>2, <3>5 DEF Stale
  <2>4. \A r \in task'[h].stale :
            Calm(r) /\ (task[h].run = r => ~ Stale(r) /\ lease[r] = None)
    BY <1>6, <2>2, <2>3
  <2>5. SeenInv(h)'
    BY <1>0, <2>2, <2>4, BackToPass
  <2> QED BY <1>0, <1>2, <1>5, <2>5, OthersLook
<1> QED BY <1>0, <1>2, <1>5, <1>7, <1>8, OthersLook

\* A step of a pass that fails touches nothing, and the pass owes that run no
\* more.
LEMMA FailSeen ==
    ASSUME IInv, PassInv, NEW h \in Hosts,
           (\E r \in Runs : ClassifyFails(h, r)) \/ LeaseFails(h)
    PROVE  PassInv'
<1>0. TypeOK /\ task[h] \in Task /\ SeenInv(h)
  BY DEF IInv, TypeOK, PassInv
<1>1. UNCHANGED <<here, files, lease>> /\ \E t : Move(h, t)
  BY DEF ClassifyFails, LeaseFails, SameFiles
<1>2. \A g \in Hosts \ {h} : Looks(g) /\ task'[g] = task[g]
  BY <1>0, <1>1, MoveLooks
<1>3. ASSUME NEW r \in Runs, ClassifyFails(h, r)
      PROVE  /\ task'[h].pc = "pass" /\ task'[h].run = None /\ ~ task'[h].detached
             /\ task'[h].op = task[h].op /\ task[h].pc = "pass" /\ task[h].run = None
             /\ task'[h].unseen = task[h].unseen \ {r} /\ task'[h].stale = task[h].stale \ {r}
  <2>1. task[h].pc = "pass" /\ task[h].run = None /\ ~ task[h].detached
    BY <1>0, <1>3 DEF ClassifyFails, At, SeenInv
  <2>2. task'[h] = [task[h] EXCEPT !.unseen = @ \ {r}, !.stale = @ \ {r}]
    BY <1>0, <1>3, MoveAt DEF ClassifyFails
  <2> QED BY <1>0, <2>1, <2>2 DEF Task
<1>4. CASE LeaseFails(h)
  <2>1. task'[h] = Resumed(h) /\ task[h].pc = "leasing"
    BY <1>0, <1>4, MoveAt DEF LeaseFails, At
  <2>2. CASE task[h].strict
    <3>1. task'[h] = [task[h] EXCEPT !.pc = "pass", !.run = None, !.todo = <<>>,
                                     !.detached = FALSE, !.stale = @ \ {task[h].run}]
      BY <2>1, <2>2 DEF Resumed
    <3>2. /\ task'[h].pc = "pass" /\ task'[h].run = None /\ ~ task'[h].detached
          /\ task'[h].op = task[h].op /\ task'[h].unseen = task[h].unseen
          /\ task'[h].stale = task[h].stale \ {task[h].run}
      BY <1>0, <3>1 DEF Task
    <3>3. \A g \in Hosts \ {h} : task'[g] = task[g]
      BY <1>2
    <3>4. ASSUME NEW r \in task'[h].stale PROVE Calm(r) /\ task[h].run # r
      <4>1. r \in Runs /\ Unmade(r) /\ task[h].run # r
        BY <1>0, <3>2, <3>4 DEF SeenInv, StillSeen, Task
      <4> QED BY <1>1, <1>2, <3>2, <4>1, Places, StaysCalm
    <3>5. SeenInv(h)'
      BY <1>0, <3>2, <3>4, BackToPass
    <3>6. ASSUME NEW g \in Hosts \ {h}, NEW r \in task'[g].stale, Unmade(r) PROVE Calm(r)
      BY <1>0, <1>1, <1>2, <3>2, <3>6, Places, StaysCalm DEF TypeOK, Task
    <3> QED BY <1>0, <1>2, <3>5, <3>6, OthersLook
  <2>3. CASE ~ task[h].strict
    <3>1. Move(h, Idle) /\ Idle.stale = {} /\ Idle.pc = "idle"
      BY <1>4, <2>3 DEF LeaseFails, Resumed, Idle
    <3> QED BY <1>0, <1>1, <3>1, Places, PutDown
  <2> QED BY <2>2, <2>3
<1>5. ASSUME NEW r \in Runs, ClassifyFails(h, r) PROVE PassInv'
  <2>1. ASSUME NEW s \in Runs, Unmade(s) PROVE Calm(s)
    BY <1>1, <1>2, <1>3, <1>5, <2>1, Places, StaysCalm
  <2>2. ASSUME NEW s \in task'[h].stale PROVE StillSeen(h, s)'
    <3>1. s \in task[h].stale /\ s # r /\ s \in Runs /\ StillSeen(h, s)
      BY <1>0, <1>3, <1>5, <2>2 DEF SeenInv, Task
    <3>2. /\ Calm(s) /\ lease[s] = None /\ (Stale(s)' => Stale(s))
          /\ (Stale(s) => s \in task[h].unseen) /\ s # None
      BY <1>1, <1>3, <1>5, <2>1, <3>1, RunAssumption DEF StillSeen, At, Stale, Complete, Free
    <3> QED BY <1>1, <1>3, <1>5, <3>1, <3>2 DEF StillSeen, Calm
  <2>3. SeenInv(h)'
    BY <1>0, <1>3, <1>5, <2>2 DEF SeenInv, At
  <2>4. ASSUME NEW g \in Hosts \ {h}, NEW s \in task'[g].stale, Unmade(s) PROVE Calm(s)
    BY <1>0, <1>2, <2>1, <2>4 DEF TypeOK, Task
  <2> QED BY <1>0, <1>2, <2>3, <2>4, OthersLook
<1> QED BY <1>4, <1>5

\* Whoever leases a run takes it out of what the others saw.
LEMMA TakeSeen ==
    ASSUME IInv, PassInv, NEW h \in Hosts, TakeStale(h)
    PROVE  PassInv'
<1> DEFINE r == task[h].run
<1>0. TypeOK /\ task[h] \in Task /\ SeenInv(h) /\ PlaceInv(h)
  BY DEF IInv, TypeOK, PassInv
<1>1. /\ task[h].pc = "leasing" /\ UNCHANGED <<here, files>> /\ ~ task[h].detached /\ r \in Runs
      /\ lease[r] = None
  BY <1>0 DEF TakeStale, SameFiles, At, Lockable, PlaceInv, Free
<1>2. PICK t : /\ task' = NotStale(h, r, t)
               /\ \/ /\ Complete(r) /\ t = [task[h] EXCEPT !.pc = "remove", !.todo = Removal]
                     /\ lease' = [lease EXCEPT ![r] = h]
                  \/ ~ Complete(r) /\ t = Resumed(h) /\ lease' = lease
  BY DEF TakeStale
<1> HIDE DEF r
<1>3. /\ task'[h] = t
      /\ \A g \in Hosts \ {h} : Looks(g) /\ r \notin task'[g].stale
                                /\ task'[g].detached = task[g].detached
  BY <1>0, <1>1, <1>2, NotStaleLooks
<1>4. \A s \in Runs : s # r => lease'[s] = lease[s]
  BY <1>0, <1>1, <1>2 DEF TypeOK
<1>5. t.pc \in {"remove", "pass", "idle"}
  <2>1. [task[h] EXCEPT !.pc = "remove", !.todo = Removal].pc = "remove"
    BY <1>0 DEF Task
  <2>2. Resumed(h).pc \in {"pass", "idle"}
    <3>1. [task[h] EXCEPT !.pc = "pass", !.run = None, !.todo = <<>>, !.detached = FALSE,
                          !.stale = @ \ {task[h].run}].pc = "pass"
      BY <1>0 DEF Task
    <3>2. Idle.pc = "idle"
      BY DEF Idle
    <3> QED BY <3>1, <3>2 DEF Resumed
  <2> QED BY <1>2, <2>1, <2>2
<1>6. ASSUME NEW s \in Runs, s # r, Unmade(s) PROVE Calm(s)
  BY <1>1, <1>3, <1>4, <1>5, <1>6, Places, StaysCalm DEF Looks
<1>7. ASSUME NEW g \in Hosts \ {h}, NEW s \in task'[g].stale, Unmade(s) PROVE Calm(s)
  BY <1>0, <1>3, <1>6, <1>7 DEF Looks, TypeOK, Task
<1>8. ASSUME NEW s \in task[h].stale
      PROVE  StillSeen(h, s) /\ lease[s] = None /\ Unmade(s)' /\ s \in Runs /\ (s # r => Calm(s))
  <2>1. StillSeen(h, s) /\ s \in Runs /\ Unmade(s)
    BY <1>0, <1>8 DEF SeenInv, StillSeen, Task
  <2>2. lease[s] = None
    BY <1>1, <2>1 DEF StillSeen, At
  <2>3. Unmade(s)'
    BY <1>3, <1>5, <2>1, Places DEF Unmade, Looks
  <2> QED BY <1>6, <2>1, <2>2, <2>3
<1>9. CASE Complete(r)
  <2>1. t = [task[h] EXCEPT !.pc = "remove", !.todo = Removal] /\ lease' = [lease EXCEPT ![r] = h]
    BY <1>2, <1>9
  <2>2. /\ task'[h].pc = "remove" /\ task'[h].run = r /\ task'[h].unseen = task[h].unseen
        /\ ~ task'[h].detached /\ task'[h].stale = task[h].stale /\ task'[h].op = task[h].op
    BY <1>0, <1>1, <1>3, <2>1 DEF Task, r
  <2>3. ASSUME NEW s \in task[h].stale PROVE StillSeen(h, s)'
    <3>1. CASE s = r
      <4>1. lease'[s] = h
        BY <1>0, <1>1, <2>1, <3>1 DEF TypeOK
      <4> QED BY <1>8, <2>2, <3>1, <4>1 DEF StillSeen, At
    <3>2. CASE s # r
      <4>1. lease'[s] = None /\ (Stale(s)' => Stale(s)) /\ Calm(s) /\ StillSeen(h, s)
        BY <1>1, <1>4, <1>8, <3>2 DEF Stale, Complete, Free
      <4>2. Stale(s) => s \in task[h].unseen
        BY <3>2, <4>1 DEF StillSeen, r
      <4> QED BY <2>2, <3>2, <4>1, <4>2 DEF StillSeen, Calm
    <3> QED BY <3>1, <3>2
  <2>4. SeenInv(h)'
    BY <1>0, <2>2, <2>3 DEF SeenInv, At
  <2> QED BY <1>0, <1>3, <1>7, <2>4, OthersLook
<1>10. CASE ~ Complete(r) /\ t = Idle
  <2>1. SeenInv(h)'
    BY <1>3, <1>10, SeenNothing DEF Idle, At
  <2> QED BY <1>0, <1>3, <1>7, <2>1, OthersLook
<1>11. CASE ~ Complete(r) /\ t # Idle
  <2>1. t = [task[h] EXCEPT !.pc = "pass", !.run = None, !.todo = <<>>, !.detached = FALSE,
                            !.stale = @ \ {task[h].run}]
    BY <1>2, <1>11 DEF Resumed
  <2>2. /\ task'[h].pc = "pass" /\ task'[h].run = None /\ ~ task'[h].detached
        /\ task'[h].op = task[h].op /\ task'[h].unseen = task[h].unseen
        /\ task'[h].stale = task[h].stale \ {r}
    BY <1>0, <1>3, <2>1 DEF Task, r
  <2>3. \A s \in task'[h].stale : Calm(s) /\ task[h].run # s
    BY <1>8, <2>2 DEF r
  <2>4. SeenInv(h)'
    BY <1>0, <2>2, <2>3, BackToPass
  <2> QED BY <1>0, <1>3, <1>7, <2>4, OthersLook
<1> QED BY <1>9, <1>10, <1>11

LEMMA PassInductive ==
    /\ Init => PassInv
    /\ IInv /\ PassInv /\ [Next]_vars => PassInv'
<1>1. Init => PassInv
  BY DEF Init, PassInv, SeenInv, Idle, At
<1>2. ASSUME IInv, PassInv, [Next]_vars PROVE PassInv'
  <2>0. TypeOK
    BY <1>2 DEF IInv
  <2>1. CASE UNCHANGED vars
    <3>1. UNCHANGED <<here, files, lease, task>>
      BY <2>1 DEF vars
    <3> QED BY <1>2, <2>0, <3>1, TasksStay
  <2>2. ASSUME NEW h \in Hosts, Refer(h) PROVE PassInv'
    <3>1. UNCHANGED <<here, files, lease, task>>
      BY <2>2 DEF Refer, SameFiles
    <3> QED BY <1>2, <2>0, <3>1, TasksStay
  <2>3. ASSUME NEW r \in Runs, Forget(r) PROVE PassInv'
    <3>1. UNCHANGED <<here, files, lease, task>>
      BY <2>3 DEF Forget, SameFiles
    <3> QED BY <1>2, <2>0, <3>1, TasksStay
  <2>4. ASSUME NEW h \in Hosts, NEW r \in Runs, CreateRun(h, r) \/ CloneRun(h, r) \/ AdoptLease(h, r)
        PROVE  PassInv'
    BY <1>2, <2>4, BeginSeen
  <2>5. ASSUME NEW h \in Hosts, BeginSweep(h) \/ Drop(h) \/ Die(h) \/ Adopt(h) \/ AdoptFails(h)
        PROVE  PassInv'
    BY <1>2, <2>5, RestSeen
  <2>6. ASSUME NEW h \in Hosts, Construct(h) PROVE PassInv'
    BY <1>2, <2>6, MakeSeen, BuiltSeen, RestSeen DEF Construct
  <2>7. ASSUME NEW h \in Hosts, Remove(h) PROVE PassInv'
    BY <1>2, <2>7, RemoveSeen
  <2>8. ASSUME NEW h \in Hosts, Pass(h) PROVE PassInv'
    BY <1>2, <2>8, LookSeen, FailSeen, TakeSeen, RestSeen DEF Pass
  <2> QED BY <1>2, <2>1, <2>2, <2>3, <2>4, <2>5, <2>6, <2>7, <2>8 DEF Next, Continue
<1> QED BY <1>1, <1>2

\* A create_run that listed the whole namespace ends its pass over stale siblings
\* (reclaim_stale_runs) only when each run that was stale when the pass began is
\* gone, leased by somebody since, or one on which a step of this pass failed
\* (Unclassified): an error about one sibling costs no other, whatever other
\* creators and adopters do meanwhile.
THEOREM PassesTakeStale == Spec => PassTakesStale
<1>1. IInv /\ PassInv /\ [Next]_vars =>
          [\A h \in Hosts : task[h].op = "create" /\ At(h, "pass") /\ task'[h].pc = "idle"
              /\ faults' = faults
              => \A r \in task[h].stale : ~Stale(r)]_vars
  <2> SUFFICES ASSUME IInv, PassInv, Next, NEW h \in Hosts,
                      task[h].op = "create", At(h, "pass"), task'[h].pc = "idle",
                      faults' = faults, NEW r \in task[h].stale, Stale(r)
               PROVE  FALSE
    OBVIOUS
  <2>0. TypeOK /\ task[h] \in Task /\ SeenInv(h) /\ task[h].pc = "pass"
    BY DEF IInv, TypeOK, PassInv, At
  <2>1. r \in task[h].unseen \cap here
    BY <2>0 DEF SeenInv, StillSeen, Stale, Complete
  <2>2. ~ Fault
    BY <2>0, RunAssumption DEF Fault, TypeOK
  <2>3. CASE EndPass(h)
    BY <2>1, <2>3 DEF EndPass
  <2>4. CASE ~ EndPass(h)
    <3>1. ASSUME NEW g \in Hosts, NEW s \in Runs,
                 CreateRun(g, s) \/ CloneRun(g, s) \/ AdoptLease(g, s)
          PROVE  task'[h].pc = "pass"
      <4>1. At(g, "idle") /\ \E t : task' = NotStale(g, s, t)
        BY <3>1 DEF CreateRun, CloneRun, MakeDir, AdoptLease
      <4>2. g # h
        BY <2>0, <4>1 DEF At
      <4>3. PICK t : task' = NotStale(g, s, t)
        BY <4>1
      <4>4. Looks(h)
        BY <2>0, <4>2, <4>3, NotStaleLooks
      <4> QED BY <2>0, <4>4 DEF Looks
    <3>2. ASSUME NEW g \in Hosts, BeginSweep(g) \/ Refer(g) \/ Drop(g)
          PROVE  task'[h].pc = "pass"
      <4>1. g # h /\ (UNCHANGED task \/ \E t : Move(g, t))
        BY <2>0, <3>2 DEF BeginSweep, Refer, Drop, At
      <4> QED BY <2>0, <4>1, MoveAt
    <3>3. ASSUME NEW g \in Hosts, Construct(g) \/ Adopt(g) \/ AdoptFails(g)
          PROVE  task'[h].pc = "pass"
      <4>1. task[g].pc \in Build \cup {"adopting"} /\ \E t : Move(g, t)
        BY <3>3 DEF Construct, MakeFile, LockLease, Built, Copied, BuildFails, Adopt, AdoptFails,
                    At, Step, Build
      <4>2. g # h
        BY <2>0, <4>1, Places
      <4> QED BY <2>0, <4>1, <4>2, MoveAt
    <3>4. ASSUME NEW g \in Hosts, Remove(g)
          PROVE  task'[h].pc = "pass"
      <4>1. task[g].pc = "remove"
        BY <3>4 DEF Remove, RemoveFile, Unlock, RemoveDir, RemovalFails, At
      <4>2. g # h
        BY <2>0, <4>1
      <4>3. CASE RemoveDir(g)
        BY <2>0, <4>2, <4>3 DEF RemoveDir, Task
      <4>4. CASE ~ RemoveDir(g)
        <5>1. \E t : Move(g, t)
          BY <3>4, <4>4 DEF Remove, RemoveFile, Unlock, RemovalFails
        <5> QED BY <2>0, <4>2, <5>1, MoveAt
      <4> QED BY <4>3, <4>4
    <3>5. ASSUME NEW g \in Hosts, TakeStale(g) \/ LeaveAlone(g) \/ (EndPass(g) /\ g # h)
          PROVE  task'[h].pc = "pass"
      <4>1. g # h /\ task[g].pc \in {"leasing", "pass"}
        BY <2>0, <3>5 DEF TakeStale, LeaveAlone, EndPass, At
      <4>2. CASE TakeStale(g)
        <5>1. task[g].run \in Runs
          BY <4>2 DEF TakeStale, IInv, PlaceInv, At
        <5>2. PICK t : task' = NotStale(g, task[g].run, t)
          BY <4>2 DEF TakeStale
        <5>3. Looks(h)
          BY <2>0, <4>1, <5>1, <5>2, NotStaleLooks
        <5> QED BY <2>0, <5>3 DEF Looks
      <4>3. CASE LeaveAlone(g) \/ EndPass(g)
        <5>1. \E t : Move(g, t)
          BY <4>3 DEF LeaveAlone, EndPass
        <5> QED BY <2>0, <4>1, <5>1, MoveAt
      <4> QED BY <3>5, <4>2, <4>3
    <3>6. ASSUME NEW g \in Hosts, NEW s \in Runs, Classify(g, s)
          PROVE  task'[h].pc \in {"pass", "leasing"}
      <4>1. CASE g # h
        <5>1. \E t : Move(g, t)
          BY <3>6 DEF Classify
        <5> QED BY <2>0, <4>1, <5>1, MoveAt
      <4>2. CASE g = h
        <5>1. \/ task'[h] = [task[h] EXCEPT !.pc = "leasing", !.run = s, !.unseen = @ \ {s}]
              \/ task'[h] = [task[h] EXCEPT !.unseen = @ \ {s}]
          BY <2>0, <3>6, <4>2, MoveAt DEF Classify
        <5>2. [task[h] EXCEPT !.pc = "leasing", !.run = s, !.unseen = @ \ {s}].pc = "leasing"
          BY <2>0 DEF Task
        <5>3. [task[h] EXCEPT !.unseen = @ \ {s}].pc = "pass"
          BY <2>0 DEF Task
        <5> QED BY <5>1, <5>2, <5>3
      <4> QED BY <4>1, <4>2
    <3>7. ASSUME NEW s \in Runs, Forget(s)
          PROVE  task'[h].pc = "pass"
      BY <2>0, <3>7 DEF Forget
    <3>8. task'[h].pc \in {"pass", "leasing"}
      BY <2>2, <2>4, <3>1, <3>2, <3>3, <3>4, <3>5, <3>6, <3>7
         DEF Next, Continue, Pass, Die, ClassifyFails, LeaseFails, ListingFails
    <3> QED BY <3>8
  <2> QED BY <2>3, <2>4
<1> QED BY <1>1, PassInductive, Invariance, PTL DEF Spec, PassTakesStale
=============================================================================
