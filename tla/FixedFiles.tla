------------------------------ MODULE FixedFiles ------------------------------
(***************************************************************************)
(* Files that keep their names while their contents change: the SQLite     *)
(* file set (sqlite_fileset.rs) and an authority replaced or retired in    *)
(* place (filesystem.rs, the Unix branch).                                 *)
(*                                                                         *)
(* A file set is a database with its WAL, SHM and checkpoint.  A damaged   *)
(* set is moved file by file into a forensic directory; a new database is  *)
(* built under a candidate name and renamed over the target; its           *)
(* checkpoint replaces the last.  One host does all this, one call at a    *)
(* time.  Renames are atomic and reach the disk in order: a power loss     *)
(* leaves any state of the names since the last directory barrier.         *)
(***************************************************************************)
EXTENDS Naturals, Sequences, FiniteSets

CONSTANTS
    Absent,        \* no file has the name
    Stray,         \* a database another program creates under the target's name
    Found,         \* the member sets of a file set an earlier program may have left
    MaxBuilds,     \* candidates ever built
    Authorities,   \* exact contents of the authority file
    First,         \* the content it starts with
    Length,        \* the length of each build's database
    EdgeBytes,     \* SQLITE_CHECKPOINT_EDGE_BYTES
    SampleBytes,   \* SQLITE_CHECKPOINT_INTERIOR_SAMPLE_BYTES
    RangeBytes,    \* SQLITE_CHECKPOINT_INTERIOR_RANGE_BYTES
    MaxFaults      \* bound on failed steps, process deaths and power losses

ASSUME FileAssumption ==
    /\ MaxBuilds \in Nat /\ MaxFaults \in Nat
    /\ Found \subseteq SUBSET {"database", "wal", "shm", "auth"}
    /\ First \in Authorities /\ Absent \notin Authorities
    /\ Absent \notin [of : {Stray} \cup (0..MaxBuilds) \cup Authorities, whole : BOOLEAN]
    /\ Length \in [0..MaxBuilds -> Nat]
    /\ EdgeBytes \in Nat \ {0} /\ RangeBytes \in Nat \ {0}
    /\ \E k \in 2..SampleBytes : SampleBytes = k * RangeBytes

VARIABLES
    names,     \* the file under each name, as processes see it
    kept,      \* the names a power loss may leave
    task,      \* the host's call in progress
    built,     \* the last build
    evidence,  \* the forensic directory: "none", "allocated" or "complete"
    wanted,    \* the files on disk its preservation was called for
    told,      \* the files a call reported durable, until the next call on them
    faults

vars == <<names, kept, task, built, evidence, wanted, told, faults>>

\* The stable order of SqliteFileSet::paths.
Members == <<"database", "wal", "shm", "auth">>
Sidecars == {"wal", "shm"}
MemberNames == {"database", "wal", "shm", "auth"}
Target(m) == <<"target", m>>
Candidate(m) == <<"candidate", m>>
Forensic(m) == <<"forensic", m>>
Active == <<"authority", "active">>
Retired == <<"authority", "retired">>
Names == {"target", "candidate", "forensic"} \X MemberNames \cup {Active, Retired}

\* A file: the build or content it holds, and whether all of it is in the file
\* and on disk.
File(of, whole) == [of |-> of, whole |-> whole]

Idle == [op |-> "none", pc |-> "idle", next |-> 0, set |-> "target",
         from |-> Absent, to |-> Absent, synced |-> FALSE]

Init ==
    /\ \E present \in Found :
        names = [n \in Names |->
            IF n = Active THEN File(First, TRUE)
            ELSE IF n[1] = "target" /\ n[2] \in present THEN File(0, TRUE) ELSE Absent]
    /\ kept = {names} /\ task = Idle /\ built = 0
    /\ evidence = "none" /\ wanted = {} /\ told = {} /\ faults = 0

Present(n) == names[n] # Absent

\* Mutant: only the database is looked for.
DatabaseExists(set) == Present(<<set, "database">>)

\* SqliteFileSet::any_exists
AnyExists(set) == \E m \in MemberNames : Present(<<set, m>>)

OnDisk(n) == \A image \in kept : image[n] = names[n]

Rename(from, to) == [names EXCEPT ![to] = names[from], ![from] = Absent]

\* A change of the directory: it is visible, and on disk from the next barrier.
Visible(changed) == names' = changed /\ kept' = kept \cup {changed}
Barrier == kept' = {names} /\ UNCHANGED names
Unmoved == UNCHANGED <<names, kept>>

Goto(place) == task' = [task EXCEPT !.pc = place]
At(op, place) == task.op = op /\ task.pc = place
Begin(t) == task = Idle /\ task' = t
Forget(ns) == told' = {t \in told : t[1] \notin ns}
Return(facts) == task' = Idle /\ told' = told \cup facts
Fault == faults < MaxFaults /\ faults' = faults + 1
Host == <<built, evidence, wanted>>

-----------------------------------------------------------------------------
(* Forensic preservation: every file moved, both directories synced.       *)

\* preserve_forensic_files, into a directory the host has just allocated.
BeginPreserve ==
    /\ evidence = "none"
    /\ Begin([Idle EXCEPT !.op = "preserve", !.pc = "look", !.next = 1])
    /\ evidence' = "allocated"
    /\ wanted' = {<<m, names[Target(m)]>> : m \in
                    {k \in MemberNames : Present(Target(k)) /\ OnDisk(Target(k))}}
    /\ Forget({Target(m) : m \in MemberNames})
    /\ Unmoved /\ UNCHANGED <<built, faults>>

\* resume_forensic_files, before the host has recorded completion.
BeginResume ==
    /\ evidence = "allocated"
    /\ Begin([Idle EXCEPT !.op = "resume", !.pc = "look", !.next = 1])
    /\ Unmoved /\ UNCHANGED <<Host, told, faults>>

Moving == task.op \in {"preserve", "resume"}
Member == Members[task.next]

\* Mutant: a file already preserved is replaced.
NeverBoth == FALSE

\* The resumed directory already holds another file of this name.
Both == task.op = "resume" /\ Present(Forensic(Member)) /\ Present(Target(Member))

Skip ==
    /\ Moving /\ task.pc = "look" /\ task.next <= 4 /\ ~Present(Target(Member))
    /\ task' = [task EXCEPT !.next = @ + 1]
    /\ Unmoved /\ UNCHANGED <<Host, told, faults>>

Move ==
    /\ Moving /\ task.pc = "look" /\ task.next <= 4 /\ Present(Target(Member)) /\ ~Both
    /\ Visible(Rename(Target(Member), Forensic(Member)))
    /\ Goto("barrier")
    /\ UNCHANGED <<Host, told, faults>>

ResumeRefused ==
    /\ Moving /\ task.pc = "look" /\ task.next <= 4 /\ Both
    /\ Return({})
    /\ Unmoved /\ UNCHANGED <<Host, faults>>

Moved ==
    /\ Moving /\ task.pc = "barrier"
    /\ told' = told \cup {<<Forensic(Member), names[Forensic(Member)]>>}
    /\ task' = [task EXCEPT !.pc = "look", !.next = @ + 1]
    /\ Barrier /\ UNCHANGED <<Host, faults>>

\* The host records completion in the forensic directory, durably.
Preserved ==
    /\ Moving /\ task.pc = "look" /\ task.next > 4
    /\ evidence' = "complete"
    /\ Return({})
    /\ Barrier /\ UNCHANGED <<built, wanted, faults>>

\* Another program opens the database that is no longer there.
Strays ==
    /\ task = Idle /\ evidence = "allocated" /\ ~Present(Target("database"))
    /\ Visible([names EXCEPT ![Target("database")] = File(Stray, TRUE)])
    /\ UNCHANGED <<task, Host, told, faults>>

Preservation == BeginPreserve \/ BeginResume \/ Skip \/ Move \/ ResumeRefused \/ Moved
                \/ Preserved \/ Strays

-----------------------------------------------------------------------------
(* Removal of a file set, and publication of a candidate.                  *)

\* The host removes a disposable set, never one it is still preserving.
BeginRemove ==
    /\ evidence # "allocated" /\ AnyExists("target")
    /\ Begin([Idle EXCEPT !.op = "remove", !.pc = "remove", !.next = 1, !.set = "target"])
    /\ Forget({Target(m) : m \in MemberNames})
    /\ Unmoved /\ UNCHANGED <<Host, faults>>

RemoveOne ==
    /\ task.pc = "remove" /\ task.next <= 4
    /\ IF Present(<<task.set, Member>>)
       THEN Visible([names EXCEPT ![<<task.set, Member>>] = Absent]) ELSE Unmoved
    /\ task' = [task EXCEPT !.next = @ + 1]
    /\ UNCHANGED <<Host, told, faults>>

\* The call returns: Ok, or CandidateRetainedSidecars for a candidate.
Removed ==
    /\ task.pc = "remove" /\ task.next > 4
    /\ Return({})
    /\ Unmoved /\ UNCHANGED <<Host, faults>>

\* A new candidate under a fresh name, filled by SQLite.  Closing it folds the
\* WAL into the database, and the host makes a checkpoint of it; or both sidecars
\* stay because the WAL could not be folded.
PrepareCandidate(folded) ==
    /\ task = Idle /\ evidence # "allocated" /\ built < MaxBuilds
    /\ built' = built + 1
    /\ Visible([n \in Names |->
        IF n[1] # "candidate" THEN names[n]
        ELSE IF n[2] = "database" THEN File(built + 1, folded)
        ELSE IF (n[2] = "auth") = folded THEN File(built + 1, TRUE) ELSE Absent])
    /\ UNCHANGED <<task, evidence, wanted, told, faults>>

\* The host publishes at a name that no file of an older set shares.
BeginPublish ==
    /\ evidence # "allocated" /\ Present(Candidate("database")) /\ ~AnyExists("target")
    /\ Begin([Idle EXCEPT !.op = "publish", !.pc = "check", !.set = "candidate"])
    /\ Forget({Target(m) : m \in MemberNames})
    /\ Unmoved /\ UNCHANGED <<Host, faults>>

RetainedSidecars == \E m \in Sidecars : Present(Candidate(m))

DiscardCandidate ==
    /\ At("publish", "check") /\ RetainedSidecars
    /\ task' = [task EXCEPT !.pc = "remove", !.next = 1]
    /\ Unmoved /\ UNCHANGED <<Host, told, faults>>

DropCandidateCheckpoint ==
    /\ At("publish", "check") /\ ~RetainedSidecars
    /\ Goto("rename")
    /\ IF Present(Candidate("auth"))
       THEN Visible([names EXCEPT ![Candidate("auth")] = Absent]) ELSE Unmoved
    /\ UNCHANGED <<Host, told, faults>>

RenameCandidate ==
    /\ At("publish", "rename")
    /\ Visible(Rename(Candidate("database"), Target("database")))
    /\ Goto("barrier")
    /\ UNCHANGED <<Host, told, faults>>

CandidatePublished ==
    /\ At("publish", "barrier")
    /\ Return({<<Target("database"), names[Target("database")]>>})
    /\ Barrier /\ UNCHANGED <<Host, faults>>

\* SQLite opens the published database beside which it keeps a WAL and an SHM.
\* Both carry the build they belong to.
OpenTarget ==
    /\ task = Idle /\ evidence # "allocated" /\ Present(Target("database"))
    /\ ~Present(Target("wal")) /\ names[Target("database")].of # Stray
    /\ LET mine == File(names[Target("database")].of, TRUE) IN
        Visible([names EXCEPT ![Target("wal")] = mine, ![Target("shm")] = mine])
    /\ UNCHANGED <<task, Host, told, faults>>

Publication == BeginRemove \/ RemoveOne \/ Removed \/ (\E folded \in BOOLEAN : PrepareCandidate(folded))
               \/ BeginPublish \/ DiscardCandidate \/ DropCandidateCheckpoint \/ RenameCandidate
               \/ CandidatePublished \/ OpenTarget

-----------------------------------------------------------------------------
(* The checkpoint of a database: what it samples, and its publication.     *)

Edge(n) == IF n < EdgeBytes THEN n ELSE EdgeBytes
Interior(n) == IF n > 2 * Edge(n) THEN n - 2 * Edge(n) ELSE 0
MaxRanges == SampleBytes \div RangeBytes
Bytes(from, count) == from..(from + count - 1)

\* Mutant: the starts are spread over one range too many.
SpreadShort(n) ==
    UNION {Bytes(Edge(n) + ((Interior(n) - RangeBytes) * i) \div MaxRanges, RangeBytes)
             : i \in 0..(MaxRanges - 1)}

\* The first range begins and the last range ends with the interior.
Spread(n) ==
    UNION {Bytes(Edge(n) + ((Interior(n) - RangeBytes) * i) \div (MaxRanges - 1), RangeBytes)
             : i \in 0..(MaxRanges - 1)}

\* The bytes a checkpoint of a database of length n authenticates.
Sampled(n) ==
    Bytes(0, Edge(n)) \cup Bytes(n - Edge(n), Edge(n))
    \cup (IF Interior(n) <= SampleBytes THEN Bytes(Edge(n), Interior(n)) ELSE Spread(n))

\* The host samples the database it has opened and hands over the envelope.
BeginCheckpoint ==
    /\ evidence # "allocated" /\ Present(Target("database"))
    /\ names[Target("database")].of # Stray
    /\ Begin([Idle EXCEPT !.op = "checkpoint", !.pc = "temp", !.to = names[Target("database")].of])
    /\ Forget({Target("auth")})
    /\ Unmoved /\ UNCHANGED <<Host, faults>>

-----------------------------------------------------------------------------
(* One fixed authority, replaced or retired by its exact bytes.            *)

BeginReplace(expected, replacement) ==
    /\ Begin([Idle EXCEPT !.op = "replace", !.pc = "read", !.from = expected, !.to = replacement])
    /\ Forget({Active, Retired})
    /\ Unmoved /\ UNCHANGED <<Host, faults>>

BeginRetire(expected) ==
    /\ Begin([Idle EXCEPT !.op = "retire", !.pc = "read", !.from = expected])
    /\ Forget({Active, Retired})
    /\ Unmoved /\ UNCHANGED <<Host, faults>>

Holds(n, content) == Present(n) /\ names[n] = File(content, TRUE)

\* What the authority must hold for the call to go on, and what shows that an
\* earlier call has already done its work.
Already == IF task.op = "replace" THEN Holds(Active, task.to)
           ELSE ~Present(Active) /\ Holds(Retired, task.from)

\* Mutant: a retry that finds its work done returns at once.
DoneWithoutBarrier ==
    /\ task.op \in {"replace", "retire"} /\ task.pc = "read" /\ Already
    /\ Return(IF task.op = "retire" THEN {<<n, names[n]>> : n \in {Active, Retired}}
              ELSE {<<Active, names[Active]>>})
    /\ Unmoved /\ UNCHANGED <<Host, faults>>

\* A retry finds its work done and repeats the barrier.
AlreadyDone ==
    /\ task.op \in {"replace", "retire"} /\ task.pc = "read" /\ Already
    /\ Goto("barrier")
    /\ Unmoved /\ UNCHANGED <<Host, told, faults>>

\* Any other content fails closed, and so does an occupied retired name.
Admitted == Holds(Active, task.from) /\ (task.op = "retire" => ~Present(Retired))

Collides ==
    /\ task.op \in {"replace", "retire"} /\ task.pc = "read" /\ ~Already /\ ~Admitted
    /\ Return({})
    /\ Unmoved /\ UNCHANGED <<Host, faults>>

Matches ==
    /\ task.op \in {"replace", "retire"} /\ task.pc = "read" /\ ~Already /\ Admitted
    /\ Goto(IF task.op = "replace" THEN "temp" ELSE "rename")
    /\ Unmoved /\ UNCHANGED <<Host, told, faults>>

\* The temporary is created under a fresh name, written and synced.
WriteTemp ==
    /\ task.op \in {"checkpoint", "replace"} /\ task.pc = "temp"
    /\ task' = [task EXCEPT !.pc = "rename", !.synced = TRUE]
    /\ Unmoved /\ UNCHANGED <<Host, told, faults>>

Fixed == IF task.op = "checkpoint" THEN Target("auth") ELSE Active

Replace ==
    /\ task.op \in {"checkpoint", "replace"} /\ task.pc = "rename"
    /\ Visible([names EXCEPT ![Fixed] = File(task.to, task.synced)])
    /\ Goto("barrier")
    /\ UNCHANGED <<Host, told, faults>>

Retire ==
    /\ At("retire", "rename")
    /\ Visible(Rename(Active, Retired))
    /\ Goto("barrier")
    /\ UNCHANGED <<Host, told, faults>>

\* The barrier, and the names read again.
Done ==
    /\ task.op \in {"checkpoint", "replace", "retire"} /\ task.pc = "barrier"
    /\ Return(IF task.op = "retire" THEN {<<n, names[n]>> : n \in {Active, Retired}}
              ELSE {<<Fixed, names[Fixed]>>})
    /\ Barrier /\ UNCHANGED <<Host, faults>>

Transition ==
    \/ BeginCheckpoint \/ WriteTemp \/ Replace \/ Retire \/ Done
    \/ \E e, r \in Authorities : BeginReplace(e, r)
    \/ \E e \in Authorities : BeginRetire(e)
    \/ AlreadyDone \/ Collides \/ Matches

-----------------------------------------------------------------------------
(* A step fails and its call returns an error, or the process dies; names  *)
(* keep what was done.                                                     *)

Stops ==
    /\ task # Idle /\ Fault /\ task' = Idle
    /\ Unmoved /\ UNCHANGED <<Host, told>>

\* What was not synced is not what was written.
PowerLoss ==
    /\ Fault /\ task' = Idle
    /\ \E image \in kept :
        /\ names' = image
        /\ kept' = {image}
    /\ UNCHANGED <<Host, told>>

Next == Preservation \/ Publication \/ Transition \/ Stops \/ PowerLoss

Spec == Init /\ [][Next]_vars

-----------------------------------------------------------------------------
(* Properties.                                                             *)

Files == [of : {Stray} \cup (0..MaxBuilds) \cup Authorities, whole : BOOLEAN]

\* Every name has a file or none, one call is in progress at most, and the
\* names processes see are among those a power loss may leave.
TypeOK ==
    /\ names \in [Names -> Files \cup {Absent}]
    /\ names \in kept /\ kept \subseteq [Names -> Files \cup {Absent}]
    /\ task.next \in 0..5 /\ task.set \in {"target", "candidate"}
    /\ built \in 0..MaxBuilds /\ faults \in 0..MaxFaults
    /\ evidence \in {"none", "allocated", "complete"}
    /\ told \subseteq Names \X (Files \cup {Absent})

\* Whatever stops a preservation and whenever it is resumed, every file it was
\* called for is still there, under the old name or the forensic one; once
\* completion is recorded, nothing the host does next takes it
\* (preserve_forensic_files, resume_forensic_files).
EvidenceKept ==
    \A image \in kept : \A w \in wanted :
        \/ image[Forensic(w[1])] = w[2]
        \/ evidence # "complete" /\ image[Target(w[1])] = w[2]

\* No power loss shows a database without a part of its rows, a WAL, an SHM or
\* a checkpoint of another database beside it, or half an authority
\* (publish_candidate, publish_checkpoint, replace_regular_exact_unix).
PublishedWhole ==
    \A image \in kept :
        /\ image[Active] # Absent => image[Active].whole
        /\ LET database == image[Target("database")] IN
            database # Absent /\ database.of # Stray =>
                /\ database.whole
                /\ \A m \in {"wal", "shm", "auth"} :
                    image[Target(m)] # Absent => image[Target(m)] = database

\* What a call reported is what every power loss leaves, until the next call on
\* the same names: also when the call only found its work done
\* (replace_regular_exact_unix, retire_regular_exact_unix, publish_candidate,
\* publish_checkpoint, preserve_forensic_files).
ToldStays == \A image \in kept : \A t \in told : image[t[1]] = t[2]

\* A checkpoint authenticates every byte of a database whose interior fits the
\* sample; of a longer one the edges and as much as the budget allows, both
\* ends of the interior included, and never a byte past the end
\* (physical_file_checkpoint_interior_ranges).
SampleCovers ==
    Present(Target("auth")) /\ names[Target("auth")].of # Stray =>
        LET n == Length[names[Target("auth")].of] IN
            /\ Sampled(n) \subseteq Bytes(0, n)
            /\ Interior(n) <= SampleBytes => Sampled(n) = Bytes(0, n)
            /\ Interior(n) > SampleBytes =>
                /\ Cardinality(Sampled(n)) = 2 * EdgeBytes + SampleBytes
                /\ {EdgeBytes, n - EdgeBytes - 1} \subseteq Sampled(n)
====
