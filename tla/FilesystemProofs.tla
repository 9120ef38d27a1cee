--------------------------- MODULE FilesystemProofs ---------------------------
(***************************************************************************)
(* For any builds, lengths, authorities and faults: preserved evidence     *)
(* stays, published files are whole and belong together, what a call       *)
(* reported stays until the next call on the same names, and a checkpoint  *)
(* authenticates what its budget promises of a database of any length.     *)
(* For any number of publishers, names and contents: what a caller was told *)
(* stays, exact publication is atomic, and nothing is ever replaced.       *)
(***************************************************************************)
EXTENDS FixedFiles, PublishedFiles, FiniteSetTheorems, WellFoundedInduction, TLAPS

Whats == {Stray} \cup (0..MaxBuilds) \cup Authorities

TaskType ==
    [op : {"none", "preserve", "resume", "remove", "publish", "checkpoint", "replace", "retire"},
     pc : {"idle", "look", "barrier", "remove", "check", "rename", "temp", "read"},
     next : 0..5, set : {"target", "candidate"}, from : Authorities \cup {Absent},
     to : Whats \cup {Absent}, synced : BOOLEAN]

TypeInv == TypeOK /\ task \in TaskType /\ wanted \subseteq MemberNames \X Files

\* Which steps an operation has, and beside which preservation it may run.
PlaceInv ==
    /\ Moving =>
          /\ evidence = "allocated" /\ task.next \in 1..5
          /\ task.pc = "look" \/ (task.pc = "barrier" /\ task.next <= 4)
    /\ task.op \in {"remove", "publish", "checkpoint"} => evidence # "allocated"
    /\ task.pc = "remove" => task.op \in {"remove", "publish"} /\ task.next \in 1..5
    /\ task.op = "remove" => task.set = "target"
    /\ task.op = "publish" => task.set = "candidate"
    /\ task.op \in {"checkpoint", "replace"} /\ task.pc = "rename" => task.synced
    /\ task.op = "replace" => task.to \in Authorities
    /\ evidence = "none" => wanted = {}

\* What is told of is never a candidate, nor a file that SQLite keeps beside its
\* database; of the names of a call in progress nothing is told.
ToldInv ==
    /\ \A t \in told :
          \/ t[1] \in {Target("database"), Target("auth"), Active, Retired}
          \/ t[2] # Absent /\ \E m \in MemberNames : t[1] = Forensic(m)
    /\ evidence = "allocated" \/ task.op \in {"remove", "publish"} =>
          \A t \in told : t[1] \notin {Target("database"), Target("auth")}
    /\ task.op = "checkpoint" => \A t \in told : t[1] # Target("auth")
    /\ task.op \in {"replace", "retire"} => \A t \in told : t[1] \notin {Active, Retired}

\* What a preservation has done with the members before the next, and has still
\* to do with the others.
MoveInv ==
    Moving =>
        /\ \A j \in 1..4 : j < task.next => names[Target(Members[j])] = Absent
        /\ task.pc = "barrier" =>
              names[Target(Member)] = Absent /\ names[Forensic(Member)] # Absent
        /\ task.op = "preserve" => \A j \in 1..4 :
              j > task.next \/ (j = task.next /\ task.pc = "look") =>
                  names[Forensic(Members[j])] = Absent

\* What a publication has found, a discarded candidate has lost and a checkpoint
\* is of.
BuildInv ==
    /\ task.op = "publish" /\ task.pc \in {"check", "rename"} =>
          \A m \in MemberNames : names[Target(m)] = Absent
    /\ At("publish", "rename") => names[Candidate("wal")] = Absent
    /\ task.pc = "remove" /\ task.set = "candidate" /\ task.next > 1 =>
          names[Candidate("database")] = Absent
    /\ task.op = "checkpoint" =>
          /\ names[Target("database")] # Absent /\ task.to # Stray
          /\ names[Target("database")].of = task.to

-----------------------------------------------------------------------------
(* What is true of every state of the names that a power loss may leave.    *)

Told(image) == \A t \in told : image[t[1]] = t[2]

Evidence(image) ==
    /\ \A w \in wanted : \/ image[Forensic(w[1])] = w[2]
                         \/ evidence # "complete" /\ image[Target(w[1])] = w[2]
    /\ evidence = "none" => \A m \in MemberNames : image[Forensic(m)] = Absent

Whole(image) ==
    /\ image[Active] # Absent => image[Active].whole
    /\ image[Target("database")] # Absent /\ image[Target("database")].of # Stray =>
          /\ image[Target("database")].whole
          /\ \A m \in {"wal", "shm", "auth"} :
                image[Target(m)] # Absent => image[Target(m)] = image[Target("database")]

\* A candidate that was not folded has its WAL.
Folded(image) ==
    image[Candidate("database")] # Absent /\ ~ image[Candidate("database")].whole =>
        image[Candidate("wal")] # Absent

ImageInv == \A image \in kept : Told(image) /\ Evidence(image) /\ Whole(image) /\ Folded(image)

IInv == TypeInv /\ PlaceInv /\ ToldInv /\ MoveInv /\ BuildInv /\ ImageInv

-----------------------------------------------------------------------------
(* Names.                                                                   *)

LEMMA NamesApart ==
    /\ \A m \in MemberNames : {Target(m), Candidate(m), Forensic(m)} \subseteq Names
    /\ {Active, Retired} \subseteq Names /\ Active # Retired
    /\ \A m, k \in MemberNames :
          /\ Target(m) # Candidate(k) /\ Target(m) # Forensic(k) /\ Candidate(m) # Forensic(k)
          /\ {Active, Retired} \cap {Target(m), Candidate(m), Forensic(m)} = {}
          /\ m # k => Target(m) # Target(k) /\ Candidate(m) # Candidate(k)
                      /\ Forensic(m) # Forensic(k)
BY DEF MemberNames, Target, Candidate, Forensic, Names, Active, Retired

LEMMA MembersAll ==
    /\ Members[1] = "database" /\ Members[2] = "wal" /\ Members[3] = "shm" /\ Members[4] = "auth"
    /\ \A j \in 1..4 : Members[j] \in MemberNames
    /\ \A m \in MemberNames : \E j \in 1..4 : m = Members[j]
    /\ \A i, j \in 1..4 : i # j => Members[i] # Members[j]
    /\ {"database", "wal", "shm", "auth"} = MemberNames
<1>1. /\ Members[1] = "database" /\ Members[2] = "wal" /\ Members[3] = "shm"
      /\ Members[4] = "auth"
  BY DEF Members
<1>2. \A j \in 1..4 : j = 1 \/ j = 2 \/ j = 3 \/ j = 4
  OBVIOUS
<1> QED BY <1>1, <1>2 DEF MemberNames

LEMMA FileTyped ==
    /\ \A of \in Whats, whole \in BOOLEAN : File(of, whole) \in Files
    /\ \A f \in Files : f.of \in Whats /\ f.whole \in BOOLEAN
    /\ \A f \in Files : f.whole => f = File(f.of, TRUE)
    /\ \A of \in Whats, whole \in BOOLEAN :
          File(of, whole).of = of /\ File(of, whole).whole = whole
    /\ Absent \notin Files
BY FileAssumption DEF File, Files, Whats

LEMMA IdleTyped ==
    /\ Idle \in TaskType /\ Idle.op = "none" /\ Idle.pc = "idle"
BY DEF Idle, TaskType

LEMMA BegunTyped ==
    ASSUME NEW op \in {"preserve", "resume"}, NEW t,
           t = [Idle EXCEPT !.op = op, !.pc = "look", !.next = 1]
    PROVE  t \in TaskType /\ t.op = op /\ t.pc = "look" /\ t.next = 1
<1>1. t = [op |-> op, pc |-> "look", next |-> 1, set |-> "target", from |-> Absent,
           to |-> Absent, synced |-> FALSE]
  BY DEF Idle
<1>2. [op |-> op, pc |-> "look", next |-> 1, set |-> "target", from |-> Absent,
           to |-> Absent, synced |-> FALSE] \in TaskType
  <2>1. CASE op = "preserve" BY <2>1 DEF TaskType
  <2>2. CASE op = "resume" BY <2>2 DEF TaskType
  <2> QED BY <2>1, <2>2
<1>3. t \in TaskType
  BY ONLY <1>1, <1>2
<1> QED BY <1>1, <1>3

\* A call goes on to its next step.
LEMMA GotoTyped ==
    ASSUME task \in TaskType, NEW place,
           place \in {"look", "barrier", "remove", "check", "rename", "temp", "read"}, Goto(place)
    PROVE  /\ task' \in TaskType /\ task'.pc = place
           /\ task'.op = task.op /\ task'.next = task.next /\ task'.set = task.set
           /\ task'.from = task.from /\ task'.to = task.to /\ task'.synced = task.synced
<1>1. task' \in TaskType
  BY DEF TaskType, Goto
<1>2. /\ task'.pc = place /\ task'.op = task.op /\ task'.next = task.next
      /\ task'.set = task.set /\ task'.from = task.from /\ task'.to = task.to
      /\ task'.synced = task.synced
  BY DEF TaskType, Goto
<1> QED BY <1>1, <1>2

LEMMA DiscardTyped ==
    ASSUME task \in TaskType, task' = [task EXCEPT !.pc = "remove", !.next = 1]
    PROVE  /\ task' \in TaskType /\ task'.pc = "remove" /\ task'.next = 1
           /\ task'.op = task.op /\ task'.set = task.set
<1>1. task' \in TaskType
  <2>1. 1 \in 0..5
    OBVIOUS
  <2> QED BY <2>1 DEF TaskType
<1>2. task'.pc = "remove" /\ task'.next = 1 /\ task'.op = task.op /\ task'.set = task.set
  BY DEF TaskType
<1> QED BY <1>1, <1>2

-----------------------------------------------------------------------------
(* How a step may change the names and what is told.                        *)

Facts(ns) == {<<n, names[n]>> : n \in ns}

LEMMA ImagesStay ==
    ASSUME ImageInv, kept' \subseteq kept, told' \subseteq told, UNCHANGED <<wanted, evidence>>
    PROVE  ImageInv'
BY DEF ImageInv, Told, Evidence, Whole, Folded

LEMMA ImagesSettle ==
    ASSUME ImageInv, names \in kept, Barrier, NEW ns, told' \subseteq told \cup Facts(ns),
           UNCHANGED <<wanted, evidence>>
    PROVE  ImageInv'
BY DEF ImageInv, Barrier, Facts, Told, Evidence, Whole, Folded

LEMMA ImagesGrow ==
    ASSUME ImageInv, NEW changed, Visible(changed), UNCHANGED <<told, wanted, evidence>>,
           Told(changed), Evidence(changed), Whole(changed), Folded(changed)
    PROVE  ImageInv'
BY DEF ImageInv, Visible, Told, Evidence, Whole, Folded

-----------------------------------------------------------------------------
(* Types.                                                                   *)

LEMMA MemberTyped ==
    ASSUME TypeInv, PlaceInv, task.next <= 4, Moving \/ task.pc = "remove"
    PROVE  /\ Member \in MemberNames /\ task.next \in 1..4
           /\ {Target(Member), Forensic(Member), <<task.set, Member>>} \subseteq Names
<1>1. task.next \in 1..4
  BY DEF TypeInv, TaskType, PlaceInv
<1>2. Member \in MemberNames
  BY <1>1, MembersAll DEF Member
<1> QED BY <1>1, <1>2, NamesApart DEF TypeInv, TaskType, Names, Target, Forensic

LEMMA VisibleTyped ==
    ASSUME TypeOK, NEW changed \in [Names -> Files \cup {Absent}], Visible(changed)
    PROVE  /\ names' \in [Names -> Files \cup {Absent}] /\ names' \in kept'
           /\ kept' \subseteq [Names -> Files \cup {Absent}]
BY DEF TypeOK, Visible

LEMMA RenameTyped ==
    ASSUME TypeOK, NEW from \in Names, NEW to \in Names
    PROVE  Rename(from, to) \in [Names -> Files \cup {Absent}]
BY DEF TypeOK, Rename

\* A step that moves no file.
LEMMA UnmovedTyped ==
    ASSUME TypeInv, Unmoved \/ Barrier, task' \in TaskType, built' \in 0..MaxBuilds,
           faults' \in 0..MaxFaults, evidence' \in {"none", "allocated", "complete"},
           told' \subseteq told \cup Facts(Names), wanted' \subseteq MemberNames \X Files
    PROVE  TypeInv'
<1>1. Facts(Names) \subseteq Names \X (Files \cup {Absent})
  BY DEF Facts, TypeInv, TypeOK
<1>2. task'.next \in 0..5 /\ task'.set \in {"target", "candidate"}
  BY DEF TaskType
<1>3. names' = names /\ names' \in kept' /\ kept' \subseteq kept
  BY DEF TypeInv, TypeOK, Unmoved, Barrier
<1> QED BY <1>1, <1>2, <1>3 DEF TypeInv, TypeOK

LEMMA MovedTyped ==
    ASSUME TypeInv, NEW changed \in [Names -> Files \cup {Absent}], Visible(changed),
           task' \in TaskType, built' \in 0..MaxBuilds, UNCHANGED <<evidence, wanted, told, faults>>
    PROVE  TypeInv'
<1>1. task'.next \in 0..5 /\ task'.set \in {"target", "candidate"}
  BY DEF TaskType
<1>2. /\ names' \in [Names -> Files \cup {Absent}] /\ names' \in kept'
      /\ kept' \subseteq [Names -> Files \cup {Absent}]
  BY VisibleTyped DEF TypeInv
<1> QED BY <1>1, <1>2 DEF TypeInv, TypeOK

\* A step that changes the call in progress and no file.
LEMMA TaskOnly ==
    ASSUME IInv, Unmoved, task' \in TaskType, told' \subseteq told, faults' \in 0..MaxFaults,
           UNCHANGED Host
    PROVE  TypeInv' /\ ImageInv'
<1>1. TypeInv'
  BY UnmovedTyped DEF IInv, TypeInv, TypeOK, Host
<1>2. ImageInv'
  BY ImagesStay DEF IInv, Unmoved, Host
<1> QED BY <1>1, <1>2

\* A call ends, whatever the reason, and tells of nothing.
LEMMA EndKeeps ==
    ASSUME IInv, Unmoved, task' = Idle, told' \subseteq told, faults' \in 0..MaxFaults,
           UNCHANGED Host
    PROVE  IInv'
<1> USE IdleTyped DEF IInv, Host
<1>1. TypeInv' /\ ImageInv'
  BY TaskOnly
<1>2. PlaceInv'
  BY DEF PlaceInv, Moving
<1>3. ToldInv'
  BY DEF ToldInv
<1>4. MoveInv' /\ BuildInv'
  BY DEF MoveInv, BuildInv, Moving, At
<1> QED BY <1>1, <1>2, <1>3, <1>4

\* A call ends with the barrier and tells of fixed names.
LEMMA EndToldKeeps ==
    ASSUME IInv, Barrier, task' = Idle, UNCHANGED <<Host, faults>>, NEW ns,
           ns \subseteq {Target("database"), Target("auth"), Active, Retired},
           evidence = "allocated" => ns \subseteq {Active, Retired},
           told' = told \cup Facts(ns)
    PROVE  IInv'
<1> USE IdleTyped DEF IInv, Host
<1>1. TypeInv'
  <2>1. Facts(ns) \subseteq Facts(Names)
    BY NamesApart DEF Facts, MemberNames
  <2> QED BY <2>1, UnmovedTyped DEF TypeInv, TypeOK
<1>2. ImageInv'
  BY ImagesSettle DEF TypeInv, TypeOK
<1>3. PlaceInv'
  BY DEF PlaceInv, Moving
<1>4. ToldInv'
  <2>1. \A t \in told' : t \in told \/ t[1] \in ns
    BY DEF Facts
  <2>2. {Active, Retired} \cap {Target("database"), Target("auth")} = {}
    BY NamesApart DEF MemberNames
  <2> QED BY <2>1, <2>2 DEF ToldInv
<1>5. MoveInv' /\ BuildInv'
  BY DEF MoveInv, BuildInv, Moving, At
<1> QED BY <1>1, <1>2, <1>3, <1>4, <1>5

-----------------------------------------------------------------------------
(* Preservation.                                                            *)

LEMMA BeginPreserveKeeps == ASSUME IInv, BeginPreserve PROVE IInv'
<1> USE IdleTyped DEF IInv
<1>1. /\ task = Idle /\ evidence = "none" /\ evidence' = "allocated" /\ Unmoved
      /\ task' = [Idle EXCEPT !.op = "preserve", !.pc = "look", !.next = 1]
      /\ told' = {t \in told : t[1] \notin {Target(m) : m \in MemberNames}}
      /\ UNCHANGED <<built, faults>>
  BY DEF BeginPreserve, Begin, Forget
<1>2. task' \in TaskType /\ task'.op = "preserve" /\ task'.pc = "look" /\ task'.next = 1
  BY <1>1, BegunTyped
<1>3. wanted' \subseteq MemberNames \X Files
      /\ \A w \in wanted' : w[1] \in MemberNames /\ OnDisk(Target(w[1])) /\ w[2] = names[Target(w[1])]
  <2>1. wanted' = {<<m, names[Target(m)]>> : m \in
                    {k \in MemberNames : Present(Target(k)) /\ OnDisk(Target(k))}}
    BY DEF BeginPreserve
  <2>2. \A m \in MemberNames : Present(Target(m)) => names[Target(m)] \in Files
    BY NamesApart DEF TypeInv, TypeOK, Present
  <2> QED BY <2>1, <2>2
<1>4. TypeInv'
  BY <1>1, <1>2, <1>3, UnmovedTyped DEF TypeInv, TypeOK
<1>5. PlaceInv'
  BY <1>1, <1>2 DEF PlaceInv, Moving
<1>6. ToldInv'
  BY <1>1, <1>2, MembersAll DEF ToldInv
<1>7. MoveInv'
  BY <1>1, <1>2, MembersAll DEF MoveInv, Moving, ImageInv, Evidence, TypeInv, TypeOK,
      Unmoved
<1>8. BuildInv'
  BY <1>1, <1>2 DEF BuildInv, At
<1>9. ImageInv'
  <2> SUFFICES ASSUME NEW image \in kept
               PROVE  Told(image)' /\ Evidence(image)' /\ Whole(image) /\ Folded(image)
    BY <1>1 DEF ImageInv, Unmoved, Whole, Folded
  <2>1. Told(image)'
    BY <1>1 DEF ImageInv, Told
  <2>2. Evidence(image)'
    BY <1>1, <1>3 DEF Evidence, OnDisk
  <2> QED BY <2>1, <2>2 DEF ImageInv
<1> QED BY <1>4, <1>5, <1>6, <1>7, <1>8, <1>9

LEMMA BeginResumeKeeps == ASSUME IInv, BeginResume PROVE IInv'
<1> USE IdleTyped DEF IInv
<1>1. /\ task = Idle /\ evidence = "allocated" /\ Unmoved
      /\ task' = [Idle EXCEPT !.op = "resume", !.pc = "look", !.next = 1]
      /\ UNCHANGED <<built, evidence, wanted, told, faults>>
  BY DEF BeginResume, Begin, Host
<1>2. task' \in TaskType /\ task'.op = "resume" /\ task'.pc = "look" /\ task'.next = 1
  BY <1>1, BegunTyped
<1>3. TypeInv'
  BY <1>1, <1>2, UnmovedTyped DEF TypeInv, TypeOK
<1>4. PlaceInv'
  BY <1>1, <1>2 DEF PlaceInv, Moving
<1>5. ToldInv'
  BY <1>1, <1>2 DEF ToldInv
<1>6. MoveInv'
  BY <1>1, <1>2 DEF MoveInv, Moving, Unmoved
<1>7. BuildInv'
  BY <1>1, <1>2 DEF BuildInv, At
<1>8. ImageInv'
  BY <1>1, ImagesStay DEF Unmoved
<1> QED BY <1>3, <1>4, <1>5, <1>6, <1>7, <1>8

LEMMA SkipKeeps == ASSUME IInv, Skip PROVE IInv'
<1> USE DEF IInv
<1>1. /\ Moving /\ task.pc = "look" /\ task.next <= 4 /\ names[Target(Member)] = Absent
      /\ Unmoved /\ task' = [task EXCEPT !.next = @ + 1]
      /\ UNCHANGED <<built, evidence, wanted, told, faults>>
  BY DEF Skip, Host, Present
<1>2. task.next \in 1..4 /\ Member = Members[task.next]
  BY <1>1, MemberTyped DEF Member
<1>3. /\ task' \in TaskType /\ task'.op = task.op /\ task'.pc = "look" /\ task'.next = task.next + 1
      /\ Moving'
  BY <1>1, <1>2 DEF TypeInv, TaskType, Moving
<1>4. TypeInv'
  BY <1>1, <1>3, UnmovedTyped DEF TypeInv, TypeOK
<1>5. PlaceInv'
  BY <1>1, <1>2, <1>3 DEF PlaceInv, Moving
<1>6. ToldInv'
  BY <1>1, <1>3 DEF ToldInv
<1>7. MoveInv'
  BY <1>1, <1>2, <1>3 DEF MoveInv, Unmoved
<1>8. BuildInv'
  BY <1>1, <1>3 DEF BuildInv, At, Moving
<1>9. ImageInv'
  BY <1>1, ImagesStay DEF Unmoved
<1> QED BY <1>4, <1>5, <1>6, <1>7, <1>8, <1>9

\* What processes see is one of the images.
LEMMA NamesGood ==
    ASSUME IInv
    PROVE  Told(names) /\ Evidence(names) /\ Whole(names) /\ Folded(names)
BY DEF IInv, ImageInv, TypeInv, TypeOK

LEMMA ResumeRefusedKeeps == ASSUME IInv, ResumeRefused PROVE IInv'
BY EndKeeps DEF ResumeRefused, Return, IInv, TypeInv, TypeOK, Host

LEMMA RenameMoves ==
    ASSUME TypeOK, NEW from \in Names, NEW to \in Names, from # to
    PROVE  /\ Rename(from, to)[to] = names[from] /\ Rename(from, to)[from] = Absent
           /\ \A n \in Names : n # from /\ n # to => Rename(from, to)[n] = names[n]
BY DEF TypeOK, Rename

LEMMA MoveKeeps == ASSUME IInv, Move PROVE IInv'
<1> USE DEF IInv
<1> DEFINE T == Target(Member)
           F == Forensic(Member)
           changed == Rename(T, F)
<1>1. /\ Moving /\ task.pc = "look" /\ task.next <= 4 /\ names[T] # Absent /\ ~Both
      /\ Visible(changed) /\ task' = [task EXCEPT !.pc = "barrier"]
      /\ UNCHANGED <<built, evidence, wanted, told, faults>>
  BY DEF Move, Host, Present, Goto
<1>2. /\ task.next \in 1..4 /\ Member \in MemberNames /\ Member = Members[task.next]
      /\ T \in Names /\ F \in Names /\ T # F
  BY <1>1, MemberTyped, NamesApart DEF Member
<1>3. /\ task' \in TaskType /\ task'.op = task.op /\ task'.pc = "barrier"
      /\ task'.next = task.next /\ Moving' /\ Member' = Member
  BY <1>1 DEF TypeInv, TaskType, Moving, Member
<1>4. /\ changed[F] = names[T] /\ changed[T] = Absent
      /\ \A n \in Names : n # T /\ n # F => changed[n] = names[n]
      /\ changed \in [Names -> Files \cup {Absent}]
  BY <1>2, RenameMoves, RenameTyped DEF TypeInv
<1>5. names' = changed
  BY <1>1 DEF Visible
<1>6. names[F] = Absent
  <2>1. CASE task.op = "preserve"
    BY <2>1, <1>1, <1>2 DEF MoveInv
  <2>2. CASE task.op = "resume"
    BY <2>2, <1>1 DEF Both, Present
  <2> QED BY <2>1, <2>2, <1>1 DEF Moving
<1>7. evidence = "allocated"
  BY <1>1 DEF PlaceInv
<1>8. \A m \in MemberNames :
         /\ Target(m) # T => changed[Target(m)] = names[Target(m)]
         /\ Forensic(m) # F => changed[Forensic(m)] = names[Forensic(m)]
         /\ changed[Candidate(m)] = names[Candidate(m)]
  BY <1>2, <1>4, NamesApart
<1>9. changed[Active] = names[Active]
  BY <1>2, <1>4, NamesApart
<1> HIDE DEF T, F, changed
<1>10. TypeInv'
  BY <1>1, <1>3, <1>4, MovedTyped DEF TypeInv, TypeOK
<1>11. PlaceInv'
  BY <1>1, <1>2, <1>3 DEF PlaceInv, Moving
<1>12. ToldInv'
  BY <1>1, <1>3 DEF ToldInv
<1>13. MoveInv'
  <2>1. \A j \in 1..4 : j < task.next => changed[Target(Members[j])] = Absent
    BY <1>1, <1>4, <1>8, MembersAll DEF MoveInv
  <2>2. \A j \in 1..4 : j > task.next =>
           Forensic(Members[j]) # F /\ Members[j] \in MemberNames
    BY <1>2, MembersAll, NamesApart DEF F
  <2>3. task.op = "preserve" =>
           \A j \in 1..4 : j > task.next => changed[Forensic(Members[j])] = Absent
    BY <1>1, <1>8, <2>2 DEF MoveInv
  <2>4. changed[Target(Member)] = Absent /\ changed[Forensic(Member)] # Absent
    BY <1>1, <1>4 DEF T, F
  <2> QED BY <2>1, <2>3, <2>4, <1>2, <1>3, <1>5 DEF MoveInv
<1>14. BuildInv'
  BY <1>1, <1>3 DEF BuildInv, At, Moving
<1>15. ImageInv'
  <2>1. Told(changed)
    <3> SUFFICES ASSUME NEW t \in told PROVE changed[t[1]] = t[2]
      BY DEF Told
    <3>1. t[1] \in Names /\ names[t[1]] = t[2]
      BY NamesGood DEF Told, TypeInv, TypeOK
    <3>2. t[1] # T
      BY <1>2, <1>7, NamesApart, MembersAll DEF ToldInv, T
    <3>3. t[1] # F
      <4>1. CASE t[1] \in {Target("database"), Target("auth"), Active, Retired}
        BY <4>1, <1>2, NamesApart, MembersAll DEF F
      <4>2. CASE t[2] # Absent
        BY <4>2, <1>6, <3>1
      <4> QED BY <4>1, <4>2 DEF ToldInv
    <3> QED BY <3>1, <3>2, <3>3, <1>4
  <2>2. Evidence(changed)
    <3> SUFFICES ASSUME NEW w \in wanted
                 PROVE  changed[Forensic(w[1])] = w[2] \/ changed[Target(w[1])] = w[2]
      BY <1>7 DEF Evidence
    <3>1. /\ w[1] \in MemberNames /\ w[2] # Absent
          /\ names[Forensic(w[1])] = w[2] \/ names[Target(w[1])] = w[2]
      BY NamesGood, FileTyped DEF Evidence, TypeInv
    <3>2. CASE w[1] = Member
      BY <3>1, <3>2, <1>4, <1>6 DEF T, F
    <3>3. CASE w[1] # Member
      BY <3>1, <3>3, <1>2, <1>8, NamesApart DEF T, F
    <3> QED BY <3>2, <3>3
  <2>3. Whole(changed)
    BY <1>4, <1>8, <1>9, NamesGood, MembersAll DEF Whole
  <2>4. Folded(changed)
    BY <1>8, NamesGood, MembersAll DEF Folded
  <2> QED BY <1>1, <2>1, <2>2, <2>3, <2>4, ImagesGrow
<1> QED BY <1>10, <1>11, <1>12, <1>13, <1>14, <1>15

LEMMA MovedKeeps == ASSUME IInv, Moved PROVE IInv'
<1> USE DEF IInv
<1>1. /\ Moving /\ task.pc = "barrier" /\ Barrier
      /\ told' = told \cup Facts({Forensic(Member)})
      /\ task' = [task EXCEPT !.pc = "look", !.next = @ + 1]
      /\ UNCHANGED <<built, evidence, wanted, faults>>
  BY DEF Moved, Host, Facts
<1>2. /\ task.next \in 1..4 /\ Member \in MemberNames /\ Member = Members[task.next]
      /\ evidence = "allocated" /\ Forensic(Member) \in Names
  BY <1>1, MemberTyped, NamesApart DEF PlaceInv, Member
<1>3. /\ task' \in TaskType /\ task'.op = task.op /\ task'.pc = "look"
      /\ task'.next = task.next + 1 /\ Moving'
  <2>1. task \in TaskType /\ task.next + 1 \in 0..5
    BY <1>2 DEF TypeInv
  <2>2. /\ task'.op = task.op /\ task'.pc = "look" /\ task'.next = task.next + 1
    BY <1>1, <2>1 DEF TaskType
  <2>3. task' \in TaskType
    BY <1>1, <2>1 DEF TaskType
  <2> QED BY <1>1, <2>2, <2>3 DEF Moving
<1>4. TypeInv'
  <2>1. Facts({Forensic(Member)}) \subseteq Facts(Names)
    BY <1>2 DEF Facts
  <2> QED BY <1>1, <1>3, <2>1, UnmovedTyped DEF TypeInv, TypeOK
<1>5. PlaceInv'
  BY <1>1, <1>2, <1>3 DEF PlaceInv, Moving
<1>6. ToldInv'
  <2>1. names[Forensic(Member)] # Absent
    BY <1>1 DEF MoveInv
  <2>2. \A t \in told' : t \in told \/ (t[1] = Forensic(Member) /\ t[2] # Absent)
    BY <1>1, <2>1 DEF Facts
  <2>3. Forensic(Member) \notin {Target("database"), Target("auth")}
    BY <1>2, NamesApart, MembersAll
  <2> QED BY <1>1, <1>2, <1>3, <2>2, <2>3 DEF ToldInv, Moving
<1>7. MoveInv'
  <2>1. \A j \in 1..4 : j < task.next + 1 => names[Target(Members[j])] = Absent
    BY <1>1, <1>2 DEF MoveInv
  <2> QED BY <1>1, <1>2, <1>3, <2>1 DEF MoveInv, Barrier
<1>8. BuildInv'
  BY <1>1, <1>3 DEF BuildInv, At, Moving
<1>9. ImageInv'
  BY <1>1, ImagesSettle DEF TypeInv, TypeOK
<1> QED BY <1>4, <1>5, <1>6, <1>7, <1>8, <1>9

LEMMA PreservedKeeps == ASSUME IInv, Preserved PROVE IInv'
<1> USE IdleTyped DEF IInv
<1>1. /\ Moving /\ task.pc = "look" /\ task.next > 4 /\ evidence' = "complete"
      /\ task' = Idle /\ told' = told /\ Barrier /\ UNCHANGED <<built, wanted, faults>>
  BY DEF Preserved, Return
<1>2. TypeInv'
  BY <1>1, UnmovedTyped DEF TypeInv, TypeOK
<1>3. PlaceInv'
  BY <1>1 DEF PlaceInv, Moving
<1>4. ToldInv'
  BY <1>1 DEF ToldInv
<1>5. MoveInv' /\ BuildInv'
  BY <1>1 DEF MoveInv, BuildInv, Moving, At
<1>6. \A m \in MemberNames : names[Target(m)] = Absent
  <2>1. \A j \in 1..4 : j < task.next
    BY <1>1 DEF TypeInv, TaskType
  <2> QED BY <1>1, <2>1, MembersAll DEF MoveInv
<1>7. Evidence(names)'
  <2>1. \A w \in wanted : names[Forensic(w[1])] = w[2]
    BY <1>6, NamesGood, FileTyped DEF Evidence, TypeInv
  <2> QED BY <1>1, <2>1 DEF Evidence, Barrier
<1>8. ImageInv'
  BY <1>1, <1>7, NamesGood DEF ImageInv, Barrier, Told, Whole, Folded
<1> QED BY <1>2, <1>3, <1>4, <1>5, <1>8

LEMMA StraysKeeps == ASSUME IInv, Strays PROVE IInv'
<1> USE IdleTyped DEF IInv
<1> DEFINE D == Target("database")
           changed == [names EXCEPT ![D] = File(Stray, TRUE)]
<1>1. /\ task = Idle /\ evidence = "allocated" /\ names[D] = Absent /\ Visible(changed)
      /\ UNCHANGED <<task, built, evidence, wanted, told, faults>>
  BY DEF Strays, Present, Host
<1>2. D \in Names /\ "database" \in MemberNames
  BY NamesApart, MembersAll
<1>3. File(Stray, TRUE) \in Files /\ File(Stray, TRUE).of = Stray
  BY FileTyped DEF Whats
<1>4. /\ changed \in [Names -> Files \cup {Absent}] /\ changed[D] = File(Stray, TRUE)
      /\ \A n \in Names : n # D => changed[n] = names[n]
  BY <1>2, <1>3 DEF TypeInv, TypeOK
<1>5. /\ \A m \in MemberNames : /\ changed[Forensic(m)] = names[Forensic(m)]
                                /\ changed[Candidate(m)] = names[Candidate(m)]
                                /\ m # "database" => changed[Target(m)] = names[Target(m)]
      /\ changed[Active] = names[Active]
  BY <1>2, <1>4, NamesApart
<1> HIDE DEF changed
<1>6. TypeInv'
  BY <1>1, <1>4, MovedTyped DEF TypeInv, TypeOK
<1>7. PlaceInv' /\ ToldInv' /\ MoveInv' /\ BuildInv'
  BY <1>1 DEF PlaceInv, ToldInv, MoveInv, BuildInv, Moving, At
<1>8. ImageInv'
  <2>1. Told(changed)
    BY <1>1, <1>4, NamesGood DEF Told, ToldInv, TypeInv, TypeOK
  <2>2. Evidence(changed)
    <3>1. \A w \in wanted : /\ w[1] \in MemberNames /\ w[2] # Absent
                            /\ \/ names[Forensic(w[1])] = w[2]
                               \/ names[Target(w[1])] = w[2]
      BY NamesGood, FileTyped DEF Evidence, TypeInv
    <3>2. \A w \in wanted : changed[Forensic(w[1])] = w[2] \/ changed[Target(w[1])] = w[2]
      BY <1>1, <1>5, <3>1
    <3> QED BY <1>1, <3>2 DEF Evidence
  <2>3. Whole(changed)
    BY <1>3, <1>4, <1>5, NamesGood DEF Whole
  <2>4. Folded(changed)
    BY <1>5, NamesGood, MembersAll DEF Folded
  <2> QED BY <1>1, <2>1, <2>2, <2>3, <2>4, ImagesGrow
<1> QED BY <1>6, <1>7, <1>8

-----------------------------------------------------------------------------
(* Removal and publication.                                                 *)

\* Names of which nothing is told may change.
LEMMA ToldElsewhere ==
    ASSUME IInv, NEW changed, NEW ns, \A n \in Names : n \notin ns => changed[n] = names[n],
           \A t \in told : t[1] \notin ns
    PROVE  Told(changed)
BY NamesGood DEF Told, IInv, TypeInv, TypeOK

\* Beside no preservation, only forensic names hold evidence.
LEMMA EvidenceElsewhere ==
    ASSUME IInv, evidence # "allocated", NEW changed,
           \A m \in MemberNames : changed[Forensic(m)] = names[Forensic(m)]
    PROVE  Evidence(changed)
<1>1. \A w \in wanted : evidence = "complete" /\ w[1] \in MemberNames
  BY DEF IInv, PlaceInv, TypeInv, TypeOK
<1>2. \A w \in wanted : changed[Forensic(w[1])] = w[2]
  BY <1>1, NamesGood DEF Evidence
<1> QED BY <1>2, NamesGood DEF Evidence

LEMMA BeginRemoveKeeps == ASSUME IInv, BeginRemove PROVE IInv'
<1> USE DEF IInv
<1>1. /\ task = Idle /\ evidence # "allocated" /\ Unmoved
      /\ told' = {t \in told : t[1] \notin {Target(m) : m \in MemberNames}}
      /\ task' = [Idle EXCEPT !.op = "remove", !.pc = "remove", !.next = 1, !.set = "target"]
      /\ UNCHANGED <<Host, faults>>
  BY DEF BeginRemove, Begin, Forget
<1>2. /\ task' \in TaskType /\ task'.op = "remove" /\ task'.pc = "remove" /\ task'.next = 1
      /\ task'.set = "target"
  <2>1. task' = [op |-> "remove", pc |-> "remove", next |-> 1, set |-> "target",
                 from |-> Absent, to |-> Absent, synced |-> FALSE]
    BY <1>1 DEF Idle
  <2> QED BY <2>1 DEF TaskType
<1>3. TypeInv' /\ ImageInv'
  BY <1>1, <1>2, TaskOnly DEF TypeInv, TypeOK
<1>4. PlaceInv'
  BY <1>1, <1>2 DEF PlaceInv, Moving, Host
<1>5. ToldInv'
  BY <1>1, <1>2, MembersAll DEF ToldInv, Host
<1>6. MoveInv' /\ BuildInv'
  BY <1>1, <1>2 DEF MoveInv, BuildInv, Moving, At
<1> QED BY <1>3, <1>4, <1>5, <1>6

LEMMA RemoveOneKeeps == ASSUME IInv, RemoveOne PROVE IInv'
<1> USE DEF IInv
<1> DEFINE R == <<task.set, Member>>
           changed == [names EXCEPT ![R] = Absent]
<1>1. /\ task.pc = "remove" /\ task.next <= 4 /\ task' = [task EXCEPT !.next = @ + 1]
      /\ Visible(changed) \/ (Unmoved /\ names[R] = Absent)
      /\ UNCHANGED <<Host, told, faults>>
  BY DEF RemoveOne, Present
<1>2. /\ task.next \in 1..4 /\ Member \in MemberNames /\ Member = Members[task.next]
      /\ R \in Names /\ task.op \in {"remove", "publish"} /\ evidence # "allocated"
      /\ task \in TaskType /\ task.set \in {"target", "candidate"}
  BY <1>1, MemberTyped DEF PlaceInv, Member, TypeInv, TypeOK
<1>3. /\ task' \in TaskType /\ task'.op = task.op /\ task'.pc = "remove"
      /\ task'.set = task.set /\ task'.next = task.next + 1
  BY <1>1, <1>2 DEF TaskType
<1>4. /\ changed \in [Names -> Files \cup {Absent}] /\ changed[R] = Absent
      /\ \A n \in Names : n # R => changed[n] = names[n]
  BY <1>2 DEF TypeInv, TypeOK
<1>5. \/ task.set = "target" /\ R = Target(Member)
      \/ task.set = "candidate" /\ R = Candidate(Member)
  BY <1>2 DEF Target, Candidate
<1>6. names'[R] = Absent /\ \A n \in Names : n # R => names'[n] = names[n]
  BY <1>1, <1>4 DEF Visible, Unmoved
<1> HIDE DEF R, changed
<1>7. TypeInv'
  <2>1. CASE Visible(changed)
    BY <2>1, <1>1, <1>3, <1>4, MovedTyped DEF TypeInv, TypeOK, Host
  <2>2. CASE Unmoved
    BY <2>2, <1>1, <1>3, TaskOnly DEF TypeInv, TypeOK
  <2> QED BY <2>1, <2>2, <1>1
<1>8. PlaceInv'
  BY <1>1, <1>2, <1>3 DEF PlaceInv, Moving, Host
<1>9. ToldInv'
  BY <1>1, <1>2, <1>3 DEF ToldInv, Host
<1>10. MoveInv'
  BY <1>2, <1>3 DEF MoveInv, Moving
<1>11. task.set = "candidate" => names'[Candidate("database")] = Absent
  <2> HAVE task.set = "candidate"
  <2>1. R = Candidate(Member) /\ Candidate("database") \in Names
    BY <1>5, NamesApart, MembersAll
  <2>2. CASE task.next = 1
    BY <2>1, <2>2, <1>2, <1>6, MembersAll
  <2>3. CASE task.next > 1
    BY <2>1, <2>3, <1>1, <1>6 DEF BuildInv
  <2> QED BY <2>2, <2>3, <1>2
<1>12. BuildInv'
  BY <1>2, <1>3, <1>11 DEF BuildInv, At
<1>13. ImageInv'
  <2>1. CASE Unmoved
    BY <2>1, <1>1, <1>3, TaskOnly DEF TypeInv, TypeOK
  <2>2. CASE Visible(changed)
    <3>1. \A m \in MemberNames :
             /\ changed[Forensic(m)] = names[Forensic(m)]
             /\ changed[Target(m)] \in {names[Target(m)], Absent}
             /\ changed[Candidate(m)] \in {names[Candidate(m)], Absent}
             /\ task.set = "target" => changed[Candidate(m)] = names[Candidate(m)]
      BY <1>2, <1>4, <1>5, NamesApart
    <3>2. changed[Active] = names[Active]
      BY <1>2, <1>4, <1>5, NamesApart
    <3>3. \A t \in told : t[1] # R
      <4>1. /\ R \notin {Active, Retired} /\ \A m \in MemberNames : R # Forensic(m)
        BY <1>2, <1>5, NamesApart
      <4>2. \A t \in told : t[1] \notin {Target("database"), Target("auth")}
        BY <1>2 DEF ToldInv
      <4> QED BY <4>1, <4>2 DEF ToldInv
    <3>4. Told(changed)
      <4>1. \A n \in Names : n \notin {R} => changed[n] = names[n]
        BY <1>4
      <4>2. \A t \in told : t[1] \notin {R}
        BY <3>3
      <4> QED BY <4>1, <4>2, ToldElsewhere
    <3>5. Evidence(changed)
      BY <1>2, <3>1, EvidenceElsewhere
    <3>6. Whole(changed)
      BY <3>1, <3>2, NamesGood, MembersAll DEF Whole
    <3>7. Folded(changed)
      <4>1. CASE task.set = "target"
        BY <4>1, <3>1, NamesGood, MembersAll DEF Folded
      <4>2. CASE task.set = "candidate"
        BY <4>2, <2>2, <1>11 DEF Folded, Visible
      <4> QED BY <4>1, <4>2, <1>2
    <3> QED BY <2>2, <1>1, <3>4, <3>5, <3>6, <3>7, ImagesGrow DEF Host
  <2> QED BY <2>1, <2>2, <1>1
<1> QED BY <1>7, <1>8, <1>9, <1>10, <1>12, <1>13

LEMMA RemovedKeeps == ASSUME IInv, Removed PROVE IInv'
BY EndKeeps DEF Removed, Return, IInv, TypeInv, TypeOK

LEMMA BeginPublishKeeps == ASSUME IInv, BeginPublish PROVE IInv'
<1> USE DEF IInv
<1>1. /\ task = Idle /\ evidence # "allocated" /\ Unmoved
      /\ \A m \in MemberNames : names[Target(m)] = Absent
      /\ told' = {t \in told : t[1] \notin {Target(m) : m \in MemberNames}}
      /\ task' = [Idle EXCEPT !.op = "publish", !.pc = "check", !.set = "candidate"]
      /\ UNCHANGED <<Host, faults>>
  BY DEF BeginPublish, Begin, Forget, AnyExists, Present, Target
<1>2. task' \in TaskType /\ task'.op = "publish" /\ task'.pc = "check" /\ task'.set = "candidate"
  <2>1. task' = [op |-> "publish", pc |-> "check", next |-> 0, set |-> "candidate",
                 from |-> Absent, to |-> Absent, synced |-> FALSE]
    BY <1>1 DEF Idle
  <2>2. task'.op = "publish" /\ task'.pc = "check" /\ task'.set = "candidate"
    BY <2>1
  <2>3. task' \in TaskType
    BY <2>1 DEF TaskType
  <2> QED BY <2>2, <2>3
<1>3. TypeInv' /\ ImageInv'
  BY <1>1, <1>2, TaskOnly DEF TypeInv, TypeOK
<1>4. PlaceInv'
  BY <1>1, <1>2 DEF PlaceInv, Moving, Host
<1>5. ToldInv'
  BY <1>1, <1>2, MembersAll DEF ToldInv, Host
<1>6. MoveInv' /\ BuildInv'
  BY <1>1, <1>2 DEF MoveInv, BuildInv, Moving, At, Unmoved
<1> QED BY <1>3, <1>4, <1>5, <1>6

LEMMA DiscardCandidateKeeps == ASSUME IInv, DiscardCandidate PROVE IInv'
<1> USE DEF IInv
<1>1. /\ task.op = "publish" /\ Unmoved /\ task' = [task EXCEPT !.pc = "remove", !.next = 1]
      /\ UNCHANGED <<Host, told, faults>>
  BY DEF DiscardCandidate, At
<1>2. task' \in TaskType /\ task'.op = "publish" /\ task'.pc = "remove" /\ task'.next = 1
      /\ task'.set = task.set
  BY <1>1, DiscardTyped DEF TypeInv
<1>3. TypeInv' /\ ImageInv'
  BY <1>1, <1>2, TaskOnly DEF TypeInv, TypeOK
<1>4. PlaceInv' /\ ToldInv'
  BY <1>1, <1>2 DEF PlaceInv, ToldInv, Moving, Host
<1>5. MoveInv' /\ BuildInv'
  BY <1>1, <1>2 DEF MoveInv, BuildInv, Moving, At
<1> QED BY <1>3, <1>4, <1>5

LEMMA DropCandidateCheckpointKeeps == ASSUME IInv, DropCandidateCheckpoint PROVE IInv'
<1> USE DEF IInv
<1> DEFINE C == Candidate("auth")
           changed == [names EXCEPT ![C] = Absent]
<1>1. /\ task.op = "publish" /\ task.pc = "check" /\ names[Candidate("wal")] = Absent
      /\ Goto("rename")
      /\ Visible(changed) \/ Unmoved
      /\ UNCHANGED <<Host, told, faults>>
  BY DEF DropCandidateCheckpoint, At, RetainedSidecars, Sidecars, Present
<1>2. task' \in TaskType /\ task'.op = "publish" /\ task'.pc = "rename" /\ task'.set = task.set
  BY <1>1, GotoTyped DEF TypeInv
<1>3. C \in Names
  BY NamesApart, MembersAll
<1>4. /\ changed \in [Names -> Files \cup {Absent}]
      /\ \A n \in Names : n # C => changed[n] = names[n]
  BY <1>3 DEF TypeInv, TypeOK
<1>5. /\ \A m \in MemberNames : /\ changed[Forensic(m)] = names[Forensic(m)]
                                /\ changed[Target(m)] = names[Target(m)]
                                /\ m # "auth" => changed[Candidate(m)] = names[Candidate(m)]
      /\ changed[Active] = names[Active]
  BY <1>3, <1>4, NamesApart, MembersAll
<1> HIDE DEF C, changed
<1>6. PlaceInv' /\ ToldInv'
  BY <1>1, <1>2 DEF PlaceInv, ToldInv, Moving, Host
<1>7. MoveInv'
  BY <1>2 DEF MoveInv, Moving
<1>8. BuildInv'
  <2>1. \A m \in MemberNames : names'[Target(m)] = names[Target(m)]
    BY <1>1, <1>5 DEF Visible, Unmoved
  <2>2. names'[Candidate("wal")] = Absent
    BY <1>1, <1>5, MembersAll DEF Visible, Unmoved
  <2> QED BY <1>1, <1>2, <2>1, <2>2 DEF BuildInv, At
<1>9. TypeInv' /\ ImageInv'
  <2>1. CASE Unmoved
    BY <2>1, <1>1, <1>2, TaskOnly DEF TypeInv, TypeOK
  <2>2. CASE Visible(changed)
    <3>1. TypeInv'
      BY <2>2, <1>1, <1>2, <1>4, MovedTyped DEF TypeInv, TypeOK, Host
    <3>2. Told(changed)
      <4>1. \A n \in Names : n \notin {C} => changed[n] = names[n]
        BY <1>4
      <4>2. \A t \in told : t[1] \notin {C}
        BY NamesApart, MembersAll DEF ToldInv, C
      <4> QED BY <4>1, <4>2, ToldElsewhere
    <3>3. Evidence(changed)
      BY <1>1, <1>5, EvidenceElsewhere DEF PlaceInv
    <3>4. Whole(changed) /\ Folded(changed)
      BY <1>5, NamesGood, MembersAll DEF Whole, Folded
    <3> QED BY <2>2, <1>1, <3>1, <3>2, <3>3, <3>4, ImagesGrow DEF Host
  <2> QED BY <2>1, <2>2, <1>1
<1> QED BY <1>6, <1>7, <1>8, <1>9

LEMMA RenameCandidateKeeps == ASSUME IInv, RenameCandidate PROVE IInv'
<1> USE DEF IInv
<1> DEFINE C == Candidate("database")
           D == Target("database")
           changed == Rename(C, D)
<1>1. /\ task.op = "publish" /\ task.pc = "rename" /\ Visible(changed)
      /\ Goto("barrier") /\ UNCHANGED <<Host, told, faults>>
  BY DEF RenameCandidate, At
<1>2. task' \in TaskType /\ task'.op = "publish" /\ task'.pc = "barrier" /\ task'.set = task.set
  BY <1>1, GotoTyped DEF TypeInv
<1>3. C \in Names /\ D \in Names /\ C # D /\ "database" \in MemberNames
  BY NamesApart, MembersAll
<1>4. /\ changed \in [Names -> Files \cup {Absent}]
      /\ changed[D] = names[C] /\ changed[C] = Absent
      /\ \A n \in Names : n # C /\ n # D => changed[n] = names[n]
  BY <1>3, RenameMoves, RenameTyped DEF TypeInv
<1>5. /\ \A m \in MemberNames : /\ changed[Forensic(m)] = names[Forensic(m)]
                                /\ m # "database" => changed[Target(m)] = names[Target(m)]
      /\ changed[Active] = names[Active]
  BY <1>3, <1>4, NamesApart
<1> HIDE DEF changed
<1>6. TypeInv'
  BY <1>1, <1>2, <1>4, MovedTyped DEF TypeInv, TypeOK, Host
<1>7. PlaceInv' /\ ToldInv'
  BY <1>1, <1>2 DEF PlaceInv, ToldInv, Moving, Host
<1>8. MoveInv' /\ BuildInv'
  BY <1>2 DEF MoveInv, BuildInv, Moving, At
<1>9. Told(changed)
  <2>1. \A n \in Names : n \notin {C, D} => changed[n] = names[n]
    BY <1>4
  <2>2. \A t \in told : t[1] \notin {C, D}
    <3>1. \A t \in told : t[1] # D
      BY <1>1 DEF ToldInv
    <3>2. C \notin {D, Target("auth"), Active, Retired}
          /\ \A m \in MemberNames : C # Forensic(m)
      BY <1>3, NamesApart, MembersAll
    <3>3. \A t \in told : t[1] # C
      BY <3>2 DEF ToldInv
    <3> QED BY <3>1, <3>3
  <2> QED BY <2>1, <2>2, ToldElsewhere
<1>10. Evidence(changed)
  BY <1>1, <1>5, EvidenceElsewhere DEF PlaceInv
<1>11. Whole(changed)
  <2>1. names[C] # Absent => names[C].whole
    BY <1>1, NamesGood DEF Folded, BuildInv, At
  <2>2. \A m \in {"wal", "shm", "auth"} : changed[Target(m)] = Absent
    BY <1>1, <1>5, MembersAll DEF BuildInv
  <2> QED BY <1>4, <1>5, <2>1, <2>2, NamesGood DEF Whole
<1>12. Folded(changed)
  BY <1>4 DEF Folded
<1> QED BY <1>1, <1>6, <1>7, <1>8, <1>9, <1>10, <1>11, <1>12, ImagesGrow DEF Host

LEMMA CandidatePublishedKeeps == ASSUME IInv, CandidatePublished PROVE IInv'
<1>1. /\ evidence # "allocated" /\ Barrier /\ task' = Idle /\ UNCHANGED <<Host, faults>>
      /\ told' = told \cup Facts({Target("database")})
  BY DEF CandidatePublished, At, Return, Facts, IInv, PlaceInv
<1> QED BY <1>1, EndToldKeeps

LEMMA PrepareCandidateKeeps ==
    ASSUME IInv, NEW folded \in BOOLEAN, PrepareCandidate(folded) PROVE IInv'
<1> USE DEF IInv
<1> DEFINE changed ==
             [n \in Names |->
                 IF n[1] # "candidate" THEN names[n]
                 ELSE IF n[2] = "database" THEN File(built + 1, folded)
                 ELSE IF (n[2] = "auth") = folded THEN File(built + 1, TRUE) ELSE Absent]
<1>1. /\ task = Idle /\ evidence # "allocated" /\ built < MaxBuilds /\ built' = built + 1
      /\ Visible(changed) /\ UNCHANGED <<task, evidence, wanted, told, faults>>
  BY DEF PrepareCandidate
<1>2. /\ built + 1 \in Whats /\ built' \in 0..MaxBuilds
      /\ \A whole \in BOOLEAN : /\ File(built + 1, whole) \in Files
                                /\ File(built + 1, whole) # Absent
                                /\ File(built + 1, whole).whole = whole
  <2>1. built + 1 \in 0..MaxBuilds
    BY <1>1, FileAssumption DEF TypeInv, TypeOK
  <2>2. built + 1 \in Whats
    BY <2>1 DEF Whats
  <2> QED BY <1>1, <2>1, <2>2, FileTyped
<1>3. changed \in [Names -> Files \cup {Absent}]
  BY <1>2 DEF TypeInv, TypeOK
<1>4. /\ \A m \in MemberNames : /\ changed[Forensic(m)] = names[Forensic(m)]
                                /\ changed[Target(m)] = names[Target(m)]
      /\ changed[Active] = names[Active]
      /\ \A n \in Names : n \notin {Candidate(m) : m \in MemberNames} => changed[n] = names[n]
  <2>1. \A n \in Names : n \in {Candidate(m) : m \in MemberNames} \/ n[1] # "candidate"
    BY DEF Names, Candidate, MemberNames, Active, Retired
  <2>2. \A n \in Names : n \notin {Candidate(m) : m \in MemberNames} => changed[n] = names[n]
    BY <2>1
  <2> HIDE DEF changed
  <2> QED BY <2>2, NamesApart
<1>5. /\ changed[Candidate("database")] = File(built + 1, folded)
      /\ ~folded => changed[Candidate("wal")] = File(built + 1, TRUE)
  <2>1. Candidate("database") \in Names /\ Candidate("wal") \in Names
    BY NamesApart, MembersAll
  <2> QED BY <2>1 DEF Candidate
<1> HIDE DEF changed
<1>6. TypeInv'
  <2>1. task' \in TaskType
    BY <1>1, IdleTyped
  <2> QED BY <1>1, <1>2, <1>3, <2>1, MovedTyped
<1>7. PlaceInv' /\ ToldInv' /\ MoveInv' /\ BuildInv'
  BY <1>1, IdleTyped DEF PlaceInv, ToldInv, MoveInv, BuildInv, Moving, At
<1>8. Told(changed)
  <2>1. \A t \in told : t[1] \notin {Candidate(m) : m \in MemberNames}
    <3>1. \A m \in MemberNames :
             /\ Candidate(m) \notin {Target("database"), Target("auth"), Active, Retired}
             /\ \A k \in MemberNames : Candidate(m) # Forensic(k)
      BY NamesApart, MembersAll
    <3> QED BY <3>1 DEF ToldInv
  <2> QED BY <1>4, <2>1, ToldElsewhere
<1>9. Evidence(changed)
  BY <1>1, <1>4, EvidenceElsewhere
<1>10. Whole(changed)
  BY <1>4, NamesGood, MembersAll DEF Whole
<1>11. Folded(changed)
  BY <1>2, <1>5 DEF Folded
<1> QED BY <1>1, <1>6, <1>7, <1>8, <1>9, <1>10, <1>11, ImagesGrow

LEMMA OpenTargetKeeps == ASSUME IInv, OpenTarget PROVE IInv'
<1> USE DEF IInv
<1> DEFINE D == Target("database")
           W == Target("wal")
           S == Target("shm")
           mine == File(names[D].of, TRUE)
           changed == [names EXCEPT ![W] = mine, ![S] = mine]
<1>1. /\ task = Idle /\ evidence # "allocated" /\ names[D] # Absent /\ names[D].of # Stray
      /\ Visible(changed) /\ UNCHANGED <<task, Host, told, faults>>
  BY DEF OpenTarget, Present
<1>2. /\ D \in Names /\ W \in Names /\ S \in Names /\ W # S /\ D # W /\ D # S
      /\ {"database", "wal", "shm", "auth"} = MemberNames
  BY NamesApart, MembersAll
<1>3. mine \in Files /\ mine = names[D]
  <2>1. names[D] \in Files /\ names[D].whole
    BY <1>1, <1>2, NamesGood DEF Whole, TypeInv, TypeOK
  <2> QED BY <2>1, FileTyped
<1>4. /\ changed \in [Names -> Files \cup {Absent}] /\ changed[W] = mine /\ changed[S] = mine
      /\ \A n \in Names : n \notin {W, S} => changed[n] = names[n]
  BY <1>2, <1>3 DEF TypeInv, TypeOK
<1>5. /\ \A m \in MemberNames : /\ changed[Forensic(m)] = names[Forensic(m)]
                                /\ changed[Candidate(m)] = names[Candidate(m)]
                                /\ m \notin {"wal", "shm"} => changed[Target(m)] = names[Target(m)]
      /\ changed[Active] = names[Active]
  <2> HIDE DEF changed
  <2> QED BY <1>2, <1>4, NamesApart
<1> HIDE DEF changed, mine
<1>6. TypeInv'
  <2>1. task' \in TaskType
    BY <1>1, IdleTyped
  <2> QED BY <1>1, <1>4, <2>1, MovedTyped DEF TypeInv, TypeOK, Host
<1>7. PlaceInv' /\ ToldInv' /\ MoveInv' /\ BuildInv'
  BY <1>1, IdleTyped DEF PlaceInv, ToldInv, MoveInv, BuildInv, Moving, At, Host
<1>8. Told(changed)
  <2>1. \A n \in {W, S} : /\ n \notin {Target("database"), Target("auth"), Active, Retired}
                          /\ \A m \in MemberNames : n # Forensic(m)
    BY <1>2, NamesApart
  <2>2. \A t \in told : t[1] \notin {W, S}
    BY <2>1 DEF ToldInv
  <2> QED BY <1>4, <2>2, ToldElsewhere
<1>9. Evidence(changed)
  BY <1>1, <1>5, EvidenceElsewhere
<1>10. Whole(changed)
  <2>1. changed[D] = names[D] /\ changed[Target("auth")] = names[Target("auth")]
    BY <1>2, <1>5
  <2> QED BY <1>3, <1>4, <1>5, <2>1, NamesGood DEF Whole
<1>11. Folded(changed)
  BY <1>2, <1>5, NamesGood DEF Folded
<1> QED BY <1>1, <1>6, <1>7, <1>8, <1>9, <1>10, <1>11, ImagesGrow DEF Host

-----------------------------------------------------------------------------
(* Checkpoints, replacement and retirement.                                 *)

LEMMA BeginCheckpointKeeps == ASSUME IInv, BeginCheckpoint PROVE IInv'
<1> USE DEF IInv
<1>1. /\ task = Idle /\ evidence # "allocated" /\ Unmoved
      /\ names[Target("database")] # Absent /\ names[Target("database")].of # Stray
      /\ told' = {t \in told : t[1] \notin {Target("auth")}} /\ UNCHANGED <<Host, faults>>
      /\ task' = [Idle EXCEPT !.op = "checkpoint", !.pc = "temp",
                              !.to = names[Target("database")].of]
  BY DEF BeginCheckpoint, Begin, Forget, Present
<1>2. names[Target("database")].of \in Whats
  BY <1>1, NamesApart, MembersAll, FileTyped DEF TypeInv, TypeOK
<1>3. task' \in TaskType /\ task'.op = "checkpoint" /\ task'.pc = "temp"
      /\ task'.to = names[Target("database")].of
  <2>1. task' = [op |-> "checkpoint", pc |-> "temp", next |-> 0, set |-> "target",
                 from |-> Absent, to |-> names[Target("database")].of, synced |-> FALSE]
    BY <1>1 DEF Idle
  <2>2. task'.op = "checkpoint" /\ task'.pc = "temp" /\ task'.to = names[Target("database")].of
    BY <2>1
  <2>3. task' \in TaskType
    BY <1>2, <2>1 DEF TaskType
  <2> QED BY <2>2, <2>3
<1>4. TypeInv' /\ ImageInv'
  BY <1>1, <1>3, TaskOnly DEF TypeInv, TypeOK
<1>5. PlaceInv'
  BY <1>1, <1>3 DEF PlaceInv, Moving, Host
<1>6. ToldInv'
  BY <1>1, <1>3 DEF ToldInv, Host
<1>7. MoveInv' /\ BuildInv'
  BY <1>1, <1>3 DEF MoveInv, BuildInv, Moving, At, Unmoved
<1> QED BY <1>4, <1>5, <1>6, <1>7

LEMMA BeginReplaceKeeps ==
    ASSUME IInv, NEW expected \in Authorities, NEW replacement \in Authorities,
           BeginReplace(expected, replacement)
    PROVE  IInv'
<1> USE DEF IInv
<1>1. /\ task = Idle /\ Unmoved /\ UNCHANGED <<Host, faults>>
      /\ told' = {t \in told : t[1] \notin {Active, Retired}}
      /\ task' = [Idle EXCEPT !.op = "replace", !.pc = "read", !.from = expected,
                              !.to = replacement]
  BY DEF BeginReplace, Begin, Forget
<1>2. task' \in TaskType /\ task'.op = "replace" /\ task'.pc = "read" /\ task'.to = replacement
  <2>1. task' = [op |-> "replace", pc |-> "read", next |-> 0, set |-> "target",
                 from |-> expected, to |-> replacement, synced |-> FALSE]
    BY <1>1 DEF Idle
  <2>2. task'.op = "replace" /\ task'.pc = "read" /\ task'.to = replacement
    BY <2>1
  <2>3. task' \in TaskType
    BY <2>1 DEF TaskType, Whats
  <2> QED BY <2>2, <2>3
<1>3. TypeInv' /\ ImageInv'
  BY <1>1, <1>2, TaskOnly DEF TypeInv, TypeOK
<1>4. PlaceInv'
  BY <1>1, <1>2 DEF PlaceInv, Moving, Host
<1>5. ToldInv'
  BY <1>1, <1>2 DEF ToldInv, Host
<1>6. MoveInv' /\ BuildInv'
  BY <1>1, <1>2 DEF MoveInv, BuildInv, Moving, At
<1> QED BY <1>3, <1>4, <1>5, <1>6

LEMMA BeginRetireKeeps ==
    ASSUME IInv, NEW expected \in Authorities, BeginRetire(expected) PROVE IInv'
<1> USE DEF IInv
<1>1. /\ task = Idle /\ Unmoved /\ UNCHANGED <<Host, faults>>
      /\ told' = {t \in told : t[1] \notin {Active, Retired}}
      /\ task' = [Idle EXCEPT !.op = "retire", !.pc = "read", !.from = expected]
  BY DEF BeginRetire, Begin, Forget
<1>2. task' \in TaskType /\ task'.op = "retire" /\ task'.pc = "read"
  <2>1. task' = [op |-> "retire", pc |-> "read", next |-> 0, set |-> "target",
                 from |-> expected, to |-> Absent, synced |-> FALSE]
    BY <1>1 DEF Idle
  <2>2. task'.op = "retire" /\ task'.pc = "read"
    BY <2>1
  <2>3. task' \in TaskType
    BY <2>1 DEF TaskType
  <2> QED BY <2>2, <2>3
<1>3. TypeInv' /\ ImageInv'
  BY <1>1, <1>2, TaskOnly DEF TypeInv, TypeOK
<1>4. PlaceInv'
  BY <1>1, <1>2 DEF PlaceInv, Moving, Host
<1>5. ToldInv'
  BY <1>1, <1>2 DEF ToldInv, Host
<1>6. MoveInv' /\ BuildInv'
  BY <1>1, <1>2 DEF MoveInv, BuildInv, Moving, At
<1> QED BY <1>3, <1>4, <1>5, <1>6

\* A replacement or a retirement goes on, and nothing has moved.
LEMMA AdvanceKeeps ==
    ASSUME IInv, task.op \in {"replace", "retire"}, NEW place,
           place \in {"barrier", "temp", "rename"}, Goto(place),
           place = "rename" => task.op = "retire", Unmoved, UNCHANGED <<Host, told, faults>>
    PROVE  IInv'
<1> USE DEF IInv
<1>1. task' \in TaskType /\ task'.op = task.op /\ task'.pc = place /\ task'.to = task.to
  BY GotoTyped DEF TypeInv
<1>2. TypeInv' /\ ImageInv'
  BY <1>1, TaskOnly DEF TypeInv, TypeOK
<1>3. PlaceInv'
  BY <1>1 DEF PlaceInv, Moving, Host
<1>4. ToldInv'
  BY <1>1 DEF ToldInv, Host
<1>5. MoveInv' /\ BuildInv'
  BY <1>1 DEF MoveInv, BuildInv, Moving, At
<1> QED BY <1>2, <1>3, <1>4, <1>5

LEMMA AlreadyDoneKeeps == ASSUME IInv, AlreadyDone PROVE IInv'
<1>1. /\ task.op \in {"replace", "retire"} /\ Goto("barrier") /\ Unmoved
      /\ UNCHANGED <<Host, told, faults>>
  BY DEF AlreadyDone
<1> QED BY <1>1, AdvanceKeeps

LEMMA MatchesKeeps == ASSUME IInv, Matches PROVE IInv'
<1>1. /\ task.op \in {"replace", "retire"} /\ Unmoved /\ UNCHANGED <<Host, told, faults>>
      /\ Goto(IF task.op = "replace" THEN "temp" ELSE "rename")
  BY DEF Matches
<1>2. CASE task.op = "replace"
  <2>1. Goto("temp")
    BY <1>1, <1>2
  <2> QED BY <1>1, <2>1, AdvanceKeeps
<1>3. CASE task.op = "retire"
  <2>1. Goto("rename")
    BY <1>1, <1>3
  <2> QED BY <1>1, <1>3, <2>1, AdvanceKeeps
<1> QED BY <1>1, <1>2, <1>3

LEMMA CollidesKeeps == ASSUME IInv, Collides PROVE IInv'
BY EndKeeps DEF Collides, Return, IInv, TypeInv, TypeOK

LEMMA DoneKeeps == ASSUME IInv, Done PROVE IInv'
<1> DEFINE ns == IF task.op = "retire" THEN {Active, Retired} ELSE {Fixed}
<1>1. /\ task.op \in {"checkpoint", "replace", "retire"} /\ Barrier /\ task' = Idle
      /\ UNCHANGED <<Host, faults>> /\ told' = told \cup Facts(ns)
  BY DEF Done, Return, Facts
<1>2. /\ ns \subseteq {Target("database"), Target("auth"), Active, Retired}
      /\ evidence = "allocated" => ns \subseteq {Active, Retired}
  BY <1>1 DEF Fixed, IInv, PlaceInv
<1> QED BY <1>1, <1>2, EndToldKeeps

LEMMA WriteTempKeeps == ASSUME IInv, WriteTemp PROVE IInv'
<1> USE DEF IInv
<1>1. /\ task.op \in {"checkpoint", "replace"} /\ Unmoved
      /\ task' = [task EXCEPT !.pc = "rename", !.synced = TRUE]
      /\ UNCHANGED <<Host, told, faults>>
  BY DEF WriteTemp
<1>2. /\ task' \in TaskType /\ task'.op = task.op /\ task'.pc = "rename" /\ task'.to = task.to
      /\ task'.synced = TRUE
  <2>1. task \in TaskType /\ TRUE \in BOOLEAN
    BY DEF TypeInv
  <2>2. task' \in TaskType
    BY <1>1, <2>1 DEF TaskType
  <2>3. task'.op = task.op /\ task'.pc = "rename" /\ task'.to = task.to /\ task'.synced = TRUE
    BY <1>1, <2>1 DEF TaskType
  <2> QED BY <2>2, <2>3
<1>3. TypeInv' /\ ImageInv'
  BY <1>1, <1>2, TaskOnly DEF TypeInv, TypeOK
<1>4. PlaceInv'
  BY <1>1, <1>2 DEF PlaceInv, Moving, Host
<1>5. ToldInv'
  BY <1>1, <1>2 DEF ToldInv, Host
<1>6. MoveInv' /\ BuildInv'
  BY <1>1, <1>2 DEF MoveInv, BuildInv, Moving, At, Unmoved
<1> QED BY <1>3, <1>4, <1>5, <1>6

LEMMA ReplaceKeeps == ASSUME IInv, Replace PROVE IInv'
<1> USE DEF IInv
<1> DEFINE file == File(task.to, task.synced)
           changed == [names EXCEPT ![Fixed] = file]
           D == Target("database")
<1>1. /\ task.op \in {"checkpoint", "replace"} /\ task.pc = "rename" /\ Goto("barrier")
      /\ Visible(changed) /\ UNCHANGED <<Host, told, faults>>
  BY DEF Replace
<1>2. /\ task' \in TaskType /\ task'.op = task.op /\ task'.pc = "barrier" /\ task'.to = task.to
  BY <1>1, GotoTyped DEF TypeInv
<1>3. /\ task.synced = TRUE
      /\ task.op = "checkpoint" => evidence # "allocated"
      /\ D \in Names /\ Target("auth") \in Names /\ Active \in Names /\ D # Target("auth")
      /\ {"database", "wal", "shm", "auth"} = MemberNames
  BY <1>1, NamesApart, MembersAll DEF PlaceInv, TypeInv, TaskType
<1>4. task.to \in Whats /\ (task.op = "checkpoint" => names[D] = File(task.to, TRUE))
  <2>1. CASE task.op = "checkpoint"
    <3> HIDE DEF D
    <3>1. names[D] \in Files /\ names[D].of = task.to /\ names[D].whole
      BY <1>3, <2>1, NamesGood DEF BuildInv, Whole, TypeInv, TypeOK, D
    <3>2. names[D].of \in Whats /\ names[D] = File(names[D].of, TRUE)
      BY <3>1, FileTyped
    <3> QED BY <3>1, <3>2, Zenon
  <2>2. CASE task.op = "replace"
    BY <2>2 DEF PlaceInv, Whats
  <2> QED BY <2>1, <2>2, <1>1
<1>5. file \in Files /\ file.whole /\ file = File(task.to, TRUE)
  <2>1. file = File(task.to, TRUE)
    BY <1>3
  <2>2. File(task.to, TRUE) \in Files /\ File(task.to, TRUE).whole
    BY <1>4, FileTyped
  <2> QED BY <2>1, <2>2
<1>6. Fixed \in Names /\ Fixed = IF task.op = "checkpoint" THEN Target("auth") ELSE Active
  BY <1>3 DEF Fixed
<1>7. /\ changed \in [Names -> Files \cup {Absent}] /\ changed[Fixed] = file
      /\ \A n \in Names : n # Fixed => changed[n] = names[n]
  BY <1>5, <1>6 DEF TypeInv, TypeOK
<1> HIDE DEF changed, file
<1>8. \A m \in MemberNames :
         /\ changed[Forensic(m)] = names[Forensic(m)] /\ changed[Candidate(m)] = names[Candidate(m)]
         /\ task.op = "replace" \/ m # "auth" => changed[Target(m)] = names[Target(m)]
  BY <1>1, <1>3, <1>6, <1>7, NamesApart
<1>9. task.op = "checkpoint" => changed[Active] = names[Active]
  BY <1>3, <1>6, <1>7, NamesApart
<1>10. TypeInv'
  BY <1>1, <1>2, <1>7, MovedTyped DEF TypeInv, TypeOK, Host
<1>11. PlaceInv' /\ ToldInv' /\ MoveInv'
  BY <1>1, <1>2 DEF PlaceInv, ToldInv, MoveInv, Moving, Host
<1>12. BuildInv'
  BY <1>1, <1>2, <1>3, <1>8 DEF BuildInv, At, Visible
<1>13. Told(changed)
  <2>1. \A t \in told : t[1] \notin {Fixed}
    BY <1>1, <1>6 DEF ToldInv
  <2> QED BY <1>7, <2>1, ToldElsewhere
<1>14. Evidence(changed)
  <2>1. CASE task.op = "checkpoint"
    BY <2>1, <1>3, <1>8, EvidenceElsewhere
  <2>2. CASE task.op = "replace"
    <3>1. \A w \in wanted : w[1] \in MemberNames
      BY DEF TypeInv
    <3>2. \A m \in MemberNames : /\ changed[Forensic(m)] = names[Forensic(m)]
                                 /\ changed[Target(m)] = names[Target(m)]
      BY <2>2, <1>8
    <3> QED BY <3>1, <3>2, NamesGood DEF Evidence
  <2> QED BY <2>1, <2>2, <1>1
<1>15. Whole(changed)
  <2>1. CASE task.op = "checkpoint"
    <3>1. changed[D] = names[D] /\ changed[Target("auth")] = names[D]
      BY <2>1, <1>3, <1>4, <1>5, <1>6, <1>7
    <3> QED BY <2>1, <3>1, <1>3, <1>8, <1>9, NamesGood DEF Whole
  <2>2. CASE task.op = "replace"
    BY <2>2, <1>3, <1>5, <1>6, <1>7, <1>8, NamesGood DEF Whole
  <2> QED BY <2>1, <2>2, <1>1
<1>16. Folded(changed)
  BY <1>3, <1>8, NamesGood DEF Folded
<1> QED BY <1>1, <1>10, <1>11, <1>12, <1>13, <1>14, <1>15, <1>16, ImagesGrow DEF Host

LEMMA RetireKeeps == ASSUME IInv, Retire PROVE IInv'
<1> USE DEF IInv
<1> DEFINE changed == Rename(Active, Retired)
<1>1. /\ task.op = "retire" /\ Goto("barrier") /\ Visible(changed)
      /\ UNCHANGED <<Host, told, faults>>
  BY DEF Retire, At
<1>2. task' \in TaskType /\ task'.op = "retire" /\ task'.pc = "barrier"
  BY <1>1, GotoTyped DEF TypeInv
<1>3. /\ changed \in [Names -> Files \cup {Absent}] /\ changed[Active] = Absent
      /\ \A n \in Names : n \notin {Active, Retired} => changed[n] = names[n]
  BY NamesApart, RenameMoves, RenameTyped DEF TypeInv
<1> HIDE DEF changed
<1>4. \A m \in MemberNames : /\ changed[Forensic(m)] = names[Forensic(m)]
                             /\ changed[Candidate(m)] = names[Candidate(m)]
                             /\ changed[Target(m)] = names[Target(m)]
  BY <1>3, NamesApart
<1>5. TypeInv'
  BY <1>1, <1>2, <1>3, MovedTyped DEF TypeInv, TypeOK, Host
<1>6. PlaceInv' /\ ToldInv' /\ MoveInv' /\ BuildInv'
  BY <1>1, <1>2 DEF PlaceInv, ToldInv, MoveInv, BuildInv, Moving, At, Host
<1>7. Told(changed)
  BY <1>1, <1>3, ToldElsewhere DEF ToldInv
<1>8. Evidence(changed)
  <2>1. \A w \in wanted : w[1] \in MemberNames
    BY DEF TypeInv
  <2> QED BY <2>1, <1>4, NamesGood DEF Evidence
<1>9. Whole(changed) /\ Folded(changed)
  BY <1>3, <1>4, NamesGood, MembersAll DEF Whole, Folded
<1> QED BY <1>1, <1>5, <1>6, <1>7, <1>8, <1>9, ImagesGrow DEF Host

-----------------------------------------------------------------------------
(* Failures, and the invariant.                                             *)

LEMMA StopsKeeps == ASSUME IInv, Stops PROVE IInv'
<1>1. faults' \in 0..MaxFaults
  BY FileAssumption DEF Stops, Fault, IInv, TypeInv, TypeOK
<1> QED BY <1>1, EndKeeps DEF Stops

LEMMA PowerLossKeeps == ASSUME IInv, PowerLoss PROVE IInv'
<1> USE IdleTyped DEF IInv
<1>1. PICK image \in kept : names' = image /\ kept' = {image}
  BY DEF PowerLoss
<1>2. task' = Idle /\ Fault /\ UNCHANGED <<built, evidence, wanted, told>>
  BY DEF PowerLoss, Host
<1>3. TypeInv'
  <2>1. faults' \in 0..MaxFaults
    BY <1>2, FileAssumption DEF Fault, TypeInv, TypeOK
  <2>2. image \in [Names -> Files \cup {Absent}]
    BY DEF TypeInv, TypeOK
  <2>3. task'.next \in 0..5 /\ task'.set \in {"target", "candidate"}
    BY <1>2 DEF TaskType
  <2> QED BY <1>1, <1>2, <2>1, <2>2, <2>3 DEF TypeInv, TypeOK
<1>4. PlaceInv' /\ ToldInv' /\ MoveInv' /\ BuildInv'
  BY <1>2 DEF PlaceInv, ToldInv, MoveInv, BuildInv, Moving, At
<1>5. ImageInv'
  BY <1>1, <1>2, ImagesStay
<1> QED BY <1>3, <1>4, <1>5

LEMMA InitKeeps == Init => IInv
<1> SUFFICES ASSUME Init PROVE IInv
  OBVIOUS
<1> USE IdleTyped
<1>1. PICK present \in Found :
        names = [n \in Names |->
            IF n = Active THEN File(First, TRUE)
            ELSE IF n[1] = "target" /\ n[2] \in present THEN File(0, TRUE) ELSE Absent]
  BY DEF Init
<1>2. /\ kept = {names} /\ task = Idle /\ built = 0
      /\ evidence = "none" /\ wanted = {} /\ told = {} /\ faults = 0
  BY DEF Init
<1>3. /\ First \in Whats /\ 0 \in Whats /\ 0 \in 0..MaxBuilds /\ 0 \in 0..MaxFaults
      /\ File(First, TRUE) \in Files /\ File(0, TRUE) \in Files
      /\ File(First, TRUE).whole /\ File(0, TRUE).whole
  <2>1. First \in Whats /\ 0 \in Whats /\ 0 \in 0..MaxBuilds /\ 0 \in 0..MaxFaults
    BY FileAssumption DEF Whats
  <2> QED BY <2>1, FileTyped
<1>4. names \in [Names -> Files \cup {Absent}]
  BY <1>1, <1>3
<1>5. TypeInv
  <2>1. task.next \in 0..5 /\ task.set \in {"target", "candidate"} /\ task \in TaskType
    BY <1>2 DEF TaskType
  <2> QED BY <1>2, <1>3, <1>4, <2>1 DEF TypeInv, TypeOK
<1>6. PlaceInv /\ ToldInv /\ MoveInv /\ BuildInv
  BY <1>2 DEF PlaceInv, ToldInv, MoveInv, BuildInv, Moving, At
<1>7. /\ names[Active] = File(First, TRUE)
      /\ \A m \in MemberNames : /\ names[Forensic(m)] = Absent /\ names[Candidate(m)] = Absent
                                /\ names[Target(m)] \in {File(0, TRUE), Absent}
  <2>1. names[Active] = File(First, TRUE)
    BY <1>1, NamesApart
  <2>2. ASSUME NEW m \in MemberNames
        PROVE  /\ names[Forensic(m)] = Absent /\ names[Candidate(m)] = Absent
               /\ names[Target(m)] \in {File(0, TRUE), Absent}
    <3>1. /\ {Target(m), Candidate(m), Forensic(m)} \subseteq Names
          /\ Active \notin {Target(m), Candidate(m), Forensic(m)}
      BY NamesApart
    <3>2. Forensic(m)[1] = "forensic" /\ Candidate(m)[1] = "candidate"
      BY DEF Forensic, Candidate
    <3> QED BY <1>1, <3>1, <3>2
  <2> QED BY <2>1, <2>2
<1>8. ImageInv
  <2>1. Told(names) /\ Evidence(names)
    BY <1>2, <1>7 DEF Told, Evidence
  <2>2. Whole(names) /\ Folded(names)
    BY <1>3, <1>7, MembersAll DEF Whole, Folded
  <2> QED BY <1>2, <2>1, <2>2 DEF ImageInv
<1> QED BY <1>5, <1>6, <1>8 DEF IInv

LEMMA Inductive == IInv /\ [Next]_vars => IInv'
<1> SUFFICES ASSUME IInv, [Next]_vars PROVE IInv'
  OBVIOUS
<1>1. CASE Preservation
  BY <1>1, BeginPreserveKeeps, BeginResumeKeeps, SkipKeeps, MoveKeeps, ResumeRefusedKeeps,
     MovedKeeps, PreservedKeeps, StraysKeeps DEF Preservation
<1>2. CASE Publication
  BY <1>2, BeginRemoveKeeps, RemoveOneKeeps, RemovedKeeps, PrepareCandidateKeeps,
     BeginPublishKeeps, DiscardCandidateKeeps, DropCandidateCheckpointKeeps,
     RenameCandidateKeeps, CandidatePublishedKeeps, OpenTargetKeeps DEF Publication
<1>3. CASE Transition
  BY <1>3, BeginCheckpointKeeps, WriteTempKeeps, ReplaceKeeps, RetireKeeps, DoneKeeps,
     BeginReplaceKeeps, BeginRetireKeeps, AlreadyDoneKeeps, CollidesKeeps, MatchesKeeps
     DEF Transition
<1>4. CASE Stops
  BY <1>4, StopsKeeps
<1>5. CASE PowerLoss
  BY <1>5, PowerLossKeeps
<1>6. CASE UNCHANGED vars
  BY <1>6 DEF vars, IInv, TypeInv, TypeOK, PlaceInv, ToldInv, MoveInv, BuildInv, ImageInv,
      Told,
              Evidence, Whole, Folded, Moving, At, Member
<1> QED BY <1>1, <1>2, <1>3, <1>4, <1>5, <1>6 DEF Next

LEMMA Invariance == Spec => []IInv
BY InitKeeps, Inductive, PTL DEF Spec

\* Types and bounds hold for any builds, authorities and faults.
THEOREM TypeCorrect == Spec => []TypeOK
<1>1. IInv => TypeOK
  BY DEF IInv, TypeInv
<1> QED BY <1>1, Invariance, PTL

\* Every file that was on disk when a preservation was called is under its old
\* or its forensic name in every state a power loss may leave, and forensic for
\* good once completion is recorded, whatever stops or resumes the calls
\* (preserve_forensic_files, resume_forensic_files).
THEOREM EvidenceStays == Spec => []EvidenceKept
<1>1. IInv => EvidenceKept
  BY DEF IInv, ImageInv, Evidence, EvidenceKept
<1> QED BY <1>1, Invariance, PTL

\* A database that a power loss leaves is whole, what lies beside it is of that
\* database, and the authority is whole (publish_candidate, publish_checkpoint,
\* replace_regular_exact_unix).
THEOREM PublishedStaysWhole == Spec => []PublishedWhole
<1>1. IInv => PublishedWhole
  BY DEF IInv, ImageInv, Whole, PublishedWhole
<1> QED BY <1>1, Invariance, PTL

\* What a call reported holds in every state a power loss may leave, until the
\* next call on the same names (replace_regular_exact_unix,
\* retire_regular_exact_unix, publish_candidate, publish_checkpoint).
THEOREM ReportedStays == Spec => []ToldStays
<1>1. IInv => ToldStays
  BY DEF IInv, ImageInv, Told, ToldStays
<1> QED BY <1>1, Invariance, PTL

-----------------------------------------------------------------------------
(* What a checkpoint samples.                                               *)

LEMMA Division ==
    ASSUME NEW a \in Nat, NEW d \in Nat \ {0}
    PROVE  /\ a \div d \in Nat
           /\ d * (a \div d) <= a /\ a < d * (a \div d) + d
OBVIOUS

\* A factor can be compared instead of the product.
LEMMA Factor ==
    ASSUME NEW d \in Nat \ {0}, NEW x \in Nat, NEW y \in Nat, d * x < d * y
    PROVE  x < y
<1>1. CASE y <= x
    <2>1. d * y <= d * x
        BY <1>1
    <2>2. QED
        BY <2>1
<1>2. QED
    BY <1>1

LEMMA Growing ==
    ASSUME NEW d \in Nat, NEW x \in Nat, NEW y \in Nat, x <= y
    PROVE  d * x <= d * y
OBVIOUS


\* Where range i of a spread sample begins.
Start(n, i) == Edge(n) + ((Interior(n) - RangeBytes) * i) \div (MaxRanges - 1)

Ranges(n, j) == UNION {Bytes(Start(n, i), RangeBytes) : i \in 0..(j - 1)}

\* The sample budget is a whole number of ranges, two at least.
LEMMA Budget ==
    /\ MaxRanges \in Nat /\ MaxRanges >= 2 /\ SampleBytes = MaxRanges * RangeBytes
    /\ RangeBytes \in Nat \ {0} /\ EdgeBytes \in Nat \ {0} /\ SampleBytes \in Nat
<1>1. PICK k \in 2..SampleBytes : SampleBytes = k * RangeBytes
    BY FileAssumption
<1>2. RangeBytes \in Nat \ {0} /\ EdgeBytes \in Nat \ {0} /\ k \in Nat /\ k >= 2
    BY FileAssumption
<1>3. SampleBytes \in Nat
    BY <1>1, <1>2
<1>4. SampleBytes \div RangeBytes = k
    BY <1>1, <1>2
<1>5. QED
    BY <1>1, <1>2, <1>3, <1>4 DEF MaxRanges

\* A database whose interior passes the budget: its edges are whole, and the
\* interior is what lies between them.
LEMMA Long ==
    ASSUME NEW n \in Nat, Interior(n) > SampleBytes
    PROVE  /\ Edge(n) = EdgeBytes /\ Interior(n) = n - 2 * EdgeBytes
           /\ n > 2 * EdgeBytes /\ Interior(n) \in Nat
           /\ Interior(n) - RangeBytes \in Nat
           /\ (MaxRanges - 1) * RangeBytes < Interior(n) - RangeBytes
<1>1. Edge(n) \in Nat
    BY Budget DEF Edge
<1>2. n > 2 * Edge(n) /\ Interior(n) = n - 2 * Edge(n)
    BY Budget DEF Interior
<1>3. Edge(n) = EdgeBytes
    BY <1>2, Budget DEF Edge
<1>4. SampleBytes = (MaxRanges - 1) * RangeBytes + RangeBytes
    BY Budget
<1>5. (MaxRanges - 1) * RangeBytes \in Nat
    BY Budget
<1>6. QED
    BY <1>2, <1>3, <1>4, <1>5, Budget

\* The ranges are within the interior, and each begins behind the one before it.
LEMMA RangesApart ==
    ASSUME NEW n \in Nat, Interior(n) > SampleBytes
    PROVE  /\ \A i \in 0..(MaxRanges - 1) :
                  /\ Start(n, i) \in Nat /\ EdgeBytes <= Start(n, i)
                  /\ Start(n, i) + RangeBytes <= n - EdgeBytes
           /\ \A i, j \in 0..(MaxRanges - 1) : i < j => Start(n, i) + RangeBytes <= Start(n, j)
           /\ Start(n, 0) = EdgeBytes
           /\ Start(n, MaxRanges - 1) + RangeBytes = n - EdgeBytes
<1> DEFINE d == MaxRanges - 1
           a == Interior(n) - RangeBytes
           q(i) == (a * i) \div d
<1>1. /\ d \in Nat \ {0} /\ a \in Nat /\ d * RangeBytes < a /\ RangeBytes \in Nat \ {0}
      /\ EdgeBytes \in Nat
      /\ \A i : Start(n, i) = EdgeBytes + q(i)
      /\ n - EdgeBytes = EdgeBytes + a + RangeBytes
    BY Long, Budget DEF Start
<1> HIDE DEF d, a
<1>2. \A i \in 0..d : q(i) \in Nat /\ d * q(i) <= a * i /\ a * i < d * q(i) + d /\ a * i \in Nat
    <2> SUFFICES ASSUME NEW i \in 0..d
                 PROVE  q(i) \in Nat /\ d * q(i) <= a * i /\ a * i < d * q(i) + d /\ a * i \in Nat
        OBVIOUS
    <2>1. a * i \in Nat
        BY <1>1
    <2>2. QED
        BY <1>1, <2>1, Division
<1> HIDE DEF q
<1>3. ASSUME NEW i \in 0..d PROVE q(i) <= a
    <2>1. a * i <= a * d
        BY <1>1, Growing
    <2>2. a * d = d * a
        BY <1>1
    <2>3. CASE q(i) > a
        <3>1. d * (a + 1) <= d * q(i)
            <4>1. a + 1 \in Nat /\ q(i) \in Nat /\ a + 1 <= q(i) /\ d \in Nat
                BY <1>1, <1>2, <2>3
            <4>2. QED
                BY <4>1, Growing
        <3>2. d * (a + 1) = d * a + d
            BY <1>1
        <3>3. d * a \in Nat /\ d * q(i) \in Nat
            BY <1>1, <1>2
        <3>4. d * q(i) <= a * i /\ a * i \in Nat /\ d \in Nat \ {0}
            BY <1>1, <1>2
        <3>5. d * q(i) <= d * a
            BY <2>1, <2>2, <3>3, <3>4
        <3>6. d * a + d <= d * a
            BY <3>1, <3>2, <3>3, <3>4, <3>5
        <3>7. QED
            BY <3>3, <3>4, <3>6
    <2>4. q(i) \in Nat /\ a \in Nat
        BY <1>1, <1>2
    <2>5. QED
        BY <2>3, <2>4
<1>4. ASSUME NEW i \in 0..d, NEW j \in 0..d, i < j PROVE q(i) + RangeBytes <= q(j)
    <2>1. a * (i + 1) <= a * j
        BY <1>1, <1>4, Growing
    <2>2. a * (i + 1) = a * i + a
        BY <1>1
    <2>3. d * (q(i) + RangeBytes) = d * q(i) + d * RangeBytes
        BY <1>1, <1>2
    <2>4. d * (q(j) + 1) = d * q(j) + d
        BY <1>1, <1>2
    <2>5. /\ d * q(i) \in Nat /\ d * q(j) \in Nat /\ d * RangeBytes \in Nat
          /\ a * i \in Nat /\ a * j \in Nat
        BY <1>1, <1>2
    <2>6. d * (q(i) + RangeBytes) < d * (q(j) + 1)
        <3>1. d * q(i) <= a * i /\ a * j < d * q(j) + d /\ d * RangeBytes < a
              /\ a \in Nat /\ d \in Nat
            BY <1>1, <1>2
        <3>2. d * q(i) + d * RangeBytes < a * i + a
            BY <2>5, <3>1
        <3>3. a * i + a < d * q(j) + d
            BY <2>1, <2>2, <2>5, <3>1
        <3>4. QED
            BY <2>3, <2>4, <2>5, <3>1, <3>2, <3>3
    <2>7. q(i) + RangeBytes < q(j) + 1
        BY <1>1, <1>2, <2>6, Factor
    <2>8. QED
        BY <1>1, <1>2, <2>7
<1>5. q(0) = 0
    <2>1. a * 0 = 0 /\ 0 \in 0..d
        BY <1>1
    <2>2. d * q(0) <= d * 0 /\ d * 0 = 0
        BY <1>1, <1>2, <2>1
    <2>3. CASE q(0) >= 1
        <3>1. d * 1 <= d * q(0)
            BY <1>1, <1>2, <2>1, <2>3, Growing
        <3>2. QED
            BY <1>1, <1>2, <2>1, <2>2, <3>1
    <2>4. QED
        BY <1>2, <2>1, <2>3
<1>6. q(d) = a
    <2>1. d \in 0..d /\ a * d = d * a /\ d * (q(d) + 1) = d * q(d) + d /\ d * q(d) \in Nat
        BY <1>1, <1>2
    <2>2. d * a < d * (q(d) + 1)
        BY <1>1, <1>2, <2>1
    <2>3. a < q(d) + 1
        BY <1>1, <1>2, <2>1, <2>2, Factor
    <2>4. q(d) <= a /\ q(d) \in Nat
        BY <1>2, <1>3, <2>1
    <2>5. QED
        BY <1>1, <2>3, <2>4
<1>7. d = MaxRanges - 1 /\ d \in 0..d /\ 0 \in 0..d
    BY <1>1 DEF d
<1>8. \A i \in 0..d : /\ Start(n, i) \in Nat /\ EdgeBytes <= Start(n, i)
                      /\ Start(n, i) + RangeBytes <= n - EdgeBytes
    BY <1>1, <1>2, <1>3
<1>9. \A i, j \in 0..d : i < j => Start(n, i) + RangeBytes <= Start(n, j)
    BY <1>1, <1>2, <1>4
<1>10. Start(n, 0) = EdgeBytes /\ Start(n, d) + RangeBytes = n - EdgeBytes
    BY <1>1, <1>5, <1>6
<1>11. QED
    BY <1>7, <1>8, <1>9, <1>10 DEF d

\* Every nonempty set of natural numbers has a least element.
LEMMA LeastExists ==
    ASSUME NEW T, T \subseteq Nat, T # {}
    PROVE  \E x \in T : \A y \in T : x <= y
<1> DEFINE Less == {p \in Nat \X Nat : p[1] < p[2]}
<1>1. IsWellFoundedOn(Less, Nat)
    <2>1. OpToRel(<, Nat) = Less
        BY DEF OpToRel
    <2>2. QED
        BY <2>1, NatLessThanWellFounded, Zenon
<1> HIDE DEF Less
<1>2. PICK x \in T : \A y \in T : ~ (<<y, x>> \in Less)
    BY <1>1, WFMin, Zenon
<1>3. \A y \in T : ~ (y < x)
    BY <1>2 DEF Less
<1>4. QED
    BY <1>3

\* The first j ranges have j times the bytes of one.
LEMMA RangesCount ==
    ASSUME NEW n \in Nat, Interior(n) > SampleBytes, NEW j \in 0..MaxRanges
    PROVE  /\ IsFiniteSet(Ranges(n, j)) /\ Cardinality(Ranges(n, j)) = j * RangeBytes
           /\ Ranges(n, j) \subseteq EdgeBytes..(n - EdgeBytes - 1)
<1> DEFINE Good(m) == IsFiniteSet(Ranges(n, m)) /\ Cardinality(Ranges(n, m)) = m * RangeBytes
           Bad == {m \in 0..MaxRanges : ~ Good(m)}
<1>1. ASSUME NEW m \in 0..MaxRanges
      PROVE  Ranges(n, m) \subseteq EdgeBytes..(n - EdgeBytes - 1)
    <2> SUFFICES ASSUME NEW b \in Ranges(n, m) PROVE b \in EdgeBytes..(n - EdgeBytes - 1)
        OBVIOUS
    <2>1. PICK i \in 0..(m - 1) : b \in Bytes(Start(n, i), RangeBytes)
        BY DEF Ranges
    <2>2. i \in 0..(MaxRanges - 1)
        BY <2>1, Budget
    <2>3. QED
        BY <2>1, <2>2, RangesApart, Budget DEF Bytes
<1>2. Good(0)
    <2>1. Ranges(n, 0) = {}
        BY DEF Ranges
    <2>2. 0 * RangeBytes = 0
        BY Budget
    <2>3. QED
        BY <2>1, <2>2, FS_EmptySet
<1>3. ASSUME NEW m \in 0..(MaxRanges - 1), Good(m) PROVE Good(m + 1)
    <2> DEFINE last == Bytes(Start(n, m), RangeBytes)
    <2>1. Ranges(n, m + 1) = Ranges(n, m) \cup last
        <3>1. 0..((m + 1) - 1) = 0..(m - 1) \cup {m}
            BY Budget
        <3>2. QED
            BY <3>1 DEF Ranges
    <2>2. /\ Start(n, m) \in Nat /\ RangeBytes \in Nat \ {0}
          /\ \A i \in 0..(m - 1) : Start(n, i) \in Nat /\ Start(n, i) + RangeBytes <= Start(n, m)
        <3>1. \A i \in 0..(m - 1) : i \in 0..(MaxRanges - 1) /\ i < m
            BY Budget
        <3>2. QED
            BY <3>1, RangesApart, Budget
    <2>3. IsFiniteSet(last) /\ Cardinality(last) = RangeBytes
        <3>1. Start(n, m) + RangeBytes - 1 \in Int
            BY <2>2
        <3>2. QED
            BY <2>2, <3>1, FS_Interval DEF Bytes
    <2>4. Ranges(n, m) \cap last = {}
        <3> SUFFICES ASSUME NEW b \in Ranges(n, m), b \in last PROVE FALSE
            OBVIOUS
        <3>1. PICK i \in 0..(m - 1) : b \in Bytes(Start(n, i), RangeBytes)
            BY DEF Ranges
        <3>2. QED
            BY <2>2, <3>1 DEF Bytes
    <2> HIDE DEF last
    <2>5. /\ IsFiniteSet(Ranges(n, m) \cup last)
          /\ Cardinality(Ranges(n, m) \cup last) = m * RangeBytes + RangeBytes - 0
        <3>1. /\ IsFiniteSet(Ranges(n, m) \cup last)
              /\ Cardinality(Ranges(n, m) \cup last)
                   = Cardinality(Ranges(n, m)) + Cardinality(last)
                     - Cardinality(Ranges(n, m) \cap last)
            BY <1>3, <2>3, FS_Union
        <3>2. Cardinality(Ranges(n, m) \cap last) = 0
            BY <2>4, FS_EmptySet
        <3>3. QED
            BY <1>3, <2>3, <3>1, <3>2
    <2>6. (m + 1) * RangeBytes = m * RangeBytes + RangeBytes
        BY Budget
    <2>7. m * RangeBytes \in Nat
        BY Budget
    <2>8. QED
        BY <2>1, <2>2, <2>5, <2>6, <2>7
<1>4. Bad = {}
    <2> SUFFICES ASSUME Bad # {} PROVE FALSE
        OBVIOUS
    <2>1. Bad \subseteq Nat
        BY Budget
    <2> HIDE DEF Bad
    <2>2. PICK m \in Bad : \A k \in Bad : m <= k
        BY <2>1, LeastExists, Zenon
    <2> USE DEF Bad
    <2> HIDE DEF Good
    <2>3. m \in 0..MaxRanges /\ m # 0 /\ ~ Good(m)
        BY <1>2, <2>2
    <2>4. m - 1 \in 0..(MaxRanges - 1) /\ (m - 1) + 1 = m
        BY <2>3, Budget
    <2>5. Good(m - 1)
        BY <2>2, <2>4, Budget
    <2>6. QED
        BY <1>3, <2>3, <2>4, <2>5
<1>5. QED
    BY <1>1, <1>4

\* What a checkpoint samples of a database of any length.
LEMMA Samples ==
    ASSUME NEW n \in Nat
    PROVE  /\ Sampled(n) \subseteq Bytes(0, n)
           /\ Interior(n) <= SampleBytes => Sampled(n) = Bytes(0, n)
           /\ Interior(n) > SampleBytes =>
                /\ Cardinality(Sampled(n)) = 2 * EdgeBytes + SampleBytes
                /\ {EdgeBytes, n - EdgeBytes - 1} \subseteq Sampled(n)
<1>1. CASE Interior(n) <= SampleBytes
    <2>1. Sampled(n) = Bytes(0, Edge(n)) \cup Bytes(n - Edge(n), Edge(n))
                        \cup Bytes(Edge(n), Interior(n))
        BY <1>1 DEF Sampled
    <2>2. Edge(n) \in Nat /\ Edge(n) <= n /\ (n <= 2 * Edge(n) => Interior(n) = 0)
          /\ (n > 2 * Edge(n) => Interior(n) = n - 2 * Edge(n))
        BY Budget DEF Edge, Interior
    <2>3. Sampled(n) = Bytes(0, n)
        BY <2>1, <2>2 DEF Bytes
    <2>4. Interior(n) \in Nat /\ ~ (Interior(n) > SampleBytes)
        BY <1>1, <2>2, Budget
    <2>5. QED
        BY <2>3, <2>4
<1>2. CASE Interior(n) > SampleBytes
    <2> DEFINE first == Bytes(0, EdgeBytes)
               last == Bytes(n - EdgeBytes, EdgeBytes)
               middle == Ranges(n, MaxRanges)
    <2>1. /\ EdgeBytes \in Nat \ {0} /\ RangeBytes \in Nat \ {0} /\ n > 2 * EdgeBytes
          /\ Edge(n) = EdgeBytes /\ MaxRanges \in Nat /\ MaxRanges >= 2
          /\ SampleBytes = MaxRanges * RangeBytes /\ SampleBytes \in Nat
        BY <1>2, Long, Budget
    <2>2. Interior(n) \in Nat /\ ~ (Interior(n) <= SampleBytes)
        BY <1>2, <2>1, Long
    <2>3. Sampled(n) = first \cup last \cup middle
        BY <2>1, <2>2 DEF Sampled, Spread, Ranges, Start
    <2>4. /\ IsFiniteSet(middle) /\ Cardinality(middle) = SampleBytes
          /\ middle \subseteq EdgeBytes..(n - EdgeBytes - 1)
        BY <1>2, <2>1, RangesCount
    <2>5. /\ IsFiniteSet(first) /\ Cardinality(first) = EdgeBytes
          /\ IsFiniteSet(last) /\ Cardinality(last) = EdgeBytes
        <3>1. ASSUME NEW from \in Nat
              PROVE  /\ IsFiniteSet(Bytes(from, EdgeBytes))
                     /\ Cardinality(Bytes(from, EdgeBytes)) = EdgeBytes
            <4> DEFINE to == from + EdgeBytes - 1
            <4>1. /\ to \in Int /\ from \in Int /\ ~ (from > to)
                  /\ to - from + 1 = EdgeBytes /\ Bytes(from, EdgeBytes) = from..to
                BY <2>1 DEF Bytes
            <4> HIDE DEF to
            <4>2. /\ IsFiniteSet(from..to)
                  /\ Cardinality(from..to) = IF from > to THEN 0 ELSE to - from + 1
                BY <4>1, FS_Interval
            <4>3. QED
                BY <4>1, <4>2
        <3>2. 0 \in Nat /\ n - EdgeBytes \in Nat
            BY <2>1
        <3>3. QED
            BY <3>1, <3>2
    <2>6. first \cap last = {} /\ (first \cup last) \cap middle = {}
        BY <2>1, <2>4 DEF Bytes
    <2>7. {EdgeBytes, n - EdgeBytes - 1} \subseteq middle
        <3>1. /\ 0 \in 0..(MaxRanges - 1) /\ MaxRanges - 1 \in 0..(MaxRanges - 1)
            BY <2>1
        <3>2. /\ Bytes(Start(n, 0), RangeBytes) \subseteq middle
              /\ Bytes(Start(n, MaxRanges - 1), RangeBytes) \subseteq middle
            BY <3>1 DEF Ranges
        <3>3. /\ Start(n, 0) = EdgeBytes
              /\ Start(n, MaxRanges - 1) + RangeBytes = n - EdgeBytes
              /\ Start(n, MaxRanges - 1) \in Nat
            BY <1>2, <3>1, RangesApart
        <3>4. /\ EdgeBytes \in Bytes(Start(n, 0), RangeBytes)
              /\ n - EdgeBytes - 1 \in Bytes(Start(n, MaxRanges - 1), RangeBytes)
            BY <2>1, <3>3 DEF Bytes
        <3>5. QED
            BY <3>2, <3>4
    <2>8. first \cup last \cup middle \subseteq Bytes(0, n)
        BY <2>1, <2>4 DEF Bytes
    <2> HIDE DEF first, last, middle
    <2>9. Cardinality(first \cup last \cup middle) = 2 * EdgeBytes + SampleBytes
        <3>1. IsFiniteSet(first \cup last)
              /\ Cardinality(first \cup last) = EdgeBytes + EdgeBytes - Cardinality(first \cap last)
            BY <2>5, FS_Union
        <3>2. Cardinality(first \cap last) = 0 /\ Cardinality((first \cup last) \cap middle) = 0
            BY <2>6, FS_EmptySet
        <3>3. Cardinality((first \cup last) \cup middle)
                = Cardinality(first \cup last) + SampleBytes
                  - Cardinality((first \cup last) \cap middle)
            BY <2>4, <3>1, FS_Union
        <3>4. QED
            BY <2>1, <3>1, <3>2, <3>3
    <2>10. QED
        BY <2>2, <2>3, <2>7, <2>8, <2>9
<1>3. QED
    <2>1. Interior(n) \in Nat /\ SampleBytes \in Nat
        BY Budget DEF Interior, Edge
    <2>2. QED
        BY <1>1, <1>2, <2>1

-----------------------------------------------------------------------------
(* The checkpoints are of databases.                                        *)

Builds == {Stray} \cup (0..MaxBuilds)

\* No file of a set, nor of a candidate, is an authority.
Owned(image) ==
    \A m \in MemberNames : \A n \in {Target(m), Candidate(m)} :
        image[n] # Absent => image[n].of \in Builds

OwnedInv == \A image \in kept : Owned(image)

LEMMA OwnedStays ==
    ASSUME TypeOK, OwnedInv, Unmoved \/ Barrier
    PROVE  OwnedInv'
BY DEF TypeOK, OwnedInv, Owned, Unmoved, Barrier

\* A step that takes files away, or moves one within a set.
LEMMA OwnedMoves ==
    ASSUME TypeOK, OwnedInv, NEW changed, Visible(changed),
           \A m \in MemberNames : \A n \in {Target(m), Candidate(m)} :
               \/ changed[n] = Absent \/ changed[n].of \in Builds
               \/ \E k \in MemberNames : changed[n] \in {names[Target(k)], names[Candidate(k)]}
    PROVE  OwnedInv'
BY DEF TypeOK, OwnedInv, Owned, Visible

LEMMA OwnedInit == Init => OwnedInv
<1> SUFFICES ASSUME Init PROVE OwnedInv
    OBVIOUS
<1>1. PICK present \in Found :
        names = [n \in Names |->
            IF n = Active THEN File(First, TRUE)
            ELSE IF n[1] = "target" /\ n[2] \in present THEN File(0, TRUE) ELSE Absent]
    BY DEF Init
<1>2. 0 \in Builds /\ File(0, TRUE).of = 0
    BY FileAssumption DEF Builds, File
<1>3. \A m \in MemberNames : \A n \in {Target(m), Candidate(m)} : n \in Names /\ n # Active
    BY NamesApart
<1>4. QED
    BY <1>1, <1>2, <1>3 DEF Init, OwnedInv, Owned

LEMMA OwnedStep == IInv /\ OwnedInv /\ [Next]_vars => OwnedInv'
<1> SUFFICES ASSUME IInv, OwnedInv, [Next]_vars PROVE OwnedInv'
    OBVIOUS
<1> USE DEF IInv
<1>0. TypeOK /\ names \in kept /\ Owned(names) /\ DOMAIN names = Names
    BY DEF TypeInv, TypeOK, OwnedInv
<1>1. CASE Unmoved \/ Barrier
    BY <1>0, <1>1, OwnedStays
<1>2. ASSUME NEW from \in Names, NEW m \in MemberNames, Visible(Rename(from, Forensic(m)))
      PROVE  OwnedInv'
    <2> DEFINE changed == Rename(from, Forensic(m))
    <2>1. \A k \in MemberNames : \A n \in {Target(k), Candidate(k)} :
              changed[n] \in {Absent, names[n]}
        BY <1>0, NamesApart DEF Rename
    <2> HIDE DEF changed
    <2>2. QED
        BY <1>0, <1>2, <2>1, OwnedMoves DEF changed
<1>3. CASE Move
    <2>1. Target(Member) \in Names /\ Member \in MemberNames
        BY <1>3, MemberTyped DEF Move
    <2>2. QED
        BY <1>2, <1>3, <2>1 DEF Move
<1>4. ASSUME NEW n \in Names, NEW file,
             file = Absent \/ file.of \in Builds \/ n = Active,
             Visible([names EXCEPT ![n] = file])
      PROVE  OwnedInv'
    <2> DEFINE changed == [names EXCEPT ![n] = file]
    <2>1. \A k \in MemberNames : \A x \in {Target(k), Candidate(k)} :
              \/ changed[x] = Absent \/ changed[x].of \in Builds
              \/ changed[x] = names[x]
        BY <1>0, <1>4, NamesApart
    <2> HIDE DEF changed
    <2>2. QED
        BY <1>0, <1>4, <2>1, OwnedMoves DEF changed
<1>5. CASE RemoveOne
    <2>1. <<task.set, Member>> \in Names
        BY <1>5, MemberTyped DEF RemoveOne
    <2>2. QED
        BY <1>1, <1>4, <1>5, <2>1 DEF RemoveOne
<1>6. CASE DropCandidateCheckpoint
    <2>1. Candidate("auth") \in Names
        BY NamesApart, MembersAll
    <2>2. QED
        BY <1>1, <1>4, <1>6, <2>1 DEF DropCandidateCheckpoint
<1>7. CASE Strays
    <2>1. Target("database") \in Names /\ File(Stray, TRUE).of \in Builds
        BY NamesApart, MembersAll DEF File, Builds
    <2>2. QED
        BY <1>4, <1>7, <2>1 DEF Strays
<1>8. CASE RenameCandidate
    <2> DEFINE changed == Rename(Candidate("database"), Target("database"))
    <2>1. \A k \in MemberNames : \A x \in {Target(k), Candidate(k)} :
              changed[x] \in {Absent, names[x], names[Candidate("database")]}
        BY <1>0, NamesApart, MembersAll DEF Rename
    <2> HIDE DEF changed
    <2>2. Visible(changed) /\ "database" \in MemberNames
        BY <1>8, MembersAll DEF RenameCandidate, changed
    <2>3. QED
        BY <1>0, <2>1, <2>2, OwnedMoves
<1>9. ASSUME NEW folded \in BOOLEAN, PrepareCandidate(folded) PROVE OwnedInv'
    <2> DEFINE changed == [n \in Names |->
                   IF n[1] # "candidate" THEN names[n]
                   ELSE IF n[2] = "database" THEN File(built + 1, folded)
                   ELSE IF (n[2] = "auth") = folded THEN File(built + 1, TRUE) ELSE Absent]
    <2>1. built + 1 \in Builds /\ \A w : File(built + 1, w).of = built + 1
        BY <1>0, <1>9, FileAssumption DEF PrepareCandidate, Builds, TypeOK, File
    <2>2. \A k \in MemberNames :
              /\ changed[Target(k)] = names[Target(k)]
              /\ changed[Candidate(k)] = Absent \/ changed[Candidate(k)].of \in Builds
        <3>1. \A k \in MemberNames : /\ {Target(k), Candidate(k)} \subseteq Names
                                     /\ Target(k)[1] = "target" /\ Candidate(k)[1] = "candidate"
            BY NamesApart DEF Target, Candidate
        <3>2. QED
            BY <2>1, <3>1
    <2> HIDE DEF changed
    <2>3. Visible(changed)
        BY <1>9 DEF PrepareCandidate, changed
    <2>4. QED
        BY <1>0, <2>2, <2>3, OwnedMoves
<1>10. CASE OpenTarget
    <2> DEFINE mine == File(names[Target("database")].of, TRUE)
               changed == [names EXCEPT ![Target("wal")] = mine, ![Target("shm")] = mine]
    <2>1. mine.of \in Builds
        BY <1>0, <1>10, MembersAll DEF OpenTarget, Present, Owned, File
    <2>2. \A k \in MemberNames : \A x \in {Target(k), Candidate(k)} :
              changed[x] \in {names[x], mine}
        BY <1>0, NamesApart
    <2>3. Visible(changed)
        BY <1>10 DEF OpenTarget
    <2> HIDE DEF mine, changed
    <2>4. QED
        BY <1>0, <2>1, <2>2, <2>3, OwnedMoves
<1>11. CASE Replace
    <2>1. Fixed \in Names
        BY NamesApart, MembersAll DEF Fixed
    <2>2. CASE task.op = "checkpoint"
        <3>1. task.to \in Builds /\ File(task.to, task.synced).of = task.to
            BY <1>0, <2>2, MembersAll DEF BuildInv, Owned, File
        <3>2. QED
            BY <1>4, <1>11, <2>1, <3>1 DEF Replace
    <2>3. CASE task.op # "checkpoint"
        <3>1. Fixed = Active
            BY <2>3 DEF Fixed
        <3>2. QED
            BY <1>4, <1>11, <2>1, <3>1 DEF Replace
    <2>4. QED
        BY <2>2, <2>3
<1>12. CASE Retire
    <2> DEFINE changed == Rename(Active, Retired)
    <2>1. \A k \in MemberNames : \A x \in {Target(k), Candidate(k)} :
              changed[x] = names[x]
        BY <1>0, NamesApart DEF Rename
    <2> HIDE DEF changed
    <2>2. Visible(changed)
        BY <1>12 DEF Retire, changed
    <2>3. QED
        BY <1>0, <2>1, <2>2, OwnedMoves
<1>13. CASE PowerLoss
    BY <1>13 DEF PowerLoss, OwnedInv, Owned
<1>14. CASE UNCHANGED vars
    BY <1>1, <1>14 DEF vars, Unmoved
<1>15. CASE Preservation
    BY <1>1, <1>3, <1>7, <1>15
    DEF Preservation, BeginPreserve, BeginResume, Skip, ResumeRefused, Moved, Preserved
<1>16. CASE Publication
    BY <1>1, <1>5, <1>6, <1>8, <1>9, <1>10, <1>16
    DEF Publication, BeginRemove, Removed, BeginPublish, DiscardCandidate,
        CandidatePublished
<1>17. CASE Transition
    BY <1>1, <1>11, <1>12, <1>17
    DEF Transition, BeginCheckpoint, WriteTemp, Done, BeginReplace, BeginRetire,
        AlreadyDone,
        Collides, Matches
<1>18. CASE Stops
    BY <1>1, <1>18 DEF Stops
<1>19. QED
    BY <1>13, <1>14, <1>15, <1>16, <1>17, <1>18 DEF Next

\* Whatever the length of a database, the edge, budget and range sizes: its
\* checkpoint authenticates all of it, or exactly the edges and the budgeted
\* ranges, both ends of the interior included
\* (physical_file_checkpoint_interior_ranges).
THEOREM SamplesCover == Spec => []SampleCovers
<1>1. IInv /\ OwnedInv => SampleCovers
    <2> SUFFICES ASSUME IInv, OwnedInv, names[Target("auth")] # Absent,
                        names[Target("auth")].of # Stray
                 PROVE  Length[names[Target("auth")].of] \in Nat
        BY Samples DEF SampleCovers, Present
    <2>1. names[Target("auth")].of \in 0..MaxBuilds
        BY MembersAll DEF IInv, TypeInv, TypeOK, OwnedInv, Owned, Builds
    <2>2. QED
        BY <2>1, FileAssumption
<1>2. QED
    BY <1>1, Invariance, OwnedInit, OwnedStep, PTL DEF Spec

-----------------------------------------------------------------------------
(* Publication of immutable files: the same directory calls, by publishers  *)
(* that know nothing of each other.                                         *)

CONSTANT Publishers
VARIABLES pc, target, staged

Pub == INSTANCE ImmutablePublication

\* What the disk is known to hold: files under names, and every file that is
\* not synced is one a batch linked.
FilesInv ==
    /\ synced \subseteq Pub!Present /\ linked \subseteq Pub!Present
    /\ Pub!Present \ synced \subseteq loose
    /\ TornOnlyByBatch

\* What a publisher in the middle of its work has established.
WorkInv ==
    /\ \A p \in Publishers : pc[p] = "published" =>
          /\ content[target[p][1]] = target[p][2]
          /\ target[p][1] \in synced \cup unproved
    /\ \A p \in Publishers : \A s \in staged[p] : content[s[1]] = s[2]

\* What was acknowledged is complete and on disk.
AckInv ==
    \A s \in acked : s[1] \notin unproved \cup refused =>
        content[s[1]] = s[2] /\ s[1] \in synced \cap linked

PublicationInv == Pub!TypeOK /\ FilesInv /\ WorkInv /\ AckInv

\* A published pair is a name and a content, and a content is neither Missing
\* nor Junk.
LEMMA PublicationParts ==
    /\ \A s \in Pub!Publication : s[1] \in FileNames /\ s[2] \in Values
    /\ Missing \notin Values /\ Junk \notin Values /\ Missing # Junk
BY ContentAssumption DEF Pub!Publication

LEMMA PublicationInit == Pub!Init => PublicationInv
BY PublicationParts
DEF Pub!Init, PublicationInv, Pub!TypeOK, FilesInv, WorkInv, AckInv, TornOnlyByBatch,
    Pub!Present

-----------------------------------------------------------------------------
(* Steps that change no file                                                *)

\* The publisher's own steps that leave the directory as it is.
LEMMA ConstructStep ==
    ASSUME PublicationInv, NEW p \in Publishers, NEW n \in FileNames, NEW v \in Values,
           Pub!Construct(p, n, v)
    PROVE  PublicationInv'
<1>1. Pub!TypeOK'
  BY DEF PublicationInv, Pub!TypeOK, Pub!Construct, Pub!Goto, Pub!Publication, Pub!files,
      Pub!ghosts
<1>2. FilesInv' /\ AckInv'
  BY DEF PublicationInv, FilesInv, AckInv, TornOnlyByBatch, Pub!Present, Pub!Construct,
      Pub!files, Pub!ghosts
<1>3. WorkInv'
  BY DEF PublicationInv, Pub!TypeOK, WorkInv, Pub!Construct, Pub!Goto, Pub!files, Pub!ghosts
<1> QED BY <1>1, <1>2, <1>3 DEF PublicationInv

LEMMA VerifyExistingStep ==
    ASSUME PublicationInv, NEW p \in Publishers, Pub!VerifyExisting(p)
    PROVE  PublicationInv'
<1>1. Pub!TypeOK'
  BY PublicationParts DEF PublicationInv, Pub!TypeOK, Pub!VerifyExisting, Pub!Goto,
      Pub!files
<1>2. FilesInv' /\ AckInv'
  BY DEF PublicationInv, FilesInv, AckInv, TornOnlyByBatch, Pub!Present,
      Pub!VerifyExisting, Pub!files
<1>3. WorkInv'
  BY DEF PublicationInv, Pub!TypeOK, WorkInv, Pub!VerifyExisting, Pub!Goto, Pub!files
<1> QED BY <1>1, <1>2, <1>3 DEF PublicationInv

\* Giving up, colliding, opening a batch and the crash of a publisher only
\* move the publisher, and may only empty its batch.
LEMMA MoveStep ==
    ASSUME PublicationInv, NEW p \in Publishers,
           Pub!Collide(p) \/ Pub!GiveUp(p) \/ Pub!BeginBatch(p) \/ Pub!Crash(p)
    PROVE  PublicationInv'
<1>1. Pub!TypeOK'
  BY DEF PublicationInv, Pub!TypeOK, Pub!Collide, Pub!GiveUp, Pub!BeginBatch, Pub!Crash,
      Pub!Goto, Pub!files, Pub!ghosts
<1>2. FilesInv' /\ AckInv'
  BY DEF PublicationInv, FilesInv, AckInv, TornOnlyByBatch, Pub!Present,
         Pub!Collide, Pub!GiveUp, Pub!BeginBatch, Pub!Crash, Pub!files, Pub!ghosts
<1>3. WorkInv'
  BY DEF PublicationInv, Pub!TypeOK, WorkInv, Pub!Collide, Pub!GiveUp, Pub!BeginBatch,
      Pub!Crash, Pub!Goto, Pub!files, Pub!ghosts
<1> QED BY <1>1, <1>2, <1>3 DEF PublicationInv

-----------------------------------------------------------------------------
(* Steps that link                                                          *)

LEMMA LinkStep ==
    ASSUME PublicationInv, NEW p \in Publishers, Pub!Link(p)
    PROVE  PublicationInv'
<1> DEFINE n == target[p][1]
           v == target[p][2]
<1>1. /\ n \in FileNames /\ v \in Values /\ pc[p] = "temp"
      /\ content[n] = Missing /\ content' = [content EXCEPT ![n] = v]
      /\ synced' = synced \cup {n} /\ linked' = linked \ {n}
      /\ pc' = [pc EXCEPT ![p] = "published"]
      /\ UNCHANGED <<target, staged, acked, loose, unproved, refused>>
  BY PublicationParts DEF PublicationInv, Pub!TypeOK, Pub!Link, Pub!LinkUnder, Pub!Goto,
      Pub!ghosts
<1> HIDE DEF n, v
<1>2. Pub!TypeOK'
  BY <1>1 DEF PublicationInv, Pub!TypeOK
<1>3. FilesInv'
  BY <1>1, PublicationParts DEF PublicationInv, Pub!TypeOK, FilesInv, TornOnlyByBatch,
      Pub!Present
<1>4. WorkInv'
  <2>1. content'[n] = v /\ n \in synced'
    BY <1>1 DEF PublicationInv, Pub!TypeOK
  <2>2. ASSUME NEW q \in Publishers, pc'[q] = "published"
        PROVE  content'[target'[q][1]] = target'[q][2]
               /\ target'[q][1] \in synced' \cup unproved'
    <3>1. CASE q = p
      BY <2>1, <3>1, <1>1 DEF n, v
    <3>2. CASE q # p
      BY <2>2, <3>2, <1>1, PublicationParts DEF PublicationInv, Pub!TypeOK, WorkInv
    <3> QED BY <3>1, <3>2
  <2>3. ASSUME NEW q \in Publishers, NEW s \in staged'[q]
        PROVE  content'[s[1]] = s[2]
    BY <2>3, <1>1, PublicationParts DEF PublicationInv, Pub!TypeOK, WorkInv
  <2> QED BY <2>2, <2>3 DEF WorkInv
<1>5. AckInv'
  BY <1>1, PublicationParts DEF PublicationInv, Pub!TypeOK, AckInv
<1> QED BY <1>2, <1>3, <1>4, <1>5 DEF PublicationInv

LEMMA StageStep ==
    ASSUME PublicationInv, NEW p \in Publishers, NEW n \in FileNames, NEW v \in Values,
           Pub!Stage(p, n, v) \/ Pub!StageFails(p, n, v)
    PROVE  PublicationInv'
<1>1. /\ pc[p] = "batch"
      /\ \/ /\ content[n] = Missing /\ content' = [content EXCEPT ![n] = v]
            /\ synced' = synced \ {n} /\ linked' = linked \ {n}
            /\ loose' = loose \cup {n}
         \/ content[n] = v /\ UNCHANGED <<content, synced, linked, loose>>
      /\ content'[n] = v
      /\ staged' \in {staged, [staged EXCEPT ![p] = @ \cup {<<n, v>>}]}
      /\ UNCHANGED <<pc, target, acked, unproved, refused>>
  BY DEF PublicationInv, Pub!TypeOK, Pub!Stage, Pub!StageFails, Pub!LinkUnder, Pub!files
<1>2. Pub!TypeOK'
  BY <1>1 DEF PublicationInv, Pub!TypeOK, Pub!Publication
<1>3. FilesInv'
  BY <1>1, PublicationParts DEF PublicationInv, Pub!TypeOK, FilesInv, TornOnlyByBatch,
      Pub!Present
<1>4. WorkInv'
  <2>1. \A q \in Publishers : pc'[q] = "published" =>
           /\ content'[target'[q][1]] = target'[q][2]
           /\ target'[q][1] \in synced' \cup unproved'
    BY <1>1, PublicationParts DEF PublicationInv, Pub!TypeOK, WorkInv
  <2>2. \A m \in FileNames : content[m] # Missing => content'[m] = content[m]
    BY <1>1 DEF PublicationInv, Pub!TypeOK
  <2>3. ASSUME NEW q \in Publishers, NEW s \in staged'[q]
        PROVE  content'[s[1]] = s[2]
    <3>1. s \in staged[q] \/ s = <<n, v>>
      BY <2>3, <1>1 DEF PublicationInv, Pub!TypeOK
    <3>2. CASE s \in staged[q]
      BY <2>2, <3>2, PublicationParts DEF PublicationInv, Pub!TypeOK, WorkInv
    <3> QED BY <1>1, <3>1, <3>2
  <2> QED BY <2>1, <2>3 DEF WorkInv
<1>5. AckInv'
  BY <1>1, PublicationParts DEF PublicationInv, Pub!TypeOK, AckInv
<1> QED BY <1>2, <1>3, <1>4, <1>5 DEF PublicationInv

-----------------------------------------------------------------------------
(* Steps that sync                                                          *)

LEMMA DirectorySyncStep ==
    ASSUME PublicationInv, NEW p \in Publishers, Pub!DirectorySync(p)
    PROVE  PublicationInv'
<1>1. Pub!TypeOK'
  BY DEF PublicationInv, Pub!TypeOK, Pub!DirectorySync, Pub!Goto, Pub!Present
<1>2. FilesInv'
  BY DEF PublicationInv, FilesInv, TornOnlyByBatch, Pub!Present, Pub!DirectorySync
<1>3. WorkInv'
  BY DEF PublicationInv, Pub!TypeOK, WorkInv, Pub!DirectorySync, Pub!Goto
<1>4. AckInv'
  <2>1. /\ target[p] \in Pub!Publication
        /\ content[target[p][1]] = target[p][2]
        /\ target[p][1] \in synced \cup unproved
    BY DEF PublicationInv, Pub!TypeOK, WorkInv, Pub!DirectorySync
  <2>2. target[p][1] \in Pub!Present
    BY <2>1, PublicationParts DEF Pub!Present
  <2>3. linked \subseteq linked'
    BY DEF PublicationInv, FilesInv, Pub!DirectorySync
  <2> QED BY <2>1, <2>2, <2>3 DEF PublicationInv, AckInv, Pub!DirectorySync
<1> QED BY <1>1, <1>2, <1>3, <1>4 DEF PublicationInv

\* However a batch ends, its files stay and more of them are synced; what it
\* acknowledges was synced and linked before.
LEMMA EndBatchStep ==
    ASSUME PublicationInv, NEW p \in Publishers,
           Pub!Finish(p) \/ Pub!FinishFallback(p) \/ Pub!FinishRefused(p) \/ Pub!FinishFails(p)
    PROVE  PublicationInv'
<1>1. /\ pc' = [pc EXCEPT ![p] = "idle"] /\ staged' = [staged EXCEPT ![p] = {}]
      /\ UNCHANGED <<content, target, loose, unproved>>
      /\ acked' \in {acked, acked \cup staged[p]}
      /\ refused' \in {refused, refused \cup (Pub!StagedNames(p) \ linked)}
  BY DEF Pub!Finish, Pub!FinishFallback, Pub!FinishRefused, Pub!FinishFails, Pub!EndBatch,
      Pub!Goto, Pub!ghosts
<1>2. \A s \in staged[p] : s \in Pub!Publication /\ content[s[1]] = s[2] /\ s[1] \in Pub!Present
  BY PublicationParts DEF PublicationInv, Pub!TypeOK, WorkInv, Pub!Present
<1>3. Pub!StagedNames(p) \subseteq Pub!Present
  BY <1>2 DEF Pub!StagedNames
<1>4. /\ synced \subseteq synced' /\ synced' \subseteq Pub!Present
      /\ linked \subseteq linked' /\ linked' \subseteq Pub!Present
  BY <1>3 DEF PublicationInv, FilesInv, Pub!Finish, Pub!FinishFallback, Pub!FinishRefused,
      Pub!FinishFails
<1>5. acked' # acked =>
          \A s \in staged[p] : /\ s[1] \in synced'
                               /\ s[1] \in linked' \cup refused'
  BY <1>2 DEF Pub!Finish, Pub!FinishFallback, Pub!FinishRefused, Pub!FinishFails,
      Pub!StagedNames, Pub!ghosts
<1>6. Pub!TypeOK'
  BY <1>1, <1>3, <1>4 DEF PublicationInv, Pub!TypeOK, Pub!Present
<1>7. FilesInv'
  BY <1>1, <1>4 DEF PublicationInv, FilesInv, TornOnlyByBatch, Pub!Present
<1>8. WorkInv'
  BY <1>1, <1>4 DEF PublicationInv, Pub!TypeOK, WorkInv
<1>9. AckInv'
  <2>1. ASSUME NEW s \in acked', s[1] \notin unproved' \cup refused'
        PROVE  content'[s[1]] = s[2] /\ s[1] \in synced' \cap linked'
    <3>1. CASE s \in acked
      BY <2>1, <3>1, <1>1, <1>4 DEF PublicationInv, AckInv
    <3>2. CASE s \notin acked
      BY <2>1, <3>2, <1>1, <1>2, <1>5
    <3> QED BY <3>1, <3>2
  <2> QED BY <2>1 DEF AckInv
<1> QED BY <1>6, <1>7, <1>8, <1>9 DEF PublicationInv

-----------------------------------------------------------------------------
(* A power loss                                                             *)

LEMMA PowerLossStep ==
    ASSUME PublicationInv, Pub!PowerLoss
    PROVE  PublicationInv'
<1>1. PICK lost \in SUBSET (Pub!Present \ linked), torn \in SUBSET (Pub!Present \ synced) :
          /\ content' = [n \in FileNames |->
                            CASE n \in lost -> Missing
                              [] n \in torn \ lost -> Junk
                              [] OTHER -> content[n]]
          /\ synced' = Pub!Present \ lost
          /\ linked' = Pub!Present \ lost
  BY DEF Pub!PowerLoss
<1>2. /\ pc' = [p \in Publishers |-> "idle"]
      /\ staged' = [p \in Publishers |-> {}]
      /\ UNCHANGED <<target, acked, loose, unproved, refused>>
  BY DEF Pub!PowerLoss, Pub!ghosts
<1>3. \A n \in FileNames :
          /\ n \in lost => content'[n] = Missing
          /\ n \in torn \ lost => content'[n] = Junk
          /\ n \notin lost \cup torn => content'[n] = content[n]
  BY <1>1
<1>4. Pub!Present' = Pub!Present \ lost
  BY <1>3, PublicationParts DEF Pub!Present
<1>5. Pub!TypeOK'
  BY <1>1, <1>2, <1>3 DEF PublicationInv, Pub!TypeOK, Pub!Present
<1>6. FilesInv'
  BY <1>1, <1>2, <1>3, <1>4, PublicationParts DEF PublicationInv, FilesInv, TornOnlyByBatch
<1>7. WorkInv'
  BY <1>2 DEF WorkInv
<1>8. AckInv'
  BY <1>1, <1>2, <1>3, PublicationParts DEF PublicationInv, Pub!TypeOK, FilesInv, AckInv
<1> QED BY <1>5, <1>6, <1>7, <1>8 DEF PublicationInv

-----------------------------------------------------------------------------
LEMMA PublicationStep == PublicationInv /\ [Pub!Next]_Pub!vars => PublicationInv'
<1> SUFFICES ASSUME PublicationInv, [Pub!Next]_Pub!vars PROVE PublicationInv' OBVIOUS
<1>1. ASSUME NEW p \in Publishers, Pub!Exact(p) PROVE PublicationInv'
  BY <1>1, ConstructStep, LinkStep, VerifyExistingStep, DirectorySyncStep, MoveStep
  DEF Pub!Exact
<1>2. ASSUME NEW p \in Publishers, Pub!Batch(p) PROVE PublicationInv'
  BY <1>2, MoveStep, StageStep, EndBatchStep DEF Pub!Batch
<1>3. ASSUME NEW p \in Publishers, Pub!Crash(p) PROVE PublicationInv'
  BY <1>3, MoveStep
<1>4. CASE Pub!PowerLoss
  BY <1>4, PowerLossStep
<1>5. CASE UNCHANGED Pub!vars
  BY <1>5 DEF PublicationInv, Pub!TypeOK, FilesInv, WorkInv, AckInv, TornOnlyByBatch,
      Pub!Present,
              Pub!vars, Pub!files, Pub!ghosts
<1> QED BY <1>1, <1>2, <1>3, <1>4, <1>5 DEF Pub!Next

LEMMA PublicationInvariance == Pub!Spec => []PublicationInv
BY PublicationInit, PublicationStep, PTL DEF Pub!Spec

\* Every step keeps the types, and a publisher that is in no batch has nothing
\* staged.
THEOREM PublicationTypeCorrect == Pub!Spec => []Pub!TypeOK
<1>1. PublicationInv => Pub!TypeOK
  BY DEF PublicationInv
<1> QED BY <1>1, PublicationInvariance, PTL

\* What a caller was told is published keeps its exact bytes through every
\* crash, for any number of concurrent publishers, unless an exact publication
\* accepted a file whose bytes were not synced or a platform refused to sync the
\* directory of a batch.
THEOREM AcknowledgedStays == Pub!Spec => []AckedStays
<1>1. PublicationInv => AckedStays
  BY DEF PublicationInv, AckInv, AckedStays
<1> QED BY <1>1, PublicationInvariance, PTL

\* Only names that a batch linked unsynced ever show torn bytes.
THEOREM ExactIsAtomic == Pub!Spec => []TornOnlyByBatch
<1>1. PublicationInv => TornOnlyByBatch
  BY DEF PublicationInv, FilesInv
<1> QED BY <1>1, PublicationInvariance, PTL

\* No step of a program replaces or removes what a name shows.
THEOREM NothingReplaced == Pub!Spec => Pub!NeverReplaced
<1> DEFINE Kept == \A n \in FileNames : content[n] # Missing => content'[n] = content[n]
<1>1. Pub!TypeOK /\ [Pub!Next]_Pub!vars => [~ Pub!PowerLoss => Kept]_Pub!vars
  <2> SUFFICES ASSUME Pub!TypeOK, Pub!Next, ~ Pub!PowerLoss PROVE Kept
    BY DEF Pub!vars
  <2>1. ASSUME NEW p \in Publishers, Pub!Exact(p) PROVE Kept
    BY <2>1, PublicationParts
    DEF Pub!TypeOK, Pub!Exact, Pub!Construct, Pub!Link, Pub!LinkUnder, Pub!VerifyExisting,
        Pub!Collide,
        Pub!DirectorySync, Pub!GiveUp, Pub!files
  <2>2. ASSUME NEW p \in Publishers, Pub!Batch(p) PROVE Kept
    BY <2>2
    DEF Pub!TypeOK, Pub!Batch, Pub!BeginBatch, Pub!Stage, Pub!StageFails, Pub!LinkUnder,
        Pub!Finish,
        Pub!FinishFallback, Pub!FinishRefused, Pub!FinishFails, Pub!files
  <2>3. ASSUME NEW p \in Publishers, Pub!Crash(p) PROVE Kept
    BY <2>3 DEF Pub!Crash, Pub!files
  <2> QED BY <2>1, <2>2, <2>3 DEF Pub!Next
<1> QED BY <1>1, PublicationTypeCorrect, PTL DEF Pub!Spec, Pub!NeverReplaced
=============================================================================
