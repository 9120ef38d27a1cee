---------------------------- MODULE PatriciaIndex ----------------------------
(***************************************************************************)
(* The node store of authenticated_patricia.rs: ordinary updates, which    *)
(* publish each new root whole before they return it, and a construction,  *)
(* which keeps new nodes in memory and publishes them when its budget runs *)
(* out or when it is finished.                                             *)
(*                                                                         *)
(* A node is found by its content, so what is on disk is a set of nodes    *)
(* (loose or packed).  Publication may stop after some nodes; a packed one *)
(* is all or nothing, whatever it returns.  The host keeps roots it was    *)
(* given; after each call on a construction it declares the root it got    *)
(* as live, and after a crash it has only the roots that were completed.   *)
(***************************************************************************)
EXTENDS PatriciaTrie

CONSTANTS
    Keys, Values,
    Batches,    \* the records one insertion may have
    Removals,   \* the sets of keys one removal may have
    Budget,     \* nodes a construction may keep in memory
    MaxUpdates, \* bound on updates
    MaxFaults   \* bound on failed publications and crashes

ASSUME PatriciaAssumption ==
    /\ Keys \subseteq Seq({0, 1}) \ {<<>>} /\ IsFiniteSet(Keys)
    /\ Batches \subseteq UNION {[D -> Values] : D \in (SUBSET Keys) \ {{}}}
    /\ Removals \subseteq (SUBSET Keys) \ {{}}
    /\ Budget \in Nat /\ MaxUpdates \in Nat /\ MaxFaults \in Nat

VARIABLES
    persisted,      \* the nodes on disk
    durable,        \* the host's completed roots, each with the map it stands for
    staged,         \* the construction's nodes in memory
    checkpoints,    \* checkpoint_roots
    live,           \* live_roots
    held,           \* the construction's root the host holds
    tip,            \* the root of the call in progress, or held
    kept,           \* the roots the host asked to be checkpointed
    mode,           \* "none", "idle" or "busy": the construction
    updates, faults

construction == <<staged, checkpoints, live, held, tip, kept, mode>>
vars == <<persisted, durable, construction, updates, faults>>

NoRecords == [k \in {} |-> Absent]
NoRoot == [tree |-> EmptyTree, map |-> NoRecords]
With(map, records) == [k \in DOMAIN map \cup DOMAIN records |->
                          IF k \in DOMAIN records THEN records[k] ELSE map[k]]
Without(map, keys) == Restrict(map, DOMAIN map \ keys)

Init ==
    /\ persisted = {} /\ durable = {NoRoot}
    /\ staged = {} /\ checkpoints = {} /\ live = {}
    /\ held = NoRoot /\ tip = NoRoot /\ kept = {} /\ mode = "none"
    /\ updates = 0 /\ faults = 0

Update == updates < MaxUpdates /\ updates' = updates + 1
Fault == faults < MaxFaults /\ faults' = faults + 1

Readable(tree, nodes) == Nodes(tree) \subseteq nodes

\* Publication that fails: loose, with the nodes before the failure on disk and
\* perhaps the one that failed; or packed, with none or all.
PublishFails(order) ==
    /\ Fault
    /\ order # <<>>
    /\ \E n \in 0..Len(order) : persisted' = persisted \cup ToSet(SubSeq(order, 1, n))

-----------------------------------------------------------------------------
(* Ordinary updates.                                                       *)

\* What insert_many stages: the nodes of the trees in between.
Staged(trees) == UNION {Nodes(trees[i]) : i \in 2..Len(trees)} \ Nodes(trees[1])

\* publish_staged_roots writes parents first.
Reachable(tree, nodes) == Reverse(ChildFirst(tree, nodes))

Replace(r, new) == durable' = (durable \ {r}) \cup {new}

InsertMany(r, records) ==
    LET steps == InsertSteps(r.tree, records)
        order == Reachable(Last(steps), Staged(steps))
    IN
    /\ mode = "none" /\ Update
    /\ Last(steps) # Malformed
    /\ \/ /\ persisted' = persisted \cup ToSet(order)
          /\ Replace(r, [tree |-> Last(steps), map |-> With(r.map, records)])
          /\ UNCHANGED faults
       \/ /\ PublishFails(order)
          /\ UNCHANGED durable
    /\ UNCHANGED construction

\* Mutant: a root that reads is taken to have its subtrees.
VerifiesRoot(order) == \A i \in DOMAIN order : i = 1 => order[i] \in persisted

Verifies(order) == ToSet(order) \subseteq persisted

\* The same, but every new node must be on disk already.
InsertManyVerifyExisting(r, records) ==
    LET steps == InsertSteps(r.tree, records)
        order == Reachable(Last(steps), Staged(steps))
    IN
    /\ mode = "none" /\ Update
    /\ Last(steps) # Malformed
    /\ Verifies(order)
    /\ Replace(r, [tree |-> Last(steps), map |-> With(r.map, records)])
    /\ UNCHANGED <<persisted, construction, faults>>

\* One key after another; each publishes the branches it copies, lowest first.
RemoveMany(r, keys) ==
    LET steps == RemoveSteps(r.tree, keys)
        copies(i) == ChildFirst(steps[i], Nodes(steps[i]) \ Nodes(steps[i - 1]))
        order == FlattenSeq([i \in 1..(Len(steps) - 1) |-> copies(i + 1)])
    IN
    /\ mode = "none" /\ Update
    /\ Last(steps) # Malformed
    /\ \/ /\ persisted' = persisted \cup ToSet(order)
          /\ Replace(r, [tree |-> Last(steps), map |-> Without(r.map, keys)])
          /\ UNCHANGED faults
       \/ /\ PublishFails(order)
          /\ UNCHANGED durable
    /\ UNCHANGED construction

-----------------------------------------------------------------------------
(* A construction.                                                         *)

Begin(r) ==
    /\ mode = "none"
    /\ mode' = "idle" /\ held' = r /\ tip' = r
    /\ staged' = {} /\ checkpoints' = {} /\ live' = {} /\ kept' = {}
    /\ UNCHANGED <<persisted, durable, updates, faults>>

\* The host's call of checkpoint, for a root it wants to keep.
Checkpoint ==
    /\ mode = "idle" /\ held \notin kept /\ kept = {}
    /\ kept' = kept \cup {held}
    /\ checkpoints' = checkpoints \cup ({held.tree} \cap staged)
    /\ UNCHANGED <<persisted, durable, staged, live, held, tip, mode, updates, faults>>

\* The host calls a mutation.
Call ==
    /\ mode = "idle" /\ updates < MaxUpdates
    /\ mode' = "busy"
    /\ UNCHANGED <<persisted, durable, staged, checkpoints, live, held, tip, kept, updates, faults>>

\* Roots published together, children first.
Roots(trees) ==
    FoldSet(LAMBDA t, s : s \o SelectSeq(ChildFirst(t, staged), LAMBDA n : n \notin ToSet(s)),
            <<>>, trees)

\* The nodes written leave memory, unless the publication was a packed one that
\* failed.
PublishConstructionFails(order) ==
    /\ Fault
    /\ \/ \E n \in 0..(Len(order) - 1), landed \in {0, 1} :
            /\ persisted' = persisted \cup ToSet(SubSeq(order, 1, n + landed))
            /\ staged' = staged \ ToSet(SubSeq(order, 1, n))
       \/ /\ persisted' = persisted \cup ToSet(order)
          /\ UNCHANGED staged

\* construction_mutation_reservation: the path of the longest key, and a leaf.
Reservation == 2 + CHOOSE n \in {Len(k) : k \in Keys} : \A k \in Keys : Len(k) <= n
OverBudget == staged # {} /\ Cardinality(staged) + Reservation > Budget

FlushedRoots == checkpoints \cup live \cup {tip.tree}

\* prepare_mutation makes room first.
Flush ==
    /\ mode = "busy" /\ OverBudget
    /\ LET order == Roots(FlushedRoots) IN
        \/ /\ persisted' = persisted \cup ToSet(order)
           /\ staged' = {} /\ checkpoints' = {} /\ live' = {}
           /\ UNCHANGED <<tip, mode, faults>>
        \/ /\ PublishConstructionFails(order)
           /\ tip' = held /\ mode' = "idle"
           /\ UNCHANGED <<checkpoints, live>>
    /\ UNCHANGED <<durable, held, kept, updates>>

Stage(new) ==
    /\ Update
    /\ staged' = staged \cup (Nodes(new.tree) \ Nodes(tip.tree))
    /\ tip' = new
    /\ UNCHANGED <<persisted, durable, checkpoints, live, held, kept, mode, faults>>

\* One record of construction_insert_many; a key that fits nowhere fails the
\* call and leaves what was staged before it.
ConstructionInsert(k, v) ==
    LET tree == Insert(tip.tree, k, v) IN
    /\ mode = "busy" /\ ~OverBudget
    /\ IF tree = Malformed
       THEN /\ tip' = held /\ mode' = "idle"
            /\ UNCHANGED <<persisted, durable, staged, checkpoints, live, held, kept, updates, faults>>
       ELSE Stage([tree |-> tree, map |-> With(tip.map, [j \in {k} |-> v])])

\* One key of construction_remove_many.
ConstructionRemove(k) ==
    LET tree == RemoveKey(tip.tree, k) IN
    /\ mode = "busy" /\ ~OverBudget
    /\ tree # Malformed
    /\ Stage([tree |-> tree, map |-> Without(tip.map, {k})])

\* A bulk insertion publishes the root it starts from, merges the records, and
\* publishes what it built; nothing of it is staged.
ConstructionInsertBulk(records) ==
    LET tree == BulkInsertMany(tip.tree, records)
        before == Roots({tip.tree})
        built == ChildFirst(tree, Nodes(tree) \ Nodes(tip.tree))
    IN
    /\ mode = "busy" /\ ~OverBudget /\ tip = held /\ Update
    /\ tree # Malformed
    /\ \/ /\ persisted' = persisted \cup ToSet(before) \cup ToSet(built)
          /\ staged' = staged \ ToSet(before)
          /\ tip' = [tree |-> tree, map |-> With(tip.map, records)]
          /\ UNCHANGED <<mode, faults>>
       \/ /\ PublishConstructionFails(before)
          /\ mode' = "idle" /\ UNCHANGED tip
       \/ /\ Fault
          /\ \E n \in 0..Len(built) :
                persisted' = persisted \cup ToSet(before) \cup ToSet(SubSeq(built, 1, n))
          /\ staged' = staged \ ToSet(before)
          /\ mode' = "idle" /\ UNCHANGED tip
    /\ UNCHANGED <<durable, checkpoints, live, held, kept>>

\* The call returns, and the host declares its root live with set_live_roots.
Return ==
    /\ mode = "busy" /\ tip # held
    /\ held' = tip /\ mode' = "idle"
    /\ live' = {tip.tree} \cap staged
    /\ UNCHANGED <<persisted, durable, staged, checkpoints, tip, kept, updates, faults>>

FinishConstruction ==
    /\ mode = "idle"
    /\ LET order == Roots(checkpoints \cup live) IN
        \/ /\ persisted' = persisted \cup ToSet(order)
           /\ staged' = {} /\ checkpoints' = {} /\ live' = {}
           /\ mode' = "none"
           /\ durable' = kept \cup {held}
           /\ UNCHANGED faults
        \/ /\ PublishConstructionFails(order)
           /\ UNCHANGED <<durable, checkpoints, live, mode>>
    /\ UNCHANGED <<held, tip, kept, updates>>

Crash ==
    /\ mode # "none" /\ Fault
    /\ mode' = "none"
    /\ staged' = {} /\ checkpoints' = {} /\ live' = {}
    /\ held' = NoRoot /\ tip' = NoRoot /\ kept' = {}
    /\ UNCHANGED <<persisted, durable, updates>>

-----------------------------------------------------------------------------
Next ==
    \/ \E r \in durable :
        \/ \E records \in Batches : InsertMany(r, records) \/ InsertManyVerifyExisting(r, records)
        \/ \E keys \in Removals : RemoveMany(r, keys)
        \/ Begin(r)
    \/ Checkpoint \/ Call \/ Flush
    \/ \E k \in Keys :
        \/ \E v \in Values : ConstructionInsert(k, v)
        \/ ConstructionRemove(k)
    \/ \E records \in Batches : ConstructionInsertBulk(records)
    \/ Return \/ FinishConstruction \/ Crash

Spec == Init /\ [][Next]_vars

-----------------------------------------------------------------------------
AllRoots == durable \cup (IF mode = "none" THEN {} ELSE kept \cup {held, tip})

\* Type correctness: roots have the keys they stand for.
TypeOK ==
    /\ \A r \in AllRoots : DOMAIN r.map \subseteq Keys
    /\ mode \in {"none", "idle", "busy"}
    /\ checkpoints \cup live \subseteq staged \cup persisted
    /\ mode = "none" => staged = {}
    /\ updates \in 0..MaxUpdates /\ faults \in 0..MaxFaults

Maps == UNION {[D -> Values] : D \in SUBSET Keys}
CanonicalRoot == [m \in Maps |-> Canonical(m)]

\* A root depends on its records alone, whatever insertions and removals, one
\* by one or in bulk, led to it.
RootsCanonical == \A r \in AllRoots : r.tree = CanonicalRoot[r.map]

\* A lookup finds exactly the records (a key that ends where two others part is
\* Malformed, never found), and a prefix lookup the first of them in key order.
LookupsExact ==
    \A r \in (IF mode = "none" THEN durable ELSE {held}) :
        /\ \A k \in Keys :
            IF k \in DOMAIN r.map THEN Lookup(r.tree, k) = r.map[k]
            ELSE Lookup(r.tree, k) \in {Absent, Malformed}
        /\ \A p \in Keys, limit \in 1..2 :
            LET all == InOrder({k \in DOMAIN r.map : IsPrefix(p, k)})
                some == SubSeq(all, 1, IF limit < Len(all) THEN limit ELSE Len(all))
            IN LookupPrefix(r.tree, p, limit) = [i \in DOMAIN some |-> <<some[i], r.map[some[i]]>>]

\* Where a bulk insertion may be called, it builds the root that one by one
\* gives, and refuses the same records.
BulkAgrees ==
    mode = "busy" /\ tip = held =>
        \A records \in Batches :
            BulkInsertMany(tip.tree, records) = InsertAll(tip.tree, records)

\* Every completed root reads whole from disk, after failed publications, flushes
\* and crashes too; every root a construction's host holds reads from disk and memory.
RootsReadable ==
    /\ \A r \in durable : Readable(r.tree, persisted)
    /\ mode # "none" => \A r \in kept \cup {held, tip} : Readable(r.tree, persisted \cup staged)
=============================================================================
