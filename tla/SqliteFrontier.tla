--------------------------- MODULE SqliteFrontier ---------------------------
(***************************************************************************)
(* The frontier database of sqlite_frontier.rs behind the facade of        *)
(* sqlite_database.rs: one file, several connections (of one process or of *)
(* several), each of which applies accepted batches one per transaction or *)
(* builds a candidate of many batches in one transaction.                  *)
(*                                                                         *)
(* SQLite's contract is assumed: a transaction that began IMMEDIATE is the *)
(* only writer, a commit under synchronous=FULL is whole and durable, and  *)
(* a connection that closes or dies rolls its transaction back.            *)
(*                                                                         *)
(* The nodes of the clock and batch maps are stored under their digests    *)
(* and neither changed nor deleted, so their trees stand for them.  The    *)
(* nodes of the document map are stored under the document, in place: of   *)
(* an older root only some nodes may still be found.                       *)
(***************************************************************************)
EXTENDS AuthenticatedMap

CONSTANTS
    Conns,   \* connections
    Batch    \* the batches that exist: each with its peer, its heads (the
             \* batches it depends on) and the documents it writes

Ids == DOMAIN Batch
Heads == [b \in Ids |-> Batch[b].heads]
Docs == UNION {Batch[b].docs : b \in Ids}
None == 0

Past[b \in Ids] == {b} \cup UNION {Past[h] : h \in Heads[b]}

\* Batches, peers and documents are keys, and every batch comes after its heads;
\* the batches of one peer depend on one another (a peer accepts its own batches
\* in order).
ASSUME BatchAssumption ==
    /\ Ids \subseteq Keys
    /\ \A b \in Ids : Batch[b].peer \in Keys /\ Batch[b].docs \subseteq Keys
    /\ \A b \in Ids : \A h \in Heads[b] : h \in Ids /\ h < b
    /\ \A a, b \in Ids : Batch[a].peer = Batch[b].peer =>
           a \in Past[b] \/ b \in Past[a]

VARIABLES
    db,     \* what is committed
    tx,     \* per connection: what its open candidate transaction sees, or Closed
    known,  \* per connection: the frontier root its host holds
    asked   \* per connection: the batch between the checks of an ordinary apply
            \* and its transaction, or None

vars == <<db, tx, known, asked>>

\* A frontier root: how many batches, the document map and the batch map.
EmptyRoot == [count |-> 0, docs |-> Nil, batches |-> Nil]
EmptyFile ==
    [root |-> EmptyRoot,              \* the frontier row
     rows |-> <<>>,                   \* applied_batches, by sequence
     table |-> [d \in Docs |-> Nil],  \* frontier_documents
     stamp |-> EmptyRoot,             \* the materialization stamp
     recorded |-> {}]                 \* sequences in materialization_batches
Closed == [EmptyFile EXCEPT !.stamp = Nil]

Init ==
    /\ db = EmptyFile
    /\ tx = [c \in Conns |-> Closed]
    /\ known = [c \in Conns |-> EmptyRoot]
    /\ asked = [c \in Conns |-> [batch |-> None, materialize |-> FALSE]]

View(c) == IF tx[c] = Closed THEN db ELSE tx[c]
NotAsked == [batch |-> None, materialize |-> FALSE]

-----------------------------------------------------------------------------
(* Reading.                                                                *)

\* Mutant: a row found under its key alone.
LoadsByKey(view, link) == view.table[link.key] # Nil

\* load_frontier_map_node: the row of the key must have the link's digest.
Loads(view, link) == view.table[link.key] = link

\* frontier_document: the batch that wrote d last as root r has it, None when
\* r has no d, or Corrupt (-1) when a node on the way is not r's any more.
Corrupt == -1
FrontierDocument(view, r, d) ==
    LET path == Path(r.docs, d)
    IN  IF \E i \in DOMAIN path : ~ Loads(view, path[i]) THEN Corrupt
        ELSE IF path # <<>> /\ Last(path).key = d THEN view.table[d].val
        ELSE None

\* read_frontier_documents walks the whole map.
DocumentsReadable(view, r) == \A n \in Nodes(r.docs) : Loads(view, n)

\* Mutant: only the last row is looked at.
RowsLatest(view, b) == {i \in {Len(view.rows)} \ {0} : view.rows[i].batch = b}

\* load_batch.
Rows(view, b) == {i \in DOMAIN view.rows : view.rows[i].batch = b}
Row(view, b) == view.rows[CHOOSE i \in Rows(view, b) : TRUE]

\* What the batch map binds to a batch: its causal record, clock included.
CausalRecord(row) == <<row.batch, row.counter, row.clock>>

\* authenticated_batch_record: in r's batch map, with its row, whose own dot is
\* in its clock.
Authenticated(view, r, b) ==
    /\ Lookup(r.batches, b, <<>>) # <<>>
    /\ Rows(view, b) # {}
    /\ Lookup(Row(view, b).clock, Batch[b].peer, 0) = Row(view, b).counter

DescendsFrom(view, r, d, a) ==
    /\ Authenticated(view, r, a)
    /\ Lookup(Row(view, d).clock, Batch[a].peer, 0) >= Row(view, a).counter

-----------------------------------------------------------------------------
(* Applying one batch.                                                     *)

\* The clock of the batches b depends on.
HeadsClock(view, b) ==
    LET heads == Sorted(Heads[b])
        upto[i \in 0..Len(heads)] ==
            IF i = 0 THEN Nil ELSE Union(upto[i - 1], Row(view, heads[i]).clock)
    IN  upto[Len(heads)]

\* The row of b behind a clock.  The counter b carries is the next of its peer.
RowBehind(clock, b) ==
    LET counter == Lookup(clock, Batch[b].peer, 0) + 1
    IN  [batch |-> b, counter |-> counter,
         clock |-> UpsertClock(clock, Batch[b].peer, counter)]

\* derive_causal_clock_root.
NextRow(view, b) == RowBehind(HeadsClock(view, b), b)

WrittenDocs(b) == Sorted(Batch[b].docs)
UpsertAll(t, b, docs) ==
    LET upto[i \in 0..Len(docs)] ==
            IF i = 0 THEN t ELSE Upsert(upto[i - 1], docs[i], b)
    IN  upto[Len(docs)]
UpsertDocs(t, b) == UpsertAll(t, b, WrittenDocs(b))

\* The root the host computed for the state behind b.
Post(view, r, b) ==
    [count |-> r.count + 1,
     docs |-> UpsertDocs(r.docs, b),
     batches |-> Upsert(r.batches, b, CausalRecord(NextRow(view, b)))]

\* Mutant: rows that are there already stay as they are.
StoreMissing(table, old, new) ==
    LET written == Nodes(new) \ Nodes(old)
    IN  [d \in DOMAIN table |->
            IF table[d] = Nil /\ \E n \in written : n.key = d
            THEN CHOOSE n \in written : n.key = d ELSE table[d]]

\* The rows of the new document map that the old one did not have.
Store(table, old, new) ==
    LET written == Nodes(new) \ Nodes(old)
    IN  [d \in DOMAIN table |->
            IF \E n \in written : n.key = d
            THEN CHOOSE n \in written : n.key = d ELSE table[d]]

\* The nodes an upsert of some documents reads.
DocsLoad(view, r, docs) ==
    \A d \in docs : \A i \in DOMAIN Path(r.docs, d) : Loads(view, Path(r.docs, d)[i])

\* Mutant: without the stamp of the materialization.
AdmissibleUnstamped(view, r, b, materialize) ==
    /\ view.root = r
    /\ Rows(view, b) = {}
    /\ \A h \in Heads[b] : Authenticated(view, r, h)

\* The checks before a transaction: the frontier row is the root the host holds,
\* b is new, what it depends on is accepted, and materialization is up to date.
Admissible(view, r, b, materialize) ==
    /\ view.root = r
    /\ Rows(view, b) = {}
    /\ \A h \in Heads[b] : Authenticated(view, r, h)
    /\ materialize => view.stamp = r

\* The row of b, under the next sequence.
Inserted(view, b) == [view EXCEPT !.rows = Append(@, NextRow(view, b))]

\* The UNIQUE keys refuse a second row of the sequence or of the batch.
Vacant(view, r, b) == Len(view.rows) = r.count /\ Rows(view, b) = {}

WithDocs(view, r, b, docs) ==
    [view EXCEPT !.table = Store(@, r.docs, UpsertAll(r.docs, b, docs))]

Materialized(view, post) ==
    [view EXCEPT !.stamp = post, !.recorded = @ \cup {post.count}]

\* The frontier row becomes post, and the stamp with it if b is materialized.
Advanced(view, post, materialize) ==
    [(IF materialize THEN Materialized(view, post) ELSE view) EXCEPT !.root = post]

\* apply_in_open_transaction to its end.  Writing no documents leaves the map to
\* seed_terminal_frontier_documents.
Applied(view, r, b, materialize, documents) ==
    LET rows == Inserted(view, b)
        docs == IF documents
                THEN WithDocs(rows, r, b, WrittenDocs(b)) ELSE rows
    IN  Advanced(docs, Post(view, r, b), materialize)

\* What it leaves behind when it fails: the row and the documents before the one
\* that was unreadable or not written; or all of them, with the materialization
\* if b came with one (the host's root was wrong, or the last write failed).
Partial(view, r, b, materialize) ==
    LET docs == WrittenDocs(b)
        Wrote(n) == WithDocs(Inserted(view, b), r, b, SubSeq(docs, 1, n))
        readable == {n \in 0..Len(docs) : DocsLoad(view, r, ToSet(SubSeq(docs, 1, n)))}
    IN  {Wrote(n) : n \in readable}
            \cup {Materialized(Wrote(n), Post(view, r, b)) :
                     n \in {k \in readable : materialize /\ k = Len(docs)}}

-----------------------------------------------------------------------------
(* Ordinary apply: checks, then a transaction of its own.                  *)

Writable(c) == \A d \in Conns \ {c} : tx[d] = Closed

Check(c, b, materialize) ==
    /\ tx[c] = Closed /\ asked[c] = NotAsked
    /\ Admissible(db, known[c], b, materialize)
    /\ asked' = [asked EXCEPT ![c] = [batch |-> b, materialize |-> materialize]]
    /\ UNCHANGED <<db, tx, known>>

\* After BEGIN IMMEDIATE the frontier row is read again.
Fresh(c) == db.root = known[c]

\* BEGIN IMMEDIATE, apply_in_open_transaction and COMMIT; nothing in between can
\* be seen by another connection or survive a crash.
Apply(c) ==
    LET b == asked[c].batch
    IN  /\ b # None /\ Writable(c) /\ Fresh(c) /\ Vacant(db, known[c], b)
        /\ DocsLoad(db, known[c], Batch[b].docs)
        /\ db' = Applied(db, known[c], b, asked[c].materialize, TRUE)
        /\ known' = [known EXCEPT ![c] = db'.root]
        /\ asked' = [asked EXCEPT ![c] = NotAsked]
        /\ UNCHANGED tx

\* The frontier moved, another connection holds the lock, or the transaction
\* failed and was rolled back.
ApplyFails(c) ==
    /\ asked[c] # NotAsked
    /\ asked' = [asked EXCEPT ![c] = NotAsked]
    /\ UNCHANGED <<db, tx, known>>

\* The host reads the frontier row and validates it.
Refresh(c) ==
    /\ asked[c] = NotAsked
    /\ known' = [known EXCEPT ![c] = View(c).root]
    /\ UNCHANGED <<db, tx, asked>>

-----------------------------------------------------------------------------
(* A candidate build: many batches, one transaction.                       *)

Begin(c) ==
    /\ tx[c] = Closed /\ asked[c] = NotAsked /\ Writable(c)
    /\ tx' = [tx EXCEPT ![c] = db]
    /\ UNCHANGED <<db, known, asked>>

CandidateStep(c, view) ==
    /\ tx' = [tx EXCEPT ![c] = view]
    /\ UNCHANGED <<db, asked>>

ApplyCandidate(c, b, materialize) ==
    /\ tx[c] # Closed
    /\ Admissible(tx[c], known[c], b, materialize) /\ Vacant(tx[c], known[c], b)
    /\ DocsLoad(tx[c], known[c], Batch[b].docs)
    /\ CandidateStep(c, Applied(tx[c], known[c], b, materialize, TRUE))
    /\ known' = [known EXCEPT ![c] = tx'[c].root]

\* Nothing undoes the first writes of a step that fails.
ApplyCandidateFails(c, b) ==
    /\ tx[c] # Closed
    /\ Vacant(tx[c], known[c], b)
    /\ \E materialize \in BOOLEAN :
          /\ Admissible(tx[c], known[c], b, materialize)
          /\ \E view \in Partial(tx[c], known[c], b, materialize) : CandidateStep(c, view)
    /\ UNCHANGED known

Unseeded(view) == \A d \in Docs : view.table[d] = Nil

ApplyTerminalPrefix(c, b) ==
    /\ tx[c] # Closed /\ Unseeded(tx[c])
    /\ Admissible(tx[c], known[c], b, FALSE) /\ Vacant(tx[c], known[c], b)
    /\ CandidateStep(c, Applied(tx[c], known[c], b, FALSE, FALSE))
    /\ known' = [known EXCEPT ![c] = tx'[c].root]

\* The documents as of a history, each with the batch that wrote it last.
DocumentsAt(history) ==
    LET Writers(d) == {i \in DOMAIN history : d \in Batch[history[i]].docs}
        LastOf(s) == CHOOSE i \in s : \A j \in s : j <= i
    IN  [d \in {e \in Docs : Writers(e) # {}} |-> history[LastOf(Writers(d))]]

History(view) == [i \in 1..view.root.count |-> view.rows[i].batch]

\* seed_terminal_frontier_documents_candidate builds the map in one pass and
\* refuses a root that differs from the frontier's.
SeedTerminalDocuments(c) ==
    /\ tx[c] # Closed /\ Unseeded(tx[c])
    /\ LET built == Terminal(DocumentsAt(History(tx[c])))
       IN  /\ built = tx[c].root.docs
           /\ CandidateStep(c, [tx[c] EXCEPT !.table = Store(@, Nil, built)])
    /\ UNCHANGED known

\* Terminal construction of the materialized tables, closed by its stamp.
FinishTerminalConstruction(c) ==
    /\ tx[c] # Closed
    /\ tx[c].recorded = {} /\ tx[c].stamp = EmptyRoot
    /\ tx[c].root.count > 0
    /\ CandidateStep(c, [tx[c] EXCEPT !.stamp = tx[c].root,
                                      !.recorded = 1..tx[c].root.count])
    /\ UNCHANGED known

\* finish_candidate_build commits whatever the transaction holds.  The host
\* calls it when its closing proof has read the frontier's documents.
Finish(c) ==
    /\ tx[c] # Closed
    /\ DocumentsReadable(tx[c], tx[c].root)
    /\ db' = tx[c]
    /\ tx' = [tx EXCEPT ![c] = Closed]
    /\ UNCHANGED <<known, asked>>

\* The connection is dropped, or its process dies.
Close(c) ==
    /\ tx' = [tx EXCEPT ![c] = Closed]
    /\ asked' = [asked EXCEPT ![c] = NotAsked]
    /\ known' = [known EXCEPT ![c] = db.root]
    /\ UNCHANGED db

-----------------------------------------------------------------------------
Next ==
    \E c \in Conns :
        \/ Apply(c) \/ ApplyFails(c) \/ Refresh(c)
        \/ Begin(c) \/ SeedTerminalDocuments(c) \/ FinishTerminalConstruction(c)
        \/ Finish(c) \/ Close(c)
        \/ \E b \in Ids :
              \/ ApplyTerminalPrefix(c, b) \/ ApplyCandidateFails(c, b)
              \/ \E m \in BOOLEAN : Check(c, b, m) \/ ApplyCandidate(c, b, m)

Spec == Init /\ [][Next]_vars
-----------------------------------------------------------------------------
(* Properties.                                                             *)

Views == {db} \cup {tx[c] : c \in {d \in Conns : tx[d] # Closed}}

\* The roots a host may read a view under, with the history each stands for.
Roots(view) ==
    {[root |-> view.root, history |-> History(view)]} \cup
    {[root |-> known[c], history |-> SubSeq(History(view), 1, known[c].count)] :
        c \in {d \in Conns : known[d].count <= view.root.count}}

TypeOK ==
    /\ \A v \in Views :
          /\ v.root.count \in 0..Cardinality(Ids)
          /\ v.root.count <= Len(v.rows) /\ Len(v.rows) <= v.root.count + 1
          /\ \A i \in DOMAIN v.rows : v.rows[i].batch \in Ids
          /\ v.recorded \subseteq 1..Len(v.rows)
    /\ DOMAIN tx = Conns /\ DOMAIN known = Conns
    /\ asked \in [Conns -> [batch : Ids \cup {None}, materialize : BOOLEAN]]

\* A frontier root that is committed can be read whole, and each document is at
\* the batch that wrote it last; the batch map has the accepted batches, each
\* with the record of its row.  So it is after failed candidate steps, terminal
\* prefixes and retries.
FrontierWhole ==
    /\ \A d \in Docs : FrontierDocument(db, db.root, d) =
           IF d \in DOMAIN DocumentsAt(History(db)) THEN DocumentsAt(History(db))[d]
           ELSE None
    /\ \A b \in Ids : Authenticated(db, db.root, b) <=> b \in ToSet(History(db))

\* A document read under a root that the host still holds, current or not, is the
\* one of that root or an error: the rows are overwritten in place, and nothing
\* but the digests tells a later document from the one that was asked for.
DocumentsExact ==
    \A v \in Views : \A r \in Roots(v) : \A d \in Docs :
        LET at == DocumentsAt(r.history)
        IN  FrontierDocument(v, r.root, d) \in
                {Corrupt, IF d \in DOMAIN at THEN at[d] ELSE None}

\* batch_descends_from, which only compares a counter with a clock, answers
\* whether one accepted batch is in the past of another.
DescendsExact ==
    \A v \in Views : \A d, a \in ToSet(History(v)) :
        DescendsFrom(v, v.root, d, a) <=> a \in Past[d]

\* The map built in one pass over the sorted documents is the map that one update
\* after another built, in whatever order the batches were accepted ("a
\* Cartesian-tree build therefore produces exactly the same root").
TerminalAgrees ==
    \A v \in Views : Terminal(DocumentsAt(History(v))) = v.root.docs

\* When the stamp names the frontier, every accepted batch is materialized.
StampCovers ==
    \A v \in Views : v.stamp = v.root => v.recorded = 1..v.root.count

\* The committed history only grows, by batches whose dependencies it has, each
\* once, whoever applies them: one connection, two that race, or a candidate.
Accepted == INSTANCE AcceptedHistory WITH history <- History(db)
AcceptsInOrder == Accepted!Spec
=============================================================================
