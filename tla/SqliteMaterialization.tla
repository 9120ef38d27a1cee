----------------------- MODULE SqliteMaterialization -----------------------
(***************************************************************************)
(* The materialized tables of sqlite_materialization.rs: what a graph of   *)
(* pages and blocks becomes, change by change or in one terminal build,    *)
(* and the bounded reads over it.                                          *)
(*                                                                         *)
(* The host owns the graph.  For each change it hands over the pages that  *)
(* differ or whose references resolve anew, the pages that are gone, and   *)
(* the same pages for the reference catalog.  A transaction commits whole  *)
(* or not at all (SqliteFrontier has the connections and the frontier).    *)
(*                                                                         *)
(* Rows are records, tables are sets of rows; texts, names, aliases, UUIDs *)
(* and paths are numbers, and what a row only carries along is left out.   *)
(***************************************************************************)
EXTENDS Integers, FiniteSets, SequencesExt

CONSTANTS
    Pages, Blocks,  \* page and block identifiers
    Contents,       \* page contents that occur, by page
    Queries,        \* the paged reads a reader may start
    Absent, None,
    MaxChanges      \* bound: changes of the graph

\* An entity is a page or a block; the pairs sort as the rows' keys do.
Page(p) == <<0, p>>
Block(b) == <<1, b>>

\* A content: the path, the aliases the page declares, what the page itself says
\* and what each of its blocks says.
\* What an entity says: word, links to entities, page names, UUID claims,
\* property names; a block also its UUID and its task marker (0: none).
ASSUME ContentAssumption ==
    /\ Pages \cup Blocks \subseteq Nat /\ IsFiniteSet(Pages \cup Blocks)
    /\ \A p \in Pages : \A c \in Contents[p] :
          /\ DOMAIN c.blocks \subseteq Blocks /\ c.own.uuid = 0 /\ c.own.marker = 0
          /\ {c.path} \cup c.aliases \subseteq Nat
          /\ \A says \in {c.own} \cup {c.blocks[b] : b \in DOMAIN c.blocks} :
                says.names \cup says.claims \cup says.properties \subseteq Nat

Reads == {"pages", "aliases", "names", "counts", "blockReferrers", "pageReferrers",
          "plainText", "blockProperties", "facets", "taskPages", "taskBlocks"}

\* None is neither a read nor a cursor, which is a tuple of numbers.
ASSUME QueryAssumption ==
    /\ \A query \in Queries : query.read \in Reads
    /\ None \notin Queries /\ None \notin Seq(Nat)

ASSUME BoundAssumption == MaxChanges \in Nat

VARIABLES
    mode,     \* "catalog": with the reference catalog; "rows": graph rows only
    phase,    \* "candidate", then "live" when the final proof has passed
    graph,    \* the host's graph: what each page holds, or Absent
    t,        \* the committed tables
    counted,  \* the coverage count the candidate's changes carried along
    refused,  \* a change was refused
    reader    \* a read view and its scan

vars == <<mode, phase, graph, t, counted, refused, reader>>

\* In ascending order.
Sorted(S) ==
    CHOOSE s \in [1..Cardinality(S) -> S] :
        \A i, j \in 1..Cardinality(S) : i < j => s[i] < s[j]

Live(g) == {p \in Pages : g[p] # Absent}
Says(p, c) == [e \in {Page(p)} \cup {Block(b) : b \in DOMAIN c.blocks} |->
                  IF e = Page(p) THEN c.own ELSE c.blocks[e[2]]]
Entities(g) == {Page(p) : p \in Live(g)}
    \cup UNION {{Block(b) : b \in DOMAIN g[p].blocks} : p \in Live(g)}

\* A block is on one page, and no two blocks have the same UUID.
WellFormed(g) ==
    \A p, q \in Live(g) : \A b \in DOMAIN g[p].blocks, c \in DOMAIN g[q].blocks :
        \/ p = q /\ b = c
        \/ b # c /\ (g[p].blocks[b].uuid = 0
                        \/ g[p].blocks[b].uuid # g[q].blocks[c].uuid)

Graphs == {g \in [Pages -> (UNION {Contents[p] : p \in Pages}) \cup {Absent}] :
               WellFormed(g) /\ \A p \in Live(g) : g[p] \in Contents[p]}

NoPages == [p \in Pages |-> Absent]
Empty ==
    [pages |-> {}, blocks |-> {}, refs |-> {}, properties |-> {}, tasks |-> {},
     owners |-> {}, fts |-> {}, coverage |-> {}, postings |-> {}, aliases |-> {},
     bindings |-> <<>>,  \* by alias: the pages it names, by ordinal
     stamp |-> 0,        \* materialization_stamp: the accepted sequence
     refused |-> FALSE]  \* a key was taken: the statement fails, and the change

NotReading == [view |-> None, query |-> None, after |-> None, got |-> <<>>,
               batch |-> <<>>, always |-> {}, ever |-> {}, done |-> FALSE]

Init ==
    /\ mode \in {"catalog", "rows"}
    /\ phase = "candidate"
    /\ graph = NoPages
    /\ t = Empty
    /\ counted = 0
    /\ refused = FALSE
    /\ reader = NotReading

-----------------------------------------------------------------------------
(* Writing rows.                                                           *)

\* A row under a key that must be free.
Put(tables, table, row, taken) ==
    [tables EXCEPT ![table] = @ \cup {row}, !.refused = @ \/ taken]

\* The rowid is one more than the largest; search_fts takes the same.
InsertFts(tables, e, p, word) ==
    LET rowid == 1 + Max({r.rowid : r \in tables.owners} \cup {0})
        row == [rowid |-> rowid, entity |-> e, page |-> p]
    IN  Put(Put(tables, "owners", row, \E r \in tables.owners : r.entity = e),
            "fts", [rowid |-> rowid, entity |-> e, page |-> p, word |-> word],
            \E r \in tables.fts : r.rowid = rowid)

\* Mutant: block targets forgotten.
InsertPageReferences(tables, e, p, targets) ==
    [tables EXCEPT !.refs = @ \cup {[source |-> e, page |-> p, target |-> x] :
                                       x \in {y \in targets : y[1] = 0}}]

InsertReferences(tables, e, p, targets) ==
    [tables EXCEPT !.refs = @ \cup {[source |-> e, page |-> p, target |-> x] : x \in targets}]

InsertProperties(tables, e, p, names) ==
    [tables EXCEPT !.properties = @ \cup {[owner |-> e, page |-> p, name |-> n] : n \in names}]

\* What a page and a block have in common.
InsertFacts(tables, e, p, says, resolves) ==
    LET fts == InsertFts(tables, e, p, says.word)
        refs == InsertReferences(fts, e, p, says.links \cap resolves)
    IN  InsertProperties(refs, e, p, says.properties)

InsertBlock(tables, p, b, says, resolves) ==
    LET row == [id |-> b, page |-> p, uuid |-> says.uuid]
        block == Put(tables, "blocks", row,
                     \E r \in tables.blocks :
                         r.id = b \/ (r.uuid = says.uuid /\ r.uuid # 0))
        facts == InsertFacts(block, Block(b), p, says, resolves)
    IN  IF says.marker = 0 THEN facts
        ELSE Put(facts, "tasks", [block |-> b, page |-> p, marker |-> says.marker],
                 \E r \in facts.tasks : r.block = b)

InsertPage(tables, p, c, resolves) ==
    LET page == Put(tables, "pages", [id |-> p, path |-> c.path],
                    \E r \in tables.pages : r.id = p)
        order == Sorted(DOMAIN c.blocks)
        upto[i \in 0..Len(order)] ==
            IF i = 0 THEN InsertFacts(page, Page(p), p, c.own, resolves)
            ELSE InsertBlock(upto[i - 1], p, order[i], c.blocks[order[i]], resolves)
    IN  upto[Len(order)]

InsertPages(tables, g, pages) ==
    LET order == Sorted(pages)
        upto[i \in 0..Len(order)] ==
            IF i = 0 THEN tables
            ELSE InsertPage(upto[i - 1], order[i], g[order[i]], Entities(g))
    IN  upto[Len(order)]

\* Mutant: the search rows stay.
UnindexOwnersOnly(tables, rowids) ==
    [tables EXCEPT !.owners = {r \in @ : r.rowid \notin rowids}]

\* The search rows of some owners go with the owners.
Unindex(tables, rowids) ==
    [tables EXCEPT !.fts = {r \in @ : r.rowid \notin rowids},
                   !.owners = {r \in @ : r.rowid \notin rowids}]

\* delete_page: all rows of the page; of the references to it, only those to
\* blocks that go, and those to the page itself when it is not coming back.
DeletePage(tables, p, incoming, retained) ==
    LET gone == {r.id : r \in {s \in tables.blocks : s.page = p}} \ retained
        rowids == {r.rowid : r \in {s \in tables.owners : s.page = p}}
        Keep(rows) == {r \in rows : r.page # p}
    IN  [Unindex(tables, rowids) EXCEPT
            !.refs = {r \in Keep(@) : /\ ~ (incoming /\ r.target = Page(p))
                                      /\ \A b \in gone : r.target # Block(b)},
            !.properties = Keep(@), !.tasks = Keep(@), !.blocks = Keep(@),
            !.pages = {r \in @ : r.id # p}]

DeletePages(tables, pages, incoming, retained) ==
    LET order == Sorted(pages)
        upto[i \in 0..Len(order)] ==
            IF i = 0 THEN tables
            ELSE DeletePage(upto[i - 1], order[i], incoming, retained)
    IN  upto[Len(order)]

\* Mutant: no block is kept from an entity that goes.
RetainNone(g, replaced) == {}

\* The blocks that the replacement pages have.
Retained(g, replaced) == UNION {DOMAIN g[p].blocks : p \in replaced}

\* Mutant: page by page.
ApplyInTurn(tables, g, replaced, deleted) ==
    LET retained == Retained(g, replaced)
    IN  FoldLeft(LAMBDA u, p : InsertPage(DeletePage(u, p, FALSE, retained), p, g[p],
                                          Entities(g)),
                 DeletePages(tables, deleted, TRUE, retained), Sorted(replaced))

\* apply_graph_projection_rows: every old owner goes before any new one comes.
ApplyRows(tables, g, replaced, deleted) ==
    LET retained == Retained(g, replaced)
        without == DeletePages(tables, deleted, TRUE, retained)
    IN  InsertPages(DeletePages(without, replaced, FALSE, retained), g, replaced)

-----------------------------------------------------------------------------
(* The reference catalog.                                                  *)

\* The postings of a page: the names and the UUIDs it mentions, resolved or not.
Postings(p, c) ==
    LET says == Says(p, c)
        Of(e, kind, values) ==
            {[page |-> p, source |-> e, kind |-> kind, value |-> v] : v \in values}
    IN  UNION {Of(e, "name", says[e].names) \cup Of(e, "uuid", says[e].claims) :
                  e \in DOMAIN says}

Declarations(p, c) == {[page |-> p, alias |-> a] : a \in c.aliases}

\* The candidates of an alias after the sources changed: those it was bound to
\* without the sources, and those that declare it now.
Rebind(tables, sources, declared, alias) ==
    ((IF alias \in DOMAIN tables.bindings THEN ToSet(tables.bindings[alias]) ELSE {})
        \ sources) \cup {d.page : d \in {e \in declared : e.alias = alias}}

\* The bindings of the altered aliases; one without candidates goes.
Bind(tables, sources, declared, altered) ==
    LET Now(a) == Rebind(tables, sources, declared, a)
        kept == (DOMAIN tables.bindings \ altered) \cup {a \in altered : Now(a) # {}}
    IN  [a \in kept |-> IF a \in altered THEN Sorted(Now(a)) ELSE tables.bindings[a]]

\* apply_reference_catalog_change, up to its count.
ApplyCatalog(tables, g, replaced, deleted) ==
    LET sources == replaced \cup deleted
        Without(rows) == {r \in rows : r.page \notin sources}
        declared == UNION {Declarations(p, g[p]) : p \in replaced}
        altered == {r.alias : r \in declared \cup (tables.aliases \ Without(tables.aliases))}
    IN  [tables EXCEPT
            !.postings = Without(@) \cup UNION {Postings(p, g[p]) : p \in replaced},
            !.aliases = Without(@) \cup declared,
            !.coverage = (@ \ sources) \cup replaced,
            !.bindings = Bind(tables, sources, declared, altered)]

\* The count a fresh candidate carries from change to change.
Inductive(tables, count, replaced, deleted) ==
    count - Cardinality(tables.coverage \cap (replaced \cup deleted)) + Cardinality(replaced)

-----------------------------------------------------------------------------
(* One terminal build.                                                     *)

Terminal(g) ==
    LET live == Live(g)
        rows == InsertPages(Empty, g, live)
        declared == UNION {Declarations(p, g[p]) : p \in live}
        Named(a) == {d.page : d \in {e \in declared : e.alias = a}}
    IN  IF mode = "rows" THEN rows
        ELSE [rows EXCEPT
                 !.coverage = live,
                 !.postings = UNION {Postings(p, g[p]) : p \in live},
                 !.aliases = declared,
                 !.bindings = [a \in {d.alias : d \in declared} |-> Sorted(Named(a))]]

-----------------------------------------------------------------------------
(* Bounded reads.  A paged read's rows are its sort keys, and a cursor is the *)
(* last key of the page before.                                            *)

Less(a, b) ==
    \E i \in DOMAIN a : a[i] < b[i] /\ \A j \in 1..(i - 1) : a[j] = b[j]

PathOf(tables, p) == {r.path : r \in {s \in tables.pages : s.id = p}}

\* page_inventory_after, navigation_pages_after
PageInventory(tables) == {<<r.path, r.id>> : r \in tables.pages}

\* navigation_aliases_after
NavigationAliases(tables) ==
    UNION {{<<path, d.alias, d.page>> : path \in PathOf(tables, d.page)} : d \in tables.aliases}

\* navigation_reference_names_after
ReferenceNames(tables) ==
    UNION {{<<path, r.value, r.page>> : path \in PathOf(tables, r.page)} :
              r \in {s \in tables.postings : s.kind = "name"}}

\* block_reference_counts_after: a claim has a count when a block makes it.
ReferenceCounts(tables) ==
    {<<r.value>> : r \in {s \in tables.postings : s.kind = "uuid" /\ s.source[1] = 1}}

\* block_referrer_candidates_after
BlockReferrers(tables, uuid) ==
    {<<r.page, r.source[2]>> :
        r \in {s \in tables.postings : s.kind = "uuid" /\ s.value = uuid /\ s.source[1] = 1}}

\* page_referrer_candidates_after
PageReferrers(tables, name) ==
    {<<r.page, r.source[1], r.source[2]>> :
        r \in {s \in tables.postings : s.kind = "name" /\ s.value = name}}

\* plain_text_candidate_pages_after
PlainText(tables, word) ==
    {<<o.page>> : o \in {s \in tables.owners :
        \E r \in tables.fts : r.rowid = s.rowid /\ r.word = word}}

\* block_property_candidates_after
BlockProperties(tables, name) ==
    {<<r.page, r.owner[2]>> :
        r \in {s \in tables.properties : s.owner[1] = 1 /\ s.name = name}}

\* property_facet_rows_after
PropertyFacets(tables) ==
    {<<r.owner[1], r.owner[2], r.name>> : r \in tables.properties}

\* task_candidate_pages_after
TaskPages(tables, marker) ==
    {<<r.page>> : r \in {s \in tables.tasks : s.marker = marker}}

\* task_candidate_blocks_after joins the tasks with their blocks and pages.
TaskBlocks(tables, marker) ==
    {<<r.page, r.block>> : r \in {s \in tables.tasks :
        /\ s.marker = marker /\ PathOf(tables, s.page) # {}
        /\ \E b \in tables.blocks : b.id = s.block /\ b.page = s.page}}

Rows(tables, query) ==
    CASE query.read = "pages" -> PageInventory(tables)
      [] query.read = "aliases" -> NavigationAliases(tables)
      [] query.read = "names" -> ReferenceNames(tables)
      [] query.read = "counts" -> ReferenceCounts(tables)
      [] query.read = "blockReferrers" -> BlockReferrers(tables, query.of)
      [] query.read = "pageReferrers" -> PageReferrers(tables, query.of)
      [] query.read = "plainText" -> PlainText(tables, query.of)
      [] query.read = "blockProperties" -> BlockProperties(tables, query.of)
      [] query.read = "facets" -> PropertyFacets(tables)
      [] query.read = "taskPages" -> TaskPages(tables, query.of)
      [] query.read = "taskBlocks" -> TaskBlocks(tables, query.of)

\* The first rows in ascending order, at most limit of them.
First(rows, limit) ==
    LET Behind(s) == {r \in rows : \A i \in DOMAIN s : Less(s[i], r)}
        upto[i \in 0..limit] ==
            IF i = 0 THEN <<>>
            ELSE IF Behind(upto[i - 1]) = {} THEN upto[i - 1]
            ELSE Append(upto[i - 1],
                        CHOOSE r \in Behind(upto[i - 1]) :
                            \A x \in Behind(upto[i - 1]) : x = r \/ Less(r, x))
    IN  upto[limit]

\* Mutant: the cursor compares the first component alone.
FirstComponent(tables, query, after, limit) ==
    First({r \in Rows(tables, query) : after = None \/ after[1] < r[1]}, limit)

\* The next rows behind a cursor, at most limit of them (1 <= limit).
PageAfter(tables, query, after, limit) ==
    First({r \in Rows(tables, query) : after = None \/ Less(after, r)}, limit)

\* Reads of one call.
PagesByPath(tables, path) == {r.id : r \in {s \in tables.pages : s.path = path}}
BlocksOnPage(tables, p) == {r.id : r \in {s \in tables.blocks : s.page = p}}
BlockByUuid(tables, uuid) == {r.id : r \in {s \in tables.blocks : s.uuid = uuid}}
ReferrersTo(tables, e) == {<<r.page, r.source>> : r \in {s \in tables.refs : s.target = e}}
PropertiesNamed(tables, name) ==
    {<<r.page, r.owner>> : r \in {s \in tables.properties : s.name = name}}
Tasks(tables, marker) == {r.block : r \in {s \in tables.tasks : s.marker = marker}}
Search(tables, word) ==
    {<<r.page, r.entity>> : r \in {s \in tables.fts : s.word = word}}
PagesForAlias(tables, alias) ==
    IF alias \in DOMAIN tables.bindings THEN ToSet(tables.bindings[alias]) ELSE {}

-----------------------------------------------------------------------------
(* Changes.                                                                *)

\* The pages the host hands over for the step from g to h.
Touched(g, h) ==
    {p \in Live(h) :
        \/ g[p] # h[p]
        \/ \E e \in DOMAIN Says(p, h[p]) :
              Says(p, h[p])[e].links \cap (Entities(h) \ Entities(g)) # {}}
Deleted(g, h) == Live(g) \ Live(h)

\* The authenticated number of sources behind graph g.
Sources(g) == IF mode = "rows" THEN 0 ELSE Cardinality(Live(g))

\* validate_preserved_page_metadata: a replaced page that stays where it is has
\* its row already.
MetadataPreserved(g, h) ==
    \A p \in Touched(g, h) : g[p] # Absent /\ g[p].path = h[p].path =>
        h[p].path \in PathOf(t, p)

\* apply_change_inner without the count: rows, catalog, stamp.
Changed(g, h) ==
    LET rows == ApplyRows(t, h, Touched(g, h), Deleted(g, h))
        all == IF mode = "rows" THEN rows
               ELSE ApplyCatalog(rows, h, Touched(g, h), Deleted(g, h))
    IN  [all EXCEPT !.stamp = @ + 1]

\* CoverageValidation: a live database counts, a candidate carries the count on.
Count(tables, g, h) ==
    IF mode = "rows" THEN 0
    ELSE IF phase = "live" THEN Cardinality(tables.coverage)
    ELSE Inductive(t, counted, Touched(g, h), Deleted(g, h))

Accepted(after, h) ==
    /\ MetadataPreserved(graph, h)
    /\ ~ after.refused
    /\ phase = "candidate" => counted = Sources(graph)
    /\ Count(after, graph, h) = Sources(h)

\* A scan sees what is committed.
Follow(tables) ==
    IF reader.query = None THEN reader
    ELSE [reader EXCEPT !.always = @ \cap Rows(tables, reader.query),
                        !.ever = @ \cup Rows(tables, reader.query)]

\* A change that is refused is rolled back.
Change(h) ==
    /\ t.stamp < MaxChanges /\ h # graph /\ ~ refused
    /\ LET after == Changed(graph, h)
           accepted == Accepted(after, h)
       IN  /\ refused' = ~ accepted
           /\ t' = IF accepted THEN after ELSE t
           /\ graph' = IF accepted THEN h ELSE graph
           /\ counted' = IF accepted /\ phase = "candidate"
                         THEN Count(after, graph, h) ELSE counted
           /\ reader' = Follow(t')
    /\ UNCHANGED <<mode, phase>>

\* begin_, seed_ and finish_terminal_construction: only into empty tables.
BuildTerminal(h) ==
    /\ phase = "candidate" /\ t = Empty /\ MaxChanges > 0 /\ ~ refused
    /\ ~ Terminal(h).refused /\ Cardinality(Terminal(h).coverage) = Sources(h)
    /\ t' = [Terminal(h) EXCEPT !.stamp = 1]
    /\ graph' = h
    /\ counted' = Sources(h)
    /\ UNCHANGED <<mode, phase, refused, reader>>

\* What finalize_fresh_bootstrap proves: the coverage is complete, and every
\* owner has its search row and no row is without one.
Proven ==
    /\ Cardinality(t.coverage) = counted /\ counted = Sources(graph)
    /\ Cardinality(t.owners) = Cardinality(t.fts)
    /\ \A o \in t.owners : \E r \in t.fts :
          r.rowid = o.rowid /\ r.entity = o.entity /\ r.page = o.page

FinalizeBootstrap ==
    /\ phase = "candidate" /\ Proven
    /\ phase' = "live"
    /\ UNCHANGED <<mode, graph, t, counted, refused, reader>>

\* reset of a graph projection.
Reset ==
    /\ mode = "rows" /\ phase = "live" /\ t.stamp < MaxChanges
    /\ t' = [Empty EXCEPT !.stamp = t.stamp + 1]
    /\ graph' = NoPages
    /\ reader' = Follow(t')
    /\ UNCHANGED <<mode, phase, counted, refused>>

-----------------------------------------------------------------------------
(* A reader, on a connection of its own or between the changes of one.     *)

\* SqliteMaterializedRead::new has compared the stamp with the frontier the host
\* asked for; the scan may outlive the view, its cursor is the host's.
OpenScan(query) ==
    /\ phase = "live" /\ reader.query = None
    /\ reader' = [reader EXCEPT !.view = graph, !.query = query,
                                !.always = Rows(t, query), !.ever = Rows(t, query)]
    /\ UNCHANGED <<mode, phase, graph, t, counted, refused>>

\* Every call is a statement, and a read transaction, of its own.
Fetch ==
    /\ reader.query # None /\ ~ reader.done
    /\ LET rows == PageAfter(t, reader.query, reader.after, 1)
       IN  reader' = [reader EXCEPT
               !.batch = rows, !.got = @ \o rows,
               !.after = IF rows = <<>> THEN @ ELSE Last(rows),
               !.done = rows = <<>>]
    /\ UNCHANGED <<mode, phase, graph, t, counted, refused>>

Next ==
    \/ \E h \in Graphs : Change(h) \/ BuildTerminal(h)
    \/ FinalizeBootstrap \/ Reset
    \/ Fetch \/ \E query \in Queries : OpenScan(query)

Spec == Init /\ [][Next]_vars
-----------------------------------------------------------------------------
(* Properties.                                                             *)

\* Types: every row belongs to a page of the tables, and no two rows have one key.
TypeOK ==
    /\ mode \in {"catalog", "rows"} /\ phase \in {"candidate", "live"}
    /\ graph \in Graphs /\ counted \in Nat /\ t.stamp \in 0..MaxChanges
    /\ refused \in BOOLEAN
    /\ \A r \in t.refs \cup t.properties \cup t.tasks \cup t.blocks \cup t.owners :
          \E p \in t.pages : p.id = r.page
    /\ \A p, q \in t.pages : p.id = q.id => p = q
    /\ \A b, c \in t.blocks : b.id = c.id => b = c
    /\ \A o, q \in t.owners : o.rowid = q.rowid \/ o.entity = q.entity => o = q
    /\ reader.view \in Graphs \cup {None} /\ reader.query \in Queries \cup {None}

\* Any number of changes, applied one after another, leave exactly the rows one
\* terminal build of the final graph has, alias resolution and its order
\* included, up to the rowids SQLite assigned (row_digests_by_table): references
\* kept through a replacement, references to what is gone, aliases that several
\* pages declare, blocks that moved.
Observed(tables) ==
    [tables EXCEPT !.owners = {[entity |-> r.entity, page |-> r.page] : r \in @},
                   !.fts = {[entity |-> r.entity, page |-> r.page, word |-> r.word] : r \in @},
                   !.stamp = 0]
IncrementalIsRebuild == Observed(t) = Observed(Terminal(graph))

\* No change a host may hand over is refused: neither a key that is taken while
\* blocks change pages and UUIDs change blocks, nor the preserved metadata, nor
\* the coverage count, counted or carried on.
ChangesAccepted == ~ refused

\* The closing proof of a fresh candidate holds after any changes, so that no
\* candidate that was built correctly has to be thrown away; and a live database
\* keeps its search rows with their owners.
FinalProof ==
    /\ phase = "candidate" => Proven
    /\ {<<r.rowid, r.entity, r.page>> : r \in t.owners} =
           {<<r.rowid, r.entity, r.page>> : r \in t.fts}

\* What the graph says: the pairs of a page and an entity on it, and what it says.
Facts(g) == UNION {{<<p, e>> : e \in DOMAIN Says(p, g[p])} : p \in Live(g)}
Said(g, f) == Says(f[1], g[f[1]])[f[2]]
OnBlocks(facts) == {<<f[1], f[2][2]>> : f \in {x \in facts : x[2][1] = 1}}

ReferrersShown ==
    \A e \in {Page(p) : p \in Pages} \cup {Block(b) : b \in Blocks} :
        ReferrersTo(t, e) =
            IF e \in Entities(graph)
            THEN {f \in Facts(graph) : e \in Said(graph, f).links} ELSE {}

PagesShown ==
    \A p \in Live(graph) :
        /\ BlocksOnPage(t, p) = DOMAIN graph[p].blocks
        /\ PagesByPath(t, graph[p].path) =
               {q \in Live(graph) : graph[q].path = graph[p].path}
        /\ mode = "catalog" => \A a \in graph[p].aliases :
               PagesForAlias(t, a) = {q \in Live(graph) : a \in graph[q].aliases}

TextShown ==
    \A w \in {Said(graph, f).word : f \in Facts(graph)} :
        LET facts == {f \in Facts(graph) : Said(graph, f).word = w}
        IN  Search(t, w) = facts /\ PlainText(t, w) = {<<f[1]>> : f \in facts}

PropertiesShown ==
    \A n \in UNION {Said(graph, f).properties : f \in Facts(graph)} :
        LET facts == {f \in Facts(graph) : n \in Said(graph, f).properties}
        IN  PropertiesNamed(t, n) = facts /\ BlockProperties(t, n) = OnBlocks(facts)

UuidsShown ==
    \A u \in {Said(graph, f).uuid : f \in Facts(graph)} \ {0} :
        {Block(b) : b \in BlockByUuid(t, u)} =
            {f[2] : f \in {x \in Facts(graph) : Said(graph, x).uuid = u}}

ClaimsShown ==
    \A u \in UNION {Said(graph, f).claims : f \in Facts(graph)} :
        /\ BlockReferrers(t, u) =
               OnBlocks({f \in Facts(graph) : u \in Said(graph, f).claims})
        /\ <<u>> \in ReferenceCounts(t) <=> BlockReferrers(t, u) # {}

NamesShown ==
    \A n \in UNION {Said(graph, f).names : f \in Facts(graph)} :
        PageReferrers(t, n) =
            {<<f[1], f[2][1], f[2][2]>> :
                f \in {x \in Facts(graph) : n \in Said(graph, x).names}}

TasksShown ==
    \A m \in {Said(graph, f).marker : f \in Facts(graph)} \ {0} :
        LET facts == {f \in Facts(graph) : Said(graph, f).marker = m}
        IN  /\ {Block(b) : b \in Tasks(t, m)} = {f[2] : f \in facts}
            /\ TaskPages(t, m) = {<<f[1]>> : f \in facts}

\* The reads of one call answer from the graph of the last change: who refers to
\* an entity, what holds a UUID, a path, an alias, a property, a task or a word.
ReadsShowGraph ==
    /\ ReferrersShown /\ PagesShown /\ TextShown /\ PropertiesShown /\ UuidsShown
    /\ TasksShown
    /\ mode = "catalog" => ClaimsShown /\ NamesShown

\* A paged scan whose pages are read with commits in between returns every row
\* that was there throughout, each row once, in order, and no row that never was.
ScanKeepsRows ==
    /\ \A i, j \in 1..Len(reader.got) : i < j => Less(reader.got[i], reader.got[j])
    /\ ToSet(reader.got) \subseteq reader.ever
    /\ reader.done => reader.always \subseteq ToSet(reader.got)

\* "A graph-projection read bound to one exact managed accepted frontier."  The
\* rows a view returned are rows of the frontier it was opened for.  (Violated:
\* the stamp is compared when the view is constructed and never again, and no
\* read transaction spans the view's statements.)
ReadBound ==
    reader.query # None => ToSet(reader.batch) \subseteq Rows(Terminal(reader.view), reader.query)
============================================================================
