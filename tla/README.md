# Verification of tine-storage

TLA+ specifications, TLC model checks and TLAPS proofs of the storage protocols
of this crate. Everything is translated from the code under `src/src/`; line
numbers refer to it. `PROJECT.json` holds the inventory in machine-readable form:
components, runs, mutants, the map from definitions to source lines, findings,
hazards and theorems.

## The system

`tine-storage` is a library of persistence mechanisms used by one or several
processes on one machine. There is no network and no background thread: what
makes it hard is that a process may die, or the machine may lose power, between
any two system calls, that several handles and processes use the same files,
and that an I/O error may leave an effect that is not known.

| Component (source) | State | Operations | Hard behaviour | What makes it correct |
| --- | --- | --- | --- | --- |
| Local journal v2 (`local_journal_v2.rs`) | a segment file, a frontier file, a lock; per handle: offset, frontier, poison flag | `prepare`, `open_selected`, `append`, `replay`, drop | torn writes, a rename that is not durable, unknown outcomes, contending openers | returned appends are selected once, refused ones never, every crash reopens |
| Local journal v1 (`local_journal.rs`) | one segment file, a lock; per handle: offset, committed length, poison flag | `open`, `open_from_sequence`, `append`, `replay`, drop | the file's own name, torn tails against lost commits | the same promise, without a frontier |
| Immutable publication (`filesystem.rs`) | files under fixed names, temporaries | `publish_immutable_exact`, staged `construct` and `commit`, batch `publish` and `finish` | concurrent publishers, retries, files linked before they are synced | no replacement, acknowledged bytes stay |
| Authority transitions (`filesystem.rs`) | one fixed file | `publish_new_exact`, `replace_exact`, `retire_exact`, `transition_regular_exact` | a crash between compare and replace, retries of what is done | one of two exact contents, and what is reported stays |
| Packed Patricia store (`packed_patricia.rs`) | packs, catalogs, a head, a publication lock, cached readers | append, compact, discover, reclaim | order of pack, catalog and head; stale caches; reclaim against publishers | everything the head reaches is there |
| Authenticated Patricia trie (`authenticated_patricia.rs`) | nodes addressed by digest, a construction's nodes in memory | `insert_many`, `remove_many`, `lookup`, constructions with a byte budget | canonical shape, failed flushes, bulk against single insertion | a map; equal maps have equal roots; returned roots read |
| Scratch runs (`scratch.rs`) | run directories with a marker, a lease and two files | create, clone, adopt, promote, drop, the pass over stale runs, the sweep of retained runs | several processes that make and remove runs file by file, failed builds, deaths | nobody's run is touched by another, stale runs go |
| Scratch index (`scratch.rs`) | a buffered append file, levels of sorted segments, lookup sessions | `insert_many`, lookups, scans, sessions, drop, adopt | merges and tombstones, partial flushes, evictions | a lookup answers with the newest record or fails |
| SQLite file set (`sqlite_fileset.rs`) | database, sidecars, checkpoint, forensic directory | preserve, resume, remove, publish a candidate, checkpoint | a crash between two moves | no file is lost or mixed with another database's |
| SQLite frontier and facade (`sqlite_frontier.rs`, `sqlite_database.rs`) | accepted batches, causal clocks, authenticated maps, a stamp, an open candidate transaction | `apply`, candidate and terminal applies, `begin`/`finish_candidate_build`, seeding, reads | checks outside the transaction, failed applies inside a build, rows overwritten under old roots | each batch is applied once and in causal order, and every map shows one history |
| SQLite materialization (`sqlite_materialization.rs`, `sqlite_graph_projection.rs`) | rows of pages, blocks, references, search, a reference catalog, a stamp | changes, resets, terminal builds, the closing proof, bounded reads | blocks and UUIDs that move between pages, counts carried along, cursors beside commits | the rows are those of one build of the final graph |
| Codecs, digests, formats, API inventory (`durable_batch.rs`, `content_digest.rs`, `digest_sealed.rs`, `formats.rs`, `api_surface.rs`, `lib.rs`) | none | pure functions | none | round trips, covered by the crate's tests |

Interactions. The host (`tine-core`) calls every component; core decides policy,
the crate keeps bytes. The v2 journal prepares its two files by immutable
publication; the packed store publishes packs and catalogs the same way and
replaces its head by an authority transition; the trie publishes nodes through
the packed store or, as a fallback, as loose files; scratch runs hold tries under
construction; the SQLite file set decides which database the facade opens, and
the facade drives frontier and materialization in one transaction. All mutual
exclusion is by advisory file locks, which a dying process releases, and by
SQLite's own.

## Modules

| Module | Models |
| --- | --- |
| `SegmentFile` | frames, cells, the images a power loss may leave; shared by both journals |
| `JournalPromise` | abstract: a log of which a prefix is confirmed |
| `LocalJournalV2`, `LocalJournalV2Proofs` | one selected v2 segment, its openers, crashes; theorems |
| `LocalJournalV1`, `LocalJournalV1Proofs` | one v1 segment, its openers, crashes; theorems |
| `PublishedFiles`, `ImmutablePublication`, `FilesystemProofs` | what a file may show; publishers of immutable files in one directory; theorems of both file components |
| `PackedStore`, `PackedStoreProofs` | one directory of Patricia nodes: loose files, packs, catalogs, head; its handles, reclamation, crashes; theorems |
| `PatriciaTrie` | lookup, insertion, removal, bulk insertion and prefix scan as operators on trees |
| `PatriciaIndex` | the host's roots, one mutation or construction at a time, its budget, flushes, failures, crashes |
| `ScratchRuns`, `ScratchRunsProofs` | the run directories of one archive and the processes that make, hold and remove them; theorems |
| `ScratchIndex`, `ScratchIndexProofs` | the append file, the levels and the lookup sessions of one run; theorems |
| `AuthenticatedMap` | the treap in which the frontier keeps documents, batches and clocks |
| `AcceptedHistory` | abstract: a history that grows by batches whose dependencies it has |
| `SqliteFrontier`, `SqliteFrontierProofs` | the frontier database and its connections; theorems |
| `SqliteMaterialization`, `SqliteMaterializationProofs` | the materialized tables, their changes and reads; theorems |
| `FixedFiles`, `FilesystemProofs` | the SQLite file set and an authority replaced or retired in place; theorems |
| `MC...` | the same modules with the values and symmetry sets TLC needs |

Each module states its type invariant, `TypeOK`. It is proved for the nine
modules that have proofs, and not on the list of any run: put it on the
`INVARIANTS` line of a cfg to have TLC check it.

### How crashes are modelled

A process crash (`Crash`, `Die`) drops the handle and its lock; what was written
or renamed stays visible. A power loss (`PowerLoss`) stops every process and takes
any part of what was not synced. In `SegmentFile` a file is an array of cells of
one frame: a cell that differs between page cache and disk becomes the old
content, the new one or one of `Broken`, independently of every other cell, since
`write_all` orders nothing on disk. A `sync_data` that fails leaves such an image
on disk as well. A renamed name is durable only after a sync of its directory:
`frontierDisk` is the set of frontiers a power loss may leave; `entry` and
`linked` do the same for created files; `kept` is, in `PackedStore` and
`FixedFiles`, the set of directories a power loss may leave.

Frames are identified by their sequence number (counted from the base sequence)
and payload identity; a digest is taken to identify its bytes. A frame occupies
one cell, so a displaced write lands on a frame boundary: `FailClosed` covers
overwritten frames, not all misaligned images of them. The header of a v2 segment
is constant after `prepare` and is not a variable.

### LocalJournalV2

`prepared` follows `prepare` (363-387), whose two exact publications are atomic
here and refined in `ImmutablePublication`. An opener's `pc` walks through
`open_selected` (389-446) and `append` (464-534); `known`, `cursor` and
`poisoned` are the handle's fields, `pending` the payload of the call in
progress. `outcome` is what the host was told: `returned`, `definite` (refused
before a write), `unknown` (`AppendOutcomeUnknown`, or a crash in the call), and
after a reopen `recovered` or `discarded`. Opens that return early
(`SegmentAlreadyOpen`, a refused scan) change nothing and are steps that stutter;
so is `prepare` on existing files. Temporaries that a failed frontier
publication leaks have unique names, are never read and are left out.
`displaced` records that an append was written elsewhere than at the frontier
(see the findings).

### LocalJournalV1

`OpenFile`, `Lock`, `EntrySync` and the scan actions are the steps of
`open_from_sequence` (508-553). `Broken` has two members: `Short`, a tail below
`MIN_FRAME_BYTES`, which the scan cuts, and `Torn`, anything else, which it
refuses. `orphaned` records that an append returned although the file's name was
not durable.

### ImmutablePublication

A publisher constructs a synced temporary, links it (`rename_noreplace`) or
verifies what is there, and syncs the directory. A publisher with a batch open
stages links without syncing and ends with `Finish` (`syncfs`), `FinishFallback`
(Android: each file, then the directory), `FinishRefused` (the tolerated refusal
of the directory sync) or `FinishFails`. `acked` collects what callers were told;
`loose`, `unproved` and `refused` remember the exceptions its properties name.
On macOS and Windows a batch publishes exactly; that is `Construct` to
`DirectorySync` again.

### PackedStore

The module models where the nodes of a trie are kept (`packed_patricia.rs`, and
the publication half of `authenticated_patricia.rs`); what the nodes mean is for
`PatriciaTrie`. `dir` is the directory: the head, the loose nodes, the packs and
the catalogs. A pack is its set of nodes and a catalog its set of packs, since
both are named by digest. `Kids` gives the children of each node and `Jobs` what a
mutation may stage. `resolver` is the field `packed` of a handle
(`PatriciaIndexStore`), with `Unknown` for `None` and `NoHead` for `Some(None)`.
`task` is what a handle is doing:

- `BeginPublication` to `HeadSynced` are `publish_staged_roots` and
  `publish_construction_roots` with `publish_packed_entries` and
  `publish_packed_construction_sink`: shared lock, discovery (read the head, then
  open its packs: two steps), planning, the packs, the catalog, the exact
  transition of the head, the directory barrier. An insert keeps its catalog when
  the transition fails; a construction drops it either way.
- `FallBack` releases the lock; `LockLoose` takes it again and `PublishLoose`
  publishes node by node: a construction children first, an insertion from its
  roots.
- `BeginRemove`, `StageTemp`, `LinkTemp` are `remove_many`, which takes no lock.
- `BeginReclaim` to `ReclaimSyncFails` are `reclaim_unreachable_packed_files`: an
  exclusive lock without waiting, a scan, one deletion at a time, a sync. Errors
  of the scan change nothing and are left out; `BeginReclaim` with nothing to
  delete would stutter.

Tiers. `compact_size_tiers` merges packs of one size class when there are too
many. The model has one class, so a merge takes every pack; how merges are chosen
is a question of sizes, which is not modelled. `CatalogLimit` stands for
the limits on a catalog's bytes and packs.

Publications of single files are by the host's publisher, which is not in this
crate; a successful one is durable, one that fails may have left its file
(`ImmutablePublication` is the publisher this crate offers). The host holds a
writer lease for the whole of a mutation, which is why `BeginPublication` and
`BeginRemove` wait for `Writers = {}`; readers and reclamations need none.

Crashes. `kept` is the set of directories a power loss may leave: every directory
since the last barrier, in the order the changes were made, as journaling file
systems keep the operations of one directory. The barrier of `HeadSynced` and
each successful publication reduce it to the present one. A hazard in
`PROJECT.json` says what a file system that reorders would add.

`own`, `acked` and `settled` record what callers were told: by an open handle, by
any handle, and after a publication of its own. `exposed` has the nodes of
insertions that were publishing loose when they failed: those may be there
without their children: insertion does not order
children before parents.

### PatriciaTrie and PatriciaIndex

A node is a record of its content with its subtrees in it, so two digests are
equal exactly when the trees are. A key is a sequence of bits. `PatriciaTrie`
has no variables: `Insert`, `RemoveKey`, `Lookup`, `LookupPrefix` and
`BulkInsertMany` are `insert_one`, `remove_one`, `lookup`, the prefix scan and
the bulk construction, and `Canonical` is the tree a set of records should have,
defined from the records alone. No key may be a prefix of another; the code finds
out late, when it asks for a bit that is not there, and so do the operators
(`Malformed`). One consequence is not an error of a caller: a lookup or a removal
of a key that is absent and ends exactly where two stored keys part answers
`Malformed` instead of finding nothing. `LookupsExact` says so.

`PatriciaIndex` is the handle: `InsertMany`, `InsertManyVerifyExisting`,
`RemoveMany` publish before they return; a construction (`Begin` to
`FinishConstruction`) stages nodes in memory and `Flush`es when its budget would
overflow. Loose publication fails with any prefix of its order written, a packed
one with none or all. `durable` has the roots that were returned or completed,
each with the map it stands for, and `kept` and `held` those that the host of a
construction holds. The parallel and the streaming bulk builders build the same
tree and are left out.

### ScratchRuns

A run is a directory with four files, made in the order marker, lease, (lock),
pages, blobs. `here` and `files` are the namespace, `lease` the lock on each
lease file, `whole` the runs whose files were written to their end. At first there
may be ephemeral runs whose holders died before, complete and free. A host's `task`
walks through `create_run` and `construct_own_run` (`CreateRun`,
`MakeFile`, `LockLease`, `Built`), `clone_retained_into` (`CloneRun`, `Copied`),
the pass over stale siblings and the sweep of retained runs (`Classify`,
`TakeStale`, `LeaveAlone`, `EndPass`, and with an error `ClassifyFails`,
`LeaseFails`, `ListingFails`), `adopt_retained` (`AdoptLease`, `Adopt`,
`AdoptFails`) and the drop of a handle. Each removal goes file by file
(`RemoveFile`, `Unlock`, `RemoveDir`), each classification and each lock is a
step of its own, and every step that calls the file system may fail or be the
host's last: an error about one sibling leaves it in place and the pass goes on
(`Unclassified`), an error of the listing ends the pass. `stale` is what a pass
still owes: the runs that were stale when it began, less those that somebody
leased since or that one of its own steps failed on. A handle on a
directory that another host has removed finds nothing in it (`detached`), while
what is removed by name is whatever has the name now.

What the host owes, and the model assumes: its references (`authority`) do not
change while one of its sweeps runs; it adopts only runs it refers to; it clones
a run once at a time, because it holds the exclusive lease of the source. A
directory that was made or removed in part stays until something makes it again:
the pass takes only complete runs, and so does the code. The code syncs none of
these files, so a power loss may take any run and is not modelled.

### ScratchIndex

`disk`, `committed` and `pending` are the buffered append file: `Appended` is
`append` with its flush of a full buffer and its direct write of a page larger
than the buffer (`Fits`); `FlushFails` writes a part of the buffer, perhaps half a
page, and keeps the buffer; `WriteFails` is a direct write that stops inside the
page, with nothing pending and `committed` short of the torn bytes until a read or
another write takes the length anew (`WithFile`, `Flush`). `lost` records the
references these failures and a death cost, which is all that a read may fail on:
those to what was in the buffer, and the one an insertion returns with an offset
computed from a length that was short. A reference carries the
segment it stands for; it reads when the file has that segment at its offset, as
the digest check demands. `InsertMany` merges the full levels into the first
empty one, and `InsertFails` is one whose direct write fails; `roots` may branch,
since a root is a value. A session caches decoded
segments of one root by least recent use (`Used`, `Evictions`) and counts what they
weigh (`resident`), adding and subtracting as the code does. One session is
followed; sessions share nothing, so to it the others are reads (`ReadPages`).

### AuthenticatedMap, SqliteFrontier, AcceptedHistory

A treap node is its content and subtrees. `Upsert`, `Union` and `Terminal` are the
single update with its rotations, the union of clocks, and the one-pass build.
The code's recursions are recursive functions here: `Path` is the way a lookup
takes, and `Upsert` and `Split` go back along it from its end to the root, as the
returning calls do; `Union` is defined for trees of height up to `h` from those up
to `h - 1`. `Depth` bounds all of them by the number of keys.
In `SqliteFrontier` a file is `root`, `rows` (applied batches), `table` (document
nodes, stored under their document and overwritten in place), `stamp` and
`recorded`. Nodes of clock and batch maps are never overwritten, so their trees
stand for their rows. `Check` and `Apply` are the two halves of an ordinary apply,
between which other connections commit; `Begin` to `Finish` are a candidate build,
where a failed apply leaves any part of its writes behind (`Partial`), and
`ApplyTerminalPrefix`, `SeedTerminalDocuments` and `FinishTerminalConstruction` the
terminal one. SQLite is assumed to isolate, commit and roll back as documented.
The host commits a candidate only after its closing proof has read the
frontier's documents (`Finish`); it computes the expected root of each batch, and
the batches of one peer depend on one another (`BatchAssumption`). A failed
candidate apply may leave its row in `applied_batches`: if that candidate is
committed, the row occupies the next sequence and every later batch is refused.
That is safe, and `FrontierWhole` holds, but the database accepts nothing more.

### SqliteMaterialization

Tables are sets of rows; names, paths, UUIDs and texts are numbers. `ApplyRows` is
`apply_graph_projection_rows` (all old owners out before any new one comes in),
`ApplyCatalog` the change of the reference catalog, `Terminal` the build from
nothing, `Proven` what `finalize_fresh_bootstrap` checks. A `Put` on a taken key
refuses the change, which is then rolled back. `Touched` and `Deleted` are what
the host hands over for a step between two graphs: every page that differs, and
every page whose references now resolve. `Rows` has the paged reads as sets of
their sort keys, `First` is `ORDER BY … LIMIT` on them; `OpenScan` and `Fetch` page
through one while changes commit.

### FixedFiles

`names` maps each name to a file (the build it holds, and whether it is whole),
`kept` is the set of such maps a power loss may leave. Preservation
(`BeginPreserve` to `Preserved`, resumed by `BeginResume`), removal, publication
of a candidate, publication of a checkpoint, and replacement and retirement of an
authority are sequences of single renames, removals and barriers, stopped at any
point by a failure, a death or a power loss. `Sampled` is the arithmetic of
`physical_file_checkpoint_interior_ranges` on byte positions.

Assumed: renames are atomic and reach the disk in the order made, and a barrier
commits all before it; one host makes one call at a time; it publishes a
candidate only at a name none of whose files exists, neither removes nor publishes
while a preservation is incomplete, and records completion durably in the
forensic directory. `Strays` is the other program that creates a database under
the target's name in the meantime; the resumption then refuses. `wanted` counts
files that were on disk when the preservation began; a resumed preservation does
not sync again the files moved before. Writes that SQLite makes to an open
database are SQLite's: `OpenTarget` only lets it create its sidecars.

## Runs

| Run | Distinct states | Shows |
| --- | --- | --- |
| `journal_v2` | 36 353 | the v2 properties and the refinement of `JournalPromise` |
| `journal_v2_replay` | violation | the finding below |
| `journal_v1` | 166 440 | the v1 properties and the same refinement |
| `publication` | 816 626 | exact, staged and batched publication by two publishers |
| `packed_store` | 1 630 782 | insertions, constructions, lookups and reclamations by two handles that permit packed heads |
| `packed_loose` | 642 412 | removals, a temporary, jobs of two nodes, a catalog that one node fills and a handle that permits no packed head: loose publication in every order |
| `patricia_index` | 510 262 | three updates or constructions over four keys, one of them a prefix of two |
| `scratch_runs` | 292 519 | two hosts, two ephemeral runs that dead hosts may have left and a retained one that comes by cloning; safety and liveness |
| `scratch_index` | 391 627 | insertions and deletions of two keys over three levels, buffered and written directly, in every branching of roots, with sessions and two faults |
| `sqlite_frontier` | 68 252 | two connections, six batches of three peers over four documents |
| `sqlite_materialization` | 256 455 | three pages and two blocks through three changes or rebuilds, and a paged scan beside them |
| `fixed_files` | 2 228 032 | a file set and an authority through two builds |

Bounds. Two openers are enough for one to hold the lock while another contends
or follows it; all openers beyond that are closed. A segment of three frames has
room for a committed prefix, a frame in flight and a suffix behind it, and is
filled within the run, so refusals at the limit happen. Five payloads in v2 let
appends be discarded, refused and repeated over a full segment; v1 has a longer
open and gets four, one more than fit. Two names and two contents in
`ImmutablePublication` cover agreeing and diverging publishers and a batch with
more than one file. Payloads, openers, publishers, names and contents are
interchangeable, so symmetry is sound for the safety properties checked; so are the
handles of `packed_store` and the connections of `sqlite_frontier`. `scratch_runs`
has a liveness property and no symmetry.

The packed runs have two handles, so that one publishes, reads or reclaims beside
another; two nodes, parent and child; a tier of one pack, so that the second
publication coalesces and leaves garbage; and one fault (a failed step, a death
or a power loss), which is enough for a head that was renamed and not synced,
the loose node of a failed insertion and a removal cut short, each followed by
operations that succeed.

Four keys of up to three bits, one of them a prefix of two others, give branches
of both kinds, a split, a collapse and a conflict; a budget of six
nodes, of which each mutation reserves five, makes constructions flush. Two hosts and two ephemeral runs let each creator
pass over the other's run. Stale runs may be there at first, so that one fault is
enough for a pass that fails on one of two stale runs. Larger instances of
`ScratchRuns` (three hosts with one fault, 286 166 states; two ephemeral and two
retained runs with two faults, 10 856 472 states; both up to symmetry) pass without
liveness and are not kept as runs.
Four pages let an insertion merge two levels of the index into the third, on any
branch; a page that a failed write tore or shifted makes merges and lookups fail.
A page of one record is buffered and one of two is written directly (`Buffered`),
so batches and merges take both ways; two faults let a flush fail behind a direct write
that failed, or a repeated flush fail again.
Full levels need eight pages, so that refusal is not reached. A buffer of one page
is flushed by the next append, and with two pages (121 701 states with one fault)
the same properties hold; a session budget of two entries evicts. Six batches
have joins of branches with different clocks and documents that several write;
priorities are neither ascending nor descending, so rotations go both ways.
Contents of the materialization are chosen so that blocks change places, a UUID
changes its block, aliases are declared twice and references dangle. Database
lengths of 1, 7 and 23 bytes with edges of 2 and samples of 6 in ranges of 2
are below an edge pair, within the sample and beyond it.

Named bounds that are not the code's: `MaxFaults`, `MaxUpdates`, `MaxChanges`,
`MaxPages`, `MaxBuilds`. `Capacity`, `TierLimit`, `CatalogLimit`, `Levels`,
`BufferSize`, `Buffered`, `Budget`, `EdgeBytes`, `SampleBytes` and `RangeBytes` stand for
limits the code has. `CHECK_DEADLOCK FALSE` is set where a bound or the program
really ends a behaviour: the v2 runs (all payloads offered, all handles closed on
a segment that is refused), `packed_loose` (a crash may leak the only temporary
name), and the runs whose updates, batches, changes or builds run out.

Fairness. The crate runs nothing by itself, and most modules claim no progress.
`ScratchRuns` does: `FairSpec` has weak fairness of `Continue(h)`, the next step
of an operation that host `h` has begun. A process that runs does its next system
call; nothing is assumed of beginning an operation, nor that a host survives
(`Die` ends the operation). `OperationsEnd` is then real because lease locks are
tried and never waited for.

## Properties

Journals: `ReturnedSelectedOnce` (durability and no duplicates),
`AlwaysRecoverable` (no crash makes a v2 segment refuse), `OutcomesHold` (what the
host was told of a payload stays true: a refused payload may be offered again, and
at most one outcome is open), `FailClosed` (a handle never serves less than what
was returned, even after a displaced write), `NoFrameErased` (v1 recovery never
cuts a complete frame), and `ImplementsPromise`, the refinement of `JournalPromise`
with `Log`, `Confirmed` and `displaced` (v1: `Void`) as the mapping. v1 has no
counterpart of `AlwaysRecoverable` because it is false by design: a torn tail of
full size is refused and left for an operator (708-745).

Publication: `AckedStays`, `TornOnlyByBatch`.

Packed store: `AuthorityOpens` (whatever a power loss leaves, the head's catalog
and its packs are there), `SettledSurvives` (published nodes stay),
`ReclaimSparesUse` (reclamation takes nothing from a reader between head and
packs, nor from a publisher between packs and head), `ReadsItsWrites` (from
whatever catalog a handle holds), `ChildrenBeforeParents` (only failed insertions
expose incomplete trees).

Trie: `RootsCanonical` (a root depends on its records alone, whatever led to it),
`LookupsExact`, `BulkAgrees` (the bulk build gives the root of single insertions
and refuses the same records), `RootsReadable` (a root that was returned reads
whole from disk after failed publications, flushes and crashes).

Scratch: `HeldUntouched` and `ReferredIntact` (nobody's run is taken, no partial
clone is referred to), `PassTakesStale` (a pass that lists the whole namespace
leaves nothing that was stale when it began but what was leased since and what one
of its own steps failed on: an error about one sibling costs no other),
`OperationsEnd`; `ReadsNewest` (lookups and scans answer with the newest record
through merges, tombstones and failed writes, or fail, and fail only on a reference
these failures cost) and `SessionBounded` (a session answers like its root, fails
only on such a reference, and keeps to its budget).

Frontier: `FrontierWhole`, `DocumentsExact` (an old root reads its own documents or
an error), `DescendsExact` (comparing one counter with one clock is the causal
order), `TerminalAgrees`, `StampCovers`, and `AcceptsInOrder`, the refinement of
`AcceptedHistory` by the committed rows.

Materialization: `IncrementalIsRebuild`, `ChangesAccepted` (no legal change is
refused), `FinalProof`, `ReadsShowGraph`, `ScanKeepsRows`.

Fixed files: `EvidenceKept`, `PublishedWhole`, `ToldStays` (after retries too),
`SampleCovers`.

## Finding

`replay` (v2 540) duplicates the descriptor that `append` writes through. On Unix
the duplicate shares the file offset, so a replay that stops early leaves the
append cursor behind the frontier, the handle stays usable and the next append
overwrites committed frames and returns. `journal_v2_replay` shows the lost
payload; `FailClosed` that the next open refuses such a segment. v1 (636) does the
same.

## Behaviour the properties leave out

These are stated in the modules, fail when put on the `INVARIANT` or `PROPERTY`
line of the cfg named, and are not runs. The checked properties are stated for
everything outside them (`displaced`, `orphaned`, `unproved`, `refused`,
`settled`, `lost`).

- `OutcomeSettledByReopen` (`LocalJournalV2.cfg`): `open_selected` adopts a renamed
  frontier that no one made durable and reports its payload as recovered; a later
  power loss can still take it back.
- `ReturnedSurvivesRestart` (`LocalJournalV1.cfg`): a v1 segment's name is synced
  only by the handle that created the file, after it took the lock. If another
  handle gets the lock first, or the creator dies, no one does, and a power loss
  takes returned appends with the file, which the comment of `append` (584) says
  survive a restart.
- `AckedSurvives` (`ImmutablePublication.cfg`): an exact publication that finds a
  matching file syncs the directory only. If a batch put the file there and is not
  finished, the caller is told of a durable publication whose bytes are not on disk.
- `AckedSurvives` (`PackedStoreLoose.cfg`): a construction whose head transition
  fails at the directory barrier has renamed the head. Its retry, or another
  process, reads that head, finds every node in it and reports success with no
  barrier, so a power loss can take back a completed construction.
- `ReferencesBind` (`ScratchIndex.cfg`): a flush that fails in part is repeated
  whole, so pages land behind the offsets that were handed out for them, and
  references that read while the page was buffered read no more.
- `ReturnedReads` (`ScratchIndex.cfg`): after a direct write that failed inside a
  page (`append` 495-502), or a flush that failed in part, `committed_len` is short
  of the file. The next insertion that reads nothing first succeeds and returns a
  root with a wrong offset; the digest check makes every read of it fail. The next
  read or write takes the length anew, and the insertions after it are right.
- `ReadBound` (`SqliteMaterialization.cfg`): a read view compares its stamp when it
  is constructed and never again, and no read transaction spans its calls; rows of
  a later commit may come back under the earlier frontier.

## Proofs

`LocalJournalV2Proofs` proves, for any sets of openers and payloads and any
capacity, `TypeCorrect`, `OneUnsettled`, `ReturnedOnce`, `Recoverable`,
`DiscardedStaysOut`, `OutcomesStay`, `OpensFailClosed` and `KeepsPromise`, which are
all properties of the run `journal_v2`. Assumptions: `CapacityAssumption` (a positive capacity),
`SentinelAssumption` (sentinels are none of the values) and the finiteness facts
the cardinality lemmas need. None of them is inductive. The invariant `IInv`
adds: who may be where while the lock is held (`LockInv`), which payload is in
flight and that only its holder's is (`PendingInv`), that an undisplaced handle's
offset is its frontier's extent (`CursorInv`), that unsettled payloads belong to
one handle or none (`SettleInv`), that no payload is in the file twice
(`UniqueInv`), and, while nothing was displaced, that the committed prefix is the
same in cache, on disk and under every frontier a power loss may leave
(`PrefixInv`), what each step of an append has established (`StepInv`), and where
each payload of each outcome may be (`OutcomeInv`). The step lemmas follow the
actions. `IInv` was model-checked before it was proved.

`OpensFailClosed` speaks of what happens after a displaced write too, where
`CommitInv` says nothing. It rests on two facts that need no such condition: what
an opener remembers of the frontier and where the frame of its append is
(`HandleInv`), and that each returned payload has, in every prefix a power loss may
select, a cell that holds it or fails the scan (`LossShows`), since a displaced
frame has a sequence number beyond its place. `KeepsPromise` is the refinement of
`JournalPromise`: `PromiseStep` maps the rename of the frontier to `Extend`, the
return of an append to `Confirm`, a power loss that selects a shorter frontier to
`Retract`, and a displaced write to `Forfeit`; every other step stutters.

`LocalJournalV1Proofs` proves every property of the run `journal_v1` (`OutcomesStay`,
with its parts `ReturnedStays` and `DiscardedStays`; `FramesStay`; `KeepsPromise`)
and `TypeCorrect`, for any openers, payloads and capacity, from
`CapacityAssumption`, `SentinelAssumption` and `ShortAssumption`. `AdoptedLongest`
shows, from the well-foundedness of the naturals, that the run of frames
`scan_segment` adopts exists and is the longest. The invariant `IInv` has types,
lock and offsets (`BaseInv`), frames at their own positions, no payload in two, and
a disk whose frames are the cache's (`FrameInv`), what a handle at each step knows
of the file (`StepInv`), which outcomes a payload in the file may have (`UsedInv`),
that a payload being written is in flight (`InflightInv`), that a returned payload
and all frames before it are on disk (`ReturnedInv`), and that the file's name
cannot be lost once something returned under it (`EntryInv`). `KeepsPromise` is the
refinement: `ShrinkKeeps` computes the log and its confirmed prefix of a file of
which a scan adopts less, so that a power loss is `Retract`; a written frame is
`Extend`, a successful sync `Confirm`, a displaced or orphaned append `Forfeit`, and
every other step stutters. `IInv` was model-checked on the states of `journal_v1`
before it was proved.

`FilesystemProofs` proves, of an instance `Pub` of `ImmutablePublication`,
`PublicationTypeCorrect`, `AcknowledgedStays`, `ExactIsAtomic` and
`NothingReplaced`, from
`ContentAssumption` alone. Its invariant relates what was acknowledged to what is
synced and linked (`AckInv`), via what a publisher holds between link and
acknowledgement (`WorkInv`) and the fact that unsynced files are a batch's
(`FilesInv`).

`PackedStoreProofs` proves every property of the packed runs, `OpeningSucceeds`,
`PrerequisitesKept` and `HeadGrows`, for any sets of handles and nodes, any children, jobs and limits, from `StoreAssumption` alone.
Its invariant has parts about the whole store (the lock and the lease, `LockInv`;
every directory a power loss may leave holds what was settled and the children of
what it holds, `HeldInv`) and parts about one handle (`HandleInv`): every catalog
in memory is covered by the head, which only grows (`CatalogInv`); a plan is the
catalog it starts from and the job, its files are there once published, and at
the barrier it is the head (`PlanInv`); the part of a job that is done is in
loose files and what its nodes refer to was there before (`JobInv`); what a
reclamation will delete the head does not reach (`DoomedInv`). The lemma
`OthersKeep` shows once that handles which do nothing keep their part while the
directory grows (`Grows`) and only a holder of the lock or lease changes the head
(`Entitled`); the step lemmas then speak of the handle that moves.

`ScratchRunsProofs` proves `TypeCorrect`, `HeldRunsUntouched`,
`ReferredRunsIntact` and `PassesTakeStale` for any hosts, any runs and any number of faults, from
`RunAssumption` alone. None of them is inductive: that a sweep spares a
held run depends on what it saw when it locked the lease, several steps before it
removes the first file. `IInv` adds, for each host, what it may have in its hands
where it is (`PlaceInv`), that a run in the making has exactly its maker's files
and one maker (`MakeInv`), that a run being taken apart is nobody's (`TearInv`),
and that a run held or being adopted is complete, whole and locked (`HoldInv`).
The lemmas `LettingGo`, `RemovalBegins` and `ReferredFree` speak of the changes
of hands that several actions share; one lemma per kind of step follows, and
`Inductive` puts them together. `IInv` was model-checked with three hosts before it
was proved. `PassesTakeStale` is an action property, of what a pass saw when it
began: `PassInv` says that a run in `stale` is not being made, is locked by nobody
but the pass itself on its way to remove it, and, while it is stale, is still ahead of
the pass or in its hands. A step of the pass that fails takes its run out of
`stale` (`FailSeen`), so a pass that ends without a fault has none left that is
stale. A step of another host either takes the run out of `stale` or
leaves it alone (`Calm`); a complete run that the pass could not lock is not stale
any more, because its directory is another one (`BackToPass`).

Of `FixedFiles`, `FilesystemProofs` proves `TypeCorrect`, `EvidenceStays`, `PublishedStaysWhole`,
`ReportedStays` and `SamplesCover` for any builds, lengths, authorities and faults, from
`FileAssumption` (its sentinel `Absent` is no file). The first
three properties speak of every state of the names a power loss may leave, so
`ImageInv` says of each such image what was told (`Told`), where the evidence is
(`Evidence`), what is whole (`Whole`), and that a candidate which is not folded has
its WAL (`Folded`), which is what makes the rename of a candidate safe. The other
parts are about the call in progress: which steps it has and beside which
preservation (`PlaceInv`), that nothing is told of the names it changes
(`ToldInv`), which members a preservation has moved (`MoveInv`) and what a
publication has found before it renames (`BuildInv`). A step that moves no file
keeps `ImageInv` by `ImagesStay` or, with a barrier, `ImagesSettle`; one that does
adds an image (`ImagesGrow`), of which its lemma proves the four parts. `IInv` was
model-checked on the 2 228 032 states of `fixed_files` before it was proved.
`SamplesCover` is about the arithmetic of a checkpoint: for every database length,
edge, budget and size of a range, the ranges begin where the leading edge ends,
end where the trailing one begins and do not meet, so that together they cover the
whole interior or exactly the budget. The number of bytes in the first `n` ranges
is found by the least `n` for which it would differ. `OwnedInv` adds that a
database's files are builds, of which alone the property speaks.

`ScratchIndexProofs` proves `TypeCorrect`, `ReadsAlwaysNewest` and
`SessionAlwaysBounded` for any keys, batches, levels, buffer, budget and number of faults,
from `IndexAssumption` and `EmptyAssumption`. That a lookup may stop at the first
level which has its key rests on `WellMade`, a part of `RootInv`: the lower a
segment, the younger, and the map of a root is its newest records. Merging keeps
it because the merged levels are all the young ones, and a tombstone is left out
only where nothing older remains. `ReadInv` says that every reference outside `lost`
reads; `PrefixReads` and `LosesBuffer` keep it when a write fails, because what is
on disk stays where it is and all references to the buffer are lost. `SessionInv`
says that a session's cache has segments of its root, each once, and that its
counter is what they weigh. What the walks down the levels
and the evictions compute is shown by least counterexample: `RecursionExists` gives
the function a recursive definition over a range stands for, `LeastExists` the first
argument at which it would be wrong.

`SqliteFrontierProofs` proves every property of `sqlite_frontier`,
`DocumentsStayExact`, `FrontierStaysWhole`, `DescentIsPast`, `TerminalBuildAgrees`,
`StampNeverShort` and the refinement `HistoryInOrder`, and `TypeCorrect`, for any connections, batches, keys
and priorities. It assumes `PriorityAssumption` (finitely many keys, each
with a priority) and `BatchAssumption` (a batch comes after its heads; the batches of
one peer depend on one another).
- The first half is about the maps, whatever they hold. `Fits` is a search tree
  over a set of keys; `UpsertIs`, `SplitIs` and `UnionIs` say that an update changes
  the answer for its key alone, that a split keeps the answers on both sides, and
  that a union answers with the larger counter. The nodes of an updated tree are
  new ones or the old tree's (which `Store` relies on), and a lookup goes down the
  nodes of its tree alone.
- `TerminalBuildAgrees` needs the priorities too. `Heap` says that the key of a node
  comes before (`Above`) every key below it; equal priorities are ordered by the key, so
  `Above` is a total order. `UpdatedHeap` and `UpsertIs` show that the rotations of an
  update restore the heap, where only the updated key may have to rise. The
  stack of the one-pass build is a `Spine` (keys that rise while they fall in
  priority, each with a finished left tree): `PushedIs` keeps it, `ChainedIs` hangs it
  together, `TerminalIs` says that the result is a heap with the documents given. By
  `SameTree` two heap-ordered search trees with the same entries are equal: both
  have the entry that is above all others at the root.
- `ClockInv` says of each row that its clock has, for each peer, the largest
  counter in the row's past, and its own counter is larger than those of its peer
  before it. With `PastTransitive` that is the causal order: `HeadsClockIs` joins
  the clocks of the heads, `NextRowIs` adds the batch's own dot.
- `Good` collects what holds of every state of the file a transaction may see: its
  shape (one row at most beyond the frontier row, left by an apply that failed inside
  a candidate), its rows (`RowsInv`), its stamp (`StampInv`) and its maps
  (`MapInv`). `GrownGood` shows that an apply which succeeds or fails
  part way keeps it, `CandidateKeeps` and `CommitKeeps` lift that to the candidate
  and to what is committed.
- Between connections: an open candidate continues what is committed (`Continues`,
  in `TxInv`), a root a host still holds mirrors a prefix of the history
  (`MirrorsAt`, in `KnownInv`), what an ordinary apply has checked outside its
  transaction still holds when the transaction begins, unless the apply will be
  refused (`AskedInv`), and the committed documents are all in place (`ReadInv`).
  `DocumentsExact` needs `MirrorsAt` because nodes are overwritten under older roots:
  a node found under a link has the link's content, so what an old root reads is
  the value of its own tree.

`IInv` was model-checked on all states of `sqlite_frontier`, without the symmetry,
before it was proved.

`SqliteMaterializationProofs` proves every property of `sqlite_materialization`,
`IncrementalRebuilds`, `NothingRefused`, `BootstrapProven`, `ReadsAnswer` and
`ScansComplete`, and `TypeCorrect`, for any pages, blocks, contents and queries and any
number of changes. It assumes `ContentAssumption` (finitely many pages and blocks, the
numbers of a content are numbers, a page has no UUID and no marker of its own),
`QueryAssumption` (`None` is neither a read nor a cursor) and, for `TypeCorrect`,
`BoundAssumption`. The properties follow from one statement, that the tables show the
graph (`Shows`): they hold the rows of all facts of the graph and no others (`Holds`),
and the catalog those of its declarations and postings (`Catalogs`).
- A fact is a page and an entity on it. `Holds` speaks of any set of facts, so that a
  change can be followed half way: `PageInserted` and `BlockInserted` add one fact
  under a key that was free, `InsertPagesIs` a set of pages. The order in which they
  are inserted, and so the rowid an owner gets, does not matter: `Indexed` asks only
  that owners and facts correspond one to one and search rows to owners.
- `Cleared` is what a deletion leaves, for a set of pages: `DeletePagesIs` computes it
  and `ClearedHolds` shows that between the deletions and the insertions the tables
  hold the facts of the pages that were not handed over (`Rest`) as the *new* graph
  has them. This is where the retained blocks matter: `RefsStay` shows that a
  reference from such a page stays if and only if its target is an entity of the new
  graph. `ApplyRowsIs` puts both together.
- `BindIs`: the candidates of an alias, computed from those it was bound to and what
  the changed pages declare, are the pages that declare it now. `CountIs`: the count
  that is carried along is the number of pages.
- Two tables that show one graph differ in rowids and stamp alone (`ObservedIs`); the
  closing proof needs as many search rows as owners (`SearchComplete`); each read is
  computed from the facts (`ReferrersAre` and its siblings).
- A scan keeps, beside the order of what it has read, that what was there throughout
  and is not behind the cursor has been read (`Scans`). A fetch returns the least row
  behind the cursor (`FetchedIs`); that there is one for keys of up to three numbers
  is `FirstExists`, by narrowing the candidates component by component.

`IInv` was model-checked with all eleven reads and two changes before it was proved.

Only proved, and not on the list of any run: the `TypeCorrect` theorems,
`NothingReplaced` (no publisher replaces or removes what a name shows),
`HeadGrows`, and the parts of which `OutcomesHold` and `ReclaimSparesUse` are made
(`OneUnsettled`, `DiscardedStaysOut`; `OpeningSucceeds`, `PrerequisitesKept`).

Only model-checked:
- The trie (`RootsCanonical`, `LookupsExact`, `BulkAgrees`, `RootsReadable`): its
  modules use RECURSIVE operators, and what those compute for every input needs an
  induction that the installed provers cannot do.
- `OperationsEnd` of `ScratchRuns`: liveness and ENABLED are out of the provers'
  reach.

## Plan

Done, in this order: the journals with their proofs; immutable publication and
the packed store with their proofs; the trie and its index; scratch runs with
their proofs and the scratch index with its; the SQLite frontier with its abstract history and its proofs;
the materialization with its proofs; the file set and the authority transitions with theirs.

Left: the v1 inspection for the transition to v2 (`inspect_v1`) and the tiers of
`compact_size_tiers`; of the proofs those of the trie.

## Not modelled

Windows write-through publication (`filesystem.rs`), path and file-type
validation, encodings (frames, frontiers, nodes, batches: they are identities with
a validity bit), digests, size tiers of packs, parallel and streaming bulk builds,
SQL's own execution, text normalisation and byte accounting of search, the
opening and configuration of SQLite connections, a transaction that SQLite ends by
itself inside a candidate build, the value of a reference count (only that the row
is there) and the ordinal of a facet cursor, the observation of a completed forensic
directory (it changes nothing), statistics, and the public-API inventory.
`durable_batch.rs`, `content_digest.rs`, `digest_sealed.rs` and `formats.rs` are
pure functions of bytes, for which the crate has round-trip tests; a TLA+ model
would only restate them. `PROJECT.json` gives the reason for each part.
