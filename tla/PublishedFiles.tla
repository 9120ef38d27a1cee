--------------------------- MODULE PublishedFiles ---------------------------
(***************************************************************************)
(* What the fixed names of one directory show and are known to keep, what  *)
(* publishers were told of them, and what they may rely on.                *)
(* ImmutablePublication says how they come about.                          *)
(***************************************************************************)
EXTENDS Naturals, FiniteSets

CONSTANTS
    FileNames,   \* file names of one directory
    Values,      \* exact contents
    Missing,     \* the name is not there
    Junk         \* what an unsynced file may hold after a power loss

ASSUME ContentAssumption == {Missing, Junk} \cap Values = {} /\ Missing # Junk

VARIABLES
    content,  \* what each name shows: a content, Junk or Missing
    synced,   \* the names whose file's bytes are on disk
    linked,   \* the names whose directory entry is on disk
    acked,    \* the names and contents some caller was told are published
    loose,    \* the names a batch ever linked without syncing them
    unproved, \* the names an exact publication found with unsynced bytes
    refused   \* the names acknowledged although the directory sync was refused

\* What a caller was told is published shows its exact bytes ever after, through
\* every crash, unless an exact publication accepted a file whose bytes were
\* not synced, or a platform refused to sync the directory of a batch.
AckedStays ==
    \A p \in acked : p[1] \notin unproved \cup refused => content[p[1]] = p[2]

\* A name that no batch linked never shows anything but a content that was
\* published under it whole: exact publication is atomic across power losses.
TornOnlyByBatch == \A n \in FileNames : content[n] = Junk => n \in loose
=============================================================================
