---------------------------- MODULE SegmentFile ----------------------------
(***************************************************************************)
(* What both journal protocols share: the frames of one segment file and   *)
(* what a crash makes of a file that is partly synced.                     *)
(*                                                                         *)
(* A file is an array of cells, one frame each.  Cell contents are what the *)
(* scan of a reopened segment tells apart: a frame with its sequence number *)
(* and payload identity, bytes that are not a frame, or nothing (past the   *)
(* end of the file).  Every file has a page-cache content, which survives   *)
(* the death of a process, and a disk content, which survives a power loss. *)
(***************************************************************************)
EXTENDS Naturals, FiniteSets

CONSTANTS
    Openers,   \* handles that may open the segment
    Ids,       \* payloads offered to append, each at most once
    Capacity,  \* frames the segment can hold (size and sequence limits)
    NoOpener,  \* the lock is free
    NoId,      \* no append is in progress
    Broken,    \* contents of a cell whose bytes are not a frame
    Hole       \* content of a cell past the end of the file

Pos == 1..Capacity

\* A decoded frame; sequence numbers count from the segment's base sequence.
Frame == [seq: Pos, id: Ids]
Cell == Frame \cup Broken \cup {Hole}

ASSUME CapacityAssumption == Capacity \in Nat \ {0}
ASSUME SentinelAssumption ==
    /\ NoOpener \notin Openers /\ NoId \notin Ids
    /\ Frame \cap Broken = {} /\ Hole \notin Frame \cup Broken

IsFrame(cell) == cell \notin Broken \cup {Hole}

\* The file cut after n frames (set_len).
Truncated(s, n) == [i \in Pos |-> IF i <= n THEN s[i] ELSE Hole]

\* A cell that was written but not synced is the old one, the new one or
\* neither; the disk orders no two of them.
CellImages(old, new) == IF old = new THEN {old} ELSE {old, new} \cup Broken

\* What the disk may hold of a file after a power loss or a failed sync.
Images(disk, cache) ==
    {image \in [Pos -> UNION {CellImages(disk[i], cache[i]) : i \in Pos}] :
        \A i \in Pos : image[i] \in CellImages(disk[i], cache[i])}
=============================================================================
