-------------------------------- MODULE Wal --------------------------------
(***************************************************************************)
(* The segment write-ahead log: theta-storage's wal.rs over segment.rs.     *)
(*                                                                         *)
(* A log is a directory of numbered segment files.  A file is a sequence of *)
(* cells: its header, then records.  Bytes are abstracted to cells, so an   *)
(* offset counts cells and HEADER_LEN is 1; a write the process or the disk *)
(* cut short ends in a Torn cell.  Records are numbered in the order the    *)
(* callers submit them.  "synced" is how many cells an fsync has covered    *)
(* and "named" whether the directory entry is durable: what a power loss    *)
(* may take away is exactly what lies beyond them.                          *)
(***************************************************************************)
EXTENDS Naturals, Sequences, FiniteSets

CONSTANTS
    SegmentCells,   \* WalConfig.segment_bytes, in cells: roll at this offset
    MaxBatch,       \* the largest append_batch
    MaxId,          \* bound: records ever submitted
    MaxSegment,     \* bound: the highest segment number
    MaxTroubles     \* bound: kills, power losses, rekeys and faults together

ASSUME WalAssumption ==
    /\ SegmentCells \in Nat \ {0, 1}
    /\ MaxBatch \in Nat \ {0}
    /\ MaxSegment \in Nat
    /\ {MaxId, MaxTroubles} \subseteq Nat

Segments == 0..MaxSegment
Cell == [kind : {"header", "record", "torn"}, id : Nat, sealed : BOOLEAN]
File == [cells : Seq(Cell), synced : Nat, named : BOOLEAN, live : BOOLEAN]
Position == [segment : Segments, offset : Nat \ {0}]

VARIABLES
    disk,        \* the segment files
    ckptFile,    \* the position in the CHECKPOINT file
    ckptSynced,  \* the one a power loss may bring back
    pc,          \* where the process is inside its current call
    key,         \* WalConfig.data_key is set
    position,    \* SegmentWal.position
    checkpoint,  \* SegmentWal.checkpoint.position
    batch,       \* the ids append_batch is writing
    unlinked,    \* segments removed since the directory was last synced
    nextId,      \* the next record number
    acked,       \* ids of every append that returned Ok
    seen,        \* ids some recovery has returned
    refused,     \* a recovery has stopped with OrphanedSegments
    bounds       \* how many kills (deaths of the process alone: the page cache
                 \* stays), power losses, changes of data_key and I/O errors
                 \* returned to the running process there have been

memory == <<position, checkpoint, batch>>
history == <<nextId, acked, seen, refused>>
files == <<disk, ckptFile, ckptSynced, unlinked>>
vars == <<files, pc, key, memory, history, bounds>>

-----------------------------------------------------------------------------
(* The segment format *)

Header(k) == [kind |-> "header", id |-> 0, sealed |-> k]
Record(i, k) == [kind |-> "record", id |-> i, sealed |-> k]
Torn == [kind |-> "torn", id |-> 0, sealed |-> FALSE]

NoFile == [cells |-> <<>>, synced |-> 0, named |-> FALSE, live |-> FALSE]
Live == {s \in Segments : disk[s].live}
Oldest(S) == CHOOSE s \in S : \A t \in S : s <= t
Newest(S) == CHOOSE s \in S : \A t \in S : t <= s

START == [segment |-> 0, offset |-> 1]

\* The process died before the header was whole.
HeaderIncomplete(f) == f.cells = <<>> \/ f.cells[1].kind # "header"

\* A record decodes when it is whole and sealed exactly as its segment's flag
\* says: a sealed payload in a plaintext segment does not parse.
Decodes(f, i) == f.cells[i].kind = "record" /\ f.cells[i].sealed = f.cells[1].sealed

\* Everything the scan passes on its way from "start" to cell i decodes.
Scans(f, start, i) == \A j \in start + 1 .. i : Decodes(f, j)

\* One past the last record that verified, as an offset: scan's valid_end.
ValidEnd(f, start) ==
    LET bad == {n \in start + 1 .. Len(f.cells) : ~Decodes(f, n)}
    IN  IF HeaderIncomplete(f) THEN 1
        ELSE IF bad # {} THEN Oldest(bad) - 1
        ELSE IF start <= Len(f.cells) THEN Len(f.cells) ELSE start

\* The scan stopped early: scan's torn.
TornAfter(f, start) == HeaderIncomplete(f) \/ ValidEnd(f, start) < Len(f.cells)

\* File f holds record i where every scan from its header reaches it.
Holds(f, i) ==
    /\ ~HeaderIncomplete(f)
    /\ \E n \in 2 .. Len(f.cells) : Scans(f, 1, n) /\ f.cells[n].id = i

\* What an fsync has covered.
SyncedPart(f) == IF f.named THEN [f EXCEPT !.cells = SubSeq(@, 1, f.synced)] ELSE NoFile

SyncNothing(f) == f  \* mutant: acknowledges what is still in the page cache

\* sync_all on a file: its contents, not its directory entry.
SyncAll(f) == [f EXCEPT !.synced = Len(f.cells)]

\* sync_dir on the segments' directory: the entry of every file in it.
SyncDir(d) == [s \in Segments |-> [d[s] EXCEPT !.named = @ \/ d[s].live]]

-----------------------------------------------------------------------------

NoBatch == [first |-> 1, last |-> 0]
Troubles == bounds.kills + bounds.losses + bounds.rekeys + bounds.faults
Count(what) ==
    /\ Troubles < MaxTroubles
    /\ bounds' = [bounds EXCEPT ![what] = @ + 1]

Init ==
    /\ disk = [s \in Segments |-> NoFile]
    /\ ckptFile = START
    /\ ckptSynced = START
    /\ unlinked = {}
    /\ pc = "down"
    /\ key \in BOOLEAN
    /\ position = START
    /\ checkpoint = START
    /\ batch = NoBatch
    /\ nextId = 1
    /\ acked = {}
    /\ seen = {}
    /\ refused = FALSE
    /\ bounds = [kills |-> 0, losses |-> 0, rekeys |-> 0, faults |-> 0]

-----------------------------------------------------------------------------
(* append_batch *)

\* A batch of n records arrives; it is encoded before the file is touched.
Submit(n) ==
    /\ pc = "idle"
    /\ nextId + n <= MaxId + 1
    /\ batch' = [first |-> nextId, last |-> nextId + n - 1]
    /\ nextId' = nextId + n
    /\ pc' = "append"
    /\ UNCHANGED <<files, key, position, checkpoint, acked, seen, refused, bounds>>

BatchIdsTooMany == batch.first .. batch.last + 1  \* mutant: off by one
BatchIds == batch.first .. batch.last

\* The records of the batch, as the cells write_all appends.
BatchCells == [j \in 1 .. batch.last - batch.first + 1 |-> Record(batch.first + j - 1, key)]

\* A file opened with create(true).append(true), and cells written to it.
Written(f, cells) == [f EXCEPT !.cells = @ \o cells, !.live = TRUE]
Write(s, cells) == disk' = [disk EXCEPT ![s] = Written(@, cells)]

\* roll_if_needed: the active segment is full, so create_segment opens the next
\* one and writes its header.
Roll ==
    /\ pc = "append"
    /\ position.offset >= SegmentCells
    /\ position.segment < MaxSegment
    /\ Write(position.segment + 1, <<Header(key)>>)
    /\ pc' = "rolling"
    /\ UNCHANGED <<ckptFile, ckptSynced, unlinked, key, memory, history, bounds>>

\* create_segment returns: contents and directory entry are durable.
RollDone ==
    /\ pc = "rolling"
    /\ disk' = SyncDir([disk EXCEPT ![position.segment + 1] = SyncAll(@)])
    /\ unlinked' = {}
    /\ position' = [segment |-> position.segment + 1, offset |-> 1]
    /\ pc' = "append"
    /\ UNCHANGED <<ckptFile, ckptSynced, key, checkpoint, batch, history, bounds>>

WriteBatch ==
    /\ pc = "append"
    /\ position.offset < SegmentCells
    /\ Write(position.segment, BatchCells)
    /\ pc' = "written"
    /\ UNCHANGED <<ckptFile, ckptSynced, unlinked, key, memory, history, bounds>>

\* sync_all returned, so the append is acknowledged.
Ack ==
    /\ pc = "written"
    /\ disk' = [disk EXCEPT ![position.segment] = SyncAll(@)]
    /\ position' = [position EXCEPT !.offset = @ + Len(BatchCells)]
    /\ acked' = acked \cup BatchIds
    /\ batch' = NoBatch
    /\ pc' = "idle"
    /\ UNCHANGED <<ckptFile, ckptSynced, unlinked, key, checkpoint, nextId, seen, refused, bounds>>

-----------------------------------------------------------------------------
(* An I/O error: the call returns Err, and the process carries on *)

Fails ==
    /\ Count("faults")
    /\ batch' = NoBatch
    /\ pc' = "idle"
    /\ UNCHANGED <<ckptFile, ckptSynced, unlinked, key, position, checkpoint, history>>

\* write_all wrote some of the buffer, perhaps ending inside a record.
WriteFails ==
    /\ pc = "append"
    /\ position.offset < SegmentCells
    /\ \E n \in 0 .. Len(BatchCells) - 1, tail \in {<<>>, <<Torn>>} :
         Write(position.segment, SubSeq(BatchCells, 1, n) \o tail)
    /\ Fails

\* sync_all failed: the records are in the file and position is not past them.
SyncFails ==
    /\ pc = "written"
    /\ UNCHANGED disk
    /\ Fails

\* create_segment failed: the file was not created, or has none, part or all of
\* its header.
RollFails ==
    /\ \/ pc = "rolling" /\ UNCHANGED disk
       \/ /\ pc = "append"
          /\ position.offset >= SegmentCells
          /\ position.segment < MaxSegment
          /\ \/ UNCHANGED disk
             \/ \E cells \in {<<>>, <<Torn>>} : Write(position.segment + 1, cells)
    /\ Fails

-----------------------------------------------------------------------------
(* checkpoint, called with the log's own position *)

\* The temporary file is durable and renamed over CHECKPOINT.
CheckpointRename ==
    /\ pc = "idle"
    /\ ckptFile' = position
    /\ pc' = "renamed"
    /\ UNCHANGED <<disk, ckptSynced, unlinked, key, memory, history, bounds>>

\* The directory is synced, and only then does the process remember it.
CheckpointDone ==
    /\ pc = "renamed"
    /\ ckptSynced' = ckptFile
    /\ checkpoint' = ckptFile
    /\ pc' = "idle"
    /\ UNCHANGED <<disk, ckptFile, unlinked, key, position, batch, history, bounds>>

-----------------------------------------------------------------------------
(* release_segment, for a segment the archive can return *)

ReleasableAtCheckpoint(s) == s <= checkpoint.segment  \* mutant: off by one

\* Below the checkpoint the process remembers, and therefore not the segment
\* recovery starts in nor the one being written.
Releasable(s) == s < checkpoint.segment

\* The file is removed.  Its cells stay in the model as the archived copy.
Release(s) ==
    /\ pc = "idle"
    /\ Releasable(s)
    /\ disk[s].live
    /\ disk' = [disk EXCEPT ![s].live = FALSE]
    /\ unlinked' = unlinked \cup {s}
    /\ pc' = "unlinking"
    /\ UNCHANGED <<ckptFile, ckptSynced, key, memory, history, bounds>>

ReleaseDone ==
    /\ pc = "unlinking"
    /\ disk' = SyncDir(disk)
    /\ unlinked' = {}
    /\ pc' = "idle"
    /\ UNCHANGED <<ckptFile, ckptSynced, key, memory, history, bounds>>

\* The directory's sync failed after the rename or the unlink: the checkpoint in
\* memory stays behind the file, and the unlinked segment waits for a later sync.
DirSyncFails ==
    /\ pc \in {"renamed", "unlinking"}
    /\ UNCHANGED disk
    /\ Fails

-----------------------------------------------------------------------------
(* Crashes *)

Down ==
    /\ pc # "down"
    /\ pc' = "down"
    /\ position' = START
    /\ checkpoint' = START
    /\ batch' = NoBatch
    /\ UNCHANGED <<key, history>>

\* A file that loses cells past the first "kept", the cut being after a cell or
\* inside one.
Cuts(f, kept) ==
    {SubSeq(f.cells, 1, n) : n \in kept .. Len(f.cells)}
    \cup {Append(SubSeq(f.cells, 1, n), Torn) : n \in kept .. Len(f.cells) - 1}

\* The cells the write in progress appended to segment s.
InFlight(s) ==
    IF pc = "written" /\ s = position.segment THEN Len(BatchCells)
    ELSE IF \/ pc = "rolling" /\ s = position.segment + 1
            \/ pc = "opening" /\ s = position.segment
         THEN 1 ELSE 0

\* The process dies, perhaps in the middle of the write it was making; what it
\* wrote stays readable, and stays as unsynced as it was.
Kill ==
    /\ Count("kills")
    /\ Down
    /\ \E s \in Segments : \E cells \in Cuts(disk[s], Len(disk[s].cells) - InFlight(s)) :
         disk' = [disk EXCEPT ![s].cells = cells]
    /\ UNCHANGED <<ckptFile, ckptSynced, unlinked>>

\* What a power loss leaves of a file is durable from then on; nothing is left
\* of one whose directory entry was not durable, or all of what was synced.
Settled(f, cells) == [f EXCEPT !.cells = cells, !.synced = Len(cells), !.named = f.named \/ f.live]
Survivors(f) ==
    {Settled(f, cells) : cells \in Cuts(f, f.synced)} \cup (IF f.named THEN {} ELSE {NoFile})

\* As long as the process never died alone, at most one file has content that is
\* not durable, so one file loses some.  A rename or an unlink whose directory
\* was not synced may or may not last.
PowerLoss ==
    /\ Count("losses")
    /\ Down
    /\ \E s \in Segments, back \in SUBSET unlinked : \E f \in Survivors(disk[s]) :
         disk' = [t \in Segments |->
                    IF t \in back THEN [disk[t] EXCEPT !.live = TRUE]
                    ELSE IF t = s THEN f ELSE Settled(disk[t], disk[t].cells)]
    /\ ckptFile' \in {ckptFile, ckptSynced}
    /\ ckptSynced' = ckptFile'
    /\ unlinked' = {}

\* The operator restarts the process with a data key it did not have, or
\* without the one it had.
Rekey ==
    /\ pc = "down"
    /\ key' = ~key
    /\ Count("rekeys")
    /\ UNCHANGED <<files, pc, memory, history>>

-----------------------------------------------------------------------------
(* Recovery *)

\* What recover_at reads when it starts from a position: the segments it
\* scans, those it finds damaged, and those it gets to before the first one.
StartIn(s, from) == IF s = from.segment THEN from.offset ELSE 1
Scanned(from) == {s \in Live : s >= from.segment}
Damaged(from) == {s \in Scanned(from) : TornAfter(disk[s], StartIn(s, from))}
Reached(from) == {s \in Scanned(from) : \A d \in Damaged(from) : s <= d}
OrphanedIgnored(from) == {}  \* mutant: the later segments are left where they are
Orphaned(from) == Scanned(from) \ Reached(from)

\* A sealed segment is in the way and no data key is configured: open fails.
Locked(from) ==
    /\ ~key
    /\ \E s \in Reached(from) : ~HeaderIncomplete(disk[s]) /\ disk[s].cells[1].sealed

\* set_len and sync_all.
Truncated(f, n) == [f EXCEPT !.cells = SubSeq(@, 1, n), !.synced = n]

\* Mutant: every damaged segment is rewritten as empty.
RepairedEmpty(f, start) == [f EXCEPT !.cells = <<Header(key)>>, !.synced = 1]

\* The damaged segment, truncated to its valid end; one with no whole header is
\* rewritten as an empty segment.
Repaired(f, start) ==
    IF HeaderIncomplete(f)
    THEN [f EXCEPT !.cells = <<Header(key)>>, !.synced = 1]
    ELSE Truncated(f, ValidEnd(f, start))
Repair(from) ==
    [s \in Segments |-> IF s \in Damaged(from) \cap Reached(from)
                        THEN Repaired(disk[s], StartIn(s, from))
                        ELSE disk[s]]

\* The records the scan returns.
Entries(from) ==
    UNION {{disk[s].cells[n].id : n \in StartIn(s, from) + 1 .. ValidEnd(disk[s], StartIn(s, from))} :
             s \in Reached(from)}

\* A segment's flag covers the whole file, so one that disagrees with the key
\* cannot be appended to.
NeedsFreshSegment(f) == f.cells[1].sealed # key

\* An empty directory: segment 0 is created.
RecoverFresh ==
    /\ pc = "down"
    /\ Live = {}
    /\ Write(0, <<Header(key)>>)
    /\ position' = START
    /\ checkpoint' = ckptFile
    /\ pc' = "opening"
    /\ UNCHANGED <<ckptFile, ckptSynced, unlinked, key, batch, history, bounds>>

\* Segments follow the damaged one: it is truncated, and then open fails.
RecoverRefuses(from) ==
    /\ pc = "down"
    /\ Orphaned(from) # {}
    /\ ~Locked(from)
    /\ disk' = Repair(from)
    /\ refused' = TRUE
    /\ UNCHANGED <<ckptFile, ckptSynced, unlinked, pc, key, memory, nextId, acked, seen, bounds>>

\* The log opens at the end of what was read, creating a segment to append to
\* when that one cannot be appended to.
Recover(from) ==
    LET last == Newest(Reached(from))
        repaired == Repair(from)
        fresh == NeedsFreshSegment(repaired[last])
    IN  /\ pc = "down"
        /\ Reached(from) # {}
        /\ Orphaned(from) = {}
        /\ ~Locked(from)
        /\ fresh => last < MaxSegment
        /\ disk' = IF fresh
                   THEN [repaired EXCEPT ![last + 1] = Written(@, <<Header(key)>>)]
                   ELSE repaired
        /\ position' = IF fresh
                       THEN [segment |-> last + 1, offset |-> 1]
                       ELSE [segment |-> last, offset |-> ValidEnd(disk[last], StartIn(last, from))]
        /\ checkpoint' = ckptFile
        /\ seen' = seen \cup Entries(from)
        /\ pc' = IF fresh THEN "opening" ELSE "idle"
        /\ UNCHANGED <<ckptFile, ckptSynced, unlinked, key, batch, nextId, acked, refused, bounds>>

\* recover starts from the checkpoint, recover_from_genesis from START.
RecoverAny == \E from \in {ckptFile, START} : RecoverRefuses(from) \/ Recover(from)

\* The segment recovery created is durable, and the log is open.
Opened ==
    /\ pc = "opening"
    /\ disk' = SyncDir([disk EXCEPT ![position.segment] = SyncAll(@)])
    /\ unlinked' = {}
    /\ pc' = "idle"
    /\ UNCHANGED <<ckptFile, ckptSynced, key, memory, history, bounds>>

-----------------------------------------------------------------------------

Next ==
    \/ \E n \in 1 .. MaxBatch : Submit(n)
    \/ Roll \/ RollDone \/ WriteBatch \/ Ack
    \/ WriteFails \/ SyncFails \/ RollFails
    \/ CheckpointRename \/ CheckpointDone
    \/ \E s \in Segments : Release(s)
    \/ ReleaseDone \/ DirSyncFails
    \/ Kill \/ PowerLoss \/ Rekey
    \/ RecoverFresh \/ RecoverAny \/ Opened

Spec == Init /\ [][Next]_vars

-----------------------------------------------------------------------------
(* Properties *)

\* The variables keep their types; acknowledged and recovered ids were
\* submitted.
TypeOK ==
    /\ disk \in [Segments -> File]
    /\ {ckptFile, ckptSynced, position, checkpoint} \subseteq Position
    /\ pc \in {"down", "opening", "idle", "append", "rolling", "written", "renamed", "unlinking"}
    /\ key \in BOOLEAN
    /\ batch \in [first : Nat, last : Nat]
    /\ unlinked \subseteq Segments
    /\ nextId \in Nat \ {0}
    /\ acked \subseteq 1 .. nextId - 1
    /\ seen \subseteq 1 .. nextId - 1
    /\ refused \in BOOLEAN
    /\ bounds \in [{"kills", "losses", "rekeys", "faults"} -> Nat]

\* No append ever failed; of the crashes, only the process died, or only the
\* machine lost power, or neither.
NoFault == bounds.faults = 0
OnlyPowerLosses == NoFault /\ bounds.kills = 0
SameCrashes == bounds.kills = 0 \/ bounds.losses = 0
OneKindOfCrash == NoFault /\ SameCrashes

\* "An append that returned Ok survives": each acknowledged record is in a
\* segment (or the archived copy of a released one) with nothing before it that
\* would stop the scan.
AckedSurvives == \A i \in acked : \E s \in Segments : Holds(disk[s], i)

\* An append that returned Ok survives crashes of one kind, however many, and
\* restarts with another data key; so does a record that some recovery has
\* returned, acknowledged or not ("recovery is idempotent").
SurvivesCrashes ==
    OneKindOfCrash => \A i \in acked \cup seen : \E s \in Segments : Holds(disk[s], i)

\* While the process has not been killed by itself, every acknowledged record
\* is in what a power loss at this instant could not take.
AckedDurable ==
    OnlyPowerLosses => \A i \in acked : \E s \in Segments : Holds(SyncedPart(disk[s]), i)

\* Reading the segments in order, released ones included, yields records in the
\* order they were submitted, each once, whatever I/O errors and crashes of one
\* kind there were: segment s's n-th cell comes before t's m-th.
InOrder ==
    SameCrashes => \A s, t \in Segments : \A n \in 2 .. Len(disk[s].cells), m \in 2 .. Len(disk[t].cells) :
        /\ s < t \/ (s = t /\ n < m)
        /\ Decodes(disk[s], n)
        /\ Decodes(disk[t], m)
        => disk[s].cells[n].id < disk[t].cells[m].id

\* The checkpoint recovery would use names a live segment and a record boundary
\* inside it that a scan from the header gets to: it skips nothing it should
\* have read, and the segment has not been released.
CheckpointReadable ==
    LET f == disk[ckptFile.segment]
    IN  OneKindOfCrash /\ ckptFile # START =>
            /\ f.live
            /\ ckptFile.offset \in 1 .. Len(f.cells)
            /\ ~HeaderIncomplete(f)
            /\ Scans(f, 1, ckptFile.offset)

\* Crashes alone never damage a segment with another one behind it, so a log
\* that only ever crashed always opens again.
NeverOrphaned == OneKindOfCrash => ~refused

\* The next append lands at the end of the last file: no bytes that recovery
\* would truncate lie before it.
PositionAtEnd ==
    OneKindOfCrash /\ pc = "idle" =>
        /\ position.offset = Len(disk[position.segment].cells)
        /\ \A s \in Live : s <= position.segment

=============================================================================
