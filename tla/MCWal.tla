------------------------------- MODULE MCWal -------------------------------
(***************************************************************************)
(* Wal's runs, and the refinement mapping from Wal to DurableLog: the       *)
(* abstract log is what a recovery from genesis would read if the machine   *)
(* lost power now.                                                          *)
(***************************************************************************)
EXTENDS Wal, SequencesExt

SyncedIds(s) ==
    LET f == SyncedPart(disk[s])
        n == IF HeaderIncomplete(f) THEN 1 ELSE ValidEnd(f, 1)
    IN  [i \in 1 .. n - 1 |-> f.cells[i + 1].id]

Abstract == INSTANCE DurableLog WITH
    log <- FlattenSeq([s \in 1 .. MaxSegment + 1 |-> SyncedIds(s - 1)]),
    inflight <- IF pc \in {"append", "rolling", "written"}
                THEN [i \in 1 .. batch.last - batch.first + 1 |-> batch.first + i - 1]
                ELSE <<>>,
    promised <- acked

\* The segment files implement the append-only log: while the process has not
\* been killed by itself and no append failed, no step, power loss, recovery or
\* release takes back, reorders or repeats a record, and a batch is acknowledged
\* only with all of it in the log.
ImplementsDurableLog ==
    /\ Abstract!Init
    /\ [][OnlyPowerLosses' => Abstract!Next]_(Abstract!vars)

\* Nothing is lost: no acknowledged or recovered record to crashes of one kind,
\* and no acknowledged one to a power loss at this instant (SurvivesCrashes,
\* AckedDurable).
NothingLost == SurvivesCrashes /\ AckedDurable

\* Records are read in the order they were submitted, each once, and the next
\* append lands where the last recovery stopped reading (InOrder, PositionAtEnd).
OrderKept == InOrder /\ PositionAtEnd

\* The checkpoint's position can be read and recovery opens, whatever crashed
\* (CheckpointReadable, NeverOrphaned).
AlwaysReopens == CheckpointReadable /\ NeverOrphaned
=============================================================================
