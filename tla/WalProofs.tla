----------------------------- MODULE WalProofs -----------------------------
(***************************************************************************)
(* Proofs about Wal, for every segment size, batch size and bound: its      *)
(* types, then what crashes cannot take from the log, by two inductive      *)
(* invariants over TypeInv.  OrderInv is about where records may lie and    *)
(* holds whatever I/O errors there are; CrashInv is about what is readable, *)
(* and needs that no I/O call failed.  With both, the segment files are     *)
(* shown to implement DurableLog.                                           *)
(***************************************************************************)
EXTENDS MCWal, TLAPS, SequenceTheorems, WellFoundedInduction

-----------------------------------------------------------------------------
(* The least and greatest elements the definitions choose exist *)

LEMMA OldestExists ==
  ASSUME NEW S \in SUBSET Nat, S # {}
  PROVE  Oldest(S) \in S /\ \A t \in S : Oldest(S) <= t
<1>1. OpToRel(<, Nat) = {ss \in Nat \X Nat : ss[1] < ss[2]}
  BY DEF OpToRel
<1>2. PICK x \in S : \A y \in S : <<y, x>> \notin OpToRel(<, Nat)
  BY NatLessThanWellFounded, WFMin
<1>3. ASSUME NEW y \in S PROVE x <= y
  <2>1. <<y, x>> \in Nat \X Nat
    OBVIOUS
  <2>2. ~(<<y, x>>[1] < <<y, x>>[2])
    BY <1>1, <1>2, <2>1
  <2>3. QED
    BY <2>2
<1>4. QED
  BY <1>3 DEF Oldest

LEMMA NewestExists ==
  ASSUME NEW S \in SUBSET Segments, S # {}
  PROVE  Newest(S) \in S /\ \A t \in S : t <= Newest(S)
<1> DEFINE T == {m \in Nat : MaxSegment - m \in S}
<1>1. MaxSegment \in Nat /\ \A s \in S : s \in Nat /\ s <= MaxSegment
  BY WalAssumption DEF Segments
<1>2. \A s \in S : MaxSegment - s \in T
  BY <1>1
<1>3. Oldest(T) \in T /\ \A t \in T : Oldest(T) <= t
  <2>1. T \in SUBSET Nat /\ T # {}
    BY <1>2
  <2>2. QED
    BY <2>1, OldestExists
<1> DEFINE x == MaxSegment - Oldest(T)
<1>4. x \in S
  BY <1>3
<1>5. ASSUME NEW t \in S PROVE t <= x
  <2>1. Oldest(T) <= MaxSegment - t
    BY <1>2, <1>3
  <2>2. Oldest(T) \in Nat
    BY <1>3
  <2>3. QED
    BY <1>1, <2>1, <2>2
<1>6. QED
  BY <1>4, <1>5 DEF Newest

\* valid_end is never before the point the scan starts from, a scan that finds
\* no damage ends at the end of the file, and everything it passes decodes.
LEMMA ValidEndProperties ==
  ASSUME NEW f \in File, NEW start \in Nat \ {0}, ~HeaderIncomplete(f)
  PROVE  /\ ValidEnd(f, start) \in Nat
         /\ ValidEnd(f, start) >= start
         /\ Scans(f, start, ValidEnd(f, start))
         /\ start <= Len(f.cells) => ValidEnd(f, start) <= Len(f.cells)
         /\ ValidEnd(f, start) < Len(f.cells) => ~Decodes(f, ValidEnd(f, start) + 1)
         /\ ~TornAfter(f, start) /\ start <= Len(f.cells) => ValidEnd(f, start) = Len(f.cells)
<1> DEFINE bad == {n \in start + 1 .. Len(f.cells) : ~Decodes(f, n)}
<1>1. Len(f.cells) \in Nat
  BY DEF File
<1>2. CASE bad # {}
  <2>1. bad \in SUBSET Nat
    BY <1>1
  <2>2. /\ Oldest(bad) \in start + 1 .. Len(f.cells)
        /\ ~Decodes(f, Oldest(bad))
        /\ \A n \in bad : Oldest(bad) <= n
    BY <1>2, <2>1, OldestExists
  <2>3. ValidEnd(f, start) = Oldest(bad) - 1
    BY <1>2 DEF ValidEnd
  <2> HIDE DEF bad
  <2>4. \A j \in start + 1 .. Oldest(bad) - 1 : Decodes(f, j)
    BY <1>1, <2>2 DEF bad
  <2>5. QED
    BY <1>1, <2>2, <2>3, <2>4 DEF Scans, TornAfter
<1>3. CASE bad = {}
  <2>1. ValidEnd(f, start) = IF start <= Len(f.cells) THEN Len(f.cells) ELSE start
    BY <1>3 DEF ValidEnd
  <2>2. \A j \in start + 1 .. Len(f.cells) : Decodes(f, j)
    BY <1>3
  <2>3. QED
    BY <1>1, <2>1, <2>2 DEF Scans, TornAfter
<1>4. QED
  BY <1>2, <1>3

-----------------------------------------------------------------------------
(* Type correctness: the files hold only submitted records *)

CellsBelow(m) == {c \in Cell : c.kind = "record" => c.id \in 1 .. m - 1}
FilesBelow(m) == [cells : Seq(CellsBelow(m)), synced : Nat, named : BOOLEAN, live : BOOLEAN]

TypeInv ==
    /\ TypeOK
    /\ disk \in [Segments -> FilesBelow(nextId)]
    /\ batch.first \in Nat \ {0}
    /\ batch.last < nextId
    /\ pc = "rolling" => position.segment + 1 \in Segments

LEMMA BelowIsFile ==
  ASSUME NEW m \in Nat \ {0}, NEW f \in FilesBelow(m)
  PROVE  f \in File
<1>1. Seq(CellsBelow(m)) \subseteq Seq(Cell)
  BY SeqMonotonic DEF CellsBelow
<1>2. QED
  BY <1>1 DEF FilesBelow, File

LEMMA BelowGrows ==
  ASSUME NEW m \in Nat \ {0}, NEW k \in Nat, m <= k, NEW f \in FilesBelow(m)
  PROVE  f \in FilesBelow(k)
<1>1. CellsBelow(m) \subseteq CellsBelow(k)
  BY DEF CellsBelow
<1>2. Seq(CellsBelow(m)) \subseteq Seq(CellsBelow(k))
  BY <1>1, SeqMonotonic
<1>3. QED
  BY <1>2 DEF FilesBelow

LEMMA BasicCells ==
  ASSUME NEW m \in Nat \ {0}, NEW k \in BOOLEAN
  PROVE  /\ Header(k) \in CellsBelow(m)
         /\ Torn \in CellsBelow(m)
         /\ \A i \in 1 .. m - 1 : Record(i, k) \in CellsBelow(m)
         /\ <<Header(k)>> \in Seq(CellsBelow(m))
         /\ <<Torn>> \in Seq(CellsBelow(m))
         /\ NoFile \in FilesBelow(m)
<1>1. /\ Header(k) \in CellsBelow(m)
      /\ Torn \in CellsBelow(m)
      /\ \A i \in 1 .. m - 1 : Record(i, k) \in CellsBelow(m)
  BY DEF Header, Torn, Record, CellsBelow, Cell
<1>2. <<>> \in Seq(CellsBelow(m))
  BY EmptySeq
<1>3. QED
  BY <1>1, <1>2 DEF NoFile, FilesBelow

LEMMA PrefixOfCells ==
  ASSUME NEW C, NEW cells \in Seq(C), NEW n \in Int, n <= Len(cells)
  PROVE  /\ SubSeq(cells, 1, n) \in Seq(C)
         /\ n \in Nat => Len(SubSeq(cells, 1, n)) = n
         /\ \A i \in 1 .. n : SubSeq(cells, 1, n)[i] = cells[i]
<1>1. \A i \in 1 .. n : cells[i] \in C
  BY ElementOfSeq, LenProperties
<1>2. QED
  BY <1>1, SubSeqProperties, LenProperties

LEMMA WrittenType ==
  ASSUME NEW m \in Nat \ {0}, NEW f \in FilesBelow(m), NEW cells \in Seq(CellsBelow(m))
  PROVE  Written(f, cells) \in FilesBelow(m)
<1>1. f.cells \o cells \in Seq(CellsBelow(m))
  BY ConcatProperties DEF FilesBelow
<1>2. QED
  BY <1>1 DEF Written, FilesBelow

LEMMA SyncedType ==
  ASSUME NEW m \in Nat \ {0}, NEW f \in FilesBelow(m)
  PROVE  SyncAll(f) \in FilesBelow(m)
<1>1. Len(f.cells) \in Nat
  BY LenProperties DEF FilesBelow
<1>2. QED
  BY <1>1 DEF SyncAll, FilesBelow

LEMMA SyncDirType ==
  ASSUME NEW m \in Nat \ {0}, NEW d \in [Segments -> FilesBelow(m)]
  PROVE  SyncDir(d) \in [Segments -> FilesBelow(m)]
<1>1. ASSUME NEW s \in Segments
      PROVE  [d[s] EXCEPT !.named = @ \/ d[s].live] \in FilesBelow(m)
  BY Zenon DEF FilesBelow
<1>2. QED
  BY <1>1 DEF SyncDir

LEMMA BatchCellsType ==
  ASSUME TypeInv
  PROVE  BatchCells \in Seq(CellsBelow(nextId)) /\ Len(BatchCells) \in Nat
<1> DEFINE n == IF batch.last >= batch.first THEN batch.last - batch.first + 1 ELSE 0
<1>0. nextId \in Nat \ {0} /\ key \in BOOLEAN /\ batch.first \in Nat \ {0} /\ batch.last \in Nat
      /\ batch.last < nextId
  BY DEF TypeInv, TypeOK
<1>1. \A j \in 1 .. batch.last - batch.first + 1 : Record(batch.first + j - 1, key) \in CellsBelow(nextId)
  <2> TAKE j \in 1 .. batch.last - batch.first + 1
  <2>1. batch.first + j - 1 \in 1 .. nextId - 1
    BY <1>0
  <2>2. QED
    BY <1>0, <2>1, BasicCells
<1>2. 1 .. batch.last - batch.first + 1 = 1 .. n /\ n \in Nat
  BY <1>0
<1>3. BatchCells = [j \in 1 .. n |-> Record(batch.first + j - 1, key)]
  BY <1>2 DEF BatchCells
<1>4. BatchCells \in [1 .. n -> CellsBelow(nextId)]
  BY <1>1, <1>2, <1>3
<1>5. QED
  BY <1>2, <1>4, LenProperties

LEMMA CutsType ==
  ASSUME NEW m \in Nat \ {0}, NEW f \in FilesBelow(m), NEW kept \in Int, NEW cells \in Cuts(f, kept)
  PROVE  cells \in Seq(CellsBelow(m))
<1>1. f.cells \in Seq(CellsBelow(m)) /\ Len(f.cells) \in Nat
  BY LenProperties DEF FilesBelow
<1>2. \A n \in kept .. Len(f.cells) : SubSeq(f.cells, 1, n) \in Seq(CellsBelow(m))
  BY <1>1, PrefixOfCells
<1>3. CASE cells \in {SubSeq(f.cells, 1, n) : n \in kept .. Len(f.cells)}
  BY <1>2, <1>3
<1>4. CASE cells \in {Append(SubSeq(f.cells, 1, n), Torn) : n \in kept .. Len(f.cells) - 1}
  <2>1. PICK n \in kept .. Len(f.cells) - 1 : cells = Append(SubSeq(f.cells, 1, n), Torn)
    BY <1>4
  <2>2. n \in kept .. Len(f.cells)
    BY <1>1
  <2>3. Torn \in CellsBelow(m)
    BY BasicCells
  <2>4. QED
    BY <1>2, <2>1, <2>2, <2>3, AppendProperties
<1>5. QED
  BY <1>3, <1>4 DEF Cuts

LEMMA SettledType ==
  ASSUME NEW m \in Nat \ {0}, NEW f \in FilesBelow(m), NEW cells \in Seq(CellsBelow(m))
  PROVE  Settled(f, cells) \in FilesBelow(m)
<1>1. Len(cells) \in Nat
  BY LenProperties
<1>2. QED
  BY <1>1 DEF Settled, FilesBelow

LEMMA SurvivorsType ==
  ASSUME NEW m \in Nat \ {0}, NEW f \in FilesBelow(m), NEW g \in Survivors(f)
  PROVE  g \in FilesBelow(m)
<1>1. CASE g = NoFile
  BY <1>1, BasicCells
<1>2. CASE g \in {Settled(f, cells) : cells \in Cuts(f, f.synced)}
  <2>1. PICK cells \in Cuts(f, f.synced) : g = Settled(f, cells)
    BY <1>2
  <2>2. f.synced \in Nat
    BY DEF FilesBelow
  <2>3. QED
    BY <2>1, <2>2, CutsType, SettledType
<1>3. QED
  BY <1>1, <1>2 DEF Survivors

LEMMA TruncatedType ==
  ASSUME NEW m \in Nat \ {0}, NEW f \in FilesBelow(m), NEW n \in 0 .. Len(f.cells)
  PROVE  Truncated(f, n) \in FilesBelow(m)
<1>1. f.cells \in Seq(CellsBelow(m)) /\ Len(f.cells) \in Nat
  BY LenProperties DEF FilesBelow
<1>2. n \in Nat /\ n <= Len(f.cells)
  BY <1>1
<1>3. SubSeq(f.cells, 1, n) \in Seq(CellsBelow(m))
  BY <1>1, <1>2, PrefixOfCells
<1>4. PICK cells \in Seq(CellsBelow(m)) : cells = SubSeq(f.cells, 1, n)
  BY <1>3
<1>5. [f EXCEPT !.cells = cells, !.synced = n] \in FilesBelow(m)
  BY <1>2 DEF FilesBelow
<1>6. QED
  BY <1>4, <1>5 DEF Truncated

LEMMA RepairedType ==
  ASSUME key \in BOOLEAN, NEW m \in Nat \ {0}, NEW f \in FilesBelow(m),
         NEW start \in Nat \ {0}, TornAfter(f, start)
  PROVE  Repaired(f, start) \in FilesBelow(m)
<1>1. f.cells \in Seq(CellsBelow(m)) /\ Len(f.cells) \in Nat
  BY LenProperties DEF FilesBelow
<1>2. CASE HeaderIncomplete(f)
  <2>1. <<Header(key)>> \in Seq(CellsBelow(m))
    BY BasicCells
  <2>2. QED
    BY <1>2, <2>1 DEF Repaired, FilesBelow
<1>3. CASE ~HeaderIncomplete(f)
  <2>1. ValidEnd(f, start) \in 0 .. Len(f.cells)
    BY <1>1, <1>3, ValidEndProperties, BelowIsFile DEF TornAfter
  <2>2. QED
    BY <1>3, <2>1, TruncatedType DEF Repaired
<1>4. QED
  BY <1>2, <1>3

LEMMA StartInType ==
  ASSUME NEW s \in Segments, NEW from \in Position
  PROVE  StartIn(s, from) \in Nat \ {0}
BY DEF StartIn, Position

LEMMA RepairType ==
  ASSUME TypeInv, NEW from \in Position
  PROVE  Repair(from) \in [Segments -> FilesBelow(nextId)]
<1>1. ASSUME NEW s \in Segments, s \in Damaged(from)
      PROVE  Repaired(disk[s], StartIn(s, from)) \in FilesBelow(nextId)
  <2>1. nextId \in Nat \ {0} /\ key \in BOOLEAN /\ disk[s] \in FilesBelow(nextId)
    BY DEF TypeInv, TypeOK
  <2>2. TornAfter(disk[s], StartIn(s, from))
    BY <1>1 DEF Damaged
  <2>3. QED
    BY <2>1, <2>2, StartInType, RepairedType
<1>2. disk \in [Segments -> FilesBelow(nextId)]
  BY DEF TypeInv
<1>3. QED
  BY <1>1, <1>2 DEF Repair

LEMMA EntriesType ==
  ASSUME TypeInv, NEW from \in Position
  PROVE  Entries(from) \subseteq 1 .. nextId - 1
<1> SUFFICES ASSUME NEW s \in Reached(from),
                    NEW n \in StartIn(s, from) + 1 .. ValidEnd(disk[s], StartIn(s, from))
             PROVE  disk[s].cells[n].id \in 1 .. nextId - 1
  BY DEF Entries
<1> DEFINE f == disk[s]
           start == StartIn(s, from)
<1>1. s \in Segments
  BY DEF Reached, Scanned, Live
<1>2. nextId \in Nat \ {0} /\ f \in FilesBelow(nextId)
  BY <1>1 DEF TypeInv, TypeOK
<1>3. start \in Nat \ {0}
  BY <1>1, StartInType
<1>4. ~HeaderIncomplete(f)
  BY <1>3 DEF ValidEnd
<1>5. f \in File /\ Len(f.cells) \in Nat
  BY <1>2, BelowIsFile, LenProperties DEF FilesBelow
<1>6. ValidEnd(f, start) \in Nat /\ Scans(f, start, ValidEnd(f, start))
  BY <1>3, <1>4, <1>5, ValidEndProperties
<1>7. n \in 1 .. Len(f.cells)
  <2>1. CASE start <= Len(f.cells)
    <3>1. ValidEnd(f, start) <= Len(f.cells)
      BY <1>3, <1>4, <1>5, <2>1, ValidEndProperties
    <3>2. QED
      BY <1>3, <1>5, <1>6, <3>1
  <2>2. CASE start > Len(f.cells)
    <3>1. {k \in start + 1 .. Len(f.cells) : ~Decodes(f, k)} = {}
      BY <1>3, <1>5, <2>2
    <3>2. ValidEnd(f, start) = start
      BY <1>3, <1>4, <1>5, <2>2, <3>1 DEF ValidEnd
    <3>3. QED
      BY <1>3, <3>2
  <2>3. QED
    BY <1>3, <1>5, <2>1, <2>2
<1>8. f.cells[n] \in CellsBelow(nextId) /\ Decodes(f, n)
  BY <1>2, <1>3, <1>6, <1>7, ElementOfSeq DEF FilesBelow, Scans
<1>9. QED
  BY <1>8 DEF CellsBelow, Decodes

LEMMA InitTypeInv == Init => TypeInv
<1> SUFFICES ASSUME Init PROVE TypeInv
  OBVIOUS
<1>1. 0 \in Segments
  BY WalAssumption DEF Segments
<1>2. START \in Position
  BY <1>1 DEF START, Position
<1>3. NoFile \in FilesBelow(1)
  <2>1. <<>> \in Seq(CellsBelow(1))
    BY EmptySeq
  <2>2. QED
    BY <2>1 DEF NoFile, FilesBelow
<1>4. NoFile \in File
  BY <1>3, BelowIsFile
<1>5. nextId = 1 /\ disk \in [Segments -> FilesBelow(nextId)] /\ disk \in [Segments -> File]
  BY <1>3, <1>4 DEF Init
<1>6. bounds \in [{"kills", "losses", "rekeys", "faults"} -> Nat]
  BY DEF Init
<1>7. NoBatch \in [first : Nat, last : Nat] /\ NoBatch.first \in Nat \ {0} /\ NoBatch.last < 1
  BY DEF NoBatch
<1>8. {ckptFile, ckptSynced, position, checkpoint} \subseteq Position
  BY <1>2 DEF Init
<1>9. /\ pc = "down"
      /\ batch = NoBatch
      /\ unlinked \subseteq Segments
      /\ nextId \in Nat \ {0}
      /\ acked \subseteq 1 .. nextId - 1
      /\ seen \subseteq 1 .. nextId - 1
  BY DEF Init
<1>10. key \in BOOLEAN /\ refused \in BOOLEAN
  BY Zenon DEF Init
<1>11. QED
  BY <1>5, <1>6, <1>7, <1>8, <1>9, <1>10 DEF TypeInv, TypeOK

\* One file of the disk replaced by another of the right type.
LEMMA DiskExcept ==
  ASSUME TypeInv, NEW s \in Segments, NEW f \in FilesBelow(nextId)
  PROVE  [disk EXCEPT ![s] = f] \in [Segments -> FilesBelow(nextId)]
BY DEF TypeInv

\* The steps that keep nextId and leave a well-typed disk need only their
\* other variables checked.
LEMMA DiskType ==
  ASSUME TypeInv, nextId' = nextId, disk' \in [Segments -> FilesBelow(nextId)]
  PROVE  disk' \in [Segments -> FilesBelow(nextId')] /\ disk' \in [Segments -> File]
<1>1. nextId \in Nat \ {0}
  BY DEF TypeInv, TypeOK
<1>2. FilesBelow(nextId) \subseteq File
  BY <1>1, BelowIsFile
<1>3. QED
  BY <1>2

LEMMA CountType ==
  ASSUME TypeInv, NEW what \in {"kills", "losses", "rekeys", "faults"}, Count(what)
  PROVE  bounds' \in [{"kills", "losses", "rekeys", "faults"} -> Nat]
BY DEF TypeInv, TypeOK, Count

LEMMA WriteType ==
  ASSUME TypeInv, NEW s \in Segments, NEW cells \in Seq(CellsBelow(nextId)), Write(s, cells)
  PROVE  disk' \in [Segments -> FilesBelow(nextId)]
<1>1. nextId \in Nat \ {0} /\ disk[s] \in FilesBelow(nextId)
  BY DEF TypeInv, TypeOK
<1>2. Written(disk[s], cells) \in FilesBelow(nextId)
  BY <1>1, WrittenType
<1>3. QED
  BY <1>2, DiskExcept DEF Write

LEMMA AppendTypeInv ==
  ASSUME TypeInv, \/ \E n \in 1 .. MaxBatch : Submit(n)
                  \/ Roll \/ RollDone \/ WriteBatch \/ Ack
  PROVE  TypeInv'
<1>0. nextId \in Nat \ {0} /\ key \in BOOLEAN /\ position \in Position
  BY DEF TypeInv, TypeOK
<1>1. ASSUME NEW n \in 1 .. MaxBatch, Submit(n) PROVE TypeInv'
  <2>1. n \in Nat \ {0}
    BY WalAssumption
  <2>2. nextId' \in Nat \ {0} /\ nextId' = nextId + n
    BY <1>0, <1>1, <2>1 DEF Submit
  <2>3. disk' \in [Segments -> FilesBelow(nextId')] /\ disk' \in [Segments -> File]
    <3>1. disk' = disk
      BY <1>1 DEF Submit, files
    <3>2. FilesBelow(nextId) \subseteq FilesBelow(nextId')
      BY <1>0, <2>1, <2>2, BelowGrows
    <3>3. QED
      BY <3>1, <3>2 DEF TypeInv, TypeOK
  <2>4. batch' \in [first : Nat, last : Nat] /\ batch'.first \in Nat \ {0} /\ batch'.last < nextId'
    BY <1>0, <1>1, <2>1, <2>2 DEF Submit
  <2>5. acked' \subseteq 1 .. nextId' - 1 /\ seen' \subseteq 1 .. nextId' - 1
    BY <1>0, <1>1, <2>1, <2>2 DEF Submit, TypeInv, TypeOK
  <2>6. QED
    BY <1>1, <2>2, <2>3, <2>4, <2>5 DEF Submit, TypeInv, TypeOK, files
<1>2. CASE Roll
  <2>1. position.segment + 1 \in Segments
    BY <1>0, <1>2, WalAssumption DEF Roll, Position, Segments
  <2>2. <<Header(key)>> \in Seq(CellsBelow(nextId))
    BY <1>0, BasicCells
  <2>3. disk' \in [Segments -> FilesBelow(nextId)]
    BY <1>2, <2>1, <2>2, WriteType DEF Roll
  <2>4. disk' \in [Segments -> FilesBelow(nextId')] /\ disk' \in [Segments -> File]
    BY <1>2, <2>3, DiskType DEF Roll, history
  <2>5. QED
    BY <1>2, <2>1, <2>4 DEF Roll, TypeInv, TypeOK, memory, history
<1>3. CASE RollDone
  <2>1. position.segment + 1 \in Segments
    BY <1>3 DEF RollDone, TypeInv
  <2>2. disk' \in [Segments -> FilesBelow(nextId)]
    <3>1. disk[position.segment + 1] \in FilesBelow(nextId)
      BY <2>1 DEF TypeInv
    <3>2. SyncAll(disk[position.segment + 1]) \in FilesBelow(nextId)
      BY <1>0, <3>1, SyncedType
    <3>3. [disk EXCEPT ![position.segment + 1] = SyncAll(@)] \in [Segments -> FilesBelow(nextId)]
      BY <2>1, <3>2, DiskExcept
    <3>4. QED
      BY <1>0, <1>3, <3>3, SyncDirType DEF RollDone
  <2>3. disk' \in [Segments -> FilesBelow(nextId')] /\ disk' \in [Segments -> File]
    BY <1>3, <2>2, DiskType DEF RollDone, history
  <2>4. position' \in Position
    BY <1>3, <2>1 DEF RollDone, Position
  <2>5. QED
    BY <1>3, <2>3, <2>4 DEF RollDone, TypeInv, TypeOK, history
<1>4. CASE WriteBatch
  <2>1. disk' \in [Segments -> FilesBelow(nextId)]
    BY <1>0, <1>4, BatchCellsType, WriteType DEF WriteBatch, Position
  <2>2. disk' \in [Segments -> FilesBelow(nextId')] /\ disk' \in [Segments -> File]
    BY <1>4, <2>1, DiskType DEF WriteBatch, history
  <2>3. QED
    BY <1>4, <2>2 DEF WriteBatch, TypeInv, TypeOK, memory, history
<1>5. CASE Ack
  <2>1. disk' \in [Segments -> FilesBelow(nextId)]
    <3>1. position.segment \in Segments /\ disk[position.segment] \in FilesBelow(nextId)
      BY <1>0 DEF TypeInv, Position
    <3>2. SyncAll(disk[position.segment]) \in FilesBelow(nextId)
      BY <1>0, <3>1, SyncedType
    <3>3. QED
      BY <1>5, <3>1, <3>2, DiskExcept DEF Ack
  <2>2. disk' \in [Segments -> FilesBelow(nextId')] /\ disk' \in [Segments -> File]
    BY <1>5, <2>1, DiskType DEF Ack
  <2>3. position' \in Position
    BY <1>0, <1>5, BatchCellsType DEF Ack, Position
  <2>4. BatchIds \subseteq 1 .. nextId - 1
    BY <1>0 DEF BatchIds, TypeInv, TypeOK
  <2>5. NoBatch \in [first : Nat, last : Nat] /\ NoBatch.first \in Nat \ {0} /\ NoBatch.last < nextId
    BY <1>0 DEF NoBatch
  <2>6. QED
    BY <1>5, <2>2, <2>3, <2>4, <2>5 DEF Ack, TypeInv, TypeOK
<1>6. QED
  BY <1>1, <1>2, <1>3, <1>4, <1>5

LEMMA FaultTypeInv ==
  ASSUME TypeInv, WriteFails \/ SyncFails \/ RollFails \/ DirSyncFails
  PROVE  TypeInv'
<1>0. nextId \in Nat \ {0} /\ key \in BOOLEAN /\ position \in Position
  BY DEF TypeInv, TypeOK
<1>1. Fails /\ nextId' = nextId
  BY DEF WriteFails, SyncFails, RollFails, DirSyncFails, Fails, history
<1>2. bounds' \in [{"kills", "losses", "rekeys", "faults"} -> Nat]
  BY <1>1, CountType DEF Fails
<1>3. disk' \in [Segments -> FilesBelow(nextId)]
  <2>1. CASE WriteFails
    <3>1. PICK n \in 0 .. Len(BatchCells) - 1, tail \in {<<>>, <<Torn>>} :
             Write(position.segment, SubSeq(BatchCells, 1, n) \o tail)
      BY <2>1 DEF WriteFails
    <3>2. BatchCells \in Seq(CellsBelow(nextId)) /\ Len(BatchCells) \in Nat
      BY BatchCellsType
    <3>3. n \in 0 .. Len(BatchCells)
      BY <3>2
    <3>4. SubSeq(BatchCells, 1, n) \in Seq(CellsBelow(nextId))
      BY <3>2, <3>3, PrefixOfCells
    <3>5. tail \in Seq(CellsBelow(nextId))
      BY <1>0, BasicCells, EmptySeq
    <3>6. SubSeq(BatchCells, 1, n) \o tail \in Seq(CellsBelow(nextId))
      BY <3>4, <3>5, ConcatProperties
    <3>7. position.segment \in Segments
      BY <1>0 DEF Position
    <3>8. QED
      BY <3>1, <3>6, <3>7, WriteType
  <2>2. CASE UNCHANGED disk
    BY <2>2 DEF TypeInv
  <2>3. CASE RollFails /\ disk' # disk
    <3>1. PICK cells \in {<<>>, <<Torn>>} : Write(position.segment + 1, cells)
      BY <2>3 DEF RollFails
    <3>2. cells \in Seq(CellsBelow(nextId))
      BY <1>0, BasicCells, EmptySeq
    <3>3. position.segment + 1 \in Segments
      BY <1>0, <2>3, WalAssumption DEF RollFails, Position, Segments
    <3>4. QED
      BY <3>1, <3>2, <3>3, WriteType
  <2>4. QED
    BY <2>1, <2>2, <2>3 DEF SyncFails, RollFails, DirSyncFails
<1>4. disk' \in [Segments -> FilesBelow(nextId')] /\ disk' \in [Segments -> File]
  BY <1>1, <1>3, DiskType
<1>5. NoBatch \in [first : Nat, last : Nat] /\ NoBatch.first \in Nat \ {0} /\ NoBatch.last < nextId
  BY <1>0 DEF NoBatch
<1>6. QED
  BY <1>1, <1>2, <1>4, <1>5 DEF Fails, TypeInv, TypeOK, history

LEMMA CheckpointTypeInv ==
  ASSUME TypeInv, CheckpointRename \/ CheckpointDone
  PROVE  TypeInv'
<1>1. CASE CheckpointRename
  BY <1>1 DEF CheckpointRename, TypeInv, TypeOK, memory, history
<1>2. CASE CheckpointDone
  BY <1>2 DEF CheckpointDone, TypeInv, TypeOK, history
<1>3. QED
  BY <1>1, <1>2

LEMMA ReleaseTypeInv ==
  ASSUME TypeInv, (\E s \in Segments : Release(s)) \/ ReleaseDone
  PROVE  TypeInv'
<1>0. nextId \in Nat \ {0}
  BY DEF TypeInv, TypeOK
<1>1. ASSUME NEW s \in Segments, Release(s) PROVE TypeInv'
  <2>1. [disk[s] EXCEPT !.live = FALSE] \in FilesBelow(nextId)
    <3>1. disk[s] \in FilesBelow(nextId)
      BY DEF TypeInv
    <3>2. QED
      BY <3>1 DEF FilesBelow
  <2>2. disk' \in [Segments -> FilesBelow(nextId)]
    BY <1>1, <2>1, DiskExcept DEF Release
  <2>3. disk' \in [Segments -> FilesBelow(nextId')] /\ disk' \in [Segments -> File]
    BY <1>1, <2>2, DiskType DEF Release, history
  <2>4. QED
    BY <1>1, <2>3 DEF Release, TypeInv, TypeOK, memory, history
<1>2. CASE ReleaseDone
  <2>1. disk' \in [Segments -> FilesBelow(nextId)]
    BY <1>0, <1>2, SyncDirType DEF ReleaseDone, TypeInv
  <2>2. disk' \in [Segments -> FilesBelow(nextId')] /\ disk' \in [Segments -> File]
    BY <1>2, <2>1, DiskType DEF ReleaseDone, history
  <2>3. QED
    BY <1>2, <2>2 DEF ReleaseDone, TypeInv, TypeOK, memory, history
<1>3. QED
  BY <1>1, <1>2

LEMMA CrashTypeInv ==
  ASSUME TypeInv, Kill \/ PowerLoss \/ Rekey
  PROVE  TypeInv'
<1>0. nextId \in Nat \ {0} /\ START \in Position
  BY WalAssumption DEF TypeInv, TypeOK, START, Position, Segments
<1>1. NoBatch \in [first : Nat, last : Nat] /\ NoBatch.first \in Nat \ {0} /\ NoBatch.last < nextId
  BY <1>0 DEF NoBatch
<1>2. \A s \in Segments : disk[s] \in FilesBelow(nextId) /\ Len(disk[s].cells) \in Nat
  BY LenProperties DEF TypeInv, FilesBelow
<1>3. CASE Kill
  <2>1. PICK s \in Segments : \E cells \in Cuts(disk[s], Len(disk[s].cells) - InFlight(s)) :
                               disk' = [disk EXCEPT ![s].cells = cells]
    BY <1>3 DEF Kill
  <2>2. PICK cells \in Cuts(disk[s], Len(disk[s].cells) - InFlight(s)) :
               disk' = [disk EXCEPT ![s].cells = cells]
    BY <2>1
  <2>3. Len(disk[s].cells) - InFlight(s) \in Int
    BY <1>2, BatchCellsType DEF InFlight
  <2>4. cells \in Seq(CellsBelow(nextId))
    BY <1>0, <1>2, <2>3, CutsType
  <2>5. [disk[s] EXCEPT !.cells = cells] \in FilesBelow(nextId)
    BY <1>2, <2>4 DEF FilesBelow
  <2>6. disk' \in [Segments -> FilesBelow(nextId)]
    BY <2>2, <2>5, DiskExcept
  <2>7. disk' \in [Segments -> FilesBelow(nextId')] /\ disk' \in [Segments -> File]
    BY <1>3, <2>6, DiskType DEF Kill, Down, history
  <2>8. bounds' \in [{"kills", "losses", "rekeys", "faults"} -> Nat]
    BY <1>3, CountType DEF Kill
  <2>9. QED
    BY <1>0, <1>1, <1>3, <2>7, <2>8 DEF Kill, Down, TypeInv, TypeOK, history
<1>4. CASE PowerLoss
  <2>1. disk' \in [Segments -> FilesBelow(nextId)]
    <3>1. PICK s \in Segments, back \in SUBSET unlinked : \E f \in Survivors(disk[s]) :
         disk' = [t \in Segments |->
                    IF t \in back THEN [disk[t] EXCEPT !.live = TRUE]
                    ELSE IF t = s THEN f ELSE Settled(disk[t], disk[t].cells)]
      BY <1>4 DEF PowerLoss
    <3>2. PICK f \in Survivors(disk[s]) :
         disk' = [t \in Segments |->
                    IF t \in back THEN [disk[t] EXCEPT !.live = TRUE]
                    ELSE IF t = s THEN f ELSE Settled(disk[t], disk[t].cells)]
      BY <3>1
    <3>3. f \in FilesBelow(nextId)
      BY <1>0, <1>2, SurvivorsType
    <3>4. ASSUME NEW t \in Segments
          PROVE  /\ [disk[t] EXCEPT !.live = TRUE] \in FilesBelow(nextId)
                 /\ Settled(disk[t], disk[t].cells) \in FilesBelow(nextId)
      <4>1. disk[t].cells \in Seq(CellsBelow(nextId))
        BY <1>2 DEF FilesBelow
      <4>2. Settled(disk[t], disk[t].cells) \in FilesBelow(nextId)
        BY <1>0, <1>2, <4>1, SettledType
      <4>3. [disk[t] EXCEPT !.live = TRUE] \in FilesBelow(nextId)
        BY <1>2 DEF FilesBelow
      <4>4. QED
        BY <4>2, <4>3
    <3>5. QED
      BY <3>2, <3>3, <3>4
  <2>2. disk' \in [Segments -> FilesBelow(nextId')] /\ disk' \in [Segments -> File]
    BY <1>4, <2>1, DiskType DEF PowerLoss, Down, history
  <2>3. bounds' \in [{"kills", "losses", "rekeys", "faults"} -> Nat]
    BY <1>4, CountType DEF PowerLoss
  <2>4. {ckptFile', ckptSynced'} \subseteq Position
    BY <1>4 DEF PowerLoss, TypeInv, TypeOK
  <2>5. QED
    BY <1>0, <1>1, <1>4, <2>2, <2>3, <2>4 DEF PowerLoss, Down, TypeInv, TypeOK, history
<1>5. CASE Rekey
  <2>1. bounds' \in [{"kills", "losses", "rekeys", "faults"} -> Nat]
    BY <1>5, CountType DEF Rekey
  <2>2. QED
    BY <1>5, <2>1 DEF Rekey, TypeInv, TypeOK, memory, history, files
<1>6. QED
  BY <1>3, <1>4, <1>5

LEMMA RecoverTypeInv ==
  ASSUME TypeInv, RecoverFresh \/ RecoverAny \/ Opened
  PROVE  TypeInv'
<1>0. /\ nextId \in Nat \ {0} /\ key \in BOOLEAN /\ position \in Position
      /\ ckptFile \in Position /\ START \in Position /\ 0 \in Segments
  BY WalAssumption DEF TypeInv, TypeOK, START, Position, Segments
<1>1. <<Header(key)>> \in Seq(CellsBelow(nextId))
  BY <1>0, BasicCells
<1>2. CASE RecoverFresh
  <2>1. disk' \in [Segments -> FilesBelow(nextId)]
    BY <1>0, <1>1, <1>2, WriteType DEF RecoverFresh
  <2>2. disk' \in [Segments -> FilesBelow(nextId')] /\ disk' \in [Segments -> File]
    BY <1>2, <2>1, DiskType DEF RecoverFresh, history
  <2>3. QED
    BY <1>0, <1>2, <2>2 DEF RecoverFresh, TypeInv, TypeOK, history
<1>3. ASSUME NEW from \in {ckptFile, START}, RecoverRefuses(from) PROVE TypeInv'
  <2>1. disk' \in [Segments -> FilesBelow(nextId)]
    BY <1>0, <1>3, RepairType DEF RecoverRefuses
  <2>2. disk' \in [Segments -> FilesBelow(nextId')] /\ disk' \in [Segments -> File]
    BY <1>3, <2>1, DiskType DEF RecoverRefuses
  <2>3. QED
    BY <1>3, <2>2 DEF RecoverRefuses, TypeInv, TypeOK, memory
<1>4. ASSUME NEW from \in {ckptFile, START}, Recover(from) PROVE TypeInv'
  <2> DEFINE last == Newest(Reached(from))
             repaired == Repair(from)
             fresh == NeedsFreshSegment(repaired[last])
  <2>1. from \in Position
    BY <1>0
  <2>2. last \in Segments
    <3>1. Reached(from) \in SUBSET Segments /\ Reached(from) # {}
      BY <1>4 DEF Recover, Reached, Scanned, Live
    <3>2. QED
      BY <3>1, NewestExists
  <2>3. repaired \in [Segments -> FilesBelow(nextId)]
    BY <2>1, RepairType
  <2>4. /\ fresh => last < MaxSegment
        /\ disk' = IF fresh
                   THEN [repaired EXCEPT ![last + 1] = Written(@, <<Header(key)>>)]
                   ELSE repaired
        /\ position' = IF fresh
                       THEN [segment |-> last + 1, offset |-> 1]
                       ELSE [segment |-> last, offset |-> ValidEnd(disk[last], StartIn(last, from))]
    BY <1>4 DEF Recover
  <2> HIDE DEF last, repaired, fresh
  <2>5. fresh => last + 1 \in Segments
    BY <2>2, <2>4, WalAssumption DEF Segments
  <2>6. disk' \in [Segments -> FilesBelow(nextId)]
    <3>1. CASE fresh
      <4>1. repaired[last + 1] \in FilesBelow(nextId)
        BY <2>3, <2>5, <3>1
      <4>2. Written(repaired[last + 1], <<Header(key)>>) \in FilesBelow(nextId)
        BY <1>0, <1>1, <4>1, WrittenType
      <4>3. QED
        BY <2>3, <2>4, <3>1, <4>2
    <3>2. CASE ~fresh
      BY <2>3, <2>4, <3>2
    <3>3. QED
      BY <3>1, <3>2
  <2>7. position' \in Position
    <3>1. CASE fresh
      BY <2>4, <2>5, <3>1 DEF Position
    <3>2. CASE ~fresh
      <4>1. StartIn(last, from) \in Nat \ {0}
        BY <2>1, <2>2, StartInType
      <4>2. disk[last] \in File
        BY <2>2 DEF TypeInv, TypeOK
      <4>3. ValidEnd(disk[last], StartIn(last, from)) \in Nat \ {0}
        <5>1. CASE HeaderIncomplete(disk[last])
          BY <5>1 DEF ValidEnd
        <5>2. CASE ~HeaderIncomplete(disk[last])
          BY <4>1, <4>2, <5>2, ValidEndProperties
        <5>3. QED
          BY <5>1, <5>2
      <4>4. QED
        BY <2>2, <2>4, <3>2, <4>3 DEF Position
    <3>3. QED
      BY <3>1, <3>2
  <2>8. seen' \subseteq 1 .. nextId - 1
    BY <1>4, <2>1, EntriesType DEF Recover, TypeInv, TypeOK
  <2>9. pc' \in {"opening", "idle"}
    BY <1>4 DEF Recover
  <2>10. UNCHANGED <<ckptFile, ckptSynced, unlinked, key, batch, nextId, acked, refused, bounds>>
         /\ checkpoint' = ckptFile
    BY <1>4 DEF Recover
  <2>11. disk' \in [Segments -> FilesBelow(nextId')] /\ disk' \in [Segments -> File]
    BY <2>6, <2>10, DiskType
  <2>12. QED
    BY <1>0, <2>7, <2>8, <2>9, <2>10, <2>11 DEF TypeInv, TypeOK
<1>5. CASE Opened
  <2>1. disk' \in [Segments -> FilesBelow(nextId)]
    <3>1. position.segment \in Segments /\ disk[position.segment] \in FilesBelow(nextId)
      BY <1>0 DEF TypeInv, Position
    <3>2. SyncAll(disk[position.segment]) \in FilesBelow(nextId)
      BY <1>0, <3>1, SyncedType
    <3>3. [disk EXCEPT ![position.segment] = SyncAll(@)] \in [Segments -> FilesBelow(nextId)]
      BY <3>1, <3>2, DiskExcept
    <3>4. QED
      BY <1>0, <1>5, <3>3, SyncDirType DEF Opened
  <2>2. disk' \in [Segments -> FilesBelow(nextId')] /\ disk' \in [Segments -> File]
    BY <1>5, <2>1, DiskType DEF Opened, history
  <2>3. QED
    BY <1>5, <2>2 DEF Opened, TypeInv, TypeOK, memory, history
<1>6. QED
  BY <1>2, <1>3, <1>4, <1>5 DEF RecoverAny

\* Every variable of the log keeps its type: whatever crashes, key changes and
\* I/O errors happen, what recovery returns and what callers were promised are
\* records that were submitted.
THEOREM TypeCorrect == Spec => []TypeOK
<1>1. Init => TypeInv
  BY InitTypeInv
<1>2. TypeInv /\ [Next]_vars => TypeInv'
  <2> SUFFICES ASSUME TypeInv, [Next]_vars PROVE TypeInv'
    OBVIOUS
  <2>1. CASE UNCHANGED vars
    BY <2>1 DEF vars, files, memory, history, TypeInv, TypeOK
  <2>2. CASE Next
    BY <2>2, AppendTypeInv, FaultTypeInv, CheckpointTypeInv, ReleaseTypeInv, CrashTypeInv,
       RecoverTypeInv DEF Next
  <2>3. QED
    BY <2>1, <2>2
<1>3. TypeInv => TypeOK
  BY DEF TypeInv
<1>4. QED
  BY <1>1, <1>2, <1>3, PTL DEF Spec


-----------------------------------------------------------------------------
(* Where records lie *)

\* A record sits in cell n of segment s.
RecordAt(d, s, n) == n \in 1 .. Len(d[s].cells) /\ d[s].cells[n].kind = "record"
NoRecords(d, s) == \A n \in 1 .. Len(d[s].cells) : ~RecordAt(d, s, n)
Under(d, b) == \A s \in Segments : \A n \in 1 .. Len(d[s].cells) : RecordAt(d, s, n) => d[s].cells[n].id < b
Ordered(d) ==
    \A s, t \in Segments : \A n \in 1 .. Len(d[s].cells), m \in 1 .. Len(d[t].cells) :
        RecordAt(d, s, n) /\ RecordAt(d, t, m) /\ (s < t \/ (s = t /\ n < m))
        => d[s].cells[n].id < d[t].cells[m].id

\* Every record of disk e is where disk d has it.
Within(e, d) ==
    \A s \in Segments : \A n \in 1 .. Len(e[s].cells) :
        RecordAt(e, s, n) => RecordAt(d, s, n) /\ e[s].cells[n] = d[s].cells[n]

LEMMA WithinKeeps ==
  ASSUME NEW d, NEW e, Within(e, d)
  PROVE  /\ Ordered(d) => Ordered(e)
         /\ \A b : Under(d, b) => Under(e, b)
         /\ \A s \in Segments : NoRecords(d, s) => NoRecords(e, s)
<1>1. Ordered(d) => Ordered(e)
  <2> SUFFICES ASSUME Ordered(d), NEW s \in Segments, NEW t \in Segments,
                      NEW n \in 1 .. Len(e[s].cells), NEW m \in 1 .. Len(e[t].cells),
                      RecordAt(e, s, n), RecordAt(e, t, m), s < t \/ (s = t /\ n < m)
               PROVE  e[s].cells[n].id < e[t].cells[m].id
    BY DEF Ordered
  <2>1. /\ RecordAt(d, s, n) /\ e[s].cells[n] = d[s].cells[n]
        /\ RecordAt(d, t, m) /\ e[t].cells[m] = d[t].cells[m]
    BY DEF Within
  <2>2. n \in 1 .. Len(d[s].cells) /\ m \in 1 .. Len(d[t].cells)
    BY <2>1 DEF RecordAt
  <2>3. d[s].cells[n].id < d[t].cells[m].id
    BY <2>1, <2>2 DEF Ordered
  <2> QED
    BY <2>1, <2>3
<1>2. ASSUME NEW b, Under(d, b) PROVE Under(e, b)
  BY <1>2 DEF Within, Under, RecordAt
<1>3. ASSUME NEW s \in Segments, NoRecords(d, s) PROVE NoRecords(e, s)
  BY <1>3 DEF Within, NoRecords, RecordAt
<1>4. QED
  BY <1>1, <1>2, <1>3

LEMMA SameCellsWithin ==
  ASSUME NEW d, NEW e, \A s \in Segments : e[s].cells = d[s].cells
  PROVE  Within(e, d)
BY DEF Within, RecordAt

\* The cells of a file after a cut: each is the file's, or the torn end.
LEMMA CutCells ==
  ASSUME NEW f \in File, NEW kept \in Int, NEW cells \in Cuts(f, kept)
  PROVE  /\ cells \in Seq(Cell)
         /\ kept \in Nat => Len(cells) >= kept
         /\ Len(cells) <= Len(f.cells) \/ (kept < 0 /\ Len(cells) = 1)
         /\ \A n \in 1 .. Len(cells) - 1 : n <= Len(f.cells) /\ cells[n] = f.cells[n]
         /\ Len(cells) > 0 => \/ cells[Len(cells)] = Torn
                              \/ Len(cells) <= Len(f.cells) /\ cells[Len(cells)] = f.cells[Len(cells)]
         /\ kept \in Nat => \A n \in 1 .. kept : cells[n] = f.cells[n]
<1>0. f.cells \in Seq(Cell) /\ Len(f.cells) \in Nat
  BY LenProperties DEF File
<1>1. CASE cells \in {SubSeq(f.cells, 1, n) : n \in kept .. Len(f.cells)}
  <2>1. PICK n \in kept .. Len(f.cells) : cells = SubSeq(f.cells, 1, n)
    BY <1>1
  <2>2. CASE n \in Nat
    <3>1. cells \in Seq(Cell) /\ Len(cells) = n /\ \A i \in 1 .. n : cells[i] = f.cells[i]
      BY <1>0, <2>1, <2>2, PrefixOfCells
    <3>2. QED
      BY <1>0, <2>1, <2>2, <3>1
  <2>3. CASE n \notin Nat
    <3>1. cells = <<>>
      BY <1>0, <2>1, <2>3, SubSeqProperties
    <3>2. QED
      BY <1>0, <2>1, <2>3, <3>1
  <2>4. QED
    BY <2>2, <2>3
<1>2. CASE cells \in {Append(SubSeq(f.cells, 1, n), Torn) : n \in kept .. Len(f.cells) - 1}
  <2>1. PICK n \in kept .. Len(f.cells) - 1 : cells = Append(SubSeq(f.cells, 1, n), Torn)
    BY <1>2
  <2>0. Torn \in Cell
    BY DEF Torn, Cell
  <2>2. CASE n \in Nat
    <3> DEFINE pre == SubSeq(f.cells, 1, n)
    <3>1. pre \in Seq(Cell) /\ Len(pre) = n /\ \A i \in 1 .. n : pre[i] = f.cells[i]
      BY <1>0, <2>1, <2>2, PrefixOfCells
    <3> HIDE DEF pre
    <3>2. /\ Append(pre, Torn) \in Seq(Cell) /\ Len(Append(pre, Torn)) = n + 1
          /\ \A i \in 1 .. n : Append(pre, Torn)[i] = pre[i]
          /\ Append(pre, Torn)[n + 1] = Torn
      BY <2>0, <3>1, AppendProperties
    <3>3. cells = Append(pre, Torn)
      BY <2>1 DEF pre
    <3>4. QED
      BY <1>0, <2>1, <2>2, <3>1, <3>2, <3>3
  <2>3. CASE n \notin Nat
    <3>1. SubSeq(f.cells, 1, n) = <<>>
      BY <1>0, <2>1, <2>3, SubSeqProperties
    <3>2. cells \in Seq(Cell) /\ Len(cells) = 1 /\ cells[1] = Torn
      BY <2>0, <2>1, <3>1, AppendProperties, EmptySeq
    <3>3. kept < 0
      BY <1>0, <2>1, <2>3
    <3>4. QED
      BY <1>0, <3>2, <3>3
  <2>4. QED
    BY <2>2, <2>3
<1>3. QED
  BY <1>1, <1>2 DEF Cuts

LEMMA NothingCut ==
  ASSUME NEW f \in File
  PROVE  Cuts(f, Len(f.cells)) = {f.cells}
<1>1. f.cells \in Seq(Cell) /\ Len(f.cells) \in Nat
  BY LenProperties DEF File
<1>2. SubSeq(f.cells, 1, Len(f.cells)) = f.cells
  <2>1. /\ SubSeq(f.cells, 1, Len(f.cells)) \in Seq(Cell)
        /\ Len(SubSeq(f.cells, 1, Len(f.cells))) = Len(f.cells)
        /\ \A i \in 1 .. Len(f.cells) : SubSeq(f.cells, 1, Len(f.cells))[i] = f.cells[i]
    BY <1>1, PrefixOfCells
  <2>2. QED
    BY <1>1, <2>1, SeqEqual
<1>3. Len(f.cells) .. Len(f.cells) = {Len(f.cells)} /\ Len(f.cells) .. Len(f.cells) - 1 = {}
  BY <1>1
<1>4. QED
  BY <1>2, <1>3 DEF Cuts

LEMMA FilesWithin ==
  ASSUME NEW d, NEW e,
         \A s \in Segments : \A n \in 1 .. Len(e[s].cells) :
             e[s].cells[n].kind = "record" => n \in 1 .. Len(d[s].cells) /\ e[s].cells[n] = d[s].cells[n]
  PROVE  Within(e, d)
BY DEF Within, RecordAt

LEMMA CutRecords ==
  ASSUME NEW f \in File, NEW kept \in Int, NEW cells \in Cuts(f, kept),
         NEW n \in 1 .. Len(cells), cells[n].kind = "record"
  PROVE  n \in 1 .. Len(f.cells) /\ cells[n] = f.cells[n]
<1>1. Len(f.cells) \in Nat /\ Len(cells) \in Nat
  BY CutCells, LenProperties DEF File
<1>2. Torn.kind # "record"
  BY DEF Torn
<1>3. CASE n < Len(cells)
  BY <1>1, <1>3, CutCells
<1>4. CASE n = Len(cells)
  BY <1>1, <1>2, <1>4, CutCells
<1>5. QED
  BY <1>1, <1>3, <1>4

\* What a repair leaves of a file is the part its scan verified, or an empty
\* segment.
LEMMA RepairedCells ==
  ASSUME NEW f \in File, NEW start \in Nat \ {0}, TornAfter(f, start)
  PROVE  /\ HeaderIncomplete(f) => Repaired(f, start).cells = <<Header(key)>> /\ Repaired(f, start).synced = 1
         /\ ~HeaderIncomplete(f) =>
              /\ ValidEnd(f, start) \in Nat \ {0}
              /\ ValidEnd(f, start) < Len(f.cells)
              /\ Repaired(f, start).cells \in Seq(Cell)
              /\ Len(Repaired(f, start).cells) = ValidEnd(f, start)
              /\ \A n \in 1 .. ValidEnd(f, start) : Repaired(f, start).cells[n] = f.cells[n]
              /\ Repaired(f, start).synced = ValidEnd(f, start)
         /\ Repaired(f, start).live = f.live
         /\ Repaired(f, start).named = f.named
<1>0. f.cells \in Seq(Cell) /\ Len(f.cells) \in Nat
  BY LenProperties DEF File
<1>1. CASE HeaderIncomplete(f)
  BY <1>1 DEF Repaired, File
<1>2. CASE ~HeaderIncomplete(f)
  <2>1. ValidEnd(f, start) \in Nat \ {0} /\ ValidEnd(f, start) < Len(f.cells)
    BY <1>0, <1>2, ValidEndProperties DEF TornAfter
  <2>2. Repaired(f, start) = Truncated(f, ValidEnd(f, start))
    BY <1>2 DEF Repaired
  <2> DEFINE n == ValidEnd(f, start)
             pre == SubSeq(f.cells, 1, n)
  <2>3. pre \in Seq(Cell) /\ Len(pre) = n /\ \A i \in 1 .. n : pre[i] = f.cells[i]
    BY <1>0, <2>1, PrefixOfCells
  <2>4. Truncated(f, n) = [f EXCEPT !.cells = pre, !.synced = n]
    BY DEF Truncated
  <2> HIDE DEF pre, n
  <2>5. /\ Truncated(f, n).cells = pre
        /\ Truncated(f, n).synced = n
        /\ Truncated(f, n).live = f.live
        /\ Truncated(f, n).named = f.named
    BY <2>4 DEF File
  <2>6. QED
    BY <1>2, <2>1, <2>2, <2>3, <2>5 DEF n
<1>3. QED
  BY <1>1, <1>2

LEMMA RepairedRecords ==
  ASSUME NEW f \in File, NEW start \in Nat \ {0}, TornAfter(f, start),
         NEW n \in 1 .. Len(Repaired(f, start).cells), Repaired(f, start).cells[n].kind = "record"
  PROVE  n \in 1 .. Len(f.cells) /\ Repaired(f, start).cells[n] = f.cells[n]
<1>0. Len(f.cells) \in Nat
  BY LenProperties DEF File
<1>1. CASE HeaderIncomplete(f)
  <2>1. Repaired(f, start).cells = <<Header(key)>>
    BY <1>1, RepairedCells
  <2>2. n = 1 /\ Repaired(f, start).cells[1] = Header(key)
    BY <2>1
  <2>3. QED
    BY <2>2 DEF Header
<1>2. CASE ~HeaderIncomplete(f)
  BY <1>0, <1>2, RepairedCells
<1>3. QED
  BY <1>1, <1>2

\* Repair changes files only by taking away what no scan verifies.
LEMMA RepairWithin ==
  ASSUME TypeInv, NEW from \in Position
  PROVE  /\ Within(Repair(from), disk)
         /\ \A s \in Segments : Repair(from)[s].live = disk[s].live /\ Repair(from)[s].named = disk[s].named
         /\ \A s \in Segments : ~disk[s].live => Repair(from)[s] = disk[s]
<1>1. ASSUME NEW s \in Segments, s \in Damaged(from) \cap Reached(from)
      PROVE  /\ Repair(from)[s] = Repaired(disk[s], StartIn(s, from))
             /\ disk[s] \in File /\ StartIn(s, from) \in Nat \ {0} /\ TornAfter(disk[s], StartIn(s, from))
             /\ disk[s].live
  <2>1. disk[s] \in File /\ StartIn(s, from) \in Nat \ {0}
    BY StartInType DEF TypeInv, TypeOK
  <2>2. TornAfter(disk[s], StartIn(s, from)) /\ disk[s].live
    BY <1>1 DEF Damaged, Scanned, Live
  <2>3. QED
    BY <1>1, <2>1, <2>2 DEF Repair
<1>2. ASSUME NEW s \in Segments, s \notin Damaged(from) \cap Reached(from)
      PROVE  Repair(from)[s] = disk[s]
  BY <1>2 DEF Repair
<1>3. ASSUME NEW s \in Segments, NEW n \in 1 .. Len(Repair(from)[s].cells),
             Repair(from)[s].cells[n].kind = "record"
      PROVE  n \in 1 .. Len(disk[s].cells) /\ Repair(from)[s].cells[n] = disk[s].cells[n]
  <2>1. CASE s \in Damaged(from) \cap Reached(from)
    BY <1>1, <1>3, <2>1, RepairedRecords
  <2>2. CASE s \notin Damaged(from) \cap Reached(from)
    BY <1>2, <1>3, <2>2
  <2>3. QED
    BY <2>1, <2>2
<1>4. Within(Repair(from), disk)
  BY <1>3, FilesWithin
<1>5. ASSUME NEW s \in Segments
      PROVE  /\ Repair(from)[s].live = disk[s].live
             /\ Repair(from)[s].named = disk[s].named
             /\ ~disk[s].live => Repair(from)[s] = disk[s]
  <2>1. CASE s \in Damaged(from) \cap Reached(from)
    <3>1. /\ Repaired(disk[s], StartIn(s, from)).live = disk[s].live
          /\ Repaired(disk[s], StartIn(s, from)).named = disk[s].named
      BY <1>1, <2>1, RepairedCells
    <3>2. QED
      BY <1>1, <2>1, <3>1
  <2>2. CASE s \notin Damaged(from) \cap Reached(from)
    BY <1>2, <2>2
  <2>3. QED
    BY <2>1, <2>2
<1>6. QED
  BY <1>4, <1>5

\* While the process runs, its segment is live and no record is in a later one.
AtTop ==
    /\ pc # "down" => /\ disk[position.segment].live
                      /\ \A s \in Segments : s > position.segment => NoRecords(disk, s)
    /\ pc = "rolling" => disk[position.segment + 1].live

\* A checkpoint's segment is there, whatever was released lies below it, and the
\* process never remembers or reaches less than it.  The one a power loss may
\* bring back is the file's own, but between a rename and its sync, or after a
\* sync that failed.
Anchored(p) ==
    /\ p # START => disk[p.segment].live /\ (bounds.kills = 0 => disk[p.segment].named)
    /\ \A s \in Segments : ~disk[s].live /\ disk[s].cells # <<>> => s < p.segment
    /\ pc # "down" => checkpoint.segment <= p.segment /\ p.segment <= position.segment
Anchors ==
    /\ Anchored(ckptFile)
    /\ bounds.kills = 0 =>
          /\ Anchored(ckptSynced)
          /\ pc = "down" \/ (NoFault /\ pc # "renamed") => ckptSynced = ckptFile

\* A power loss takes no file but the one being created.
Named ==
    bounds.kills = 0 =>
      /\ \A s \in Segments :
           disk[s].live /\ (pc = "down" \/ s < position.segment \/ (s = position.segment /\ pc # "opening"))
           => disk[s].named
      /\ \A s \in unlinked : disk[s].named

OrderInv ==
    SameCrashes =>
      /\ Ordered(disk)
      /\ pc \in {"append", "rolling"} => Under(disk, batch.first)
      /\ AtTop
      /\ Anchors
      /\ Named

LEMMA InitOrderInv == Init => OrderInv
<1> SUFFICES ASSUME Init PROVE OrderInv
  OBVIOUS
<1>1. \A s \in Segments : disk[s] = NoFile
  BY DEF Init
<1>2. \A s \in Segments : disk[s].cells = <<>> /\ ~disk[s].live /\ Len(disk[s].cells) = 0
  BY <1>1 DEF NoFile
<1>3. Ordered(disk)
  BY <1>2 DEF Ordered, RecordAt
<1>4. AtTop /\ Anchors /\ Named
  BY <1>2 DEF Init, AtTop, Anchors, Anchored, Named
<1>5. QED
  BY <1>3, <1>4 DEF OrderInv, Init

\* What holds of segment numbers and offsets whenever the types do.
LEMMA Numbers ==
  ASSUME TypeInv
  PROVE  /\ Segments \subseteq Nat
         /\ {position.segment, checkpoint.segment, ckptFile.segment, ckptSynced.segment} \subseteq Segments
         /\ {position.offset, checkpoint.offset, ckptFile.offset, ckptSynced.offset} \subseteq Nat \ {0}
         /\ pc = "rolling" => position.segment + 1 \in Segments
         /\ nextId \in Nat \ {0} /\ batch.first \in Nat \ {0} /\ batch.last \in Nat /\ batch.last < nextId
         /\ \A s \in Segments : /\ disk[s] \in File
                                /\ disk[s].cells \in Seq(Cell)
                                /\ Len(disk[s].cells) \in Nat
                                /\ disk[s].synced \in Nat
         /\ key \in BOOLEAN
         /\ bounds.kills \in Nat /\ bounds.losses \in Nat /\ bounds.faults \in Nat
<1>1. Segments \subseteq Nat
  BY WalAssumption DEF Segments
<1>2. \A s \in Segments : disk[s] \in File
  BY DEF TypeInv, TypeOK
<1>3. \A s \in Segments : /\ disk[s].cells \in Seq(Cell)
                          /\ Len(disk[s].cells) \in Nat
                          /\ disk[s].synced \in Nat
  BY <1>2, LenProperties DEF File
<1>4. /\ {position.segment, checkpoint.segment, ckptFile.segment, ckptSynced.segment} \subseteq Segments
      /\ {position.offset, checkpoint.offset, ckptFile.offset, ckptSynced.offset} \subseteq Nat \ {0}
  BY DEF TypeInv, TypeOK, Position
<1>5. bounds.kills \in Nat /\ bounds.losses \in Nat /\ bounds.faults \in Nat
  BY DEF TypeInv, TypeOK
<1>6. QED
  BY <1>1, <1>2, <1>3, <1>4, <1>5 DEF TypeInv, TypeOK

\* Every record on the disk has been submitted.
LEMMA SubmittedRecords ==
  ASSUME TypeInv
  PROVE  Under(disk, nextId)
<1> SUFFICES ASSUME NEW s \in Segments, NEW n \in 1 .. Len(disk[s].cells), RecordAt(disk, s, n)
             PROVE  disk[s].cells[n].id < nextId
  BY DEF Under
<1>1. disk[s].cells \in Seq(CellsBelow(nextId)) /\ nextId \in Nat
  BY DEF TypeInv, TypeOK, FilesBelow
<1>2. disk[s].cells[n] \in CellsBelow(nextId)
  BY <1>1, ElementOfSeq
<1>3. disk[s].cells[n].id \in 1 .. nextId - 1
  BY <1>2 DEF RecordAt, CellsBelow
<1>4. QED
  BY <1>1, <1>3

\* File g is f with cells added at its end.
Extends(g, f, cells) ==
    /\ Len(f.cells) \in Nat /\ Len(cells) \in Nat
    /\ g.cells \in Seq(Cell)
    /\ Len(g.cells) = Len(f.cells) + Len(cells)
    /\ \A n \in 1 .. Len(f.cells) : g.cells[n] = f.cells[n]
    /\ \A n \in 1 .. Len(cells) : g.cells[Len(f.cells) + n] = cells[n]
    /\ g.live /\ g.synced = f.synced /\ g.named = f.named

LEMMA WrittenExtends ==
  ASSUME NEW f \in File, NEW cells \in Seq(Cell)
  PROVE  Extends(Written(f, cells), f, cells)
<1>0. f.cells \in Seq(Cell) /\ Len(f.cells) \in Nat /\ Len(cells) \in Nat
  BY LenProperties DEF File
<1> DEFINE both == f.cells \o cells
<1>1. /\ both \in Seq(Cell)
      /\ Len(both) = Len(f.cells) + Len(cells)
      /\ \A n \in 1 .. Len(both) : both[n] = IF n <= Len(f.cells) THEN f.cells[n] ELSE cells[n - Len(f.cells)]
  BY <1>0, ConcatProperties
<1> HIDE DEF both
<1>2. ASSUME NEW n \in 1 .. Len(f.cells) PROVE both[n] = f.cells[n]
  <2>1. n \in 1 .. Len(both) /\ n <= Len(f.cells)
    BY <1>0, <1>1
  <2> QED
    BY <1>1, <2>1
<1>3. ASSUME NEW n \in 1 .. Len(cells) PROVE both[Len(f.cells) + n] = cells[n]
  <2>1. Len(f.cells) + n \in 1 .. Len(both) /\ ~(Len(f.cells) + n <= Len(f.cells))
    BY <1>0, <1>1
  <2>2. (Len(f.cells) + n) - Len(f.cells) = n
    BY <1>0
  <2>3. QED
    BY <1>1, <2>1, <2>2
<1>4. Written(f, cells) = [f EXCEPT !.cells = both, !.live = TRUE]
  BY DEF Written, both
<1>5. /\ Written(f, cells).cells = both
      /\ Written(f, cells).live
      /\ Written(f, cells).synced = f.synced
      /\ Written(f, cells).named = f.named
  BY <1>4 DEF File
<1>6. QED
  BY <1>0, <1>1, <1>2, <1>3, <1>5 DEF Extends

\* Disk e is d with cells written to the end of segment s.
WrittenTo(e, d, s, cells) ==
    /\ Extends(e[s], d[s], cells)
    /\ \A t \in Segments : t # s => e[t] = d[t]

LEMMA WriteExtends ==
  ASSUME NEW d, \A t \in Segments : d[t] \in File, NEW e, NEW s \in Segments, NEW cells \in Seq(Cell),
         e = [t \in Segments |-> IF t = s THEN Written(d[t], cells) ELSE d[t]]
  PROVE  WrittenTo(e, d, s, cells)
<1>1. Extends(e[s], d[s], cells)
  BY WrittenExtends
<1>2. QED
  BY <1>1 DEF WrittenTo

\* Cells written to a file that hold no record: a header, or a part of one.
LEMMA RecordlessWithin ==
  ASSUME NEW d, NEW e, NEW s \in Segments, NEW cells \in Seq(Cell), WrittenTo(e, d, s, cells),
         \A n \in 1 .. Len(cells) : cells[n].kind # "record"
  PROVE  Within(e, d)
<1>1. Len(d[s].cells) \in Nat /\ Len(cells) \in Nat
  BY DEF WrittenTo, Extends
<1>2. /\ Len(e[s].cells) = Len(d[s].cells) + Len(cells)
      /\ \A n \in 1 .. Len(d[s].cells) : e[s].cells[n] = d[s].cells[n]
      /\ \A n \in 1 .. Len(cells) : e[s].cells[Len(d[s].cells) + n] = cells[n]
  BY DEF WrittenTo, Extends
<1>3. ASSUME NEW n \in 1 .. Len(e[s].cells), e[s].cells[n].kind = "record"
      PROVE  n \in 1 .. Len(d[s].cells) /\ e[s].cells[n] = d[s].cells[n]
  <2>1. ASSUME ~(n <= Len(d[s].cells)) PROVE FALSE
    <3>1. n - Len(d[s].cells) \in 1 .. Len(cells)
      BY <1>1, <1>2, <2>1
    <3>2. Len(d[s].cells) + (n - Len(d[s].cells)) = n
      BY <1>1, <1>2
    <3>3. e[s].cells[n] = cells[n - Len(d[s].cells)]
      BY <1>2, <3>1, <3>2
    <3>4. QED
      BY <1>3, <3>1, <3>3
  <2>2. QED
    BY <1>1, <1>2, <2>1
<1>4. \A t \in Segments : t # s => e[t] = d[t]
  BY DEF WrittenTo
<1>5. QED
  BY <1>3, <1>4, FilesWithin

LEMMA HeaderWithin ==
  ASSUME NEW d, NEW e, NEW s \in Segments, NEW k \in BOOLEAN, WrittenTo(e, d, s, <<Header(k)>>)
  PROVE  Within(e, d)
<1>1. /\ <<Header(k)>> \in Seq(Cell)
      /\ \A n \in 1 .. Len(<<Header(k)>>) : <<Header(k)>>[n].kind # "record"
  BY DEF Header, Cell
<1>2. QED
  BY <1>1, RecordlessWithin

\* Records of a batch written after everything else keep the order.
LEMMA WriteKeepsOrder ==
  ASSUME NEW d, \A t \in Segments : d[t] \in File,
         NEW e, NEW s \in Segments, NEW cells \in Seq(Cell), NEW b \in Nat,
         WrittenTo(e, d, s, cells),
         \A n \in 1 .. Len(cells) : cells[n].kind = "record" => cells[n].id = b + n - 1,
         Ordered(d), Under(d, b), \A t \in Segments : t > s => NoRecords(d, t)
  PROVE  Ordered(e) /\ \A t \in Segments : t > s => NoRecords(e, t)
<1> DEFINE L == Len(d[s].cells)
<1>0. Segments \subseteq Nat
  BY WalAssumption DEF Segments
<1>1. L \in Nat /\ Len(cells) \in Nat
  BY DEF WrittenTo, Extends
<1>2. /\ Len(e[s].cells) = L + Len(cells)
      /\ \A n \in 1 .. L : e[s].cells[n] = d[s].cells[n]
      /\ \A n \in 1 .. Len(cells) : e[s].cells[L + n] = cells[n]
  BY DEF WrittenTo, Extends
<1>3. \A t \in Segments : t # s => e[t] = d[t]
  BY DEF WrittenTo
<1>3a. \A n \in 1 .. L : RecordAt(d, s, n) <=> d[s].cells[n].kind = "record"
  BY DEF RecordAt
<1> HIDE DEF L
<1>4. ASSUME NEW t \in Segments, NEW n \in 1 .. Len(e[t].cells), RecordAt(e, t, n)
      PROVE  \/ /\ RecordAt(d, t, n) /\ e[t].cells[n] = d[t].cells[n] /\ d[t].cells[n].id < b
                /\ t < s \/ (t = s /\ n <= L)
             \/ t = s /\ n > L /\ e[t].cells[n].id = b + (n - L) - 1
  <2>1. CASE t # s
    <3>1. RecordAt(d, t, n) /\ e[t].cells[n] = d[t].cells[n]
      BY <1>3, <1>4, <2>1 DEF RecordAt
    <3>2. d[t].cells[n].id < b
      BY <3>1 DEF Under, RecordAt
    <3>3. ~(t > s)
      BY <3>1 DEF NoRecords, RecordAt
    <3>4. t < s
      BY <1>0, <2>1, <3>3
    <3>5. QED
      BY <3>1, <3>2, <3>4
  <2>2. CASE t = s /\ n <= L
    <3>1. n \in 1 .. L
      BY <1>1, <1>2, <2>2
    <3>2. RecordAt(d, t, n) /\ e[t].cells[n] = d[t].cells[n]
      BY <1>2, <1>3a, <1>4, <2>2, <3>1 DEF RecordAt
    <3>3. d[t].cells[n].id < b
      BY <3>2 DEF Under, RecordAt
    <3>4. QED
      BY <2>2, <3>2, <3>3
  <2>3. CASE t = s /\ n > L
    <3>1. n \in 1 .. L + Len(cells)
      BY <1>2, <2>3
    <3> DEFINE j == n - L
    <3>2. j \in 1 .. Len(cells) /\ n = L + j
      BY <1>1, <2>3, <3>1
    <3> HIDE DEF j
    <3>3. e[t].cells[n] = cells[j] /\ cells[j].kind = "record"
      BY <1>2, <1>4, <2>3, <3>2 DEF RecordAt
    <3>4. e[t].cells[n].id = b + j - 1
      BY <3>2, <3>3
    <3>5. QED
      BY <2>3, <3>4 DEF j
  <2>4. n \in Nat
    BY <1>4 DEF RecordAt
  <2>5. QED
    BY <1>1, <2>1, <2>2, <2>3, <2>4
<1>5. Ordered(e)
  <2> SUFFICES ASSUME NEW t \in Segments, NEW u \in Segments,
                      NEW n \in 1 .. Len(e[t].cells), NEW m \in 1 .. Len(e[u].cells),
                      RecordAt(e, t, n), RecordAt(e, u, m), t < u \/ (t = u /\ n < m)
               PROVE  e[t].cells[n].id < e[u].cells[m].id
    BY DEF Ordered
  <2>0. n \in Nat /\ m \in Nat /\ t \in Nat /\ u \in Nat /\ s \in Nat
    BY <1>0
  <2>1. CASE u = s /\ m > L
    <3>1. e[u].cells[m].id = b + (m - L) - 1
      <4>1. ~(u < s) /\ ~(m <= L)
        BY <1>1, <2>0, <2>1
      <4>2. QED
        BY <1>4, <4>1
    <3>2. CASE t = s /\ n > L
      <4>1. e[t].cells[n].id = b + (n - L) - 1
        <5>1. ~(t < s) /\ ~(n <= L)
          BY <1>1, <2>0, <3>2
        <5>2. QED
          BY <1>4, <5>1
      <4>2. n < m
        BY <2>0, <2>1, <3>2
      <4>3. b + (n - L) - 1 < b + (m - L) - 1
        BY <1>1, <2>0, <4>2
      <4>4. QED
        BY <3>1, <4>1, <4>3
    <3>3. CASE ~(t = s /\ n > L)
      <4>1. RecordAt(d, t, n) /\ e[t].cells[n] = d[t].cells[n] /\ d[t].cells[n].id < b
        BY <1>4, <3>3
      <4>2. d[t].cells[n].id \in Nat
        <5>1. d[t].cells \in Seq(Cell)
          BY DEF File
        <5>2. d[t].cells[n] \in Cell
          BY <4>1, <5>1, ElementOfSeq DEF RecordAt
        <5>3. QED
          BY <5>2 DEF Cell
      <4>3. b <= b + (m - L) - 1
        BY <1>1, <2>0, <2>1
      <4> DEFINE x == d[t].cells[n].id
                 y == e[u].cells[m].id
      <4>4. e[t].cells[n].id = x
        BY <4>1
      <4>5. x \in Nat /\ x < b /\ y = b + (m - L) - 1
        BY <3>1, <4>1, <4>2
      <4> HIDE DEF x, y
      <4>6. x < y
        BY <1>1, <2>0, <4>3, <4>5
      <4>7. QED
        BY <4>4, <4>6 DEF y
    <3>4. QED
      BY <3>2, <3>3
  <2>2. CASE ~(u = s /\ m > L)
    <3>1. /\ RecordAt(d, u, m) /\ e[u].cells[m] = d[u].cells[m]
          /\ (u < s \/ (u = s /\ m <= L))
      BY <1>4, <2>2
    <3>2. ~(t = s /\ n > L)
      BY <1>1, <2>0, <3>1
    <3>3. RecordAt(d, t, n) /\ e[t].cells[n] = d[t].cells[n]
      BY <1>4, <3>2
    <3>4. QED
      BY <3>1, <3>3 DEF Ordered, RecordAt
  <2>3. QED
    BY <2>1, <2>2
<1>6. ASSUME NEW t \in Segments, t > s PROVE NoRecords(e, t)
  <2>1. NoRecords(d, t) /\ e[t] = d[t]
    BY <1>0, <1>3, <1>6
  <2>2. QED
    BY <2>1 DEF NoRecords, RecordAt
<1>7. QED
  BY <1>5, <1>6

LEMMA WriteStep ==
  ASSUME TypeInv, NEW s \in Segments, NEW cells \in Seq(Cell), Write(s, cells)
  PROVE  WrittenTo(disk', disk, s, cells)
<1>1. \A t \in Segments : disk[t] \in File
  BY Numbers
<1>2. disk' = [t \in Segments |-> IF t = s THEN Written(disk[t], cells) ELSE disk[t]]
  BY DEF Write, TypeInv, TypeOK
<1>3. QED
  BY <1>1, <1>2, WriteExtends

LEMMA HeaderCell ==
  ASSUME NEW k \in BOOLEAN
  PROVE  <<Header(k)>> \in Seq(Cell) /\ Len(<<Header(k)>>) = 1 /\ <<Header(k)>>[1] = Header(k)
BY DEF Header, Cell

\* The cells of the batch in progress carry its ids.
LEMMA BatchCellsIds ==
  ASSUME TypeInv
  PROVE  /\ BatchCells \in Seq(Cell)
         /\ Len(BatchCells) \in Nat
         /\ batch.first <= batch.last => Len(BatchCells) = batch.last - batch.first + 1
         /\ \A n \in 1 .. Len(BatchCells) : BatchCells[n] = Record(batch.first + n - 1, key)
<1>1. batch.first \in Nat \ {0} /\ batch.last \in Nat
  BY Numbers
<1> DEFINE k == IF batch.last >= batch.first THEN batch.last - batch.first + 1 ELSE 0
<1>2. 1 .. batch.last - batch.first + 1 = 1 .. k /\ k \in Nat
  BY <1>1
<1>3. BatchCells = [j \in 1 .. k |-> Record(batch.first + j - 1, key)]
  BY <1>2 DEF BatchCells
<1>4. BatchCells \in Seq(CellsBelow(nextId))
  BY BatchCellsType
<1>5. BatchCells \in Seq(Cell)
  BY <1>4, SeqMonotonic DEF CellsBelow
<1>6. Len(BatchCells) = k
  BY <1>2, <1>3
<1> HIDE DEF k
<1>7. \A n \in 1 .. Len(BatchCells) : BatchCells[n] = Record(batch.first + n - 1, key)
  BY <1>3, <1>6
<1>8. batch.first <= batch.last => k = batch.last - batch.first + 1
  BY <1>1 DEF k
<1>9. QED
  BY <1>2, <1>5, <1>6, <1>7, <1>8

-----------------------------------------------------------------------------
(* OrderInv is inductive *)

OrderParts ==
    /\ Ordered(disk)
    /\ pc \in {"append", "rolling"} => Under(disk, batch.first)
    /\ AtTop
    /\ Anchors
    /\ Named

\* The steps that write nothing to a segment and change no crash count.
LEMMA OrderMemory ==
  ASSUME TypeInv, TypeInv', OrderParts,
         (\E n \in 1 .. MaxBatch : Submit(n)) \/ SyncFails \/ DirSyncFails
            \/ CheckpointRename \/ CheckpointDone \/ Rekey
  PROVE  OrderParts'
<1>0. UNCHANGED <<disk, unlinked>> /\ bounds'.kills = bounds.kills
  BY DEF Submit, SyncFails, DirSyncFails, Fails, Count, CheckpointRename, CheckpointDone, Rekey, files,
     TypeInv, TypeOK
<1>1. Ordered(disk')
  BY <1>0 DEF OrderParts
<1>2. pc' \in {"append", "rolling"} => Under(disk', batch'.first)
  <2>1. CASE \E n \in 1 .. MaxBatch : Submit(n)
    <3>1. batch'.first = nextId
      BY <2>1 DEF Submit
    <3>2. QED
      BY <1>0, <3>1, SubmittedRecords
  <2>2. CASE SyncFails \/ DirSyncFails \/ CheckpointRename \/ CheckpointDone
    BY <2>2 DEF SyncFails, DirSyncFails, Fails, CheckpointRename, CheckpointDone
  <2>3. CASE Rekey
    BY <2>3 DEF Rekey
  <2>4. QED
    BY <2>1, <2>2, <2>3
<1>3. position' = position /\ (pc' = "down" <=> pc = "down") /\ pc' # "rolling" /\ pc # "opening"
  BY DEF Submit, SyncFails, DirSyncFails, Fails, CheckpointRename, CheckpointDone, Rekey, memory
<1>4. AtTop'
  BY <1>0, <1>3 DEF OrderParts, AtTop
<1>5. Named'
  BY <1>0, <1>3 DEF OrderParts, Named
<1>6. Anchors'
  <2>1. CASE (\E n \in 1 .. MaxBatch : Submit(n)) \/ SyncFails \/ DirSyncFails \/ Rekey
    <3>1. UNCHANGED <<ckptFile, ckptSynced, checkpoint>>
      BY <2>1 DEF Submit, SyncFails, DirSyncFails, Fails, Rekey, memory, files
    <3>2. NoFault' => NoFault /\ (pc = "renamed" => pc' = "renamed")
      <4>1. bounds'.faults = bounds.faults + 1 \/ (bounds'.faults = bounds.faults /\ pc # "renamed")
        BY <2>1 DEF Submit, SyncFails, DirSyncFails, Fails, Rekey, Count, TypeInv, TypeOK
      <4>2. QED
        BY <4>1, Numbers DEF NoFault, TypeInv, TypeOK
    <3>3. QED
      BY <1>0, <1>3, <3>1, <3>2 DEF OrderParts, Anchors, Anchored
  <2>2. CASE CheckpointRename
    <3>1. /\ pc = "idle" /\ pc' = "renamed" /\ ckptFile' = position
          /\ UNCHANGED <<ckptSynced, checkpoint>>
      BY <2>2 DEF CheckpointRename, memory
    <3>2. Anchored(ckptFile)
      BY DEF OrderParts, Anchors
    <3>3. \A s \in Segments : ~disk[s].live /\ disk[s].cells # <<>> => s < position.segment
      <4>1. ckptFile.segment <= position.segment
        BY <3>1, <3>2 DEF Anchored
      <4>2. ckptFile.segment \in Nat /\ position.segment \in Nat /\ \A s \in Segments : s \in Nat
        BY Numbers
      <4>3. \A s \in Segments : ~disk[s].live /\ disk[s].cells # <<>> => s < ckptFile.segment
        BY <3>2 DEF Anchored
      <4>4. QED
        BY <4>1, <4>2, <4>3
    <3>4. checkpoint.segment <= position.segment
      <4>1. checkpoint.segment <= ckptFile.segment /\ ckptFile.segment <= position.segment
        BY <3>1, <3>2 DEF Anchored
      <4>2. {checkpoint.segment, ckptFile.segment, position.segment} \subseteq Nat
        BY Numbers
      <4>3. QED
        BY <4>1, <4>2
    <3>5. disk[position.segment].live /\ (bounds.kills = 0 => disk[position.segment].named)
      BY <3>1, Numbers DEF OrderParts, AtTop, Named
    <3>6. Anchored(ckptFile)'
      BY <1>0, <1>3, <3>1, <3>3, <3>4, <3>5, Numbers DEF Anchored
    <3>7. bounds.kills = 0 => Anchored(ckptSynced)'
      BY <1>0, <1>3, <3>1 DEF OrderParts, Anchors, Anchored
    <3>8. QED
      BY <1>0, <3>1, <3>6, <3>7 DEF Anchors
  <2>3. CASE CheckpointDone
    <3>1. /\ pc = "renamed" /\ pc' = "idle" /\ ckptSynced' = ckptFile /\ checkpoint' = ckptFile
          /\ UNCHANGED ckptFile
      BY <2>3 DEF CheckpointDone
    <3>2. Anchored(ckptFile)
      BY DEF OrderParts, Anchors
    <3>3. Anchored(ckptFile)'
      BY <1>0, <1>3, <3>1, <3>2, Numbers DEF Anchored
    <3>4. QED
      BY <1>0, <3>1, <3>3 DEF Anchors, Anchored
  <2>4. QED
    BY <2>1, <2>2, <2>3
<1>7. QED
  BY <1>1, <1>2, <1>4, <1>5, <1>6 DEF OrderParts

\* No file of disk d is missing or unnamed in disk e, and none is released.
Keeps(e, d) ==
    \A s \in Segments :
        /\ d[s].live => e[s].live
        /\ d[s].named => e[s].named
        /\ ~e[s].live /\ e[s].cells # <<>> => ~d[s].live /\ d[s].cells # <<>>

LEMMA KeepsAnchors ==
  ASSUME TypeInv, Anchors, Keeps(disk', disk), bounds'.kills = bounds.kills,
         UNCHANGED <<ckptFile, ckptSynced, checkpoint>>, position'.segment = position.segment,
         pc \notin {"down", "renamed"}, pc' \notin {"down", "renamed"}, NoFault' => NoFault
  PROVE  Anchors'
<1>1. ASSUME NEW p \in Position, Anchored(p) PROVE Anchored(p)'
  <2>1. p.segment \in Segments
    BY DEF Position
  <2>2. p # START => disk'[p.segment].live /\ (bounds'.kills = 0 => disk'[p.segment].named)
    BY <1>1, <2>1 DEF Anchored, Keeps
  <2>3. \A s \in Segments : ~disk'[s].live /\ disk'[s].cells # <<>> => s < p.segment
    BY <1>1 DEF Anchored, Keeps
  <2>4. checkpoint'.segment <= p.segment /\ p.segment <= position'.segment
    BY <1>1 DEF Anchored
  <2>5. QED
    BY <2>2, <2>3, <2>4 DEF Anchored
<1>2. ckptFile \in Position /\ ckptSynced \in Position
  BY DEF TypeInv, TypeOK
<1>3. Anchored(ckptFile)'
  BY <1>1, <1>2 DEF Anchors, Anchored
<1>4. bounds.kills = 0 => Anchored(ckptSynced)'
  BY <1>1, <1>2 DEF Anchors, Anchored
<1>5. QED
  BY <1>3, <1>4 DEF Anchors

LEMMA WriteKeeps ==
  ASSUME NEW d, NEW e, NEW s \in Segments, NEW cells, WrittenTo(e, d, s, cells)
  PROVE  Keeps(e, d) /\ e[s].live /\ \A t \in Segments : e[t].named = d[t].named
BY DEF WrittenTo, Extends, Keeps

\* What syncs change: nothing but what is durable.
LEMMA SyncedFields ==
  ASSUME NEW d \in [Segments -> File], NEW s \in Segments
  PROVE  LET e == [d EXCEPT ![s] = SyncAll(@)]
         IN  /\ e \in [Segments -> File]
             /\ \A t \in Segments : /\ e[t].cells = d[t].cells
                                    /\ e[t].live = d[t].live
                                    /\ e[t].named = d[t].named
                                    /\ e[t].synced = IF t = s THEN Len(d[t].cells) ELSE d[t].synced
<1> DEFINE e == [d EXCEPT ![s] = SyncAll(@)]
<1>0. d[s].cells \in Seq(Cell) /\ Len(d[s].cells) \in Nat
  BY LenProperties DEF File
<1>1. SyncAll(d[s]) \in File
  BY <1>0 DEF SyncAll, File
<1>2. /\ SyncAll(d[s]).cells = d[s].cells /\ SyncAll(d[s]).live = d[s].live
      /\ SyncAll(d[s]).named = d[s].named /\ SyncAll(d[s]).synced = Len(d[s].cells)
  BY DEF SyncAll, File
<1>3. e[s] = SyncAll(d[s]) /\ \A t \in Segments : t # s => e[t] = d[t]
  OBVIOUS
<1>4. e \in [Segments -> File]
  BY <1>1
<1> HIDE DEF e
<1>5. ASSUME NEW t \in Segments
      PROVE  /\ e[t].cells = d[t].cells
             /\ e[t].live = d[t].live
             /\ e[t].named = d[t].named
             /\ e[t].synced = IF t = s THEN Len(d[t].cells) ELSE d[t].synced
  BY <1>2, <1>3
<1>6. QED
  BY <1>4, <1>5 DEF e

LEMMA SyncDirFields ==
  ASSUME NEW d \in [Segments -> File]
  PROVE  \A t \in Segments : /\ SyncDir(d)[t].cells = d[t].cells
                             /\ SyncDir(d)[t].live = d[t].live
                             /\ SyncDir(d)[t].synced = d[t].synced
                             /\ SyncDir(d)[t].named = (d[t].named \/ d[t].live)
<1> SUFFICES ASSUME NEW t \in Segments
             PROVE  /\ SyncDir(d)[t].cells = d[t].cells
                    /\ SyncDir(d)[t].live = d[t].live
                    /\ SyncDir(d)[t].synced = d[t].synced
                    /\ SyncDir(d)[t].named = (d[t].named \/ d[t].live)
  OBVIOUS
<1>1. SyncDir(d)[t] = [d[t] EXCEPT !.named = @ \/ d[t].live]
  BY DEF SyncDir
<1>2. d[t] \in File
  OBVIOUS
<1>3. QED
  BY <1>1, <1>2, Zenon DEF File

\* Disk e is d with its files' contents and states as they were, and their names
\* at least as durable.
Synced(e, d) ==
    \A t \in Segments : e[t].cells = d[t].cells /\ e[t].live = d[t].live /\ (d[t].named => e[t].named)

LEMMA SyncedKeeps ==
  ASSUME NEW d, NEW e, Synced(e, d)
  PROVE  Keeps(e, d) /\ Within(e, d)
<1>1. Within(e, d)
  BY SameCellsWithin DEF Synced
<1>2. QED
  BY <1>1 DEF Synced, Keeps

\* The steps of an append that write no record.
LEMMA OrderRoll ==
  ASSUME TypeInv, TypeInv', OrderParts, Roll \/ RollDone \/ RollFails
  PROVE  OrderParts'
<1>. Ordered(disk) /\ AtTop /\ Anchors /\ Named /\ (pc \in {"append", "rolling"} => Under(disk, batch.first))
  BY DEF OrderParts
<1>0. /\ Segments \subseteq Nat /\ position.segment \in Segments /\ key \in BOOLEAN
      /\ position.segment \in Nat
      /\ disk \in [Segments -> File]
  BY Numbers DEF TypeInv, TypeOK
<1>1. CASE Roll
  <2>1. /\ pc = "append" /\ pc' = "rolling" /\ Write(position.segment + 1, <<Header(key)>>)
        /\ UNCHANGED <<ckptFile, ckptSynced, unlinked, position, checkpoint, batch, bounds>>
    BY <1>1 DEF Roll, memory
  <2>2. position.segment + 1 \in Segments
    BY <1>0, <1>1, WalAssumption DEF Roll, Segments
  <2>3. WrittenTo(disk', disk, position.segment + 1, <<Header(key)>>)
    BY <1>0, <2>1, <2>2, HeaderCell, WriteStep
  <2>4. Within(disk', disk)
    BY <1>0, <2>2, <2>3, HeaderWithin
  <2>5. /\ Keeps(disk', disk) /\ disk'[position.segment + 1].live
        /\ \A t \in Segments : disk'[t].named = disk[t].named
    BY <2>2, <2>3, WriteKeeps
  <2>6. Ordered(disk') /\ Under(disk', batch.first)
    BY <2>1, <2>4, WithinKeeps
  <2>7. AtTop'
    BY <1>0, <2>1, <2>4, <2>5, WithinKeeps DEF AtTop, Keeps
  <2>8. Anchors'
    BY <2>1, <2>5, KeepsAnchors DEF NoFault
  <2>9. Named'
    <3>1. ASSUME NEW s \in Segments, s <= position.segment PROVE disk'[s].live => disk[s].live
      <4>0. s \in Nat
        BY <1>0
      <4>1. s # position.segment + 1
        BY <1>0, <3>1, <4>0
      <4>2. QED
        BY <2>3, <4>1 DEF WrittenTo
    <3>2. ASSUME bounds.kills = 0, NEW s \in Segments, disk'[s].live,
                 s < position.segment \/ s = position.segment
          PROVE  disk'[s].named
      <4>0. s \in Nat
        BY <1>0
      <4>1. s <= position.segment
        BY <1>0, <3>2, <4>0
      <4>2. disk[s].named
        BY <2>1, <3>1, <3>2, <4>1 DEF Named
      <4>3. QED
        BY <2>5, <4>2
    <3>3. unlinked \subseteq Segments
      BY DEF TypeInv, TypeOK
    <3>4. QED
      BY <2>1, <2>5, <3>2, <3>3 DEF Named
  <2>10. QED
    BY <2>1, <2>6, <2>7, <2>8, <2>9 DEF OrderParts
<1>2. CASE RollDone
  <2> DEFINE e == [disk EXCEPT ![position.segment + 1] = SyncAll(@)]
  <2>1. /\ pc = "rolling" /\ pc' = "append" /\ disk' = SyncDir(e) /\ unlinked' = {}
        /\ position'.segment = position.segment + 1
        /\ UNCHANGED <<ckptFile, ckptSynced, checkpoint, batch, bounds>>
    BY <1>2 DEF RollDone
  <2>2. position.segment + 1 \in Segments
    BY <2>1, Numbers
  <2>3. e \in [Segments -> File] /\ \A t \in Segments : /\ e[t].cells = disk[t].cells
                                                        /\ e[t].live = disk[t].live
                                                        /\ e[t].named = disk[t].named
    BY <1>0, <2>2, SyncedFields
  <2> HIDE DEF e
  <2>4. \A t \in Segments : /\ disk'[t].cells = disk[t].cells
                            /\ disk'[t].live = disk[t].live
                            /\ disk'[t].named = (disk[t].named \/ disk[t].live)
    BY <2>1, <2>3, SyncDirFields
  <2>5. Keeps(disk', disk) /\ Within(disk', disk)
    BY <2>4, SyncedKeeps DEF Synced
  <2>6. Ordered(disk') /\ Under(disk', batch.first)
    BY <2>1, <2>5, WithinKeeps
  <2>7. AtTop'
    <3>1. disk'[position'.segment].live
      BY <2>1, <2>2, <2>4 DEF AtTop
    <3>2. ASSUME NEW s \in Segments, s > position'.segment PROVE NoRecords(disk', s)
      <4>0. s \in Nat
        BY <1>0
      <4>1. s > position.segment
        BY <1>0, <2>1, <3>2, <4>0
      <4>2. NoRecords(disk, s)
        BY <2>1, <4>1 DEF AtTop
      <4>3. QED
        BY <2>5, <4>2, WithinKeeps
    <3>3. QED
      BY <2>1, <3>1, <3>2 DEF AtTop
  <2>8. Anchors'
    <3>1. ASSUME NEW p \in Position, Anchored(p) PROVE Anchored(p)'
      <4>1. p.segment \in Segments
        BY DEF Position
      <4>0. p.segment \in Nat
        BY <1>0, <4>1
      <4>2. checkpoint.segment <= p.segment /\ p.segment <= position.segment + 1
        BY <1>0, <2>1, <3>1, <4>0 DEF Anchored
      <4>3. p # START => disk'[p.segment].live /\ (bounds'.kills = 0 => disk'[p.segment].named)
        BY <2>1, <2>4, <3>1, <4>1 DEF Anchored
      <4>4. \A s \in Segments : ~disk'[s].live /\ disk'[s].cells # <<>> => s < p.segment
        BY <2>4, <3>1 DEF Anchored
      <4>5. QED
        BY <2>1, <4>2, <4>3, <4>4 DEF Anchored
    <3>2. ckptFile \in Position /\ ckptSynced \in Position
      BY DEF TypeInv, TypeOK
    <3>3. QED
      BY <2>1, <3>1, <3>2 DEF Anchors, Anchored, NoFault
  <2>9. Named'
    BY <2>1, <2>4 DEF Named
  <2>10. QED
    BY <2>1, <2>6, <2>7, <2>8, <2>9 DEF OrderParts
<1>3. CASE RollFails
  <2>1. /\ pc \in {"append", "rolling"} /\ pc' = "idle" /\ bounds'.kills = bounds.kills
        /\ NoFault' => NoFault
        /\ UNCHANGED <<ckptFile, ckptSynced, unlinked, position, checkpoint>>
    BY <1>3 DEF RollFails, Fails, Count, NoFault, TypeInv, TypeOK
  <2>2. CASE UNCHANGED disk
    <3>1. AtTop' /\ Named'
      BY <2>1, <2>2 DEF AtTop, Named
    <3>2. Anchors'
      BY <2>1, <2>2 DEF Anchors, Anchored
    <3>3. QED
      BY <2>1, <2>2, <3>1, <3>2 DEF OrderParts
  <2>3. CASE disk' # disk
    <3>1. PICK cells \in {<<>>, <<Torn>>} : Write(position.segment + 1, cells)
      BY <1>3, <2>3 DEF RollFails
    <3>2. position.segment + 1 \in Segments
      BY <1>0, <1>3, <2>3, WalAssumption DEF RollFails, Segments
    <3>3. cells \in Seq(Cell) /\ \A n \in 1 .. Len(cells) : cells[n].kind # "record"
      <4>1. Torn \in Cell /\ Torn.kind # "record"
        BY DEF Torn, Cell
      <4>2. CASE cells = <<>>
        BY <4>2
      <4>3. CASE cells = <<Torn>>
        BY <4>1, <4>3
      <4>4. QED
        BY <4>2, <4>3
    <3>4. WrittenTo(disk', disk, position.segment + 1, cells)
      BY <1>0, <3>1, <3>2, <3>3, WriteStep
    <3>5. Within(disk', disk)
      BY <1>0, <3>2, <3>3, <3>4, RecordlessWithin
    <3>6. /\ Keeps(disk', disk)
          /\ \A t \in Segments : disk'[t].named = disk[t].named
      BY <3>2, <3>4, WriteKeeps
    <3>7. Ordered(disk')
      BY <3>5, WithinKeeps
    <3>8. AtTop'
      BY <1>0, <2>1, <3>5, <3>6, WithinKeeps DEF AtTop, Keeps
    <3>9. Anchors'
      BY <2>1, <3>6, KeepsAnchors
    <3>10. ASSUME bounds.kills = 0, NEW t \in Segments, disk'[t].live,
                  t < position.segment \/ t = position.segment
           PROVE  disk'[t].named
      <4>1. t \in Nat
        BY <1>0
      <4>2. disk[t].live
        BY <1>0, <3>4, <3>10, <4>1 DEF WrittenTo
      <4>3. disk[t].named
        BY <2>1, <3>10, <4>2 DEF Named
      <4>4. QED
        BY <3>6, <4>3
    <3>11. Named'
      <4>1. unlinked \subseteq Segments
        BY DEF TypeInv, TypeOK
      <4>2. QED
        BY <2>1, <3>6, <3>10, <4>1 DEF Named
    <3>12. QED
      BY <2>1, <3>7, <3>8, <3>9, <3>11 DEF OrderParts
  <2>4. QED
    BY <2>2, <2>3
<1>4. QED
  BY <1>1, <1>2, <1>3

\* The batch is written after everything else, whole or in part.
LEMMA OrderWrite ==
  ASSUME TypeInv, TypeInv', OrderParts, WriteBatch \/ WriteFails
  PROVE  OrderParts'
<1>. Ordered(disk) /\ AtTop /\ Anchors /\ Named /\ (pc \in {"append", "rolling"} => Under(disk, batch.first))
  BY DEF OrderParts
<1>0. /\ Segments \subseteq Nat /\ position.segment \in Segments /\ key \in BOOLEAN
      /\ \A t \in Segments : disk[t] \in File
      /\ batch.first \in Nat
  BY Numbers
<1>1. /\ pc = "append" /\ pc' \in {"written", "idle"} /\ bounds'.kills = bounds.kills
      /\ NoFault' => NoFault
      /\ UNCHANGED <<ckptFile, ckptSynced, unlinked, position, checkpoint>>
  BY DEF WriteBatch, WriteFails, Fails, Count, NoFault, memory, TypeInv, TypeOK
<1>2. BatchCells \in Seq(Cell) /\ Len(BatchCells) \in Nat
      /\ \A n \in 1 .. Len(BatchCells) : BatchCells[n] = Record(batch.first + n - 1, key)
  BY BatchCellsIds
<1>3. PICK cells \in Seq(Cell) : /\ Write(position.segment, cells)
                                 /\ \A n \in 1 .. Len(cells) : cells[n].kind = "record"
                                                               => cells[n].id = batch.first + n - 1
  <2>0. ASSUME NEW n \in 1 .. Len(BatchCells) PROVE BatchCells[n].id = batch.first + n - 1
    <3>1. BatchCells[n] = Record(batch.first + n - 1, key)
      BY <1>2
    <3>2. QED
      BY <3>1 DEF Record
  <2>1. CASE WriteBatch
    <3>1. Write(position.segment, BatchCells)
      BY <2>1 DEF WriteBatch
    <3>2. QED
      BY <1>2, <2>0, <3>1
  <2>2. CASE WriteFails
    <3>1. PICK n \in 0 .. Len(BatchCells) - 1, tail \in {<<>>, <<Torn>>} :
             Write(position.segment, SubSeq(BatchCells, 1, n) \o tail)
      BY <2>2 DEF WriteFails
    <3> DEFINE pre == SubSeq(BatchCells, 1, n)
               cells == pre \o tail
    <3>2. pre \in Seq(Cell) /\ Len(pre) = n /\ \A i \in 1 .. n : pre[i] = BatchCells[i]
      BY <1>2, PrefixOfCells
    <3>3. tail \in Seq(Cell) /\ Len(tail) \in Nat /\ \A i \in 1 .. Len(tail) : tail[i].kind # "record"
      <4>1. Torn \in Cell /\ Torn.kind # "record"
        BY DEF Torn, Cell
      <4>2. CASE tail = <<>>
        BY <4>2
      <4>3. CASE tail = <<Torn>>
        BY <4>1, <4>3
      <4>4. QED
        BY <4>2, <4>3
    <3> HIDE DEF pre
    <3>4. /\ cells \in Seq(Cell)
          /\ Len(cells) = Len(pre) + Len(tail)
          /\ \A i \in 1 .. Len(cells) : cells[i] = IF i <= Len(pre) THEN pre[i] ELSE tail[i - Len(pre)]
      BY <3>2, <3>3, ConcatProperties
    <3> HIDE DEF cells
    <3>5. ASSUME NEW i \in 1 .. Len(cells), cells[i].kind = "record"
          PROVE  cells[i].id = batch.first + i - 1
      <4>0. n \in Nat /\ i \in Nat
        BY <1>2
      <4>1. CASE i <= n
        <5>1. i \in 1 .. Len(BatchCells) /\ cells[i] = BatchCells[i]
          BY <1>2, <3>2, <3>4, <4>0, <4>1
        <5>2. QED
          BY <2>0, <5>1
      <4>2. CASE ~(i <= n)
        <5>1. i - n \in 1 .. Len(tail)
          BY <3>2, <3>3, <3>4, <4>0, <4>2
        <5>2. cells[i] = tail[i - n]
          BY <3>2, <3>4, <4>2
        <5>3. QED
          BY <3>3, <3>5, <5>1, <5>2
      <4>3. QED
        BY <4>1, <4>2
    <3>6. QED
      BY <3>1, <3>4, <3>5 DEF cells, pre
  <2>3. QED
    BY <2>1, <2>2
<1>4. WrittenTo(disk', disk, position.segment, cells)
  BY <1>0, <1>3, WriteStep
<1>5. Ordered(disk') /\ \A t \in Segments : t > position.segment => NoRecords(disk', t)
  BY <1>0, <1>1, <1>3, <1>4, WriteKeepsOrder DEF AtTop
<1>6. /\ Keeps(disk', disk) /\ disk'[position.segment].live
      /\ \A t \in Segments : disk'[t].named = disk[t].named
  BY <1>0, <1>4, WriteKeeps
<1>7. AtTop'
  BY <1>1, <1>5, <1>6 DEF AtTop
<1>8. Anchors'
  BY <1>1, <1>6, KeepsAnchors
<1>9. Named'
  <2>1. \A t \in Segments : disk'[t].live => disk[t].live \/ t = position.segment
    BY <1>4 DEF WrittenTo
  <2>2. disk[position.segment].live
    BY <1>1 DEF AtTop
  <2>3. pc' # "down" /\ pc' # "opening" /\ pc # "opening" /\ pc # "down"
    BY <1>1
  <2>4. ASSUME bounds.kills = 0, NEW s \in Segments, disk'[s].live, s < position.segment \/ s = position.segment
        PROVE  disk'[s].named
    <3>1. disk[s].live
      BY <2>1, <2>2, <2>4
    <3>2. disk[s].named
      BY <2>3, <2>4, <3>1 DEF Named
    <3>3. QED
      BY <1>6, <3>2
  <2>5. unlinked \subseteq Segments
    BY DEF TypeInv, TypeOK
  <2>6. QED
    BY <1>1, <1>6, <2>3, <2>4, <2>5 DEF Named
<1>10. QED
  BY <1>1, <1>5, <1>7, <1>8, <1>9 DEF OrderParts

\* The syncs that end an append, a release and the creation of a segment.
LEMMA OrderSync ==
  ASSUME TypeInv, TypeInv', OrderParts, Ack \/ ReleaseDone \/ Opened
  PROVE  OrderParts'
<1>. Ordered(disk) /\ AtTop /\ Anchors /\ Named /\ (pc \in {"append", "rolling"} => Under(disk, batch.first))
  BY DEF OrderParts
<1>0. /\ Segments \subseteq Nat /\ position.segment \in Segments
      /\ disk \in [Segments -> File]
  BY Numbers DEF TypeInv, TypeOK
<1>1. /\ pc \in {"written", "unlinking", "opening"} /\ pc' = "idle" /\ UNCHANGED bounds
      /\ UNCHANGED <<ckptFile, ckptSynced, checkpoint>>
      /\ position'.segment = position.segment
      /\ unlinked' \subseteq unlinked
  BY DEF Ack, ReleaseDone, Opened, memory, TypeInv, TypeOK, Position
<1>2. /\ Synced(disk', disk)
      /\ ~Ack => \A t \in Segments : disk[t].live => disk'[t].named
      /\ Ack => pc = "written"
  <2>1. CASE Ack
    <3>1. \A t \in Segments : /\ disk'[t].cells = disk[t].cells
                              /\ disk'[t].live = disk[t].live
                              /\ disk'[t].named = disk[t].named
      BY <1>0, <2>1, SyncedFields DEF Ack
    <3>2. QED
      BY <2>1, <3>1 DEF Synced, Ack
  <2>2. CASE ReleaseDone
    <3>1. \A t \in Segments : /\ disk'[t].cells = disk[t].cells
                              /\ disk'[t].live = disk[t].live
                              /\ disk'[t].named = (disk[t].named \/ disk[t].live)
      BY <1>0, <2>2, SyncDirFields DEF ReleaseDone
    <3>2. QED
      BY <2>2, <3>1 DEF Synced, ReleaseDone, Ack
  <2>3. CASE Opened
    <3> DEFINE e == [disk EXCEPT ![position.segment] = SyncAll(@)]
    <3>1. e \in [Segments -> File] /\ \A t \in Segments : /\ e[t].cells = disk[t].cells
                                                          /\ e[t].live = disk[t].live
                                                          /\ e[t].named = disk[t].named
      BY <1>0, SyncedFields
    <3>2. disk' = SyncDir(e)
      BY <2>3 DEF Opened
    <3> HIDE DEF e
    <3>3. \A t \in Segments : /\ disk'[t].cells = disk[t].cells
                              /\ disk'[t].live = disk[t].live
                              /\ disk'[t].named = (disk[t].named \/ disk[t].live)
      BY <3>1, <3>2, SyncDirFields
    <3>4. QED
      BY <2>3, <3>3 DEF Synced, Opened, Ack
  <2>4. QED
    BY <2>1, <2>2, <2>3
<1>3. Keeps(disk', disk) /\ Within(disk', disk)
  BY <1>2, SyncedKeeps
<1>4. Ordered(disk')
  BY <1>3, WithinKeeps
<1>5. AtTop'
  BY <1>0, <1>1, <1>2, <1>3, WithinKeeps DEF AtTop, Synced
<1>6. Anchors'
  BY <1>1, <1>3, KeepsAnchors DEF NoFault
<1>7. Named'
  <2>1. \A s \in Segments : disk'[s].live /\ (pc' = "down" \/ s < position'.segment \/ (s = position'.segment /\ pc' # "opening")) => bounds.kills # 0 \/ disk'[s].named
    BY <1>0, <1>1, <1>2 DEF Named, Synced
  <2>2. \A s \in unlinked' : bounds.kills # 0 \/ disk'[s].named
    <3>1. unlinked \subseteq Segments
      BY DEF TypeInv, TypeOK
    <3>2. QED
      BY <1>1, <1>2, <3>1 DEF Named, Synced
  <2>3. QED
    BY <1>1, <2>1, <2>2 DEF Named
<1>8. QED
  BY <1>1, <1>4, <1>5, <1>6, <1>7 DEF OrderParts

\* A release takes a segment below the remembered checkpoint.
LEMMA OrderRelease ==
  ASSUME TypeInv, TypeInv', OrderParts, NEW s \in Segments, Release(s)
  PROVE  OrderParts'
<1>. Ordered(disk) /\ AtTop /\ Anchors /\ Named /\ (pc \in {"append", "rolling"} => Under(disk, batch.first))
  BY DEF OrderParts
<1>0. /\ Segments \subseteq Nat
      /\ {position.segment, checkpoint.segment, ckptFile.segment, ckptSynced.segment} \subseteq Segments
      /\ disk \in [Segments -> File]
  BY Numbers DEF TypeInv, TypeOK
<1>1. /\ pc = "idle" /\ pc' = "unlinking" /\ s < checkpoint.segment /\ disk[s].live
      /\ disk' = [disk EXCEPT ![s].live = FALSE] /\ unlinked' = unlinked \cup {s}
      /\ UNCHANGED <<ckptFile, ckptSynced, position, checkpoint, bounds>>
  BY DEF Release, Releasable, memory
<1>2. /\ \A t \in Segments : disk'[t].cells = disk[t].cells /\ disk'[t].named = disk[t].named
      /\ \A t \in Segments : t # s => disk'[t] = disk[t]
      /\ ~disk'[s].live
  <2>1. disk[s] \in File /\ disk'[s] = [disk[s] EXCEPT !.live = FALSE]
    BY <1>0, <1>1
  <2>2. \A t \in Segments : t # s => disk'[t] = disk[t]
    BY <1>0, <1>1
  <2>3. disk'[s].cells = disk[s].cells /\ disk'[s].named = disk[s].named /\ ~disk'[s].live
    BY <2>1 DEF File
  <2>4. QED
    BY <2>2, <2>3
<1>3. Within(disk', disk)
  BY <1>2, SameCellsWithin
<1>4. Ordered(disk')
  BY <1>3, WithinKeeps
<1>5. s < ckptFile.segment /\ s < position.segment /\ (bounds.kills = 0 => s < ckptSynced.segment)
  BY <1>0, <1>1 DEF Anchors, Anchored
<1>6. AtTop'
  BY <1>0, <1>1, <1>2, <1>3, <1>5, WithinKeeps DEF AtTop
<1>7. ASSUME NEW p \in Position, Anchored(p), s < p.segment PROVE Anchored(p)'
  <2>1. p.segment \in Segments
    BY DEF Position
  <2>2. QED
    BY <1>0, <1>1, <1>2, <1>7, <2>1 DEF Anchored
<1>8. Anchors'
  <2>1. ckptFile \in Position /\ ckptSynced \in Position
    BY DEF TypeInv, TypeOK
  <2>2. QED
    BY <1>1, <1>5, <1>7, <2>1 DEF Anchors, Anchored, NoFault
<1>9. Named'
  <2>1. bounds.kills = 0 => disk[s].named
    BY <1>0, <1>1, <1>5 DEF Named
  <2>2. unlinked \subseteq Segments
    BY DEF TypeInv, TypeOK
  <2>3. QED
    BY <1>0, <1>1, <1>2, <2>1, <2>2 DEF Named
<1>10. QED
  BY <1>1, <1>4, <1>6, <1>8, <1>9 DEF OrderParts

\* The write a process dies in is to a live file.
LEMMA KilledFile ==
  ASSUME TypeInv, AtTop, NEW s \in Segments,
         NEW cells \in Cuts(disk[s], Len(disk[s].cells) - InFlight(s))
  PROVE  /\ disk[s].live \/ cells = disk[s].cells
         /\ \A n \in 1 .. Len(cells) : cells[n].kind = "record"
                                       => n \in 1 .. Len(disk[s].cells) /\ cells[n] = disk[s].cells[n]
<1>0. disk[s] \in File /\ Len(disk[s].cells) \in Nat
  BY Numbers
<1>1. CASE InFlight(s) = 0
  <2>1. cells \in Cuts(disk[s], Len(disk[s].cells))
    BY <1>0, <1>1
  <2>2. cells = disk[s].cells
    BY <1>0, <2>1, NothingCut
  <2>3. QED
    BY <2>2
<1>2. CASE InFlight(s) # 0
  <2>1. disk[s].live
    BY <1>2 DEF InFlight, AtTop
  <2>2. Len(disk[s].cells) - InFlight(s) \in Int
    BY <1>0, BatchCellsIds DEF InFlight
  <2>3. QED
    BY <1>0, <2>1, <2>2, CutRecords
<1>3. QED
  BY <1>1, <1>2

LEMMA OrderKill ==
  ASSUME TypeInv, TypeInv', OrderParts, Kill
  PROVE  OrderParts'
<1>. Ordered(disk) /\ AtTop /\ Anchors
  BY DEF OrderParts
<1>0. PICK s \in Segments : \E cells \in Cuts(disk[s], Len(disk[s].cells) - InFlight(s)) :
           disk' = [disk EXCEPT ![s].cells = cells]
  BY DEF Kill
<1>1. PICK cells \in Cuts(disk[s], Len(disk[s].cells) - InFlight(s)) :
           disk' = [disk EXCEPT ![s].cells = cells]
  BY <1>0
<1>2. /\ pc' = "down" /\ bounds'.kills # 0
      /\ UNCHANGED <<ckptFile, ckptSynced, unlinked>>
  BY Numbers DEF Kill, Down, Count, TypeInv, TypeOK
<1>3. /\ \A t \in Segments : t # s => disk'[t] = disk[t]
      /\ disk'[s].cells = cells /\ disk'[s].live = disk[s].live
  BY <1>1, Numbers DEF TypeInv, TypeOK, File
<1>4. Within(disk', disk)
  <2>1. ASSUME NEW t \in Segments, NEW n \in 1 .. Len(disk'[t].cells), disk'[t].cells[n].kind = "record"
        PROVE  n \in 1 .. Len(disk[t].cells) /\ disk'[t].cells[n] = disk[t].cells[n]
    BY <1>3, <2>1, KilledFile
  <2>2. QED
    BY <2>1, FilesWithin
<1>5. Anchored(ckptFile)'
  <2>1. ckptFile.segment \in Segments
    BY Numbers
  <2>2. ckptFile # START => disk'[ckptFile.segment].live
    BY <1>3, <2>1 DEF Anchors, Anchored
  <2>3. ASSUME NEW t \in Segments, ~disk'[t].live, disk'[t].cells # <<>> PROVE t < ckptFile.segment
    <3>1. ~disk[t].live /\ disk[t].cells # <<>>
      BY <1>3, <2>3, KilledFile
    <3>2. QED
      BY <3>1 DEF Anchors, Anchored
  <2>4. QED
    BY <1>2, <2>2, <2>3 DEF Anchored
<1>6. AtTop' /\ Anchors' /\ Named' /\ Ordered(disk')
  BY <1>2, <1>4, <1>5, WithinKeeps DEF AtTop, Anchors, Named
<1>7. QED
  BY <1>2, <1>6 DEF OrderParts

\* What one file is after a power loss.
Survived(g, f, back) ==
    /\ back => g.cells = f.cells /\ g.live /\ g.named = f.named
    /\ ~back => \/ /\ g.live = f.live /\ g.named = (f.named \/ f.live)
                   /\ f.cells = <<>> => g.cells = <<>>
                   /\ \A n \in 1 .. Len(g.cells) : g.cells[n].kind = "record"
                                                   => n \in 1 .. Len(f.cells) /\ g.cells[n] = f.cells[n]
                \/ g = NoFile /\ ~f.named

LEMMA SettledFields ==
  ASSUME NEW f \in File, NEW cells
  PROVE  /\ Settled(f, cells).cells = cells /\ Settled(f, cells).live = f.live
         /\ Settled(f, cells).named = (f.named \/ f.live) /\ Settled(f, cells).synced = Len(cells)
<1> DEFINE named == f.named \/ f.live
           len == Len(cells)
<1>1. Settled(f, cells) = [f EXCEPT !.cells = cells, !.synced = len, !.named = named]
  BY Zenon DEF Settled
<1> HIDE DEF named, len
<1>2. /\ Settled(f, cells).cells = cells /\ Settled(f, cells).live = f.live
      /\ Settled(f, cells).named = named /\ Settled(f, cells).synced = len
  BY <1>1 DEF File
<1>3. QED
  BY <1>2, Zenon DEF named, len

LEMMA SurvivorSurvived ==
  ASSUME NEW f \in File, NEW g \in Survivors(f)
  PROVE  Survived(g, f, FALSE)
<1>0. f.cells \in Seq(Cell) /\ Len(f.cells) \in Nat /\ f.synced \in Nat
  BY LenProperties DEF File
<1>1. CASE g = NoFile /\ ~f.named
  BY <1>1 DEF Survived
<1>2. CASE g \in {Settled(f, cells) : cells \in Cuts(f, f.synced)}
  <2>1. PICK cells \in Cuts(f, f.synced) : g = Settled(f, cells)
    BY <1>2
  <2>2. g.cells = cells /\ g.live = f.live /\ g.named = (f.named \/ f.live)
    BY <2>1, SettledFields
  <2>3. \A n \in 1 .. Len(cells) : cells[n].kind = "record" => n \in 1 .. Len(f.cells) /\ cells[n] = f.cells[n]
    BY <1>0, CutRecords
  <2>4. cells \in Seq(Cell) /\ Len(cells) <= Len(f.cells)
    BY <1>0, CutCells
  <2>5. f.cells = <<>> => cells = <<>>
    BY <1>0, <2>4, EmptySeq, LenProperties
  <2>6. QED
    BY <2>2, <2>3, <2>5 DEF Survived
<1>3. QED
  BY <1>1, <1>2 DEF Survivors

LEMMA LossSurvived ==
  ASSUME TypeInv, PowerLoss
  PROVE  \E back \in SUBSET unlinked : \A t \in Segments : Survived(disk'[t], disk[t], t \in back)
<1>0. \A t \in Segments : disk[t] \in File
  BY Numbers
<1>a. PICK s \in Segments, back \in SUBSET unlinked : \E f \in Survivors(disk[s]) :
         disk' = [t \in Segments |->
                    IF t \in back THEN [disk[t] EXCEPT !.live = TRUE]
                    ELSE IF t = s THEN f ELSE Settled(disk[t], disk[t].cells)]
  BY DEF PowerLoss
<1>1. PICK f \in Survivors(disk[s]) :
         disk' = [t \in Segments |->
                    IF t \in back THEN [disk[t] EXCEPT !.live = TRUE]
                    ELSE IF t = s THEN f ELSE Settled(disk[t], disk[t].cells)]
  BY <1>a
<1>2. ASSUME NEW t \in Segments PROVE Survived(disk'[t], disk[t], t \in back)
  <2>1. CASE t \in back
    <3>1. disk'[t] = [disk[t] EXCEPT !.live = TRUE]
      BY <1>1, <2>1
    <3>2. disk'[t].cells = disk[t].cells /\ disk'[t].live /\ disk'[t].named = disk[t].named
      BY <1>0, <3>1 DEF File
    <3>3. QED
      BY <2>1, <3>2 DEF Survived
  <2>2. CASE t \notin back /\ t = s
    BY <1>0, <1>1, <2>2, SurvivorSurvived DEF Survived
  <2>3. CASE t \notin back /\ t # s
    <3>1. disk'[t] = Settled(disk[t], disk[t].cells)
      BY <1>1, <2>3
    <3>2. disk'[t].cells = disk[t].cells /\ disk'[t].live = disk[t].live /\ disk'[t].named = (disk[t].named \/ disk[t].live)
      BY <1>0, <3>1, SettledFields
    <3>3. QED
      BY <2>3, <3>2 DEF Survived
  <2>4. QED
    BY <2>1, <2>2, <2>3
<1>3. QED
  BY <1>2

LEMMA OrderPowerLoss ==
  ASSUME TypeInv, TypeInv', OrderParts, PowerLoss, SameCrashes'
  PROVE  OrderParts'
<1>. Ordered(disk) /\ AtTop /\ Anchors /\ Named
  BY DEF OrderParts
<1>1. PICK back \in SUBSET unlinked : \A t \in Segments : Survived(disk'[t], disk[t], t \in back)
  BY LossSurvived
<1>2. /\ pc' = "down" /\ bounds'.kills = 0 /\ bounds.kills = 0 /\ unlinked' = {}
      /\ ckptFile' \in {ckptFile, ckptSynced} /\ ckptSynced' = ckptFile'
  BY Numbers DEF PowerLoss, Down, Count, TypeInv, TypeOK, SameCrashes
<1>3. Within(disk', disk)
  <2>1. ASSUME NEW t \in Segments, NEW n \in 1 .. Len(disk'[t].cells), disk'[t].cells[n].kind = "record"
        PROVE  n \in 1 .. Len(disk[t].cells) /\ disk'[t].cells[n] = disk[t].cells[n]
    <3>1. Survived(disk'[t], disk[t], t \in back)
      BY <1>1
    <3>2. disk'[t] # NoFile
      BY <2>1 DEF NoFile
    <3>3. QED
      BY <2>1, <3>1, <3>2 DEF Survived
  <2>2. QED
    BY <2>1, FilesWithin
<1>4. ASSUME NEW p \in {ckptFile, ckptSynced} PROVE Anchored(p)'
  <2>0. Anchored(p) /\ p.segment \in Segments
    BY <1>2, <1>4, Numbers DEF Anchors
  <2>1. ASSUME p # START PROVE disk'[p.segment].live /\ disk'[p.segment].named
    <3>1. disk[p.segment].live /\ disk[p.segment].named
      BY <1>2, <2>0, <2>1 DEF Anchored
    <3>2. Survived(disk'[p.segment], disk[p.segment], p.segment \in back)
      BY <1>1, <2>0
    <3>3. QED
      BY <3>1, <3>2 DEF Survived
  <2>2. ASSUME NEW t \in Segments, ~disk'[t].live, disk'[t].cells # <<>> PROVE t < p.segment
    <3>1. Survived(disk'[t], disk[t], t \in back)
      BY <1>1
    <3>2. disk'[t] # NoFile
      BY <2>2 DEF NoFile
    <3>3. ~disk[t].live /\ disk[t].cells # <<>>
      BY <2>2, <3>1, <3>2 DEF Survived
    <3>4. QED
      BY <2>0, <3>3 DEF Anchored
  <2>3. QED
    BY <1>2, <2>1, <2>2 DEF Anchored
<1>5. Anchors'
  BY <1>2, <1>4 DEF Anchors, Anchored
<1>6. Named'
  <2>1. ASSUME NEW t \in Segments, disk'[t].live PROVE disk'[t].named
    <3>1. Survived(disk'[t], disk[t], t \in back)
      BY <1>1
    <3>2. disk'[t] # NoFile
      BY <2>1 DEF NoFile
    <3>3. t \in back => disk[t].named
      BY <1>2 DEF Named
    <3>4. QED
      BY <2>1, <3>1, <3>2, <3>3 DEF Survived
  <2>2. QED
    BY <1>2, <2>1 DEF Named
<1>7. AtTop' /\ Ordered(disk')
  BY <1>2, <1>3, WithinKeeps DEF AtTop
<1>8. QED
  BY <1>2, <1>5, <1>6, <1>7 DEF OrderParts

\* A recovery reads up to the newest file with anything in it.
LEMMA NothingAfterReached ==
  ASSUME TypeInv, Anchored(ckptFile), pc = "down", NEW from \in {ckptFile, START},
         Reached(from) # {}, Orphaned(from) = {}
  PROVE  LET last == Newest(Reached(from))
         IN  /\ last \in Segments /\ last \in Nat /\ disk[last].live
             /\ from.segment <= last
             /\ ckptFile.segment <= last
             /\ \A s \in Segments : s > last => ~disk[s].live /\ disk[s].cells = <<>>
<1> DEFINE last == Newest(Reached(from))
<1>0. /\ Segments \subseteq Nat /\ ckptFile.segment \in Segments /\ 0 \in Segments
      /\ ckptFile.segment \in Nat
  BY Numbers, WalAssumption DEF Segments
<1>1. Reached(from) = Scanned(from) /\ Scanned(from) \subseteq Segments
  BY DEF Orphaned, Reached, Scanned, Live
<1>2. last \in Scanned(from) /\ \A t \in Scanned(from) : t <= last
  BY <1>1, NewestExists
<1> HIDE DEF last
<1>3. last \in Segments /\ last \in Nat /\ disk[last].live /\ from.segment <= last
  BY <1>0, <1>1, <1>2 DEF Scanned, Live
<1>4. ckptFile.segment <= last
  <2>1. CASE ckptFile = START
    BY <1>3, <2>1 DEF START
  <2>2. CASE ckptFile # START
    <3>1. ckptFile.segment \in Live
      BY <1>0, <2>2 DEF Anchored, Live
    <3>2. from.segment <= ckptFile.segment
      BY <1>0 DEF START
    <3>3. ckptFile.segment \in Scanned(from)
      BY <3>1, <3>2 DEF Scanned
    <3>4. QED
      BY <1>2, <3>3
  <2>3. QED
    BY <2>1, <2>2
<1>5. ASSUME NEW s \in Segments, s > last PROVE ~disk[s].live /\ disk[s].cells = <<>>
  <2>0. s \in Nat /\ from.segment \in Nat
    BY <1>0 DEF START
  <2>1. s \notin Scanned(from) /\ from.segment <= s
    BY <1>2, <1>3, <1>5, <2>0
  <2>2. ~disk[s].live
    BY <2>1 DEF Scanned, Live
  <2>3. ~(s < ckptFile.segment)
    BY <1>0, <1>3, <1>4, <1>5, <2>0
  <2>4. QED
    BY <2>2, <2>3 DEF Anchored
<1>6. QED
  BY <1>3, <1>4, <1>5 DEF last

LEMMA OrderRecover ==
  ASSUME TypeInv, TypeInv', OrderParts, NEW from \in {ckptFile, START}, Recover(from)
  PROVE  OrderParts'
<1>. Ordered(disk) /\ AtTop /\ Anchors /\ Named
  BY DEF OrderParts
<1> DEFINE last == Newest(Reached(from))
           repaired == Repair(from)
           fresh == NeedsFreshSegment(repaired[last])
<1>0. /\ Segments \subseteq Nat /\ ckptFile.segment \in Segments /\ key \in BOOLEAN
      /\ from \in Position /\ unlinked \subseteq Segments
      /\ nextId \in Nat \ {0}
  <2>1. 0 \in Segments /\ START \in Position
    BY WalAssumption DEF START, Position, Segments
  <2>2. ckptFile \in Position /\ unlinked \subseteq Segments
    BY DEF TypeInv, TypeOK
  <2>3. QED
    BY <2>1, <2>2, Numbers
<1>1. /\ pc = "down" /\ pc' = IF fresh THEN "opening" ELSE "idle"
      /\ fresh => last < MaxSegment
      /\ disk' = IF fresh THEN [repaired EXCEPT ![last + 1] = Written(@, <<Header(key)>>)] ELSE repaired
      /\ position'.segment = IF fresh THEN last + 1 ELSE last
      /\ checkpoint' = ckptFile
      /\ UNCHANGED <<ckptFile, ckptSynced, unlinked, bounds>>
      /\ Reached(from) # {} /\ Orphaned(from) = {}
  BY DEF Recover
<1>2. /\ last \in Segments /\ last \in Nat /\ disk[last].live
      /\ ckptFile.segment <= last
      /\ \A s \in Segments : s > last => ~disk[s].live /\ disk[s].cells = <<>>
  BY <1>1, NothingAfterReached DEF Anchors
<1>3. /\ Within(repaired, disk)
      /\ \A s \in Segments : repaired[s].live = disk[s].live /\ repaired[s].named = disk[s].named
      /\ \A s \in Segments : ~disk[s].live => repaired[s] = disk[s]
  BY <1>0, RepairWithin
<1>4. \A s \in Segments : repaired[s] \in File
  BY <1>0, RepairType, BelowIsFile
<1> HIDE DEF last, repaired, fresh
<1>5. fresh => last + 1 \in Segments
  BY <1>1, <1>2, WalAssumption DEF Segments
<1>6. fresh => WrittenTo(disk', repaired, last + 1, <<Header(key)>>)
  <2>1. repaired = [s \in Segments |-> repaired[s]]
    BY DEF repaired, Repair
  <2> SUFFICES ASSUME fresh PROVE WrittenTo(disk', repaired, last + 1, <<Header(key)>>)
    OBVIOUS
  <2>2. disk' = [t \in Segments |-> IF t = last + 1 THEN Written(repaired[t], <<Header(key)>>) ELSE repaired[t]]
    BY <1>1, <2>1
  <2>3. QED
    BY <1>0, <1>4, <1>5, <2>2, HeaderCell, WriteExtends
<1>7. Within(disk', repaired) /\ Keeps(disk', repaired) /\ \A s \in Segments : disk'[s].named = repaired[s].named
  <2>1. CASE fresh
    BY <1>0, <1>5, <1>6, <2>1, HeaderWithin, WriteKeeps
  <2>2. CASE ~fresh
    BY <1>1, <2>2, SameCellsWithin DEF Keeps
  <2>3. QED
    BY <2>1, <2>2
<1>8. Keeps(repaired, disk)
  BY <1>3 DEF Keeps
<1>9. Ordered(disk')
  BY <1>3, <1>7, WithinKeeps
<1>10. AtTop'
  <2>1. disk'[position'.segment].live
    <3>1. CASE fresh
      BY <1>1, <1>6, <3>1 DEF WrittenTo, Extends
    <3>2. CASE ~fresh
      BY <1>1, <1>2, <1>3, <3>2
    <3>3. QED
      BY <3>1, <3>2
  <2>2. ASSUME NEW s \in Segments, s > position'.segment PROVE NoRecords(disk', s)
    <3>0. s \in Nat
      BY <1>0
    <3>1. s > last
      BY <1>1, <1>2, <2>2, <3>0
    <3>2. disk[s].cells = <<>>
      BY <1>2, <3>1
    <3>3. NoRecords(disk, s)
      BY <3>2 DEF NoRecords, RecordAt
    <3>4. QED
      BY <1>3, <1>7, <3>3, WithinKeeps
  <2>3. pc' # "rolling"
    BY <1>1
  <2>4. QED
    BY <2>1, <2>2, <2>3 DEF AtTop
<1>11. ASSUME Anchored(ckptFile) PROVE Anchored(ckptFile)'
  <2>1. ckptFile # START => disk'[ckptFile.segment].live /\ (bounds.kills = 0 => disk'[ckptFile.segment].named)
    BY <1>0, <1>3, <1>7, <1>11 DEF Anchored, Keeps
  <2>2. \A s \in Segments : ~disk'[s].live /\ disk'[s].cells # <<>> => s < ckptFile.segment
    BY <1>7, <1>8, <1>11 DEF Anchored, Keeps
  <2>3. checkpoint'.segment <= ckptFile.segment /\ ckptFile.segment <= position'.segment
    <3>0. ckptFile.segment \in Nat
      BY <1>0
    <3>1. ckptFile.segment <= ckptFile.segment
      BY <3>0
    <3>2. ckptFile.segment <= position'.segment
      BY <1>1, <1>2, <3>0
    <3>3. QED
      BY <1>1, <3>1, <3>2
  <2>4. QED
    BY <1>1, <2>1, <2>2, <2>3 DEF Anchored
<1>12. Anchors'
  BY <1>1, <1>11 DEF Anchors, Anchored, NoFault
<1>13. Named'
  <2>1. ASSUME bounds.kills = 0, NEW s \in Segments, disk'[s].live,
               s < position'.segment \/ (s = position'.segment /\ pc' # "opening")
        PROVE  disk'[s].named
    <3>1. ~(fresh /\ s = last + 1)
      BY <1>1, <1>2, <2>1
    <3>2. disk'[s] = repaired[s]
      <4>1. CASE fresh
        BY <1>6, <3>1, <4>1 DEF WrittenTo
      <4>2. CASE ~fresh
        BY <1>1, <4>2
      <4>3. QED
        BY <4>1, <4>2
    <3>3. disk[s].live
      BY <1>3, <2>1, <3>2
    <3>4. disk[s].named
      BY <1>1, <2>1, <3>3 DEF Named
    <3>5. QED
      BY <1>3, <3>2, <3>4
  <2>2. pc' # "down"
    BY <1>1
  <2>3. ASSUME bounds.kills = 0, NEW s \in unlinked' PROVE disk'[s].named
    BY <1>0, <1>1, <1>3, <1>7, <2>3 DEF Named
  <2>4. QED
    BY <1>1, <2>1, <2>2, <2>3 DEF Named
<1>14. QED
  BY <1>1, <1>9, <1>10, <1>12, <1>13 DEF OrderParts

\* The recoveries that open an empty directory, or stop.
LEMMA OrderStart ==
  ASSUME TypeInv, TypeInv', OrderParts, RecoverFresh \/ \E from \in {ckptFile, START} : RecoverRefuses(from)
  PROVE  OrderParts'
<1>. Ordered(disk) /\ AtTop /\ Anchors /\ Named
  BY DEF OrderParts
<1>0. /\ Segments \subseteq Nat /\ ckptFile.segment \in Segments /\ ckptSynced.segment \in Segments
      /\ key \in BOOLEAN /\ 0 \in Segments /\ unlinked \subseteq Segments
  <2>1. 0 \in Segments
    BY WalAssumption DEF Segments
  <2>2. unlinked \subseteq Segments
    BY DEF TypeInv, TypeOK
  <2>3. QED
    BY <2>1, <2>2, Numbers
<1>1. CASE RecoverFresh
  <2>1. /\ pc = "down" /\ pc' = "opening" /\ Live = {} /\ Write(0, <<Header(key)>>)
        /\ position'.segment = 0 /\ checkpoint' = ckptFile
        /\ UNCHANGED <<ckptFile, ckptSynced, unlinked, bounds>>
    BY <1>1 DEF RecoverFresh, START
  <2>2. \A s \in Segments : ~disk[s].live
    BY <2>1 DEF Live
  <2>3. ckptFile = START
    BY <1>0, <2>2 DEF Anchors, Anchored
  <2>4. \A s \in Segments : disk[s].cells = <<>>
    <3>1. \A s \in Segments : ~(s < 0)
      BY <1>0
    <3>2. QED
      BY <2>2, <2>3, <3>1 DEF Anchors, Anchored, START
  <2>5. WrittenTo(disk', disk, 0, <<Header(key)>>)
    BY <1>0, <2>1, HeaderCell, WriteStep
  <2>6. /\ Within(disk', disk) /\ disk'[0].live
        /\ \A t \in Segments : disk'[t].named = disk[t].named
        /\ \A t \in Segments : t # 0 => disk'[t] = disk[t]
    <3>1. Within(disk', disk)
      BY <1>0, <2>5, HeaderWithin
    <3>2. disk'[0].live /\ \A t \in Segments : disk'[t].named = disk[t].named
      BY <2>5 DEF WrittenTo, Extends
    <3>3. QED
      BY <2>5, <3>1, <3>2 DEF WrittenTo
  <2>7. Ordered(disk')
    BY <2>6, WithinKeeps
  <2>8. AtTop'
    <3>1. \A s \in Segments : NoRecords(disk, s)
      BY <2>4 DEF NoRecords, RecordAt
    <3>2. \A s \in Segments : NoRecords(disk', s)
      BY <2>6, <3>1, WithinKeeps
    <3>3. QED
      BY <2>1, <2>6, <3>2 DEF AtTop
  <2>9. Anchored(START)'
    <3>1. \A s \in Segments : disk'[s].live \/ disk'[s].cells = <<>>
      BY <2>4, <2>6
    <3>2. checkpoint'.segment <= START.segment /\ START.segment <= position'.segment
      BY <2>1, <2>3 DEF START
    <3>3. QED
      BY <3>1, <3>2 DEF Anchored
  <2>10. Anchors'
    BY <2>1, <2>3, <2>9 DEF Anchors, Anchored
  <2>11. Named'
    <3>1. \A s \in Segments : ~(s < 0)
      BY <1>0
    <3>2. QED
      BY <1>0, <2>1, <2>6, <3>1 DEF Named
  <2>12. QED
    BY <2>1, <2>7, <2>8, <2>10, <2>11 DEF OrderParts
<1>2. ASSUME NEW from \in {ckptFile, START}, RecoverRefuses(from) PROVE OrderParts'
  <2>1. /\ pc = "down" /\ pc' = "down" /\ disk' = Repair(from)
        /\ UNCHANGED <<ckptFile, ckptSynced, unlinked, position, checkpoint, batch, bounds>>
    BY <1>2 DEF RecoverRefuses, memory
  <2>2. from \in Position
    BY <1>0 DEF TypeInv, TypeOK, START, Position
  <2>3. /\ Within(disk', disk)
        /\ \A s \in Segments : disk'[s].live = disk[s].live /\ disk'[s].named = disk[s].named
        /\ \A s \in Segments : ~disk[s].live => disk'[s] = disk[s]
    BY <2>1, <2>2, RepairWithin
  <2>4. Ordered(disk') /\ AtTop'
    BY <2>1, <2>3, WithinKeeps DEF AtTop
  <2>5. Anchors'
    BY <1>0, <2>1, <2>3 DEF Anchors, Anchored
  <2>6. Named'
    BY <1>0, <2>1, <2>3 DEF Named
  <2>7. QED
    BY <2>1, <2>4, <2>5, <2>6 DEF OrderParts
<1>3. QED
  BY <1>1, <1>2

\* Crashes are never forgotten.
LEMMA CrashesStay ==
  ASSUME TypeInv, [Next]_vars
  PROVE  /\ SameCrashes' => SameCrashes
         /\ OneKindOfCrash' => OneKindOfCrash
         /\ OnlyPowerLosses' => OnlyPowerLosses
<1>0. bounds \in [{"kills", "losses", "rekeys", "faults"} -> Nat]
  BY DEF TypeInv, TypeOK
<1>1. \/ UNCHANGED bounds
      \/ \E what \in {"kills", "losses", "rekeys", "faults"} : bounds' = [bounds EXCEPT ![what] = @ + 1]
  BY DEF Next, vars, Submit, Roll, RollDone, WriteBatch, Ack, WriteFails, SyncFails, RollFails, DirSyncFails, Fails, Count,
     CheckpointRename, CheckpointDone, Release, ReleaseDone, Kill, PowerLoss, Rekey, RecoverFresh, RecoverAny,
     RecoverRefuses, Recover, Opened
<1>2. bounds'.kills >= bounds.kills /\ bounds'.losses >= bounds.losses /\ bounds'.faults >= bounds.faults
  BY <1>0, <1>1
<1>3. bounds'.kills \in Nat /\ bounds'.losses \in Nat /\ bounds'.faults \in Nat
  BY <1>0, <1>1
<1>4. QED
  BY <1>0, <1>2, <1>3 DEF SameCrashes, OneKindOfCrash, OnlyPowerLosses, NoFault

LEMMA OrderInvStep == TypeInv /\ TypeInv' /\ OrderInv /\ [Next]_vars => OrderInv'
<1> SUFFICES ASSUME TypeInv, TypeInv', OrderInv, [Next]_vars, SameCrashes' PROVE OrderParts'
  BY DEF OrderInv, OrderParts
<1>1. OrderParts
  BY CrashesStay DEF OrderInv, OrderParts
<1>2. CASE UNCHANGED vars
  BY <1>1, <1>2 DEF vars, files, memory, OrderParts, AtTop, Anchors, Anchored, Named, NoFault
<1>3. CASE Next
  BY <1>1, <1>3, OrderMemory, OrderRoll, OrderWrite, OrderSync, OrderRelease, OrderKill, OrderPowerLoss,
     OrderRecover, OrderStart DEF Next, RecoverAny
<1>4. QED
  BY <1>2, <1>3

LEMMA TypeInvStep == TypeInv /\ [Next]_vars => TypeInv'
<1> SUFFICES ASSUME TypeInv, [Next]_vars PROVE TypeInv'
  OBVIOUS
<1>1. CASE UNCHANGED vars
  BY <1>1 DEF vars, files, memory, history, TypeInv, TypeOK
<1>2. CASE Next
  BY <1>2, AppendTypeInv, FaultTypeInv, CheckpointTypeInv, ReleaseTypeInv, CrashTypeInv, RecoverTypeInv DEF Next
<1>3. QED
  BY <1>1, <1>2

LEMMA OrderInvGivesInOrder == TypeInv /\ OrderInv => InOrder
<1> SUFFICES ASSUME TypeInv, SameCrashes, Ordered(disk),
                    NEW s \in Segments, NEW t \in Segments,
                    NEW n \in 2 .. Len(disk[s].cells), NEW m \in 2 .. Len(disk[t].cells),
                    s < t \/ (s = t /\ n < m), Decodes(disk[s], n), Decodes(disk[t], m)
             PROVE  disk[s].cells[n].id < disk[t].cells[m].id
  BY DEF OrderInv, InOrder
<1>1. Len(disk[s].cells) \in Nat /\ Len(disk[t].cells) \in Nat
  BY Numbers
<1>2. n \in 1 .. Len(disk[s].cells) /\ m \in 1 .. Len(disk[t].cells)
  BY <1>1
<1>3. RecordAt(disk, s, n) /\ RecordAt(disk, t, m)
  BY <1>2 DEF Decodes, RecordAt
<1>4. QED
  BY <1>2, <1>3 DEF Ordered

-----------------------------------------------------------------------------
(* What is readable *)

\* A scan from the header gets to cell k.
Readable(f, k) == ~HeaderIncomplete(f) /\ k \in 1 .. Len(f.cells) /\ Scans(f, 1, k)
Whole(f) == Readable(f, Len(f.cells))

\* A file a crash cut: its last cell, or its header, may be torn or gone.
Frayed(f) ==
    f.live /\ \/ HeaderIncomplete(f) /\ Len(f.cells) <= 1
              \/ ~HeaderIncomplete(f) /\ Scans(f, 1, Len(f.cells) - 1)

NewFile == [cells |-> <<Header(key)>>, synced |-> 0, named |-> FALSE, live |-> TRUE]
NoneAbove(s) == \A t \in Segments : t > s => disk[t] = NoFile

\* Only the last file, and only while the process is down, is ever damaged.
FilesWhole ==
    \A s \in Segments : disk[s] # NoFile =>
        Whole(disk[s]) \/ (pc = "down" /\ Frayed(disk[s]) /\ NoneAbove(s))

\* The batch's cells lie after the position, and nothing else does.
BatchAfter(f, start) ==
    /\ Len(f.cells) = start + Len(BatchCells)
    /\ \A j \in 1 .. Len(BatchCells) : f.cells[start + j] = BatchCells[j]

\* The process appends to the end of the last file, sealed as its key says.
ActiveFile ==
    pc # "down" =>
      LET f == disk[position.segment]
      IN  /\ f # NoFile
          /\ f.cells[1].sealed = key
          /\ pc = "opening" => f = NewFile
          /\ IF pc = "rolling"
             THEN disk[position.segment + 1] = NewFile /\ NoneAbove(position.segment + 1)
             ELSE NoneAbove(position.segment)
          /\ IF pc = "written" THEN BatchAfter(f, position.offset) ELSE Len(f.cells) = position.offset

\* What was promised or returned precedes the batch in progress.
BatchInv ==
    pc \in {"append", "rolling", "written"} =>
      batch.first <= batch.last /\ \A i \in acked \cup seen : i < batch.first

\* A checkpoint's position can be read from the header on, and the process is
\* past it.
Whereabouts(p) ==
    /\ p # START => Readable(disk[p.segment], p.offset)
    /\ pc # "down" /\ p.segment = position.segment => p.offset <= position.offset
    /\ pc = "opening" /\ p # START => p.segment # position.segment
Checkpoints ==
    /\ Whereabouts(ckptFile)
    /\ bounds.kills = 0 => Whereabouts(ckptSynced)
    /\ \A s \in unlinked : ~disk[s].live /\ disk[s] # NoFile

HeldAt(f, n, i) == Readable(f, n) /\ n >= 2 /\ f.cells[n].id = i
Held(d) == \A i \in acked \cup seen : \E s \in Segments : \E n \in 1 .. Len(d[s].cells) : HeldAt(d[s], n, i)

\* All that a power loss may take is the write in progress.
Settling(s) ==
    \/ disk[s] = NoFile
    \/ disk[s].named /\ disk[s].synced = Len(disk[s].cells)
    \/ pc = "written" /\ s = position.segment /\ disk[s].named /\ disk[s].synced = position.offset
    \/ pc = "rolling" /\ s = position.segment + 1
    \/ pc = "opening" /\ s = position.segment

CrashParts ==
    /\ FilesWhole
    /\ ActiveFile
    /\ BatchInv
    /\ Checkpoints
    /\ Held(disk)
    /\ bounds.kills = 0 => \A s \in Segments : Settling(s)
    /\ ~refused
CrashInv == OneKindOfCrash => CrashParts

LEMMA InitCrashInv == Init => CrashInv
<1> SUFFICES ASSUME Init PROVE CrashParts
  BY DEF CrashInv
<1>1. pc = "down" /\ acked = {} /\ seen = {} /\ refused = FALSE /\ unlinked = {}
      /\ ckptFile = START /\ ckptSynced = START /\ \A s \in Segments : disk[s] = NoFile
  BY DEF Init
<1>2. FilesWhole /\ ActiveFile /\ BatchInv /\ Checkpoints
  BY <1>1 DEF FilesWhole, ActiveFile, BatchInv, Checkpoints, Whereabouts
<1>3. Held(disk) /\ \A s \in Segments : Settling(s)
  BY <1>1 DEF Held, Settling
<1>4. QED
  BY <1>1, <1>2, <1>3 DEF CrashParts

\* The first k cells of file g are file f's.
Prefix(g, f, k) == k <= Len(f.cells) /\ k <= Len(g.cells) /\ \A n \in 1 .. k : g.cells[n] = f.cells[n]

LEMMA ReadablePrefix ==
  ASSUME NEW f \in File, NEW g \in File, NEW k \in Nat, Prefix(g, f, k),
         NEW n \in Nat, n <= k, Readable(f, n)
  PROVE  Readable(g, n) /\ g.cells[n] = f.cells[n]
<1>1. Len(f.cells) \in Nat /\ Len(g.cells) \in Nat
  BY LenProperties DEF File
<1>2. n >= 1 /\ n <= Len(g.cells) /\ 1 \in 1 .. k
  BY <1>1 DEF Readable, Prefix
<1>3. g.cells[1] = f.cells[1] /\ g.cells[n] = f.cells[n]
  BY <1>1, <1>2 DEF Prefix
<1>4. g.cells # <<>>
  BY <1>1, <1>2
<1>5. \A j \in 2 .. n : Decodes(f, j) => Decodes(g, j)
  <2> TAKE j \in 2 .. n
  <2>1. j \in 1 .. k
    BY <1>2
  <2>2. g.cells[j] = f.cells[j]
    BY <2>1 DEF Prefix
  <2>3. QED
    BY <1>3, <2>2 DEF Decodes
<1>6. ~HeaderIncomplete(g)
  BY <1>3, <1>4 DEF Readable, HeaderIncomplete
<1>7. QED
  BY <1>1, <1>2, <1>3, <1>5, <1>6 DEF Readable, Scans

LEMMA HeldPrefix ==
  ASSUME NEW f \in File, NEW g \in File, NEW k \in Nat, Prefix(g, f, k),
         NEW n \in Nat, n <= k, NEW i, HeldAt(f, n, i)
  PROVE  n \in 1 .. Len(g.cells) /\ HeldAt(g, n, i)
<1>1. Readable(g, n) /\ g.cells[n] = f.cells[n]
  BY ReadablePrefix DEF HeldAt
<1>2. QED
  BY <1>1 DEF HeldAt, Readable

LEMMA SameCellsPrefix ==
  ASSUME NEW f \in File, NEW g \in File, g.cells = f.cells
  PROVE  Prefix(g, f, Len(f.cells)) /\ Len(f.cells) \in Nat /\ (Whole(f) <=> Whole(g))
<1>1. Len(f.cells) \in Nat
  BY LenProperties DEF File
<1>2. QED
  BY <1>1 DEF Prefix, Whole, Readable, HeaderIncomplete, Scans, Decodes

LEMMA ReadableDown ==
  ASSUME NEW f \in File, NEW n, Readable(f, n), NEW m \in 1 .. n
  PROVE  Readable(f, m)
<1>1. Len(f.cells) \in Nat
  BY LenProperties DEF File
<1>2. QED
  BY <1>1 DEF Readable, Scans

LEMMA NoFileFacts ==
  /\ NoFile \in File /\ Len(NoFile.cells) = 0 /\ NoFile.cells = <<>>
  /\ ~NoFile.live /\ ~NoFile.named /\ NoFile.synced = 0
  /\ \A k : ~Readable(NoFile, k)
<1>1. <<>> \in Seq(Cell)
  BY EmptySeq
<1>2. QED
  BY <1>1 DEF NoFile, File, Readable

LEMMA SameFile ==
  ASSUME NEW f \in File, NEW g \in File,
         f.cells = g.cells, f.synced = g.synced, f.named <=> g.named, f.live <=> g.live
  PROVE  f = g
<1>1. f.named = g.named /\ f.live = g.live
  BY Zenon DEF File
<1>2. QED
  BY <1>1 DEF File

LEMMA NewFileFacts ==
  ASSUME key \in BOOLEAN
  PROVE  /\ NewFile \in File /\ NewFile # NoFile /\ NewFile.cells = <<Header(key)>> /\ Len(NewFile.cells) = 1
         /\ NewFile.live /\ ~NewFile.named /\ NewFile.synced = 0
         /\ NewFile.cells[1].sealed = key
         /\ Whole(NewFile)
         /\ \A n \in 1 .. Len(NewFile.cells) : \A i : ~HeldAt(NewFile, n, i)
<1>1. <<Header(key)>> \in Seq(Cell) /\ Len(<<Header(key)>>) = 1 /\ <<Header(key)>>[1] = Header(key)
  BY HeaderCell
<1>2. /\ NewFile.cells = <<Header(key)>> /\ NewFile.live /\ ~NewFile.named /\ NewFile.synced = 0
  BY DEF NewFile
<1>3. NewFile \in File
  BY <1>1 DEF NewFile, File
<1>4. NewFile # NoFile
  BY <1>2 DEF NoFile
<1>5. Header(key).sealed = key /\ Header(key).kind = "header"
  BY DEF Header
<1>6. Whole(NewFile)
  <2>1. ~HeaderIncomplete(NewFile)
    BY <1>1, <1>2, <1>5 DEF HeaderIncomplete
  <2>2. QED
    BY <1>1, <1>2, <2>1 DEF Whole, Readable, Scans
<1>7. \A n \in 1 .. Len(NewFile.cells) : \A i : ~HeldAt(NewFile, n, i)
  BY <1>1, <1>2 DEF HeldAt
<1>8. QED
  BY <1>1, <1>2, <1>3, <1>4, <1>5, <1>6, <1>7

\* A whole file cut after a cell it keeps, or inside one, is whole or frayed.
LEMMA CutIsFrayed ==
  ASSUME NEW f \in File, Whole(f), NEW kept \in Nat \ {0}, kept <= Len(f.cells),
         NEW cells \in Cuts(f, kept), NEW g \in File, g.cells = cells, g.live
  PROVE  Prefix(g, f, kept) /\ (Whole(g) \/ Frayed(g))
<1>0. Len(f.cells) \in Nat /\ Len(cells) \in Nat /\ cells \in Seq(Cell)
  BY CutCells, LenProperties DEF File
<1>1. kept <= Len(cells) /\ Len(cells) <= Len(f.cells) /\ \A n \in 1 .. kept : cells[n] = f.cells[n]
  BY CutCells
<1>2. Prefix(g, f, kept)
  BY <1>1 DEF Prefix
<1>3. Readable(f, kept)
  BY <1>0, ReadableDown DEF Whole
<1>4. ~HeaderIncomplete(g)
  BY <1>2, <1>3, ReadablePrefix DEF Readable
<1> DEFINE k == Len(cells)
<1>5. \A n \in 1 .. k - 1 : cells[n] = f.cells[n]
  BY CutCells
<1>6. Prefix(g, f, k - 1)
  BY <1>0, <1>1, <1>5 DEF Prefix
<1>6a. k \in Nat /\ k >= 1 /\ k <= Len(f.cells) /\ Len(g.cells) = k
  BY <1>0, <1>1
<1> HIDE DEF k
<1>7. CASE k = 1
  <2>1. 1 + 1 .. Len(g.cells) - 1 = {}
    BY <1>6a, <1>7
  <2>2. Scans(g, 1, Len(g.cells) - 1)
    BY <2>1 DEF Scans
  <2>3. QED
    BY <1>2, <1>4, <2>2 DEF Frayed
<1>8. CASE k # 1
  <2>1. k - 1 \in 1 .. Len(f.cells) /\ k - 1 \in Nat
    BY <1>0, <1>6a, <1>8
  <2>2. Readable(f, k - 1)
    BY <2>1, ReadableDown DEF Whole
  <2>3. Readable(g, k - 1)
    BY <1>6, <2>1, <2>2, ReadablePrefix
  <2>4. Frayed(g)
    BY <1>4, <1>6a, <2>3 DEF Frayed, Readable
  <2>5. QED
    BY <1>2, <2>4
<1>9. QED
  BY <1>2, <1>7, <1>8

\* A header cut short.
LEMMA HeaderCut ==
  ASSUME NEW f \in File, NEW k \in BOOLEAN, f.cells = <<Header(k)>>,
         NEW cells \in Cuts(f, 0), NEW g \in File, g.cells = cells, g.live
  PROVE  Whole(g) \/ Frayed(g)
<1>0. <<Header(k)>> \in Seq(Cell) /\ Len(f.cells) = 1 /\ f.cells[1] = Header(k)
  BY HeaderCell
<1>1. cells \in Seq(Cell) /\ Len(cells) <= 1 /\ Len(cells) \in Nat
  BY <1>0, CutCells, LenProperties
<1>2. QED
  BY <1>1 DEF Frayed, Scans

-----------------------------------------------------------------------------
(* CrashInv is inductive *)

\* The disk's files hold what they held, and none appears.
Quiet == \A t \in Segments : disk'[t].cells = disk[t].cells /\ (disk[t] = NoFile => disk'[t] = NoFile)

\* Files only grow.
Grows == \A t \in Segments : Prefix(disk'[t], disk[t], Len(disk[t].cells))

LEMMA HeldGrows ==
  ASSUME TypeInv, TypeInv', Held(disk), Grows, acked' = acked, seen' = seen
  PROVE  Held(disk)'
<1> SUFFICES ASSUME NEW i \in acked \cup seen
             PROVE  \E s \in Segments : \E n \in 1 .. Len(disk'[s].cells) : HeldAt(disk'[s], n, i)
  BY DEF Held
<1>1. PICK s \in Segments : \E n \in 1 .. Len(disk[s].cells) : HeldAt(disk[s], n, i)
  BY DEF Held
<1>2. PICK n \in 1 .. Len(disk[s].cells) : HeldAt(disk[s], n, i)
  BY <1>1
<1>3. disk[s] \in File /\ disk'[s] \in File /\ Len(disk[s].cells) \in Nat
  BY Numbers DEF TypeInv, TypeOK
<1>4. n \in Nat /\ n <= Len(disk[s].cells)
  BY <1>3
<1>5. n \in 1 .. Len(disk'[s].cells) /\ HeldAt(disk'[s], n, i)
  BY <1>2, <1>3, <1>4, HeldPrefix DEF Grows
<1>6. QED
  BY <1>5

LEMMA QuietKeeps ==
  ASSUME TypeInv, TypeInv', FilesWhole, Held(disk), Quiet, pc # "down", acked' = acked, seen' = seen
  PROVE  FilesWhole' /\ Held(disk)'
<1>0. \A t \in Segments : disk[t] \in File /\ disk'[t] \in File
  BY DEF TypeInv, TypeOK
<1>1. FilesWhole'
  <2>1. ASSUME NEW t \in Segments, disk'[t] # NoFile PROVE Whole(disk'[t])
    <3>1. Whole(disk[t])
      BY <2>1 DEF FilesWhole, Quiet
    <3>2. QED
      BY <1>0, <3>1, SameCellsPrefix DEF Quiet
  <2>2. QED
    BY <2>1 DEF FilesWhole
<1>2. Held(disk)'
  <2>1. Grows
    BY <1>0, SameCellsPrefix DEF Quiet, Grows
  <2>2. QED
    BY <2>1, HeldGrows
<1>3. QED
  BY <1>1, <1>2

\* A checkpoint stays readable where files only grow and the process does not go
\* back.
LEMMA GrowsWhereabouts ==
  ASSUME TypeInv, TypeInv', NEW p \in Position, Whereabouts(p), Grows,
         pc # "down", pc' # "opening",
         \/ position'.segment = position.segment /\ position'.offset >= position.offset
         \/ p.segment # position'.segment
  PROVE  Whereabouts(p)'
<1>0. /\ p.offset \in Nat /\ position.offset \in Nat /\ position'.offset \in Nat
      /\ p.segment \in Segments /\ disk[p.segment] \in File /\ disk'[p.segment] \in File
      /\ Len(disk[p.segment].cells) \in Nat
  BY Numbers DEF TypeInv, TypeOK, Position
<1>1. ASSUME p # START PROVE Readable(disk'[p.segment], p.offset)
  <2>1. Readable(disk[p.segment], p.offset)
    BY <1>1 DEF Whereabouts
  <2>2. p.offset <= Len(disk[p.segment].cells)
    BY <1>0, <2>1 DEF Readable
  <2>3. Prefix(disk'[p.segment], disk[p.segment], Len(disk[p.segment].cells))
    BY <1>0 DEF Grows
  <2>4. QED
    BY <1>0, <2>1, <2>2, <2>3, ReadablePrefix
<1>2. p.segment = position'.segment => p.offset <= position'.offset
  BY <1>0 DEF Whereabouts
<1>3. QED
  BY <1>1, <1>2 DEF Whereabouts

LEMMA GrowsCheckpoints ==
  ASSUME TypeInv, TypeInv', Checkpoints, Grows, UNCHANGED <<ckptFile, ckptSynced, bounds>>,
         pc # "down", pc' # "opening",
         position'.segment = position.segment /\ position'.offset >= position.offset,
         \A s \in unlinked' : ~disk'[s].live /\ disk'[s] # NoFile
  PROVE  Checkpoints'
<1>1. ckptFile \in Position /\ ckptSynced \in Position
  BY DEF TypeInv, TypeOK
<1>2. \A p \in Position : Whereabouts(p) => Whereabouts(p)'
  BY GrowsWhereabouts
<1>3. QED
  BY <1>1, <1>2 DEF Checkpoints, Whereabouts

\* The steps that leave the segment files alone.
LEMMA CrashMemory ==
  ASSUME TypeInv, TypeInv', CrashParts, OrderParts,
         (\E n \in 1 .. MaxBatch : Submit(n)) \/ CheckpointRename \/ CheckpointDone
  PROVE  CrashParts'
<1>. FilesWhole /\ ActiveFile /\ BatchInv /\ Checkpoints /\ Held(disk) /\ ~refused
     /\ (bounds.kills = 0 => \A s \in Segments : Settling(s))
  BY DEF CrashParts
<1>0. /\ UNCHANGED <<disk, unlinked, acked, seen, refused, bounds, position, key>>
      /\ pc \in {"idle", "renamed"} /\ pc' \in {"append", "renamed", "idle"}
  BY DEF Submit, CheckpointRename, CheckpointDone, files, memory, history
<1>1. FilesWhole' /\ Held(disk)'
  BY <1>0, QuietKeeps DEF Quiet
<1>2. ActiveFile'
  BY <1>0 DEF ActiveFile, NoneAbove, NewFile
<1>3. BatchInv'
  <2>1. CASE \E n \in 1 .. MaxBatch : Submit(n)
    <3>1. PICK n \in 1 .. MaxBatch : Submit(n)
      BY <2>1
    <3>2. nextId \in Nat /\ n \in Nat /\ n >= 1 /\ acked \subseteq 1 .. nextId - 1 /\ seen \subseteq 1 .. nextId - 1
      BY WalAssumption DEF TypeInv, TypeOK
    <3>3. batch'.first = nextId /\ batch'.last = nextId + n - 1
      BY <3>1 DEF Submit
    <3>4. QED
      BY <1>0, <3>2, <3>3 DEF BatchInv
  <2>2. CASE CheckpointRename \/ CheckpointDone
    BY <2>2 DEF CheckpointRename, CheckpointDone, BatchInv
  <2>3. QED
    BY <2>1, <2>2
<1>4. \A s \in Segments : Settling(s) => Settling(s)'
  BY <1>0 DEF Settling
<1>5. ASSUME NEW p \in Position, Whereabouts(p) PROVE Whereabouts(p)'
  BY <1>0, <1>5 DEF Whereabouts
<1>6. ckptFile \in Position /\ ckptSynced \in Position /\ position \in Position
  BY DEF TypeInv, TypeOK
<1>7. Checkpoints'
  <2>1. CASE UNCHANGED <<ckptFile, ckptSynced>>
    BY <1>0, <1>5, <1>6, <2>1 DEF Checkpoints, Whereabouts
  <2>2. CASE CheckpointRename
    <3>1. ckptFile' = position /\ ckptSynced' = ckptSynced /\ pc = "idle" /\ pc' = "renamed"
      BY <2>2 DEF CheckpointRename
    <3>2. Readable(disk[position.segment], position.offset)
      <4>1. disk[position.segment] # NoFile /\ Len(disk[position.segment].cells) = position.offset
            /\ position.segment \in Segments
        BY <3>1, Numbers DEF ActiveFile
      <4>2. QED
        BY <3>1, <4>1 DEF FilesWhole, Whole
    <3>3. position.offset <= position.offset
      BY Numbers
    <3>4. Whereabouts(position)'
      BY <1>0, <3>1, <3>2, <3>3 DEF Whereabouts
    <3>5. QED
      BY <1>0, <1>5, <1>6, <3>1, <3>4 DEF Checkpoints, Whereabouts
  <2>3. CASE CheckpointDone
    <3>1. ckptFile' = ckptFile /\ ckptSynced' = ckptFile
      BY <2>3 DEF CheckpointDone
    <3>2. QED
      BY <1>0, <1>5, <1>6, <3>1 DEF Checkpoints, Whereabouts
  <2>4. QED
    BY <2>1, <2>2, <2>3 DEF Submit, files
<1>8. QED
  BY <1>0, <1>1, <1>2, <1>3, <1>4, <1>7 DEF CrashParts

\* A process that is down comes back with another data key.
LEMMA CrashRekey ==
  ASSUME TypeInv, TypeInv', CrashParts, Rekey
  PROVE  CrashParts'
<1>. FilesWhole /\ ActiveFile /\ BatchInv /\ Checkpoints /\ Held(disk) /\ ~refused
     /\ (bounds.kills = 0 => \A s \in Segments : Settling(s))
  BY DEF CrashParts
<1>0. /\ UNCHANGED <<disk, ckptFile, ckptSynced, unlinked, pc, acked, seen, refused, position>>
      /\ pc = "down" /\ bounds'.kills = bounds.kills
  BY DEF Rekey, Count, files, memory, history, TypeInv, TypeOK
<1>1. FilesWhole' /\ Held(disk)'
  BY <1>0 DEF FilesWhole, Held, NoneAbove
<1>2. ActiveFile' /\ BatchInv' /\ Checkpoints'
  BY <1>0 DEF ActiveFile, BatchInv, Checkpoints, Whereabouts
<1>3. \A s \in Segments : Settling(s) => Settling(s)'
  BY <1>0 DEF Settling
<1>4. QED
  BY <1>0, <1>1, <1>2, <1>3 DEF CrashParts

\* The syncs make durable what is there.
LEMMA SyncKeepsNoFile ==
  ASSUME NEW f \in File, NEW g \in File, g.cells = f.cells, g.live = f.live,
         g.synced \in {f.synced, Len(f.cells)}, g.named = f.named \/ g.named = (f.named \/ f.live)
  PROVE  f = NoFile => g = NoFile
<1> SUFFICES ASSUME f = NoFile PROVE g = NoFile
  OBVIOUS
<1>1. g.cells = NoFile.cells /\ g.synced = NoFile.synced /\ ~g.live
  BY NoFileFacts
<1>2. ~g.named
  BY NoFileFacts, Zenon
<1>3. QED
  BY <1>1, <1>2, NoFileFacts, SameFile

\* While the process runs every file is whole.
LEMMA RunningWhole ==
  ASSUME TypeInv, FilesWhole, ActiveFile, pc # "down"
  PROVE  /\ \A s \in Segments : disk[s] # NoFile => Whole(disk[s])
         /\ Whole(disk[position.segment])
<1>1. position.segment \in Segments
  BY Numbers
<1>2. QED
  BY <1>1 DEF FilesWhole, ActiveFile

LEMMA WholeIsSomething ==
  ASSUME NEW f \in File, Whole(f)
  PROVE  f.cells # <<>> /\ f # NoFile
BY NoFileFacts DEF Whole, Readable, HeaderIncomplete

\* A header written where there was no file makes a new file.
LEMMA NewSegment ==
  ASSUME key \in BOOLEAN, NEW d, NEW e, NEW s \in Segments, WrittenTo(e, d, s, <<Header(key)>>),
         d[s] = NoFile, e[s] \in File
  PROVE  e[s] = NewFile
<1>1. <<Header(key)>> \in Seq(Cell) /\ Len(<<Header(key)>>) = 1 /\ <<Header(key)>>[1] = Header(key)
  BY HeaderCell
<1>2. Len(NoFile.cells) = 0 /\ NoFile.synced = 0 /\ ~NoFile.named
  BY NoFileFacts
<1>3. /\ e[s].cells \in Seq(Cell) /\ e[s].live /\ e[s].synced = 0 /\ ~e[s].named
  BY <1>2 DEF WrittenTo, Extends
<1>4. Len(e[s].cells) = 1
  BY <1>1, <1>2 DEF WrittenTo, Extends
<1>5. e[s].cells[1] = Header(key)
  <2>1. 1 \in 1 .. Len(<<Header(key)>>) /\ 0 + 1 = 1
    BY <1>1
  <2>2. e[s].cells[0 + 1] = <<Header(key)>>[1]
    BY <1>2, <2>1 DEF WrittenTo, Extends
  <2>3. QED
    BY <1>1, <2>1, <2>2
<1>6. e[s].cells = <<Header(key)>>
  BY <1>1, <1>3, <1>4, <1>5, SeqEqual
<1>7. QED
  BY <1>3, <1>6, NewFileFacts, SameFile

LEMMA CrashRoll ==
  ASSUME TypeInv, TypeInv', CrashParts, OrderParts, Roll
  PROVE  CrashParts'
<1>. FilesWhole /\ ActiveFile /\ BatchInv /\ Checkpoints /\ Held(disk) /\ ~refused
     /\ (bounds.kills = 0 => \A s \in Segments : Settling(s))
  BY DEF CrashParts
<1> DEFINE new == position.segment + 1
<1>0. /\ pc = "append" /\ pc' = "rolling" /\ Write(new, <<Header(key)>>)
      /\ UNCHANGED <<ckptFile, ckptSynced, unlinked, position, batch, acked, seen, refused, bounds, key>>
  BY DEF Roll, memory, history
<1>1. /\ position.segment \in Segments /\ position.segment \in Nat /\ new \in Segments /\ new > position.segment
      /\ key \in BOOLEAN /\ position.segment # new /\ position.offset \in Nat /\ unlinked \subseteq Segments
  <2>1. unlinked \subseteq Segments /\ position \in Position
    BY DEF TypeInv, TypeOK
  <2>2. position.segment \in Segments /\ position.offset \in Nat /\ key \in BOOLEAN
    BY Numbers
  <2>3. position.segment + 1 \in Segments /\ position.segment \in Nat
    BY <2>2, WalAssumption DEF Roll, Segments
  <2>4. position.segment + 1 > position.segment /\ position.segment # position.segment + 1
    BY <2>3
  <2>5. QED
    BY <2>1, <2>2, <2>3, <2>4
<1>2. WrittenTo(disk', disk, new, <<Header(key)>>)
  BY <1>0, <1>1, HeaderCell, WriteStep
<1>3. disk[new] = NoFile /\ NoneAbove(position.segment)
  BY <1>0, <1>1 DEF ActiveFile, NoneAbove
<1> HIDE DEF new
<1>4. \A t \in Segments : disk[t] \in File /\ disk'[t] \in File /\ (t # new => disk'[t] = disk[t])
  BY <1>2 DEF TypeInv, TypeOK, WrittenTo
<1>5. disk'[new] = NewFile /\ NewFile' = NewFile
  BY <1>0, <1>1, <1>2, <1>3, <1>4, NewSegment DEF NewFile
<1>6. FilesWhole'
  <2>1. ASSUME NEW t \in Segments, disk'[t] # NoFile PROVE Whole(disk'[t])
    BY <1>0, <1>1, <1>4, <1>5, <2>1, NewFileFacts, RunningWhole
  <2>2. QED
    BY <2>1 DEF FilesWhole
<1>7. Grows
  <2>1. ASSUME NEW t \in Segments PROVE Prefix(disk'[t], disk[t], Len(disk[t].cells))
    <3>1. CASE t = new
      BY <1>1, <1>3, <1>5, <3>1, NoFileFacts, NewFileFacts DEF Prefix
    <3>2. CASE t # new
      BY <1>4, <3>2, SameCellsPrefix
    <3>3. QED
      BY <3>1, <3>2
  <2>2. QED
    BY <2>1 DEF Grows
<1>8. Held(disk)'
  BY <1>0, <1>7, HeldGrows
<1>9. ActiveFile'
  <2>1. disk'[position.segment] = disk[position.segment]
    BY <1>1, <1>4
  <2>2. ASSUME NEW t \in Segments, t > new PROVE disk'[t] = NoFile
    <3>1. t \in Nat /\ new \in Nat
      BY Numbers, <1>1
    <3>2. t # new /\ t > position.segment
      BY <1>1, <2>2, <3>1
    <3>3. QED
      BY <1>3, <1>4, <3>2 DEF NoneAbove
  <2>3. /\ disk[position.segment] # NoFile /\ disk[position.segment].cells[1].sealed = key
        /\ Len(disk[position.segment].cells) = position.offset
    BY <1>0 DEF ActiveFile
  <2>4. position'.segment + 1 = new /\ position'.segment = position.segment /\ position'.offset = position.offset /\ key' = key
    BY <1>0 DEF new
  <2>5. NoneAbove(position.segment + 1)'
    BY <2>2, <2>4 DEF NoneAbove
  <2>6. QED
    BY <1>0, <1>5, <2>1, <2>3, <2>4, <2>5 DEF ActiveFile
<1>10. BatchInv'
  BY <1>0 DEF BatchInv
<1>11. Checkpoints'
  <2>1. position'.offset >= position.offset
    BY <1>0, <1>1
  <2>2. \A s \in unlinked' : ~disk'[s].live /\ disk'[s] # NoFile
    BY <1>0, <1>1, <1>3, <1>4 DEF Checkpoints
  <2>3. QED
    BY <1>0, <1>7, <2>1, <2>2, GrowsCheckpoints
<1>12. ASSUME bounds.kills = 0, NEW s \in Segments PROVE Settling(s)'
  <2>1. CASE s = new
    BY <1>0, <2>1 DEF Settling, new
  <2>2. CASE s # new
    BY <1>0, <1>4, <1>12, <2>2 DEF Settling
  <2>3. QED
    BY <2>1, <2>2
<1>13. QED
  BY <1>0, <1>6, <1>8, <1>9, <1>10, <1>11, <1>12 DEF CrashParts

LEMMA CrashRollDone ==
  ASSUME TypeInv, TypeInv', CrashParts, OrderParts, RollDone
  PROVE  CrashParts'
<1>. FilesWhole /\ ActiveFile /\ BatchInv /\ Checkpoints /\ Held(disk) /\ ~refused /\ Anchors
     /\ (bounds.kills = 0 => \A s \in Segments : Settling(s))
  BY DEF CrashParts, OrderParts
<1> DEFINE new == position.segment + 1
           e == [disk EXCEPT ![new] = SyncAll(@)]
<1>0. /\ pc = "rolling" /\ pc' = "append" /\ disk' = SyncDir(e) /\ unlinked' = {}
      /\ position'.segment = new /\ position'.offset = 1
      /\ UNCHANGED <<ckptFile, ckptSynced, batch, acked, seen, refused, bounds, key>>
  BY DEF RollDone, history
<1>1. new \in Segments /\ key \in BOOLEAN /\ disk \in [Segments -> File] /\ disk' \in [Segments -> File]
      /\ position.segment \in Nat /\ Segments \subseteq Nat
  BY <1>0, Numbers DEF TypeInv, TypeOK
<1>2. disk[new] = NewFile /\ NoneAbove(new) /\ NewFile.live
  BY <1>0, <1>1, NewFileFacts DEF ActiveFile
<1>3. e \in [Segments -> File] /\ \A t \in Segments : /\ e[t].cells = disk[t].cells
                                                      /\ e[t].live = disk[t].live
                                                      /\ e[t].named = disk[t].named
                                                      /\ e[t].synced = IF t = new THEN Len(disk[t].cells) ELSE disk[t].synced
  BY <1>1, SyncedFields
<1> HIDE DEF e, new
<1>4. \A t \in Segments : /\ disk'[t].cells = disk[t].cells
                          /\ disk'[t].live = disk[t].live
                          /\ disk'[t].named = (disk[t].named \/ disk[t].live)
                          /\ disk'[t].synced = IF t = new THEN Len(disk[t].cells) ELSE disk[t].synced
  BY <1>0, <1>3, SyncDirFields
<1>5. ASSUME NEW t \in Segments, disk[t] = NoFile PROVE disk'[t] = NoFile
  BY <1>1, <1>4, <1>5, SyncKeepsNoFile
<1>6. Quiet
  BY <1>4, <1>5 DEF Quiet
<1>7. FilesWhole' /\ Held(disk)'
  BY <1>0, <1>6, QuietKeeps
<1>8. disk'[new].cells = <<Header(key)>> /\ Len(disk'[new].cells) = 1 /\ disk'[new] # NoFile
      /\ disk'[new].cells[1].sealed = key
  BY <1>1, <1>2, <1>4, NewFileFacts, NoFileFacts
<1>9. ActiveFile'
  <2>1. \A t \in Segments : t > new => disk'[t] = NoFile
    BY <1>2, <1>5 DEF NoneAbove
  <2>2. NoneAbove(position.segment)'
    BY <1>0, <2>1 DEF NoneAbove
  <2>3. QED
    BY <1>0, <1>8, <2>2 DEF ActiveFile
<1>10. BatchInv'
  BY <1>0 DEF BatchInv
<1>11. Checkpoints'
  <2>1. Grows
    BY <1>1, <1>4, SameCellsPrefix DEF Grows
  <2>2. ASSUME NEW p \in Position, Whereabouts(p), Anchored(p) PROVE Whereabouts(p)'
    <3>0. p.segment \in Nat
      BY <1>1 DEF Position
    <3>1. p.segment <= position.segment
      BY <1>0, <2>2 DEF Anchored
    <3>2. p.segment # position'.segment
      BY <1>0, <1>1, <3>0, <3>1 DEF new
    <3>3. QED
      BY <1>0, <2>1, <2>2, <3>2, GrowsWhereabouts
  <2>3. ckptFile \in Position /\ ckptSynced \in Position
    BY DEF TypeInv, TypeOK
  <2>4. QED
    BY <1>0, <2>2, <2>3 DEF Checkpoints, Anchors, Whereabouts
<1>12. ASSUME bounds.kills = 0, NEW s \in Segments PROVE Settling(s)'
  <2>1. CASE s = new
    BY <1>1, <1>2, <1>4, <2>1 DEF Settling
  <2>2. CASE s # new
    <3>1. Settling(s)
      BY <1>12
    <3>2. disk[s] = NoFile \/ (disk[s].named /\ disk[s].synced = Len(disk[s].cells))
      BY <1>0, <2>2, <3>1 DEF Settling, new
    <3>3. QED
      BY <1>4, <1>5, <2>2, <3>2 DEF Settling
  <2>3. QED
    BY <2>1, <2>2
<1>13. QED
  BY <1>0, <1>7, <1>9, <1>10, <1>11, <1>12 DEF CrashParts

\* Records sealed as the segment's flag says, written after a whole file.
LEMMA BatchWhole ==
  ASSUME TypeInv, NEW f \in File, NEW g \in File, Whole(f), f.cells[1].sealed = key, Extends(g, f, BatchCells)
  PROVE  Whole(g) /\ g.cells[1].sealed = key /\ Prefix(g, f, Len(f.cells)) /\ BatchAfter(g, Len(f.cells))
<1> DEFINE L == Len(f.cells)
<1>0. L \in Nat /\ Len(g.cells) = L + Len(BatchCells) /\ Len(BatchCells) \in Nat
  BY DEF Extends
<1>1. Prefix(g, f, L) /\ BatchAfter(g, L)
  BY <1>0 DEF Extends, Prefix, BatchAfter
<1>2. L >= 1 /\ Readable(f, L)
  BY DEF Whole, Readable
<1> HIDE DEF L
<1>3. Readable(g, L)
  BY <1>0, <1>1, <1>2, ReadablePrefix
<1>4. g.cells[1] = f.cells[1]
  BY <1>0, <1>1, <1>2 DEF Prefix
<1>5. ASSUME NEW j \in 2 .. Len(g.cells) PROVE Decodes(g, j)
  <2>1. CASE j <= L
    BY <1>0, <1>3, <1>5, <2>1 DEF Readable, Scans
  <2>2. CASE ~(j <= L)
    <3> DEFINE n == j - L
    <3>1. n \in 1 .. Len(BatchCells) /\ j = L + n
      BY <1>0, <2>2
    <3> HIDE DEF n
    <3>2. g.cells[j] = BatchCells[n]
      BY <1>1, <3>1 DEF BatchAfter
    <3>3. BatchCells[n] = Record(batch.first + n - 1, key)
      BY <3>1, BatchCellsIds
    <3>4. g.cells[j].kind = "record" /\ g.cells[j].sealed = key
      BY <3>2, <3>3 DEF Record
    <3>5. QED
      BY <1>4, <3>4 DEF Decodes
  <2>3. QED
    BY <2>1, <2>2
<1>6. Whole(g)
  BY <1>0, <1>2, <1>3, <1>5 DEF Whole, Readable, Scans
<1>7. QED
  BY <1>1, <1>4, <1>6 DEF L

LEMMA CrashWriteBatch ==
  ASSUME TypeInv, TypeInv', CrashParts, OrderParts, WriteBatch
  PROVE  CrashParts'
<1>. FilesWhole /\ ActiveFile /\ BatchInv /\ Checkpoints /\ Held(disk) /\ ~refused
     /\ (bounds.kills = 0 => \A s \in Segments : Settling(s))
  BY DEF CrashParts
<1> DEFINE act == position.segment
<1>0. /\ pc = "append" /\ pc' = "written" /\ Write(act, BatchCells)
      /\ UNCHANGED <<ckptFile, ckptSynced, unlinked, position, batch, acked, seen, refused, bounds, key>>
  BY DEF WriteBatch, memory, history
<1>1. /\ act \in Segments /\ position.offset \in Nat /\ unlinked \subseteq Segments
      /\ \A t \in Segments : disk[t] \in File /\ disk'[t] \in File
  BY Numbers DEF TypeInv, TypeOK
<1>2. WrittenTo(disk', disk, act, BatchCells)
  BY <1>0, <1>1, BatchCellsIds, WriteStep
<1>3. /\ disk[act] # NoFile /\ disk[act].cells[1].sealed = key /\ NoneAbove(act)
      /\ Len(disk[act].cells) = position.offset
      /\ Whole(disk[act])
      /\ disk[act].live
  BY <1>0, RunningWhole DEF ActiveFile, OrderParts, AtTop
<1>4. Extends(disk'[act], disk[act], BatchCells) /\ \A t \in Segments : t # act => disk'[t] = disk[t]
  BY <1>2 DEF WrittenTo
<1>5. /\ Whole(disk'[act]) /\ disk'[act].cells[1].sealed = key
      /\ Prefix(disk'[act], disk[act], Len(disk[act].cells)) /\ BatchAfter(disk'[act], position.offset)
  BY <1>1, <1>3, <1>4, BatchWhole
<1>6. FilesWhole'
  <2>1. ASSUME NEW t \in Segments, disk'[t] # NoFile PROVE Whole(disk'[t])
    BY <1>0, <1>4, <1>5, <2>1, RunningWhole
  <2>2. QED
    BY <2>1 DEF FilesWhole
<1>7. Grows
  <2>1. ASSUME NEW t \in Segments PROVE Prefix(disk'[t], disk[t], Len(disk[t].cells))
    BY <1>1, <1>4, <1>5, SameCellsPrefix
  <2>2. QED
    BY <2>1 DEF Grows
<1>8. Held(disk)'
  BY <1>0, <1>7, HeldGrows
<1>9. ActiveFile'
  <2>1. BatchAfter(disk[position.segment], position.offset)'
    BY <1>0, <1>5 DEF BatchAfter, BatchCells
  <2>2. NoneAbove(position.segment)'
    <3>1. ASSUME NEW t \in Segments, t > act PROVE disk'[t] = NoFile
      <4>1. t # act
        BY <1>1, <3>1, Numbers
      <4>2. QED
        BY <1>3, <1>4, <3>1, <4>1 DEF NoneAbove
    <3>2. QED
      BY <1>0, <3>1 DEF NoneAbove
  <2>3. disk'[act] # NoFile
    BY <1>1, <1>5, WholeIsSomething
  <2>4. QED
    BY <1>0, <1>5, <2>1, <2>2, <2>3 DEF ActiveFile
<1>10. BatchInv'
  BY <1>0 DEF BatchInv
<1>11. Checkpoints'
  <2>1. position'.offset >= position.offset
    BY <1>0, <1>1
  <2>2. \A s \in unlinked' : ~disk'[s].live /\ disk'[s] # NoFile
    BY <1>0, <1>1, <1>3, <1>4 DEF Checkpoints
  <2>3. QED
    BY <1>0, <1>7, <2>1, <2>2, GrowsCheckpoints
<1>12. ASSUME bounds.kills = 0, NEW s \in Segments PROVE Settling(s)'
  <2>1. CASE s = act
    <3>1. disk[act].named /\ disk[act].synced = position.offset
      BY <1>0, <1>1, <1>3, <1>12 DEF Settling
    <3>2. disk'[act].named /\ disk'[act].synced = position.offset
      BY <1>4, <3>1 DEF Extends
    <3>3. QED
      BY <1>0, <2>1, <3>2 DEF Settling
  <2>2. CASE s # act
    BY <1>0, <1>4, <1>12, <2>2 DEF Settling
  <2>3. QED
    BY <2>1, <2>2
<1>13. QED
  BY <1>0, <1>6, <1>8, <1>9, <1>10, <1>11, <1>12 DEF CrashParts

\* The cell of each record of a written batch.
LEMMA BatchHeld ==
  ASSUME TypeInv, BatchInv, pc = "written", NEW f \in File, Whole(f), NEW start \in Nat \ {0},
         BatchAfter(f, start), NEW i \in BatchIds
  PROVE  \E n \in 1 .. Len(f.cells) : HeldAt(f, n, i)
<1>0. batch.first \in Nat /\ batch.last \in Nat /\ batch.first <= batch.last /\ i \in Nat
      /\ batch.first <= i /\ i <= batch.last
  BY Numbers DEF BatchInv, BatchIds
<1>1. Len(BatchCells) = batch.last - batch.first + 1 /\ Len(BatchCells) \in Nat
  BY <1>0, BatchCellsIds
<1> DEFINE j == i - batch.first + 1
<1>2. j \in 1 .. Len(BatchCells) /\ batch.first + j - 1 = i
  BY <1>0, <1>1
<1> HIDE DEF j
<1>3. BatchCells[j] = Record(i, key)
  BY <1>2, BatchCellsIds
<1>4. start + j \in 2 .. Len(f.cells) /\ f.cells[start + j] = BatchCells[j] /\ Len(f.cells) \in Nat
  BY <1>1, <1>2 DEF BatchAfter
<1>5. start + j \in 1 .. Len(f.cells)
  BY <1>4
<1>6. Readable(f, start + j)
  BY <1>4, <1>5, ReadableDown DEF Whole
<1>7. HeldAt(f, start + j, i)
  BY <1>3, <1>4, <1>6 DEF HeldAt, Record
<1>8. QED
  BY <1>5, <1>7

LEMMA CrashAck ==
  ASSUME TypeInv, TypeInv', CrashParts, OrderParts, Ack
  PROVE  CrashParts'
<1>. FilesWhole /\ ActiveFile /\ BatchInv /\ Checkpoints /\ Held(disk) /\ ~refused
     /\ (bounds.kills = 0 => \A s \in Segments : Settling(s))
  BY DEF CrashParts
<1> DEFINE act == position.segment
<1>0. /\ pc = "written" /\ pc' = "idle" /\ disk' = [disk EXCEPT ![act] = SyncAll(@)]
      /\ acked' = acked \cup BatchIds
      /\ UNCHANGED <<ckptFile, ckptSynced, unlinked, seen, refused, bounds, key>>
  BY DEF Ack
<1>1. /\ act \in Segments /\ position.offset \in Nat \ {0} /\ Len(BatchCells) \in Nat
      /\ disk \in [Segments -> File] /\ disk' \in [Segments -> File] /\ unlinked \subseteq Segments
  BY Numbers, BatchCellsIds DEF TypeInv, TypeOK
<1>2. position'.segment = act /\ position'.offset = position.offset + Len(BatchCells)
  BY DEF Ack, TypeInv, TypeOK, Position
<1>3. \A t \in Segments : /\ disk'[t].cells = disk[t].cells
                          /\ disk'[t].live = disk[t].live
                          /\ disk'[t].named = disk[t].named
                          /\ disk'[t].synced = IF t = act THEN Len(disk[t].cells) ELSE disk[t].synced
  BY <1>0, <1>1, SyncedFields
<1>4. /\ disk[act] # NoFile /\ disk[act].cells[1].sealed = key /\ NoneAbove(act)
      /\ BatchAfter(disk[act], position.offset)
      /\ Whole(disk[act])
  BY <1>0, RunningWhole DEF ActiveFile
<1>5. \A t \in Segments : disk[t] = NoFile => disk'[t] = NoFile
  BY <1>1, <1>3, SyncKeepsNoFile
<1>6. FilesWhole'
  <2>1. ASSUME NEW t \in Segments, disk'[t] # NoFile PROVE Whole(disk'[t])
    <3>1. Whole(disk[t])
      BY <1>0, <1>5, <2>1, RunningWhole
    <3>2. QED
      BY <1>1, <1>3, <3>1, SameCellsPrefix
  <2>2. QED
    BY <2>1 DEF FilesWhole
<1>7. Grows
  BY <1>1, <1>3, SameCellsPrefix DEF Grows
<1>8. Held(disk)'
  <2> SUFFICES ASSUME NEW i \in acked \cup seen \cup BatchIds
               PROVE  \E s \in Segments : \E n \in 1 .. Len(disk'[s].cells) : HeldAt(disk'[s], n, i)
    BY <1>0 DEF Held
  <2>1. PICK s \in Segments : \E n \in 1 .. Len(disk[s].cells) : HeldAt(disk[s], n, i)
    <3>1. CASE i \in acked \cup seen
      BY <3>1 DEF Held
    <3>2. CASE i \in BatchIds
      BY <1>0, <1>1, <1>4, <3>2, BatchHeld
    <3>3. QED
      BY <3>1, <3>2
  <2>2. PICK n \in 1 .. Len(disk[s].cells) : HeldAt(disk[s], n, i)
    BY <2>1
  <2>3. HeldAt(disk'[s], n, i) /\ n \in 1 .. Len(disk'[s].cells)
    BY <1>3, <2>2 DEF HeldAt, Readable, HeaderIncomplete, Scans, Decodes
  <2>4. QED
    BY <2>3
<1>9. ActiveFile'
  <2>1. disk'[act] # NoFile
    BY <1>1, <1>3, <1>4, WholeIsSomething, NoFileFacts
  <2>2. NoneAbove(position.segment)'
    BY <1>2, <1>4, <1>5 DEF NoneAbove
  <2>3. Len(disk'[act].cells) = position.offset + Len(BatchCells)
    BY <1>1, <1>3, <1>4 DEF BatchAfter
  <2>4. disk'[act].cells[1].sealed = key
    BY <1>1, <1>3, <1>4
  <2>5. QED
    BY <1>0, <1>2, <2>1, <2>2, <2>3, <2>4 DEF ActiveFile
<1>10. BatchInv'
  BY <1>0 DEF BatchInv
<1>11. Checkpoints'
  <2>1. position'.offset >= position.offset
    BY <1>1, <1>2
  <2>2. \A s \in unlinked' : ~disk'[s].live /\ disk'[s] # NoFile
    <3>1. ASSUME NEW s \in unlinked PROVE ~disk'[s].live /\ disk'[s] # NoFile
      <4>1. ~disk[s].live /\ disk[s] # NoFile /\ s \in Segments
        BY <1>1 DEF Checkpoints
      <4>2. Whole(disk[s])
        BY <1>0, <4>1, RunningWhole
      <4>3. QED
        BY <1>1, <1>3, <4>1, <4>2, WholeIsSomething, NoFileFacts
    <3>2. QED
      BY <1>0, <3>1
  <2>3. QED
    BY <1>0, <1>2, <1>7, <2>1, <2>2, GrowsCheckpoints
<1>12. ASSUME bounds.kills = 0, NEW s \in Segments PROVE Settling(s)'
  <2>1. CASE s = act
    <3>1. disk[act].named
      BY <1>0, <1>1, <1>4, <1>12 DEF Settling
    <3>2. QED
      BY <1>1, <1>3, <2>1, <3>1 DEF Settling
  <2>2. CASE s # act
    <3>1. disk[s] = NoFile \/ (disk[s].named /\ disk[s].synced = Len(disk[s].cells))
      BY <1>0, <1>12, <2>2 DEF Settling
    <3>2. QED
      BY <1>3, <1>5, <2>2, <3>1 DEF Settling
  <2>3. QED
    BY <2>1, <2>2
<1>13. QED
  BY <1>0, <1>6, <1>8, <1>9, <1>10, <1>11, <1>12 DEF CrashParts

LEMMA CrashRelease ==
  ASSUME TypeInv, TypeInv', CrashParts, OrderParts, NEW s \in Segments, Release(s)
  PROVE  CrashParts'
<1>. FilesWhole /\ ActiveFile /\ BatchInv /\ Checkpoints /\ Held(disk) /\ ~refused /\ Anchors
     /\ (bounds.kills = 0 => \A t \in Segments : Settling(t))
  BY DEF CrashParts, OrderParts
<1>0. /\ pc = "idle" /\ pc' = "unlinking" /\ s < checkpoint.segment /\ disk[s].live
      /\ disk' = [disk EXCEPT ![s].live = FALSE] /\ unlinked' = unlinked \cup {s}
      /\ UNCHANGED <<ckptFile, ckptSynced, position, batch, acked, seen, refused, bounds, key>>
  BY DEF Release, Releasable, memory, history
<1>1. /\ {position.segment, checkpoint.segment, ckptFile.segment} \subseteq Segments /\ Segments \subseteq Nat
      /\ position.offset \in Nat /\ disk \in [Segments -> File] /\ disk' \in [Segments -> File]
      /\ unlinked \subseteq Segments
  BY Numbers DEF TypeInv, TypeOK
<1>2. s < position.segment
  BY <1>0, <1>1 DEF Anchors, Anchored
<1>3. /\ \A t \in Segments : t # s => disk'[t] = disk[t]
      /\ disk'[s].cells = disk[s].cells /\ disk'[s].named = disk[s].named
      /\ disk'[s].synced = disk[s].synced /\ ~disk'[s].live
  <2>1. disk[s] \in File /\ disk'[s] = [disk[s] EXCEPT !.live = FALSE]
    BY <1>0, <1>1
  <2>2. \A t \in Segments : t # s => disk'[t] = disk[t]
    BY <1>0, <1>1
  <2>3. disk'[s].cells = disk[s].cells /\ disk'[s].named = disk[s].named /\ disk'[s].synced = disk[s].synced /\ ~disk'[s].live
    BY <2>1 DEF File
  <2>4. QED
    BY <2>2, <2>3
<1>4. disk[s] # NoFile /\ Whole(disk[s])
  BY <1>0, NoFileFacts, RunningWhole
<1>5. disk'[s] # NoFile
  BY <1>1, <1>3, <1>4, WholeIsSomething, NoFileFacts
<1>6. Quiet
  BY <1>3, <1>4 DEF Quiet
<1>7. FilesWhole' /\ Held(disk)'
  BY <1>0, <1>6, QuietKeeps
<1>8. Grows
  BY <1>1, <1>6, SameCellsPrefix DEF Quiet, Grows
<1>9. ActiveFile'
  <2>0. position.segment \in Segments /\ position.segment \in Nat /\ s \in Nat
    BY <1>1
  <2>1. position.segment # s /\ disk'[position.segment] = disk[position.segment]
    BY <1>2, <1>3, <2>0
  <2>2. NoneAbove(position.segment)'
    <3>1. NoneAbove(position.segment)
      BY <1>0 DEF ActiveFile
    <3>2. QED
      BY <1>0, <1>6, <3>1 DEF NoneAbove, Quiet
  <2>3. QED
    BY <1>0, <2>1, <2>2 DEF ActiveFile
<1>10. BatchInv'
  BY <1>0 DEF BatchInv
<1>11. Checkpoints'
  <2>1. position'.offset >= position.offset
    BY <1>0, <1>1
  <2>2. \A t \in unlinked' : ~disk'[t].live /\ disk'[t] # NoFile
    BY <1>0, <1>1, <1>3, <1>5 DEF Checkpoints
  <2>3. QED
    BY <1>0, <1>8, <2>1, <2>2, GrowsCheckpoints
<1>12. ASSUME bounds.kills = 0, NEW t \in Segments PROVE Settling(t)'
  <2>1. disk[t] = NoFile \/ (disk[t].named /\ disk[t].synced = Len(disk[t].cells))
    BY <1>0, <1>12 DEF Settling
  <2>2. QED
    BY <1>3, <1>4, <2>1 DEF Settling
<1>13. QED
  BY <1>0, <1>7, <1>9, <1>10, <1>11, <1>12 DEF CrashParts

\* The directory syncs that end a release and the creation of a first segment.
LEMMA CrashSyncDir ==
  ASSUME TypeInv, TypeInv', CrashParts, OrderParts, ReleaseDone \/ Opened
  PROVE  CrashParts'
<1>. FilesWhole /\ ActiveFile /\ BatchInv /\ Checkpoints /\ Held(disk) /\ ~refused
     /\ (bounds.kills = 0 => \A s \in Segments : Settling(s))
  BY DEF CrashParts
<1> DEFINE act == position.segment
<1>0. /\ pc \in {"unlinking", "opening"} /\ pc' = "idle" /\ unlinked' = {}
      /\ UNCHANGED <<ckptFile, ckptSynced, position, batch, acked, seen, refused, bounds, key>>
  BY DEF ReleaseDone, Opened, memory, history
<1>1. /\ act \in Segments /\ position.offset \in Nat /\ key \in BOOLEAN
      /\ disk \in [Segments -> File] /\ disk' \in [Segments -> File]
  BY Numbers DEF TypeInv, TypeOK
<1>2. \A t \in Segments : /\ disk'[t].cells = disk[t].cells
                          /\ disk'[t].live = disk[t].live
                          /\ disk'[t].named = (disk[t].named \/ disk[t].live)
                          /\ disk'[t].synced \in {disk[t].synced, Len(disk[t].cells)}
                          /\ pc = "opening" /\ t = act => disk'[t].synced = Len(disk[t].cells)
  <2>1. CASE ReleaseDone
    <3>1. disk' = SyncDir(disk) /\ pc = "unlinking"
      BY <2>1 DEF ReleaseDone
    <3>2. QED
      BY <1>1, <3>1, SyncDirFields
  <2>2. CASE Opened
    <3> DEFINE e == [disk EXCEPT ![act] = SyncAll(@)]
    <3>1. e \in [Segments -> File] /\ \A t \in Segments : /\ e[t].cells = disk[t].cells
                                                          /\ e[t].live = disk[t].live
                                                          /\ e[t].named = disk[t].named
                                                          /\ e[t].synced = IF t = act THEN Len(disk[t].cells) ELSE disk[t].synced
      BY <1>1, SyncedFields
    <3>2. disk' = SyncDir(e)
      BY <2>2 DEF Opened
    <3> HIDE DEF e
    <3>3. \A t \in Segments : /\ disk'[t].cells = disk[t].cells
                              /\ disk'[t].live = disk[t].live
                              /\ disk'[t].named = (disk[t].named \/ disk[t].live)
                              /\ disk'[t].synced = IF t = act THEN Len(disk[t].cells) ELSE disk[t].synced
      BY <3>1, <3>2, SyncDirFields
    <3>4. QED
      BY <3>3
  <2>3. QED
    BY <2>1, <2>2
<1>3. Quiet
  <2>1. \A t \in Segments : disk[t] = NoFile => disk'[t] = NoFile
    BY <1>1, <1>2, SyncKeepsNoFile
  <2>2. QED
    BY <1>2, <2>1 DEF Quiet
<1>4. FilesWhole' /\ Held(disk)'
  BY <1>0, <1>3, QuietKeeps
<1>5. Grows
  BY <1>1, <1>3, SameCellsPrefix DEF Quiet, Grows
<1>6. ActiveFile'
  <2>1. disk[act] # NoFile /\ disk[act].cells[1].sealed = key /\ NoneAbove(act)
        /\ Len(disk[act].cells) = position.offset /\ Whole(disk[act])
    BY <1>0, RunningWhole DEF ActiveFile
  <2>2. disk'[act] # NoFile
    BY <1>1, <1>2, <2>1, WholeIsSomething, NoFileFacts
  <2>3. NoneAbove(position.segment)'
    BY <1>0, <1>3, <2>1 DEF NoneAbove, Quiet
  <2>4. QED
    BY <1>0, <1>1, <1>2, <2>1, <2>2, <2>3 DEF ActiveFile
<1>7. BatchInv'
  BY <1>0 DEF BatchInv
<1>8. Checkpoints'
  <2>1. position'.offset >= position.offset
    BY <1>0, <1>1
  <2>2. QED
    BY <1>0, <1>5, <2>1, GrowsCheckpoints
<1>9. ASSUME bounds.kills = 0, NEW s \in Segments PROVE Settling(s)'
  <2>1. CASE pc = "opening" /\ s = act
    <3>1. disk[s].live
      BY <1>1, <2>1, NewFileFacts DEF ActiveFile
    <3>2. disk'[s].named /\ disk'[s].synced = Len(disk'[s].cells)
      BY <1>2, <2>1, <3>1
    <3>3. QED
      BY <3>2 DEF Settling
  <2>2. CASE ~(pc = "opening" /\ s = act)
    <3>1. disk[s] = NoFile \/ (disk[s].named /\ disk[s].synced = Len(disk[s].cells))
      BY <1>0, <1>9, <2>2 DEF Settling
    <3>2. QED
      BY <1>2, <1>3, <3>1 DEF Settling, Quiet
  <2>3. QED
    BY <2>1, <2>2
<1>10. QED
  BY <1>0, <1>4, <1>6, <1>7, <1>8, <1>9 DEF CrashParts

-----------------------------------------------------------------------------
(* CrashInv across a crash *)

\* What a crash leaves of a file: all of it, what an append had found in it, or
\* whatever the disk made of a header being written.
Crashed(g, f, s) ==
    \/ g.cells = f.cells /\ (f = NoFile => g = NoFile) /\ (f.live => g.live)
    \/ /\ pc = "written" /\ s = position.segment /\ g.live
       /\ Prefix(g, f, position.offset)
       /\ Whole(g) \/ Frayed(g)
    \/ /\ \/ pc = "rolling" /\ s = position.segment + 1
          \/ pc = "opening" /\ s = position.segment
       /\ g = NoFile \/ Whole(g) \/ Frayed(g)

\* A record that was promised or returned is not in the write in progress.
LEMMA HeldBefore ==
  ASSUME TypeInv, ActiveFile, BatchInv, pc = "written", NEW i \in acked \cup seen,
         NEW n \in 1 .. Len(disk[position.segment].cells), HeldAt(disk[position.segment], n, i)
  PROVE  n <= position.offset
<1> SUFFICES ASSUME ~(n <= position.offset) PROVE FALSE
  OBVIOUS
<1>0. position.offset \in Nat /\ batch.first \in Nat /\ Len(BatchCells) \in Nat
  BY Numbers, BatchCellsIds
<1>1. BatchAfter(disk[position.segment], position.offset) /\ i < batch.first
  BY DEF ActiveFile, BatchInv
<1> DEFINE j == n - position.offset
<1>2. j \in 1 .. Len(BatchCells) /\ n = position.offset + j
  BY <1>0, <1>1 DEF BatchAfter
<1> HIDE DEF j
<1>3. disk[position.segment].cells[n] = Record(batch.first + j - 1, key)
  BY <1>1, <1>2, BatchCellsIds DEF BatchAfter
<1>4. i = batch.first + j - 1
  BY <1>3 DEF HeldAt, Record
<1>5. i >= batch.first
  BY <1>0, <1>2, <1>4
<1>6. QED
  BY <1>0, <1>1, <1>4, <1>5, <1>2

LEMMA CrashKeeps ==
  ASSUME TypeInv, TypeInv', CrashParts, OrderParts, pc # "down", pc' = "down",
         \A s \in Segments : Crashed(disk'[s], disk[s], s), acked' = acked, seen' = seen
  PROVE  /\ FilesWhole' /\ Held(disk)'
         /\ \A p \in Position : Whereabouts(p) /\ Anchored(p) => Whereabouts(p)'
<1>. FilesWhole /\ ActiveFile /\ BatchInv /\ Held(disk)
  BY DEF CrashParts
<1>0. /\ \A s \in Segments : disk[s] \in File /\ disk'[s] \in File /\ Len(disk[s].cells) \in Nat
      /\ Segments \subseteq Nat /\ position.segment \in Segments /\ position.segment \in Nat
      /\ position.offset \in Nat /\ key \in BOOLEAN
  BY Numbers DEF TypeInv, TypeOK
<1>1. FilesWhole'
  <2> SUFFICES ASSUME NEW s \in Segments, disk'[s] # NoFile
               PROVE  Whole(disk'[s]) \/ (Frayed(disk'[s]) /\ NoneAbove(s)')
    BY DEF FilesWhole
  <2>1. CASE disk'[s].cells = disk[s].cells /\ (disk[s] = NoFile => disk'[s] = NoFile)
    BY <1>0, <2>1, RunningWhole, SameCellsPrefix
  <2>2. CASE \/ pc = "written" /\ s = position.segment
             \/ pc = "rolling" /\ s = position.segment + 1
             \/ pc = "opening" /\ s = position.segment
    <3>1. NoneAbove(s)
      BY <2>2 DEF ActiveFile
    <3>2. ASSUME NEW t \in Segments, t > s PROVE disk'[t] = NoFile
      <4>1. disk[t] = NoFile
        BY <3>1, <3>2 DEF NoneAbove
      <4>2. t # s /\ t \in Nat /\ s \in Nat
        BY <1>0, <3>2
      <4>3. t # position.segment
        BY <4>1 DEF ActiveFile
      <4>4. ~(pc = "rolling" /\ t = position.segment + 1)
        BY <2>2, <4>2
      <4>5. QED
        BY <4>1, <4>3, <4>4 DEF Crashed
    <3>3. NoneAbove(s)'
      BY <3>2 DEF NoneAbove
    <3>4. CASE Whole(disk'[s]) \/ Frayed(disk'[s])
      BY <3>3, <3>4
    <3>5. CASE ~(Whole(disk'[s]) \/ Frayed(disk'[s]))
      <4>1. disk'[s].cells = disk[s].cells /\ (disk[s] = NoFile => disk'[s] = NoFile)
        BY <3>5 DEF Crashed
      <4>2. QED
        BY <2>1, <4>1
    <3>6. QED
      BY <3>4, <3>5
  <2>3. QED
    BY <2>1, <2>2 DEF Crashed
<1>2. Held(disk)'
  <2> SUFFICES ASSUME NEW i \in acked \cup seen
               PROVE  \E s \in Segments : \E n \in 1 .. Len(disk'[s].cells) : HeldAt(disk'[s], n, i)
    BY DEF Held
  <2>1. PICK s \in Segments : \E n \in 1 .. Len(disk[s].cells) : HeldAt(disk[s], n, i)
    BY DEF Held
  <2>2. PICK n \in 1 .. Len(disk[s].cells) : HeldAt(disk[s], n, i)
    BY <2>1
  <2>3. n \in Nat /\ n <= Len(disk[s].cells)
    BY <1>0
  <2>4. CASE disk'[s].cells = disk[s].cells
    <3>1. Prefix(disk'[s], disk[s], Len(disk[s].cells))
      BY <1>0, <2>4, SameCellsPrefix
    <3>2. QED
      BY <1>0, <2>2, <2>3, <3>1, HeldPrefix
  <2>5. CASE pc = "written" /\ s = position.segment /\ Prefix(disk'[s], disk[s], position.offset)
    <3>1. n <= position.offset
      BY <2>2, <2>5, HeldBefore
    <3>2. QED
      BY <1>0, <2>2, <2>3, <2>5, <3>1, HeldPrefix
  <2>6. CASE \/ pc = "rolling" /\ s = position.segment + 1
             \/ pc = "opening" /\ s = position.segment
    <3>1. disk[s] = NewFile
      BY <2>6 DEF ActiveFile
    <3>2. QED
      BY <1>0, <2>2, <3>1, NewFileFacts
  <2>7. QED
    BY <2>4, <2>5, <2>6 DEF Crashed
<1>3. ASSUME NEW p \in Position, Whereabouts(p), Anchored(p) PROVE Whereabouts(p)'
  <2> SUFFICES ASSUME p # START PROVE Readable(disk'[p.segment], p.offset)
    BY DEF Whereabouts
  <2>0. p.segment \in Segments /\ p.segment \in Nat /\ p.offset \in Nat /\ p.segment <= position.segment
    BY <1>0, <1>3 DEF Position, Anchored
  <2>1. Readable(disk[p.segment], p.offset) /\ p.offset <= Len(disk[p.segment].cells)
    BY <1>0, <1>3, <2>0 DEF Whereabouts, Readable
  <2>2. ~(pc = "rolling" /\ p.segment = position.segment + 1) /\ ~(pc = "opening" /\ p.segment = position.segment)
    BY <1>0, <1>3, <2>0 DEF Whereabouts
  <2>3. CASE disk'[p.segment].cells = disk[p.segment].cells
    <3>1. Prefix(disk'[p.segment], disk[p.segment], Len(disk[p.segment].cells))
      BY <1>0, <2>0, <2>3, SameCellsPrefix
    <3>2. QED
      BY <1>0, <2>0, <2>1, <3>1, ReadablePrefix
  <2>4. CASE p.segment = position.segment /\ Prefix(disk'[p.segment], disk[p.segment], position.offset)
    <3>1. p.offset <= position.offset
      BY <1>3, <2>4 DEF Whereabouts
    <3>2. QED
      BY <1>0, <2>0, <2>1, <2>4, <3>1, ReadablePrefix
  <2>5. QED
    BY <2>0, <2>2, <2>3, <2>4 DEF Crashed
<1>4. QED
  BY <1>1, <1>2, <1>3

\* The write in progress, cut short.
LEMMA InFlightCut ==
  ASSUME TypeInv, CrashParts, OrderParts, pc # "down", NEW s \in Segments, NEW kept \in Nat,
         NEW cells \in Cuts(disk[s], kept), NEW g \in File, g.cells = cells, g.live,
         \/ pc = "written" /\ s = position.segment /\ kept = position.offset
         \/ kept = 0 /\ pc = "rolling" /\ s = position.segment + 1
         \/ kept = 0 /\ pc = "opening" /\ s = position.segment
  PROVE  Crashed(g, disk[s], s)
<1>. ActiveFile /\ FilesWhole
  BY DEF CrashParts
<1>0. disk[s] \in File /\ key \in BOOLEAN /\ Len(BatchCells) \in Nat /\ position.offset \in Nat \ {0}
  BY Numbers, BatchCellsIds
<1>1. CASE pc = "written" /\ s = position.segment /\ kept = position.offset
  <2>1. Whole(disk[s]) /\ Len(disk[s].cells) = position.offset + Len(BatchCells)
    BY <1>1, RunningWhole DEF ActiveFile, BatchAfter
  <2>2. position.offset <= Len(disk[s].cells)
    BY <1>0, <2>1
  <2>3. Prefix(g, disk[s], position.offset) /\ (Whole(g) \/ Frayed(g))
    BY <1>0, <1>1, <2>1, <2>2, CutIsFrayed
  <2>4. QED
    BY <1>1, <2>3 DEF Crashed
<1>2. CASE kept = 0 /\ ((pc = "rolling" /\ s = position.segment + 1) \/ (pc = "opening" /\ s = position.segment))
  <2>1. disk[s] = NewFile
    BY <1>2 DEF ActiveFile
  <2>2. disk[s].cells = <<Header(key)>>
    BY <1>0, <2>1, NewFileFacts
  <2>3. Whole(g) \/ Frayed(g)
    BY <1>0, <1>2, <2>2, HeaderCut
  <2>4. QED
    BY <1>2, <2>3 DEF Crashed
<1>3. QED
  BY <1>1, <1>2

LEMMA CrashKill ==
  ASSUME TypeInv, TypeInv', CrashParts, OrderParts, Kill
  PROVE  CrashParts'
<1>. ActiveFile /\ Checkpoints /\ Anchors /\ AtTop /\ ~refused
  BY DEF CrashParts, OrderParts
<1>0. PICK s \in Segments : \E cells \in Cuts(disk[s], Len(disk[s].cells) - InFlight(s)) :
           disk' = [disk EXCEPT ![s].cells = cells]
  BY DEF Kill
<1>1. PICK cells \in Cuts(disk[s], Len(disk[s].cells) - InFlight(s)) :
           disk' = [disk EXCEPT ![s].cells = cells]
  BY <1>0
<1>2. /\ pc # "down" /\ pc' = "down" /\ bounds'.kills # 0
      /\ UNCHANGED <<ckptFile, ckptSynced, unlinked, acked, seen, refused, key>>
  BY Numbers DEF Kill, Down, Count, TypeInv, TypeOK, history
<1>3. /\ disk[s] \in File /\ disk'[s] \in File
      /\ \A t \in Segments : t # s => disk'[t] = disk[t]
      /\ disk'[s].cells = cells /\ disk'[s].live = disk[s].live
      /\ disk'[s].named = disk[s].named /\ disk'[s].synced = disk[s].synced
  BY <1>1 DEF TypeInv, TypeOK, File
<1>4. Crashed(disk'[s], disk[s], s)
  <2>0. /\ Len(disk[s].cells) \in Nat /\ Len(BatchCells) \in Nat /\ position.offset \in Nat /\ key \in BOOLEAN
    BY Numbers, BatchCellsIds
  <2>1. CASE InFlight(s) = 0
    <3>0. cells \in Cuts(disk[s], Len(disk[s].cells))
      BY <1>1, <2>0, <2>1
    <3>1. cells = disk[s].cells
      BY <1>3, <3>0, NothingCut
    <3>2. disk[s] = NoFile => disk'[s] = NoFile
      BY <1>3, <3>1, NoFileFacts, SameFile
    <3>3. QED
      BY <1>3, <3>1, <3>2 DEF Crashed
  <2>2. CASE InFlight(s) # 0
    <3>1. \/ pc = "written" /\ s = position.segment /\ InFlight(s) = Len(BatchCells)
          \/ InFlight(s) = 1 /\ pc = "rolling" /\ s = position.segment + 1
          \/ InFlight(s) = 1 /\ pc = "opening" /\ s = position.segment
      BY <2>2 DEF InFlight
    <3>2. disk[s].live
      BY <3>1 DEF AtTop
    <3> DEFINE kept == Len(disk[s].cells) - InFlight(s)
    <3>3. \/ pc = "written" /\ s = position.segment /\ kept = position.offset
          \/ kept = 0 /\ pc = "rolling" /\ s = position.segment + 1
          \/ kept = 0 /\ pc = "opening" /\ s = position.segment
      <4>1. CASE pc = "written" /\ s = position.segment /\ InFlight(s) = Len(BatchCells)
        <5>1. Len(disk[s].cells) = position.offset + Len(BatchCells)
          BY <4>1 DEF ActiveFile, BatchAfter
        <5>2. QED
          BY <2>0, <4>1, <5>1
      <4>2. CASE InFlight(s) = 1 /\ ((pc = "rolling" /\ s = position.segment + 1) \/ (pc = "opening" /\ s = position.segment))
        <5>1. disk[s] = NewFile
          BY <4>2 DEF ActiveFile
        <5>2. Len(disk[s].cells) = 1
          BY <2>0, <5>1, NewFileFacts
        <5>3. QED
          BY <4>2, <5>2
      <4>3. QED
        BY <3>1, <4>1, <4>2
    <3>4. kept \in Nat
      BY <2>0, <3>3
    <3>5. cells \in Cuts(disk[s], kept)
      BY <1>1
    <3> HIDE DEF kept
    <3>6. QED
      BY <1>2, <1>3, <3>2, <3>3, <3>4, <3>5, InFlightCut
  <2>3. QED
    BY <2>1, <2>2
<1>5. \A t \in Segments : Crashed(disk'[t], disk[t], t)
  BY <1>3, <1>4 DEF Crashed
<1>6. FilesWhole' /\ Held(disk)'
  BY <1>2, <1>5, CrashKeeps
<1>7. ckptFile \in Position /\ Whereabouts(ckptFile) /\ Anchored(ckptFile)
  BY DEF TypeInv, TypeOK, Checkpoints, Anchors
<1>8. Whereabouts(ckptFile)'
  <2>1. \A p \in Position : Whereabouts(p) /\ Anchored(p) => Whereabouts(p)'
    BY <1>2, <1>5, CrashKeeps
  <2>2. QED
    BY <1>2, <1>7, <2>1 DEF Whereabouts
<1>9. Checkpoints'
  <2>1. ASSUME NEW t \in unlinked PROVE ~disk'[t].live /\ disk'[t] # NoFile
    <3>1. ~disk[t].live /\ disk[t] # NoFile /\ t \in Segments
      BY DEF Checkpoints, TypeInv, TypeOK
    <3>2. disk'[t].cells = disk[t].cells
      <4>1. CASE t = s
        <5>1. InFlight(s) = 0
          BY <3>1, <4>1 DEF InFlight, AtTop
        <5>2. Len(disk[s].cells) \in Nat
          BY Numbers
        <5>3. cells \in Cuts(disk[s], Len(disk[s].cells))
          BY <1>1, <5>1, <5>2
        <5>4. QED
          BY <1>3, <4>1, <5>3, NothingCut
      <4>2. CASE t # s
        BY <1>3, <3>1, <4>2
      <4>3. QED
        BY <4>1, <4>2
    <3>3. Whole(disk[t]) /\ disk[t] \in File
      BY <1>2, <3>1, RunningWhole, Numbers DEF CrashParts
    <3>4. ~disk'[t].live
      BY <1>3, <3>1
    <3>5. QED
      BY <3>2, <3>3, <3>4, WholeIsSomething, NoFileFacts
  <2>2. QED
    BY <1>2, <1>8, <2>1 DEF Checkpoints
<1>10. ActiveFile' /\ BatchInv'
  BY <1>2 DEF ActiveFile, BatchInv
<1>11. QED
  BY <1>2, <1>6, <1>9, <1>10 DEF CrashParts

\* While the process runs, a released segment is not the one being written.
LEMMA SettledOrInFlight ==
  ASSUME TypeInv, CrashParts, OrderParts, bounds.kills = 0, NEW s \in Segments
  PROVE  \/ disk[s] = NoFile
         \/ disk[s].named /\ disk[s].synced = Len(disk[s].cells)
         \/ /\ pc = "written" /\ s = position.segment /\ disk[s].live /\ disk[s].named
            /\ disk[s].synced = position.offset
         \/ /\ \/ pc = "rolling" /\ s = position.segment + 1
               \/ pc = "opening" /\ s = position.segment
            /\ disk[s] = NewFile
BY DEF CrashParts, ActiveFile, Settling, OrderParts, AtTop

LEMMA CrashPowerLoss ==
  ASSUME TypeInv, TypeInv', CrashParts, OrderParts, PowerLoss, SameCrashes'
  PROVE  CrashParts'
<1>. ActiveFile /\ FilesWhole /\ Checkpoints /\ Anchors /\ Named /\ AtTop /\ ~refused
  BY DEF CrashParts, OrderParts
<1>a. PICK s \in Segments, back \in SUBSET unlinked : \E f \in Survivors(disk[s]) :
         disk' = [t \in Segments |->
                    IF t \in back THEN [disk[t] EXCEPT !.live = TRUE]
                    ELSE IF t = s THEN f ELSE Settled(disk[t], disk[t].cells)]
  BY DEF PowerLoss
<1>1. PICK f \in Survivors(disk[s]) :
         disk' = [t \in Segments |->
                    IF t \in back THEN [disk[t] EXCEPT !.live = TRUE]
                    ELSE IF t = s THEN f ELSE Settled(disk[t], disk[t].cells)]
  BY <1>a
<1>2. /\ pc # "down" /\ pc' = "down" /\ bounds'.kills = 0 /\ bounds.kills = 0 /\ unlinked' = {}
      /\ ckptFile' \in {ckptFile, ckptSynced} /\ ckptSynced' = ckptFile'
      /\ UNCHANGED <<acked, seen, refused>>
  BY Numbers DEF PowerLoss, Down, Count, TypeInv, TypeOK, SameCrashes, history
<1>3. \A t \in Segments : disk[t] \in File /\ disk'[t] \in File /\ Len(disk[t].cells) \in Nat
  BY Numbers DEF TypeInv, TypeOK
<1>k. key \in BOOLEAN
  BY Numbers
\* A file that is not the one cut keeps its contents, and is durable.
<1>4. ASSUME NEW t \in Segments, t \in back \/ t # s
      PROVE  /\ Crashed(disk'[t], disk[t], t)
             /\ disk'[t] = NoFile \/ (disk'[t].named /\ disk'[t].synced = Len(disk'[t].cells))
  <2>1. CASE t \in back
    <3>1. disk'[t] = [disk[t] EXCEPT !.live = TRUE]
      BY <1>1, <2>1
    <3>2. disk'[t].cells = disk[t].cells /\ disk'[t].live /\ disk'[t].named = disk[t].named
          /\ disk'[t].synced = disk[t].synced
      BY <1>3, <3>1 DEF File
    <3>3. ~disk[t].live /\ disk[t] # NoFile
      BY <2>1 DEF Checkpoints
    <3>4. Crashed(disk'[t], disk[t], t)
      BY <3>2, <3>3 DEF Crashed
    <3>5. disk[t].named /\ disk[t].synced = Len(disk[t].cells)
      BY <1>2, <1>k, <3>3, SettledOrInFlight, NewFileFacts
    <3>6. QED
      BY <3>2, <3>4, <3>5
  <2>2. CASE t \notin back /\ t # s
    <3>1. disk'[t] = Settled(disk[t], disk[t].cells)
      BY <1>1, <2>2
    <3>2. /\ disk'[t].cells = disk[t].cells /\ disk'[t].live = disk[t].live
          /\ disk'[t].named = (disk[t].named \/ disk[t].live)
          /\ disk'[t].synced = Len(disk[t].cells)
      BY <1>3, <3>1, SettledFields
    <3>3. disk[t] = NoFile => disk'[t] = NoFile
      BY <1>3, <3>2, SyncKeepsNoFile
    <3>4. Crashed(disk'[t], disk[t], t)
      BY <3>2, <3>3 DEF Crashed
    <3>5. disk[t] = NoFile \/ disk[t].named \/ disk[t].live
      BY <1>2, <1>k, SettledOrInFlight, NewFileFacts
    <3>6. QED
      BY <3>2, <3>3, <3>4, <3>5
  <2>3. QED
    BY <1>4, <2>1, <2>2
\* The file that is cut.
<1>5. ASSUME s \notin back
      PROVE  /\ Crashed(disk'[s], disk[s], s)
             /\ disk'[s] = NoFile \/ (disk'[s].named /\ disk'[s].synced = Len(disk'[s].cells))
  <2>1. disk'[s] = f /\ f \in File
    BY <1>1, <1>3, <1>5
  <2>2. CASE f \notin {Settled(disk[s], cells) : cells \in Cuts(disk[s], disk[s].synced)}
    <3>1. f = NoFile /\ ~disk[s].named
      BY <2>2 DEF Survivors
    <3>2. \/ disk[s] = NoFile
          \/ pc = "rolling" /\ s = position.segment + 1
          \/ pc = "opening" /\ s = position.segment
      BY <1>2, <3>1, SettledOrInFlight
    <3>3. QED
      BY <2>1, <3>1, <3>2, NoFileFacts DEF Crashed
  <2>3. CASE f \in {Settled(disk[s], cells) : cells \in Cuts(disk[s], disk[s].synced)}
    <3>1. PICK cells \in Cuts(disk[s], disk[s].synced) : f = Settled(disk[s], cells)
      BY <2>3
    <3>2. /\ f.cells = cells /\ f.live = disk[s].live
          /\ f.named = (disk[s].named \/ disk[s].live) /\ f.synced = Len(cells)
      BY <1>3, <3>1, SettledFields
    <3>3. CASE disk[s] = NoFile
      <4>1. cells = NoFile.cells
        BY <1>3, <3>1, <3>3, NoFileFacts, NothingCut
      <4>2. f = NoFile
        BY <2>1, <3>2, <3>3, <4>1, NoFileFacts, SyncKeepsNoFile
      <4>3. QED
        BY <2>1, <3>3, <4>2 DEF Crashed
    <3>4. CASE disk[s] # NoFile /\ disk[s].named /\ disk[s].synced = Len(disk[s].cells)
      <4>1. cells = disk[s].cells
        BY <1>3, <3>1, <3>4, NothingCut
      <4>2. QED
        BY <2>1, <3>2, <3>4, <4>1 DEF Crashed
    <3>5. CASE \/ /\ pc = "written" /\ s = position.segment /\ disk[s].live /\ disk[s].named
                  /\ disk[s].synced = position.offset
               \/ /\ \/ pc = "rolling" /\ s = position.segment + 1
                     \/ pc = "opening" /\ s = position.segment
                  /\ disk[s] = NewFile
      <4>1. disk[s].live /\ disk[s].synced \in Nat
        BY <1>k, <3>5, NewFileFacts, Numbers
      <4>2. NewFile.synced = 0
        BY <1>k, NewFileFacts
      <4>3. Crashed(f, disk[s], s)
        <5> DEFINE kept == disk[s].synced
        <5>1. \/ pc = "written" /\ s = position.segment /\ kept = position.offset
              \/ kept = 0 /\ pc = "rolling" /\ s = position.segment + 1
              \/ kept = 0 /\ pc = "opening" /\ s = position.segment
          BY <3>5, <4>2
        <5>2. kept \in Nat /\ cells \in Cuts(disk[s], kept) /\ f.live
          BY <3>2, <4>1
        <5> HIDE DEF kept
        <5>3. QED
          BY <1>2, <2>1, <3>2, <5>1, <5>2, InFlightCut
      <4>4. f.named /\ f.synced = Len(f.cells)
        BY <3>2, <4>1
      <4>5. QED
        BY <2>1, <4>3, <4>4
    <3>6. QED
      BY <1>2, <3>3, <3>4, <3>5, SettledOrInFlight
  <2>4. QED
    BY <2>2, <2>3
<1>6. \A t \in Segments : /\ Crashed(disk'[t], disk[t], t)
                          /\ disk'[t] = NoFile \/ (disk'[t].named /\ disk'[t].synced = Len(disk'[t].cells))
  BY <1>4, <1>5
<1>7. FilesWhole' /\ Held(disk)'
  BY <1>2, <1>6, CrashKeeps
<1>8. Checkpoints'
  <2>1. \A p \in Position : Whereabouts(p) /\ Anchored(p) => Whereabouts(p)'
    BY <1>2, <1>6, CrashKeeps
  <2>2. ckptFile \in Position /\ ckptSynced \in Position
    BY DEF TypeInv, TypeOK
  <2>3. \A p \in {ckptFile, ckptSynced} : Whereabouts(p)'
    BY <1>2, <2>1, <2>2 DEF Checkpoints, Anchors
  <2>4. QED
    BY <1>2, <2>3 DEF Checkpoints, Whereabouts
<1>9. \A t \in Segments : Settling(t)'
  BY <1>6 DEF Settling
<1>10. ActiveFile' /\ BatchInv'
  BY <1>2 DEF ActiveFile, BatchInv
<1>11. QED
  BY <1>2, <1>7, <1>8, <1>9, <1>10 DEF CrashParts

-----------------------------------------------------------------------------
(* CrashInv across a recovery *)

\* A scan that starts where the file can be read ends at the last cell that can.
LEMMA ValidEndIsLast ==
  ASSUME NEW f \in File, NEW start \in Nat, Readable(f, start)
  PROVE  /\ ValidEnd(f, start) \in Nat /\ ValidEnd(f, start) >= start
         /\ Readable(f, ValidEnd(f, start))
         /\ \A n : Readable(f, n) => n <= ValidEnd(f, start)
         /\ TornAfter(f, start) <=> ValidEnd(f, start) < Len(f.cells)
<1> DEFINE v == ValidEnd(f, start)
<1>0. Len(f.cells) \in Nat /\ start \in Nat \ {0} /\ ~HeaderIncomplete(f) /\ start <= Len(f.cells) /\ Scans(f, 1, start)
  BY LenProperties DEF File, Readable
<1>1. /\ v \in Nat /\ v >= start /\ Scans(f, start, v) /\ v <= Len(f.cells)
      /\ v < Len(f.cells) => ~Decodes(f, v + 1)
  BY <1>0, ValidEndProperties
<1>2. TornAfter(f, start) <=> v < Len(f.cells)
  BY <1>0 DEF TornAfter
<1> HIDE DEF v
<1>3. Scans(f, 1, v)
  BY <1>0, <1>1 DEF Scans
<1>4. Readable(f, v)
  BY <1>0, <1>1, <1>3 DEF Readable
<1>5. ASSUME NEW n, Readable(f, n) PROVE n <= v
  <2>1. n \in Nat /\ n <= Len(f.cells) /\ Scans(f, 1, n)
    BY <1>0, <1>5 DEF Readable
  <2>2. CASE n > v
    <3>1. v + 1 \in 1 + 1 .. n /\ v < Len(f.cells)
      BY <1>0, <1>1, <2>1, <2>2
    <3>2. QED
      BY <1>1, <2>1, <3>1 DEF Scans
  <2>3. QED
    BY <1>1, <2>1, <2>2
<1>6. QED
  BY <1>1, <1>2, <1>4, <1>5 DEF v

\* A recovery starts to read a file where it can be read.
LEMMA StartReadable ==
  ASSUME TypeInv, Checkpoints, NEW from \in {ckptFile, START}, NEW s \in Segments, ~HeaderIncomplete(disk[s])
  PROVE  Readable(disk[s], StartIn(s, from)) /\ StartIn(s, from) \in Nat
<1>0. disk[s].cells \in Seq(Cell) /\ Len(disk[s].cells) \in Nat /\ ckptFile.offset \in Nat
  BY Numbers
<1>1. CASE StartIn(s, from) = 1
  <2>1. disk[s].cells # <<>>
    BY DEF HeaderIncomplete
  <2>2. 1 \in 1 .. Len(disk[s].cells)
    BY <1>0, <2>1, EmptySeq
  <2>3. QED
    BY <1>1, <2>2 DEF Readable, Scans
<1>2. CASE StartIn(s, from) # 1
  <2>1. from = ckptFile /\ ckptFile # START /\ s = ckptFile.segment /\ StartIn(s, from) = ckptFile.offset
    BY <1>2 DEF StartIn, START
  <2>2. QED
    BY <1>0, <2>1 DEF Checkpoints, Whereabouts
<1>3. QED
  BY <1>1, <1>2

\* What a recovery makes of a file it reads: whole, and as long as was valid.
LEMMA ReadFile ==
  ASSUME TypeInv, Checkpoints, NEW from \in {ckptFile, START}, NEW s \in Reached(from)
  PROVE  /\ Whole(Repair(from)[s])
         /\ Len(Repair(from)[s].cells) = ValidEnd(disk[s], StartIn(s, from))
         /\ ~HeaderIncomplete(disk[s]) => Prefix(Repair(from)[s], disk[s], ValidEnd(disk[s], StartIn(s, from)))
         /\ Repair(from)[s].live /\ Repair(from)[s].named = disk[s].named
         /\ Repair(from)[s].synced = Len(Repair(from)[s].cells) \/ Repair(from)[s] = disk[s]
<1> DEFINE f == disk[s]
           g == Repair(from)[s]
           start == StartIn(s, from)
           v == ValidEnd(f, start)
<1>0. /\ s \in Segments /\ f \in File /\ f.live /\ s \in Scanned(from) /\ key \in BOOLEAN
      /\ Len(f.cells) \in Nat
  BY Numbers DEF Reached, Scanned, Live
<1>p. from \in Position
  <2>1. START \in Position
    BY WalAssumption DEF START, Position, Segments
  <2>2. QED
    BY <2>1 DEF TypeInv, TypeOK
<1>s. start \in Nat \ {0}
  BY <1>0, <1>p, StartInType
<1>1. g = IF TornAfter(f, start) THEN Repaired(f, start) ELSE f
  BY <1>0 DEF Repair, Damaged
<1>v. v = ValidEnd(f, start)
  OBVIOUS
<1>r. ~HeaderIncomplete(f) => Readable(f, start)
  BY <1>0, StartReadable
<1> HIDE DEF f, g, start, v
<1>2. CASE HeaderIncomplete(f)
  <2>1. v = 1
    BY <1>2, <1>v DEF ValidEnd
  <2>2. TornAfter(f, start)
    BY <1>2 DEF TornAfter
  <2>3. g.cells = <<Header(key)>> /\ g.synced = 1 /\ g.live = f.live /\ g.named = f.named
    <3>1. /\ Repaired(f, start).cells = <<Header(key)>> /\ Repaired(f, start).synced = 1
          /\ Repaired(f, start).live = f.live /\ Repaired(f, start).named = f.named
      BY <1>0, <1>2, <1>s, <2>2, RepairedCells
    <3>2. QED
      BY <1>1, <2>2, <3>1
  <2>4. Whole(NewFile) /\ NewFile.cells = <<Header(key)>> /\ Len(NewFile.cells) = 1
    BY <1>0, NewFileFacts
  <2>5. Whole(g) /\ Len(g.cells) = 1
    BY <2>3, <2>4 DEF Whole, Readable, HeaderIncomplete, Scans, Decodes
  <2>6. QED
    BY <1>0, <1>2, <2>1, <2>3, <2>5 DEF f, g, v, start
<1>3. CASE ~HeaderIncomplete(f)
  <2>1. Readable(f, start)
    BY <1>3, <1>r
  <2>2. v \in Nat /\ v >= start /\ Readable(f, v) /\ (TornAfter(f, start) <=> v < Len(f.cells))
    BY <1>0, <1>s, <1>v, <2>1, ValidEndIsLast
  <2>3. CASE TornAfter(f, start)
    <3>1. /\ g.cells \in Seq(Cell) /\ Len(g.cells) = v /\ g.synced = v
          /\ \A n \in 1 .. v : g.cells[n] = f.cells[n]
          /\ g.live = f.live /\ g.named = f.named
      <4>1. /\ Repaired(f, start).cells \in Seq(Cell) /\ Len(Repaired(f, start).cells) = v
            /\ Repaired(f, start).synced = v
            /\ \A n \in 1 .. v : Repaired(f, start).cells[n] = f.cells[n]
            /\ Repaired(f, start).live = f.live /\ Repaired(f, start).named = f.named
        BY <1>0, <1>3, <1>s, <1>v, <2>3, RepairedCells
      <4>2. QED
        BY <1>1, <2>3, <4>1
    <3>2. g \in File
      BY <1>0, <1>p, RepairType, BelowIsFile DEF TypeInv, TypeOK, g
    <3>3. Prefix(g, f, v)
      BY <2>2, <2>3, <3>1 DEF Prefix, Readable
    <3>4. Whole(g)
      BY <1>0, <2>2, <3>1, <3>2, <3>3, ReadablePrefix DEF Whole
    <3>5. QED
      BY <1>0, <1>3, <3>1, <3>3, <3>4 DEF f, g, v, start
  <2>4. CASE ~TornAfter(f, start)
    <3>1. g = f
      BY <1>1, <2>4
    <3>2. v = Len(f.cells)
      BY <1>0, <2>2, <2>4 DEF Readable
    <3>3. Prefix(g, f, v)
      BY <1>0, <3>1, <3>2, SameCellsPrefix
    <3>4. QED
      BY <1>0, <1>3, <2>2, <3>1, <3>2, <3>3 DEF Whole, f, g, v, start
  <2>5. QED
    BY <2>3, <2>4
<1>4. QED
  BY <1>2, <1>3

\* Only the last file is ever found damaged.
LEMMA OnlyLastDamaged ==
  ASSUME TypeInv, CrashParts, NEW from \in {ckptFile, START}, NEW s \in Damaged(from)
  PROVE  \A t \in Live : t <= s
<1>0. s \in Segments /\ disk[s].live /\ disk[s] \in File /\ Len(disk[s].cells) \in Nat /\ Segments \subseteq Nat
  BY Numbers DEF Damaged, Scanned, Live
<1>1. ~Whole(disk[s])
  <2> SUFFICES ASSUME Whole(disk[s]) PROVE FALSE
    OBVIOUS
  <2>1. Readable(disk[s], Len(disk[s].cells)) /\ ~HeaderIncomplete(disk[s])
    BY DEF Whole, Readable
  <2>2. Readable(disk[s], StartIn(s, from)) /\ StartIn(s, from) \in Nat
    BY <1>0, <2>1, StartReadable DEF CrashParts
  <2>3. ~(ValidEnd(disk[s], StartIn(s, from)) < Len(disk[s].cells))
    <3>1. Len(disk[s].cells) <= ValidEnd(disk[s], StartIn(s, from))
      BY <1>0, <2>1, <2>2, ValidEndIsLast
    <3>2. ValidEnd(disk[s], StartIn(s, from)) \in Nat
      BY <1>0, <2>2, ValidEndIsLast
    <3>3. QED
      BY <1>0, <3>1, <3>2
  <2>4. TornAfter(disk[s], StartIn(s, from))
    BY DEF Damaged
  <2>5. QED
    BY <1>0, <2>2, <2>3, <2>4, ValidEndIsLast
<1>2. NoneAbove(s)
  BY <1>0, <1>1, NoFileFacts DEF CrashParts, FilesWhole
<1>3. ASSUME NEW t \in Live PROVE t <= s
  <2>1. t \in Segments /\ disk[t].live /\ t \in Nat /\ s \in Nat
    BY <1>0 DEF Live
  <2>2. ~(t > s)
    BY <1>2, <2>1, NoFileFacts DEF NoneAbove
  <2>3. QED
    BY <2>1, <2>2
<1>4. QED
  BY <1>3

LEMMA NeverRefuses ==
  ASSUME TypeInv, CrashParts, NEW from \in {ckptFile, START}
  PROVE  Orphaned(from) = {}
<1> SUFFICES ASSUME NEW t \in Orphaned(from) PROVE FALSE
  OBVIOUS
<1>1. PICK d \in Damaged(from) : ~(t <= d)
  BY DEF Orphaned, Reached
<1>2. t \in Live
  BY DEF Orphaned, Scanned
<1>3. QED
  BY <1>1, <1>2, OnlyLastDamaged

LEMMA CrashFresh ==
  ASSUME TypeInv, TypeInv', CrashParts, OrderParts, RecoverFresh
  PROVE  CrashParts'
<1>. FilesWhole /\ Checkpoints /\ Held(disk) /\ ~refused /\ Anchors
  BY DEF CrashParts, OrderParts
<1>0. /\ pc = "down" /\ pc' = "opening" /\ Live = {} /\ Write(0, <<Header(key)>>)
      /\ position' = START /\ START.segment = 0 /\ START.offset = 1
      /\ UNCHANGED <<ckptFile, ckptSynced, unlinked, key, acked, seen, refused, bounds>>
  BY DEF RecoverFresh, history, START
<1>1. /\ 0 \in Segments /\ Segments \subseteq Nat /\ key \in BOOLEAN /\ unlinked \subseteq Segments
      /\ \A t \in Segments : disk[t] \in File /\ disk'[t] \in File
  <2>1. 0 \in Segments
    BY WalAssumption DEF Segments
  <2>2. unlinked \subseteq Segments /\ \A t \in Segments : disk'[t] \in File
    BY DEF TypeInv, TypeOK
  <2>3. QED
    BY <2>1, <2>2, Numbers
<1>2. \A s \in Segments : ~disk[s].live
  BY <1>0 DEF Live
<1>3. ckptFile = START
  BY <1>2, Numbers DEF Anchors, Anchored
<1>4. \A s \in Segments : disk[s] = NoFile
  <2>1. \A s \in Segments : ~(s < 0)
    BY <1>1
  <2>2. \A s \in Segments : disk[s].cells = <<>>
    BY <1>0, <1>2, <1>3, <2>1 DEF Anchors, Anchored
  <2>3. QED
    BY <1>1, <1>2, <2>2, WholeIsSomething DEF FilesWhole, Frayed
<1>5. acked = {} /\ seen = {}
  <2>1. \A i : ~(i \in acked \cup seen)
    BY <1>4, NoFileFacts DEF Held
  <2>2. QED
    BY <2>1
<1>6. WrittenTo(disk', disk, 0, <<Header(key)>>)
  BY <1>0, <1>1, HeaderCell, WriteStep
<1>7. disk'[0] = NewFile /\ \A t \in Segments : t # 0 => disk'[t] = NoFile
  <2>1. disk'[0] = NewFile
    BY <1>1, <1>4, <1>6, NewSegment
  <2>2. QED
    BY <1>4, <1>6, <2>1 DEF WrittenTo
<1>8. NewFile' = NewFile
  BY <1>0 DEF NewFile
<1>9. FilesWhole'
  <2>1. ASSUME NEW t \in Segments, disk'[t] # NoFile PROVE Whole(disk'[t])
    BY <1>1, <1>7, <2>1, NewFileFacts
  <2>2. QED
    BY <2>1 DEF FilesWhole
<1>10. ActiveFile'
  <2>1. \A t \in Segments : t > 0 => disk'[t] = NoFile
    BY <1>1, <1>7
  <2>2. NewFile # NoFile /\ NewFile.cells[1].sealed = key /\ Len(NewFile.cells) = 1
    BY <1>1, NewFileFacts
  <2>3. position'.segment = 0 /\ position'.offset = 1
    BY <1>0
  <2>4. disk'[position'.segment] = NewFile'
    BY <1>7, <1>8, <2>3
  <2>5. NoneAbove(position.segment)'
    BY <2>1, <2>3 DEF NoneAbove
  <2>6. QED
    BY <1>0, <1>8, <2>2, <2>3, <2>4, <2>5 DEF ActiveFile
<1>11. BatchInv' /\ Held(disk)'
  BY <1>0, <1>5 DEF BatchInv, Held
<1>12. Checkpoints'
  <2>1. unlinked = {}
    BY <1>1, <1>4 DEF Checkpoints
  <2>2. Whereabouts(START)'
    BY <1>0 DEF Whereabouts
  <2>3. bounds.kills = 0 => ckptSynced = START
    BY <1>0, <1>3 DEF Anchors
  <2>4. QED
    BY <1>0, <1>3, <2>1, <2>2, <2>3 DEF Checkpoints, Whereabouts
<1>13. \A s \in Segments : Settling(s)'
  BY <1>0, <1>7 DEF Settling
<1>14. QED
  BY <1>0, <1>9, <1>10, <1>11, <1>12, <1>13 DEF CrashParts

\* What a recovery returns can be read from the file it was in.
LEMMA EntriesHeld ==
  ASSUME TypeInv, Checkpoints, NEW from \in {ckptFile, START}, NEW i \in Entries(from)
  PROVE  \E s \in Segments : \E n \in 1 .. Len(disk[s].cells) : HeldAt(disk[s], n, i)
<1>1. PICK s \in Reached(from) :
         \E n \in StartIn(s, from) + 1 .. ValidEnd(disk[s], StartIn(s, from)) : i = disk[s].cells[n].id
  BY DEF Entries
<1>2. PICK n \in StartIn(s, from) + 1 .. ValidEnd(disk[s], StartIn(s, from)) : i = disk[s].cells[n].id
  BY <1>1
<1>3. s \in Segments /\ disk[s] \in File /\ Len(disk[s].cells) \in Nat
  BY Numbers DEF Reached, Scanned, Live
<1>4. from \in Position
  <2>1. START \in Position
    BY WalAssumption DEF START, Position, Segments
  <2>2. QED
    BY <2>1 DEF TypeInv, TypeOK
<1>5. StartIn(s, from) \in Nat \ {0}
  BY <1>3, <1>4, StartInType
<1>6. ~HeaderIncomplete(disk[s])
  BY <1>5 DEF ValidEnd
<1>7. Readable(disk[s], StartIn(s, from))
  BY <1>3, <1>6, StartReadable
<1>8. Readable(disk[s], ValidEnd(disk[s], StartIn(s, from))) /\ ValidEnd(disk[s], StartIn(s, from)) \in Nat
  BY <1>3, <1>5, <1>7, ValidEndIsLast
<1>9. n \in 1 .. ValidEnd(disk[s], StartIn(s, from)) /\ n >= 2
  BY <1>5, <1>8
<1>10. Readable(disk[s], n)
  BY <1>3, <1>8, <1>9, ReadableDown
<1>11. HeldAt(disk[s], n, i) /\ n \in 1 .. Len(disk[s].cells)
  BY <1>2, <1>9, <1>10 DEF HeldAt, Readable
<1>12. QED
  BY <1>3, <1>11

LEMMA CrashRecover ==
  ASSUME TypeInv, TypeInv', CrashParts, OrderParts, NEW from \in {ckptFile, START}, Recover(from)
  PROVE  CrashParts'
<1>. FilesWhole /\ Checkpoints /\ Held(disk) /\ ~refused /\ Anchors /\ Named
     /\ (bounds.kills = 0 => \A s \in Segments : Settling(s))
  BY DEF CrashParts, OrderParts
<1> DEFINE last == Newest(Reached(from))
           repaired == Repair(from)
           fresh == NeedsFreshSegment(repaired[last])
           v == ValidEnd(disk[last], StartIn(last, from))
<1>0. /\ pc = "down" /\ pc' = IF fresh THEN "opening" ELSE "idle"
      /\ fresh => last < MaxSegment
      /\ disk' = IF fresh THEN [repaired EXCEPT ![last + 1] = Written(@, <<Header(key)>>)] ELSE repaired
      /\ position' = IF fresh THEN [segment |-> last + 1, offset |-> 1] ELSE [segment |-> last, offset |-> v]
      /\ seen' = seen \cup Entries(from)
      /\ UNCHANGED <<ckptFile, ckptSynced, unlinked, key, acked, refused, bounds>>
      /\ Reached(from) # {} /\ Orphaned(from) = {}
  BY DEF Recover
<1>1. /\ last \in Segments /\ last \in Nat /\ disk[last].live
      /\ ckptFile.segment <= last
      /\ \A s \in Segments : s > last => ~disk[s].live /\ disk[s].cells = <<>>
  BY <1>0, NothingAfterReached DEF Anchors
<1>2. last \in Reached(from)
  <2>1. Reached(from) \in SUBSET Segments
    BY DEF Reached, Scanned, Live
  <2>2. QED
    BY <1>0, <2>1, NewestExists
<1>3. /\ Segments \subseteq Nat /\ key \in BOOLEAN /\ unlinked \subseteq Segments
      /\ \A s \in Segments : disk[s] \in File /\ disk'[s] \in File /\ Len(disk[s].cells) \in Nat
  BY Numbers DEF TypeInv, TypeOK
<1>p. from \in Position
  <2>1. START \in Position
    BY WalAssumption DEF START, Position, Segments
  <2>2. QED
    BY <2>1 DEF TypeInv, TypeOK
<1>4. /\ Whole(repaired[last]) /\ Len(repaired[last].cells) = v
      /\ ~HeaderIncomplete(disk[last]) => Prefix(repaired[last], disk[last], v)
      /\ repaired[last].live /\ repaired[last].named = disk[last].named
      /\ repaired[last].synced = Len(repaired[last].cells) \/ repaired[last] = disk[last]
  BY <1>2, ReadFile
<1>5. ASSUME NEW s \in Segments, s # last PROVE repaired[s] = disk[s]
  <2>1. CASE s \in Damaged(from) \cap Reached(from)
    <3>1. last <= s /\ s \in Live /\ s \in Nat
      BY <1>1, <1>3, <2>1, OnlyLastDamaged DEF Live, Damaged, Scanned
    <3>2. s > last
      BY <1>1, <1>5, <3>1
    <3>3. QED
      BY <1>1, <3>1, <3>2 DEF Live
  <2>2. CASE s \notin Damaged(from) \cap Reached(from)
    BY <2>2 DEF Repair
  <2>3. QED
    BY <2>1, <2>2
<1>6. ASSUME NEW s \in Segments, s > last PROVE disk[s] = NoFile
  BY <1>1, <1>3, <1>6, WholeIsSomething DEF FilesWhole, Frayed
<1>7. ASSUME NEW s \in Segments, s # last, disk[s] # NoFile PROVE Whole(disk[s])
  <2>1. s < last
    <3>1. s \in Nat
      BY <1>3
    <3>2. QED
      BY <1>1, <1>6, <1>7, <3>1
  <2>2. ~NoneAbove(s)
    BY <1>1, <2>1, NoFileFacts DEF NoneAbove
  <2>3. QED
    BY <1>7, <2>2 DEF FilesWhole
<1>8. \A s \in Segments : repaired[s] \in File
  BY <1>p, RepairType, BelowIsFile DEF TypeInv, TypeOK
<1>9. repaired = [s \in Segments |-> repaired[s]]
  BY DEF Repair
<1>10. fresh <=> repaired[last].cells[1].sealed # key
  BY DEF NeedsFreshSegment
<1>11. v \in Nat \ {0}
  <2>1. Len(repaired[last].cells) \in Nat
    BY <1>1, <1>8, LenProperties DEF File
  <2>2. QED
    BY <1>4, <2>1 DEF Whole, Readable
<1>12. \A n : Readable(disk[last], n) => n <= v
  <2> SUFFICES ASSUME NEW n, Readable(disk[last], n) PROVE n <= v
    OBVIOUS
  <2>1. ~HeaderIncomplete(disk[last])
    BY DEF Readable
  <2>2. Readable(disk[last], StartIn(last, from)) /\ StartIn(last, from) \in Nat
    BY <1>1, <2>1, StartReadable
  <2>3. QED
    BY <1>1, <1>3, <2>2, ValidEndIsLast
<1> HIDE DEF last, repaired, fresh, v
<1>13. /\ \A t \in Segments : ~(fresh /\ t = last + 1) => disk'[t] = repaired[t]
       /\ fresh => last + 1 \in Segments /\ disk'[last + 1] = NewFile /\ disk[last + 1] = NoFile
  <2>1. CASE ~fresh
    BY <1>0, <2>1
  <2>2. CASE fresh
    <3>1. last + 1 \in Segments /\ last + 1 > last /\ last + 1 # last
      BY <1>0, <1>1, <2>2, WalAssumption DEF Segments
    <3>2. disk[last + 1] = NoFile /\ repaired[last + 1] = NoFile
      BY <1>5, <1>6, <3>1
    <3>3. disk' = [t \in Segments |-> IF t = last + 1 THEN Written(repaired[t], <<Header(key)>>) ELSE repaired[t]]
      BY <1>0, <1>9, <2>2
    <3>4. WrittenTo(disk', repaired, last + 1, <<Header(key)>>)
      BY <1>3, <1>8, <3>1, <3>3, HeaderCell, WriteExtends
    <3>5. disk'[last + 1] = NewFile
      BY <1>3, <3>1, <3>2, <3>4, NewSegment
    <3>6. ASSUME NEW t \in Segments, ~(fresh /\ t = last + 1) PROVE disk'[t] = repaired[t]
      <4>1. t # last + 1
        BY <2>2, <3>6
      <4>2. QED
        BY <3>3, <4>1
    <3>7. QED
      BY <3>1, <3>2, <3>5, <3>6
  <2>3. QED
    BY <2>1, <2>2
<1>14. /\ disk'[last] = repaired[last]
       /\ \A t \in Segments : t # last /\ ~(fresh /\ t = last + 1) => disk'[t] = disk[t]
  <2>1. last # last + 1
    BY <1>1
  <2>2. QED
    BY <1>1, <1>5, <1>13, <2>1
<1>15. FilesWhole'
  <2>1. ASSUME NEW t \in Segments, disk'[t] # NoFile PROVE Whole(disk'[t])
    <3>1. CASE t = last
      BY <1>4, <1>14, <3>1
    <3>2. CASE fresh /\ t = last + 1
      BY <1>3, <1>13, <3>2, NewFileFacts
    <3>3. CASE t # last /\ ~(fresh /\ t = last + 1)
      BY <1>7, <1>14, <2>1, <3>3
    <3>4. QED
      BY <3>1, <3>2, <3>3
  <2>2. QED
    BY <2>1 DEF FilesWhole
<1>16. Held(disk)'
  <2> SUFFICES ASSUME NEW i \in acked \cup seen \cup Entries(from)
               PROVE  \E s \in Segments : \E n \in 1 .. Len(disk'[s].cells) : HeldAt(disk'[s], n, i)
    BY <1>0 DEF Held
  <2>1. PICK s \in Segments : \E n \in 1 .. Len(disk[s].cells) : HeldAt(disk[s], n, i)
    BY EntriesHeld DEF Held
  <2>2. PICK n \in 1 .. Len(disk[s].cells) : HeldAt(disk[s], n, i)
    BY <2>1
  <2>3. CASE s = last
    <3>1. ~HeaderIncomplete(disk[s]) /\ n <= v /\ n \in Nat
      BY <1>3, <1>12, <2>2, <2>3 DEF HeldAt, Readable
    <3>2. Prefix(disk'[s], disk[s], v)
      BY <1>4, <1>14, <2>3, <3>1
    <3>3. QED
      BY <1>3, <1>11, <2>2, <3>1, <3>2, HeldPrefix
  <2>4. CASE s # last
    <3>1. disk[s] # NoFile
      BY <2>2, NoFileFacts DEF HeldAt
    <3>2. disk'[s] = disk[s]
      BY <1>13, <1>14, <2>4, <3>1
    <3>3. QED
      BY <2>2, <3>2
  <2>5. QED
    BY <2>3, <2>4
<1>17. NoneAbove(position.segment)'
  <2>1. ASSUME NEW t \in Segments, t > position'.segment PROVE disk'[t] = NoFile
    <3>1. t \in Nat
      BY <1>3
    <3>2. t > last /\ t # last /\ ~(fresh /\ t = last + 1)
      BY <1>0, <1>1, <2>1, <3>1
    <3>3. QED
      BY <1>6, <1>14, <3>2
  <2>2. QED
    BY <2>1 DEF NoneAbove
<1>18. ActiveFile'
  <2>1. CASE fresh
    <3>1. position'.segment = last + 1 /\ position'.offset = 1 /\ pc' = "opening"
      BY <1>0, <2>1
    <3>2. disk'[last + 1] = NewFile /\ NewFile' = NewFile
      BY <1>0, <1>13, <2>1 DEF NewFile
    <3>3. NewFile # NoFile /\ NewFile.cells[1].sealed = key /\ Len(NewFile.cells) = 1
      BY <1>3, NewFileFacts
    <3>4. QED
      BY <1>0, <1>17, <3>1, <3>2, <3>3 DEF ActiveFile
  <2>2. CASE ~fresh
    <3>1. position'.segment = last /\ position'.offset = v /\ pc' = "idle"
      BY <1>0, <2>2
    <3>2. disk'[last] # NoFile
      BY <1>1, <1>4, <1>8, <1>14, WholeIsSomething
    <3>3. disk'[last].cells[1].sealed = key /\ Len(disk'[last].cells) = v
      BY <1>4, <1>10, <1>14, <2>2
    <3>4. QED
      BY <1>0, <1>17, <3>1, <3>2, <3>3 DEF ActiveFile
  <2>3. QED
    BY <2>1, <2>2
<1>19. BatchInv'
  BY <1>0 DEF BatchInv
<1>20. Whereabouts(ckptFile)'
  <2>0. ckptFile.segment \in Segments /\ ckptFile.segment \in Nat /\ ckptFile.offset \in Nat
    BY <1>3, Numbers
  <2>1. ASSUME ckptFile # START PROVE Readable(disk'[ckptFile.segment], ckptFile.offset)
    <3>1. Readable(disk[ckptFile.segment], ckptFile.offset)
      BY <2>1 DEF Checkpoints, Whereabouts
    <3>2. CASE ckptFile.segment = last
      <4>1. ckptFile.offset <= v /\ ~HeaderIncomplete(disk[last])
        BY <1>12, <3>1, <3>2 DEF Readable
      <4>2. Prefix(disk'[last], disk[last], v)
        BY <1>4, <1>14, <4>1
      <4>3. QED
        BY <1>1, <1>3, <1>11, <2>0, <3>1, <3>2, <4>1, <4>2, ReadablePrefix
    <3>3. CASE ckptFile.segment # last
      <4>1. ckptFile.segment # last + 1
        BY <1>1, <2>0
      <4>2. QED
        BY <1>14, <2>0, <3>1, <3>3, <4>1
    <3>4. QED
      BY <3>2, <3>3
  <2>2. ASSUME ckptFile.segment = position'.segment PROVE ckptFile.offset <= position'.offset
    <3>1. ~fresh /\ ckptFile.segment = last /\ position'.offset = v
      BY <1>0, <1>1, <2>0, <2>2
    <3>2. CASE ckptFile = START
      BY <1>11, <3>1, <3>2 DEF START
    <3>3. CASE ckptFile # START
      BY <1>12, <3>1, <3>3 DEF Checkpoints, Whereabouts
    <3>4. QED
      BY <3>2, <3>3
  <2>3. pc' = "opening" => ckptFile.segment # position'.segment
    <3>1. pc' = "opening" => position'.segment = last + 1
      BY <1>0
    <3>2. QED
      BY <1>1, <2>0, <3>1
  <2>4. QED
    BY <1>0, <2>1, <2>2, <2>3 DEF Whereabouts
<1>21. Checkpoints'
  <2>1. bounds.kills = 0 => ckptSynced = ckptFile
    BY <1>0 DEF Anchors
  <2>2. ASSUME NEW t \in unlinked PROVE ~disk'[t].live /\ disk'[t] # NoFile
    <3>1. t \in Segments /\ ~disk[t].live /\ disk[t] # NoFile
      BY <1>3 DEF Checkpoints
    <3>2. t # last /\ ~(fresh /\ t = last + 1)
      BY <1>1, <1>13, <3>1
    <3>3. QED
      BY <1>14, <3>1, <3>2
  <2>3. QED
    BY <1>0, <1>20, <2>1, <2>2 DEF Checkpoints, Whereabouts
<1>22. ASSUME bounds.kills = 0, NEW s \in Segments PROVE Settling(s)'
  <2>1. \A t \in Segments : disk[t] = NoFile \/ (disk[t].named /\ disk[t].synced = Len(disk[t].cells))
    BY <1>0, <1>22 DEF Settling
  <2>2. CASE s = last
    <3>1. disk[last].named /\ disk[last].synced = Len(disk[last].cells)
      BY <1>1, <2>1, NoFileFacts
    <3>2. QED
      BY <1>4, <1>14, <2>2, <3>1 DEF Settling
  <2>3. CASE fresh /\ s = last + 1
    BY <1>0, <2>3 DEF Settling
  <2>4. CASE s # last /\ ~(fresh /\ s = last + 1)
    BY <1>14, <2>1, <2>4 DEF Settling
  <2>5. QED
    BY <2>2, <2>3, <2>4
<1>23. QED
  BY <1>0, <1>15, <1>16, <1>18, <1>19, <1>21, <1>22 DEF CrashParts

LEMMA CrashInvStep == TypeInv /\ TypeInv' /\ OrderInv /\ CrashInv /\ [Next]_vars => CrashInv'
<1> SUFFICES ASSUME TypeInv, TypeInv', OrderInv, CrashInv, [Next]_vars, OneKindOfCrash' PROVE CrashParts'
  BY DEF CrashInv
<1>1. CrashParts /\ OrderParts /\ SameCrashes' /\ bounds'.faults = 0
  BY CrashesStay DEF OrderInv, OrderParts, CrashInv, OneKindOfCrash, NoFault
<1>2. CASE UNCHANGED vars
  <2>1. /\ disk' = disk /\ pc' = pc /\ position' = position /\ batch' = batch /\ acked' = acked
        /\ seen' = seen /\ ckptFile' = ckptFile /\ ckptSynced' = ckptSynced /\ unlinked' = unlinked
        /\ bounds' = bounds /\ refused' = refused /\ key' = key
    BY <1>2 DEF vars, files, memory, history
  <2>. /\ FilesWhole /\ ActiveFile /\ BatchInv /\ Checkpoints /\ Held(disk) /\ ~refused
       /\ (bounds.kills = 0 => \A s \in Segments : Settling(s))
    BY <1>1 DEF CrashParts
  <2>2. FilesWhole'
    BY <2>1 DEF FilesWhole, NoneAbove
  <2>3. ActiveFile'
    BY <2>1 DEF ActiveFile, NoneAbove, NewFile, BatchAfter, BatchCells
  <2>4. BatchInv'
    BY <2>1 DEF BatchInv
  <2>5. Checkpoints'
    BY <2>1 DEF Checkpoints, Whereabouts
  <2>6. Held(disk)'
    BY <2>1 DEF Held
  <2>7. bounds'.kills = 0 => \A s \in Segments : Settling(s)'
    BY <2>1 DEF Settling
  <2>8. QED
    BY <2>1, <2>2, <2>3, <2>4, <2>5, <2>6, <2>7 DEF CrashParts
<1>3. ~WriteFails /\ ~SyncFails /\ ~RollFails /\ ~DirSyncFails
  <2>1. ~Fails
    <3>1. Count("faults") => bounds'.faults = bounds.faults + 1
      BY DEF Count, TypeInv, TypeOK
    <3>2. bounds.faults \in Nat
      BY Numbers
    <3>3. QED
      BY <1>1, <3>1, <3>2 DEF Fails
  <2>2. QED
    BY <2>1 DEF WriteFails, SyncFails, RollFails, DirSyncFails
<1>4. \A from \in {ckptFile, START} : ~RecoverRefuses(from)
  BY <1>1, NeverRefuses DEF RecoverRefuses
<1>5. CASE Next
  BY <1>1, <1>3, <1>4, <1>5, CrashMemory, CrashRekey, CrashRoll, CrashRollDone, CrashWriteBatch, CrashAck,
     CrashRelease, CrashSyncDir, CrashKill, CrashPowerLoss, CrashFresh, CrashRecover DEF Next, RecoverAny
<1>6. QED
  BY <1>2, <1>5

-----------------------------------------------------------------------------
(* What the invariants give *)

\* The next append's place: NoneAbove says no file lies after the last.
LEMMA CrashInvGivesPosition == TypeInv /\ CrashInv => PositionAtEnd
<1> SUFFICES ASSUME TypeInv, CrashParts, pc = "idle"
             PROVE  /\ position.offset = Len(disk[position.segment].cells)
                    /\ \A s \in Live : s <= position.segment
  BY DEF CrashInv, PositionAtEnd
<1>1. position.offset = Len(disk[position.segment].cells) /\ NoneAbove(position.segment)
  BY DEF CrashParts, ActiveFile
<1>2. position.segment \in Nat
  BY Numbers
<1>3. ASSUME NEW s \in Live PROVE s <= position.segment
  <2>1. s \in Segments /\ s \in Nat /\ disk[s].live
    BY <1>3, Numbers DEF Live
  <2>2. ~(s > position.segment)
    BY <1>1, <2>1, NoFileFacts DEF NoneAbove
  <2>3. QED
    BY <1>2, <2>1, <2>2
<1>4. QED
  BY <1>1, <1>3

LEMMA CrashInvReopens == TypeInv /\ OrderInv /\ CrashInv => AlwaysReopens
<1> SUFFICES ASSUME TypeInv, OrderInv, CrashInv, OneKindOfCrash PROVE AlwaysReopens
  BY DEF AlwaysReopens, CheckpointReadable, NeverOrphaned
<1>0. CrashParts /\ OrderParts
  BY DEF CrashInv, OrderInv, OrderParts, OneKindOfCrash
<1>1. Anchored(ckptFile) /\ Whereabouts(ckptFile) /\ ~refused
  BY <1>0 DEF CrashParts, OrderParts, Checkpoints, Anchors
<1>2. CheckpointReadable
  BY <1>1 DEF CheckpointReadable, Anchored, Whereabouts, Readable
<1>3. QED
  BY <1>1, <1>2 DEF AlwaysReopens, NeverOrphaned

LEMMA HeldIsHeld ==
  ASSUME NEW f \in File, NEW n \in 1 .. Len(f.cells), NEW i, HeldAt(f, n, i)
  PROVE  Holds(f, i)
<1>1. Len(f.cells) \in Nat
  BY LenProperties DEF File
<1>2. n \in 2 .. Len(f.cells)
  BY <1>1 DEF HeldAt
<1>3. QED
  BY <1>2 DEF HeldAt, Readable, Holds

\* What the fsyncs have covered is the file's beginning.
LEMMA SyncedPrefix ==
  ASSUME NEW f \in File, f.named, f.synced <= Len(f.cells)
  PROVE  SyncedPart(f) \in File /\ Prefix(SyncedPart(f), f, f.synced)
<1>1. f.cells \in Seq(Cell) /\ Len(f.cells) \in Nat /\ f.synced \in Nat
  BY LenProperties DEF File
<1> DEFINE cut == SubSeq(f.cells, 1, f.synced)
<1>2. SyncedPart(f) = [f EXCEPT !.cells = cut]
  BY DEF SyncedPart
<1>3. cut \in Seq(Cell) /\ Len(cut) = f.synced /\ \A i \in 1 .. f.synced : cut[i] = f.cells[i]
  BY <1>1, PrefixOfCells
<1>. HIDE DEF cut
<1>4. SyncedPart(f) \in File /\ SyncedPart(f).cells = cut
  BY <1>2, <1>3 DEF File
<1>5. QED
  BY <1>1, <1>3, <1>4 DEF Prefix

LEMMA CrashInvLosesNothing == TypeInv /\ OrderInv /\ CrashInv => NothingLost
<1>a. ASSUME OnlyPowerLosses PROVE OneKindOfCrash /\ bounds.kills = 0
  BY <1>a DEF OnlyPowerLosses, OneKindOfCrash, SameCrashes
<1> SUFFICES ASSUME TypeInv, OrderInv, CrashInv, OneKindOfCrash PROVE NothingLost
  BY <1>a DEF NothingLost, SurvivesCrashes, AckedDurable
<1>0. CrashParts /\ OrderParts
  BY DEF CrashInv, OrderInv, OrderParts, OneKindOfCrash
<1>1. \A s \in Segments : disk[s] \in File
  BY Numbers
<1>2. ASSUME NEW i \in acked \cup seen PROVE \E s \in Segments : Holds(disk[s], i)
  <2>1. PICK s \in Segments : \E n \in 1 .. Len(disk[s].cells) : HeldAt(disk[s], n, i)
    BY <1>0, <1>2 DEF CrashParts, Held
  <2>2. QED
    BY <1>1, <2>1, HeldIsHeld
<1>3. ASSUME bounds.kills = 0, NEW i \in acked PROVE \E s \in Segments : Holds(SyncedPart(disk[s]), i)
  <2>1. PICK s \in Segments : \E n \in 1 .. Len(disk[s].cells) : HeldAt(disk[s], n, i)
    BY <1>0, <1>3 DEF CrashParts, Held
  <2>2. PICK n \in 1 .. Len(disk[s].cells) : HeldAt(disk[s], n, i)
    BY <2>1
  <2>3. disk[s] \in File /\ Len(disk[s].cells) \in Nat /\ disk[s].synced \in Nat
    BY <1>1, LenProperties DEF File
  <2>4. disk[s] # NoFile /\ disk[s] # NewFile
    <3>1. key \in BOOLEAN
      BY DEF TypeInv, TypeOK
    <3>2. QED
      BY <2>2, <3>1, NoFileFacts, NewFileFacts DEF HeldAt
  <2>5. disk[s].named /\ disk[s].synced <= Len(disk[s].cells) /\ n <= disk[s].synced
    <3>1. CASE disk[s].named /\ disk[s].synced = Len(disk[s].cells)
      BY <2>3, <3>1
    <3>2. CASE pc = "written" /\ s = position.segment /\ disk[s].named /\ disk[s].synced = position.offset
      <4>1. n <= position.offset
        BY <1>0, <1>3, <2>2, <3>2, HeldBefore DEF CrashParts
      <4>2. position.offset <= Len(disk[s].cells)
        <5>1. BatchAfter(disk[s], position.offset)
          BY <1>0, <3>2 DEF CrashParts, ActiveFile
        <5>2. Len(BatchCells) \in Nat /\ position.offset \in Nat
          BY BatchCellsIds, Numbers
        <5>3. QED
          BY <5>1, <5>2 DEF BatchAfter
      <4>3. QED
        BY <3>2, <4>1, <4>2
    <3>3. QED
      BY <1>0, <1>3, <2>4, <3>1, <3>2, SettledOrInFlight
  <2>6. SyncedPart(disk[s]) \in File /\ Prefix(SyncedPart(disk[s]), disk[s], disk[s].synced)
    BY <2>3, <2>5, SyncedPrefix
  <2>7. n \in Nat /\ n \in 1 .. Len(SyncedPart(disk[s]).cells) /\ HeldAt(SyncedPart(disk[s]), n, i)
    BY <2>2, <2>3, <2>5, <2>6, HeldPrefix
  <2>8. QED
    BY <2>6, <2>7, HeldIsHeld
<1>4. QED
  BY <1>a, <1>2, <1>3 DEF NothingLost, SurvivesCrashes, AckedDurable

-----------------------------------------------------------------------------
(* The theorems *)

LEMMA SafetyInvariants == Spec => [](TypeInv /\ OrderInv /\ CrashInv)
<1>1. Init => TypeInv /\ OrderInv /\ CrashInv
  BY InitTypeInv, InitOrderInv, InitCrashInv
<1>2. TypeInv /\ [Next]_vars => TypeInv'
  BY TypeInvStep
<1>3. TypeInv /\ TypeInv' /\ OrderInv /\ [Next]_vars => OrderInv'
  BY OrderInvStep
<1>4. TypeInv /\ TypeInv' /\ OrderInv /\ CrashInv /\ [Next]_vars => CrashInv'
  BY CrashInvStep
<1>5. QED
  BY <1>1, <1>2, <1>3, <1>4, PTL DEF Spec

\* However many segments, batches and crashes of one kind: every acknowledged or
\* recovered record stays readable from its segment's header, and while only the
\* machine fails every acknowledged one is within what its fsyncs covered.
THEOREM LogLosesNothing == Spec => []NothingLost
<1>1. TypeInv /\ OrderInv /\ CrashInv => NothingLost
  BY CrashInvLosesNothing
<1>2. QED
  BY <1>1, SafetyInvariants, PTL

\* Whatever I/O errors there are, and whichever kind of crash, records are read
\* in the order they were submitted, each once; without I/O errors the next
\* append lands at the end of the last file.
THEOREM LogKeepsOrder == Spec => []OrderKept
<1>1. TypeInv /\ OrderInv /\ CrashInv => OrderKept
  BY OrderInvGivesInOrder, CrashInvGivesPosition DEF OrderKept
<1>2. QED
  BY <1>1, SafetyInvariants, PTL

\* The checkpoint a recovery would use can be read up to its offset and names a
\* live segment, and recovery never refuses what crashes alone have done.
THEOREM LogAlwaysReopens == Spec => []AlwaysReopens
<1>1. TypeInv /\ OrderInv /\ CrashInv => AlwaysReopens
  BY CrashInvReopens
<1>2. QED
  BY <1>1, SafetyInvariants, PTL


-----------------------------------------------------------------------------
(* One sequence of several: what FlattenSeq computes.  Its table holds the    *)
(* concatenation of the first i parts at i; that there is one is proved up    *)
(* to each length in turn.                                                    *)

LEMMA Counting ==
  ASSUME NEW n \in Nat \ {0}, NEW Q, 1 \in Q, \A i \in 2 .. n : i - 1 \in Q => i \in Q
  PROVE  n \in Q
<1>1. SUFFICES ASSUME n \notin Q PROVE FALSE
  OBVIOUS
<1> DEFINE T == {i \in Nat : i \in 1 .. n /\ i \notin Q}
<1>2. T \in SUBSET Nat /\ T # {} /\ \A i \in T : i \in 1 .. n /\ i \notin Q
  BY <1>1
<1>3. \A i \in 1 .. n : i \notin Q => i \in T
  OBVIOUS
<1> HIDE DEF T
<1>4. Oldest(T) \in T /\ \A t \in T : Oldest(T) <= t
  BY <1>2, OldestExists
<1>5. Oldest(T) \in 1 .. n /\ Oldest(T) \notin Q
  BY <1>2, <1>4
<1>6. Oldest(T) # 1
  BY <1>5
<1>7. Oldest(T) \in 2 .. n /\ Oldest(T) - 1 \in 1 .. n
  BY <1>5, <1>6
<1>8. Oldest(T) - 1 \notin T
  BY <1>4, <1>7
<1>9. Oldest(T) - 1 \in Q
  BY <1>3, <1>7, <1>8
<1>10. QED
  BY <1>5, <1>7, <1>9

Then(s, t) == s \o t

LEMMA ThenProperties ==
  ASSUME NEW S, NEW s \in Seq(S), NEW t \in Seq(S)
  PROVE  Then(s, t) \in Seq(S) /\ Then(s, <<>>) = s
BY ConcatProperties, ConcatEmptySeq DEF Then

LEMMA ThenAssociative ==
  ASSUME NEW S, NEW s \in Seq(S), NEW t \in Seq(S), NEW u \in Seq(S)
  PROVE  Then(s, Then(t, u)) = Then(Then(s, t), u)
BY ConcatAssociative DEF Then

Joins(P, parts, n) == P = [i \in 1 .. n |-> IF i = 1 THEN parts[i] ELSE Then(P[i - 1], parts[i])]

LEMMA JoinsExist ==
  ASSUME NEW n \in Nat \ {0}, NEW parts
  PROVE  \E P : Joins(P, parts, n)
<1> DEFINE Q == {m \in Nat : \E P : Joins(P, parts, m)}
<1>1. 1 \in Q
  <2>1. Joins([i \in 1 .. 1 |-> parts[i]], parts, 1)
    BY DEF Joins
  <2>2. QED
    BY <2>1
<1>2. ASSUME NEW m \in 2 .. n, m - 1 \in Q PROVE m \in Q
  <2>1. PICK P : Joins(P, parts, m - 1)
    BY <1>2
  <2> DEFINE R == [i \in 1 .. m |-> IF i = m THEN Then(P[m - 1], parts[m]) ELSE P[i]]
  <2>2. \A i \in 1 .. m - 1 : R[i] = P[i] /\ P[i] = IF i = 1 THEN parts[i] ELSE Then(P[i - 1], parts[i])
    BY <2>1 DEF Joins
  <2>3. \A i \in 1 .. m : R[i] = IF i = 1 THEN parts[i] ELSE Then(R[i - 1], parts[i])
    <3>1. ASSUME NEW i \in 1 .. m, i # m PROVE R[i] = IF i = 1 THEN parts[i] ELSE Then(R[i - 1], parts[i])
      <4>1. i \in 1 .. m - 1
        BY <3>1
      <4>2. CASE i = 1
        BY <2>2, <4>1, <4>2
      <4>3. CASE i # 1
        <5>1. i - 1 \in 1 .. m - 1
          BY <4>1, <4>3
        <5>2. R[i] = P[i] /\ R[i - 1] = P[i - 1] /\ P[i] = Then(P[i - 1], parts[i])
          BY <2>2, <4>1, <4>3, <5>1
        <5>3. QED
          BY <4>3, <5>2
      <4>4. QED
        BY <4>2, <4>3
    <3>2. R[m] = Then(R[m - 1], parts[m]) /\ m # 1
      <4>1. m - 1 \in 1 .. m - 1 /\ m \in 1 .. m
        OBVIOUS
      <4>2. R[m] = Then(P[m - 1], parts[m])
        BY <4>1
      <4>3. R[m - 1] = P[m - 1]
        BY <2>2, <4>1
      <4>4. QED
        BY <4>2, <4>3
    <3>3. QED
      BY <3>1, <3>2
  <2>4. R = [i \in 1 .. m |-> R[i]]
    OBVIOUS
  <2> HIDE DEF R
  <2>5. R = [i \in 1 .. m |-> IF i = 1 THEN parts[i] ELSE Then(R[i - 1], parts[i])]
    BY <2>3, <2>4
  <2>6. QED
    BY <2>5 DEF Joins
<1> HIDE DEF Q
<1>3. n \in Q
  BY <1>1, <1>2, Counting
<1>4. QED
  BY <1>3 DEF Q

LEMMA FlattenJoins ==
  ASSUME NEW S, NEW parts \in Seq(Seq(S)), Len(parts) # 0
  PROVE  \E P : Joins(P, parts, Len(parts)) /\ FlattenSeq(parts) = P[Len(parts)]
<1> DEFINE n == Len(parts)
<1>1. n \in Nat \ {0}
  OBVIOUS
<1> DEFINE P == CHOOSE flatten : Joins(flatten, parts, n)
<1>2. Joins(P, parts, n)
  BY <1>1, JoinsExist
<1>3. FlattenSeq(parts) = P[Len(parts)]
  BY <1>1 DEF FlattenSeq, Joins, Then
<1>4. QED
  BY <1>2, <1>3

LEMMA JoinsStep ==
  ASSUME NEW S, NEW n \in Nat \ {0}, NEW parts \in [1 .. n -> Seq(S)], NEW P, Joins(P, parts, n)
  PROVE  /\ P[1] = parts[1]
         /\ \A i \in 2 .. n : P[i] = Then(P[i - 1], parts[i])
         /\ \A i \in 1 .. n : P[i] \in Seq(S)
<1>1. P[1] = parts[1]
  BY DEF Joins
<1>2. ASSUME NEW i \in 2 .. n PROVE P[i] = Then(P[i - 1], parts[i])
  BY DEF Joins
<1>3. ASSUME NEW m \in 1 .. n PROVE P[m] \in Seq(S)
  <2> DEFINE Q == {i \in 1 .. n : P[i] \in Seq(S)}
  <2>1. 1 \in Q
    BY <1>1
  <2>2. ASSUME NEW i \in 2 .. m, i - 1 \in Q PROVE i \in Q
    <3>1. P[i] = Then(P[i - 1], parts[i])
      BY <1>2
    <3>2. P[i - 1] \in Seq(S) /\ parts[i] \in Seq(S)
      BY <2>2
    <3>3. QED
      BY <3>1, <3>2, ThenProperties
  <2>3. m \in Nat \ {0}
    OBVIOUS
  <2> HIDE DEF Q
  <2>4. m \in Q
    BY <2>1, <2>2, <2>3, Counting
  <2>5. QED
    BY <2>4 DEF Q
<1>4. QED
  BY <1>1, <1>2, <1>3

LEMMA TableIsSeq ==
  ASSUME NEW S, NEW n \in Nat, NEW table \in [1 .. n -> S]
  PROVE  table \in Seq(S) /\ Len(table) = n
OBVIOUS

\* The whole has no elements but those of its parts.
LEMMA FlattenType ==
  ASSUME NEW S, NEW n \in Nat \ {0}, NEW parts \in [1 .. n -> Seq(S)]
  PROVE  FlattenSeq(parts) \in Seq(S)
<1>1. parts \in Seq(Seq(S)) /\ Len(parts) = n
  BY TableIsSeq
<1>2. PICK P : Joins(P, parts, n) /\ FlattenSeq(parts) = P[n]
  BY <1>1, FlattenJoins
<1>3. P[n] \in Seq(S)
  BY <1>2, JoinsStep
<1>4. QED
  BY <1>2, <1>3

LEMMA FlattenEmpty ==
  ASSUME NEW n \in Nat \ {0}
  PROVE  FlattenSeq([i \in 1 .. n |-> <<>>]) = <<>>
<1> DEFINE parts == [i \in 1 .. n |-> <<>>]
<1>1. parts \in [1 .. n -> Seq({})]
  OBVIOUS
<1> HIDE DEF parts
<1>2. FlattenSeq(parts) \in Seq({})
  BY <1>1, FlattenType
<1>3. QED
  BY <1>2 DEF parts

\* What is added to the last part that is not empty is added to the whole.
AppendsAt(S, n, more, parts, k, tail) ==
    /\ n \in Nat \ {0} /\ k \in 1 .. n /\ tail \in Seq(S)
    /\ parts \in [1 .. n -> Seq(S)] /\ more \in [1 .. n -> Seq(S)]
    /\ \A i \in 1 .. n : i < k => more[i] = parts[i]
    /\ more[k] = Then(parts[k], tail)
    /\ \A i \in 1 .. n : i > k => more[i] = <<>> /\ parts[i] = <<>>

LEMMA FlattenAppends ==
  ASSUME NEW S, NEW n, NEW more, NEW parts, NEW k, NEW tail, AppendsAt(S, n, more, parts, k, tail)
  PROVE  FlattenSeq(more) = Then(FlattenSeq(parts), tail)
<1>. n \in Nat \ {0} /\ tail \in Seq(S) /\ parts \in [1 .. n -> Seq(S)] /\ more \in [1 .. n -> Seq(S)]
  BY DEF AppendsAt
<1>0. /\ k \in 1 .. n
      /\ \A i \in 1 .. n : i < k => more[i] = parts[i]
      /\ more[k] = Then(parts[k], tail)
      /\ \A i \in 1 .. n : i > k => more[i] = <<>> /\ parts[i] = <<>>
  BY DEF AppendsAt
<1>1. parts \in Seq(Seq(S)) /\ Len(parts) = n /\ more \in Seq(Seq(S)) /\ Len(more) = n
  BY TableIsSeq
<1>2. PICK P : Joins(P, parts, n) /\ FlattenSeq(parts) = P[n]
  BY <1>1, FlattenJoins
<1>3. PICK R : Joins(R, more, n) /\ FlattenSeq(more) = R[n]
  BY <1>1, FlattenJoins
<1>4. /\ P[1] = parts[1]
      /\ \A i \in 2 .. n : P[i] = Then(P[i - 1], parts[i])
      /\ \A i \in 1 .. n : P[i] \in Seq(S)
  BY <1>2, JoinsStep
<1>5. /\ R[1] = more[1]
      /\ \A i \in 2 .. n : R[i] = Then(R[i - 1], more[i])
      /\ \A i \in 1 .. n : R[i] \in Seq(S)
  BY <1>3, JoinsStep
<1> DEFINE Q == {i \in 1 .. n : R[i] = IF i < k THEN P[i] ELSE Then(P[i], tail)}
<1>6. 1 \in Q
  BY <1>0, <1>4, <1>5
<1>7. ASSUME NEW i \in 2 .. n, i - 1 \in Q PROVE i \in Q
  <2>0. /\ i \in 1 .. n /\ i - 1 \in 1 .. n /\ P[i - 1] \in Seq(S) /\ parts[i] \in Seq(S)
        /\ R[i] = Then(R[i - 1], more[i]) /\ P[i] = Then(P[i - 1], parts[i])
        /\ R[i - 1] = IF i - 1 < k THEN P[i - 1] ELSE Then(P[i - 1], tail)
    BY <1>4, <1>5, <1>7
  <2>1. CASE i < k
    <3>1. R[i - 1] = P[i - 1] /\ more[i] = parts[i]
      BY <1>0, <2>0, <2>1
    <3>2. QED
      BY <1>0, <2>0, <2>1, <3>1
  <2>2. CASE i = k
    <3>1. R[i] = Then(P[i - 1], Then(parts[i], tail))
      BY <1>0, <2>0, <2>2
    <3>2. R[i] = Then(Then(P[i - 1], parts[i]), tail)
      <4>1. P[i - 1] \in Seq(S) /\ parts[i] \in Seq(S)
        BY <2>0
      <4>2. Then(P[i - 1], Then(parts[i], tail)) = Then(Then(P[i - 1], parts[i]), tail)
        BY <4>1, ThenAssociative, SMTT(20)
      <4>3. QED
        BY <3>1, <4>2
    <3>3. QED
      BY <1>0, <2>0, <2>2, <3>2
  <2>3. CASE i > k
    <3>1. R[i - 1] = Then(P[i - 1], tail) /\ more[i] = <<>> /\ parts[i] = <<>>
      BY <1>0, <2>0, <2>3
    <3>2. Then(P[i - 1], tail) \in Seq(S)
      BY <1>0, <2>0, ThenProperties
    <3>3. R[i] = Then(P[i - 1], tail) /\ P[i] = P[i - 1]
      BY <1>0, <2>0, <3>1, <3>2, ThenProperties
    <3>4. QED
      BY <1>0, <2>0, <2>3, <3>3
  <2>4. QED
    BY <1>0, <2>1, <2>2, <2>3
<1> HIDE DEF Q
<1>8. n \in Q
  BY <1>6, <1>7, Counting
<1>9. R[n] = Then(P[n], tail)
  BY <1>0, <1>8 DEF Q
<1>10. QED
  BY <1>2, <1>3, <1>9

-----------------------------------------------------------------------------
(* The refinement of DurableLog: what a power loss at this instant would leave *)
(* to read in each file, and what each step makes of it.                       *)

DurableIds(f) ==
    LET g == SyncedPart(f)
        n == IF HeaderIncomplete(g) THEN 1 ELSE ValidEnd(g, 1)
    IN  [i \in 1 .. n - 1 |-> g.cells[i + 1].id]

\* The records of cells 2 to k.
IdsTo(f, k) == [i \in 1 .. k - 1 |-> f.cells[i + 1].id]

LEMMA NoIds ==
  ASSUME NEW f
  PROVE  IdsTo(f, 0) = <<>> /\ IdsTo(f, 1) = <<>>
BY DEF IdsTo

LEMMA UnnamedHasNone ==
  ASSUME NEW f \in File, ~f.named
  PROVE  DurableIds(f) = <<>>
<1>1. SyncedPart(f) = NoFile
  BY DEF SyncedPart
<1>2. HeaderIncomplete(NoFile)
  BY NoFileFacts DEF HeaderIncomplete
<1>3. QED
  BY <1>1, <1>2 DEF DurableIds

\* What is durable of a named file: the synced cells.
LEMMA SyncedCells ==
  ASSUME NEW f \in File, f.named, f.synced <= Len(f.cells)
  PROVE  /\ SyncedPart(f) \in File /\ Prefix(SyncedPart(f), f, f.synced)
         /\ Len(SyncedPart(f).cells) = f.synced /\ SyncedPart(f).cells \in Seq(Cell)
<1>1. SyncedPart(f) \in File /\ Prefix(SyncedPart(f), f, f.synced)
  BY SyncedPrefix
<1>2. SyncedPart(f).cells = SubSeq(f.cells, 1, f.synced)
  BY DEF SyncedPart, File
<1>3. f.cells \in Seq(Cell) /\ f.synced \in Nat
  BY DEF File
<1>4. Len(SubSeq(f.cells, 1, f.synced)) = f.synced
  BY <1>3, PrefixOfCells
<1>5. QED
  BY <1>1, <1>2, <1>4 DEF File

LEMMA HeaderlessHasNone ==
  ASSUME NEW f \in File, f.synced <= Len(f.cells), HeaderIncomplete(f)
  PROVE  DurableIds(f) = <<>>
<1>1. CASE ~f.named
  BY <1>1, UnnamedHasNone
<1>2. CASE f.named
  <2> DEFINE g == SyncedPart(f)
  <2>1. /\ g \in File /\ Prefix(g, f, f.synced)
        /\ Len(g.cells) = f.synced /\ g.cells \in Seq(Cell)
    BY <1>2, SyncedCells
  <2>2. f.synced \in Nat
    BY DEF File
  <2> HIDE DEF g
  <2>3. HeaderIncomplete(g)
    <3>1. CASE f.synced = 0
      BY <2>1, <3>1 DEF HeaderIncomplete
    <3>2. CASE f.synced # 0
      <4>1. g.cells[1] = f.cells[1] /\ Len(f.cells) # 0
        BY <2>1, <2>2, <3>2 DEF Prefix
      <4>2. f.cells # <<>>
        BY <4>1, EmptySeq DEF File
      <4>3. QED
        BY <4>1, <4>2 DEF HeaderIncomplete
    <3>3. QED
      BY <3>1, <3>2
  <2>4. QED
    BY <2>3 DEF DurableIds, g
<1>3. f.named \in BOOLEAN
  BY Zenon DEF File
<1>4. QED
  BY <1>1, <1>2, <1>3

\* A file readable to k, with nothing durable that decodes after it.
LEMMA ReadableHas ==
  ASSUME NEW f \in File, f.named, f.synced <= Len(f.cells),
         NEW k \in Nat, Readable(f, k), k <= f.synced,
         k < f.synced => ~Decodes(f, k + 1)
  PROVE  DurableIds(f) = IdsTo(f, k)
<1> DEFINE g == SyncedPart(f)
<1>1. /\ g \in File /\ Prefix(g, f, f.synced)
      /\ Len(g.cells) = f.synced /\ g.cells \in Seq(Cell)
  BY SyncedCells
<1>2. f.synced \in Nat /\ k \in 1 .. f.synced
  BY DEF File, Readable
<1> HIDE DEF g
<1>3. Prefix(g, f, k) /\ Prefix(f, g, k)
  BY <1>1, <1>2 DEF Prefix
<1>4. Readable(g, k)
  BY <1>1, <1>3, ReadablePrefix
<1>5. /\ ~HeaderIncomplete(g)
      /\ ValidEnd(g, 1) \in Nat /\ Readable(g, ValidEnd(g, 1))
      /\ k <= ValidEnd(g, 1)
  <2>1. 1 \in 1 .. k
    BY <1>2
  <2>2. Readable(g, 1)
    BY <1>1, <1>4, <2>1, ReadableDown
  <2>3. QED
    BY <1>1, <1>4, <2>2, ValidEndIsLast DEF Readable
<1>6. ValidEnd(g, 1) = k
  <2>1. SUFFICES ASSUME ValidEnd(g, 1) > k PROVE FALSE
    BY <1>2, <1>5
  <2>2. ValidEnd(g, 1) <= Len(g.cells) /\ Scans(g, 1, ValidEnd(g, 1))
    BY <1>5 DEF Readable
  <2>3. k + 1 \in 2 .. ValidEnd(g, 1) /\ k + 1 <= f.synced
    BY <1>1, <1>2, <1>5, <2>1, <2>2
  <2>4. Decodes(g, k + 1)
    BY <1>5, <2>2, <2>3 DEF Scans
  <2>5. g.cells[k + 1] = f.cells[k + 1] /\ g.cells[1] = f.cells[1]
    BY <1>1, <1>2, <2>3 DEF Prefix
  <2>6. Decodes(f, k + 1)
    BY <2>4, <2>5 DEF Decodes
  <2>7. QED
    BY <1>2, <2>3, <2>6
<1>7. DurableIds(f) = [i \in 1 .. k - 1 |-> g.cells[i + 1].id]
  BY <1>5, <1>6 DEF DurableIds, g
<1>8. \A i \in 1 .. k - 1 : g.cells[i + 1] = f.cells[i + 1]
  BY <1>2, <1>3 DEF Prefix
<1>9. QED
  BY <1>7, <1>8 DEF IdsTo

LEMMA WholeHas ==
  ASSUME NEW f \in File, f.named, f.synced = Len(f.cells), Whole(f)
  PROVE  DurableIds(f) = IdsTo(f, Len(f.cells))
<1>1. Len(f.cells) \in Nat
  BY LenProperties DEF File
<1>2. QED
  BY <1>1, ReadableHas DEF Whole

LEMMA SameDurable ==
  ASSUME NEW f \in File, NEW g \in File, g.cells = f.cells, g.synced = f.synced, g.named = f.named
  PROVE  DurableIds(g) = DurableIds(f)
<1>1. CASE f.named
  <2>1. SyncedPart(g).cells = SyncedPart(f).cells
    BY <1>1 DEF SyncedPart, File
  <2>2. \A i : Decodes(SyncedPart(g), i) <=> Decodes(SyncedPart(f), i)
    BY <2>1 DEF Decodes
  <2>3. HeaderIncomplete(SyncedPart(g)) <=> HeaderIncomplete(SyncedPart(f))
    BY <2>1 DEF HeaderIncomplete
  <2>4. ValidEnd(SyncedPart(g), 1) = ValidEnd(SyncedPart(f), 1)
    BY <2>1, <2>2, <2>3 DEF ValidEnd
  <2>5. QED
    BY <2>1, <2>3, <2>4 DEF DurableIds
<1>2. CASE ~f.named
  BY <1>2, UnnamedHasNone
<1>3. f.named \in BOOLEAN
  BY Zenon DEF File
<1>4. QED
  BY <1>1, <1>2, <1>3

\* Every durable id was submitted.
LEMMA DurableType ==
  ASSUME NEW m \in Nat \ {0}, NEW f \in FilesBelow(m), f.synced <= Len(f.cells)
  PROVE  DurableIds(f) \in Seq(1 .. m - 1)
<1>1. f \in File /\ f.cells \in Seq(CellsBelow(m))
  BY BelowIsFile DEF FilesBelow
<1>2. CASE ~f.named \/ HeaderIncomplete(f)
  <2>1. DurableIds(f) = <<>>
    BY <1>1, <1>2, UnnamedHasNone, HeaderlessHasNone
  <2>2. QED
    BY <2>1, EmptySeq
<1>3. CASE f.named /\ ~HeaderIncomplete(f) /\ f.synced = 0
  <2>1. SyncedPart(f).cells = <<>>
    <3>1. Len(SyncedPart(f).cells) = 0 /\ SyncedPart(f).cells \in Seq(Cell)
      BY <1>1, <1>3, SyncedCells
    <3>2. QED
      BY <3>1, EmptySeq
  <2>2. DurableIds(f) = <<>>
    BY <2>1 DEF DurableIds, HeaderIncomplete
  <2>3. QED
    BY <2>2
<1>4. CASE f.named /\ ~HeaderIncomplete(f) /\ f.synced # 0
  <2> DEFINE g == SyncedPart(f)
  <2>1. /\ g \in File /\ Prefix(g, f, f.synced)
        /\ Len(g.cells) = f.synced /\ g.cells \in Seq(Cell) /\ f.synced \in Nat \ {0}
    BY <1>1, <1>4, SyncedCells DEF File
  <2>2. DurableIds(f) = [i \in 1 .. (IF HeaderIncomplete(g) THEN 1 ELSE ValidEnd(g, 1)) - 1 |-> g.cells[i + 1].id]
    BY DEF DurableIds
  <2> HIDE DEF g
  <2>3. ~HeaderIncomplete(g)
    <3>1. g.cells[1] = f.cells[1] /\ g.cells # <<>>
      BY <2>1 DEF Prefix
    <3>2. QED
      BY <1>4, <3>1 DEF HeaderIncomplete
  <2>4. ValidEnd(g, 1) \in Nat \ {0} /\ ValidEnd(g, 1) <= f.synced /\ Scans(g, 1, ValidEnd(g, 1))
    <3>1. /\ ValidEnd(g, 1) \in Nat /\ ValidEnd(g, 1) >= 1 /\ Scans(g, 1, ValidEnd(g, 1))
          /\ 1 <= Len(g.cells) => ValidEnd(g, 1) <= Len(g.cells)
      BY <2>1, <2>3, ValidEndProperties
    <3>2. QED
      BY <2>1, <3>1
  <2>5. ASSUME NEW i \in 1 .. ValidEnd(g, 1) - 1 PROVE g.cells[i + 1].id \in 1 .. m - 1
    <3>1. i + 1 \in 2 .. ValidEnd(g, 1) /\ i + 1 \in 1 .. f.synced
      BY <2>1, <2>4
    <3>2. g.cells[i + 1].kind = "record"
      BY <2>4, <3>1 DEF Scans, Decodes
    <3>3. g.cells[i + 1] = f.cells[i + 1] /\ i + 1 \in 1 .. Len(f.cells)
      BY <2>1, <3>1 DEF Prefix
    <3>4. f.cells[i + 1] \in CellsBelow(m)
      BY <1>1, <3>3, ElementOfSeq
    <3>5. QED
      BY <3>2, <3>3, <3>4 DEF CellsBelow
  <2>6. DurableIds(f) = [i \in 1 .. ValidEnd(g, 1) - 1 |-> g.cells[i + 1].id]
    BY <2>2, <2>3
  <2> DEFINE v == ValidEnd(g, 1) - 1
             ids == [i \in 1 .. v |-> g.cells[i + 1].id]
  <2>7. v \in Nat /\ \A i \in 1 .. v : g.cells[i + 1].id \in 1 .. m - 1
    BY <2>4, <2>5
  <2> HIDE DEF v
  <2>8. ids \in [1 .. v -> 1 .. m - 1]
    BY <2>7
  <2> HIDE DEF ids
  <2>9. ids \in Seq(1 .. m - 1)
    BY <2>7, <2>8
  <2>10. QED
    BY <2>6, <2>9 DEF ids, v
<1>5. f.named \in BOOLEAN
  BY <1>1, Zenon DEF File
<1>6. QED
  BY <1>2, <1>3, <1>4, <1>5

LEMMA UnsyncedHasNone ==
  ASSUME NEW f \in File, f.synced = 0
  PROVE  DurableIds(f) = <<>>
<1>1. CASE ~f.named
  BY <1>1, UnnamedHasNone
<1>2. CASE f.named
  <2>1. f.synced <= Len(f.cells)
    BY LenProperties DEF File
  <2>2. Len(SyncedPart(f).cells) = 0 /\ SyncedPart(f).cells \in Seq(Cell)
    BY <1>2, <2>1, SyncedCells
  <2>3. SyncedPart(f).cells = <<>>
    BY <2>2, EmptySeq
  <2>4. QED
    BY <2>3 DEF DurableIds, HeaderIncomplete
<1>3. f.named \in BOOLEAN
  BY Zenon DEF File
<1>4. QED
  BY <1>1, <1>2, <1>3

\* A file of at most one cell has no record.
LEMMA ShortHasNone ==
  ASSUME NEW f \in File, Len(f.cells) <= 1, f.synced <= Len(f.cells)
  PROVE  DurableIds(f) = <<>>
<1>1. CASE ~f.named \/ HeaderIncomplete(f) \/ f.synced = 0
  BY <1>1, UnnamedHasNone, HeaderlessHasNone, UnsyncedHasNone
<1>2. CASE ~(~f.named \/ HeaderIncomplete(f) \/ f.synced = 0)
  <2>0. f.named /\ ~HeaderIncomplete(f) /\ f.synced # 0
    BY <1>2, Zenon
  <2>1. f.synced = 1 /\ Len(f.cells) = 1
    <3>1. f.synced \in Nat /\ Len(f.cells) \in Nat
      BY LenProperties DEF File
    <3>2. \A a, b \in Nat : b <= 1 /\ a <= b /\ a # 0 => a = 1 /\ b = 1
      OBVIOUS
    <3>3. f.synced # 0
      BY <2>0
    <3>4. QED
      BY <3>1, <3>2, <3>3
  <2>2. Readable(f, 1)
    BY <2>0, <2>1 DEF Readable, Scans
  <2>3. DurableIds(f) = IdsTo(f, 1)
    <3>1. 1 \in Nat /\ 1 <= f.synced /\ (1 < f.synced => ~Decodes(f, 1 + 1))
      BY <2>1
    <3>2. f.named
      BY <2>0
    <3>3. QED
      BY <2>2, <3>1, <3>2, ReadableHas
  <2>4. QED
    BY <2>3, NoIds
<1>3. QED
  BY <1>1, <1>2

\* What the end of the readable cells adds nothing to.
LEMMA StillHas ==
  ASSUME NEW f \in File, NEW g \in File, NEW k \in Nat, Readable(f, k), Prefix(g, f, k),
         f.named, f.synced <= Len(f.cells), k <= f.synced, k < f.synced => ~Decodes(f, k + 1),
         g.named, g.synced <= Len(g.cells), k <= g.synced, k < g.synced => ~Decodes(g, k + 1)
  PROVE  DurableIds(g) = DurableIds(f)
<1>1. DurableIds(f) = IdsTo(f, k)
  BY ReadableHas
<1>2. Readable(g, k)
  BY ReadablePrefix
<1>3. DurableIds(g) = IdsTo(g, k)
  BY <1>2, ReadableHas
<1>4. \A i \in 1 .. k - 1 : g.cells[i + 1] = f.cells[i + 1]
  BY DEF Prefix
<1>5. QED
  BY <1>1, <1>3, <1>4 DEF IdsTo

\* What a power loss leaves of a whole file from cell "kept" on is some of its
\* records, in order.
LEMMA CutHas ==
  ASSUME NEW f \in File, Whole(f), NEW kept \in Nat \ {0}, kept <= Len(f.cells),
         NEW cells \in Cuts(f, kept),
         NEW g \in File, g.cells = cells, g.named, g.synced = Len(cells)
  PROVE  \E n \in kept .. Len(f.cells) : DurableIds(g) = IdsTo(f, n)
<1>0. f.cells \in Seq(Cell) /\ Len(f.cells) \in Nat
  BY LenProperties DEF File
<1>1. ASSUME NEW n \in kept .. Len(f.cells), Prefix(g, f, n),
             Len(g.cells) = n \/ (Len(g.cells) = n + 1 /\ ~Decodes(g, n + 1))
      PROVE  DurableIds(g) = IdsTo(f, n)
  <2>1. n \in Nat /\ n \in 1 .. Len(f.cells)
    BY <1>0
  <2>2. Readable(f, n)
    BY <1>0, <2>1, ReadableDown DEF Whole
  <2>3. Readable(g, n)
    BY <1>1, <2>1, <2>2, ReadablePrefix
  <2>4. DurableIds(g) = IdsTo(g, n)
    BY <1>1, <2>1, <2>3, ReadableHas
  <2>5. \A i \in 1 .. n - 1 : g.cells[i + 1] = f.cells[i + 1]
    <3>1. \A i \in 1 .. n - 1 : i + 1 \in 1 .. n
      BY <2>1
    <3>2. \A i \in 1 .. n : g.cells[i] = f.cells[i]
      BY <1>1 DEF Prefix
    <3>3. QED
      BY <3>1, <3>2
  <2>6. QED
    BY <2>4, <2>5 DEF IdsTo
<1>2. CASE cells \in {SubSeq(f.cells, 1, n) : n \in kept .. Len(f.cells)}
  <2>1. PICK n \in kept .. Len(f.cells) : cells = SubSeq(f.cells, 1, n)
    BY <1>2
  <2>2. n \in Nat /\ n <= Len(f.cells)
    BY <1>0
  <2>3. Len(cells) = n /\ \A i \in 1 .. n : cells[i] = f.cells[i]
    BY <1>0, <2>1, <2>2, PrefixOfCells
  <2>4. Prefix(g, f, n) /\ Len(g.cells) = n
    BY <2>2, <2>3 DEF Prefix
  <2>5. QED
    BY <1>1, <2>4
<1>3. CASE cells \in {Append(SubSeq(f.cells, 1, n), Torn) : n \in kept .. Len(f.cells) - 1}
  <2>1. PICK n \in kept .. Len(f.cells) - 1 : cells = Append(SubSeq(f.cells, 1, n), Torn)
    BY <1>3
  <2>2. n \in Nat /\ n <= Len(f.cells) /\ n \in kept .. Len(f.cells)
    BY <1>0
  <2> DEFINE pre == SubSeq(f.cells, 1, n)
  <2>3. pre \in Seq(Cell) /\ Len(pre) = n /\ \A i \in 1 .. n : pre[i] = f.cells[i]
    BY <1>0, <2>2, PrefixOfCells
  <2>4. Torn \in Cell /\ Torn.kind # "record"
    BY DEF Torn, Cell
  <2>5. cells = Append(pre, Torn)
    BY <2>1
  <2> HIDE DEF pre
  <2>6. /\ Len(cells) = n + 1 /\ cells[n + 1] = Torn
        /\ \A i \in 1 .. n : cells[i] = pre[i]
    <3>1. /\ Len(Append(pre, Torn)) = n + 1
          /\ \A i \in 1 .. n : Append(pre, Torn)[i] = pre[i]
          /\ Append(pre, Torn)[n + 1] = Torn
      BY <2>2, <2>3, <2>4, AppendProperties
    <3>2. QED
      BY <2>5, <3>1
  <2>7. Prefix(g, f, n)
    BY <2>2, <2>3, <2>6 DEF Prefix
  <2>8. ~Decodes(g, n + 1)
    BY <2>4, <2>6 DEF Decodes
  <2>9. QED
    BY <1>1, <2>2, <2>6, <2>7, <2>8
<1>4. QED
  BY <1>2, <1>3 DEF Cuts

-----------------------------------------------------------------------------
(* The refinement mapping: the log, and the batch in progress. *)

Log == FlattenSeq([s \in 1 .. MaxSegment + 1 |-> SyncedIds(s - 1)])
Appending == IF pc \in {"append", "rolling", "written"}
             THEN [i \in 1 .. batch.last - batch.first + 1 |-> batch.first + i - 1]
             ELSE <<>>

Parts(d) == [s \in 1 .. MaxSegment + 1 |-> DurableIds(d[s - 1])]

LEMMA LogParts == Log = FlattenSeq(Parts(disk)) /\ Log' = FlattenSeq(Parts(disk'))
<1>1. \A s : SyncedIds(s) = DurableIds(disk[s]) /\ SyncedIds(s)' = DurableIds(disk'[s])
  BY DEF SyncedIds, DurableIds
<1>2. QED
  BY <1>1 DEF Log, Parts

LEMMA LogSame ==
  ASSUME \A s \in Segments : DurableIds(disk'[s]) = DurableIds(disk[s])
  PROVE  Log' = Log
<1>1. ASSUME NEW s \in 1 .. MaxSegment + 1 PROVE DurableIds(disk'[s - 1]) = DurableIds(disk[s - 1])
  BY WalAssumption DEF Segments
<1>2. Parts(disk') = Parts(disk)
  BY <1>1 DEF Parts
<1>3. QED
  BY <1>2, LogParts

LEMMA LogAppends ==
  ASSUME NEW S, NEW k \in Segments, NEW tail \in Seq(S),
         \A s \in Segments : DurableIds(disk[s]) \in Seq(S),
         \A s \in Segments : s # k => DurableIds(disk'[s]) = DurableIds(disk[s]),
         DurableIds(disk'[k]) = Then(DurableIds(disk[k]), tail),
         \A s \in Segments : s > k => DurableIds(disk[s]) = <<>>
  PROVE  Log' = Log \o tail
<1> DEFINE n == MaxSegment + 1
           parts == Parts(disk)
           more == Parts(disk')
<1>1. n \in Nat \ {0} /\ k \in Nat /\ k + 1 \in 1 .. n /\ \A s \in 1 .. n : s - 1 \in Segments /\ (s - 1 = k <=> s = k + 1)
  BY WalAssumption DEF Segments
<1>2. Then(DurableIds(disk[k]), tail) \in Seq(S)
  BY ThenProperties
<1>3. /\ \A s \in 1 .. n : parts[s] = DurableIds(disk[s - 1]) /\ more[s] = DurableIds(disk'[s - 1])
      /\ parts = [s \in 1 .. n |-> parts[s]] /\ more = [s \in 1 .. n |-> more[s]]
  BY DEF Parts
<1> HIDE DEF n, parts, more
<1>4. parts[k + 1] = DurableIds(disk[k]) /\ more[k + 1] = DurableIds(disk'[k])
  BY <1>1, <1>3
<1>5. \A s \in 1 .. n : s # k + 1 => more[s] = parts[s]
  BY <1>1, <1>3
<1>6. \A s \in 1 .. n : parts[s] \in Seq(S) /\ more[s] \in Seq(S)
  <2>1. \A s \in 1 .. n : parts[s] \in Seq(S)
    BY <1>1, <1>3
  <2>2. more[k + 1] \in Seq(S)
    BY <1>2, <1>4
  <2>3. QED
    BY <1>5, <2>1, <2>2
<1>7. parts \in [1 .. n -> Seq(S)] /\ more \in [1 .. n -> Seq(S)]
  BY <1>3, <1>6
<1>8. more[k + 1] = Then(parts[k + 1], tail)
  BY <1>4
<1>9. \A s \in 1 .. n : s > k + 1 => more[s] = <<>> /\ parts[s] = <<>>
  <2>1. ASSUME NEW s \in 1 .. n, s > k + 1 PROVE parts[s] = <<>> /\ s # k + 1
    BY <1>1, <1>3, <2>1 DEF n
  <2>2. QED
    BY <1>5, <2>1
<1>10. \A s \in 1 .. n : s < k + 1 => more[s] = parts[s]
  BY <1>1, <1>5
<1>11. FlattenSeq(more) = Then(FlattenSeq(parts), tail)
  <2> DEFINE at == k + 1
  <2>1. AppendsAt(S, n, more, parts, at, tail)
    BY <1>1, <1>7, <1>8, <1>9, <1>10 DEF AppendsAt
  <2> HIDE DEF at
  <2>2. QED
    BY <2>1, FlattenAppends
<1>12. QED
  BY <1>11, LogParts DEF Then, parts, more

-----------------------------------------------------------------------------
(* What each step makes of the log, while only the machine has failed. *)

Sound == TypeInv /\ OrderParts /\ CrashParts /\ bounds.kills = 0
SameIds == \A s \in Segments : DurableIds(disk'[s]) = DurableIds(disk[s])

LEMMA NoneYet ==
  ASSUME key \in BOOLEAN
  PROVE  DurableIds(NoFile) = <<>> /\ DurableIds(NewFile) = <<>>
BY NoFileFacts, NewFileFacts, UnnamedHasNone

LEMMA SoundFile ==
  ASSUME Sound, NEW s \in Segments
  PROVE  /\ disk[s] \in File /\ disk[s].cells \in Seq(Cell) /\ Len(disk[s].cells) \in Nat
         /\ disk[s].synced <= Len(disk[s].cells)
         /\ DurableIds(disk[s]) \in Seq(1 .. nextId - 1)
<1>. TypeInv /\ OrderParts /\ CrashParts /\ bounds.kills = 0
  BY DEF Sound
<1>1. disk[s] \in File /\ disk[s].cells \in Seq(Cell) /\ Len(disk[s].cells) \in Nat /\ key \in BOOLEAN
      /\ disk[s] \in FilesBelow(nextId) /\ nextId \in Nat \ {0}
  BY Numbers DEF TypeInv
<1>2. disk[s].synced <= Len(disk[s].cells)
  <2>1. CASE pc = "written" /\ s = position.segment /\ disk[s].synced = position.offset
    <3>1. BatchAfter(disk[s], position.offset)
      BY <2>1 DEF CrashParts, ActiveFile
    <3>2. Len(BatchCells) \in Nat /\ position.offset \in Nat
      BY BatchCellsIds, Numbers
    <3>3. QED
      BY <2>1, <3>1, <3>2 DEF BatchAfter
  <2>2. QED
    BY <1>1, <2>1, SettledOrInFlight, NoFileFacts, NewFileFacts
<1>3. QED
  BY <1>1, <1>2, DurableType

LEMMA SoundIds ==
  ASSUME Sound, NEW s \in Segments
  PROVE  DurableIds(disk[s]) \in Seq(Nat)
<1>1. DurableIds(disk[s]) \in Seq(1 .. nextId - 1) /\ 1 .. nextId - 1 \subseteq Nat
  <2>1. nextId \in Nat
    BY Numbers DEF Sound
  <2>2. QED
    BY <2>1, SoundFile
<1>2. QED
  BY <1>1, SeqMonotonic

\* A step that syncs files and their directory entries, with no batch written.
LEMMA SyncSame ==
  ASSUME Sound, TypeInv', pc # "written",
         \A t \in Segments : /\ disk'[t].cells = disk[t].cells
                             /\ disk'[t].named = (disk[t].named \/ disk[t].live)
                             /\ disk'[t].synced \in {disk[t].synced, Len(disk[t].cells)}
  PROVE  SameIds
<1>. TypeInv /\ OrderParts /\ CrashParts /\ bounds.kills = 0
  BY DEF Sound
<1> SUFFICES ASSUME NEW t \in Segments PROVE DurableIds(disk'[t]) = DurableIds(disk[t])
  BY DEF SameIds
<1>1. /\ disk[t] \in File /\ disk'[t] \in File /\ disk[t].synced <= Len(disk[t].cells)
      /\ Len(disk[t].cells) \in Nat
  BY SoundFile DEF TypeInv, TypeOK
<1>2. key \in BOOLEAN
  BY Numbers
<1>3. CASE Len(disk[t].cells) <= 1
  <2>1. Len(disk'[t].cells) <= 1 /\ disk'[t].synced <= Len(disk'[t].cells)
    BY <1>1, <1>3
  <2>2. QED
    BY <1>1, <1>3, <2>1, ShortHasNone
<1>4. CASE disk[t].named /\ disk[t].synced = Len(disk[t].cells)
  <2>1. disk'[t].named = disk[t].named
    BY <1>1, <1>4, Zenon
  <2>2. disk'[t].synced = disk[t].synced
    BY <1>4
  <2>3. QED
    BY <1>1, <2>1, <2>2, SameDurable
<1>5. QED
  <2>1. disk[t] = NoFile \/ disk[t] = NewFile => Len(disk[t].cells) <= 1
    <3>1. Len(NoFile.cells) = 0 /\ Len(NewFile.cells) = 1
      BY <1>2, NoFileFacts, NewFileFacts
    <3>2. 0 <= 1 /\ 1 <= 1
      OBVIOUS
    <3>3. QED
      BY <3>1, <3>2, Zenon
  <2>2. QED
    BY <1>3, <1>4, <2>1, SettledOrInFlight

LEMMA RollSame ==
  ASSUME Sound, TypeInv', Roll
  PROVE  SameIds
<1>. TypeInv /\ OrderParts /\ CrashParts /\ ActiveFile
  BY DEF Sound, CrashParts
<1> DEFINE new == position.segment + 1
<1>0. pc = "append" /\ Write(new, <<Header(key)>>)
  BY DEF Roll
<1>1. /\ position.segment \in Nat /\ new \in Segments /\ new > position.segment /\ key \in BOOLEAN
  <2>1. position.segment \in Segments /\ key \in BOOLEAN
    BY Numbers
  <2>2. position.segment \in Nat /\ new \in Segments
    BY <2>1, WalAssumption DEF Roll, Segments
  <2>3. QED
    BY <2>1, <2>2
<1>2. WrittenTo(disk', disk, new, <<Header(key)>>)
  BY <1>0, <1>1, HeaderCell, WriteStep
<1>3. disk[new] = NoFile
  BY <1>0, <1>1 DEF ActiveFile, NoneAbove
<1> HIDE DEF new
<1>4. disk'[new] = NewFile
  BY <1>1, <1>2, <1>3, NewSegment DEF TypeInv, TypeOK
<1>5. \A t \in Segments : t # new => disk'[t] = disk[t]
  BY <1>2 DEF WrittenTo
<1>6. QED
  BY <1>1, <1>3, <1>4, <1>5, NoneYet DEF SameIds

LEMMA RollDoneSame ==
  ASSUME Sound, TypeInv', RollDone
  PROVE  SameIds
<1> DEFINE new == position.segment + 1
           e == [disk EXCEPT ![new] = SyncAll(@)]
<1>1. pc = "rolling" /\ disk' = SyncDir(e) /\ new \in Segments /\ disk \in [Segments -> File]
  BY Numbers DEF RollDone, Sound, TypeInv, TypeOK
<1>2. e \in [Segments -> File] /\ \A t \in Segments : /\ e[t].cells = disk[t].cells
                                                      /\ e[t].live = disk[t].live
                                                      /\ e[t].named = disk[t].named
                                                      /\ e[t].synced = IF t = new THEN Len(disk[t].cells) ELSE disk[t].synced
  BY <1>1, SyncedFields
<1> HIDE DEF e, new
<1>3. \A t \in Segments : /\ disk'[t].cells = disk[t].cells
                          /\ disk'[t].named = (disk[t].named \/ disk[t].live)
                          /\ disk'[t].synced \in {disk[t].synced, Len(disk[t].cells)}
  BY <1>1, <1>2, SyncDirFields
<1>4. QED
  BY <1>1, <1>3, SyncSame

LEMMA SyncDirSame ==
  ASSUME Sound, TypeInv', ReleaseDone \/ Opened
  PROVE  SameIds
<1>1. disk \in [Segments -> File] /\ position.segment \in Segments
  BY Numbers DEF Sound, TypeInv, TypeOK
<1>2. CASE ReleaseDone
  <2>1. disk' = SyncDir(disk) /\ pc = "unlinking"
    BY <1>2 DEF ReleaseDone
  <2>2. \A t \in Segments : /\ disk'[t].cells = disk[t].cells
                            /\ disk'[t].named = (disk[t].named \/ disk[t].live)
                            /\ disk'[t].synced \in {disk[t].synced, Len(disk[t].cells)}
    BY <1>1, <2>1, SyncDirFields
  <2>3. QED
    BY <2>1, <2>2, SyncSame
<1>3. CASE Opened
  <2> DEFINE e == [disk EXCEPT ![position.segment] = SyncAll(@)]
  <2>1. disk' = SyncDir(e) /\ pc = "opening"
    BY <1>3 DEF Opened
  <2>2. e \in [Segments -> File] /\ \A t \in Segments : /\ e[t].cells = disk[t].cells
                                                        /\ e[t].live = disk[t].live
                                                        /\ e[t].named = disk[t].named
                                                        /\ e[t].synced \in {disk[t].synced, Len(disk[t].cells)}
    BY <1>1, SyncedFields
  <2> HIDE DEF e
  <2>3. \A t \in Segments : /\ disk'[t].cells = disk[t].cells
                            /\ disk'[t].named = (disk[t].named \/ disk[t].live)
                            /\ disk'[t].synced \in {disk[t].synced, Len(disk[t].cells)}
    BY <2>1, <2>2, SyncDirFields
  <2>4. QED
    BY <2>1, <2>3, SyncSame
<1>4. QED
  BY <1>2, <1>3

LEMMA WriteUnsynced ==
  ASSUME Sound, TypeInv', WriteBatch
  PROVE  SameIds /\ disk'[position.segment].synced = position.offset
<1>. TypeInv /\ OrderParts /\ CrashParts /\ ActiveFile /\ FilesWhole /\ bounds.kills = 0
  BY DEF Sound, CrashParts
<1> DEFINE act == position.segment
<1>0. pc = "append" /\ Write(act, BatchCells)
  BY DEF WriteBatch
<1>1. /\ act \in Segments /\ position.offset \in Nat /\ disk[act] \in File /\ disk'[act] \in File
      /\ Len(disk[act].cells) = position.offset
  BY <1>0, Numbers DEF TypeInv, TypeOK, ActiveFile
<1>2. Extends(disk'[act], disk[act], BatchCells) /\ \A t \in Segments : t # act => disk'[t] = disk[t]
  BY <1>0, <1>1, BatchCellsIds, WriteStep DEF WrittenTo
<1>3. Whole(disk[act]) /\ disk[act] # NoFile
  BY <1>0, RunningWhole, WholeIsSomething DEF ActiveFile
<1>4. disk[act].named /\ disk[act].synced = position.offset
  BY <1>0, <1>1, <1>3, SettledOrInFlight
<1> HIDE DEF act
<1>5. /\ disk'[act].named /\ disk'[act].synced = position.offset
      /\ Prefix(disk'[act], disk[act], position.offset) /\ position.offset <= Len(disk'[act].cells)
  BY <1>1, <1>2, <1>4, BatchCellsIds DEF Extends, Prefix
<1>6. DurableIds(disk'[act]) = DurableIds(disk[act])
  BY <1>1, <1>3, <1>4, <1>5, StillHas DEF Whole
<1>7. QED
  BY <1>2, <1>5, <1>6 DEF SameIds, act

LEMMA ReleaseSame ==
  ASSUME Sound, TypeInv', NEW s \in Segments, Release(s)
  PROVE  SameIds
<1>1. /\ disk \in [Segments -> File] /\ disk' \in [Segments -> File]
      /\ disk' = [disk EXCEPT ![s].live = FALSE]
  BY DEF Release, Sound, TypeInv, TypeOK
<1>2. \A t \in Segments : /\ disk'[t].cells = disk[t].cells /\ disk'[t].synced = disk[t].synced
                          /\ disk'[t].named = disk[t].named
  BY <1>1 DEF File
<1>3. QED
  BY <1>1, <1>2, SameDurable DEF SameIds

LEMMA FreshSame ==
  ASSUME Sound, TypeInv', RecoverFresh
  PROVE  SameIds
<1>. TypeInv /\ FilesWhole /\ Anchored(ckptFile)
  BY DEF Sound, CrashParts, OrderParts, Anchors
<1>1. Live = {} /\ Write(0, <<Header(key)>>) /\ 0 \in Segments /\ key \in BOOLEAN
  BY WalAssumption, Numbers DEF RecoverFresh, Segments
<1>2. \A s \in Segments : ~disk[s].live
  BY <1>1 DEF Live
<1>3. ckptFile = START
  BY <1>2, Numbers DEF Anchored
<1>4. disk[0].cells = <<>>
  BY <1>1, <1>2, <1>3 DEF Anchored, START
<1>5. disk[0] = NoFile
  BY <1>1, <1>2, <1>4, Numbers, WholeIsSomething DEF FilesWhole, Frayed
<1>6. WrittenTo(disk', disk, 0, <<Header(key)>>)
  BY <1>1, HeaderCell, WriteStep
<1>7. disk'[0] = NewFile
  BY <1>1, <1>5, <1>6, NewSegment DEF TypeInv, TypeOK
<1>8. \A t \in Segments : t # 0 => disk'[t] = disk[t]
  BY <1>6 DEF WrittenTo
<1>9. QED
  BY <1>1, <1>5, <1>7, <1>8, NoneYet DEF SameIds

\* A recovery that returns: the damaged file, cut where its scan stopped, still
\* has what was durable in it.
LEMMA RecoverSame ==
  ASSUME Sound, TypeInv', pc = "down", NEW from \in {ckptFile, START}, Recover(from)
  PROVE  SameIds
<1>. TypeInv /\ OrderParts /\ CrashParts /\ FilesWhole /\ Checkpoints /\ Anchored(ckptFile) /\ bounds.kills = 0
  BY DEF Sound, CrashParts, OrderParts, Anchors
<1> DEFINE last == Newest(Reached(from))
           repaired == Repair(from)
           fresh == NeedsFreshSegment(repaired[last])
<1>0. /\ fresh => last < MaxSegment
      /\ disk' = IF fresh THEN [repaired EXCEPT ![last + 1] = Written(@, <<Header(key)>>)] ELSE repaired
      /\ Reached(from) # {} /\ Orphaned(from) = {}
  BY DEF Recover
<1>1. /\ last \in Segments /\ last \in Nat
      /\ \A s \in Segments : s > last => ~disk[s].live /\ disk[s].cells = <<>>
  BY <1>0, NothingAfterReached
<1>k. key \in BOOLEAN /\ from \in Position
  <2>1. START \in Position
    BY WalAssumption DEF START, Position, Segments
  <2>2. QED
    BY <2>1, Numbers DEF TypeInv, TypeOK
<1>2. \A s \in Segments : repaired[s] \in File /\ disk[s] \in File /\ disk'[s] \in File
  <2>1. repaired \in [Segments -> FilesBelow(nextId)] /\ disk \in [Segments -> FilesBelow(nextId)]
        /\ nextId \in Nat \ {0}
    BY <1>k, RepairType, Numbers DEF TypeInv
  <2>2. disk' \in [Segments -> File]
    BY DEF TypeInv, TypeOK
  <2> HIDE DEF repaired
  <2>3. QED
    BY <2>1, <2>2, BelowIsFile
<1>3. repaired = [s \in Segments |-> repaired[s]]
  BY DEF Repair
<1>4. ASSUME NEW s \in Segments PROVE DurableIds(repaired[s]) = DurableIds(disk[s])
  <2>1. CASE s \notin Damaged(from) \cap Reached(from)
    BY <2>1 DEF Repair
  <2>2. CASE s \in Damaged(from) \cap Reached(from)
    <3> DEFINE start == StartIn(s, from)
               v == ValidEnd(disk[s], start)
    <3>1. repaired[s] = Repaired(disk[s], start) /\ TornAfter(disk[s], start) /\ disk[s].live
      BY <2>2 DEF Repair, Damaged, Scanned, Live
    <3>2. start \in Nat \ {0}
      BY <1>k, StartInType
    <3>3. disk[s].named /\ disk[s].synced = Len(disk[s].cells) /\ Len(disk[s].cells) \in Nat
      BY <3>1, SettledOrInFlight, NoFileFacts, SoundFile
    <3>4. CASE HeaderIncomplete(disk[s])
      <4>1. repaired[s].cells = <<Header(key)>> /\ repaired[s].synced = 1
        BY <1>2, <3>1, <3>2, <3>4, RepairedCells
      <4>2. Len(repaired[s].cells) = 1 /\ Len(repaired[s].cells) <= 1 /\ repaired[s].synced <= Len(repaired[s].cells)
        BY <1>k, <4>1, HeaderCell
      <4>3. DurableIds(repaired[s]) = <<>>
        BY <1>2, <4>2, ShortHasNone
      <4>4. QED
        BY <1>2, <3>3, <3>4, <4>3, HeaderlessHasNone
    <3>5. CASE ~HeaderIncomplete(disk[s])
      <4>1. /\ v \in Nat /\ v < Len(disk[s].cells)
            /\ Len(repaired[s].cells) = v
            /\ \A n \in 1 .. v : repaired[s].cells[n] = disk[s].cells[n]
            /\ repaired[s].synced = v /\ repaired[s].named = disk[s].named
        BY <1>2, <3>1, <3>2, <3>5, RepairedCells
      <4>2. Readable(disk[s], v)
        <5>1. Readable(disk[s], start) /\ start \in Nat
          BY <3>5, StartReadable
        <5>2. QED
          BY <1>2, <5>1, ValidEndIsLast
      <4>3. ~Decodes(disk[s], v + 1)
        BY <1>2, <3>2, <3>5, <4>1, ValidEndProperties
      <4> HIDE DEF v
      <4>4. Prefix(repaired[s], disk[s], v)
        BY <4>1 DEF Prefix
      <4>5. repaired[s].named /\ v <= repaired[s].synced /\ repaired[s].synced <= Len(repaired[s].cells)
        BY <3>3, <4>1
      <4>6. disk[s].synced <= Len(disk[s].cells) /\ v <= disk[s].synced
        BY <3>3, <4>1
      <4>7. v < repaired[s].synced => ~Decodes(repaired[s], v + 1)
        BY <4>1
      <4> HIDE DEF repaired
      <4>8. QED
        BY <1>2, <3>3, <4>1, <4>2, <4>3, <4>4, <4>5, <4>6, <4>7, StillHas
    <3>6. QED
      BY <3>4, <3>5
  <2>3. QED
    BY <2>1, <2>2
<1> HIDE DEF last, repaired, fresh
<1>5. CASE ~fresh
  BY <1>0, <1>4, <1>5 DEF SameIds
<1>6. CASE fresh
  <2>1. last + 1 \in Segments /\ last + 1 > last
    BY <1>0, <1>1, <1>6, WalAssumption DEF Segments
  <2>2. disk[last + 1] = NoFile
    BY <1>1, <2>1, Numbers, WholeIsSomething DEF FilesWhole, Frayed
  <2>3. repaired[last + 1] = disk[last + 1]
    <3>1. last + 1 \notin Damaged(from)
      BY <1>1, <2>1 DEF Damaged, Scanned, Live
    <3>2. QED
      BY <2>1, <3>1 DEF Repair, repaired
  <2>4. disk' = [t \in Segments |-> IF t = last + 1 THEN Written(repaired[t], <<Header(key)>>) ELSE repaired[t]]
    BY <1>0, <1>3, <1>6
  <2>5. WrittenTo(disk', repaired, last + 1, <<Header(key)>>)
    BY <1>2, <1>k, <2>1, <2>4, HeaderCell, WriteExtends
  <2>6. disk'[last + 1] = NewFile
    BY <1>2, <1>k, <2>1, <2>2, <2>3, <2>5, NewSegment
  <2>7. \A t \in Segments : t # last + 1 => disk'[t] = repaired[t]
    BY <2>5 DEF WrittenTo
  <2>8. QED
    BY <1>4, <1>k, <2>2, <2>6, <2>7, NoneYet DEF SameIds
<1>7. QED
  BY <1>5, <1>6

-----------------------------------------------------------------------------
(* The batch in progress *)

LEMMA AppendingIs ==
  ASSUME Sound, pc \in {"append", "rolling", "written"}
  PROVE  /\ Appending \in Seq(Nat) /\ Len(Appending) = Len(BatchCells) /\ Len(Appending) \in Nat \ {0}
         /\ Appending # <<>>
         /\ \A i \in 1 .. Len(Appending) : Appending[i] = batch.first + i - 1
         /\ {Appending[i] : i \in 1 .. Len(Appending)} = BatchIds
<1>1. batch.first \in Nat /\ batch.last \in Nat /\ batch.first <= batch.last
  BY Numbers DEF Sound, CrashParts, BatchInv
<1>2. Len(BatchCells) = batch.last - batch.first + 1
  BY <1>1, BatchCellsIds DEF Sound
<1> DEFINE m == batch.last - batch.first + 1
<1>3. m \in Nat \ {0} /\ Appending = [i \in 1 .. m |-> batch.first + i - 1]
      /\ \A i \in 1 .. m : batch.first + i - 1 \in Nat
  BY <1>1 DEF Appending
<1>4. \A j \in BatchIds : j - batch.first + 1 \in 1 .. m /\ batch.first + (j - batch.first + 1) - 1 = j
  BY <1>1 DEF BatchIds
<1>5. \A i \in 1 .. m : batch.first + i - 1 \in BatchIds
  BY <1>1 DEF BatchIds
<1> HIDE DEF m
<1>6. Appending \in [1 .. m -> Nat] /\ \A i \in 1 .. m : Appending[i] = batch.first + i - 1
  BY <1>3
<1>7. Appending \in Seq(Nat) /\ Len(Appending) = m
  BY <1>3, <1>6
<1>8. Appending # <<>>
  BY <1>3, <1>7, EmptySeq
<1>9. {Appending[i] : i \in 1 .. m} = BatchIds
  BY <1>4, <1>5, <1>6
<1>10. QED
  BY <1>2, <1>3, <1>6, <1>7, <1>8, <1>9 DEF m

\* The records of a file to cell n are those to where the batch begins, and then
\* the batch's.
LEMMA IdsOfBatch ==
  ASSUME Sound, pc = "written", NEW f \in File, NEW start \in Nat \ {0}, BatchAfter(f, start),
         NEW n \in start .. Len(f.cells)
  PROVE  /\ IdsTo(f, n) = Then(IdsTo(f, start), SubSeq(Appending, 1, n - start))
         /\ n - start \in 0 .. Len(Appending)
<1>1. /\ Appending \in Seq(Nat) /\ Len(Appending) = Len(BatchCells) /\ Len(Appending) \in Nat
      /\ \A i \in 1 .. Len(Appending) : Appending[i] = batch.first + i - 1
  BY AppendingIs
<1>2. Len(f.cells) = start + Len(Appending) /\ n - start \in 0 .. Len(Appending)
  BY <1>1 DEF BatchAfter
<1> DEFINE m == n - start
           tail == SubSeq(Appending, 1, m)
<1>3. m \in Nat /\ m <= Len(Appending) /\ n = start + m /\ m \in Int
  BY <1>1, <1>2
<1>4. tail \in Seq(Nat) /\ Len(tail) = m /\ \A i \in 1 .. m : tail[i] = Appending[i]
  BY <1>1, <1>3, PrefixOfCells
<1> HIDE DEF m, tail
<1>5. ASSUME NEW i \in 1 .. m PROVE f.cells[start + i].id = tail[i]
  <2>1. i \in 1 .. Len(BatchCells)
    BY <1>1, <1>3
  <2>2. f.cells[start + i] = BatchCells[i] /\ BatchCells[i] = Record(batch.first + i - 1, key)
    BY <2>1, BatchCellsIds DEF BatchAfter, Sound
  <2>3. tail[i] = batch.first + i - 1
    BY <1>1, <1>4, <2>1
  <2>4. QED
    BY <2>2, <2>3 DEF Record
<1> DEFINE a == IdsTo(f, start)
           l == start - 1
<1>6. l \in Nat /\ a = [i \in 1 .. l |-> f.cells[i + 1].id] /\ start = l + 1 /\ n - 1 = l + m
  BY <1>3 DEF IdsTo
<1> HIDE DEF a, l
<1>7. Then(a, tail) = [i \in 1 .. l + m |-> IF i <= l THEN a[i] ELSE tail[i - l]]
  <2>1. \A i \in 1 .. l : f.cells[i + 1].id \in Nat
    <3>1. \A i \in 1 .. l : i + 1 \in 1 .. Len(f.cells)
      BY <1>1, <1>2, <1>6
    <3>2. ASSUME NEW i \in 1 .. Len(f.cells) PROVE f.cells[i].id \in Nat
      <4>1. f.cells[i] \in Cell
        BY ElementOfSeq DEF File
      <4>2. QED
        BY <4>1 DEF Cell
    <3>3. QED
      BY <3>1, <3>2
  <2>2. a \in [1 .. l -> Nat]
    BY <1>6, <2>1
  <2>3. a \in Seq(Nat) /\ Len(a) = l
    BY <1>6, <2>2, TableIsSeq
  <2> DEFINE whole == Then(a, tail)
  <2>4. /\ whole \in Seq(Nat) /\ Len(whole) = l + m
        /\ \A i \in 1 .. l + m : whole[i] = IF i <= l THEN a[i] ELSE tail[i - l]
    BY <1>4, <2>3, ConcatProperties DEF Then
  <2>5. l + m \in Nat
    BY <1>3, <1>6
  <2> HIDE DEF whole
  <2>6. whole = [i \in 1 .. l + m |-> whole[i]]
    BY <2>4
  <2>7. QED
    BY <2>4, <2>6 DEF whole
<1>8. ASSUME NEW i \in 1 .. l + m PROVE f.cells[i + 1].id = IF i <= l THEN a[i] ELSE tail[i - l]
  <2>1. CASE i <= l
    BY <1>6, <2>1
  <2>2. CASE ~(i <= l)
    <3> DEFINE j == i - l
    <3>1. j \in 1 .. m /\ i + 1 = start + j
      BY <1>3, <1>6, <2>2
    <3>2. f.cells[start + j].id = tail[j]
      BY <1>5, <3>1
    <3>3. QED
      BY <2>2, <3>1, <3>2
  <2>3. QED
    BY <2>1, <2>2
<1>9. IdsTo(f, n) = [i \in 1 .. l + m |-> f.cells[i + 1].id]
  BY <1>6 DEF IdsTo
<1>10. IdsTo(f, n) = Then(a, tail)
  BY <1>7, <1>8, <1>9
<1>11. QED
  BY <1>2, <1>10 DEF a, tail, m

\* A batch being written is past what is synced.  Only WriteBatch comes here.
Unsynced == pc = "written" => disk[position.segment].synced = position.offset

\* The file the batch is being written to.
LEMMA ActiveHas ==
  ASSUME Sound, Unsynced, pc = "written"
  PROVE  LET f == disk[position.segment]
         IN  /\ position.segment \in Segments /\ f \in File /\ Whole(f) /\ f.live /\ f.named
             /\ position.offset \in Nat \ {0} /\ BatchAfter(f, position.offset)
             /\ position.offset <= Len(f.cells) /\ f.synced = position.offset
             /\ DurableIds(f) = IdsTo(f, position.offset)
             /\ \A s \in Segments : s > position.segment => disk[s] = NoFile
<1>. TypeInv /\ OrderParts /\ CrashParts /\ ActiveFile /\ FilesWhole /\ AtTop /\ bounds.kills = 0
  BY DEF Sound, CrashParts, OrderParts
<1> DEFINE act == position.segment
           f == disk[act]
           k == position.offset
<1>1. act \in Segments /\ f \in File /\ k \in Nat \ {0} /\ Len(BatchCells) \in Nat
  BY Numbers, BatchCellsIds
<1>2. BatchAfter(f, k) /\ NoneAbove(act) /\ f # NoFile /\ Whole(f) /\ f.live
  BY RunningWhole DEF ActiveFile, AtTop
<1>3. k <= Len(f.cells) /\ k \in 1 .. Len(f.cells) /\ Len(f.cells) \in Nat
  BY <1>1, <1>2 DEF BatchAfter
<1>4. f.named /\ f.synced = k
  <2>1. f.named
    BY <1>1, <1>2, SettledOrInFlight
  <2>2. QED
    BY <2>1 DEF Unsynced
<1> HIDE DEF act, f, k
<1>5. Readable(f, k)
  BY <1>1, <1>2, <1>3, ReadableDown DEF Whole
<1>6. DurableIds(f) = IdsTo(f, k)
  BY <1>1, <1>3, <1>4, <1>5, ReadableHas
<1>7. QED
  BY <1>1, <1>2, <1>3, <1>4, <1>6 DEF act, f, k, NoneAbove

LEMMA AckAppends ==
  ASSUME Sound, Unsynced, TypeInv', Ack
  PROVE  Log' = Log \o Appending
<1>. TypeInv
  BY DEF Sound
<1> DEFINE act == position.segment
           f == disk[act]
           k == position.offset
<1>1. pc = "written" /\ disk' = [disk EXCEPT ![act] = SyncAll(@)]
      /\ disk \in [Segments -> File] /\ disk' \in [Segments -> File]
  BY DEF Ack, TypeInv, TypeOK
<1>2. /\ act \in Segments /\ f \in File /\ Whole(f) /\ f.named
      /\ k \in Nat \ {0} /\ BatchAfter(f, k) /\ k <= Len(f.cells) /\ DurableIds(f) = IdsTo(f, k)
      /\ \A s \in Segments : s > act => disk[s] = NoFile
  BY <1>1, ActiveHas
<1>3. \A t \in Segments : /\ disk'[t].cells = disk[t].cells
                          /\ disk'[t].named = disk[t].named
                          /\ disk'[t].synced = IF t = act THEN Len(disk[t].cells) ELSE disk[t].synced
  BY <1>1, <1>2, SyncedFields
<1>4. /\ Appending \in Seq(Nat) /\ Len(Appending) = Len(BatchCells) /\ Len(Appending) \in Nat
  BY <1>1, AppendingIs
<1>5. Len(f.cells) = k + Len(Appending) /\ Len(f.cells) \in k .. Len(f.cells)
      /\ Len(f.cells) - k = Len(Appending)
  BY <1>2, <1>4 DEF BatchAfter
<1>6. IdsTo(f, Len(f.cells)) = Then(IdsTo(f, k), SubSeq(Appending, 1, Len(f.cells) - k))
  BY <1>1, <1>2, <1>5, IdsOfBatch
<1>7. SubSeq(Appending, 1, Len(f.cells) - k) = Appending
  BY <1>4, <1>5, SubSeqFull
<1>8. DurableIds(disk'[act]) = IdsTo(f, Len(f.cells))
  <2>1. Whole(disk'[act])
    BY <1>1, <1>2, <1>3, SameCellsPrefix
  <2>2. DurableIds(disk'[act]) = IdsTo(disk'[act], Len(disk'[act].cells))
    BY <1>1, <1>2, <1>3, <2>1, WholeHas
  <2>3. QED
    BY <1>2, <1>3, <2>2 DEF IdsTo
<1>9. DurableIds(disk'[act]) = Then(DurableIds(disk[act]), Appending)
  BY <1>2, <1>6, <1>7, <1>8
<1>10. \A s \in Segments : s # act => DurableIds(disk'[s]) = DurableIds(disk[s])
  BY <1>1, <1>3, SameDurable
<1>11. \A s \in Segments : DurableIds(disk[s]) \in Seq(Nat)
  BY SoundIds
<1>12. \A s \in Segments : s > act => DurableIds(disk[s]) = <<>>
  BY <1>2, Numbers, NoneYet
<1> HIDE DEF act
<1>13. QED
  BY <1>2, <1>4, <1>9, <1>10, <1>11, <1>12, LogAppends

\* What a power loss does to one file.
LEMMA LossFile ==
  ASSUME Sound, PowerLoss, NEW t \in Segments
  PROVE  \/ t \in unlinked /\ disk'[t] = [disk[t] EXCEPT !.live = TRUE]
         \/ \E cells \in Cuts(disk[t], disk[t].synced) : disk'[t] = Settled(disk[t], cells)
         \/ disk'[t] = NoFile /\ ~disk[t].named
<1>a. PICK s \in Segments, back \in SUBSET unlinked : \E f \in Survivors(disk[s]) :
         disk' = [x \in Segments |->
                    IF x \in back THEN [disk[x] EXCEPT !.live = TRUE]
                    ELSE IF x = s THEN f ELSE Settled(disk[x], disk[x].cells)]
  BY DEF PowerLoss
<1>1. PICK f \in Survivors(disk[s]) :
         disk' = [x \in Segments |->
                    IF x \in back THEN [disk[x] EXCEPT !.live = TRUE]
                    ELSE IF x = s THEN f ELSE Settled(disk[x], disk[x].cells)]
  BY <1>a
<1>2. CASE t \in back
  BY <1>1, <1>2
<1>3. CASE t \notin back /\ t = s
  <2>1. disk'[t] \in Survivors(disk[t])
    BY <1>1, <1>3
  <2>2. QED
    BY <2>1 DEF Survivors
<1>4. CASE t \notin back /\ t # s
  <2>1. disk'[t] = Settled(disk[t], disk[t].cells)
    BY <1>1, <1>4
  <2>2. /\ disk[t].cells \in Seq(Cell) /\ Len(disk[t].cells) \in Nat
        /\ disk[t].synced <= Len(disk[t].cells) /\ disk[t].synced \in Nat
    BY SoundFile DEF File
  <2>3. SubSeq(disk[t].cells, 1, Len(disk[t].cells)) = disk[t].cells
    BY <2>2, SubSeqFull
  <2>4. Len(disk[t].cells) \in disk[t].synced .. Len(disk[t].cells)
    BY <2>2
  <2>5. disk[t].cells \in Cuts(disk[t], disk[t].synced)
    BY <2>3, <2>4 DEF Cuts
  <2>6. QED
    BY <2>1, <2>5
<1>5. QED
  BY <1>2, <1>3, <1>4

\* A power loss takes nothing durable, and may keep some of the batch.
LEMMA LossSame ==
  ASSUME Sound, TypeInv', PowerLoss, NEW t \in Segments, ~(pc = "written" /\ t = position.segment)
  PROVE  DurableIds(disk'[t]) = DurableIds(disk[t])
<1>. TypeInv /\ OrderParts /\ CrashParts /\ Checkpoints /\ bounds.kills = 0
  BY DEF Sound, CrashParts
<1>1. /\ disk[t] \in File /\ disk'[t] \in File /\ disk[t].synced <= Len(disk[t].cells)
      /\ Len(disk[t].cells) \in Nat /\ disk[t].synced \in Nat
  BY SoundFile DEF TypeInv, TypeOK, File
<1>2. key \in BOOLEAN
  BY Numbers
<1>3. CASE t \in unlinked /\ disk'[t] = [disk[t] EXCEPT !.live = TRUE]
  <2>1. disk'[t].cells = disk[t].cells /\ disk'[t].synced = disk[t].synced /\ disk'[t].named = disk[t].named
    BY <1>1, <1>3 DEF File
  <2>2. QED
    BY <1>1, <2>1, SameDurable
<1>4. CASE disk'[t] = NoFile /\ ~disk[t].named
  BY <1>1, <1>2, <1>4, NoneYet, UnnamedHasNone
<1>5. ASSUME NEW cells \in Cuts(disk[t], disk[t].synced), disk'[t] = Settled(disk[t], cells)
      PROVE  DurableIds(disk'[t]) = DurableIds(disk[t])
  <2>1. /\ disk'[t].cells = cells /\ disk'[t].synced = Len(cells)
        /\ disk'[t].named = (disk[t].named \/ disk[t].live)
    BY <1>1, <1>5, SettledFields
  <2>2. CASE disk[t] = NoFile \/ disk[t] = NewFile
    <3>1. Len(disk[t].cells) <= 1
      <4>1. Len(NoFile.cells) = 0 /\ Len(NewFile.cells) = 1
        BY <1>2, NoFileFacts, NewFileFacts
      <4>2. 0 <= 1 /\ 1 <= 1
        OBVIOUS
      <4>3. QED
        BY <2>2, <4>1, <4>2, Zenon
    <3>2. Len(cells) <= Len(disk[t].cells) /\ Len(cells) \in Nat
      BY <1>1, <1>5, CutCells, LenProperties
    <3>3. Len(disk'[t].cells) <= 1 /\ disk'[t].synced <= Len(disk'[t].cells)
      BY <1>1, <2>1, <3>1, <3>2
    <3>4. QED
      BY <1>1, <3>1, <3>3, ShortHasNone
  <2>3. CASE disk[t].named /\ disk[t].synced = Len(disk[t].cells)
    <3>1. cells = disk[t].cells
      BY <1>1, <1>5, <2>3, NothingCut
    <3>2. disk'[t].named = disk[t].named
      BY <2>1, <2>3, <1>1, Zenon DEF File
    <3>3. QED
      BY <1>1, <2>1, <2>3, <3>1, <3>2, SameDurable
  <2>4. QED
    BY <2>2, <2>3, SettledOrInFlight
<1>6. QED
  BY <1>3, <1>4, <1>5, LossFile

LEMMA LossAppends ==
  ASSUME Sound, Unsynced, TypeInv', PowerLoss, pc = "written"
  PROVE  \E m \in 0 .. Len(Appending) : Log' = Log \o SubSeq(Appending, 1, m)
<1>. TypeInv /\ OrderParts /\ CrashParts /\ Checkpoints /\ bounds.kills = 0
  BY DEF Sound, CrashParts
<1> DEFINE act == position.segment
           f == disk[act]
           k == position.offset
<1>1. /\ act \in Segments /\ f \in File /\ Whole(f) /\ f.live /\ f.named /\ f.synced = k
      /\ k \in Nat \ {0} /\ BatchAfter(f, k) /\ k <= Len(f.cells) /\ DurableIds(f) = IdsTo(f, k)
      /\ \A s \in Segments : s > act => disk[s] = NoFile
  BY ActiveHas
<1>2. disk'[act] \in File
  BY <1>1 DEF TypeInv, TypeOK
<1>3. PICK cells \in Cuts(f, k) : disk'[act] = Settled(f, cells)
  <2>1. act \notin unlinked
    BY <1>1 DEF Checkpoints
  <2>2. QED
    BY <1>1, <2>1, LossFile
<1>4. disk'[act].cells = cells /\ disk'[act].synced = Len(cells) /\ disk'[act].named
  <2>1. /\ Settled(f, cells).cells = cells /\ Settled(f, cells).synced = Len(cells)
        /\ Settled(f, cells).named = (f.named \/ f.live)
    BY <1>1, SettledFields
  <2>2. f.named
    BY <1>1
  <2> HIDE DEF act, f, k
  <2>3. QED
    BY <1>3, <2>1, <2>2, Zenon
<1>5. PICK n \in k .. Len(f.cells) : DurableIds(disk'[act]) = IdsTo(f, n)
  BY <1>1, <1>2, <1>3, <1>4, CutHas
<1> DEFINE tail == SubSeq(Appending, 1, n - k)
<1>6. DurableIds(disk'[act]) = Then(DurableIds(disk[act]), tail) /\ n - k \in 0 .. Len(Appending)
  BY <1>1, <1>5, IdsOfBatch
<1>7. tail \in Seq(Nat)
  <2>1. Appending \in Seq(Nat) /\ Len(Appending) \in Nat
    BY AppendingIs
  <2>2. n - k \in Int /\ n - k <= Len(Appending)
    BY <1>6, <2>1
  <2>3. QED
    BY <2>1, <2>2, PrefixOfCells
<1> HIDE DEF tail
<1>8. \A s \in Segments : s # act => DurableIds(disk'[s]) = DurableIds(disk[s])
  BY LossSame
<1>9. \A s \in Segments : DurableIds(disk[s]) \in Seq(Nat)
  BY SoundIds
<1>10. \A s \in Segments : s > act => DurableIds(disk[s]) = <<>>
  BY <1>1, Numbers, NoneYet
<1> HIDE DEF act
<1>11. Log' = Log \o tail
  BY <1>1, <1>6, <1>7, <1>8, <1>9, <1>10, LogAppends
<1>12. QED
  BY <1>6, <1>11 DEF tail

-----------------------------------------------------------------------------
(* Each step is a step of DurableLog, or changes nothing it can see. *)

UnsyncedInv == OnlyPowerLosses => Unsynced

LEMMA Stutters ==
  ASSUME SameIds, Appending' = Appending, acked' = acked
  PROVE  UNCHANGED Abstract!vars
<1>1. Log' = Log
  BY LogSame DEF SameIds
<1>2. QED
  BY <1>1 DEF Abstract!vars, Log, Appending

LEMMA StaysIdle ==
  ASSUME SameIds, acked' = acked,
         pc \notin {"append", "rolling", "written"}, pc' \notin {"append", "rolling", "written"}
  PROVE  UNCHANGED Abstract!vars
<1>1. Appending = <<>> /\ Appending' = <<>>
  BY DEF Appending
<1>2. QED
  BY <1>1, Stutters

LEMMA StaysBusy ==
  ASSUME SameIds, acked' = acked, batch' = batch,
         pc \in {"append", "rolling", "written"}, pc' \in {"append", "rolling", "written"}
  PROVE  UNCHANGED Abstract!vars
<1>1. Appending' = Appending
  BY DEF Appending
<1>2. QED
  BY <1>1, Stutters

\* Every record of the log was submitted.
LEMMA LogSubmitted ==
  ASSUME Sound
  PROVE  Log \in Seq(1 .. nextId - 1)
<1> DEFINE n == MaxSegment + 1
<1>1. n \in Nat \ {0} /\ \A s \in 1 .. n : s - 1 \in Segments
  BY WalAssumption DEF Segments
<1>2. Parts(disk) \in [1 .. n -> Seq(1 .. nextId - 1)]
  BY <1>1, SoundFile DEF Parts
<1> HIDE DEF n
<1>3. FlattenSeq(Parts(disk)) \in Seq(1 .. nextId - 1)
  BY <1>1, <1>2, FlattenType
<1>4. QED
  BY <1>3, LogParts

LEMMA SubmitBegins ==
  ASSUME Sound, NEW n \in 1 .. MaxBatch, Submit(n)
  PROVE  Abstract!Begin
<1>1. /\ pc = "idle" /\ pc' = "append" /\ disk' = disk /\ acked' = acked
      /\ batch' = [first |-> nextId, last |-> nextId + n - 1]
  BY DEF Submit, files
<1>2. nextId \in Nat \ {0} /\ n \in Nat \ {0}
  BY WalAssumption, Numbers DEF Sound
<1>3. Log' = Log
  BY <1>1, LogSame
<1>4. Appending = <<>>
  BY <1>1 DEF Appending
<1>5. Appending' = [i \in 1 .. n |-> nextId + i - 1]
  <2>1. Appending' = [i \in 1 .. (nextId + n - 1) - nextId + 1 |-> nextId + i - 1]
    BY <1>1 DEF Appending
  <2>2. (nextId + n - 1) - nextId + 1 = n
    BY <1>2
  <2>3. QED
    BY <2>1, <2>2
<1>6. Appending' # <<>> /\ Len(Appending') = n
  BY <1>2, <1>5
<1>7. \A i \in 1 .. Len(Appending'), j \in 1 .. Len(Log) : Appending'[i] > Log[j]
  <2> SUFFICES ASSUME NEW i \in 1 .. n, NEW j \in 1 .. Len(Log) PROVE Appending'[i] > Log[j]
    BY <1>6
  <2>1. Log[j] \in 1 .. nextId - 1
    BY LogSubmitted, ElementOfSeq
  <2>2. Appending'[i] = nextId + i - 1 /\ i \in Nat \ {0}
    BY <1>5
  <2>3. QED
    BY <1>2, <2>1, <2>2
<1>8. QED
  BY <1>1, <1>3, <1>4, <1>6, <1>7 DEF Abstract!Begin, Log, Appending

LEMMA AckAcknowledges ==
  ASSUME Sound, Unsynced, TypeInv', Ack
  PROVE  Abstract!Acknowledge
<1>1. pc = "written" /\ pc' = "idle" /\ acked' = acked \cup BatchIds
  BY DEF Ack
<1>2. Log' = Log \o Appending
  BY AckAppends
<1>3. Appending # <<>> /\ {Appending[i] : i \in 1 .. Len(Appending)} = BatchIds
  BY <1>1, AppendingIs
<1>4. Appending' = <<>>
  BY <1>1 DEF Appending
<1>5. acked' = acked \cup Abstract!Ids(Appending)
  BY <1>1, <1>3 DEF Abstract!Ids
<1>6. QED
  BY <1>2, <1>3, <1>4, <1>5 DEF Abstract!Acknowledge, Log, Appending

LEMMA LossAbandons ==
  ASSUME Sound, Unsynced, TypeInv', PowerLoss
  PROVE  Abstract!Abandon \/ UNCHANGED Abstract!vars
<1>1. pc' = "down" /\ acked' = acked
  BY DEF PowerLoss, Down, history
<1>2. Appending' = <<>>
  BY <1>1 DEF Appending
<1>3. CASE pc \notin {"append", "rolling", "written"}
  <2>1. SameIds
    BY <1>3, LossSame DEF SameIds
  <2>2. QED
    BY <1>1, <1>3, <2>1, StaysIdle
<1>4. CASE pc \in {"append", "rolling", "written"}
  <2>1. Appending # <<>> /\ Appending \in Seq(Nat) /\ Len(Appending) \in Nat
    BY <1>4, AppendingIs
  <2>2. \E m \in 0 .. Len(Appending) : Log' = Log \o SubSeq(Appending, 1, m)
    <3>1. CASE pc = "written"
      BY <3>1, LossAppends
    <3>2. CASE pc # "written"
      <4>1. SameIds
        BY <3>2, LossSame DEF SameIds
      <4>2. Log' = Log
        BY <4>1, LogSame DEF SameIds
      <4>3. SubSeq(Appending, 1, 0) = <<>>
        BY SubSeqEmpty
      <4>4. Log \o <<>> = Log
        BY LogSubmitted, ConcatEmptySeq
      <4>5. 0 \in 0 .. Len(Appending)
        BY <2>1
      <4>6. QED
        BY <4>2, <4>3, <4>4, <4>5, Zenon
    <3>3. QED
      BY <3>1, <3>2
  <2>3. Abstract!Abandon
    BY <1>1, <1>2, <2>1, <2>2 DEF Abstract!Abandon, Log, Appending
  <2>4. QED
    BY <2>3
<1>5. QED
  BY <1>3, <1>4

\* A step of a log whose process was not killed and saw no error.
LEMMA StepRefines ==
  ASSUME Sound, Unsynced, TypeInv', Next, OnlyPowerLosses', OnlyPowerLosses
  PROVE  Abstract!Next \/ UNCHANGED Abstract!vars
<1>. TypeInv /\ CrashParts
  BY DEF Sound
<1>1. bounds.kills = 0 /\ bounds.faults = 0 /\ bounds'.kills = 0 /\ bounds'.faults = 0
  BY DEF OnlyPowerLosses, NoFault
<1>2. CASE \E n \in 1 .. MaxBatch : Submit(n)
  BY <1>2, SubmitBegins DEF Abstract!Next
<1>3. CASE Roll
  <2>1. pc = "append" /\ pc' = "rolling" /\ batch' = batch /\ acked' = acked
    BY <1>3 DEF Roll, memory, history
  <2>2. QED
    BY <1>3, <2>1, RollSame, StaysBusy
<1>4. CASE RollDone
  <2>1. pc = "rolling" /\ pc' = "append" /\ batch' = batch /\ acked' = acked
    BY <1>4 DEF RollDone, history
  <2>2. QED
    BY <1>4, <2>1, RollDoneSame, StaysBusy
<1>5. CASE WriteBatch
  <2>1. pc = "append" /\ pc' = "written" /\ batch' = batch /\ acked' = acked
    BY <1>5 DEF WriteBatch, memory, history
  <2>2. QED
    BY <1>5, <2>1, WriteUnsynced, StaysBusy
<1>6. CASE Ack
  BY <1>6, AckAcknowledges DEF Abstract!Next
<1>7. CASE WriteFails \/ SyncFails \/ RollFails \/ DirSyncFails
  <2>1. Count("faults")
    BY <1>7 DEF WriteFails, SyncFails, RollFails, DirSyncFails, Fails
  <2>2. bounds'.faults = bounds.faults + 1
    BY <2>1 DEF Count, TypeInv, TypeOK
  <2>3. QED
    BY <1>1, <2>2
<1>8. CASE CheckpointRename \/ CheckpointDone
  <2>1. /\ pc \in {"idle", "renamed"} /\ pc' \in {"idle", "renamed"} /\ disk' = disk /\ acked' = acked
    BY <1>8 DEF CheckpointRename, CheckpointDone, history
  <2>2. QED
    BY <2>1, StaysIdle DEF SameIds
<1>9. ASSUME NEW s \in Segments, Release(s) PROVE UNCHANGED Abstract!vars
  <2>1. pc = "idle" /\ pc' = "unlinking" /\ acked' = acked
    BY <1>9 DEF Release, history
  <2>2. QED
    BY <1>9, <2>1, ReleaseSame, StaysIdle
<1>10. CASE ReleaseDone \/ Opened
  <2>1. pc \in {"unlinking", "opening"} /\ pc' = "idle" /\ acked' = acked
    BY <1>10 DEF ReleaseDone, Opened, history
  <2>2. QED
    BY <1>10, <2>1, SyncDirSame, StaysIdle
<1>11. CASE Kill
  <2>1. bounds'.kills = bounds.kills + 1
    BY <1>11 DEF Kill, Count, TypeInv, TypeOK
  <2>2. QED
    BY <1>1, <2>1
<1>12. CASE PowerLoss
  BY <1>12, LossAbandons DEF Abstract!Next
<1>13. CASE Rekey
  <2>1. pc = "down" /\ pc' = "down" /\ disk' = disk /\ acked' = acked
    BY <1>13 DEF Rekey, files, history
  <2>2. QED
    BY <2>1, StaysIdle DEF SameIds
<1>14. CASE RecoverFresh
  <2>1. pc = "down" /\ pc' = "opening" /\ acked' = acked
    BY <1>14 DEF RecoverFresh, history
  <2>2. QED
    BY <1>14, <2>1, FreshSame, StaysIdle
<1>15. ASSUME NEW from \in {ckptFile, START}, RecoverRefuses(from) PROVE FALSE
  BY <1>15, NeverRefuses DEF RecoverRefuses
<1>16. ASSUME NEW from \in {ckptFile, START}, Recover(from) PROVE UNCHANGED Abstract!vars
  <2>1. pc = "down" /\ pc' \in {"opening", "idle"} /\ acked' = acked
    BY <1>16 DEF Recover
  <2>2. SameIds
    BY <1>16, <2>1, RecoverSame
  <2>3. QED
    BY <2>1, <2>2, StaysIdle
<1>17. QED
  BY <1>2, <1>3, <1>4, <1>5, <1>6, <1>7, <1>8, <1>9, <1>10, <1>11, <1>12, <1>13, <1>14, <1>15, <1>16
     DEF Next, RecoverAny

LEMMA UnsyncedStep ==
  ASSUME TypeInv, TypeInv', OrderInv, CrashInv, UnsyncedInv, [Next]_vars
  PROVE  UnsyncedInv'
<1>1. CASE UNCHANGED vars
  BY <1>1 DEF UnsyncedInv, Unsynced, OnlyPowerLosses, NoFault, vars, files, memory
<1>2. CASE WriteBatch /\ OnlyPowerLosses
  <2>1. Sound
    BY <1>2 DEF Sound, OrderInv, CrashInv, OrderParts, OneKindOfCrash, SameCrashes, OnlyPowerLosses
  <2>2. disk'[position.segment].synced = position.offset /\ position' = position
    BY <1>2, <2>1, WriteUnsynced DEF WriteBatch, memory
  <2>3. QED
    BY <2>2 DEF UnsyncedInv, Unsynced
<1>3. CASE Next /\ ~WriteBatch
  <2>1. pc' # "written"
    <3>1. CASE \E n \in 1 .. MaxBatch : Submit(n)
      BY <3>1 DEF Submit
    <3>2. CASE Roll \/ RollDone \/ Ack
      BY <3>2 DEF Roll, RollDone, Ack
    <3>3. CASE WriteFails \/ SyncFails \/ RollFails \/ DirSyncFails
      BY <3>3 DEF WriteFails, SyncFails, RollFails, DirSyncFails, Fails
    <3>4. CASE CheckpointRename \/ CheckpointDone \/ (\E s \in Segments : Release(s)) \/ ReleaseDone
      BY <3>4 DEF CheckpointRename, CheckpointDone, Release, ReleaseDone
    <3>5. CASE Kill \/ PowerLoss
      BY <3>5 DEF Kill, PowerLoss, Down
    <3>6. CASE Rekey \/ RecoverFresh \/ Opened
      BY <3>6 DEF Rekey, RecoverFresh, Opened
    <3>7. CASE RecoverAny
      BY <3>7 DEF RecoverAny, RecoverRefuses, Recover
    <3>8. QED
      BY <1>3, <3>1, <3>2, <3>3, <3>4, <3>5, <3>6, <3>7 DEF Next
  <2>2. QED
    BY <2>1 DEF UnsyncedInv, Unsynced
<1>4. OnlyPowerLosses' => OnlyPowerLosses
  BY CrashesStay
<1>5. QED
  BY <1>1, <1>2, <1>3, <1>4 DEF UnsyncedInv

LEMMA InitRefines == Init => Abstract!Init /\ UnsyncedInv
<1> SUFFICES ASSUME Init PROVE Abstract!Init /\ UnsyncedInv
  OBVIOUS
<1>1. pc = "down" /\ acked = {} /\ disk = [s \in Segments |-> NoFile] /\ key \in BOOLEAN
  BY DEF Init
<1> DEFINE n == MaxSegment + 1
<1>2. n \in Nat \ {0} /\ \A s \in 1 .. n : s - 1 \in Segments
  BY WalAssumption DEF Segments
<1>3. \A s \in 1 .. n : DurableIds(disk[s - 1]) = <<>>
  BY <1>1, <1>2, NoneYet
<1>4. Parts(disk) = [s \in 1 .. n |-> <<>>]
  BY <1>3 DEF Parts
<1> HIDE DEF n
<1>5. Log = <<>>
  BY <1>2, <1>4, FlattenEmpty, LogParts
<1>6. Appending = <<>>
  BY <1>1 DEF Appending
<1>7. Abstract!Init
  BY <1>1, <1>5, <1>6 DEF Abstract!Init, Log, Appending
<1>8. QED
  BY <1>1, <1>7 DEF UnsyncedInv, Unsynced

\* While the process is never killed by itself and no append fails, the segment
\* files are DurableLog: a batch joins the log when it is acknowledged, a power
\* loss may leave a prefix of it, and no step takes back, reorders or repeats a
\* record that is in the log.
THEOREM LogRefines == Spec => ImplementsDurableLog
<1> DEFINE Invs == TypeInv /\ OrderInv /\ CrashInv /\ UnsyncedInv
<1>1. Init => Abstract!Init /\ UnsyncedInv
  BY InitRefines
<1>2. TypeInv /\ TypeInv' /\ OrderInv /\ CrashInv /\ UnsyncedInv /\ [Next]_vars => UnsyncedInv'
  BY UnsyncedStep
<1>3. TypeInv /\ TypeInv' /\ OrderInv /\ CrashInv /\ UnsyncedInv /\ [Next]_vars
        => [OnlyPowerLosses' => Abstract!Next]_(Abstract!vars)
  <2> SUFFICES ASSUME TypeInv, TypeInv', OrderInv, CrashInv, UnsyncedInv, [Next]_vars, OnlyPowerLosses'
               PROVE  Abstract!Next \/ UNCHANGED Abstract!vars
    OBVIOUS
  <2>1. CASE UNCHANGED vars
    <3>1. SameIds /\ Appending' = Appending /\ acked' = acked
      BY <2>1 DEF vars, files, memory, history, SameIds, Appending
    <3>2. QED
      BY <3>1, Stutters
  <2>2. CASE Next
    <3>1. OnlyPowerLosses
      BY CrashesStay
    <3>2. Sound /\ Unsynced
      BY <3>1 DEF Sound, OrderInv, CrashInv, OrderParts, OneKindOfCrash, SameCrashes, OnlyPowerLosses, UnsyncedInv
    <3>3. QED
      BY <2>2, <3>1, <3>2, StepRefines
  <2>3. QED
    BY <2>1, <2>2
<1>4. Spec => [](TypeInv /\ OrderInv /\ CrashInv)
  BY SafetyInvariants
<1>5. QED
  BY <1>1, <1>2, <1>3, <1>4, PTL DEF Spec, ImplementsDurableLog
=============================================================================
