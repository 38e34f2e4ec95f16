--------------------------- MODULE ArchiveProofs ---------------------------
(***************************************************************************)
(* For every window and every bound: the archiver's state keeps its shape,  *)
(* and no segment leaves the disk before its object is proved.              *)
(*                                                                         *)
(* Recoverable speaks of files and objects, and a tick trusts the manifest  *)
(* instead, so the invariant also says that what the manifest lists is good *)
(* (Listed), and that what a tick has yet to come to is still on disk       *)
(* (TypeOK).                                                                *)
(***************************************************************************)
EXTENDS Archive, TLAPS, NaturalsInduction, WellFoundedInduction

Good(s) == objects[s] = "intact" \/ s \in rotted

Listed == stale \/ \A s \in DOMAIN manifest : Good(s)

Inv == TypeOK /\ Listed /\ Recoverable

-----------------------------------------------------------------------------
(* The initial state. *)
LEMMA Initially == Init => Inv
<1> SUFFICES ASSUME Init PROVE Inv
  OBVIOUS
<1>1. TypeOK
  BY ArchiveAssumption DEF Init, TypeOK, Dated, Segments, Contents
<1>2. Listed /\ Recoverable
  BY DEF Init, Listed, Recoverable
<1> QED
  BY <1>1, <1>2 DEF Inv

-----------------------------------------------------------------------------
LEMMA Wider == ASSUME NEW a \in Nat, NEW b \in Nat, a < b PROVE 0 .. a - 1 \subseteq 0 .. b - 1
OBVIOUS

(* The log's own steps leave every object alone, and only add files. *)
LEMMA LogSteps == Inv /\ (Roll \/ Checkpoint) => Inv'
<1> SUFFICES ASSUME Inv, Roll \/ Checkpoint PROVE Inv'
  OBVIOUS
<1>1. TypeOK'
  <2>1. CASE Roll
    BY <2>1, ArchiveAssumption DEF Inv, TypeOK, Dated, Roll, Segments
  <2>2. CASE Checkpoint
    <3>1. covered \in Nat /\ active \in Nat /\ covered' \in covered + 1 .. active
      BY <2>2, ArchiveAssumption DEF Inv, TypeOK, Checkpoint, Segments
    <3>2. Dated(manifest)' /\ Dated(saved)'
      BY <2>2, <3>1 DEF Inv, TypeOK, Dated, Checkpoint
    <3>3. covered' \in Nat /\ covered < covered' /\ covered' <= active
      BY <3>1
    <3>4. covered' \in 0 .. active
      BY <3>1, <3>3
    <3>5. covered' .. active \subseteq covered .. active
      BY <3>1, <3>3
    <3>6. 0 .. covered - 1 \subseteq 0 .. covered' - 1
      BY <3>1, <3>3, Wider
    <3>7. covered .. active \subseteq local /\ todo \subseteq local \intersect 0 .. covered - 1
      BY DEF Inv, TypeOK
    <3>8. covered' .. active \subseteq local /\ todo \subseteq local \intersect 0 .. covered' - 1
      BY <3>5, <3>6, <3>7
    <3> QED
      BY <2>2, <3>2, <3>4, <3>8 DEF Inv, TypeOK, Checkpoint
  <2> QED
    BY <2>1, <2>2
<1>2. Listed'
  BY DEF Inv, Listed, Good, Roll, Checkpoint
<1>3. Recoverable'
  <2>1. CASE Roll
    <3>1. active' = active + 1 /\ local' = local \union {active + 1} /\ active \in Nat
      BY <2>1, ArchiveAssumption DEF Inv, TypeOK, Roll, Segments
    <3>2. \A s \in 0 .. active' : s = active + 1 \/ s \in 0 .. active
      BY <3>1
    <3> QED
      BY <2>1, <3>1, <3>2 DEF Inv, Recoverable, Roll
  <2>2. CASE Checkpoint
    BY <2>2 DEF Inv, Recoverable, Checkpoint
  <2> QED
    BY <2>1, <2>2
<1> QED
  BY <1>1, <1>2, <1>3 DEF Inv

(* The owner's steps, the clock and the start of a tick touch neither files   *)
(* nor objects.  A manifest that gains entries by a restart makes the state   *)
(* stale.                                                                     *)
LEMMA OwnerSteps ==
    Inv /\ (StartTick \/ Save \/ Restart \/ Expire \/ Tick) => Inv'
<1> SUFFICES ASSUME Inv, StartTick \/ Save \/ Restart \/ Expire \/ Tick PROVE Inv'
  OBVIOUS
<1>1. TypeOK'
  <2>1. CASE StartTick
    <3>1. todo' \subseteq local \intersect 0 .. covered - 1 /\ at' \in 0 .. now
      BY <2>1, ArchiveAssumption DEF Inv, TypeOK, StartTick, Archivable, Segments
    <3> QED
      BY <2>1, <3>1 DEF Inv, TypeOK, Dated, StartTick, log
  <2>2. CASE Save
    BY <2>2 DEF Inv, TypeOK, Dated, Save, log
  <2>3. CASE Restart
    BY <2>3 DEF Inv, TypeOK, Dated, Restart, log
  <2>4. CASE Expire
    BY <2>4 DEF Inv, TypeOK, Dated, Expire, Restrict, log
  <2>5. CASE Tick
    BY <2>5, ArchiveAssumption DEF Inv, TypeOK, Dated, Tick, log
  <2> QED
    BY <2>1, <2>2, <2>3, <2>4, <2>5
<1>2. Listed'
  <2>1. CASE Restart
    BY <2>1 DEF Inv, Listed, Good, Restart
  <2>2. CASE Expire
    BY <2>2 DEF Inv, Listed, Good, Expire, Restrict
  <2>3. CASE StartTick \/ Save \/ Tick
    BY <2>3 DEF Inv, Listed, Good, StartTick, Save, Tick
  <2> QED
    BY <2>1, <2>2, <2>3
<1>3. Recoverable'
  <2>1. CASE Restart
    BY <2>1 DEF Inv, Recoverable, Restart, log
  <2>2. CASE StartTick \/ Save \/ Expire \/ Tick
    BY <2>2 DEF Inv, Recoverable, StartTick, Save, Expire, Tick, log
  <2> QED
    BY <2>1, <2>2
<1> QED
  BY <1>1, <1>2, <1>3 DEF Inv

(* An object that goes bad is remembered as one. *)
LEMMA RotStep == Inv /\ Rot => Inv'
<1> SUFFICES ASSUME Inv, Rot PROVE Inv'
  OBVIOUS
<1> PICK s \in Segments, content \in Contents \ {"intact"} :
        /\ objects' = [objects EXCEPT ![s] = content]
        /\ rotted' = rotted \union {s}
  BY DEF Rot
<1>1. TypeOK'
  BY DEF Inv, TypeOK, Dated, Rot, log
<1>2. Listed' /\ Recoverable'
  BY DEF Inv, TypeOK, Listed, Recoverable, Good, Rot, log, Segments
<1> QED
  BY <1>1, <1>2 DEF Inv


-----------------------------------------------------------------------------
(* The sweep. *)

(* Letting go of a segment whose object is good. *)
LEMMA LettingGo ==
    ASSUME TypeOK, NEW s \in todo, LetGo(s)
    PROVE  local' = local \/ (local' = local \ {s} /\ s < covered)
BY DEF LetGo, Releasable

LEMMA Already ==
    ASSUME Inv, NEW s \in Segments, First(s), AlreadyArchived(s) PROVE Inv'
<1>1. s \in todo /\ (local' = local \/ (local' = local \ {s} /\ s < covered))
  BY LettingGo DEF Inv, First, AlreadyArchived
<1>2. TypeOK'
  <2>1. covered .. active \subseteq local' /\ local' \subseteq 0 .. active /\ todo' \subseteq local' \intersect 0 .. covered - 1
    <3>1. todo' = todo \ {s} /\ UNCHANGED log
      BY DEF AlreadyArchived
    <3>2. covered .. active \subseteq local /\ local \subseteq 0 .. active /\ todo \subseteq local \intersect 0 .. covered - 1
      BY DEF Inv, TypeOK
    <3>3. s < covered => s \notin covered .. active
      BY ArchiveAssumption DEF Inv, TypeOK, Segments
    <3> QED
      BY <1>1, <3>1, <3>2, <3>3 DEF log
  <2> QED
    BY <2>1 DEF Inv, TypeOK, Dated, AlreadyArchived, log
<1>3. Listed'
  BY DEF Inv, Listed, Good, AlreadyArchived
<1>4. Recoverable'
  <2>1. stale \/ Good(s)
    BY DEF Inv, Listed, AlreadyArchived
  <2> QED
    BY <1>1, <2>1 DEF Inv, Recoverable, Good, AlreadyArchived, log
<1> QED
  BY <1>2, <1>3, <1>4 DEF Inv

(* What a store may do to the state, recorded or not. *)
LEMMA Storing ==
    ASSUME Inv, NEW s \in Segments, NEW content \in Contents, Stores(s, content)
    PROVE  /\ objects' \in [Segments -> Contents] /\ objects'[s] = content
           /\ \A r \in Segments \ {s} : objects'[r] = objects[r]
           /\ rotted' = rotted \ {s} /\ rotted' \subseteq Segments
BY DEF Inv, TypeOK, Stores

LEMMA Archiving ==
    ASSUME Inv, NEW s \in Segments, First(s), Archived(s) PROVE Inv'
<1>1. s \in todo /\ (local' = local \/ (local' = local \ {s} /\ s < covered))
  BY LettingGo DEF Inv, First, Archived
<1>2. /\ objects' \in [Segments -> Contents] /\ objects'[s] = "intact"
      /\ \A r \in Segments \ {s} : objects'[r] = objects[r]
      /\ rotted' = rotted \ {s} /\ rotted' \subseteq Segments
  BY Storing DEF Archived, Proved
<1>3. TypeOK'
  <2>1. covered .. active \subseteq local' /\ local' \subseteq 0 .. active /\ todo' \subseteq local' \intersect 0 .. covered - 1
    <3>1. todo' = todo \ {s} /\ UNCHANGED log
      BY DEF Archived
    <3>2. covered .. active \subseteq local /\ local \subseteq 0 .. active /\ todo \subseteq local \intersect 0 .. covered - 1
      BY DEF Inv, TypeOK
    <3>3. s < covered => s \notin covered .. active
      BY ArchiveAssumption DEF Inv, TypeOK, Segments
    <3> QED
      BY <1>1, <3>1, <3>2, <3>3 DEF log
  <2>2. Dated(manifest)'
    BY <1>1 DEF Inv, TypeOK, Dated, Archived, Record, log
  <2> QED
    BY <1>2, <2>1, <2>2 DEF Inv, TypeOK, Dated, Archived, log
<1>4. Listed'
  <2>1. DOMAIN manifest' = DOMAIN manifest \union {s} /\ stale' = stale
    BY DEF Archived, Record
  <2>2. DOMAIN manifest \subseteq Segments
    BY ArchiveAssumption DEF Inv, TypeOK, Dated, Segments
  <2> QED
    BY <1>2, <2>1, <2>2 DEF Inv, Listed, Good
<1>5. Recoverable'
  <2>1. 0 .. active \subseteq Segments
    BY ArchiveAssumption DEF Inv, TypeOK, Segments
  <2> QED
    BY <1>1, <1>2, <2>1 DEF Inv, Recoverable, Archived, log
<1> QED
  BY <1>3, <1>4, <1>5 DEF Inv

(* Whatever a failed or deferred store leaves behind, its segment is still on *)
(* disk and not in the manifest.                                              *)
LEMMA Failing ==
    ASSUME Inv, NEW s \in Segments, First(s), Deferred(s) \/ Failed(s) PROVE Inv'
<1>1. s \in local /\ s \notin DOMAIN manifest /\ local' = local /\ todo' \subseteq todo
  BY DEF Inv, TypeOK, First, Deferred, Failed
<1>2. /\ objects' \in [Segments -> Contents] /\ rotted' \subseteq Segments
      /\ \A r \in Segments \ {s} : objects'[r] = objects[r]
      /\ rotted' \ {s} = rotted \ {s}
  <2>1. CASE UNCHANGED <<objects, rotted>>
    BY <2>1 DEF Inv, TypeOK
  <2>2. CASE \E content \in Contents : Stores(s, content)
    BY <2>2, Storing
  <2> QED
    BY <2>1, <2>2 DEF Deferred, Failed, Contents
<1>3. UNCHANGED <<log, local, manifest, saved, at, release, now, stale>>
  BY DEF Deferred, Failed
<1>4. TypeOK'
  BY <1>1, <1>2, <1>3 DEF Inv, TypeOK, Dated, log
<1>5. Listed'
  <2>1. DOMAIN manifest \subseteq Segments
    BY ArchiveAssumption DEF Inv, TypeOK, Dated, Segments
  <2> QED
    BY <1>1, <1>2, <1>3, <2>1 DEF Inv, Listed, Good
<1>6. Recoverable'
  <2>1. 0 .. active \subseteq Segments
    BY ArchiveAssumption DEF Inv, TypeOK, Segments
  <2> QED
    BY <1>1, <1>2, <1>3, <2>1 DEF Inv, Recoverable, log
<1> QED
  BY <1>4, <1>5, <1>6 DEF Inv

-----------------------------------------------------------------------------
LEMMA Inductive == Inv /\ [Next]_vars => Inv'
<1> SUFFICES ASSUME Inv, [Next]_vars PROVE Inv'
  OBVIOUS
<1>1. CASE Roll \/ Checkpoint
  BY <1>1, LogSteps
<1>2. CASE StartTick \/ Save \/ Restart \/ Expire \/ Tick
  BY <1>2, OwnerSteps
<1>3. CASE Sweep
  BY <1>3, Already, Archiving, Failing DEF Sweep
<1>4. CASE Rot
  BY <1>4, RotStep
<1>5. CASE UNCHANGED vars
  BY <1>5 DEF Inv, TypeOK, Dated, Listed, Good, Recoverable, vars, log
<1> QED
  BY <1>1, <1>2, <1>3, <1>4, <1>5 DEF Next

LEMMA Invariance == Spec => []Inv
<1> QED
  BY Initially, Inductive, PTL DEF Spec

(* The archiver's variables keep their shape, and the log the segments that   *)
(* its recovery would read.                                                   *)
THEOREM TypeCorrect == Spec => []TypeOK
<1>1. Inv => TypeOK
  BY DEF Inv
<1> QED
  BY <1>1, Invariance, PTL

(* A segment's file is released only when its object came back as it went in: *)
(* every segment is on disk or has an object that was good when last stored,  *)
(* unless a manifest older than an expiry was loaded.                         *)
THEOREM NothingIsLost == Spec => []Recoverable
<1>1. Inv => Recoverable
  BY DEF Inv
<1> QED
  BY <1>1, Invariance, PTL

-----------------------------------------------------------------------------
(* Drills and restores.  The manifest is a function, and so has a first and a *)
(* last entry once it has any.                                                *)

Shaped(m) == m = [s \in DOMAIN m |-> m[s]]
ManifestsShaped == Shaped(manifest) /\ Shaped(saved)

LEMMA EmptyManifest ==
    ASSUME NEW m, Shaped(m), DOMAIN m = {} PROVE m = <<>>
<1>1. <<>> = [s \in {} |-> m[s]]
  OBVIOUS
<1> QED
  BY <1>1 DEF Shaped

LEMMA ShapesKept == ManifestsShaped /\ [Next]_vars => ManifestsShaped'
<1> SUFFICES ASSUME ManifestsShaped, [Next]_vars PROVE Shaped(manifest') /\ Shaped(saved')
  BY DEF ManifestsShaped, Shaped
<1>1. Shaped(manifest) /\ Shaped(saved)
  BY DEF ManifestsShaped
<1>2. CASE UNCHANGED <<manifest, saved>>
  BY <1>1, <1>2
<1>3. CASE Save \/ Restart
  BY <1>1, <1>3 DEF Save, Restart
<1>4. CASE Expire
  BY <1>1, <1>4 DEF Expire, Restrict, Shaped
<1>5. ASSUME NEW s \in Segments, Archived(s) PROVE Shaped(manifest') /\ Shaped(saved')
  BY <1>1, <1>5 DEF Archived, Record, Shaped
<1>6. ASSUME NEW s \in Segments, AlreadyArchived(s) \/ Deferred(s) \/ Failed(s)
      PROVE  UNCHANGED <<manifest, saved>>
  BY <1>6 DEF AlreadyArchived, Deferred, Failed
<1>7. CASE UNCHANGED vars
  BY <1>2, <1>7 DEF vars
<1> QED
  BY <1>2, <1>3, <1>4, <1>5, <1>6, <1>7 DEF Next, Roll, Checkpoint, StartTick, Sweep, Rot, Tick

LEMMA MinOf ==
    ASSUME NEW S \in SUBSET Nat, S # {}
    PROVE  Min(S) \in S /\ \A y \in S : Min(S) <= y
<1>1. OpToRel(<, Nat) = {p \in Nat \X Nat : p[1] < p[2]}
  BY DEF OpToRel
<1>2. PICK x \in S : \A y \in S : <<y, x>> \notin OpToRel(<, Nat)
  BY NatLessThanWellFounded, WFMin
<1>3. ASSUME NEW y \in S PROVE x <= y
  <2>1. <<y, x>> \in Nat \X Nat
    OBVIOUS
  <2>2. ~(<<y, x>>[1] < <<y, x>>[2])
    BY <1>1, <1>2, <2>1
  <2> QED
    BY <2>2
<1> QED
  BY <1>3 DEF Min

LEMMA MaxOf ==
    ASSUME NEW k \in Nat, NEW S \in SUBSET (0 .. k), S # {}
    PROVE  Max(S) \in S /\ \A y \in S : y <= Max(S)
<1> DEFINE mirror == {n \in Nat : k - n \in S}
<1>1. \A y \in S : k - y \in mirror
  OBVIOUS
<1>2. Min(mirror) \in mirror /\ \A n \in mirror : Min(mirror) <= n
  <2>1. mirror \in SUBSET Nat /\ mirror # {}
    BY <1>1
  <2> QED
    BY <2>1, MinOf
<1> DEFINE x == k - Min(mirror)
<1>3. x \in S
  BY <1>2
<1>4. ASSUME NEW y \in S PROVE x >= y
  <2>1. Min(mirror) <= k - y /\ Min(mirror) \in Nat /\ y \in Nat
    BY <1>1, <1>2
  <2> QED
    BY <2>1
<1> QED
  BY <1>3, <1>4 DEF Max

LEMMA Agreement == TypeOK /\ ManifestsShaped => DrillsAgree
<1> SUFFICES ASSUME TypeOK, ManifestsShaped, manifest # <<>>, Horizon = 0,
                    \A s \in Segments : objects[s] # "altered"
             PROVE  DrillPasses <=> Restores(Newest)
  BY DEF DrillsAgree
<1>1. DOMAIN manifest # {}
  BY EmptyManifest DEF ManifestsShaped
<1>2. covered \in Nat /\ MaxSegment \in Nat /\ active \in Nat /\ covered <= active /\ active <= MaxSegment
  BY ArchiveAssumption DEF TypeOK, Segments
<1>3. DOMAIN manifest \subseteq 0 .. covered /\ DOMAIN manifest \subseteq Segments
  BY <1>2 DEF TypeOK, Dated, Segments
<1>4. Newest \in DOMAIN manifest /\ \A s \in DOMAIN manifest : s <= Newest
  BY <1>1, <1>2, <1>3, MaxOf DEF Newest
<1>5. Gaps = {} <=> Planned(Newest)
  BY DEF Gaps, Planned
<1>6. ASSUME NEW s \in DOMAIN manifest PROVE objects[s] # "unreadable" <=> objects[s] = "intact"
  BY <1>3, <1>6 DEF TypeOK, Contents
<1> QED
  BY <1>4, <1>5, <1>6 DEF DrillPasses, Restores

(* While nothing has expired and no object went bad without changing length,  *)
(* a drill of the whole archive passes exactly when it could all be restored. *)
THEOREM DrillsMeanRestores == Spec => []DrillsAgree
<1>1. Init => ManifestsShaped
  BY DEF Init, ManifestsShaped, Shaped
<1>2. Inv => TypeOK
  BY DEF Inv
<1> QED
  BY <1>1, <1>2, Invariance, ShapesKept, Agreement, PTL DEF Spec

=============================================================================
