------------------------------ MODULE Archive ------------------------------
(***************************************************************************)
(* The cold archive, theta-archive: a custodian that sweeps the segments    *)
(* the log's checkpoint covers into an object store, proves each one by     *)
(* reading it back, and only then releases the local file; retention, which *)
(* forgets the oldest; restore plans and drills.                            *)
(*                                                                         *)
(* The log is a different process: it rolls and checkpoints at any moment,  *)
(* in the middle of a tick too.  The manifest lives in memory.  The crate's *)
(* owner may save it, expire from it, or come back with the saved one,      *)
(* whenever no tick is running.                                             *)
(***************************************************************************)
EXTENDS Integers, Functions, FiniteSetsExt

CONSTANTS
    Window,         \* Retention::For
    MaxSegment,     \* bound: the last segment the log rolls to
    MaxTime,        \* bound: the last instant
    MaxFaults,      \* bound: failures of the store and of the local disk
    MaxRots,        \* bound: objects that go bad after they were stored
    MaxRestarts     \* bound: restarts of the archiver

ASSUME ArchiveAssumption ==
    {Window, MaxSegment, MaxTime, MaxFaults, MaxRots, MaxRestarts} \subseteq Nat

Segments == 0 .. MaxSegment

VARIABLES
    active,     \* the segment the log writes to
    covered,    \* the segment its checkpoint lies in
    local,      \* the segment files on disk
    objects,    \* what a fetch of each segment's key gives back
    manifest,   \* Sweep.manifest: verified_at_ms, by sequence
    saved,      \* the manifest file
    todo,       \* what the running tick has not come to
    at,         \* the running tick's now_ms
    release,    \* Custodian.release
    now,
    rotted,     \* history: objects that went bad after their last store
    stale,      \* history: a manifest saved before an expiry was loaded after it
    bounds

log == <<active, covered>>
vars == <<log, local, objects, manifest, saved, todo, at, release, now, rotted, stale, bounds>>

(* "unreadable" stands for an absent object, one that cannot be fetched, and   *)
(* one of another length; "altered" has the right length and other bytes.      *)
Contents == {"unreadable", "altered", "intact"}

Init ==
    /\ active = 0 /\ covered = 0 /\ local = {0}
    /\ objects = [s \in Segments |-> "unreadable"]
    /\ manifest = <<>> /\ saved = <<>>
    /\ todo = {} /\ at = 0
    /\ release \in BOOLEAN
    /\ now = 0
    /\ rotted = {} /\ stale = FALSE
    /\ bounds = [faults |-> 0, rots |-> 0, restarts |-> 0]

Spend(what, most) ==
    /\ bounds[what] < most
    /\ bounds' = [bounds EXCEPT ![what] = @ + 1]

Fault == Spend("faults", MaxFaults)

-----------------------------------------------------------------------------
(* The log. *)

Roll ==
    /\ active < MaxSegment
    /\ active' = active + 1
    /\ local' = local \union {active'}
    /\ UNCHANGED <<covered, objects, manifest, saved, todo, at, release, now, rotted, stale, bounds>>

Checkpoint ==
    /\ covered < active
    /\ covered' \in covered + 1 .. active
    /\ UNCHANGED <<active, local, objects, manifest, saved, todo, at, release, now, rotted, stale, bounds>>

\* Mutant: the checkpoint's own segment is offered too.
ArchivableToCheckpoint == {s \in local : s <= covered}

\* Mutant: what was archived on an earlier tick is not offered again.
ArchivableOnce == {s \in local : s < covered /\ s \notin DOMAIN manifest}

(* SegmentWal::archivable_segments *)
Archivable == {s \in local : s < covered}

(* SegmentWal::release_segment checks the sequence again, whoever asks. *)
Releasable(s) == s < covered

-----------------------------------------------------------------------------
(* Custodian::tick, a segment at a time: the log moves on between them. *)

Idle == todo = {}

StartTick ==
    /\ Idle
    /\ todo' = Archivable
    /\ at' = now
    /\ UNCHANGED <<log, local, objects, manifest, saved, release, now, rotted, stale, bounds>>

(* The tick goes through its segments in order. *)
First(s) == s \in todo /\ \A r \in todo : s <= r

(* source.release of a segment whose outcome is releasable.  The file may      *)
(* stay: the next tick asks again.                                             *)
LetGo(s) ==
    \/ /\ release /\ Releasable(s)
       /\ local' = local \ {s}
       /\ UNCHANGED bounds
    \/ /\ release /\ Fault
       /\ UNCHANGED local
    \/ /\ ~release
       /\ UNCHANGED <<local, bounds>>

(* ArchiveOutcome::AlreadyArchived *)
AlreadyArchived(s) ==
    /\ s \in DOMAIN manifest
    /\ LetGo(s)
    /\ todo' = todo \ {s}
    /\ UNCHANGED <<log, objects, manifest, saved, at, release, now, rotted, stale>>

\* Mutant: a store that reports success is proof enough.
StoredIsProof(s) == TRUE

(* Sweep::prove: fetched back, and of the digest taken before the store. *)
Proved(s) == objects'[s] = "intact"

Stores(s, content) ==
    /\ objects' = [objects EXCEPT ![s] = content]
    /\ rotted' = rotted \ {s}

(* Manifest::record *)
Record(s) == manifest' = [r \in DOMAIN manifest \union {s} |-> IF r = s THEN at ELSE manifest[r]]

(* ArchiveOutcome::Archived: stored, proved and recorded, and then let go. *)
Archived(s) ==
    /\ s \notin DOMAIN manifest
    /\ \E content \in Contents : Stores(s, content)
    /\ Proved(s)
    /\ Record(s)
    /\ LetGo(s)
    /\ todo' = todo \ {s}
    /\ UNCHANGED <<log, saved, at, release, now, stale>>

(* ArchiveOutcome::Deferred: the store cannot be reached, or its answer is     *)
(* lost.  The tick stops.                                                      *)
Deferred(s) ==
    /\ s \notin DOMAIN manifest
    /\ Fault
    /\ UNCHANGED <<objects, rotted>> \/ Stores(s, "intact")
    /\ todo' = {}
    /\ UNCHANGED <<log, local, manifest, saved, at, release, now, stale>>

(* ArchiveOutcome::Failed: the local file, the store or the proof fails, and   *)
(* whatever was stored stays there, unrecorded.  The tick goes on.             *)
Failed(s) ==
    /\ s \notin DOMAIN manifest
    /\ Fault
    /\ UNCHANGED <<objects, rotted>> \/ \E content \in Contents : Stores(s, content)
    /\ todo' = todo \ {s}
    /\ UNCHANGED <<log, local, manifest, saved, at, release, now, stale>>

Sweep ==
    \E s \in Segments :
        /\ First(s)
        /\ AlreadyArchived(s) \/ Archived(s) \/ Deferred(s) \/ Failed(s)

-----------------------------------------------------------------------------
(* Between ticks: the owner. *)

(* Manifest::save, through a temporary file and a rename. *)
Save ==
    /\ Idle
    /\ saved' = manifest
    /\ UNCHANGED <<log, local, objects, manifest, todo, at, release, now, rotted, stale, bounds>>

(* The archiver dies, in a tick or not, and starts from the file. *)
Restart ==
    /\ Spend("restarts", MaxRestarts)
    /\ manifest' = saved
    /\ todo' = {}
    /\ stale' = (stale \/ ~ DOMAIN saved \subseteq DOMAIN manifest)
    /\ UNCHANGED <<log, local, objects, saved, at, release, now, rotted>>

(* Retention::expired_by *)
ExpiredBy(verified) == now - verified >= Window

(* Manifest::expired: the oldest that have aged out, up to the first that has  *)
(* not, and never everything.                                                  *)
Expired ==
    LET aged == {s \in DOMAIN manifest : \A r \in DOMAIN manifest : r <= s => ExpiredBy(manifest[r])}
    IN  IF aged = DOMAIN manifest THEN aged \ {Max(aged)} ELSE aged

(* Manifest::forget of what expired.  The objects stay where they are. *)
Expire ==
    /\ Idle
    /\ manifest # <<>>
    /\ Expired # {}
    /\ manifest' = Restrict(manifest, DOMAIN manifest \ Expired)
    /\ UNCHANGED <<log, local, objects, saved, todo, at, release, now, rotted, stale, bounds>>

(* An object goes bad in the store. *)
Rot ==
    /\ Spend("rots", MaxRots)
    /\ \E s \in Segments, content \in Contents \ {"intact"} :
           /\ objects[s] = "intact"
           /\ objects' = [objects EXCEPT ![s] = content]
           /\ rotted' = rotted \union {s}
    /\ UNCHANGED <<log, local, manifest, saved, todo, at, release, now, stale>>

Tick ==
    /\ now < MaxTime
    /\ now' = now + 1
    /\ UNCHANGED <<log, local, objects, manifest, saved, todo, at, release, rotted, stale, bounds>>

Next ==
    \/ Roll \/ Checkpoint
    \/ StartTick \/ Sweep
    \/ Save \/ Restart \/ Expire
    \/ Rot \/ Tick

Spec == Init /\ [][Next]_vars

(* schedule::run: the loop ticks until it is cancelled, whatever a tick found. *)
FairSpec == Spec /\ WF_vars(StartTick) /\ WF_vars(Sweep)

-----------------------------------------------------------------------------
(* Reading the archive changes nothing in it. *)

Horizon == Min(DOMAIN manifest)
Newest == Max(DOMAIN manifest)

\* Mutant: a plan of what there is.
PlanOfWhatThereIs(through) == TRUE

(* Manifest::restore_plan *)
Planned(through) == 0 .. through \subseteq DOMAIN manifest

(* Sweep::restore: everything planned is fetched, and checked by its digest. *)
Restores(through) ==
    /\ Planned(through)
    /\ \A s \in DOMAIN manifest : s <= through => objects[s] = "intact"

(* Manifest::gaps *)
Gaps == (Horizon .. Newest) \ DOMAIN manifest

(* drill::run over everything: fetched, and of the length recorded. *)
DrillPasses ==
    /\ Gaps = {}
    /\ \A s \in DOMAIN manifest : objects[s] # "unreadable"

-----------------------------------------------------------------------------
Dated(m) == \A s \in DOMAIN m : s \in 0 .. covered - 1 /\ m[s] \in 0 .. now

(* The shape of the state; whatever the archiver believes, the log keeps the   *)
(* segments it would recover from, and the archive is only ever behind it.     *)
TypeOK ==
    /\ active \in Segments /\ covered \in 0 .. active
    /\ covered .. active \subseteq local /\ local \subseteq 0 .. active
    /\ objects \in [Segments -> Contents]
    /\ Dated(manifest) /\ Dated(saved)
    /\ todo \subseteq local \intersect 0 .. covered - 1
    /\ at \in 0 .. now /\ now \in 0 .. MaxTime
    /\ rotted \subseteq Segments

(* "A local segment is never released until the archive has been proved to     *)
(* return it byte for byte": every segment is on disk, or its object is intact *)
(* or was and went bad.  Ticks that die between a store and its proof, answers *)
(* that are lost, segments forgotten while their file is still here and stored *)
(* over, all considered; a manifest older than an expiry is what can break it. *)
Recoverable == \A s \in 0 .. active : s \in local \/ objects[s] = "intact" \/ s \in rotted \/ stale

(* While nothing has expired and no object went bad without changing length, a *)
(* drill over everything passes exactly when a restore of everything would.    *)
DrillsAgree ==
    manifest # <<>> /\ Horizon = 0 /\ (\A s \in Segments : objects[s] # "altered") =>
        (DrillPasses <=> Restores(Newest))

(* Every segment the checkpoint covers is released in the end, past deferred   *)
(* ticks, failed proofs, refused releases, restarts and expiries.              *)
EventuallyReleased ==
    \A s \in Segments : release /\ s < covered ~> s \notin local

=============================================================================
