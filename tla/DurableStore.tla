---------------------------- MODULE DurableStore ----------------------------
(***************************************************************************)
(* The durable log store and the part of the engine that keeps branches     *)
(* over it: theta-storage's durable.rs and branches.rs, with Engine::open,  *)
(* append, create_branch, discard_branch and merge of thetad's engine.rs.   *)
(*                                                                         *)
(* The log itself is the append-only sequence module Wal implements.  An    *)
(* entry's hash is its index in it (contents differ, timestamps included),  *)
(* ZERO is 0, and a materialized view is the set of entries folded into it, *)
(* with TWICE in it when one was folded more than once.  Every plain write  *)
(* has a key of its own and every CRDT operation goes to one key, so no     *)
(* merge conflicts here.  What the states of that key are is Crdt's.        *)
(***************************************************************************)
EXTENDS Naturals, Sequences, FiniteSets

CONSTANTS
    Names,             \* branch names other than "main"
    Interval,          \* checkpoint_interval
    MaxEntries,        \* bound: log entries
    MaxBranch,         \* bound: the highest branch id
    MaxLives,          \* bound: processes that ran
    ForkCkpts,         \* bound: branches are created until so many snapshots were begun
    MaxCheckpoints,    \* bound: snapshots begun
    MaxFaults,         \* bound: I/O errors returned to the engine
    MaxLosses,         \* bound: unreadable snapshots
    MaxIncrements,     \* bound: CRDT operations
    MaxMerges,         \* bound: merges that land
    MaxStrays,         \* bound: writes to, and forks of, a branch that is not there
    MaxReleased        \* bound: how far the archive releases the log

ASSUME StoreAssumption ==
    /\ Interval \in Nat \ {0}
    /\ {MaxEntries, MaxBranch, MaxLives, ForkCkpts, MaxCheckpoints, MaxFaults, MaxLosses,
        MaxIncrements, MaxMerges, MaxStrays, MaxReleased} \subseteq Nat

Branches == 0 .. MaxBranch
Main == 0
ZERO == 0
TWICE == 0
NoName == "main"
Entry == [branch : Branches, prev : Nat, commit : Nat, from : Nat,
          op : {"put", "inc", "txn", "branch", "merge"}, name : Names \cup {NoName}]

VARIABLES
    log,         \* the durable entries
    released,    \* how many of the first ones the archive has taken
    snapshot,    \* the VIEW file: views, and how many entries they are a fold of
    ckpt,        \* the CHECKPOINT file: entries_applied and the log position
    pc,          \* "down", "replaying" or "up"
    todo,        \* what the engine call in progress still has to do
    cursor,      \* assemble: the entries replayed so far
    started,     \* assemble: branch_started
    fromGenesis, \* assemble: from_genesis
    known,       \* DurableLogStore.entries
    heads,       \* DurableLogStore.heads
    applied,     \* DurableLogStore.entries_applied
    since,       \* DurableLogStore.since_checkpoint
    views,       \* Engine.views
    branches,    \* BranchStore.by_id
    byName,      \* BranchStore.by_name; Main when the name is free
    nextBranch,  \* BranchStore.next_id
    truth,       \* the entries each branch should show, whatever crashed
    discarded,   \* branches a client has discarded
    refused,     \* open has failed with BrokenChain
    gapped,      \* open has replayed a log whose start the archive had taken
    bounds

disk == <<log, released, snapshot, ckpt>>
store == <<known, heads, applied, since, views>>
registry == <<branches, byName, nextBranch>>
recovery == <<cursor, started, fromGenesis>>
ghosts == <<truth, discarded, refused, gapped>>
vars == <<disk, pc, todo, recovery, store, registry, ghosts, bounds>>

-----------------------------------------------------------------------------

Absent == [live |-> FALSE, name |-> NoName, fork |-> ZERO, next |-> 0]
MainOnly == [b \in Branches |-> IF b = Main THEN [Absent EXCEPT !.live = TRUE] ELSE Absent]
NoViews == [b \in Branches |-> {}]
NoSnapshot == [there |-> FALSE, applied |-> 0, views |-> NoViews]
Genesis == [applied |-> 0, pos |-> 0]

\* A process that has not opened the store holds nothing.
Forget ==
    /\ todo' = <<>>
    /\ cursor' = 0
    /\ started' = {}
    /\ fromGenesis' = FALSE
    /\ known' = {}
    /\ heads' = [b \in Branches |-> ZERO]
    /\ applied' = 0
    /\ since' = 0
    /\ views' = NoViews
    /\ branches' = MainOnly
    /\ byName' = [n \in Names |-> Main]
    /\ nextBranch' = 1

Init ==
    /\ log = <<>>
    /\ released = 0
    /\ snapshot = NoSnapshot
    /\ ckpt = Genesis
    /\ pc = "down"
    /\ todo = <<>>
    /\ cursor = 0
    /\ started = {}
    /\ fromGenesis = FALSE
    /\ known = {}
    /\ heads = [b \in Branches |-> ZERO]
    /\ applied = 0
    /\ since = 0
    /\ views = NoViews
    /\ branches = MainOnly
    /\ byName = [n \in Names |-> Main]
    /\ nextBranch = 1
    /\ truth = NoViews
    /\ discarded = {}
    /\ refused = FALSE
    /\ gapped = FALSE
    /\ bounds = [lives |-> 0, ckpts |-> 0, faults |-> 0, losses |-> 0, incs |-> 0,
                 merges |-> 0, strays |-> 0]

Count(what, limit) == bounds[what] < limit /\ bounds' = [bounds EXCEPT ![what] = @ + 1]
Idle == pc = "up" /\ todo = <<>>
OfKind(ops) == {i \in DOMAIN log : log[i].op \in ops}

-----------------------------------------------------------------------------
(* The steps of a call *)

Appending(b, op, from, name, other) ==
    [do |-> "append", branch |-> b, op |-> op, from |-> from, name |-> name, other |-> other]
Advance(b) == [do |-> "advance", branch |-> b]
Snapshot == [do |-> "snapshot"]
Checkpoint == [do |-> "checkpoint"]
Install(b, incs) == [do |-> "install", branch |-> b, incs |-> incs]
Stop == [do |-> "stop"]

Step(do) == pc = "up" /\ todo # <<>> /\ Head(todo).do = do

\* seed_branch_view, or assemble's copy of it: a new branch starts from the view
\* of the branch that owns the commit it was forked from, if that is indexed.
Seeded(e) ==
    IF e.op # "branch" THEN views
    ELSE [views EXCEPT ![e.branch] = IF e.from \in known THEN views[log[e.from].branch] ELSE {}]
Folded(e, i) == [Seeded(e) EXCEPT ![e.branch] = @ \cup {i} \cup (IF i \in @ THEN {TWICE} ELSE {})]

HeadsKept(e, i) == heads  \* mutant: the entry is indexed and the head stays

\* index: the branch's head is the entry.
HeadsWith(e, i) == [heads EXCEPT ![e.branch] = i]

\* What the client has been promised: a fork starts as its parent is, and a merge
\* whose source operated on the CRDT field brings in all of the source's field.
Promised(s, i) ==
    LET brought == CASE s.op = "branch" -> truth[s.other]
                     [] s.op = "merge" /\ (\E n \in DOMAIN todo : todo[n].do = "install") ->
                         truth[s.branch] \cup (truth[s.other] \cap OfKind({"inc"}))
                     [] OTHER           -> truth[s.branch]
    IN  [truth EXCEPT ![s.branch] = brought \cup {i}]

\* Engine::append up to append_and_apply: the entry is durable, folded into its
\* branch's view and indexed, and a checkpoint may be due.
AppendEntry ==
    LET s == Head(todo)
        i == Len(log) + 1
        e == [branch |-> s.branch, prev |-> heads[s.branch], commit |-> branches[s.branch].next,
              from |-> s.from, op |-> s.op, name |-> s.name]
        due == IF since + 1 >= Interval THEN <<Snapshot, Checkpoint>> ELSE <<>>
    IN  /\ Step("append")
        /\ i <= MaxEntries
        /\ log' = Append(log, e)
        /\ views' = Folded(e, i)
        /\ known' = known \cup {i}
        /\ heads' = HeadsWith(e, i)
        /\ applied' = applied + 1
        /\ since' = since + 1
        /\ truth' = Promised(s, i)
        /\ todo' = due \o <<Advance(s.branch)>> \o Tail(todo)
        /\ UNCHANGED <<released, snapshot, ckpt, pc, recovery, registry, discarded, refused, gapped, bounds>>

\* The log refuses the entry: nothing is folded, and the call is over.
AppendFails ==
    /\ Step("append")
    /\ Count("faults", MaxFaults)
    /\ todo' = <<>>
    /\ UNCHANGED <<disk, pc, recovery, store, registry, ghosts>>

\* branches.set_head, which fails for a branch that is not registered: the entry
\* is durable by then.
Registered(b) == branches[b].live
AdvanceHead ==
    LET b == Head(todo).branch
    IN  /\ Step("advance")
        /\ IF Registered(b)
           THEN /\ branches' = [branches EXCEPT ![b].next = @ + 1]
                /\ todo' = Tail(todo)
           ELSE /\ todo' = <<>>
                /\ UNCHANGED branches
        /\ UNCHANGED <<disk, pc, recovery, store, byName, nextBranch, truth, discarded, refused, gapped, bounds>>

NewSnapshot == [there |-> TRUE, applied |-> applied, views |-> views]
NewCheckpoint == [applied |-> applied, pos |-> Len(log)]

\* checkpoint: the snapshot first, the log's checkpoint second.
WriteSnapshot ==
    /\ Step("snapshot")
    /\ Count("ckpts", MaxCheckpoints)
    /\ snapshot' = NewSnapshot
    /\ todo' = Tail(todo)
    /\ UNCHANGED <<log, released, ckpt, pc, recovery, store, registry, ghosts>>

WriteCheckpoint ==
    /\ Step("checkpoint")
    /\ ckpt' = NewCheckpoint
    /\ since' = 0
    /\ todo' = Tail(todo)
    /\ UNCHANGED <<log, released, snapshot, pc, recovery, known, heads, applied, views, registry, ghosts, bounds>>

\* Either write fails, its new file in place or not: the sync after the rename
\* may be what failed.  An append returns that error, though its entry is in the
\* log and in the view; a shutdown goes on.
CheckpointFails ==
    /\ \/ Step("snapshot") /\ snapshot' \in {snapshot, NewSnapshot} /\ UNCHANGED ckpt
       \/ Step("checkpoint") /\ ckpt' \in {ckpt, NewCheckpoint} /\ UNCHANGED snapshot
    /\ Count("faults", MaxFaults)
    /\ todo' = IF todo[Len(todo)].do = "stop" THEN <<Stop>> ELSE <<>>
    /\ UNCHANGED <<log, released, pc, recovery, store, registry, truth, discarded, refused, gapped>>

\* The merge's last step: the CRDT states it computed are put into the view.
InstallStates ==
    LET s == Head(todo)
    IN  /\ Step("install")
        /\ views' = [views EXCEPT ![s.branch] = (@ \ OfKind({"inc"})) \cup s.incs]
        /\ todo' = Tail(todo)
        /\ UNCHANGED <<disk, pc, recovery, known, heads, applied, since, registry, ghosts, bounds>>

-----------------------------------------------------------------------------
(* The calls *)

\* put, transaction, delete and apply_crdt come down to one append to whatever
\* branch id the request names.
Write(b) ==
    /\ Idle
    /\ \/ Registered(b) /\ UNCHANGED bounds /\ todo' = <<Appending(b, "put", ZERO, NoName, b)>>
       \/ /\ Registered(b)
          /\ Count("incs", MaxIncrements)
          /\ todo' = <<Appending(b, "inc", ZERO, NoName, b)>>
       \/ /\ ~Registered(b)
          /\ Count("strays", MaxStrays)
          /\ todo' = <<Appending(b, "put", ZERO, NoName, b)>>
    /\ UNCHANGED <<disk, pc, recovery, store, registry, ghosts>>

\* create_branch registers the branch and points its head before it appends.  It
\* asks of the parent only its head, ZERO when there is none.
CreateBranch(name, parent) ==
    /\ Idle
    /\ byName[name] = Main
    /\ bounds.ckpts <= ForkCkpts
    /\ nextBranch <= MaxBranch
    /\ \/ Registered(parent) /\ UNCHANGED bounds
       \/ ~Registered(parent) /\ Count("strays", MaxStrays)
    /\ branches' = [branches EXCEPT ![nextBranch] =
                        [live |-> TRUE, name |-> name, fork |-> heads[parent], next |-> 0]]
    /\ byName' = [byName EXCEPT ![name] = nextBranch]
    /\ nextBranch' = nextBranch + 1
    /\ heads' = [heads EXCEPT ![nextBranch] = heads[parent]]
    /\ todo' = <<Appending(nextBranch, "branch", heads[parent], name, parent)>>
    /\ UNCHANGED <<disk, pc, recovery, known, applied, since, views, ghosts>>

\* discard_branch drops the pointer and the view; the log is not told.
DiscardBranch(name) ==
    LET b == byName[name]
    IN  /\ Idle
        /\ b # Main
        /\ views' = [views EXCEPT ![b] = {}]
        /\ branches' = [branches EXCEPT ![b] = Absent]
        /\ byName' = [byName EXCEPT ![branches[b].name] = Main]
        /\ discarded' = discarded \cup {b}
        /\ UNCHANGED <<disk, pc, todo, recovery, known, heads, applied, since, nextBranch, truth, refused, gapped, bounds>>

\* history: the entries on the way from a branch's head back to "base".
History(b, base) ==
    LET walk[i \in 0 .. Len(log)] ==
            IF i = ZERO \/ i = base THEN {} ELSE {i} \cup walk[log[i].prev]
    IN  walk[heads[b]]

\* What merge computes for the one CRDT field: the two states joined when both
\* sides operated on it since the base, and the source's when only it did.
MergedStates(s, t, ours) ==
    IF ours \cap OfKind({"inc"}) # {}
    THEN (views[s] \cup views[t]) \cap OfKind({"inc"})
    ELSE views[s] \cap OfKind({"inc"})

Merge(s, t) ==
    LET base == branches[s].fork
        theirs == History(s, base)
        ours == History(t, base)
        plain == theirs \cap OfKind({"put", "txn"})
        incs == theirs \cap OfKind({"inc"})
    IN  /\ Idle
        /\ Registered(s) /\ Registered(t)
        /\ heads[s] \notin {ZERO, base, heads[t]}
        /\ theirs \cup ours \subseteq known
        /\ plain \cup incs # {}
        /\ Count("merges", MaxMerges)
        /\ todo' = (IF plain = {} THEN <<>> ELSE <<Appending(t, "txn", ZERO, NoName, t)>>)
                   \o <<Appending(t, "merge", heads[s], NoName, s)>>
                   \o (IF incs = {} THEN <<>> ELSE <<Install(t, MergedStates(s, t, ours))>>)
        /\ UNCHANGED <<disk, pc, recovery, store, registry, ghosts>>

\* The archive has a copy of a segment below the checkpoint's: release_segment.
\* The checkpoint's own segment, with an entry below the checkpoint, stays.
Release ==
    /\ Idle
    /\ released < MaxReleased
    /\ released + 1 < ckpt.pos
    /\ released' = released + 1
    /\ UNCHANGED <<log, snapshot, ckpt, pc, todo, recovery, store, registry, ghosts, bounds>>

\* The last handle is gone: the engine task checkpoints and ends.
Shutdown ==
    /\ Idle
    /\ bounds.ckpts < MaxCheckpoints
    /\ todo' = <<Snapshot, Checkpoint, Stop>>
    /\ UNCHANGED <<disk, pc, recovery, store, registry, ghosts, bounds>>

Stopped == pc' = "down" /\ Forget /\ UNCHANGED <<disk, ghosts, bounds>>

Halt == Step("stop") /\ Stopped

Crash == pc # "down" /\ Stopped

LoseSnapshot ==
    /\ pc = "down"
    /\ snapshot.there
    /\ Count("losses", MaxLosses)
    /\ snapshot' = NoSnapshot
    /\ UNCHANGED <<log, released, ckpt, pc, todo, recovery, store, registry, ghosts>>

-----------------------------------------------------------------------------
(* open, assemble and Engine::open *)

AnySnapshot == snapshot.there  \* mutant: the counts are not compared

\* The snapshot is used only when it is a fold of what the checkpoint covers.
Resumable == snapshot.there /\ snapshot.applied = ckpt.applied

FromAppliedKept == ckpt.applied  \* mutant: the count is not reset for a replay from genesis
FromApplied == IF Resumable THEN ckpt.applied ELSE 0

Open ==
    LET start == IF Resumable THEN ckpt.pos ELSE released
    IN  /\ pc = "down"
        /\ Count("lives", MaxLives)
        /\ pc' = "replaying"
        /\ views' = IF Resumable THEN snapshot.views ELSE NoViews
        /\ applied' = FromApplied
        /\ fromGenesis' = (FromApplied = 0)
        /\ cursor' = start
        /\ since' = Len(log) - start
        /\ gapped' = (gapped \/ (~Resumable /\ released > 0))
        /\ UNCHANGED <<disk, todo, started, known, heads, registry, truth, discarded, refused>>

\* Mutant: no window boundary.
LinksInWindow(e) == e.prev = ZERO \/ e.prev \in known

\* An entry links when its parent has been replayed, or is below the window.
Links(e) ==
    \/ e.prev = ZERO
    \/ e.prev \in known
    \/ e.branch \notin started /\ ~fromGenesis

\* Engine::open's loop over the same entries: BranchStore::restore.
Restored(e) ==
    IF e.op # "branch" THEN [ids |-> branches, names |-> byName, next |-> nextBranch]
    ELSE [ids |-> [branches EXCEPT ![e.branch] = [live |-> TRUE, name |-> e.name, fork |-> e.from, next |-> 0]],
          names |-> [byName EXCEPT ![e.name] = e.branch],
          next |-> IF nextBranch > e.branch THEN nextBranch ELSE e.branch + 1]

ReplayEntry ==
    LET i == cursor + 1
        e == log[i]
    IN  /\ pc = "replaying"
        /\ i <= Len(log)
        /\ Links(e)
        /\ cursor' = i
        /\ started' = started \cup {e.branch}
        /\ known' = known \cup {i}
        /\ heads' = HeadsWith(e, i)
        /\ views' = Folded(e, i)
        /\ applied' = applied + 1
        /\ branches' = Restored(e).ids
        /\ byName' = Restored(e).names
        /\ nextBranch' = Restored(e).next
        /\ UNCHANGED <<disk, pc, todo, fromGenesis, since, ghosts, bounds>>

\* BrokenChain: the store does not open.
Refuse ==
    /\ pc = "replaying"
    /\ cursor < Len(log)
    /\ ~Links(log[cursor + 1])
    /\ refused' = TRUE
    /\ pc' = "down"
    /\ Forget
    /\ UNCHANGED <<disk, truth, discarded, gapped, bounds>>

\* Every branch with a view gets its head, which also advances its counter.
Ready ==
    /\ pc = "replaying"
    /\ cursor = Len(log)
    /\ pc' = "up"
    /\ branches' = [b \in Branches |-> IF branches[b].live /\ heads[b] # ZERO
                                       THEN [branches[b] EXCEPT !.next = @ + 1] ELSE branches[b]]
    /\ cursor' = 0
    /\ started' = {}
    /\ fromGenesis' = FALSE
    /\ UNCHANGED <<disk, todo, store, byName, nextBranch, ghosts, bounds>>

-----------------------------------------------------------------------------

Next ==
    \/ AppendEntry \/ AppendFails \/ AdvanceHead
    \/ WriteSnapshot \/ WriteCheckpoint \/ CheckpointFails \/ InstallStates
    \/ \E b \in Branches : Write(b)
    \/ \E name \in Names : DiscardBranch(name) \/ \E b \in Branches : CreateBranch(name, b)
    \/ \E s, t \in Branches : Merge(s, t)
    \/ Release \/ Shutdown \/ Halt \/ Crash \/ LoseSnapshot
    \/ Open \/ ReplayEntry \/ Refuse \/ Ready

Spec == Init /\ [][Next]_vars

-----------------------------------------------------------------------------
(* Properties *)

Steps ==
    [do : {"append"}, branch : Branches, op : {"put", "inc", "txn", "branch", "merge"},
     from : Nat, name : Names \cup {NoName}, other : Branches]
    \cup [do : {"advance"}, branch : Branches]
    \cup [do : {"install"}, branch : Branches, incs : SUBSET Nat]
    \cup [do : {"snapshot", "checkpoint", "stop"}]

\* The variables keep their types.
TypeOK ==
    /\ log \in Seq(Entry)
    /\ released \in Nat
    /\ snapshot \in [there : BOOLEAN, applied : Nat, views : [Branches -> SUBSET Nat]]
    /\ ckpt \in [applied : Nat, pos : 0 .. Len(log)]
    /\ pc \in {"down", "replaying", "up"}
    /\ todo \in Seq(Steps)
    /\ cursor \in 0 .. Len(log)
    /\ started \subseteq Branches
    /\ fromGenesis \in BOOLEAN
    /\ known \subseteq DOMAIN log
    /\ heads \in [Branches -> {ZERO} \cup DOMAIN log]
    /\ applied \in Nat
    /\ since \in Nat
    /\ views \in [Branches -> SUBSET Nat]
    /\ branches \in [Branches -> [live : BOOLEAN, name : Names \cup {NoName}, fork : Nat, next : Nat]]
    /\ byName \in [Names -> Branches]
    /\ nextBranch \in Nat
    /\ truth \in [Branches -> SUBSET Nat]
    /\ discarded \subseteq Branches
    /\ refused \in BOOLEAN
    /\ gapped \in BOOLEAN

\* Whatever crashed, failed, was checkpointed or replayed, a branch shows what
\* was written to it and what it inherited and merged: nothing more, nothing
\* less.
ViewsTrue == Idle => \A b \in Branches \ discarded : Registered(b) => views[b] = truth[b]

\* The same of every branch id no client discarded, registered or not: a read
\* names the id and goes to the view.  But for what a replay over a released
\* segment cannot see, and but for the CRDT states a merge brought, which a
\* replay does not bring again.
ViewsRecover ==
    Idle /\ ~gapped =>
        \A b \in Branches \ discarded :
            LET apart == (views[b] \ truth[b]) \cup (truth[b] \ views[b])
            IN  /\ apart \subseteq OfKind({"inc"})
                /\ bounds.merges = 0 \/ bounds.lives = 1 => apart = {}

\* A running store has counted each durable entry once, however it was opened.
AppliedCountsLog == pc = "up" /\ ~gapped => applied = Len(log)

\* A snapshot and a checkpoint with equal counts are of the same prefix of the
\* log: a snapshot is never trusted by coincidence.
ResumesAtPrefix ==
    snapshot.there /\ snapshot.applied = ckpt.applied /\ ~gapped =>
        /\ ckpt.pos = ckpt.applied
        /\ UNION {snapshot.views[b] : b \in Branches} \subseteq 1 .. ckpt.pos

\* A store counts each durable entry once however it was opened, so that equal
\* counts in a snapshot and a checkpoint mean the same prefix of the log.
CountsMeanPrefixes == AppliedCountsLog /\ ResumesAtPrefix

\* The store opens, whatever crashed and whichever snapshot was lost, unless it
\* has to replay from a segment the archive took.
AlwaysOpens == ~gapped => ~refused

\* The log's newest entry on each branch is that branch's head: the index in
\* memory is a fold over the log.
HeadsFoldLog ==
    Idle => \A b \in {log[i].branch : i \in DOMAIN log} :
        LET mine == {i \in DOMAIN log : log[i].branch = b}
        IN  heads[b] \in mine /\ \A i \in mine : i <= heads[b]

\* Each entry names the one before it on its branch, and a branch's first entry
\* the commit it was forked from: no entry starts a branch over.
ChainUnbroken ==
    \A i \in DOMAIN log :
        LET before == {j \in 1 .. i - 1 : log[j].branch = log[i].branch}
        IN  IF before = {} THEN log[i].prev = IF log[i].op = "branch" THEN log[i].from ELSE ZERO
            ELSE log[i].prev \in before /\ \A j \in before : j <= log[i].prev

\* A branch whose creation is in the log is registered under its name, with its
\* fork point, after any restart, unless a client discarded it: "Logged, so the
\* branch survives a restart" (engine.rs:2709).  It is not so of one created below
\* the checkpoint a recovery resumes from.
BranchesSurvive ==
    Idle => \A i \in OfKind({"branch"}) :
        LET b == log[i].branch
        IN  b \notin discarded =>
                /\ Registered(b)
                /\ branches[b].fork = log[i].from
                /\ byName[log[i].name] = b

\* A branch id is given once.
BranchIdsUnique ==
    \A i, j \in OfKind({"branch"}) : log[i].branch = log[j].branch => i = j

\* While no checkpoint covers an entry, every opening replays the whole log: the
\* heads in memory are a fold over it and no entry starts a branch over; a branch
\* in the log is registered under its name and fork point, unless discarded, and
\* an id is given once.  An append that failed leaves a branch the log does not
\* know, and a stray write entries of a branch that is not there.
Whole == ckpt.pos = 0 /\ bounds.faults = 0 /\ bounds.strays = 0
GenesisReplayIsWhole ==
    Whole => HeadsFoldLog /\ ChainUnbroken /\ BranchesSurvive /\ BranchIdsUnique

\* A merge never takes away a CRDT operation the target already showed.
MergeKeepsStates ==
    [][\A b \in Branches : Step("install") /\ pc' = "up" =>
                        views[b] \cap OfKind({"inc"}) \subseteq views'[b]]_vars

=============================================================================
