---------------------------- MODULE StoreProofs ----------------------------
(***************************************************************************)
(* What holds of DurableStore for every set of names and every bound.       *)
(*                                                                         *)
(*   CountsAreRight   a running store has counted each entry once, and      *)
(*                    equal counts mean one prefix of the log              *)
(*   AlwaysReopens    no entry of a replay breaks the chain                *)
(*   ReplayIsWhole    a replay from genesis rebuilds heads and branches     *)
(*                                                                         *)
(* Each has an invariant of its own, on top of TypeInv.                     *)
(***************************************************************************)
EXTENDS DurableStore, TLAPS

-----------------------------------------------------------------------------
(* The shape of the state. *)

Bounds == [lives : Nat, ckpts : Nat, faults : Nat, losses : Nat, incs : Nat, merges : Nat, strays : Nat]

Branch == [live : BOOLEAN, name : Names \cup {NoName}, fork : Nat, next : Nat]

(* A process that is down holds nothing, and the archive takes only what a    *)
(* checkpoint covers.                                                         *)
TypeInv ==
    /\ TypeOK
    /\ bounds \in Bounds
    /\ released <= ckpt.pos
    /\ pc = "down" => /\ todo = <<>>
                      /\ cursor = 0 /\ started = {} /\ known = {}
                      /\ heads = [b \in Branches |-> ZERO]
                      /\ views = NoViews
                      /\ branches = MainOnly
                      /\ byName = [n \in Names |-> Main]
                      /\ nextBranch = 1
    /\ pc = "replaying" => todo = <<>>

-----------------------------------------------------------------------------
(* Counting.  Base is the place in the log a replay starts from. *)

Base == IF Resumable THEN ckpt.pos ELSE 0

(* How much of the log the process has folded: all of it once it runs.        *)
Folding == IF pc = "replaying" THEN cursor ELSE Len(log)

(* The checkpoint's count is its place, and a snapshot shows no more than it    *)
(* counts.                                                                    *)
FilesCount ==
    /\ ckpt.pos = ckpt.applied
    /\ snapshot.there => \A b \in Branches : snapshot.views[b] \subseteq 1 .. snapshot.applied

(* Nothing is counted, shown or waiting to be shown beyond what was folded.    *)
MemoryCounts ==
    pc # "down" =>
        /\ applied = Folding
        /\ \A b \in Branches : views[b] \subseteq 1 .. Folding
        /\ \A n \in DOMAIN todo : todo[n].do = "install" => todo[n].incs \subseteq 1 .. Len(log)

(* A replay knows the entries it has read, and their branches have started.    *)
ReplayCounts ==
    pc = "replaying" =>
        /\ Base <= cursor
        /\ known = Base + 1 .. cursor
        /\ fromGenesis <=> Base = 0
        /\ \A b \in Branches : heads[b] = ZERO \/ heads[b] > Base

CountInv == ~gapped => FilesCount /\ MemoryCounts /\ ReplayCounts

-----------------------------------------------------------------------------
(* Linking. *)

(* An entry is named before it is written.                                    *)
PrevEarlier == \A i \in DOMAIN log : log[i].prev < i

(* Every entry above the checkpoint links inside the window or opens its      *)
(* branch there, and so will the next one.                                    *)
WindowLinks ==
    \A i \in ckpt.pos + 1 .. Len(log) :
        \/ log[i].prev = ZERO
        \/ log[i].prev > ckpt.pos
        \/ \A j \in ckpt.pos + 1 .. i - 1 : log[j].branch # log[i].branch

Unwritten(b) == \A j \in ckpt.pos + 1 .. Len(log) : log[j].branch # b

HeadsLink == \A b \in Branches : heads[b] = ZERO \/ heads[b] > ckpt.pos \/ Unwritten(b)

(* A new branch takes a head over from its parent.  Either no head lies below *)
(* the checkpoint, or no entry above it is on a branch yet to be created.     *)
NewIsUnwritten ==
    \/ \A b \in Branches : heads[b] = ZERO \/ heads[b] > ckpt.pos
    \/ \A j \in ckpt.pos + 1 .. Len(log) : log[j].branch < nextBranch

LiveBelowNext == \A b \in Branches : Registered(b) => b < nextBranch

(* Appends are to branches that are registered, but for stray writes; a stray *)
(* fork counts as one.                                                        *)
Strayless == MaxStrays = 0 \/ bounds.strays = 0

AppendsRegistered ==
    \A n \in DOMAIN todo : todo[n].do = "append" => Registered(todo[n].branch)

(* A checkpoint comes right after its snapshot.                               *)
SnapshotFirst ==
    /\ ckpt.pos > 0 => bounds.ckpts > 0
    /\ \A n \in DOMAIN todo : todo[n].do = "checkpoint" =>
           IF n = 1 THEN bounds.ckpts > 0 ELSE todo[n - 1].do = "snapshot"

StartedRead == pc = "replaying" => \A b \in started : \E j \in known : log[j].branch = b

RegistryInv ==
    /\ nextBranch > 0
    /\ LiveBelowNext
    /\ Strayless => AppendsRegistered

(* What holds above the checkpoint while it can be resumed from.              *)
WindowInv ==
    ~gapped =>
        /\ ~refused
        /\ Resumable => /\ WindowLinks
                        /\ pc = "up" => HeadsLink
                        /\ pc = "up" /\ MaxStrays = 0 => NewIsUnwritten

LinkInv == PrevEarlier /\ StartedRead /\ SnapshotFirst /\ RegistryInv /\ WindowInv

-----------------------------------------------------------------------------
(* Replaying from genesis. *)

On(b, k) == {i \in 1 .. k : log[i].branch = b}
Made(k) == {i \in 1 .. k : log[i].op = "branch"}

(* The append that puts the new branch in the log is the step at hand.        *)
Forks(s) == s.do = "append" /\ s.op = "branch"
Creating(b) == pc = "up" /\ todo # <<>> /\ Forks(todo[1]) /\ todo[1].branch = b

(* The log by itself: branches are made once, before anything else is on them,*)
(* and a name is taken again only when its branch was discarded.              *)
LogWhole ==
    /\ ChainUnbroken
    /\ BranchIdsUnique
    /\ \A i \in DOMAIN log : log[i].branch = Main \/ \E j \in Made(i) : log[j].branch = log[i].branch
    /\ \A i \in Made(Len(log)) : log[i].branch # Main /\ log[i].name \in Names
    /\ \A i, j \in Made(Len(log)) :
           i < j /\ log[i].name = log[j].name => log[i].branch \in discarded

(* The heads are a fold of what was read.  A branch being made has its        *)
(* parent's until it is in the log.                                           *)
HeadsWhole ==
    pc # "down" =>
        \A b \in Branches :
            IF On(b, Folding) = {}
            THEN heads[b] = ZERO \/ Creating(b)
            ELSE heads[b] \in On(b, Folding) /\ \A i \in On(b, Folding) : i <= heads[b]

(* And so is the registry of branches.                                        *)
Kept(i) == LET b == log[i].branch
           IN  Registered(b) /\ branches[b].fork = log[i].from /\ byName[log[i].name] = b
NamesWhole ==
    \A n \in Names : byName[n] # Main => Registered(byName[n]) /\ branches[byName[n]].name = n
BranchesWhole ==
    pc # "down" =>
        /\ \A i \in 1 .. Folding : log[i].branch < nextBranch
        /\ \A b \in Branches : Registered(b) =>
               b = Main \/ Creating(b) \/ \E j \in Made(Folding) : log[j].branch = b
        /\ NamesWhole
        /\ \A i \in Made(Folding) : log[i].branch \notin discarded => Kept(i)

(* A branch being made is registered, and is new to the log.                  *)
ForkWhole ==
    \A n \in DOMAIN todo : Forks(todo[n]) =>
        LET s == todo[n]
        IN  /\ n = 1
            /\ s.branch # Main /\ s.name \in Names
            /\ s.from = heads[s.branch]
            /\ On(s.branch, Len(log)) = {}
            /\ Registered(s.branch) /\ branches[s.branch].fork = s.from
            /\ byName[s.name] = s.branch
            /\ \A i \in Made(Len(log)) : log[i].name = s.name => log[i].branch \in discarded

GenesisInv == Whole => ~gapped /\ LogWhole /\ HeadsWhole /\ BranchesWhole /\ ForkWhole

-----------------------------------------------------------------------------
(* The shape of the state is kept. *)

LEMMA Sizes ==
    /\ Interval \in Nat /\ MaxBranch \in Nat /\ ForkCkpts \in Nat
    /\ MaxStrays \in Nat /\ MaxFaults \in Nat
  BY StoreAssumption

USE Sizes DEF Branches, Main, ZERO, TWICE, NoName

Ops == {"put", "inc", "txn", "branch", "merge"}
Appends == [do : {"append"}, branch : Branches, op : Ops, from : Nat, name : Names \cup {NoName}, other : Branches]
Advances == [do : {"advance"}, branch : Branches]
Installs == [do : {"install"}, branch : Branches, incs : SUBSET Nat]
Plain == [do : {"snapshot", "checkpoint", "stop"}]

(* A step of a call is of the kind its name says.                             *)
LEMMA StepKinds ==
    /\ Steps = Appends \cup Advances \cup Installs \cup Plain
    /\ \A s \in Steps : /\ s.do = "append" => s \in Appends
                        /\ s.do = "advance" => s \in Advances
                        /\ s.do = "install" => s \in Installs
    /\ \A b \in Branches : Advance(b) \in Steps
    /\ Snapshot \in Steps /\ Checkpoint \in Steps /\ Stop \in Steps
<1>1. Steps = Appends \cup Advances \cup Installs \cup Plain
  BY DEF Steps, Appends, Advances, Installs, Plain, Ops
<1>2. ASSUME NEW s \in Steps
      PROVE  /\ s.do = "append" => s \in Appends
             /\ s.do = "advance" => s \in Advances
             /\ s.do = "install" => s \in Installs
  <2>1. CASE s \in Appends
    BY <2>1 DEF Appends
  <2>2. CASE s \in Advances
    BY <2>2 DEF Advances
  <2>3. CASE s \in Installs
    BY <2>3 DEF Installs
  <2>4. CASE s \in Plain
    BY <2>4 DEF Plain
  <2> QED BY <1>1, <2>1, <2>2, <2>3, <2>4
<1>3. \A b \in Branches : Advance(b) \in Steps
  BY <1>1 DEF Advance, Advances
<1>4. Snapshot \in Steps /\ Checkpoint \in Steps /\ Stop \in Steps
  BY <1>1 DEF Snapshot, Checkpoint, Stop, Plain
<1> QED BY <1>1, <1>2, <1>3, <1>4

LEMMA AppendingIsAStep ==
    ASSUME NEW b \in Branches, NEW op \in Ops, NEW from \in Nat, NEW name \in Names \cup {NoName},
           NEW other \in Branches
    PROVE  Appending(b, op, from, name, other) \in Steps
<1>1. Appending(b, op, from, name, other) \in Appends
  BY DEF Appending, Appends
<1> QED BY <1>1, StepKinds

(* What follows the step at hand.                                             *)
LEMMA TodoSteps ==
    ASSUME todo \in Seq(Steps), todo # <<>>
    PROVE  /\ Head(todo) \in Steps /\ Head(todo) = todo[1]
           /\ Tail(todo) \in Seq(Steps)
           /\ Len(Tail(todo)) = Len(todo) - 1
           /\ \A n \in DOMAIN Tail(todo) : n + 1 \in DOMAIN todo /\ Tail(todo)[n] = todo[n + 1]
  OBVIOUS

LEMMA BoundsCounted ==
    ASSUME bounds \in Bounds, NEW what, NEW limit, Count(what, limit)
    PROVE  /\ bounds' \in Bounds
           /\ \A k \in DOMAIN bounds : bounds'[k] >= bounds[k]
           /\ \A k \in DOMAIN bounds : k # what => bounds'[k] = bounds[k]
  BY DEF Bounds, Count

(* The counts that bound a behaviour only grow.                               *)
LEMMA BoundsGrow ==
    ASSUME bounds \in Bounds, [Next]_vars
    PROVE  bounds' \in Bounds /\ \A k \in DOMAIN bounds : bounds'[k] >= bounds[k]
<1>1. bounds' = bounds \/ \E what, limit : Count(what, limit)
  BY DEF Next, vars, AppendEntry, AppendFails, AdvanceHead, WriteSnapshot, WriteCheckpoint,
         CheckpointFails, InstallStates, Write, CreateBranch, DiscardBranch, Merge, Release,
         Shutdown, Halt, Crash, Stopped, LoseSnapshot, Open, ReplayEntry, Refuse, Ready
<1>2. CASE bounds' = bounds
  BY <1>2 DEF Bounds
<1>3. CASE \E what, limit : Count(what, limit)
  BY <1>3, BoundsCounted
<1> QED BY <1>1, <1>2, <1>3

LEMMA StraylessBack ==
    ASSUME bounds \in Bounds, [Next]_vars, Strayless'
    PROVE  Strayless
<1>1. bounds'.strays >= bounds.strays /\ bounds.strays \in Nat /\ bounds'.strays \in Nat
  <2>1. "strays" \in DOMAIN bounds
    BY DEF Bounds
  <2> QED BY <2>1, BoundsGrow DEF Bounds
<1> QED BY <1>1 DEF Strayless

-----------------------------------------------------------------------------
(* Each operation keeps the shape. *)

(* The part of the state a process holds.                                     *)
Memory == /\ cursor \in 0 .. Len(log)
          /\ started \subseteq Branches
          /\ fromGenesis \in BOOLEAN
          /\ known \subseteq DOMAIN log
          /\ heads \in [Branches -> {ZERO} \cup DOMAIN log]
          /\ applied \in Nat /\ since \in Nat
          /\ views \in [Branches -> SUBSET Nat]
          /\ branches \in [Branches -> Branch]
          /\ byName \in [Names -> Branches]
          /\ nextBranch \in Nat

(* And the rest of it.                                                        *)
Durable == /\ log \in Seq(Entry)
           /\ released \in Nat
           /\ snapshot \in [there : BOOLEAN, applied : Nat, views : [Branches -> SUBSET Nat]]
           /\ ckpt \in [applied : Nat, pos : 0 .. Len(log)]
           /\ released <= ckpt.pos

Ghosts == /\ truth \in [Branches -> SUBSET Nat]
          /\ discarded \subseteq Branches
          /\ refused \in BOOLEAN
          /\ gapped \in BOOLEAN
          /\ bounds \in Bounds

Nothing == /\ todo = <<>>
           /\ cursor = 0 /\ started = {} /\ known = {}
           /\ heads = [b \in Branches |-> ZERO]
           /\ views = NoViews
           /\ branches = MainOnly
           /\ byName = [n \in Names |-> Main]
           /\ nextBranch = 1

Calling == /\ pc \in {"down", "replaying", "up"}
           /\ todo \in Seq(Steps)
           /\ pc = "down" => Nothing
           /\ pc = "replaying" => todo = <<>>

LEMMA TypeParts == TypeInv <=> Memory /\ Durable /\ Ghosts /\ Calling
  BY DEF TypeInv, TypeOK, Memory, Durable, Ghosts, Calling, Nothing, Branch

LEMMA TypePartsPrimed == Memory' /\ Durable' /\ Ghosts' /\ Calling' => TypeInv'
  BY DEF TypeInv, TypeOK, Memory, Durable, Ghosts, Calling, Nothing, Branch

LEMMA TypeInit == Init => TypeInv
<1> SUFFICES ASSUME Init PROVE TypeInv
  OBVIOUS
<1>1. log = <<>> /\ log \in Seq(Entry) /\ todo \in Seq(Steps) /\ Len(log) = 0
  BY DEF Init
<1>2. NoViews \in [Branches -> SUBSET Nat] /\ MainOnly \in [Branches -> Branch]
  BY DEF NoViews, MainOnly, Absent, Branch
<1>3. snapshot \in [there : BOOLEAN, applied : Nat, views : [Branches -> SUBSET Nat]]
  BY <1>2 DEF Init, NoSnapshot
<1>4. Durable
  BY <1>1, <1>3 DEF Init, Durable, Genesis
<1>5. Memory
  <2>1. cursor \in 0 .. Len(log) /\ applied \in Nat /\ since \in Nat /\ nextBranch \in Nat
    BY <1>1 DEF Init
  <2>2. started \subseteq Branches /\ fromGenesis \in BOOLEAN /\ known \subseteq DOMAIN log
    BY DEF Init
  <2>3. heads \in [Branches -> {ZERO} \cup DOMAIN log] /\ byName \in [Names -> Branches]
    BY DEF Init
  <2>4. views \in [Branches -> SUBSET Nat] /\ branches \in [Branches -> Branch]
    BY <1>2 DEF Init
  <2> QED BY <2>1, <2>2, <2>3, <2>4 DEF Memory
<1>6. Ghosts
  BY <1>2 DEF Init, Ghosts, Bounds
<1>7. Calling
  BY <1>1 DEF Init, Calling, Nothing
<1> QED BY <1>4, <1>5, <1>6, <1>7, TypeParts

LEMMA ForgetsAll ==
    ASSUME Durable', Forget, pc' = "down"
    PROVE  Memory' /\ Calling'
<1>1. Nothing'
  BY DEF Forget, Nothing
<1>2. NoViews \in [Branches -> SUBSET Nat] /\ MainOnly \in [Branches -> Branch]
  BY DEF NoViews, MainOnly, Absent, Branch
<1>3. Len(log') \in Nat /\ DOMAIN log' = 1 .. Len(log')
  BY DEF Durable
<1>4. Memory'
  <2>1. cursor' \in 0 .. Len(log') /\ applied' \in Nat /\ since' \in Nat /\ nextBranch' \in Nat
    BY <1>3 DEF Forget
  <2>2. started' \subseteq Branches /\ fromGenesis' \in BOOLEAN /\ known' \subseteq DOMAIN log'
    BY DEF Forget
  <2>3. heads' \in [Branches -> {ZERO} \cup DOMAIN log'] /\ byName' \in [Names -> Branches]
    BY DEF Forget
  <2>4. views' \in [Branches -> SUBSET Nat] /\ branches' \in [Branches -> Branch]
    BY <1>2 DEF Forget
  <2> QED BY <2>1, <2>2, <2>3, <2>4 DEF Memory
<1>5. todo' \in Seq(Steps)
  BY DEF Forget
<1> QED BY <1>1, <1>4, <1>5 DEF Calling

LEMMA SeededTyped ==
    ASSUME Memory, Durable, NEW e \in Entry, NEW i \in Nat
    PROVE  /\ Seeded(e) \in [Branches -> SUBSET Nat]
           /\ Folded(e, i) \in [Branches -> SUBSET Nat]
<1> DEFINE parent == log[e.from].branch
<1>1. ASSUME e.from \in known PROVE parent \in Branches
  <2>1. log[e.from] \in Entry
    BY <1>1 DEF Memory, Durable
  <2> QED BY <2>1 DEF Entry
<1>2. e.branch \in Branches
  BY DEF Entry
<1>3. Seeded(e) \in [Branches -> SUBSET Nat]
  BY <1>1, <1>2 DEF Memory, Seeded
<1> HIDE DEF parent
<1>4. Seeded(e)[e.branch] \cup {i} \cup (IF i \in Seeded(e)[e.branch] THEN {TWICE} ELSE {}) \in SUBSET Nat
  BY <1>2, <1>3
<1> QED BY <1>3, <1>4 DEF Folded

-----------------------------------------------------------------------------
(* What an append writes, and what it leaves.  NewEntry is the entry the step  *)
(* at hand adds to the log.                                                   *)

NewEntry == LET s == Head(todo)
            IN  [branch |-> s.branch, prev |-> heads[s.branch], commit |-> branches[s.branch].next,
                 from |-> s.from, op |-> s.op, name |-> s.name]
Due == IF since + 1 >= Interval THEN <<Snapshot, Checkpoint>> ELSE <<>>

LEMMA Appended ==
    ASSUME AppendEntry
    PROVE  /\ Step("append")
           /\ log' = Append(log, NewEntry)
           /\ views' = Folded(NewEntry, Len(log) + 1)
           /\ known' = known \cup {Len(log) + 1}
           /\ heads' = [heads EXCEPT ![Head(todo).branch] = Len(log) + 1]
           /\ applied' = applied + 1
           /\ since' = since + 1
           /\ truth' = Promised(Head(todo), Len(log) + 1)
           /\ todo' = Due \o <<Advance(Head(todo).branch)>> \o Tail(todo)
           /\ UNCHANGED <<released, snapshot, ckpt, pc, recovery, registry, discarded, refused, gapped, bounds>>
  BY DEF AppendEntry, NewEntry, Due, HeadsWith

LEMMA NewEntryTyped ==
    ASSUME TypeInv, Step("append")
    PROVE  /\ Head(todo) \in Appends
           /\ NewEntry \in Entry
           /\ NewEntry.branch = Head(todo).branch /\ NewEntry.prev = heads[Head(todo).branch]
           /\ NewEntry.from = Head(todo).from /\ NewEntry.op = Head(todo).op
           /\ NewEntry.name = Head(todo).name
<1> DEFINE s == Head(todo)
<1>1. s \in Appends
  BY StepKinds, TodoSteps, TypeParts DEF Step, Calling
<1>2. s.branch \in Branches /\ s.from \in Nat /\ s.op \in Ops /\ s.name \in Names \cup {NoName}
  BY <1>1 DEF Appends
<1>3. heads[s.branch] \in Nat /\ branches[s.branch].next \in Nat
  <2>1. heads \in [Branches -> {ZERO} \cup DOMAIN log] /\ branches \in [Branches -> Branch]
    BY TypeParts DEF Memory
  <2>2. DOMAIN log \subseteq Nat
    BY TypeParts DEF Durable
  <2>3. branches[s.branch] \in Branch
    BY <1>2, <2>1
  <2> QED BY <1>2, <2>1, <2>2, <2>3 DEF Branch
<1>4. NewEntry \in Entry
  BY <1>2, <1>3 DEF NewEntry, Entry, Ops
<1>5. /\ NewEntry.branch = s.branch /\ NewEntry.prev = heads[s.branch]
      /\ NewEntry.from = s.from /\ NewEntry.op = s.op /\ NewEntry.name = s.name
  BY DEF NewEntry
<1> QED BY <1>1, <1>4, <1>5

(* The log grows by one entry, and keeps the others.                          *)
LEMMA LogGrows ==
    ASSUME TypeInv, AppendEntry
    PROVE  /\ log' \in Seq(Entry)
           /\ Len(log) \in Nat
           /\ Len(log') = Len(log) + 1
           /\ DOMAIN log' = 1 .. Len(log) + 1
           /\ DOMAIN log = 1 .. Len(log)
           /\ \A i \in DOMAIN log : log'[i] = log[i]
           /\ log'[Len(log) + 1] = NewEntry
<1>1. log \in Seq(Entry) /\ NewEntry \in Entry /\ log' = Append(log, NewEntry)
  BY Appended, NewEntryTyped, TypeParts DEF Durable
<1> HIDE DEF Entry
<1> QED BY <1>1

LEMMA DueSteps ==
    /\ Due \in Seq(Steps)
    /\ \A b \in Branches : Due \o <<Advance(b)>> \in Seq(Steps)
<1>1. Due \in Seq(Steps)
  <2>1. <<Snapshot, Checkpoint>> \in Seq(Steps)
    BY StepKinds
  <2> QED BY <2>1 DEF Due
<1>2. ASSUME NEW b \in Branches PROVE Due \o <<Advance(b)>> \in Seq(Steps)
  <2>1. <<Advance(b)>> \in Seq(Steps)
    BY StepKinds
  <2> QED BY <1>1, <2>1
<1> QED BY <1>1, <1>2

LEMMA PromisedTyped ==
    ASSUME Ghosts, NEW s \in Appends, NEW i \in Nat, DOMAIN log \subseteq Nat
    PROVE  Promised(s, i) \in [Branches -> SUBSET Nat]
<1> DEFINE brought == CASE s.op = "branch" -> truth[s.other]
                     [] s.op = "merge" /\ (\E n \in DOMAIN todo : todo[n].do = "install") ->
                         truth[s.branch] \cup (truth[s.other] \cap OfKind({"inc"}))
                     [] OTHER           -> truth[s.branch]
<1>1. s.branch \in Branches /\ s.other \in Branches
  BY DEF Appends
<1>2. truth[s.branch] \in SUBSET Nat /\ truth[s.other] \in SUBSET Nat
  BY <1>1 DEF Ghosts
<1>3. brought \in SUBSET Nat
  BY <1>2
<1>4. Promised(s, i) = [truth EXCEPT ![s.branch] = brought \cup {i}]
  BY DEF Promised
<1> DEFINE more == brought \cup {i}
<1>5. more \in SUBSET Nat /\ Promised(s, i) = [truth EXCEPT ![s.branch] = more]
  BY <1>3, <1>4
<1>6. truth \in [Branches -> SUBSET Nat]
  BY DEF Ghosts
<1> HIDE DEF more
<1> QED BY <1>1, <1>5, <1>6

-----------------------------------------------------------------------------

LEMMA TypeAppend == TypeInv /\ AppendEntry => TypeInv'
<1> SUFFICES ASSUME TypeInv, AppendEntry PROVE TypeInv'
  OBVIOUS
<1> DEFINE s == Head(todo)
<1> DEFINE i == Len(log) + 1
<1>0. Memory /\ Durable /\ Ghosts /\ Calling
  BY TypeParts
<1>1. s \in Appends /\ NewEntry \in Entry /\ s.branch \in Branches
  BY Appended, NewEntryTyped DEF Appends
<1>2. /\ log' \in Seq(Entry) /\ Len(log) \in Nat /\ Len(log') = i /\ DOMAIN log' = 1 .. i
      /\ DOMAIN log = 1 .. Len(log)
  BY LogGrows
<1>3. Durable'
  <2>1. UNCHANGED <<released, snapshot, ckpt>>
    BY Appended
  <2>2. ckpt' \in [applied : Nat, pos : 0 .. Len(log')]
    BY <1>0, <1>2, <2>1 DEF Durable
  <2> QED BY <1>0, <1>2, <2>1, <2>2 DEF Durable
<1>4. Memory'
  <2>1. UNCHANGED <<cursor, started, fromGenesis, branches, byName, nextBranch>>
    BY Appended DEF recovery, registry
  <2>2. views' \in [Branches -> SUBSET Nat]
    BY <1>0, <1>1, <1>2, SeededTyped, Appended
  <2>3. known' \subseteq DOMAIN log' /\ applied' \in Nat /\ since' \in Nat
    BY <1>0, <1>2, Appended DEF Memory
  <2>4. heads' \in [Branches -> {ZERO} \cup DOMAIN log']
    <3>1. heads \in [Branches -> {ZERO} \cup DOMAIN log'] /\ i \in DOMAIN log'
      BY <1>0, <1>2 DEF Memory
    <3>2. heads' = [heads EXCEPT ![s.branch] = i]
      BY Appended
    <3> QED BY <1>1, <3>1, <3>2
  <2>5. cursor' \in 0 .. Len(log')
    BY <1>0, <1>2, <2>1 DEF Memory
  <2> QED BY <1>0, <2>1, <2>2, <2>3, <2>4, <2>5 DEF Memory
<1>5. Ghosts'
  <2>1. truth' \in [Branches -> SUBSET Nat]
    BY <1>0, <1>1, <1>2, PromisedTyped, Appended
  <2> QED BY <1>0, <2>1, Appended DEF Ghosts
<1>6. Calling'
  <2>1. todo' = (Due \o <<Advance(s.branch)>>) \o Tail(todo) /\ pc' = pc /\ pc = "up"
    BY Appended DEF Step
  <2>2. Tail(todo) \in Seq(Steps)
    BY <1>0, Appended, TodoSteps DEF Calling, Step
  <2>3. todo' \in Seq(Steps)
    BY <1>1, <2>1, <2>2, DueSteps
  <2> QED BY <2>1, <2>3 DEF Calling
<1> QED BY <1>3, <1>4, <1>5, <1>6, TypePartsPrimed

(* The other steps of a call.                                                 *)
LEMMA TypeCall ==
    ASSUME TypeInv,
           \/ AppendFails \/ AdvanceHead \/ WriteSnapshot \/ WriteCheckpoint
           \/ CheckpointFails \/ InstallStates
    PROVE  TypeInv'
<1>0. Memory /\ Durable /\ Ghosts /\ Calling
  BY TypeParts
<1>1. pc = "up" /\ pc' = "up" /\ log' = log /\ todo # <<>>
  BY DEF AppendFails, AdvanceHead, WriteSnapshot, WriteCheckpoint, CheckpointFails, InstallStates,
         Step, disk
<1>2. Tail(todo) \in Seq(Steps) /\ Head(todo) \in Steps /\ <<Stop>> \in Seq(Steps)
  BY <1>0, <1>1, TodoSteps, StepKinds DEF Calling
<1>3. todo' \in Seq(Steps)
  <2>1. todo' = <<>> \/ todo' = Tail(todo) \/ todo' = <<Stop>>
    BY DEF AppendFails, AdvanceHead, WriteSnapshot, WriteCheckpoint, CheckpointFails, InstallStates
  <2>2. <<>> \in Seq(Steps)
    OBVIOUS
  <2> QED BY <1>2, <2>1, <2>2
<1>4. Calling'
  BY <1>1, <1>3 DEF Calling
<1>5. CASE AppendFails
  <2>1. UNCHANGED <<disk, recovery, store, registry, ghosts>> /\ bounds' \in Bounds
    BY <1>0, <1>5, BoundsCounted DEF AppendFails, Ghosts
  <2> QED BY <1>0, <1>4, <2>1, TypePartsPrimed
          DEF Memory, Durable, Ghosts, disk, recovery, store, registry, ghosts
<1>6. CASE AdvanceHead
  <2>1. UNCHANGED <<disk, recovery, store, byName, nextBranch, ghosts, bounds>>
    BY <1>6 DEF AdvanceHead, ghosts
  <2>2. branches' \in [Branches -> Branch]
    <3>1. Head(todo).branch \in Branches
      BY <1>2, <1>6, StepKinds DEF AdvanceHead, Step, Advances
    <3>2. branches[Head(todo).branch] \in Branch
      BY <1>0, <3>1 DEF Memory
    <3>3. [branches[Head(todo).branch] EXCEPT !.next = @ + 1] \in Branch
      BY <3>2 DEF Branch
    <3>4. \/ branches' = branches
          \/ branches' = [branches EXCEPT ![Head(todo).branch] =
                              [branches[Head(todo).branch] EXCEPT !.next = @ + 1]]
      BY <1>6 DEF AdvanceHead
    <3> QED BY <1>0, <3>1, <3>3, <3>4 DEF Memory
  <2> QED BY <1>0, <1>4, <2>1, <2>2, TypePartsPrimed
          DEF Memory, Durable, Ghosts, disk, recovery, store, ghosts
<1>7. CASE WriteSnapshot
  <2>1. UNCHANGED <<log, released, ckpt, recovery, store, registry, ghosts>> /\ bounds' \in Bounds
    BY <1>0, <1>7, BoundsCounted DEF WriteSnapshot, Ghosts
  <2>2. snapshot' \in [there : BOOLEAN, applied : Nat, views : [Branches -> SUBSET Nat]]
    BY <1>0, <1>7 DEF WriteSnapshot, NewSnapshot, Memory
  <2> QED BY <1>0, <1>4, <2>1, <2>2, TypePartsPrimed
          DEF Memory, Durable, Ghosts, recovery, store, registry, ghosts
<1>8. CASE WriteCheckpoint
  <2>1. UNCHANGED <<log, released, snapshot, recovery, known, heads, applied, views, registry, ghosts, bounds>>
    BY <1>8 DEF WriteCheckpoint
  <2>2. ckpt' \in [applied : Nat, pos : 0 .. Len(log')] /\ released' <= ckpt'.pos /\ since' \in Nat
    BY <1>0, <1>1, <1>8 DEF WriteCheckpoint, NewCheckpoint, Memory, Durable
  <2>3. Durable'
    BY <1>0, <1>1, <2>1, <2>2 DEF Durable
  <2> QED BY <1>0, <1>1, <1>4, <2>1, <2>2, <2>3, TypePartsPrimed
          DEF Memory, Ghosts, recovery, registry, ghosts
<1>9. CASE CheckpointFails
  <2>1. UNCHANGED <<log, released, recovery, store, registry, ghosts>> /\ bounds' \in Bounds
    BY <1>0, <1>9, BoundsCounted DEF CheckpointFails, Ghosts, ghosts
  <2>2. snapshot' \in [there : BOOLEAN, applied : Nat, views : [Branches -> SUBSET Nat]]
    <3>1. snapshot' = snapshot \/ snapshot' = [there |-> TRUE, applied |-> applied, views |-> views]
      BY <1>9 DEF CheckpointFails, NewSnapshot
    <3>2. applied \in Nat /\ views \in [Branches -> SUBSET Nat]
      BY <1>0 DEF Memory
    <3>3. CASE snapshot' = snapshot
      BY <1>0, <3>3 DEF Durable
    <3>4. CASE snapshot' = [there |-> TRUE, applied |-> applied, views |-> views]
      BY <3>2, <3>4
    <3> QED BY <3>1, <3>3, <3>4
  <2>3. ckpt' \in [applied : Nat, pos : 0 .. Len(log')] /\ released' <= ckpt'.pos
    BY <1>0, <1>1, <1>9, <2>1 DEF CheckpointFails, NewCheckpoint, Memory, Durable
  <2>4. Durable'
    BY <1>0, <1>1, <2>1, <2>2, <2>3 DEF Durable
  <2> QED BY <1>0, <1>1, <1>4, <2>1, <2>4, TypePartsPrimed
          DEF Memory, Ghosts, recovery, store, registry, ghosts
<1>10. CASE InstallStates
  <2>1. UNCHANGED <<disk, recovery, known, heads, applied, since, registry, ghosts, bounds>>
    BY <1>10 DEF InstallStates
  <2>2. Head(todo) \in Installs
    BY <1>2, <1>10, StepKinds DEF InstallStates, Step
  <2>3. views' \in [Branches -> SUBSET Nat]
    BY <1>0, <1>10, <2>2 DEF InstallStates, Installs, Memory
  <2> QED BY <1>0, <1>4, <2>1, <2>3, TypePartsPrimed
          DEF Memory, Durable, Ghosts, disk, recovery, registry, ghosts
<1> QED BY <1>5, <1>6, <1>7, <1>8, <1>9, <1>10

-----------------------------------------------------------------------------

(* The calls begin.                                                           *)
LEMMA TypeCalls ==
    ASSUME TypeInv,
           \/ \E b \in Branches : Write(b)
           \/ \E name \in Names, b \in Branches : CreateBranch(name, b)
           \/ \E name \in Names : DiscardBranch(name)
           \/ \E s, t \in Branches : Merge(s, t)
           \/ Release \/ Shutdown
    PROVE  TypeInv'
<1>0. Memory /\ Durable /\ Ghosts /\ Calling
  BY TypeParts
<1>1. DOMAIN log \subseteq Nat /\ heads \in [Branches -> Nat]
  <2>1. DOMAIN log \subseteq Nat
    BY <1>0 DEF Durable
  <2>2. heads \in [Branches -> {ZERO} \cup DOMAIN log]
    BY <1>0 DEF Memory
  <2> QED BY <2>1, <2>2
<1>2. CASE \E b \in Branches : Write(b)
  <2>1. PICK b \in Branches : Write(b)
    BY <1>2
  <2>2. /\ pc = "up" /\ UNCHANGED <<disk, pc, recovery, store, registry, ghosts>>
        /\ todo' = <<Appending(b, "put", ZERO, NoName, b)>> \/ todo' = <<Appending(b, "inc", ZERO, NoName, b)>>
    BY <2>1 DEF Write, Idle
  <2>3. bounds' \in Bounds
    BY <1>0, <2>1, BoundsCounted DEF Write, Ghosts
  <2>4. Appending(b, "put", ZERO, NoName, b) \in Steps /\ Appending(b, "inc", ZERO, NoName, b) \in Steps
    BY AppendingIsAStep DEF Ops
  <2>5. todo' \in Seq(Steps)
    <3>1. \A st \in Steps : <<st>> \in Seq(Steps)
      OBVIOUS
    <3> QED BY <2>2, <2>4, <3>1
  <2> QED BY <1>0, <2>2, <2>3, <2>5, TypePartsPrimed
          DEF Memory, Durable, Ghosts, Calling, disk, recovery, store, registry, ghosts
<1>3. CASE \E name \in Names, b \in Branches : CreateBranch(name, b)
  <2>1. PICK name \in Names, p \in Branches : CreateBranch(name, p)
    BY <1>3
  <2>2. pc = "up" /\ UNCHANGED <<disk, pc, recovery, known, applied, since, views, ghosts>>
    BY <2>1 DEF CreateBranch, Idle
  <2>3. nextBranch \in Branches /\ nextBranch' \in Nat
    BY <1>0, <2>1 DEF CreateBranch, Memory
  <2>4. heads' \in [Branches -> {ZERO} \cup DOMAIN log']
    <3>1. heads' = [heads EXCEPT ![nextBranch] = heads[p]] /\ log' = log
      BY <2>1, <2>2 DEF CreateBranch, disk
    <3> QED BY <1>0, <2>3, <3>1 DEF Memory
  <2>5. branches' \in [Branches -> Branch]
    <3>1. [live |-> TRUE, name |-> name, fork |-> heads[p], next |-> 0] \in Branch
      BY <1>1 DEF Branch
    <3>2. branches' = [branches EXCEPT ![nextBranch] =
                          [live |-> TRUE, name |-> name, fork |-> heads[p], next |-> 0]]
      BY <2>1 DEF CreateBranch
    <3> QED BY <1>0, <2>3, <3>1, <3>2 DEF Memory
  <2>6. byName' \in [Names -> Branches]
    BY <1>0, <2>1, <2>3 DEF CreateBranch, Memory
  <2>7. todo' \in Seq(Steps)
    <3>1. Appending(nextBranch, "branch", heads[p], name, p) \in Steps
      BY <1>1, <2>3, AppendingIsAStep DEF Ops
    <3> QED BY <2>1, <3>1 DEF CreateBranch
  <2>8. bounds' \in Bounds
    BY <1>0, <2>1, BoundsCounted DEF CreateBranch, Ghosts
  <2> QED BY <1>0, <2>2, <2>3, <2>4, <2>5, <2>6, <2>7, <2>8, TypePartsPrimed
          DEF Memory, Durable, Ghosts, Calling, disk, recovery, ghosts
<1>4. CASE \E name \in Names : DiscardBranch(name)
  <2>1. PICK name \in Names : DiscardBranch(name)
    BY <1>4
  <2> DEFINE b == byName[name]
  <2>2. pc = "up" /\ UNCHANGED <<disk, pc, todo, recovery, known, heads, applied, since, nextBranch, truth, refused, gapped, bounds>>
    BY <2>1 DEF DiscardBranch, Idle
  <2>3. b \in Branches
    BY <1>0 DEF Memory
  <2>4. views' \in [Branches -> SUBSET Nat]
    BY <1>0, <2>1 DEF DiscardBranch, Memory
  <2>5. branches' \in [Branches -> Branch]
    <3>1. Absent \in Branch
      BY DEF Branch, Absent
    <3> QED BY <1>0, <2>1, <3>1 DEF DiscardBranch, Memory
  <2>6. byName' \in [Names -> Branches]
    <3>1. byName' = [byName EXCEPT ![branches[b].name] = Main] /\ Main \in Branches
      BY <2>1 DEF DiscardBranch
    <3> QED BY <1>0, <3>1 DEF Memory
  <2>7. discarded' \subseteq Branches
    BY <1>0, <2>1, <2>3 DEF DiscardBranch, Ghosts
  <2> QED BY <1>0, <2>2, <2>4, <2>5, <2>6, <2>7, TypePartsPrimed
          DEF Memory, Durable, Ghosts, Calling, disk, recovery, ghosts
<1>5. CASE \E s, t \in Branches : Merge(s, t)
  <2>1. PICK s \in Branches, t \in Branches : Merge(s, t)
    BY <1>5
  <2> DEFINE base == branches[s].fork
  <2> DEFINE theirs == History(s, base)
  <2> DEFINE ours == History(t, base)
  <2> DEFINE plain == theirs \cap OfKind({"put", "txn"})
  <2> DEFINE incs == theirs \cap OfKind({"inc"})
  <2> DEFINE first == IF plain = {} THEN <<>> ELSE <<Appending(t, "txn", ZERO, NoName, t)>>
  <2> DEFINE second == <<Appending(t, "merge", heads[s], NoName, s)>>
  <2> DEFINE third == IF incs = {} THEN <<>> ELSE <<Install(t, MergedStates(s, t, ours))>>
  <2>2. /\ pc = "up" /\ UNCHANGED <<disk, pc, recovery, store, registry, ghosts>>
        /\ Count("merges", MaxMerges)
        /\ todo' = first \o second \o third
    BY <2>1 DEF Merge, Idle
  <2>3. bounds' \in Bounds
    BY <1>0, <2>2, BoundsCounted DEF Ghosts
  <2>4. first \in Seq(Steps)
    <3>1. Appending(t, "txn", ZERO, NoName, t) \in Steps
      BY AppendingIsAStep DEF Ops
    <3> QED BY <3>1
  <2>5. second \in Seq(Steps)
    <3>1. Appending(t, "merge", heads[s], NoName, s) \in Steps
      BY <1>1, AppendingIsAStep DEF Ops
    <3> QED BY <3>1
  <2>6. third \in Seq(Steps)
    <3>1. MergedStates(s, t, ours) \subseteq Nat
      BY <1>1 DEF MergedStates, OfKind
    <3>2. Install(t, MergedStates(s, t, ours)) \in Installs
      BY <3>1 DEF Install, Installs
    <3>3. Install(t, MergedStates(s, t, ours)) \in Steps
      BY <3>2, StepKinds
    <3> QED BY <3>3
  <2> HIDE DEF first, second, third
  <2>7. todo' \in Seq(Steps)
    BY <2>2, <2>4, <2>5, <2>6
  <2> QED BY <1>0, <2>2, <2>3, <2>7, TypePartsPrimed
          DEF Memory, Durable, Ghosts, Calling, disk, recovery, store, registry, ghosts
<1>6. CASE Release
  <2>1. UNCHANGED <<log, snapshot, ckpt, pc, todo, recovery, store, registry, ghosts, bounds>> /\ pc = "up"
    BY <1>6 DEF Release, Idle
  <2>2. released' \in Nat /\ released' <= ckpt.pos
    BY <1>0, <1>6 DEF Release, Durable
  <2> QED BY <1>0, <2>1, <2>2, TypePartsPrimed
          DEF Memory, Durable, Ghosts, Calling, recovery, store, registry, ghosts
<1>7. CASE Shutdown
  <2>1. UNCHANGED <<disk, pc, recovery, store, registry, ghosts, bounds>> /\ pc = "up"
    BY <1>7 DEF Shutdown, Idle
  <2>2. todo' \in Seq(Steps)
    BY <1>7, StepKinds DEF Shutdown
  <2> QED BY <1>0, <2>1, <2>2, TypePartsPrimed
          DEF Memory, Durable, Ghosts, Calling, disk, recovery, store, registry, ghosts
<1> QED BY <1>2, <1>3, <1>4, <1>5, <1>6, <1>7

-----------------------------------------------------------------------------

(* A process ends, a snapshot is lost, a process opens the store.              *)
LEMMA TypeProcess ==
    ASSUME TypeInv,
           \/ Halt \/ Crash \/ LoseSnapshot \/ Open \/ ReplayEntry \/ Refuse \/ Ready
    PROVE  TypeInv'
<1>0. Memory /\ Durable /\ Ghosts /\ Calling
  BY TypeParts
<1>1. CASE Halt \/ Crash
  <2>1. pc' = "down" /\ Forget /\ UNCHANGED <<disk, ghosts, bounds>>
    BY <1>1 DEF Halt, Crash, Stopped
  <2>2. Durable' /\ Ghosts'
    BY <1>0, <2>1 DEF Durable, Ghosts, disk, ghosts
  <2> QED BY <2>1, <2>2, ForgetsAll, TypePartsPrimed
<1>2. CASE Refuse
  <2>1. pc' = "down" /\ Forget /\ UNCHANGED <<disk, truth, discarded, gapped, bounds>> /\ refused' = TRUE
    BY <1>2 DEF Refuse
  <2>2. Durable' /\ Ghosts'
    BY <1>0, <2>1 DEF Durable, Ghosts, disk
  <2> QED BY <2>1, <2>2, ForgetsAll, TypePartsPrimed
<1>3. CASE LoseSnapshot
  <2>1. UNCHANGED <<log, released, ckpt, pc, todo, recovery, store, registry, ghosts>>
    BY <1>3 DEF LoseSnapshot
  <2>2. bounds' \in Bounds
    BY <1>0, <1>3, BoundsCounted DEF LoseSnapshot, Ghosts
  <2>3. snapshot' \in [there : BOOLEAN, applied : Nat, views : [Branches -> SUBSET Nat]]
    BY <1>3 DEF LoseSnapshot, NoSnapshot, NoViews
  <2>4. Durable'
    BY <1>0, <2>1, <2>3 DEF Durable
  <2>5. Memory'
    BY <1>0, <2>1 DEF Memory, recovery, store, registry
  <2>6. Calling' /\ Ghosts'
    BY <1>0, <2>1, <2>2 DEF Calling, Nothing, Ghosts, recovery, store, registry, ghosts
  <2> QED BY <2>4, <2>5, <2>6, TypePartsPrimed
<1>4. CASE Open
  <2> DEFINE start == IF Resumable THEN ckpt.pos ELSE released
  <2>1. /\ pc = "down" /\ pc' = "replaying" /\ Count("lives", MaxLives)
        /\ views' = IF Resumable THEN snapshot.views ELSE NoViews
        /\ applied' = FromApplied
        /\ fromGenesis' = (FromApplied = 0)
        /\ cursor' = start /\ since' = Len(log) - start
        /\ gapped' = (gapped \/ (~Resumable /\ released > 0))
        /\ UNCHANGED <<disk, todo, started, known, heads, registry, truth, discarded, refused>>
    BY <1>4 DEF Open
  <2>2. start \in 0 .. Len(log)
    BY <1>0 DEF Durable
  <2>3. Durable'
    BY <1>0, <2>1 DEF Durable, disk
  <2>4. views' \in [Branches -> SUBSET Nat] /\ applied' \in Nat /\ fromGenesis' \in BOOLEAN
    BY <1>0, <2>1 DEF Durable, NoViews, FromApplied
  <2>5. cursor' \in 0 .. Len(log') /\ since' \in Nat
    BY <1>0, <2>1, <2>2 DEF Durable, disk
  <2>6. Memory'
    BY <1>0, <2>1, <2>4, <2>5 DEF Memory, disk, registry
  <2>7. Ghosts'
    BY <1>0, <2>1, BoundsCounted DEF Ghosts
  <2>8. Calling'
    BY <1>0, <2>1 DEF Calling, Nothing
  <2> QED BY <2>3, <2>6, <2>7, <2>8, TypePartsPrimed
<1>5. CASE ReplayEntry
  <2> DEFINE i == cursor + 1
  <2> DEFINE e == log[i]
  <2>1. /\ pc = "replaying" /\ i <= Len(log) /\ Links(e)
        /\ cursor' = i /\ started' = started \cup {e.branch} /\ known' = known \cup {i}
        /\ heads' = [heads EXCEPT ![e.branch] = i]
        /\ views' = Folded(e, i) /\ applied' = applied + 1
        /\ branches' = Restored(e).ids /\ byName' = Restored(e).names /\ nextBranch' = Restored(e).next
        /\ UNCHANGED <<disk, pc, todo, fromGenesis, since, ghosts, bounds>>
    BY <1>5 DEF ReplayEntry, HeadsWith
  <2>2. i \in DOMAIN log /\ e \in Entry /\ DOMAIN log = 1 .. Len(log) /\ i \in Nat
    <3>1. cursor \in Nat /\ Len(log) \in Nat /\ log \in Seq(Entry)
      BY <1>0 DEF Memory, Durable
    <3>2. i \in Nat /\ 1 <= i /\ i <= Len(log)
      BY <2>1, <3>1
    <3> QED BY <3>1, <3>2
  <2>3. e.branch \in Branches /\ e.from \in Nat /\ e.name \in Names \cup {NoName} /\ log' = log
    BY <2>1, <2>2 DEF Entry, disk
  <2> HIDE DEF e, i
  <2>4. Restored(e).ids \in [Branches -> Branch]
    <3>1. [live |-> TRUE, name |-> e.name, fork |-> e.from, next |-> 0] \in Branch
      BY <2>3 DEF Branch
    <3> QED BY <1>0, <2>3, <3>1 DEF Restored, Memory
  <2>5. Restored(e).names \in [Names -> Branches]
    BY <1>0, <2>3 DEF Restored, Memory
  <2>6. Restored(e).next \in Nat
    <3>1. e.branch \in Nat
      BY <2>3
    <3> QED BY <1>0, <3>1 DEF Restored, Memory
  <2>7. views' \in [Branches -> SUBSET Nat]
    BY <1>0, <2>1, <2>2, SeededTyped
  <2>8. heads' \in [Branches -> {ZERO} \cup DOMAIN log']
    <3>1. heads \in [Branches -> {ZERO} \cup DOMAIN log']
      BY <1>0, <2>3 DEF Memory
    <3>2. heads' = [heads EXCEPT ![e.branch] = i] /\ i \in DOMAIN log'
      BY <2>1, <2>2, <2>3
    <3> QED BY <2>3, <3>1, <3>2
  <2>9. Memory'
    <3>1. cursor' \in 0 .. Len(log') /\ started' \subseteq Branches /\ known' \subseteq DOMAIN log'
      <4>1. known \subseteq DOMAIN log' /\ started \subseteq Branches
        BY <1>0, <2>3 DEF Memory
      <4>2. i \in 0 .. Len(log')
        BY <2>2, <2>3
      <4> QED BY <2>1, <2>2, <2>3, <4>1, <4>2
    <3>2. applied' \in Nat /\ UNCHANGED <<fromGenesis, since>>
      BY <1>0, <2>1 DEF Memory
    <3> QED BY <1>0, <2>1, <2>4, <2>5, <2>6, <2>7, <2>8, <3>1, <3>2 DEF Memory
  <2>10. Durable' /\ Ghosts' /\ Calling'
    BY <1>0, <2>1 DEF Durable, Ghosts, Calling, disk, ghosts
  <2> QED BY <2>9, <2>10, TypePartsPrimed
<1>6. CASE Ready
  <2>1. /\ pc = "replaying" /\ pc' = "up" /\ cursor' = 0 /\ started' = {} /\ fromGenesis' = FALSE
        /\ UNCHANGED <<disk, todo, store, byName, nextBranch, ghosts, bounds>>
    BY <1>6 DEF Ready
  <2>2. branches' \in [Branches -> Branch]
    <3>1. ASSUME NEW b \in Branches
          PROVE  branches[b] \in Branch /\ [branches[b] EXCEPT !.next = @ + 1] \in Branch
      <4>1. branches[b] \in Branch
        BY <1>0 DEF Memory
      <4> QED BY <4>1 DEF Branch
    <3>2. branches' = [b \in Branches |-> IF branches[b].live /\ heads[b] # ZERO
                                          THEN [branches[b] EXCEPT !.next = @ + 1] ELSE branches[b]]
      BY <1>6 DEF Ready
    <3> QED BY <3>1, <3>2
  <2>3. Memory'
    <3>1. UNCHANGED <<log, known, heads, applied, since, views, byName, nextBranch>>
      BY <2>1 DEF disk, store
    <3>2. cursor' \in 0 .. Len(log') /\ started' \subseteq Branches /\ fromGenesis' \in BOOLEAN
      <4>1. Len(log') \in Nat
        BY <1>0, <3>1 DEF Durable
      <4>2. 0 \in 0 .. Len(log')
        BY <4>1
      <4>3. cursor' = 0 /\ started' = {} /\ fromGenesis' = FALSE
        BY <2>1
      <4> QED BY <4>2, <4>3
    <3> QED BY <1>0, <2>2, <3>1, <3>2 DEF Memory
  <2>4. Durable' /\ Ghosts' /\ Calling'
    BY <1>0, <2>1 DEF Durable, Ghosts, Calling, disk, ghosts
  <2> QED BY <2>3, <2>4, TypePartsPrimed
<1> QED BY <1>1, <1>2, <1>3, <1>4, <1>5, <1>6

LEMMA TypeStep == TypeInv /\ [Next]_vars => TypeInv'
<1> SUFFICES ASSUME TypeInv, [Next]_vars PROVE TypeInv'
  OBVIOUS
<1>1. CASE UNCHANGED vars
  <2>1. UNCHANGED <<disk, pc, todo, recovery, store, registry, ghosts, bounds>>
    BY <1>1 DEF vars
  <2>2. Memory /\ Durable /\ Ghosts /\ Calling
    BY TypeParts
  <2>3. Memory' /\ Durable' /\ Ghosts'
    BY <2>1, <2>2 DEF Memory, Durable, Ghosts, disk, recovery, store, registry, ghosts
  <2>4. Calling'
    BY <2>1, <2>2 DEF Calling, Nothing, recovery, store, registry
  <2> QED BY <2>3, <2>4, TypePartsPrimed
<1>2. CASE Next
  BY <1>2, TypeAppend, TypeCall, TypeCalls, TypeProcess DEF Next
<1> QED BY <1>1, <1>2

(* Whatever crashes, fails, is lost or is released, the variables keep their   *)
(* types, and the archive never takes an entry no checkpoint covers.           *)
THEOREM TypeCorrect == Spec => []TypeInv
  BY TypeInit, TypeStep, PTL DEF Spec

-----------------------------------------------------------------------------
(* Counting. *)

LEMMA FoldedCounts ==
    ASSUME Memory, Durable, NEW e \in Entry, NEW k \in Nat,
           \A b \in Branches : views[b] \subseteq 1 .. k
    PROVE  \A b \in Branches : Folded(e, k + 1)[b] \subseteq 1 .. k + 1
<1> DEFINE parent == log[e.from].branch
<1>1. ASSUME e.from \in known PROVE parent \in Branches
  <2>1. log[e.from] \in Entry
    BY <1>1 DEF Memory, Durable
  <2> QED BY <2>1 DEF Entry
<1>2. e.branch \in Branches /\ views \in [Branches -> SUBSET Nat]
  BY DEF Entry, Memory
<1>3. Seeded(e) \in [Branches -> SUBSET Nat] /\ \A b \in Branches : Seeded(e)[b] \subseteq 1 .. k
  BY <1>1, <1>2 DEF Seeded
<1>4. k + 1 \notin Seeded(e)[e.branch]
  BY <1>2, <1>3
<1>5. Folded(e, k + 1) = [Seeded(e) EXCEPT ![e.branch] = @ \cup {k + 1}]
  BY <1>2, <1>3, <1>4 DEF Folded
<1>6. 1 .. k \subseteq 1 .. k + 1
  OBVIOUS
<1>7. k + 1 \in 1 .. k + 1
  OBVIOUS
<1> DEFINE seeded == Seeded(e)
<1>8. /\ seeded \in [Branches -> SUBSET Nat] /\ Folded(e, k + 1) = [seeded EXCEPT ![e.branch] = @ \cup {k + 1}]
      /\ \A b \in Branches : seeded[b] \subseteq 1 .. k + 1
  BY <1>3, <1>5, <1>6
<1> HIDE DEF Branches, seeded
<1> QED BY <1>2, <1>7, <1>8

LEMMA Joined ==
    ASSUME NEW S, NEW f \in Seq(S), NEW g \in Seq(S)
    PROVE  /\ f \o g \in Seq(S) /\ Len(f \o g) = Len(f) + Len(g)
           /\ DOMAIN (f \o g) = 1 .. Len(f) + Len(g)
           /\ \A n \in DOMAIN (f \o g) : n <= Len(f) => (f \o g)[n] = f[n]
           /\ \A n \in DOMAIN (f \o g) :
                 n > Len(f) => n - Len(f) \in DOMAIN g /\ (f \o g)[n] = g[n - Len(f)]
  OBVIOUS

(* After an append come the checkpoint, if it is due, the head's advance and   *)
(* what the call had left to do.                                              *)
LEMMA NewTodo ==
    ASSUME TypeInv, AppendEntry
    PROVE  /\ \A n \in DOMAIN todo' :
                 todo'[n] \in {Snapshot, Checkpoint, Advance(Head(todo).branch)}
                               \cup {todo[m] : m \in DOMAIN todo \ {1}}
           /\ \A n \in DOMAIN todo' :
               \/ n = 1 /\ todo'[n] = Snapshot
               \/ n = 2 /\ todo'[1] = Snapshot /\ todo'[2] = Checkpoint
               \/ todo'[n] = Advance(Head(todo).branch)
               \/ \E m \in DOMAIN todo : /\ m > 1 /\ n > 1
                                         /\ todo'[n] = todo[m]
                                         /\ (m > 2 => todo'[n - 1] = todo[m - 1])
<1> DEFINE a == Advance(Head(todo).branch)
<1> DEFINE rest == Tail(todo)
<1> DEFINE front == Due \o <<a>>
<1>1. todo # <<>> /\ todo' = front \o rest /\ todo \in Seq(Steps)
  BY Appended, TypeParts DEF Step, Calling
<1>2. /\ rest \in Seq(Steps) /\ Len(todo) \in Nat
      /\ \A m \in DOMAIN rest : m + 1 \in DOMAIN todo /\ rest[m] = todo[m + 1]
  BY <1>1, TodoSteps
<1>3. a \in Steps
  <2>1. Head(todo).branch \in Branches
    BY Appended, NewEntryTyped DEF Appends
  <2> QED BY <2>1, StepKinds
<1> HIDE DEF a, rest
<1>4. /\ Due \in Seq(Steps) /\ Len(Due) \in {0, 2}
      /\ Len(Due) = 2 => Due[1] = Snapshot /\ Due[2] = Checkpoint
  <2>1. Due = <<>> \/ Due = <<Snapshot, Checkpoint>>
    BY DEF Due
  <2> QED BY <2>1, DueSteps
<1>8. /\ front \in Seq(Steps) /\ Len(front) = Len(Due) + 1
      /\ \A m \in 1 .. Len(Due) : front[m] = Due[m]
      /\ front[Len(Due) + 1] = a
  <2>1. <<a>> \in Seq(Steps) /\ Len(<<a>>) = 1 /\ <<a>>[1] = a
    BY <1>3
  <2> HIDE DEF Steps
  <2> QED BY <1>4, <2>1, Joined
<1> HIDE DEF front
<1>9. \A m \in 1 .. Len(front) :
          \/ m = 1 /\ front[m] = Snapshot
          \/ m = 2 /\ front[1] = Snapshot /\ front[2] = Checkpoint
          \/ front[m] = a
  <2> TAKE m \in 1 .. Len(front)
  <2>1. m \in 1 .. Len(Due) \/ m = Len(Due) + 1
    BY <1>4, <1>8
  <2>2. CASE Len(Due) = 0
    BY <1>8, <2>1, <2>2
  <2>3. CASE Len(Due) = 2
    <3>1. m \in {1, 2, 3}
      BY <2>1, <2>3
    <3>2. front[1] = Snapshot /\ front[2] = Checkpoint /\ front[3] = a
      BY <1>4, <1>8, <2>3
    <3> QED BY <3>1, <3>2
  <2> QED BY <1>4, <2>2, <2>3
<1> DEFINE P(n) == \/ n = 1 /\ todo'[n] = Snapshot
                   \/ n = 2 /\ todo'[1] = Snapshot /\ todo'[2] = Checkpoint
                   \/ todo'[n] = Advance(Head(todo).branch)
                   \/ \E m \in DOMAIN todo : /\ m > 1 /\ n > 1
                                             /\ todo'[n] = todo[m]
                                             /\ (m > 2 => todo'[n - 1] = todo[m - 1])
<1> SUFFICES ASSUME NEW n \in DOMAIN todo' PROVE P(n)
  <2>1. ASSUME NEW n \in DOMAIN todo', P(n)
        PROVE  todo'[n] \in {Snapshot, Checkpoint, Advance(Head(todo).branch)}
                               \cup {todo[m] : m \in DOMAIN todo \ {1}}
    <3>1. CASE \E m \in DOMAIN todo : m > 1 /\ todo'[n] = todo[m]
      BY <3>1
    <3>2. CASE todo'[n] \in {Snapshot, Checkpoint, Advance(Head(todo).branch)}
      BY <3>2
    <3>3. CASE n = 2 /\ todo'[1] = Snapshot /\ todo'[2] = Checkpoint
      BY <3>3
    <3>4. CASE n = 1 /\ todo'[n] = Snapshot
      BY <3>4
    <3>5. CASE todo'[n] = Advance(Head(todo).branch)
      BY <3>5
    <3>6. CASE \E m \in DOMAIN todo : /\ m > 1 /\ n > 1 /\ todo'[n] = todo[m]
                                      /\ (m > 2 => todo'[n - 1] = todo[m - 1])
      <4>1. PICK m \in DOMAIN todo : m > 1 /\ todo'[n] = todo[m]
        BY <3>6, Zenon
      <4> QED BY <3>1, <4>1
    <3> QED BY Zenon, <2>1, <3>3, <3>4, <3>5, <3>6
  <2> QED BY <2>1
<1> DEFINE k == Len(front)
<1> HIDE DEF k
<1>5. /\ n \in Nat /\ n > 0 /\ n <= k + Len(rest) /\ DOMAIN todo' = 1 .. k + Len(rest)
      /\ k \in Nat /\ k > 0 /\ Len(rest) \in Nat
  <2>1. DOMAIN todo' = 1 .. k + Len(rest)
    <3>1. DOMAIN (front \o rest) = 1 .. Len(front) + Len(rest)
      <4>1. front \in Seq(Steps) /\ rest \in Seq(Steps)
        BY <1>2, <1>8
      <4> HIDE DEF front, rest
      <4> QED BY <4>1, Joined
    <3> QED BY <1>1, <3>1 DEF k
  <2>2. k \in {1, 3} /\ Len(rest) \in Nat
    <3>1. Len(front) \in {1, 3}
      BY <1>4, <1>8
    <3> QED BY <1>2, <3>1 DEF k
  <2> QED BY <2>1, <2>2
<1>6. CASE n <= k
  <2>1. \A m \in 1 .. k : m \in DOMAIN todo' /\ todo'[m] = front[m]
    BY <1>1, <1>2, <1>5, <1>8, Joined DEF k
  <2>2. n \in 1 .. k /\ (n = 2 => 1 \in 1 .. k)
    BY <1>5, <1>6
  <2> QED BY <1>9, <2>1, <2>2 DEF a, k
<1>7. CASE n > k
  <2>1. n - k \in DOMAIN rest /\ todo'[n] = rest[n - k]
    BY <1>1, <1>2, <1>7, <1>8, Joined DEF k
  <2> DEFINE m == n - k + 1
  <2>2. m \in DOMAIN todo /\ todo'[n] = todo[m] /\ m > 1 /\ n > 1
    BY <1>2, <1>5, <1>7, <2>1
  <2>3. ASSUME m > 2 PROVE todo'[n - 1] = todo[m - 1]
    <3>1. n - 1 > k /\ n - 1 \in DOMAIN todo'
      BY <1>5, <1>7, <2>3
    <3>2. (n - 1) - k \in DOMAIN rest /\ todo'[n - 1] = rest[(n - 1) - k]
      BY <1>1, <1>2, <1>8, <3>1, Joined DEF k
    <3>3. ((n - 1) - k) + 1 = m - 1
      BY <1>5
    <3> QED BY <1>2, <3>2, <3>3
  <2> QED BY <2>2, <2>3
<1> QED BY <1>5, <1>6, <1>7

LEMMA CountAppend ==
    ASSUME TypeInv, CountInv, AppendEntry
    PROVE  CountInv'
<1> SUFFICES ASSUME ~gapped' PROVE FilesCount' /\ MemoryCounts' /\ ReplayCounts'
  BY DEF CountInv
<1>0. Memory /\ Durable /\ Ghosts /\ Calling
  BY TypeParts
<1>1. /\ pc = "up" /\ UNCHANGED <<released, snapshot, ckpt, pc, gapped>>
      /\ applied' = applied + 1 /\ views' = Folded(NewEntry, Len(log) + 1)
      /\ todo' = Due \o <<Advance(Head(todo).branch)>> \o Tail(todo) /\ todo # <<>>
  BY Appended DEF Step
<1>2. FilesCount /\ MemoryCounts
  BY <1>1 DEF CountInv
<1>3. Len(log) \in Nat /\ Len(log') = Len(log) + 1 /\ NewEntry \in Entry
  BY LogGrows, NewEntryTyped, Appended
<1>4. FilesCount'
  BY <1>1, <1>2 DEF FilesCount
<1>5. applied' = Len(log') /\ \A b \in Branches : views'[b] \subseteq 1 .. Len(log')
  BY <1>0, <1>1, <1>2, <1>3, FoldedCounts DEF MemoryCounts, Folding
<1>6. ASSUME NEW n \in DOMAIN todo', todo'[n].do = "install"
      PROVE  todo'[n].incs \subseteq 1 .. Len(log')
  <2>4. PICK m \in DOMAIN todo : todo'[n] = todo[m]
    <3>1. \/ todo'[n] = Snapshot \/ todo'[n] = Checkpoint \/ todo'[n] = Advance(Head(todo).branch)
          \/ \E m \in DOMAIN todo : todo'[n] = todo[m]
      BY NewTodo
    <3>2. Snapshot.do # "install" /\ Checkpoint.do # "install" /\ Advance(Head(todo).branch).do # "install"
      BY DEF Snapshot, Checkpoint, Advance
    <3> QED BY <1>6, <3>1, <3>2
  <2>5. todo'[n].incs \subseteq 1 .. Len(log)
    BY <1>1, <1>2, <1>6, <2>4 DEF MemoryCounts
  <2>6. 1 .. Len(log) \subseteq 1 .. Len(log')
    BY <1>3
  <2> QED BY <2>5, <2>6
<1> QED BY <1>1, <1>4, <1>5, <1>6 DEF MemoryCounts, ReplayCounts, Folding

(* A new file is in place, whether or not the call returned an error.          *)
WrittenSnapshot == (WriteSnapshot \/ CheckpointFails) /\ snapshot' = NewSnapshot /\ ckpt' = ckpt
WrittenCheckpoint == (WriteCheckpoint \/ CheckpointFails) /\ ckpt' = NewCheckpoint /\ snapshot' = snapshot

(* Steps that leave the log and what was folded of it: what they install or    *)
(* write to a file was counted.                                               *)
LEMMA CountCall ==
    ASSUME TypeInv, CountInv,
           \/ AppendFails \/ AdvanceHead \/ WriteSnapshot \/ WriteCheckpoint
           \/ CheckpointFails \/ InstallStates
    PROVE  CountInv'
<1> SUFFICES ASSUME ~gapped' PROVE FilesCount' /\ MemoryCounts' /\ ReplayCounts'
  BY DEF CountInv
<1>0. Memory /\ Durable /\ Ghosts /\ Calling
  BY TypeParts
<1>1. /\ pc = "up" /\ UNCHANGED <<log, pc, applied, gapped>> /\ todo # <<>>
  BY DEF AppendFails, AdvanceHead, WriteSnapshot, WriteCheckpoint, CheckpointFails, InstallStates,
         Step, disk, store, ghosts
<1>2. FilesCount /\ MemoryCounts
  BY <1>1 DEF CountInv
<1>3. ReplayCounts'
  BY <1>1 DEF ReplayCounts
<1>4. ASSUME NEW n \in DOMAIN todo', todo'[n].do = "install"
      PROVE  todo'[n].incs \subseteq 1 .. Len(log')
  <2>1. todo' = <<>> \/ todo' = Tail(todo) \/ todo' = <<Stop>>
    BY DEF AppendFails, AdvanceHead, WriteSnapshot, WriteCheckpoint, CheckpointFails, InstallStates
  <2>2. todo' = Tail(todo)
    BY <1>4, <2>1 DEF Stop
  <2>3. n + 1 \in DOMAIN todo /\ todo'[n] = todo[n + 1]
    BY <1>0, <1>1, <1>4, <2>2, TodoSteps DEF Calling
  <2> QED BY <1>1, <1>2, <1>4, <2>3 DEF MemoryCounts
<1>5. FilesCount'
  <2>1. CASE WrittenSnapshot
    <3>1. snapshot' = [there |-> TRUE, applied |-> applied, views |-> views] /\ ckpt' = ckpt
      BY <2>1 DEF WrittenSnapshot, WriteSnapshot, CheckpointFails, NewSnapshot
    <3>2. applied = Len(log) /\ \A b \in Branches : views[b] \subseteq 1 .. Len(log)
      BY <1>1, <1>2 DEF MemoryCounts, Folding
    <3> QED BY <1>2, <3>1, <3>2 DEF FilesCount
  <2>2. CASE WrittenCheckpoint
    <3>1. ckpt' = [applied |-> applied, pos |-> Len(log)] /\ snapshot' = snapshot
      BY <2>2 DEF WrittenCheckpoint, WriteCheckpoint, CheckpointFails, NewCheckpoint
    <3>2. applied = Len(log)
      BY <1>1, <1>2 DEF MemoryCounts, Folding
    <3> QED BY <1>2, <3>1, <3>2 DEF FilesCount
  <2>3. CASE ~WrittenSnapshot /\ ~WrittenCheckpoint
    <3>1. ~WriteSnapshot /\ ~WriteCheckpoint
      BY <2>3 DEF WrittenSnapshot, WrittenCheckpoint, WriteSnapshot, WriteCheckpoint
    <3>2. UNCHANGED <<snapshot, ckpt>>
      <4>1. CASE CheckpointFails
        BY <2>3, <4>1 DEF WrittenSnapshot, WrittenCheckpoint, CheckpointFails
      <4>2. CASE AppendFails \/ AdvanceHead \/ InstallStates
        BY <4>2 DEF AppendFails, AdvanceHead, InstallStates, disk
      <4> QED BY <3>1, <4>1, <4>2
    <3> QED BY <1>2, <3>2 DEF FilesCount
  <2> QED BY <2>1, <2>2, <2>3
<1>6. \A b \in Branches : views'[b] \subseteq 1 .. Len(log)
  <2>1. \A b \in Branches : views[b] \subseteq 1 .. Len(log)
    BY <1>1, <1>2 DEF MemoryCounts, Folding
  <2>2. CASE InstallStates
    <3> DEFINE s == Head(todo)
    <3>1. s \in Installs /\ s = todo[1] /\ s.do = "install" /\ 1 \in DOMAIN todo
      BY <1>0, <1>1, <2>2, TodoSteps, StepKinds DEF InstallStates, Step, Calling
    <3>2. s.incs \subseteq 1 .. Len(log)
      BY <1>1, <1>2, <3>1 DEF MemoryCounts
    <3>3. views' = [views EXCEPT ![s.branch] = (@ \ OfKind({"inc"})) \cup s.incs]
      BY <2>2 DEF InstallStates
    <3>4. views \in [Branches -> SUBSET Nat]
      BY <1>0 DEF Memory
    <3> HIDE DEF s
    <3> QED BY <2>1, <3>2, <3>3, <3>4
  <2>3. CASE ~InstallStates
    <3>1. views' = views
      BY <2>3 DEF AppendFails, AdvanceHead, WriteSnapshot, WriteCheckpoint, CheckpointFails, store
    <3> QED BY <2>1, <3>1
  <2> QED BY <2>2, <2>3
<1> QED BY <1>1, <1>2, <1>3, <1>4, <1>5, <1>6 DEF MemoryCounts, Folding

-----------------------------------------------------------------------------

(* A merge appends to its target alone, and installs there what either branch *)
(* showed.                                                                    *)
LEMMA MergeTodo ==
    ASSUME NEW s, NEW t, Merge(s, t)
    PROVE  \A n \in DOMAIN todo' :
              /\ todo'[n].branch = t
              /\ \/ todo'[n].do = "append" /\ todo'[n].op \in {"txn", "merge"}
                 \/ todo'[n].do = "install" /\ todo'[n].incs \subseteq views[s] \cup views[t]
<1> DEFINE base == branches[s].fork
<1> DEFINE theirs == History(s, base)
<1> DEFINE ours == History(t, base)
<1> DEFINE plain == theirs \cap OfKind({"put", "txn"})
<1> DEFINE incs == theirs \cap OfKind({"inc"})
<1> DEFINE first == Appending(t, "txn", ZERO, NoName, t)
<1> DEFINE second == Appending(t, "merge", heads[s], NoName, s)
<1> DEFINE third == Install(t, MergedStates(s, t, ours))
<1> DEFINE All == {first, second, third}
<1>1. todo' = (IF plain = {} THEN <<>> ELSE <<first>>) \o <<second>> \o (IF incs = {} THEN <<>> ELSE <<third>>)
  BY DEF Merge
<1>2. /\ first.do = "append" /\ first.op = "txn" /\ first.branch = t
      /\ second.do = "append" /\ second.op = "merge" /\ second.branch = t
      /\ third.do = "install" /\ third.incs = MergedStates(s, t, ours) /\ third.branch = t
  BY DEF Appending, Install
<1>3. MergedStates(s, t, ours) \subseteq views[s] \cup views[t]
  BY DEF MergedStates
<1> HIDE DEF first, second, third, plain, incs
<1>4. /\ <<first>> \in Seq(All) /\ <<second>> \in Seq(All) /\ <<third>> \in Seq(All) /\ <<>> \in Seq(All)
  OBVIOUS
<1>5. /\ (IF plain = {} THEN <<>> ELSE <<first>>) \in Seq(All)
      /\ (IF incs = {} THEN <<>> ELSE <<third>>) \in Seq(All)
  BY <1>4
<1>6. \A f, g \in Seq(All) : f \o g \in Seq(All)
  OBVIOUS
<1>7. todo' \in Seq(All)
  BY <1>1, <1>4, <1>5, <1>6
<1>8. \A n \in DOMAIN todo' : todo'[n] \in All
  BY <1>7
<1>9. ASSUME NEW n \in DOMAIN todo'
      PROVE  /\ todo'[n].branch = t
             /\ \/ todo'[n].do = "append" /\ todo'[n].op \in {"txn", "merge"}
                \/ todo'[n].do = "install" /\ todo'[n].incs \subseteq views[s] \cup views[t]
  <2>1. todo'[n] = first \/ todo'[n] = second \/ todo'[n] = third
    BY <1>8
  <2> QED BY <1>2, <1>3, <2>1
<1> QED BY <1>9

(* What begins a call leaves the counts, and what a merge is to install was   *)
(* shown by its branches.                                                     *)
LEMMA CountCalls ==
    ASSUME TypeInv, CountInv,
           \/ \E b \in Branches : Write(b)
           \/ \E name \in Names, b \in Branches : CreateBranch(name, b)
           \/ \E name \in Names : DiscardBranch(name)
           \/ \E s, t \in Branches : Merge(s, t)
           \/ Release \/ Shutdown
    PROVE  CountInv'
<1> SUFFICES ASSUME ~gapped' PROVE FilesCount' /\ MemoryCounts' /\ ReplayCounts'
  BY DEF CountInv
<1>0. Memory /\ Durable /\ Ghosts /\ Calling
  BY TypeParts
<1>1. pc = "up" /\ UNCHANGED <<log, snapshot, ckpt, pc, applied, gapped>>
  BY DEF Write, CreateBranch, DiscardBranch, Merge, Release, Shutdown, Idle, disk, store, ghosts
<1>2. FilesCount /\ MemoryCounts
  BY <1>1 DEF CountInv
<1>3. FilesCount' /\ ReplayCounts'
  BY <1>1, <1>2 DEF FilesCount, ReplayCounts
<1>4. \A b \in Branches : views'[b] \subseteq 1 .. Len(log)
  <2>1. \A b \in Branches : views[b] \subseteq 1 .. Len(log)
    BY <1>1, <1>2 DEF MemoryCounts, Folding
  <2>2. ASSUME NEW name \in Names, DiscardBranch(name)
        PROVE  \A b \in Branches : views'[b] \subseteq 1 .. Len(log)
    <3>1. views' = [views EXCEPT ![byName[name]] = {}] /\ views \in [Branches -> SUBSET Nat]
      BY <1>0, <2>2 DEF DiscardBranch, Memory
    <3> QED BY <2>1, <3>1
  <2>3. ASSUME ~ \E name \in Names : DiscardBranch(name)
        PROVE  views' = views
    BY <2>3 DEF Write, CreateBranch, Merge, Release, Shutdown, store
  <2> QED BY <2>1, <2>2, <2>3
<1>5. ASSUME NEW n \in DOMAIN todo', todo'[n].do = "install"
      PROVE  todo'[n].incs \subseteq 1 .. Len(log')
  <2>1. CASE \E s, t \in Branches : Merge(s, t)
    <3>1. PICK s \in Branches, t \in Branches : Merge(s, t)
      BY <2>1
    <3>2. todo'[n].incs \subseteq views[s] \cup views[t]
      BY <1>5, <3>1, MergeTodo
    <3>3. views[s] \subseteq 1 .. Len(log) /\ views[t] \subseteq 1 .. Len(log)
      BY <1>1, <1>2 DEF MemoryCounts, Folding
    <3> QED BY <1>1, <3>2, <3>3
  <2>2. CASE \E b \in Branches : Write(b)
    <3>1. PICK b \in Branches : Write(b)
      BY <2>2
    <3>2. todo' = <<Appending(b, "put", ZERO, NoName, b)>> \/ todo' = <<Appending(b, "inc", ZERO, NoName, b)>>
      BY <3>1 DEF Write
    <3> QED BY <1>5, <3>2 DEF Appending
  <2>3. CASE \E name \in Names, b \in Branches : CreateBranch(name, b)
    <3>1. PICK name \in Names, b \in Branches : CreateBranch(name, b)
      BY <2>3
    <3>2. todo' = <<Appending(nextBranch, "branch", heads[b], name, b)>>
      BY <3>1 DEF CreateBranch
    <3> QED BY <1>5, <3>2 DEF Appending
  <2>4. CASE Shutdown
    <3>1. todo' = <<Snapshot, Checkpoint, Stop>>
      BY <2>4 DEF Shutdown
    <3> QED BY <1>5, <3>1 DEF Snapshot, Checkpoint, Stop
  <2>5. CASE (\E name \in Names : DiscardBranch(name)) \/ Release
    <3>1. todo' = todo /\ todo = <<>>
      BY <2>5 DEF DiscardBranch, Release, Idle
    <3> QED BY <1>5, <3>1
  <2> QED BY <2>1, <2>2, <2>3, <2>4, <2>5
<1>6. applied' = Folding' /\ Folding' = Len(log')
  BY <1>1, <1>2 DEF MemoryCounts, Folding
<1> QED BY <1>1, <1>3, <1>4, <1>5, <1>6 DEF MemoryCounts

LEMMA CountProcess ==
    ASSUME TypeInv, CountInv,
           \/ Halt \/ Crash \/ LoseSnapshot \/ Open \/ ReplayEntry \/ Refuse \/ Ready
    PROVE  CountInv'
<1> SUFFICES ASSUME ~gapped' PROVE FilesCount' /\ MemoryCounts' /\ ReplayCounts'
  BY DEF CountInv
<1>0. Memory /\ Durable /\ Ghosts /\ Calling
  BY TypeParts
<1>1. ~gapped /\ log' = log /\ ckpt' = ckpt
  <2>1. UNCHANGED <<log, ckpt>>
    BY DEF Halt, Crash, Stopped, LoseSnapshot, Open, ReplayEntry, Refuse, Ready, disk
  <2>2. gapped' = gapped \/ gapped' = (gapped \/ (~Resumable /\ released > 0))
    BY DEF Halt, Crash, Stopped, LoseSnapshot, Open, ReplayEntry, Refuse, Ready, ghosts
  <2>3. ~gapped
    BY <2>2, Zenon
  <2> QED BY <2>1, <2>3
<1>2. FilesCount /\ MemoryCounts /\ ReplayCounts
  BY <1>1 DEF CountInv
<1>3. CASE Halt \/ Crash \/ Refuse \/ LoseSnapshot
  <2>1. pc' = "down" /\ (snapshot' = snapshot \/ snapshot' = NoSnapshot)
    BY <1>3 DEF Halt, Crash, Stopped, Refuse, LoseSnapshot, disk
  <2>2. FilesCount'
    BY <1>1, <1>2, <2>1 DEF FilesCount, NoSnapshot
  <2> QED BY <2>1, <2>2 DEF MemoryCounts, ReplayCounts
<1>4. CASE Open
  <2>1. /\ pc = "down" /\ pc' = "replaying" /\ UNCHANGED <<snapshot, todo, started, known, heads>>
        /\ views' = IF Resumable THEN snapshot.views ELSE NoViews
        /\ applied' = FromApplied
        /\ fromGenesis' = (FromApplied = 0)
        /\ cursor' = IF Resumable THEN ckpt.pos ELSE released
        /\ ~(~Resumable /\ released > 0)
    BY <1>4 DEF Open, disk
  <2>2. Nothing /\ released \in Nat /\ ckpt.pos \in Nat
    BY <1>0, <2>1 DEF Calling, Durable
  <2>3. Resumable' = Resumable /\ Base' = Base
    BY <1>1, <2>1 DEF Resumable, Base
  <2>4. cursor' = Base /\ applied' = Base
    BY <1>2, <2>1, <2>2 DEF Base, FromApplied, FilesCount
  <2>5. \A b \in Branches : views'[b] \subseteq 1 .. Base
    <3>1. CASE Resumable
      <4>1. snapshot.there /\ snapshot.applied = ckpt.pos /\ views' = snapshot.views
        BY <1>2, <2>1, <3>1 DEF Resumable, FilesCount
      <4> QED BY <1>2, <3>1, <4>1 DEF FilesCount, Base
    <3>2. CASE ~Resumable
      BY <2>1, <3>2 DEF NoViews
    <3> QED BY <3>1, <3>2
  <2>6. Base \in Nat /\ (fromGenesis' <=> Base = 0)
    BY <1>2, <2>1, <2>2 DEF Base, FromApplied, FilesCount
  <2>7. known' = Base' + 1 .. cursor'
    BY <2>1, <2>2, <2>3, <2>4, <2>6 DEF Nothing
  <2>8. ReplayCounts'
    <3>1. \A b \in Branches : heads'[b] = ZERO
      BY <2>1, <2>2 DEF Nothing
    <3>2. Base' <= cursor'
      BY <2>3, <2>4, <2>6
    <3> QED BY <2>3, <2>6, <2>7, <3>1, <3>2 DEF ReplayCounts
  <2>9. MemoryCounts'
    <3>1. Folding' = Base /\ todo' = <<>>
      BY <2>1, <2>2, <2>4 DEF Folding, Nothing
    <3> QED BY <2>4, <2>5, <3>1 DEF MemoryCounts
  <2>10. FilesCount'
    BY <1>1, <1>2, <2>1 DEF FilesCount
  <2> QED BY <2>8, <2>9, <2>10
<1>5. CASE ReplayEntry
  <2> DEFINE i == cursor + 1
  <2> DEFINE e == log[i]
  <2>1. /\ pc = "replaying" /\ pc' = pc /\ i <= Len(log)
        /\ cursor' = i /\ known' = known \cup {i}
        /\ heads' = [heads EXCEPT ![e.branch] = i]
        /\ views' = Folded(e, i) /\ applied' = applied + 1
        /\ UNCHANGED <<snapshot, todo, fromGenesis>>
    BY <1>5 DEF ReplayEntry, HeadsWith, disk
  <2>2. e \in Entry /\ cursor \in Nat
    <3>1. cursor \in Nat /\ Len(log) \in Nat /\ log \in Seq(Entry)
      BY <1>0 DEF Memory, Durable
    <3> QED BY <2>1, <3>1
  <2>3. Base' = Base /\ Base \in Nat
    BY <1>0, <1>1, <2>1 DEF Base, Resumable, Durable
  <2>4. applied = cursor /\ \A b \in Branches : views[b] \subseteq 1 .. cursor
    BY <1>2, <2>1 DEF MemoryCounts, Folding
  <2>5. \A b \in Branches : views'[b] \subseteq 1 .. i
    BY <1>0, <2>1, <2>2, <2>4, FoldedCounts
  <2>6. todo' = <<>>
    BY <1>0, <2>1 DEF Calling
  <2>7. MemoryCounts'
    BY <2>1, <2>2, <2>4, <2>5, <2>6 DEF MemoryCounts, Folding
  <2>8. Base <= cursor /\ known = Base + 1 .. cursor /\ (fromGenesis <=> Base = 0)
    BY <1>2, <2>1 DEF ReplayCounts
  <2>9. \A b \in Branches : heads'[b] = ZERO \/ heads'[b] > Base
    <3>1. heads \in [Branches -> {ZERO} \cup DOMAIN log] /\ i > Base
      BY <1>0, <2>2, <2>3, <2>8 DEF Memory
    <3>2. \A b \in Branches : heads[b] = ZERO \/ heads[b] > Base
      BY <1>2, <2>1 DEF ReplayCounts
    <3> QED BY <2>1, <3>1, <3>2
  <2>10. known' = Base' + 1 .. cursor' /\ Base' <= cursor'
    BY <2>1, <2>2, <2>3, <2>8
  <2>11. ReplayCounts'
    BY <2>1, <2>3, <2>8, <2>9, <2>10 DEF ReplayCounts
  <2>12. FilesCount'
    BY <1>1, <1>2, <2>1 DEF FilesCount
  <2> QED BY <2>7, <2>11, <2>12
<1>6. CASE Ready
  <2>1. pc = "replaying" /\ pc' = "up" /\ cursor = Len(log) /\ UNCHANGED <<snapshot, todo, applied, views>>
    BY <1>6 DEF Ready, disk, store
  <2>2. applied = Len(log) /\ \A b \in Branches : views[b] \subseteq 1 .. Len(log)
    BY <1>2, <2>1 DEF MemoryCounts, Folding
  <2>3. todo' = <<>>
    BY <1>0, <2>1 DEF Calling
  <2> QED BY <1>1, <1>2, <2>1, <2>2, <2>3 DEF FilesCount, MemoryCounts, ReplayCounts, Folding
<1> QED BY <1>3, <1>4, <1>5, <1>6

LEMMA CountStep == TypeInv /\ CountInv /\ [Next]_vars => CountInv'
<1> SUFFICES ASSUME TypeInv, CountInv, [Next]_vars PROVE CountInv'
  OBVIOUS
<1>1. CASE UNCHANGED vars
  <2>1. UNCHANGED <<log, snapshot, ckpt, pc, todo, cursor, fromGenesis, known, heads, applied, views, gapped>>
    BY <1>1 DEF vars, disk, recovery, store, ghosts
  <2>2. Base' = Base /\ Folding' = Folding
    BY <2>1 DEF Base, Resumable, Folding
  <2>3. FilesCount' = FilesCount
    BY <2>1 DEF FilesCount
  <2>4. MemoryCounts' = MemoryCounts
    BY <2>1, <2>2 DEF MemoryCounts
  <2>5. ReplayCounts' = ReplayCounts
    BY <2>1, <2>2 DEF ReplayCounts
  <2> QED BY <2>1, <2>3, <2>4, <2>5 DEF CountInv
<1>2. CASE Next
  BY <1>2, CountAppend, CountCall, CountCalls, CountProcess DEF Next
<1> QED BY <1>1, <1>2

LEMMA CountInit == Init => CountInv
<1> SUFFICES ASSUME Init PROVE CountInv
  OBVIOUS
<1>1. pc = "down" /\ snapshot = NoSnapshot /\ ckpt = Genesis
  BY DEF Init
<1> QED BY <1>1 DEF CountInv, FilesCount, MemoryCounts, ReplayCounts, NoSnapshot, Genesis

(* However often the store was opened, from whichever snapshot, a running one  *)
(* has counted every durable entry once, and a snapshot whose count equals the *)
(* checkpoint's shows no entry above the checkpoint (durable.rs, open).        *)
THEOREM CountsAreRight == Spec => []CountsMeanPrefixes
<1>1. ASSUME TypeInv, CountInv PROVE CountsMeanPrefixes
  <2>1. AppliedCountsLog
    BY <1>1 DEF AppliedCountsLog, CountInv, MemoryCounts, Folding
  <2>2. ASSUME snapshot.there, snapshot.applied = ckpt.applied, ~gapped
        PROVE  /\ ckpt.pos = ckpt.applied
               /\ UNION {snapshot.views[b] : b \in Branches} \subseteq 1 .. ckpt.pos
    <3>1. ckpt.pos = ckpt.applied /\ \A b \in Branches : snapshot.views[b] \subseteq 1 .. ckpt.pos
      BY <1>1, <2>2 DEF CountInv, FilesCount
    <3> QED BY <3>1
  <2> QED BY <2>1, <2>2 DEF CountsMeanPrefixes, ResumesAtPrefix
<1> QED BY <1>1, TypeInit, TypeStep, CountInit, CountStep, PTL DEF Spec

-----------------------------------------------------------------------------
(* Linking. *)

(* The registry of branches: ids are given in order.                          *)
LEMMA RegistryAppend ==
    ASSUME TypeInv, RegistryInv, AppendEntry
    PROVE  RegistryInv'
<1>0. Strayless' => Strayless
  BY StraylessBack, TypeParts DEF Next, Ghosts
<1>1. UNCHANGED <<branches, nextBranch>>
  BY Appended DEF registry
<1>2. ASSUME AppendsRegistered, NEW n \in DOMAIN todo', todo'[n].do = "append"
      PROVE  branches'[todo'[n].branch].live
  <2>1. \/ todo'[n] = Snapshot \/ todo'[n] = Checkpoint \/ todo'[n] = Advance(Head(todo).branch)
        \/ \E m \in DOMAIN todo : todo'[n] = todo[m]
    BY NewTodo
  <2>2. PICK m \in DOMAIN todo : todo'[n] = todo[m]
    <3>1. Snapshot.do # "append" /\ Checkpoint.do # "append" /\ Advance(Head(todo).branch).do # "append"
      BY DEF Snapshot, Checkpoint, Advance
    <3> QED BY <1>2, <2>1, <3>1
  <2> QED BY <1>1, <1>2, <2>2 DEF AppendsRegistered, Registered
<1> QED BY <1>0, <1>1, <1>2 DEF RegistryInv, LiveBelowNext, AppendsRegistered, Registered

LEMMA RegistryCall ==
    ASSUME TypeInv, RegistryInv,
           \/ AppendFails \/ AdvanceHead \/ WriteSnapshot \/ WriteCheckpoint
           \/ CheckpointFails \/ InstallStates
    PROVE  RegistryInv'
<1>0. todo # <<>> /\ todo \in Seq(Steps) /\ branches \in [Branches -> Branch]
  BY TypeParts DEF Calling, Memory, AppendFails, AdvanceHead, WriteSnapshot, WriteCheckpoint, CheckpointFails,
         InstallStates, Step
<1>a. Strayless' => Strayless
  BY StraylessBack, TypeParts DEF Next, Ghosts
<1>1. nextBranch' = nextBranch
  BY DEF AppendFails, AdvanceHead, WriteSnapshot, WriteCheckpoint, CheckpointFails, InstallStates, registry
<1>2. \A b \in Branches : branches'[b].live = branches[b].live
  <2>1. CASE AdvanceHead
    <3>1. PICK c \in Branches : branches' = branches \/ branches' = [branches EXCEPT ![c].next = @ + 1]
      <4>1. Head(todo) \in Advances
        BY <1>0, <2>1, StepKinds, TodoSteps DEF AdvanceHead, Step
      <4>2. Head(todo).branch \in Branches
        BY <4>1 DEF Advances
      <4> QED BY <2>1, <4>2 DEF AdvanceHead
    <3>2. ASSUME NEW b \in Branches PROVE [branches[b] EXCEPT !.next = @ + 1].live = branches[b].live
      <4>1. branches[b] \in Branch
        BY <1>0
      <4> QED BY <4>1 DEF Branch
    <3> QED BY <1>0, <3>1, <3>2
  <2>2. CASE ~AdvanceHead
    BY <2>2 DEF AppendFails, WriteSnapshot, WriteCheckpoint, CheckpointFails, InstallStates, registry
  <2> QED BY <2>1, <2>2
<1>3. \A n \in DOMAIN todo' : todo'[n].do = "append" => \E m \in DOMAIN todo : todo'[n] = todo[m]
  <2>1. todo' = <<>> \/ todo' = Tail(todo) \/ todo' = <<Stop>>
    BY DEF AppendFails, AdvanceHead, WriteSnapshot, WriteCheckpoint, CheckpointFails, InstallStates
  <2>2. CASE todo' = Tail(todo)
    BY <1>0, <2>2, TodoSteps
  <2>3. CASE todo' = <<>> \/ todo' = <<Stop>>
    BY <2>3 DEF Stop
  <2> QED BY <2>1, <2>2, <2>3
<1>4. ASSUME AppendsRegistered PROVE AppendsRegistered'
  <2> SUFFICES ASSUME NEW n \in DOMAIN todo', todo'[n].do = "append"
               PROVE  branches'[todo'[n].branch].live
    BY DEF AppendsRegistered, Registered
  <2>1. PICK m \in DOMAIN todo : todo'[n] = todo[m]
    BY <1>3
  <2>2. todo[m].do = "append" /\ todo[m] \in Steps
    BY <1>0, <2>1
  <2>3. todo[m].branch \in Branches
    BY <2>2, StepKinds DEF Appends
  <2>4. branches[todo[m].branch].live
    BY <1>4, <2>2 DEF AppendsRegistered, Registered
  <2> QED BY <1>2, <2>1, <2>3, <2>4
<1> QED BY <1>1, <1>2, <1>4, <1>a DEF RegistryInv, LiveBelowNext, Registered

LEMMA RegistryCalls ==
    ASSUME TypeInv, RegistryInv,
           \/ \E b \in Branches : Write(b)
           \/ \E name \in Names, b \in Branches : CreateBranch(name, b)
           \/ \E name \in Names : DiscardBranch(name)
           \/ \E s, t \in Branches : Merge(s, t)
           \/ Release \/ Shutdown
    PROVE  RegistryInv'
<1>0. branches \in [Branches -> Branch] /\ byName \in [Names -> Branches] /\ nextBranch \in Nat
  BY TypeParts DEF Memory
<1>a. Strayless' => Strayless
  BY StraylessBack, TypeParts DEF Next, Ghosts
<1>1. CASE \E b \in Branches : Write(b)
  <2>1. PICK b \in Branches : Write(b)
    BY <1>1
  <2>2. UNCHANGED <<branches, nextBranch>>
    BY <2>1 DEF Write, registry
  <2>3. ASSUME Strayless' PROVE Registered(b)
    <3>1. ~Count("strays", MaxStrays)
      BY <2>3, TypeParts DEF Count, Ghosts, Bounds, Strayless
    <3> QED BY <2>1, <3>1 DEF Write
  <2>4. todo' = <<Appending(b, "put", ZERO, NoName, b)>> \/ todo' = <<Appending(b, "inc", ZERO, NoName, b)>>
    BY <2>1 DEF Write
  <2>5. DOMAIN todo' = {1} /\ todo'[1].branch = b
    BY <2>4 DEF Appending
  <2> QED BY <1>a, <2>2, <2>3, <2>5 DEF RegistryInv, LiveBelowNext, AppendsRegistered, Registered
<1>2. CASE \E name \in Names, b \in Branches : CreateBranch(name, b)
  <2>1. PICK name \in Names, parent \in Branches : CreateBranch(name, parent)
    BY <1>2
  <2> DEFINE new == [live |-> TRUE, name |-> name, fork |-> heads[parent], next |-> 0]
  <2>2. /\ nextBranch <= MaxBranch
        /\ branches' = [branches EXCEPT ![nextBranch] = new]
        /\ nextBranch' = nextBranch + 1
        /\ todo' = <<Appending(nextBranch, "branch", heads[parent], name, parent)>>
    BY <2>1 DEF CreateBranch
  <2>3. nextBranch \in Branches /\ new.live = TRUE
    BY <1>0, <2>2
  <2> HIDE DEF new
  <2>4. LiveBelowNext'
    <3>1. \A b \in Branches : b # nextBranch => branches'[b] = branches[b]
      BY <1>0, <2>2
    <3> QED BY <1>0, <2>2, <3>1 DEF RegistryInv, LiveBelowNext, Registered
  <2>5. DOMAIN todo' = {1} /\ todo'[1].branch = nextBranch
    BY <2>2 DEF Appending
  <2>6. branches'[nextBranch].live
    BY <1>0, <2>2, <2>3
  <2> QED BY <1>0, <1>a, <2>2, <2>4, <2>5, <2>6 DEF RegistryInv, AppendsRegistered, Registered
<1>3. CASE \E name \in Names : DiscardBranch(name)
  <2>1. PICK name \in Names : DiscardBranch(name)
    BY <1>3
  <2>2. /\ branches' = [branches EXCEPT ![byName[name]] = Absent]
        /\ UNCHANGED nextBranch /\ todo' = <<>>
    BY <2>1 DEF DiscardBranch, Idle
  <2>3. \A b \in Branches : branches'[b].live => branches[b].live
    BY <1>0, <2>2 DEF Absent
  <2> QED BY <1>a, <2>2, <2>3 DEF RegistryInv, LiveBelowNext, AppendsRegistered, Registered
<1>4. CASE \E s, t \in Branches : Merge(s, t)
  <2>1. PICK s \in Branches, t \in Branches : Merge(s, t)
    BY <1>4
  <2>2. UNCHANGED <<branches, nextBranch>> /\ Registered(t)
    BY <2>1 DEF Merge, registry
  <2>6. \A n \in DOMAIN todo' : todo'[n].branch = t
    BY <2>1, MergeTodo
  <2> QED BY <1>a, <2>2, <2>6 DEF RegistryInv, LiveBelowNext, AppendsRegistered, Registered
<1>5. CASE Release
  <2>1. UNCHANGED <<branches, nextBranch, todo>>
    BY <1>5 DEF Release, registry
  <2> QED BY <1>a, <2>1 DEF RegistryInv, LiveBelowNext, AppendsRegistered, Registered
<1>6. CASE Shutdown
  <2>1. UNCHANGED <<branches, nextBranch>> /\ todo' = <<Snapshot, Checkpoint, Stop>>
    BY <1>6 DEF Shutdown, registry
  <2>2. \A n \in DOMAIN todo' : todo'[n].do # "append"
    BY <2>1 DEF Snapshot, Checkpoint, Stop
  <2> QED BY <1>a, <2>1, <2>2 DEF RegistryInv, LiveBelowNext, AppendsRegistered, Registered
<1> QED BY <1>1, <1>2, <1>3, <1>4, <1>5, <1>6

(* A process that holds nothing has its main branch alone.                    *)
LEMMA RegistryNothing == Nothing => RegistryInv
<1> SUFFICES ASSUME Nothing PROVE RegistryInv
  OBVIOUS
<1>1. branches = MainOnly /\ nextBranch = 1 /\ todo = <<>>
  BY DEF Nothing
<1>2. \A b \in Branches : branches[b].live => b = Main
  BY <1>1 DEF MainOnly, Absent
<1> QED BY <1>1, <1>2 DEF RegistryInv, LiveBelowNext, AppendsRegistered, Registered

LEMMA RegistryProcess ==
    ASSUME TypeInv, RegistryInv,
           \/ Halt \/ Crash \/ LoseSnapshot \/ Open \/ ReplayEntry \/ Refuse \/ Ready
    PROVE  RegistryInv'
<1>0. Memory /\ Durable /\ Ghosts /\ Calling
  BY TypeParts
<1>a. Strayless' => Strayless
  BY <1>0, StraylessBack DEF Next, Ghosts
<1>1. CASE Halt \/ Crash \/ Refuse
  <2>1. Forget
    BY <1>1 DEF Halt, Crash, Stopped, Refuse
  <2>2. Nothing'
    BY <2>1 DEF Nothing, Forget
  <2>3. Nothing' => RegistryInv'
    BY RegistryNothing, PTL
  <2> QED BY <2>2, <2>3
<1>2. CASE LoseSnapshot \/ Open
  <2>1. UNCHANGED <<branches, nextBranch, todo>>
    BY <1>2 DEF LoseSnapshot, Open, registry
  <2> QED BY <1>a, <2>1 DEF RegistryInv, LiveBelowNext, AppendsRegistered, Registered
<1>3. CASE ReplayEntry
  <2> DEFINE i == cursor + 1
  <2> DEFINE e == log[i]
  <2>1. /\ pc = "replaying" /\ i <= Len(log)
        /\ branches' = Restored(e).ids /\ nextBranch' = Restored(e).next /\ todo' = todo
    BY <1>3 DEF ReplayEntry
  <2>2. e.branch \in Branches /\ todo = <<>>
    <3>1. cursor \in Nat /\ Len(log) \in Nat /\ log \in Seq(Entry) /\ todo = <<>>
      BY <1>0, <2>1 DEF Memory, Durable, Calling
    <3>2. e \in Entry
      BY <2>1, <3>1
    <3> QED BY <3>1, <3>2 DEF Entry
  <2> HIDE DEF e
  <2>3. nextBranch' >= nextBranch /\ nextBranch' \in Nat /\ nextBranch \in Nat
        /\ (e.op = "branch" => nextBranch' > e.branch)
    BY <1>0, <2>1, <2>2 DEF Restored, Memory
  <2>4. \A b \in Branches : branches'[b].live => branches[b].live \/ (e.op = "branch" /\ b = e.branch)
    BY <1>0, <2>1, <2>2 DEF Restored, Memory
  <2>5. LiveBelowNext'
    BY <2>2, <2>3, <2>4 DEF RegistryInv, LiveBelowNext, Registered
  <2> QED BY <1>a, <2>1, <2>2, <2>3, <2>5 DEF RegistryInv, AppendsRegistered
<1>4. CASE Ready
  <2>1. /\ UNCHANGED <<todo, nextBranch>>
        /\ branches' = [b \in Branches |-> IF branches[b].live /\ heads[b] # ZERO
                                       THEN [branches[b] EXCEPT !.next = @ + 1] ELSE branches[b]]
        /\ todo = <<>>
    BY <1>0, <1>4 DEF Ready, Calling
  <2>2. ASSUME NEW b \in Branches PROVE branches'[b].live = branches[b].live
    <3>1. branches[b] \in Branch
      BY <1>0 DEF Memory
    <3>2. [branches[b] EXCEPT !.next = @ + 1].live = branches[b].live
      BY <3>1 DEF Branch
    <3> QED BY <2>1, <3>2
  <2> QED BY <1>a, <2>1, <2>2 DEF RegistryInv, LiveBelowNext, AppendsRegistered, Registered
<1> QED BY <1>1, <1>2, <1>3, <1>4

-----------------------------------------------------------------------------

LEMMA PrevEarlierStep == TypeInv /\ PrevEarlier /\ [Next]_vars => PrevEarlier'
<1> SUFFICES ASSUME TypeInv, PrevEarlier, [Next]_vars PROVE PrevEarlier'
  OBVIOUS
<1>1. CASE AppendEntry
  <2>1. ASSUME NEW i \in DOMAIN log' PROVE log'[i].prev < i
    <3>1. CASE i \in DOMAIN log
      BY <1>1, <3>1, LogGrows DEF PrevEarlier
    <3>2. CASE i = Len(log) + 1
      <4>1. log'[i].prev = heads[Head(todo).branch] /\ Head(todo).branch \in Branches
        BY <1>1, <3>2, LogGrows, NewEntryTyped, Appended DEF Appends
      <4>2. heads \in [Branches -> {ZERO} \cup DOMAIN log]
        BY TypeParts DEF Memory
      <4> QED BY <1>1, <3>2, <4>1, <4>2, LogGrows
    <3> QED BY <1>1, <3>1, <3>2, LogGrows
  <2> QED BY <2>1 DEF PrevEarlier
<1>2. CASE log' = log
  BY <1>2 DEF PrevEarlier
<1>3. AppendEntry \/ log' = log
  BY DEF Next, vars, disk, AppendFails, AdvanceHead, WriteSnapshot, WriteCheckpoint, CheckpointFails,
         InstallStates, Write, CreateBranch, DiscardBranch, Merge, Release, Shutdown, Halt, Crash,
         Stopped, LoseSnapshot, Open, ReplayEntry, Refuse, Ready
<1> QED BY <1>1, <1>2, <1>3

LEMMA StartedReadStep == TypeInv /\ StartedRead /\ [Next]_vars => StartedRead'
<1> SUFFICES ASSUME TypeInv, StartedRead, [Next]_vars, pc' = "replaying"
             PROVE  \A b \in started' : \E j \in known' : log'[j].branch = b
  BY DEF StartedRead
<1>0. Memory /\ Durable /\ Ghosts /\ Calling
  BY TypeParts
<1>1. CASE Open
  <2>1. started' = started /\ pc = "down"
    BY <1>1 DEF Open
  <2> QED BY <1>0, <2>1 DEF Calling, Nothing
<1>2. CASE ReplayEntry
  <2>1. /\ started' = started \cup {log[cursor + 1].branch} /\ known' = known \cup {cursor + 1}
        /\ log' = log /\ pc = "replaying"
    BY <1>2 DEF ReplayEntry, disk
  <2> QED BY <2>1 DEF StartedRead
<1>3. CASE UNCHANGED vars
  BY <1>3 DEF vars, disk, recovery, store, StartedRead
<1>4. Open \/ ReplayEntry \/ UNCHANGED vars
  <2>1. CASE pc = "up" /\ pc' # "up" /\ pc' # "down"
    BY <2>1 DEF Next, vars, AppendEntry, AppendFails, AdvanceHead, WriteSnapshot, WriteCheckpoint,
                CheckpointFails, InstallStates, Write, CreateBranch, DiscardBranch, Merge, Release,
                Shutdown, Halt, Crash, Stopped, LoseSnapshot, Open, ReplayEntry, Refuse, Ready
  <2> QED BY <2>1 DEF Next, AppendEntry, AppendFails, AdvanceHead, WriteSnapshot, WriteCheckpoint,
                CheckpointFails, InstallStates, Write, CreateBranch, DiscardBranch, Merge, Release,
                Shutdown, Halt, Crash, Stopped, LoseSnapshot, Refuse, Ready, Step, Idle
<1> QED BY <1>1, <1>2, <1>3, <1>4

LEMMA SnapshotFirstStep == TypeInv /\ SnapshotFirst /\ [Next]_vars => SnapshotFirst'
<1> SUFFICES ASSUME TypeInv, SnapshotFirst, [Next]_vars PROVE SnapshotFirst'
  OBVIOUS
<1>0. Memory /\ Durable /\ Ghosts /\ Calling /\ bounds.ckpts \in Nat
  BY TypeParts DEF Ghosts, Bounds
<1> DEFINE Call == \/ AppendFails \/ AdvanceHead \/ WriteSnapshot \/ WriteCheckpoint
                   \/ CheckpointFails \/ InstallStates
<1>1. bounds'.ckpts \in Nat /\ bounds'.ckpts >= bounds.ckpts
  <2>1. bounds' \in Bounds /\ \A k \in DOMAIN bounds : bounds'[k] >= bounds[k]
    BY <1>0, BoundsGrow DEF Ghosts
  <2>2. "ckpts" \in DOMAIN bounds
    BY <1>0 DEF Ghosts, Bounds
  <2> QED BY <2>1, <2>2 DEF Bounds
<1>2. CASE AppendEntry
  <2>1. ckpt' = ckpt /\ todo[1].do = "append"
    BY <1>0, <1>2, Appended, TodoSteps DEF Step, Calling
  <2>2. ASSUME NEW n \in DOMAIN todo', todo'[n].do = "checkpoint"
        PROVE  n # 1 /\ todo'[n - 1].do = "snapshot"
    <3> DEFINE a == Advance(Head(todo).branch)
    <3>1. a.do = "advance" /\ Snapshot.do = "snapshot"
      BY DEF Advance, Snapshot
    <3> HIDE DEF a
    <3>2. \/ n = 1 /\ todo'[n] = Snapshot
          \/ n = 2 /\ todo'[1] = Snapshot /\ todo'[2] = Checkpoint
          \/ todo'[n] = a
          \/ \E m \in DOMAIN todo : /\ m > 1 /\ n > 1 /\ todo'[n] = todo[m]
                                    /\ (m > 2 => todo'[n - 1] = todo[m - 1])
      BY <1>2, NewTodo DEF a
    <3>3. CASE n = 2 /\ todo'[1] = Snapshot
      BY <3>1, <3>3
    <3>4. CASE \E m \in DOMAIN todo : /\ m > 1 /\ n > 1 /\ todo'[n] = todo[m]
                                      /\ (m > 2 => todo'[n - 1] = todo[m - 1])
      <4>1. PICK m \in DOMAIN todo : /\ m > 1 /\ n > 1 /\ todo'[n] = todo[m]
                                     /\ (m > 2 => todo'[n - 1] = todo[m - 1])
        BY <3>4
      <4>2. m \in Nat /\ n > 1
        BY <1>0, <4>1 DEF Calling
      <4>3. todo[m - 1].do = "snapshot"
        BY <2>2, <4>1, <4>2 DEF SnapshotFirst
      <4>4. m # 2
        BY <2>1, <4>3
      <4> QED BY <4>1, <4>2, <4>3, <4>4
    <3> QED BY <2>2, <3>1, <3>2, <3>3, <3>4
  <2> QED BY <1>0, <1>1, <2>1, <2>2 DEF SnapshotFirst
<1>3. CASE Call
  <2>1. todo # <<>> /\ todo \in Seq(Steps) /\ todo[1] = Head(todo)
    BY <1>0, <1>3, TodoSteps DEF Calling, AppendFails, AdvanceHead, WriteSnapshot, WriteCheckpoint,
                      CheckpointFails, InstallStates, Step
  <2>2. ASSUME ckpt'.pos > 0 PROVE bounds'.ckpts > 0
    <3>1. CASE Step("checkpoint")
      <4>1. todo[1].do = "checkpoint" /\ 1 \in DOMAIN todo
        BY <2>1, <3>1 DEF Step
      <4> QED BY <1>0, <1>1, <4>1 DEF SnapshotFirst
    <3>2. CASE ~Step("checkpoint")
      <4>1. ckpt' = ckpt
        BY <1>3, <3>2 DEF AppendFails, AdvanceHead, WriteSnapshot, WriteCheckpoint, CheckpointFails,
                          InstallStates, disk
      <4> QED BY <1>0, <1>1, <2>2, <4>1 DEF SnapshotFirst
    <3> QED BY <3>1, <3>2
  <2>3. ASSUME NEW n \in DOMAIN todo', todo'[n].do = "checkpoint"
        PROVE  IF n = 1 THEN bounds'.ckpts > 0 ELSE todo'[n - 1].do = "snapshot"
    <3>1. todo' = <<>> \/ todo' = Tail(todo) \/ todo' = <<Stop>>
      BY <1>3 DEF AppendFails, AdvanceHead, WriteSnapshot, WriteCheckpoint, CheckpointFails, InstallStates
    <3>2. todo' = Tail(todo)
      BY <2>3, <3>1 DEF Stop
    <3>3. n + 1 \in DOMAIN todo /\ todo'[n] = todo[n + 1] /\ n \in Nat /\ n > 0
      BY <2>1, <2>3, <3>2, TodoSteps
    <3>4. todo[n].do = "snapshot"
      <4>1. n + 1 # 1 /\ (n + 1) - 1 = n
        BY <3>3
      <4> QED BY <2>3, <3>3, <4>1 DEF SnapshotFirst
    <3>5. CASE n = 1
      <4>1. Head(todo).do = "snapshot"
        BY <2>1, <3>4, <3>5
      <4>2. ~CheckpointFails
        BY <2>3 DEF CheckpointFails, Stop
      <4>3. Count("ckpts", MaxCheckpoints)
        BY <1>3, <4>1, <4>2 DEF AppendFails, AdvanceHead, WriteSnapshot, WriteCheckpoint, InstallStates, Step
      <4> QED BY <1>0, <3>5, <4>3 DEF Count, Ghosts, Bounds
    <3>6. CASE n # 1
      <4>1. n - 1 \in DOMAIN Tail(todo)
        BY <2>1, <2>3, <3>2, <3>3, <3>6
      <4>2. todo'[n - 1] = todo[(n - 1) + 1]
        BY <2>1, <3>2, <4>1, TodoSteps
      <4>3. (n - 1) + 1 = n
        BY <3>3
      <4> QED BY <3>4, <3>6, <4>2, <4>3
    <3> QED BY <3>5, <3>6
  <2> QED BY <2>2, <2>3 DEF SnapshotFirst
<1>4. CASE ~AppendEntry /\ ~Call
  <2>1. ckpt' = ckpt
    BY <1>4 DEF Next, vars, disk, Write, CreateBranch, DiscardBranch, Merge, Release, Shutdown, Halt,
                Crash, Stopped, LoseSnapshot, Open, ReplayEntry, Refuse, Ready
  <2>2. CASE \E s, t \in Branches : Merge(s, t)
    <3>1. PICK s \in Branches, t \in Branches : Merge(s, t)
      BY <2>2
    <3>5. \A n \in DOMAIN todo' : todo'[n].do # "checkpoint"
      BY <3>1, MergeTodo
    <3> QED BY <1>0, <1>1, <2>1, <3>5 DEF SnapshotFirst
  <2>3. CASE \/ \E b \in Branches : Write(b)
             \/ \E name \in Names, b \in Branches : CreateBranch(name, b)
    <3>1. PICK a : todo' = <<a>> /\ a.do = "append"
      BY <2>3 DEF Write, CreateBranch, Appending
    <3>2. \A n \in DOMAIN todo' : todo'[n].do # "checkpoint"
      BY <3>1
    <3> QED BY <1>0, <1>1, <2>1, <3>2 DEF SnapshotFirst
  <2>4. CASE Shutdown
    <3>1. todo' = <<Snapshot, Checkpoint, Stop>>
      BY <2>4 DEF Shutdown
    <3>2. todo'[1].do = "snapshot" /\ todo'[3].do = "stop" /\ DOMAIN todo' = {1, 2, 3}
      BY <3>1 DEF Snapshot, Stop
    <3> QED BY <1>0, <1>1, <2>1, <3>2 DEF SnapshotFirst
  <2>5. CASE todo' = todo \/ todo' = <<>>
    BY <1>0, <1>1, <2>1, <2>5 DEF SnapshotFirst
  <2>6. \/ \E s, t \in Branches : Merge(s, t)
        \/ \E b \in Branches : Write(b)
        \/ \E name \in Names, b \in Branches : CreateBranch(name, b)
        \/ Shutdown
        \/ todo' = todo \/ todo' = <<>>
    BY <1>4 DEF Next, vars, DiscardBranch, Release, Halt, Crash, Stopped, Forget, LoseSnapshot, Open,
                ReplayEntry, Refuse, Ready
  <2> QED BY <2>2, <2>3, <2>4, <2>5, <2>6
<1> QED BY <1>2, <1>3, <1>4

-----------------------------------------------------------------------------

Claimed == MaxStrays = 0 \/ ForkCkpts = 0

(* An append that the head of its branch allows.                              *)
LEMMA WindowAppend ==
    ASSUME TypeInv, RegistryInv, WindowInv, AppendEntry
    PROVE  WindowInv'
<1> DEFINE i == Len(log) + 1
<1> DEFINE b == Head(todo).branch
<1> SUFFICES ASSUME ~gapped'
             PROVE  /\ ~refused'
                    /\ Resumable' => /\ WindowLinks'
                                     /\ HeadsLink'
                                     /\ MaxStrays = 0 => NewIsUnwritten'
  BY Appended DEF WindowInv, Step
<1>1. /\ UNCHANGED <<gapped, refused, snapshot, ckpt, nextBranch, pc>>
      /\ heads' = [heads EXCEPT ![b] = i] /\ pc = "up"
      /\ heads \in [Branches -> {ZERO} \cup DOMAIN log]
      /\ ckpt.pos \in 0 .. Len(log)
  BY Appended, TypeParts DEF Step, Memory, Durable, registry
<1>2. /\ Len(log) \in Nat /\ Len(log') = i /\ b \in Branches
      /\ \A j \in 1 .. Len(log) : log'[j] = log[j]
      /\ log'[i].branch = b /\ log'[i].prev = heads[b]
  BY LogGrows, NewEntryTyped, Appended DEF Appends
<1>3. Resumable' = Resumable
  BY <1>1 DEF Resumable
<1>4. ~refused /\ (Resumable => WindowLinks /\ HeadsLink /\ (MaxStrays = 0 => NewIsUnwritten))
  BY <1>1 DEF WindowInv
<1> HIDE DEF b, i
<1>5. i = Len(log) + 1 /\ i > ckpt.pos
  BY <1>1, <1>2 DEF i
<1>6. ASSUME Resumable PROVE WindowLinks'
  <2> SUFFICES ASSUME NEW k \in ckpt.pos + 1 .. i
               PROVE  \/ log'[k].prev = ZERO
                      \/ log'[k].prev > ckpt.pos
                      \/ \A j \in ckpt.pos + 1 .. k - 1 : log'[j].branch # log'[k].branch
    BY <1>1, <1>2 DEF WindowLinks
  <2>1. CASE k = i
    <3>1. heads[b] = ZERO \/ heads[b] > ckpt.pos \/ Unwritten(b)
      BY <1>2, <1>4, <1>6 DEF HeadsLink
    <3>2. CASE Unwritten(b)
      <4>1. \A j \in ckpt.pos + 1 .. Len(log) : log'[j].branch # b
        BY <1>1, <1>2, <3>2 DEF Unwritten
      <4> QED BY <1>2, <1>5, <2>1, <4>1
    <3> QED BY <1>2, <2>1, <3>1, <3>2
  <2>2. CASE k # i
    <3>1. /\ k \in ckpt.pos + 1 .. Len(log) /\ k \in 1 .. Len(log)
          /\ \A j \in ckpt.pos + 1 .. k - 1 : j \in 1 .. Len(log)
      BY <1>1, <1>2, <1>5, <2>2
    <3> QED BY <1>2, <1>4, <1>6, <3>1 DEF WindowLinks
  <2> QED BY <2>1, <2>2
<1>7. \A j \in ckpt.pos + 1 .. i : j = i \/ (j \in ckpt.pos + 1 .. Len(log) /\ j \in 1 .. Len(log))
  BY <1>1, <1>2, <1>5
<1>8. ASSUME Resumable PROVE HeadsLink'
  <2> SUFFICES ASSUME NEW c \in Branches
               PROVE  \/ heads'[c] = ZERO \/ heads'[c] > ckpt.pos
                      \/ \A j \in ckpt.pos + 1 .. i : log'[j].branch # c
    BY <1>1, <1>2 DEF HeadsLink, Unwritten
  <2>1. CASE c = b
    BY <1>1, <1>2, <1>5, <2>1
  <2>2. CASE c # b
    <3>1. heads'[c] = heads[c]
      BY <1>1, <2>2
    <3>2. heads[c] = ZERO \/ heads[c] > ckpt.pos \/ Unwritten(c)
      BY <1>4, <1>8 DEF HeadsLink
    <3> QED BY <1>2, <1>7, <2>2, <3>1, <3>2 DEF Unwritten
  <2> QED BY <2>1, <2>2
<1>9. ASSUME Resumable, MaxStrays = 0 PROVE NewIsUnwritten'
  <2>1. b < nextBranch
    <3>1. 1 \in DOMAIN todo /\ todo[1].do = "append" /\ todo[1].branch = b
      BY Appended, TodoSteps, TypeParts DEF Step, Calling, b
    <3> QED BY <1>2, <1>9, <3>1 DEF RegistryInv, AppendsRegistered, LiveBelowNext, Strayless
  <2>2. CASE \A c \in Branches : heads[c] = ZERO \/ heads[c] > ckpt.pos
    <3>1. \A c \in Branches : heads'[c] = ZERO \/ heads'[c] > ckpt.pos
      BY <1>1, <1>2, <1>5, <2>2
    <3> QED BY <1>1, <3>1 DEF NewIsUnwritten
  <2>3. CASE \A j \in ckpt.pos + 1 .. Len(log) : log[j].branch < nextBranch
    <3>1. \A j \in ckpt.pos + 1 .. i : log'[j].branch < nextBranch
      BY <1>2, <1>7, <2>1, <2>3
    <3> QED BY <1>1, <1>2, <3>1 DEF NewIsUnwritten
  <2> QED BY <1>4, <1>9, <2>2, <2>3 DEF NewIsUnwritten
<1> QED BY <1>1, <1>3, <1>4, <1>6, <1>8, <1>9

(* A checkpoint leaves no entry above it, and so does a snapshot that meets    *)
(* the checkpoint's count.                                                    *)
LEMMA WindowFile ==
    ASSUME TypeInv, CountInv, WindowInv, WrittenSnapshot \/ WrittenCheckpoint
    PROVE  WindowInv'
<1> SUFFICES ASSUME ~gapped'
             PROVE  /\ ~refused'
                    /\ Resumable' => WindowLinks' /\ HeadsLink' /\ NewIsUnwritten'
  BY DEF WindowInv
<1>0. Memory /\ Durable
  BY TypeParts
<1>1. pc = "up" /\ UNCHANGED <<log, applied, gapped, refused>>
  BY DEF WrittenSnapshot, WrittenCheckpoint, WriteSnapshot, WriteCheckpoint, CheckpointFails, Step,
         store, ghosts
<1>2. ~refused /\ applied = Len(log) /\ ckpt.pos = ckpt.applied
  BY <1>1 DEF WindowInv, CountInv, MemoryCounts, FilesCount, Folding
<1>3. ASSUME Resumable' PROVE ckpt'.pos = Len(log')
  <2>1. CASE WrittenCheckpoint
    BY <1>1, <2>1 DEF WrittenCheckpoint, NewCheckpoint
  <2>2. CASE WrittenSnapshot
    <3>1. ckpt' = ckpt /\ snapshot'.applied = applied
      BY <2>2 DEF WrittenSnapshot, NewSnapshot
    <3> QED BY <1>1, <1>2, <1>3, <3>1 DEF Resumable
  <2> QED BY <2>1, <2>2
<1>4. ASSUME Resumable' PROVE ckpt'.pos + 1 .. Len(log') = {}
  <2>1. Len(log') \in Nat
    BY <1>0, <1>1 DEF Durable
  <2> QED BY <1>3, <1>4, <2>1
<1> QED BY <1>1, <1>2, <1>4 DEF WindowLinks, HeadsLink, NewIsUnwritten, Unwritten

(* Forking.  A new branch has its parent's head: no entry above the checkpoint *)
(* is on it yet, or no checkpoint was ever written.                           *)
LEMMA WindowFork ==
    ASSUME TypeInv, SnapshotFirst, RegistryInv, WindowInv, Claimed,
           NEW name \in Names, NEW parent \in Branches, CreateBranch(name, parent)
    PROVE  WindowInv'
<1> SUFFICES ASSUME ~gapped', Resumable'
             PROVE  WindowLinks' /\ HeadsLink' /\ (MaxStrays = 0 => NewIsUnwritten')
  BY DEF WindowInv, CreateBranch, ghosts
<1>1. /\ pc = "up" /\ UNCHANGED <<log, snapshot, ckpt, gapped, refused>>
      /\ nextBranch <= MaxBranch /\ nextBranch' = nextBranch + 1
      /\ heads' = [heads EXCEPT ![nextBranch] = heads[parent]]
      /\ bounds.ckpts <= ForkCkpts
  BY DEF CreateBranch, Idle, disk, ghosts
<1>2. /\ heads \in [Branches -> {ZERO} \cup DOMAIN log] /\ DOMAIN log \subseteq Nat \ {0}
      /\ nextBranch \in Branches /\ nextBranch \in Nat
      /\ ckpt.pos \in Nat /\ Len(log) \in Nat /\ bounds.ckpts \in Nat
      /\ \A j \in DOMAIN log : log[j].branch \in Nat
  <2>1. /\ heads \in [Branches -> {ZERO} \cup DOMAIN log] /\ log \in Seq(Entry)
        /\ nextBranch \in Nat /\ ckpt.pos \in Nat /\ Len(log) \in Nat /\ bounds.ckpts \in Nat
    <3>1. heads \in [Branches -> {ZERO} \cup DOMAIN log] /\ nextBranch \in Nat
      BY TypeParts DEF Memory
    <3>2. log \in Seq(Entry) /\ ckpt.pos \in Nat
      BY TypeParts DEF Durable
    <3>3. bounds.ckpts \in Nat
      BY TypeParts DEF Ghosts, Bounds
    <3> QED BY <3>1, <3>2, <3>3
  <2>2. \A j \in DOMAIN log : log[j] \in Entry
    BY <2>1
  <2>3. \A j \in DOMAIN log : log[j].branch \in Nat
    BY <2>2 DEF Entry
  <2> QED BY <1>1, <2>1, <2>3
<1>3. Resumable /\ WindowLinks /\ HeadsLink /\ (MaxStrays = 0 => NewIsUnwritten)
  BY <1>1 DEF WindowInv, Resumable
<1>4. WindowLinks'
  BY <1>1, <1>3 DEF WindowLinks
<1>5. CASE \A b \in Branches : heads[b] = ZERO \/ heads[b] > ckpt.pos
  <2>1. \A b \in Branches : heads'[b] = ZERO \/ heads'[b] > ckpt.pos
    BY <1>1, <1>2, <1>5
  <2> QED BY <1>1, <1>4, <2>1 DEF HeadsLink, NewIsUnwritten
<1>6. CASE \A j \in ckpt.pos + 1 .. Len(log) : log[j].branch < nextBranch
  <2>1. Unwritten(nextBranch)
    BY <1>2, <1>6 DEF Unwritten
  <2>2. ASSUME NEW b \in Branches
        PROVE  heads'[b] = ZERO \/ heads'[b] > ckpt.pos \/ Unwritten(b)
    <3>1. CASE b = nextBranch
      BY <2>1, <3>1
    <3>2. CASE b # nextBranch
      <4>1. heads'[b] = heads[b]
        BY <1>1, <1>2, <3>2
      <4> QED BY <1>3, <4>1 DEF HeadsLink
    <3> QED BY <3>1, <3>2
  <2>3. Unwritten(0)' = Unwritten(0) /\ \A b \in Branches : Unwritten(b) = (\A j \in ckpt'.pos + 1 .. Len(log') : log'[j].branch # b)
    BY <1>1 DEF Unwritten
  <2>4. HeadsLink'
    BY <1>1, <2>2, <2>3 DEF HeadsLink, Unwritten
  <2>5. \A j \in ckpt.pos + 1 .. Len(log) : j \in DOMAIN log
    <3>1. log \in Seq(Entry)
      BY TypeParts DEF Durable
    <3> QED BY <1>2, <3>1
  <2>6. \A j \in ckpt.pos + 1 .. Len(log) : log[j].branch < nextBranch + 1
    BY <1>2, <1>6, <2>5
  <2>7. NewIsUnwritten'
    BY <1>1, <2>6 DEF NewIsUnwritten
  <2> QED BY <1>4, <2>4, <2>7
<1>7. \/ \A b \in Branches : heads[b] = ZERO \/ heads[b] > ckpt.pos
      \/ \A j \in ckpt.pos + 1 .. Len(log) : log[j].branch < nextBranch
  <2>1. CASE MaxStrays = 0
    BY <1>3, <2>1 DEF NewIsUnwritten
  <2>2. CASE ForkCkpts = 0
    <3>1. ckpt.pos = 0
      BY <1>1, <1>2, <2>2 DEF SnapshotFirst
    <3> QED BY <1>2, <3>1
  <2> QED BY <2>1, <2>2 DEF Claimed
<1> QED BY <1>5, <1>6, <1>7

(* A replay never meets an entry that does not link.                          *)
LEMMA NeverRefused ==
    ASSUME TypeInv, CountInv, PrevEarlier, StartedRead, WindowInv, ~gapped
    PROVE  ~Refuse
<1> DEFINE i == cursor + 1
<1> DEFINE e == log[i]
<1> SUFFICES ASSUME pc = "replaying", cursor < Len(log) PROVE Links(e)
  BY DEF Refuse
<1>1. /\ cursor \in Nat /\ Len(log) \in Nat /\ log \in Seq(Entry) /\ ckpt.pos \in Nat
      /\ Base \in Nat
  BY TypeParts DEF Memory, Durable, Base
<1>2. i \in DOMAIN log /\ e \in Entry
  <2>1. i \in 1 .. Len(log)
    BY <1>1
  <2> QED BY <1>1, <2>1
<1>3. e.prev \in Nat /\ e.prev < i
  BY <1>2 DEF PrevEarlier, Entry
<1>4. Base <= cursor /\ known = Base + 1 .. cursor /\ (fromGenesis <=> Base = 0)
  BY DEF CountInv, ReplayCounts
<1>5. CASE e.prev = ZERO \/ e.prev > Base
  <2>1. CASE e.prev > Base
    <3>1. e.prev \in known
      BY <1>1, <1>3, <1>4, <2>1
    <3> QED BY <3>1 DEF Links
  <2> QED BY <1>5, <2>1 DEF Links
<1>6. CASE e.prev # ZERO /\ e.prev <= Base
  <2>1. Base # 0 /\ ~fromGenesis
    BY <1>1, <1>3, <1>4, <1>6
  <2>2. Resumable /\ Base = ckpt.pos
    BY <2>1 DEF Base
  <2>3. \A j \in ckpt.pos + 1 .. i - 1 : log[j].branch # e.branch
    <3>1. i \in ckpt.pos + 1 .. Len(log) /\ ~(e.prev > ckpt.pos)
      BY <1>1, <1>3, <1>4, <1>6, <2>2
    <3> QED BY <1>6, <2>2, <3>1 DEF WindowInv, WindowLinks
  <2>4. e.branch \notin started
    <3>1. known = ckpt.pos + 1 .. i - 1
      BY <1>1, <1>4, <2>2
    <3> QED BY <2>3, <3>1 DEF StartedRead
  <2> QED BY <2>1, <2>4 DEF Links
<1> HIDE DEF e
<1> QED BY <1>1, <1>3, <1>5, <1>6

(* The other steps leave the log above the checkpoint, and the heads.         *)
LEMMA WindowProcess ==
    ASSUME TypeInv, CountInv, PrevEarlier, StartedRead, WindowInv,
           \/ Halt \/ Crash \/ LoseSnapshot \/ Open \/ ReplayEntry \/ Refuse \/ Ready
    PROVE  WindowInv'
<1> SUFFICES ASSUME ~gapped'
             PROVE  /\ ~refused'
                    /\ Resumable' => /\ WindowLinks'
                                     /\ pc' = "up" => HeadsLink' /\ NewIsUnwritten'
  BY DEF WindowInv
<1>1. log' = log /\ ckpt' = ckpt /\ (snapshot' = snapshot \/ snapshot' = NoSnapshot)
  BY DEF Halt, Crash, Stopped, LoseSnapshot, Open, ReplayEntry, Refuse, Ready, disk
<1>2. ~gapped
  <2>1. gapped' = gapped \/ gapped' = (gapped \/ (~Resumable /\ released > 0))
    BY DEF Halt, Crash, Stopped, LoseSnapshot, Open, ReplayEntry, Refuse, Ready, ghosts
  <2> QED BY <2>1, Zenon
<1>3. refused' = refused /\ ~refused
  <2>1. ~Refuse
    BY <1>2, NeverRefused
  <2>2. refused' = refused
    BY <2>1 DEF Halt, Crash, Stopped, LoseSnapshot, Open, ReplayEntry, Ready, ghosts
  <2> QED BY <1>2, <2>2 DEF WindowInv
<1>4. Resumable' => Resumable /\ WindowLinks'
  <2>1. Resumable' => Resumable
    BY <1>1 DEF Resumable, NoSnapshot
  <2>2. WindowLinks' = WindowLinks
    BY <1>1 DEF WindowLinks
  <2> QED BY <1>2, <2>1, <2>2 DEF WindowInv
<1>5. ASSUME pc' = "up", Resumable' PROVE HeadsLink' /\ NewIsUnwritten'
  <2>1. Ready
    BY <1>5, TypeParts DEF Halt, Crash, Stopped, LoseSnapshot, Open, ReplayEntry, Refuse
  <2>2. heads' = heads /\ pc = "replaying"
    BY <2>1 DEF Ready, store
  <2>3. \A b \in Branches : heads[b] = ZERO \/ heads[b] > ckpt.pos
    BY <1>2, <1>4, <1>5, <2>2 DEF CountInv, ReplayCounts, Base
  <2> QED BY <1>1, <2>2, <2>3 DEF HeadsLink, NewIsUnwritten
<1> QED BY <1>3, <1>4, <1>5

LEMMA WindowOthers ==
    ASSUME WindowInv, UNCHANGED <<log, snapshot, ckpt, pc, heads, nextBranch, refused, gapped>>
    PROVE  WindowInv'
<1>1. Resumable' = Resumable /\ WindowLinks' = WindowLinks
  BY DEF Resumable, WindowLinks
<1>2. HeadsLink' = HeadsLink /\ NewIsUnwritten' = NewIsUnwritten
  BY DEF HeadsLink, NewIsUnwritten, Unwritten
<1> QED BY <1>1, <1>2 DEF WindowInv

LEMMA RegistryStep == TypeInv /\ RegistryInv /\ [Next]_vars => RegistryInv'
<1> SUFFICES ASSUME TypeInv, RegistryInv, [Next]_vars PROVE RegistryInv'
  OBVIOUS
<1>1. CASE UNCHANGED vars
  <2>1. UNCHANGED <<nextBranch, branches, todo>>
    BY <1>1 DEF vars, registry
  <2>2. Strayless' => Strayless
    BY StraylessBack, TypeParts DEF Ghosts
  <2> QED BY <2>1, <2>2 DEF RegistryInv, LiveBelowNext, AppendsRegistered, Registered
<1>2. CASE Next
  BY <1>2, RegistryAppend, RegistryCall, RegistryCalls, RegistryProcess DEF Next
<1> QED BY <1>1, <1>2

LEMMA LinkStep == TypeInv /\ CountInv /\ LinkInv /\ Claimed /\ [Next]_vars => LinkInv'
<1> SUFFICES ASSUME TypeInv, CountInv, LinkInv, Claimed, [Next]_vars PROVE LinkInv'
  OBVIOUS
<1>0. PrevEarlier /\ StartedRead /\ SnapshotFirst /\ RegistryInv /\ WindowInv
  BY DEF LinkInv
<1>1. PrevEarlier' /\ StartedRead' /\ SnapshotFirst'
  BY <1>0, PrevEarlierStep, StartedReadStep, SnapshotFirstStep
<1>2. RegistryInv'
  BY <1>0, RegistryStep
<1>3. WindowInv'
  <2>1. CASE \E name \in Names, b \in Branches : CreateBranch(name, b)
    BY <1>0, <2>1, WindowFork
  <2>2. CASE AppendEntry
    BY <1>0, <2>2, WindowAppend
  <2>3. CASE WriteSnapshot \/ WriteCheckpoint \/ CheckpointFails
    <3>1. \/ WrittenSnapshot \/ WrittenCheckpoint
          \/ CheckpointFails /\ UNCHANGED <<snapshot, ckpt>>
      BY <2>3 DEF WrittenSnapshot, WrittenCheckpoint, WriteSnapshot, WriteCheckpoint, CheckpointFails
    <3>2. CASE CheckpointFails /\ UNCHANGED <<snapshot, ckpt>>
      BY <1>0, <3>2, WindowOthers DEF CheckpointFails, disk, store, registry, ghosts
    <3> QED BY <1>0, <3>1, <3>2, WindowFile
  <2>4. CASE Halt \/ Crash \/ LoseSnapshot \/ Open \/ ReplayEntry \/ Refuse \/ Ready
    BY <1>0, <2>4, WindowProcess
  <2>5. CASE UNCHANGED vars
    BY <1>0, <2>5, WindowOthers DEF vars, disk, store, registry, ghosts
  <2>6. CASE AppendFails \/ AdvanceHead \/ InstallStates \/ Release \/ Shutdown
    BY <1>0, <2>6, WindowOthers DEF AppendFails, AdvanceHead, InstallStates, Release, Shutdown, disk, store, registry, ghosts
  <2>7. CASE \/ \E b \in Branches : Write(b)
             \/ \E name \in Names : DiscardBranch(name)
             \/ \E s, t \in Branches : Merge(s, t)
    BY <1>0, <2>7, WindowOthers DEF Write, DiscardBranch, Merge, disk, store, registry, ghosts
  <2> QED BY <2>1, <2>2, <2>3, <2>4, <2>5, <2>6, <2>7 DEF Next
<1> QED BY <1>1, <1>2, <1>3 DEF LinkInv

LEMMA LinkInit == Init => LinkInv
<1> SUFFICES ASSUME Init PROVE LinkInv
  OBVIOUS
<1>1. /\ pc = "down" /\ log = <<>> /\ todo = <<>> /\ snapshot = NoSnapshot /\ ckpt = Genesis
      /\ branches = MainOnly /\ nextBranch = 1 /\ refused = FALSE
  BY DEF Init
<1>2. PrevEarlier /\ StartedRead /\ SnapshotFirst
  BY <1>1 DEF PrevEarlier, StartedRead, SnapshotFirst, Genesis
<1>3. RegistryInv
  BY RegistryNothing DEF Init, Nothing
<1>4. WindowInv
  BY <1>1 DEF WindowInv, Resumable, NoSnapshot
<1> QED BY <1>2, <1>3, <1>4 DEF LinkInv

(* Whatever crashed, and whichever snapshot was lost, a store that need not    *)
(* replay a released segment opens: no entry above the checkpoint it resumes   *)
(* from breaks its branch's chain (durable.rs, assemble).  It takes that no    *)
(* entry is written to an id before that branch is created, or that no branch *)
(* is created after a checkpoint.                                             *)
THEOREM AlwaysReopens ==
    ASSUME MaxStrays = 0 \/ ForkCkpts = 0
    PROVE  Spec => []AlwaysOpens
<1>1. Claimed
  BY DEF Claimed
<1>2. LinkInv => AlwaysOpens
  BY DEF LinkInv, WindowInv, AlwaysOpens
<1>3. TypeInv /\ CountInv /\ LinkInv /\ [Next]_vars => LinkInv'
  BY <1>1, LinkStep
<1> QED BY <1>2, <1>3, TypeInit, TypeStep, CountInit, CountStep, LinkInit, PTL DEF Spec

-----------------------------------------------------------------------------
(* Replaying from genesis. *)

LEMMA WholeBack ==
    ASSUME TypeInv, [Next]_vars, Whole'
    PROVE  Whole
<1>1. bounds'.faults >= bounds.faults /\ bounds'.strays >= bounds.strays
  <2>1. "faults" \in DOMAIN bounds /\ "strays" \in DOMAIN bounds
    BY TypeParts DEF Ghosts, Bounds
  <2> QED BY <2>1, BoundsGrow, TypeParts DEF Ghosts
<1>2. bounds.faults \in Nat /\ bounds.strays \in Nat
  BY TypeParts DEF Ghosts, Bounds
<1>3. ckpt.pos \in 0 .. Len(log) /\ Len(log) \in Nat
  BY TypeParts DEF Durable
<1>4. ckpt' = ckpt \/ ckpt'.pos = Len(log)
  <2>1. CASE WriteCheckpoint \/ CheckpointFails
    BY <2>1 DEF WriteCheckpoint, CheckpointFails, NewCheckpoint
  <2> QED BY <2>1 DEF Next, vars, disk, AppendEntry, AppendFails, AdvanceHead, WriteSnapshot,
         InstallStates, Write, CreateBranch, DiscardBranch, Merge, Release,
         Shutdown, Halt, Crash, Stopped, LoseSnapshot, Open, ReplayEntry, Refuse, Ready
<1>5. ckpt.pos = 0
  BY <1>3, <1>4 DEF Whole
<1> QED BY <1>1, <1>2, <1>5 DEF Whole

(* No error was returned, so no step of a call failed.                        *)
LEMMA WholeSteps ==
    ASSUME TypeInv, Whole'
    PROVE  ~AppendFails /\ ~CheckpointFails
<1>1. bounds \in Bounds
  BY TypeParts DEF Ghosts
<1>2. ~Count("faults", MaxFaults)
  BY <1>1 DEF Count, Whole, Bounds
<1> QED BY <1>2 DEF AppendFails, CheckpointFails

(* And the whole log is replayed.                                             *)
LEMMA WholeReplays ==
    ASSUME TypeInv, CountInv, Whole, ~gapped
    PROVE  /\ released = 0 /\ Base = 0
           /\ pc = "replaying" => known = 1 .. cursor
<1>1. released = 0
  BY TypeParts DEF Durable, Whole
<1>2. Base = 0
  BY DEF Base, Whole
<1> QED BY <1>1, <1>2 DEF CountInv, ReplayCounts

NoForks == \A n \in DOMAIN todo : ~Forks(todo[n])

LEMMA NoForksMeans ==
    ASSUME todo \in Seq(Steps), NoForks
    PROVE  ForkWhole /\ \A b : ~Creating(b)
<1>1. ForkWhole
  BY DEF ForkWhole, NoForks
<1>2. ASSUME NEW b PROVE ~Creating(b)
  <2>1. todo # <<>> => 1 \in DOMAIN todo
    OBVIOUS
  <2> QED BY <2>1 DEF NoForks, Creating
<1> QED BY <1>1, <1>2

(* A step of a call that is not an append creates no branch.                  *)
LEMMA OnlyAppendsCreate ==
    ASSUME todo \in Seq(Steps), pc = "up" => todo = <<>> \/ Head(todo).do # "append"
    PROVE  \A b : ~Creating(b)
<1>1. todo # <<>> => todo[1] = Head(todo)
  OBVIOUS
<1> QED BY <1>1 DEF Creating, Forks

(* What is left of a call after an append creates no branch.                  *)
LEMMA AppendLeavesNoForks ==
    ASSUME TypeInv, ForkWhole, AppendEntry
    PROVE  NoForks'
<1> SUFFICES ASSUME NEW n \in DOMAIN todo' PROVE ~Forks(todo'[n])
  BY DEF NoForks
<1>1. \/ todo'[n] = Snapshot \/ todo'[n] = Checkpoint \/ todo'[n] = Advance(Head(todo).branch)
      \/ \E m \in DOMAIN todo \ {1} : todo'[n] = todo[m]
  BY NewTodo
<1>2. ~Forks(Snapshot) /\ ~Forks(Checkpoint) /\ ~Forks(Advance(Head(todo).branch))
  BY DEF Forks, Snapshot, Checkpoint, Advance
<1>3. ASSUME NEW m \in DOMAIN todo \ {1} PROVE ~Forks(todo[m])
  BY DEF ForkWhole
<1> QED BY <1>1, <1>2, <1>3

LEMMA LogWholeKept ==
    ASSUME LogWhole, UNCHANGED log, discarded \subseteq discarded'
    PROVE  LogWhole'
<1>1. ChainUnbroken' = ChainUnbroken /\ BranchIdsUnique' = BranchIdsUnique
  BY DEF ChainUnbroken, BranchIdsUnique, OfKind
<1> QED BY <1>1 DEF LogWhole, Made

-----------------------------------------------------------------------------

(* An append to the log keeps it whole: the first entry on a branch names the  *)
(* commit it was forked from, and a later one its branch's head.              *)
LEMMA GenesisAppend ==
    ASSUME TypeInv, AppendsRegistered, LiveBelowNext, LogWhole, HeadsWhole, BranchesWhole, ForkWhole,
           AppendEntry
    PROVE  LogWhole' /\ HeadsWhole' /\ BranchesWhole' /\ ForkWhole'
<1> DEFINE s == Head(todo)
<1> DEFINE b == s.branch
<1> DEFINE i == Len(log) + 1
<1>1. /\ pc = "up" /\ pc' = "up" /\ s = todo[1] /\ 1 \in DOMAIN todo /\ todo # <<>>
      /\ s.do = "append"
      /\ heads' = [heads EXCEPT ![b] = i]
      /\ UNCHANGED <<branches, byName, nextBranch, discarded>>
  BY Appended, TodoSteps, TypeParts DEF Step, Calling, registry
<1>2. s \in Appends /\ b \in Branches
  BY Appended, NewEntryTyped DEF Appends
<1>3. /\ Len(log) \in Nat /\ i \in Nat /\ Len(log') = i /\ DOMAIN log = 1 .. Len(log) /\ DOMAIN log' = 1 .. i
      /\ \A j \in 1 .. Len(log) : log'[j] = log[j]
      /\ 1 .. i = (1 .. Len(log)) \cup {i} /\ i \notin 1 .. Len(log)
  BY LogGrows
<1>4. /\ log'[i].branch = b /\ log'[i].prev = heads[b] /\ log'[i].from = s.from
      /\ log'[i].op = s.op /\ log'[i].name = s.name
  BY LogGrows, NewEntryTyped, Appended
<1>5. heads \in [Branches -> {ZERO} \cup 1 .. Len(log)] /\ nextBranch \in Nat
  BY <1>3, TypeParts DEF Memory
<1>6. Folding = Len(log) /\ Folding' = i
  BY <1>1, <1>3 DEF Folding
<1>7. Registered(b)
  BY <1>1, <1>2 DEF AppendsRegistered
<1>8. ASSUME s.op = "branch"
      PROVE  /\ b # Main /\ s.name \in Names /\ s.from = heads[b] /\ On(b, Len(log)) = {}
             /\ branches[b].fork = s.from /\ byName[s.name] = b
             /\ \A j \in Made(Len(log)) : log[j].name = s.name => log[j].branch \in discarded
  BY <1>1, <1>8 DEF ForkWhole, Forks
<1>9. \A c : Creating(c) <=> s.op = "branch" /\ c = b
  BY <1>1 DEF Creating, Forks
<1>10. NoForks' /\ ForkWhole' /\ \A c \in Branches : ~Creating(c)'
  <2>1. NoForks' /\ todo' \in Seq(Steps)
    BY AppendLeavesNoForks, TypeAppend, TypeParts DEF Calling, TypeInv, TypeOK
  <2>2. ForkWhole'
    BY <2>1 DEF NoForks, ForkWhole
  <2>3. todo' # <<>> => 1 \in DOMAIN todo'
    BY <2>1
  <2> QED BY <2>1, <2>2, <2>3 DEF NoForks, Creating
<1> HIDE DEF s, b, i
<1>11. \A k \in 1 .. i : k \in 1 .. Len(log) \/ k = i
  BY <1>3
<1>12. ChainUnbroken'
  <2> SUFFICES ASSUME NEW k \in 1 .. i
               PROVE  LET before == {j \in 1 .. k - 1 : log'[j].branch = log'[k].branch}
                      IN  IF before = {}
                          THEN log'[k].prev = IF log'[k].op = "branch" THEN log'[k].from ELSE ZERO
                          ELSE log'[k].prev \in before /\ \A j \in before : j <= log'[k].prev
    BY <1>3 DEF ChainUnbroken
  <2>1. CASE k \in 1 .. Len(log)
    <3> DEFINE old == {j \in 1 .. k - 1 : log[j].branch = log[k].branch}
    <3>1. {j \in 1 .. k - 1 : log'[j].branch = log'[k].branch} = old /\ log'[k] = log[k]
      <4>1. \A j \in 1 .. k - 1 : j \in 1 .. Len(log)
        BY <1>3, <2>1
      <4> QED BY <1>3, <2>1, <4>1
    <3>2. IF old = {} THEN log[k].prev = IF log[k].op = "branch" THEN log[k].from ELSE ZERO
          ELSE log[k].prev \in old /\ \A j \in old : j <= log[k].prev
      BY <1>3, <2>1 DEF LogWhole, ChainUnbroken
    <3> HIDE DEF old
    <3> QED BY <3>1, <3>2
  <2>2. CASE k = i
    <3>1. {j \in 1 .. k - 1 : log'[j].branch = log'[k].branch} = On(b, Len(log))
      <4>1. 1 .. k - 1 = 1 .. Len(log)
        BY <1>3, <2>2 DEF i
      <4> QED BY <1>3, <1>4, <2>2, <4>1 DEF On
    <3>2. IF On(b, Len(log)) = {} THEN heads[b] = ZERO \/ Creating(b)
          ELSE heads[b] \in On(b, Len(log)) /\ \A j \in On(b, Len(log)) : j <= heads[b]
      BY <1>1, <1>2, <1>6 DEF HeadsWhole
    <3>3. CASE On(b, Len(log)) = {}
      <4>1. CASE s.op = "branch"
        BY <1>4, <1>8, <2>2, <3>1, <3>3, <4>1
      <4>2. CASE s.op # "branch"
        BY <1>4, <1>9, <2>2, <3>1, <3>2, <3>3, <4>2
      <4> QED BY <4>1, <4>2
    <3>4. CASE On(b, Len(log)) # {}
      BY <1>4, <2>2, <3>1, <3>2, <3>4
    <3> QED BY <3>3, <3>4
  <2> QED BY <1>11, <2>1, <2>2
<1>13. \A k \in 1 .. Len(log) : k \in Made(Len(log)) <=> log'[k].op = "branch"
  BY <1>3 DEF Made
<1>14. BranchIdsUnique'
  <2> SUFFICES ASSUME NEW k \in 1 .. i, NEW l \in 1 .. i, log'[k].op = "branch", log'[l].op = "branch",
                      log'[k].branch = log'[l].branch
               PROVE  k = l
    BY <1>3 DEF BranchIdsUnique, OfKind
  <2>1. CASE k \in 1 .. Len(log) /\ l \in 1 .. Len(log)
    BY <1>3, <2>1 DEF LogWhole, BranchIdsUnique, OfKind
  <2>2. ASSUME NEW m \in 1 .. Len(log), log'[m].branch = b, s.op = "branch" PROVE FALSE
    BY <1>3, <1>8, <2>2 DEF On
  <2> QED BY <1>4, <1>11, <2>1, <2>2
<1>15. ASSUME NEW k \in 1 .. i
       PROVE  log'[k].branch = Main \/ \E j \in 1 .. k : log'[j].op = "branch" /\ log'[j].branch = log'[k].branch
  <2>1. CASE k \in 1 .. Len(log)
    <3>1. log[k].branch = Main \/ \E j \in Made(k) : log[j].branch = log[k].branch
      BY <1>3, <2>1 DEF LogWhole
    <3>2. \A j \in 1 .. k : j \in 1 .. Len(log)
      BY <1>3, <2>1
    <3> QED BY <1>3, <2>1, <3>1, <3>2 DEF Made
  <2>2. CASE k = i
    <3>1. CASE s.op = "branch"
      <4>1. k \in 1 .. k
        OBVIOUS
      <4> QED BY <1>4, <2>2, <3>1, <4>1
    <3>2. CASE s.op # "branch"
      <4>1. b = Main \/ \E j \in Made(Len(log)) : log[j].branch = b
        BY <1>1, <1>2, <1>6, <1>7, <1>9, <3>2 DEF BranchesWhole
      <4>2. \A j \in 1 .. Len(log) : j \in 1 .. k
        BY <1>3, <2>2
      <4> QED BY <1>3, <1>4, <2>2, <4>1, <4>2 DEF Made
    <3> QED BY <3>1, <3>2
  <2> QED BY <1>11, <2>1, <2>2
<1>16. LogWhole'
  <2>1. \A k \in 1 .. i : log'[k].op = "branch" => log'[k].branch # Main /\ log'[k].name \in Names
    BY <1>3, <1>4, <1>8, <1>11 DEF LogWhole, Made
  <2>2. ASSUME NEW k \in 1 .. i, NEW l \in 1 .. i, log'[k].op = "branch", log'[l].op = "branch",
               k < l, log'[k].name = log'[l].name
        PROVE  log'[k].branch \in discarded
    <3>1. k \in Made(Len(log)) /\ log'[k] = log[k]
      BY <1>3, <1>11, <1>13, <2>2
    <3>2. CASE l \in 1 .. Len(log)
      BY <1>3, <1>13, <2>2, <3>1, <3>2 DEF LogWhole
    <3>3. CASE l = i
      BY <1>4, <1>8, <2>2, <3>1, <3>3
    <3> QED BY <1>11, <3>2, <3>3
  <2> QED BY <1>1, <1>3, <1>12, <1>14, <1>15, <2>1, <2>2 DEF LogWhole, Made
<1>17. ASSUME NEW c \in Branches
       PROVE  LET new == {k \in 1 .. i : log'[k].branch = c}
              IN  IF new = {} THEN heads'[c] = ZERO
                  ELSE heads'[c] \in new /\ \A k \in new : k <= heads'[c]
  <2>1. CASE c = b
    <3>1. heads'[c] = i /\ i \in {k \in 1 .. i : log'[k].branch = c}
      BY <1>1, <1>2, <1>3, <1>4, <1>5, <2>1
    <3>2. \A k \in 1 .. i : k <= i
      BY <1>3
    <3> QED BY <3>1, <3>2
  <2>2. CASE c # b
    <3>1. {k \in 1 .. i : log'[k].branch = c} = On(c, Len(log))
      BY <1>3, <1>4, <1>11, <2>2 DEF On
    <3>2. heads'[c] = heads[c] /\ ~Creating(c)
      BY <1>1, <1>5, <1>9, <2>2
    <3> QED BY <1>1, <1>6, <3>1, <3>2 DEF HeadsWhole
  <2> QED BY <2>1, <2>2
<1>18. HeadsWhole'
  BY <1>3, <1>6, <1>17 DEF HeadsWhole, On
<1>19. BranchesWhole'
  <2>1. \A k \in 1 .. i : log'[k].branch < nextBranch
    <3>1. b < nextBranch
      BY <1>2, <1>7 DEF LiveBelowNext
    <3> QED BY <1>1, <1>3, <1>4, <1>6, <1>11, <3>1 DEF BranchesWhole
  <2>2. ASSUME NEW c \in Branches, Registered(c)
        PROVE  c = Main \/ \E j \in 1 .. i : log'[j].op = "branch" /\ log'[j].branch = c
    <3>1. c = Main \/ Creating(c) \/ \E j \in Made(Len(log)) : log[j].branch = c
      BY <1>1, <1>6, <2>2 DEF BranchesWhole
    <3>2. CASE Creating(c)
      BY <1>3, <1>4, <1>9, <3>2
    <3>3. CASE \E j \in Made(Len(log)) : log[j].branch = c
      BY <1>3, <3>3 DEF Made
    <3> QED BY <3>1, <3>2, <3>3
  <2>3. NamesWhole'
    BY <1>1 DEF BranchesWhole, NamesWhole, Registered
  <2>4. ASSUME NEW k \in 1 .. i, log'[k].op = "branch", log'[k].branch \notin discarded
        PROVE  /\ Registered(log'[k].branch) /\ branches[log'[k].branch].fork = log'[k].from
               /\ byName[log'[k].name] = log'[k].branch
    <3>1. CASE k \in 1 .. Len(log)
      BY <1>1, <1>3, <1>6, <1>13, <2>4, <3>1 DEF BranchesWhole, Kept
    <3>2. CASE k = i
      BY <1>4, <1>7, <1>8, <2>4, <3>2
    <3> QED BY <1>11, <3>1, <3>2
  <2> QED BY <1>1, <1>6, <2>1, <2>2, <2>3, <2>4 DEF BranchesWhole, Made, Kept, Registered
<1> QED BY <1>10, <1>16, <1>18, <1>19

-----------------------------------------------------------------------------

(* Steps that leave the log and the heads, and begin no branch.               *)
LEMMA GenesisKept ==
    ASSUME TypeInv, TypeInv', LogWhole, HeadsWhole, BranchesWhole,
           pc = "up", pc' = "up", \A c : ~Creating(c), NoForks',
           UNCHANGED <<log, heads, byName, nextBranch, discarded>>,
           \A c \in Branches : /\ branches'[c].live = branches[c].live
                               /\ branches'[c].fork = branches[c].fork
                               /\ branches'[c].name = branches[c].name
    PROVE  LogWhole' /\ HeadsWhole' /\ BranchesWhole' /\ ForkWhole'
<1>1. todo' \in Seq(Steps)
  BY DEF TypeInv, TypeOK
<1>2. ForkWhole' /\ \A c \in Branches : ~Creating(c)'
  <2>1. todo' # <<>> => 1 \in DOMAIN todo'
    BY <1>1
  <2> QED BY <2>1 DEF NoForks, ForkWhole, Creating
<1>3. LogWhole'
  BY LogWholeKept
<1>4. Folding = Len(log) /\ Folding' = Len(log)
  BY DEF Folding
<1>5. HeadsWhole'
  BY <1>4 DEF HeadsWhole, On
<1>6. BranchesWhole'
  <2>1. byName \in [Names -> Branches] /\ log \in Seq(Entry)
    BY TypeParts DEF Memory, Durable
  <2>2. \A k \in 1 .. Len(log) : log[k].branch \in Branches
    <3>1. \A k \in 1 .. Len(log) : log[k] \in Entry
      BY <2>1
    <3> QED BY <3>1 DEF Entry
  <2>3. NamesWhole'
    BY <2>1 DEF BranchesWhole, NamesWhole, Registered
  <2>4. ASSUME NEW c \in Branches, branches'[c].live
        PROVE  c = Main \/ \E j \in Made(Len(log)) : log[j].branch = c
    BY <1>4, <2>4 DEF BranchesWhole, Registered
  <2>5. ASSUME NEW k \in Made(Len(log)), log[k].branch \notin discarded
        PROVE  /\ branches'[log[k].branch].live /\ branches'[log[k].branch].fork = log[k].from
               /\ byName[log[k].name] = log[k].branch
    <3>1. Kept(k) /\ log[k].branch \in Branches
      BY <1>4, <2>2, <2>5 DEF BranchesWhole, Made
    <3> QED BY <3>1 DEF Kept, Registered
  <2> QED BY <1>4, <2>3, <2>4, <2>5 DEF BranchesWhole, Made, Kept, Registered
<1> QED BY <1>2, <1>3, <1>5, <1>6

LEMMA GenesisCall ==
    ASSUME TypeInv, LogWhole, HeadsWhole, BranchesWhole, ForkWhole,
           AdvanceHead \/ WriteSnapshot \/ WriteCheckpoint \/ InstallStates
    PROVE  LogWhole' /\ HeadsWhole' /\ BranchesWhole' /\ ForkWhole'
<1>1. /\ pc = "up" /\ pc' = "up" /\ UNCHANGED <<log, heads, byName, nextBranch, discarded>>
      /\ todo # <<>> /\ Head(todo).do # "append"
      /\ todo' = Tail(todo) \/ todo' = <<>>
  BY DEF AdvanceHead, WriteSnapshot, WriteCheckpoint, InstallStates, Step, disk, store, registry, ghosts
<1>2. TypeInv' /\ todo \in Seq(Steps) /\ branches \in [Branches -> Branch]
  BY TypeCall, TypeParts DEF Calling, Memory
<1>3. \A c : ~Creating(c)
  BY <1>1, <1>2, OnlyAppendsCreate
<1>4. NoForks'
  <2>1. \A n \in DOMAIN todo' : \E m \in DOMAIN todo \ {1} : todo'[n] = todo[m]
    <3>1. CASE todo' = Tail(todo)
      <4>1. \A n \in DOMAIN todo' : n + 1 \in DOMAIN todo \ {1} /\ todo'[n] = todo[n + 1]
        BY <1>1, <1>2, <3>1, TodoSteps
      <4> QED BY <4>1
    <3>2. CASE todo' = <<>>
      BY <3>2
    <3> QED BY <1>1, <3>1, <3>2
  <2>2. \A m \in DOMAIN todo \ {1} : ~Forks(todo[m])
    BY DEF ForkWhole
  <2> QED BY <2>1, <2>2 DEF NoForks
<1>5. \A c \in Branches : /\ branches'[c].live = branches[c].live
                          /\ branches'[c].fork = branches[c].fork
                          /\ branches'[c].name = branches[c].name
  <2>1. CASE AdvanceHead
    <3>1. Head(todo) \in Advances
      BY <1>1, <1>2, <2>1, StepKinds, TodoSteps DEF AdvanceHead, Step
    <3>2. Head(todo).branch \in Branches
      BY <3>1 DEF Advances
    <3>3. branches' = branches \/ branches' = [branches EXCEPT ![Head(todo).branch].next = @ + 1]
      BY <2>1 DEF AdvanceHead
    <3>4. ASSUME NEW c \in Branches
          PROVE  LET d == [branches[c] EXCEPT !.next = @ + 1]
                 IN  d.live = branches[c].live /\ d.fork = branches[c].fork /\ d.name = branches[c].name
      <4>1. branches[c] \in Branch
        BY <1>2
      <4> QED BY <4>1 DEF Branch
    <3> QED BY <1>2, <3>2, <3>3, <3>4
  <2>2. CASE ~AdvanceHead
    BY <2>2 DEF WriteSnapshot, WriteCheckpoint, InstallStates, registry
  <2> QED BY <2>1, <2>2
<1> QED BY <1>1, <1>2, <1>3, <1>4, <1>5, GenesisKept

(* A new branch is registered before it is in the log, and its id and name     *)
(* are free.                                                                  *)
LEMMA GenesisFork ==
    ASSUME TypeInv, RegistryInv, LogWhole, HeadsWhole, BranchesWhole,
           NEW name \in Names, NEW parent \in Branches, CreateBranch(name, parent)
    PROVE  LogWhole' /\ HeadsWhole' /\ BranchesWhole' /\ ForkWhole'
<1> DEFINE new == nextBranch
<1> DEFINE record == [live |-> TRUE, name |-> name, fork |-> heads[parent], next |-> 0]
<1> DEFINE s == Appending(new, "branch", heads[parent], name, parent)
<1>1. /\ pc = "up" /\ pc' = "up" /\ todo = <<>> /\ todo' = <<s>>
      /\ UNCHANGED <<log, discarded>>
      /\ byName[name] = Main /\ new <= MaxBranch
      /\ branches' = [branches EXCEPT ![new] = record]
      /\ byName' = [byName EXCEPT ![name] = new]
      /\ nextBranch' = new + 1
      /\ heads' = [heads EXCEPT ![new] = heads[parent]]
  BY DEF CreateBranch, Idle, disk, ghosts
<1>2. /\ branches \in [Branches -> Branch] /\ byName \in [Names -> Branches]
      /\ heads \in [Branches -> {ZERO} \cup DOMAIN log]
      /\ new \in Nat /\ new > 0 /\ new \in Branches /\ new # Main
      /\ log \in Seq(Entry) /\ Len(log) \in Nat
  <2>1. /\ branches \in [Branches -> Branch] /\ byName \in [Names -> Branches]
        /\ heads \in [Branches -> {ZERO} \cup DOMAIN log] /\ nextBranch \in Nat
    BY TypeParts DEF Memory
  <2>2. log \in Seq(Entry) /\ Len(log) \in Nat
    BY TypeParts DEF Durable
  <2>3. nextBranch > 0
    BY <1>1 DEF RegistryInv
  <2> QED BY <1>1, <2>1, <2>2, <2>3
<1>3. /\ s.do = "append" /\ s.op = "branch" /\ s.branch = new /\ s.from = heads[parent] /\ s.name = name
      /\ record.live = TRUE /\ record.name = name /\ record.fork = heads[parent]
  BY DEF Appending
<1>4. Folding = Len(log) /\ Folding' = Len(log)
  BY <1>1 DEF Folding
<1>5. \A k \in 1 .. Len(log) : log[k].branch \in Branches /\ log[k].branch < new
  <2>1. \A k \in 1 .. Len(log) : log[k] \in Entry
    BY <1>2
  <2>2. \A k \in 1 .. Len(log) : log[k].branch < new
    BY <1>1, <1>4 DEF BranchesWhole
  <2> QED BY <2>1, <2>2 DEF Entry
<1>6. \A c : ~Creating(c)
  BY <1>1 DEF Creating
<1> HIDE DEF record, s
<1>7. LogWhole'
  BY <1>1, LogWholeKept
<1>8. On(new, Len(log)) = {}
  BY <1>2, <1>5 DEF On
<1>9. /\ DOMAIN todo' = {1} /\ todo'[1] = s /\ todo' # <<>>
      /\ heads'[new] = heads[parent] /\ branches'[new] = record /\ byName'[name] = new
  BY <1>1, <1>2
<1>10. \A c \in Branches : c # new => heads'[c] = heads[c] /\ branches'[c] = branches[c]
  BY <1>1, <1>2
<1>11. HeadsWhole'
  <2> SUFFICES ASSUME NEW c \in Branches
               PROVE  IF On(c, Len(log)) = {} THEN heads'[c] = ZERO \/ c = new
                      ELSE heads'[c] \in On(c, Len(log)) /\ \A k \in On(c, Len(log)) : k <= heads'[c]
    BY <1>1, <1>3, <1>4, <1>9 DEF HeadsWhole, On, Creating, Forks
  <2>1. CASE c = new
    BY <1>8, <2>1
  <2>2. CASE c # new
    BY <1>1, <1>4, <1>6, <1>10, <2>2 DEF HeadsWhole
  <2> QED BY <2>1, <2>2
<1>12. \A k \in Made(Len(log)) : log[k].name = name => log[k].branch \in discarded
  <2> SUFFICES ASSUME NEW k \in Made(Len(log)), log[k].name = name, log[k].branch \notin discarded
               PROVE  FALSE
    OBVIOUS
  <2>1. byName[name] = log[k].branch
    BY <1>1, <1>4 DEF BranchesWhole, Kept
  <2> QED BY <1>1, <2>1 DEF LogWhole
<1>13. ForkWhole'
  BY <1>1, <1>2, <1>3, <1>8, <1>9, <1>12 DEF ForkWhole, Forks, On, Made, Registered
<1>14. BranchesWhole'
  <2>1. \A k \in 1 .. Len(log) : log[k].branch < new + 1
    BY <1>2, <1>5
  <2>2. ASSUME NEW c \in Branches, branches'[c].live
        PROVE  c = Main \/ c = new \/ \E j \in Made(Len(log)) : log[j].branch = c
    BY <1>1, <1>4, <1>6, <1>10, <2>2 DEF BranchesWhole, Registered
  <2>3. ASSUME NEW n \in Names, byName'[n] # Main
        PROVE  branches'[byName'[n]].live /\ branches'[byName'[n]].name = n
    <3>1. CASE n = name
      BY <1>3, <1>9, <3>1
    <3>2. CASE n # name
      <4>1. byName'[n] = byName[n] /\ byName[n] \in Branches
        BY <1>1, <1>2, <3>2
      <4>2. Registered(byName[n]) /\ branches[byName[n]].name = n
        BY <1>1, <2>3, <4>1 DEF BranchesWhole, NamesWhole
      <4>3. byName[n] # new
        BY <1>2, <4>1, <4>2 DEF RegistryInv, LiveBelowNext
      <4> QED BY <1>10, <4>1, <4>2, <4>3 DEF Registered
    <3> QED BY <3>1, <3>2
  <2>4. ASSUME NEW k \in Made(Len(log)), log[k].branch \notin discarded
        PROVE  /\ branches'[log[k].branch].live /\ branches'[log[k].branch].fork = log[k].from
               /\ byName'[log[k].name] = log[k].branch
    <3>1. Kept(k)
      BY <1>1, <1>4, <2>4 DEF BranchesWhole
    <3>2. log[k].branch \in Branches /\ log[k].branch # new
      BY <1>2, <1>5 DEF Made
    <3>3. log[k].name # name /\ log[k].name \in Names
      BY <1>12, <2>4 DEF LogWhole
    <3> QED BY <1>1, <1>2, <1>10, <3>1, <3>2, <3>3 DEF Kept, Registered
  <2>5. \A c \in Branches : c = new => Creating(c)'
    BY <1>1, <1>3, <1>9 DEF Creating, Forks
  <2> QED BY <1>1, <1>4, <2>1, <2>2, <2>3, <2>4, <2>5 DEF BranchesWhole, NamesWhole, Made, Kept, Registered
<1> QED BY <1>7, <1>11, <1>13, <1>14

(* Discarding a branch frees its name alone.                                  *)
LEMMA GenesisDiscard ==
    ASSUME TypeInv, LogWhole, HeadsWhole, BranchesWhole, NEW name \in Names, DiscardBranch(name)
    PROVE  LogWhole' /\ HeadsWhole' /\ BranchesWhole' /\ ForkWhole'
<1> DEFINE b == byName[name]
<1>1. /\ pc = "up" /\ pc' = "up" /\ todo = <<>> /\ todo' = <<>>
      /\ UNCHANGED <<log, heads, nextBranch>>
      /\ b # Main
      /\ branches' = [branches EXCEPT ![b] = Absent]
      /\ byName' = [byName EXCEPT ![branches[b].name] = Main]
      /\ discarded' = discarded \cup {b}
  BY DEF DiscardBranch, Idle, disk
<1>2. /\ branches \in [Branches -> Branch] /\ byName \in [Names -> Branches] /\ b \in Branches
      /\ log \in Seq(Entry)
  BY TypeParts DEF Memory, Durable
<1>3. Folding = Len(log) /\ Folding' = Len(log)
  BY <1>1 DEF Folding
<1>4. \A c : ~Creating(c)
  BY <1>1 DEF Creating
<1>5. branches[b].name = name
  BY <1>1 DEF BranchesWhole, NamesWhole
<1> HIDE DEF b
<1>6. LogWhole'
  BY <1>1, LogWholeKept
<1>7. HeadsWhole'
  BY <1>1, <1>3, <1>4 DEF HeadsWhole, On
<1>8. ForkWhole'
  BY <1>1 DEF ForkWhole
<1>9. BranchesWhole'
  <2>1. \A c \in Branches : branches'[c].live => c # b /\ branches[c].live
    BY <1>1, <1>2 DEF Absent
  <2>2. ASSUME NEW c \in Branches, branches'[c].live
        PROVE  c = Main \/ \E j \in Made(Len(log)) : log[j].branch = c
    BY <1>1, <1>3, <1>4, <2>1, <2>2 DEF BranchesWhole, Registered
  <2>3. ASSUME NEW n \in Names, byName'[n] # Main
        PROVE  branches'[byName'[n]].live /\ branches'[byName'[n]].name = n
    <3>1. n # name /\ byName'[n] = byName[n]
      BY <1>1, <1>2, <1>5, <2>3
    <3>2. Registered(byName[n]) /\ branches[byName[n]].name = n /\ byName[n] \in Branches
      BY <1>1, <1>2, <2>3, <3>1 DEF BranchesWhole, NamesWhole
    <3>3. byName[n] # b
      BY <1>5, <3>1, <3>2
    <3> QED BY <1>1, <1>2, <3>1, <3>2, <3>3 DEF Registered
  <2>4. ASSUME NEW k \in Made(Len(log)), log[k].branch \notin discarded'
        PROVE  /\ branches'[log[k].branch].live /\ branches'[log[k].branch].fork = log[k].from
               /\ byName'[log[k].name] = log[k].branch
    <3>1. Kept(k) /\ log[k].branch # b /\ log[k].name \in Names /\ log[k].branch # Main
      BY <1>1, <1>3, <2>4 DEF BranchesWhole, LogWhole
    <3>2. log[k].branch \in Branches
      <4>1. log[k] \in Entry
        BY <1>2 DEF Made
      <4> QED BY <4>1 DEF Entry
    <3>3. log[k].name # name
      BY <3>1 DEF Kept, b
    <3> QED BY <1>1, <1>2, <1>5, <3>1, <3>2, <3>3 DEF Kept, Registered
  <2> QED BY <1>1, <1>3, <2>2, <2>3, <2>4 DEF BranchesWhole, NamesWhole, Made, Kept, Registered
<1> QED BY <1>6, <1>7, <1>8, <1>9

LEMMA GenesisCalls ==
    ASSUME TypeInv, RegistryInv, LogWhole, HeadsWhole, BranchesWhole,
           \/ \E b \in Branches : Write(b)
           \/ \E name \in Names, b \in Branches : CreateBranch(name, b)
           \/ \E name \in Names : DiscardBranch(name)
           \/ \E s, t \in Branches : Merge(s, t)
           \/ Release \/ Shutdown
    PROVE  LogWhole' /\ HeadsWhole' /\ BranchesWhole' /\ ForkWhole'
<1>1. CASE \E name \in Names, b \in Branches : CreateBranch(name, b)
  BY <1>1, GenesisFork
<1>2. CASE \E name \in Names : DiscardBranch(name)
  BY <1>2, GenesisDiscard
<1>3. CASE \/ \E b \in Branches : Write(b)
           \/ \E s, t \in Branches : Merge(s, t)
           \/ Release \/ Shutdown
  <2>1. /\ pc = "up" /\ pc' = "up" /\ todo = <<>>
        /\ UNCHANGED <<log, heads, branches, byName, nextBranch, discarded>>
    BY <1>3 DEF Write, Merge, Release, Shutdown, Idle, disk, store, registry, ghosts
  <2>2. NoForks'
    <3>1. CASE \E b \in Branches : Write(b)
      <4>1. PICK b \in Branches : Write(b)
        BY <3>1
      <4>2. todo' = <<Appending(b, "put", ZERO, NoName, b)>> \/ todo' = <<Appending(b, "inc", ZERO, NoName, b)>>
        BY <4>1 DEF Write
      <4>3. DOMAIN todo' = {1} /\ todo'[1].op \in {"put", "inc"}
        BY <4>2 DEF Appending
      <4> QED BY <4>3 DEF NoForks, Forks
    <3>2. CASE \E s, t \in Branches : Merge(s, t)
      <4>1. PICK s \in Branches, t \in Branches : Merge(s, t)
        BY <3>2
      <4>2. ASSUME NEW n \in DOMAIN todo' PROVE ~Forks(todo'[n])
        BY <4>1, MergeTodo DEF Forks
      <4> QED BY <4>2 DEF NoForks
    <3>3. CASE Shutdown
      <4>1. todo' = <<Snapshot, Checkpoint, Stop>>
        BY <3>3 DEF Shutdown
      <4>2. \A n \in DOMAIN todo' : todo'[n].do # "append"
        BY <4>1 DEF Snapshot, Checkpoint, Stop
      <4> QED BY <4>2 DEF NoForks, Forks
    <3>4. CASE Release
      BY <2>1, <3>4 DEF Release, NoForks
    <3> QED BY <1>3, <3>1, <3>2, <3>3, <3>4
  <2>3. TypeInv' /\ \A c : ~Creating(c)
    BY <1>3, <2>1, TypeCalls DEF Creating
  <2> QED BY <2>1, <2>2, <2>3, GenesisKept
<1> QED BY <1>1, <1>2, <1>3

-----------------------------------------------------------------------------

(* An entry replayed is folded into the heads and, when it made a branch, into *)
(* the registry: no other branch had its id, and one that had its name was    *)
(* discarded.                                                                 *)
LEMMA GenesisReplay ==
    ASSUME TypeInv, nextBranch > 0, LogWhole, HeadsWhole, BranchesWhole, ReplayEntry
    PROVE  LogWhole' /\ HeadsWhole' /\ BranchesWhole' /\ ForkWhole'
<1> DEFINE i == cursor + 1
<1> DEFINE e == log[i]
<1> DEFINE b == e.branch
<1>1. /\ pc = "replaying" /\ pc' = "replaying" /\ i <= Len(log)
      /\ UNCHANGED <<log, todo, discarded>> /\ todo = <<>>
      /\ cursor' = i /\ heads' = [heads EXCEPT ![b] = i]
      /\ branches' = Restored(e).ids /\ byName' = Restored(e).names /\ nextBranch' = Restored(e).next
  BY TypeParts DEF ReplayEntry, HeadsWith, disk, ghosts, Calling
<1>2. /\ branches \in [Branches -> Branch] /\ byName \in [Names -> Branches]
      /\ heads \in [Branches -> {ZERO} \cup DOMAIN log]
      /\ nextBranch \in Nat /\ cursor \in Nat /\ Len(log) \in Nat /\ log \in Seq(Entry)
  BY TypeParts DEF Memory, Durable
<1>3. /\ i \in 1 .. Len(log) /\ i \in Nat /\ e \in Entry /\ b \in Branches
      /\ 1 .. i = (1 .. cursor) \cup {i} /\ i \notin 1 .. cursor
  <2>1. i \in 1 .. Len(log)
    BY <1>1, <1>2
  <2>2. e \in Entry
    BY <1>2, <2>1
  <2>3. b \in Branches
    BY <2>2 DEF Entry
  <2>4. 1 .. i = (1 .. cursor) \cup {i} /\ i \notin 1 .. cursor /\ i \in Nat
    BY <1>2
  <2> QED BY <2>1, <2>2, <2>3, <2>4
<1>4. Folding = cursor /\ Folding' = i
  BY <1>1 DEF Folding
<1>5. ForkWhole' /\ \A c : ~Creating(c) /\ ~Creating(c)'
  BY <1>1 DEF ForkWhole, Creating
<1>6. LogWhole'
  BY <1>1, LogWholeKept
<1>7. \A k \in 1 .. cursor : k \in 1 .. Len(log) /\ log[k].branch < nextBranch /\ log[k].branch \in Branches
  <2>1. \A k \in 1 .. cursor : k \in 1 .. Len(log)
    BY <1>1, <1>2
  <2>2. \A k \in 1 .. cursor : log[k] \in Entry
    BY <1>2, <2>1
  <2>3. \A k \in 1 .. cursor : log[k].branch < nextBranch
    BY <1>1, <1>4 DEF BranchesWhole
  <2> QED BY <2>1, <2>2, <2>3 DEF Entry
<1>8. \A k \in 1 .. i : k \in 1 .. cursor \/ k = i
  BY <1>3
<1> HIDE DEF e, i, b
<1>9. HeadsWhole'
  <2> SUFFICES ASSUME NEW c \in Branches
               PROVE  IF On(c, i) = {} THEN heads'[c] = ZERO
                      ELSE heads'[c] \in On(c, i) /\ \A k \in On(c, i) : k <= heads'[c]
    BY <1>1, <1>4 DEF HeadsWhole, On
  <2>1. CASE c = b
    <3>1. heads'[c] = i /\ i \in On(c, i)
      BY <1>1, <1>2, <1>3, <2>1 DEF On, b, e
    <3>2. \A k \in 1 .. i : k <= i
      BY <1>3
    <3> QED BY <3>1, <3>2 DEF On
  <2>2. CASE c # b
    <3>1. On(c, i) = On(c, cursor)
      BY <1>3, <2>2 DEF On, b, e
    <3>2. heads'[c] = heads[c]
      BY <1>1, <1>2, <2>2
    <3> QED BY <1>1, <1>4, <1>5, <3>1, <3>2 DEF HeadsWhole
  <2> QED BY <2>1, <2>2
<1>10. /\ nextBranch' \in Nat /\ nextBranch' >= nextBranch
       /\ e.op = "branch" => nextBranch' > b
  BY <1>1, <1>2, <1>3 DEF Restored, b
<1>11. \A k \in 1 .. i : log[k].branch < nextBranch'
  <2>1. \A k \in 1 .. cursor : log[k].branch < nextBranch'
    BY <1>2, <1>7, <1>10
  <2>2. CASE e.op = "branch"
    BY <1>8, <1>10, <2>1, <2>2 DEF b, e
  <2>3. CASE e.op # "branch"
    <3>1. b = Main \/ \E j \in Made(i) : log[j].branch = b
      BY <1>2, <1>3 DEF LogWhole, b, e
    <3>2. CASE b = Main
      BY <1>2, <1>8, <1>10, <2>1, <3>2 DEF b, e
    <3>3. CASE \E j \in Made(i) : log[j].branch = b
      <4>1. PICK j \in Made(i) : log[j].branch = b
        BY <3>3
      <4>2. j \in 1 .. cursor
        BY <1>8, <2>3, <4>1 DEF Made, e
      <4> QED BY <1>8, <2>1, <4>1, <4>2 DEF b, e
    <3> QED BY <3>1, <3>2, <3>3
  <2> QED BY <2>2, <2>3
<1>12. CASE e.op # "branch"
  <2>1. branches' = branches /\ byName' = byName
    BY <1>1, <1>12 DEF Restored
  <2>2. Made(i) = Made(cursor)
    BY <1>3, <1>12 DEF Made, e
  <2>3. BranchesWhole'
    <3>1. \A c \in Branches : branches[c].live => c = Main \/ \E j \in Made(i) : log[j].branch = c
      BY <1>1, <1>4, <1>5, <2>2 DEF BranchesWhole, Registered
    <3>2. NamesWhole'
      BY <1>1, <2>1 DEF BranchesWhole, NamesWhole, Registered
    <3>3. \A k \in Made(i) : log[k].branch \notin discarded => Kept(k)
      BY <1>1, <1>4, <2>2 DEF BranchesWhole
    <3> QED BY <1>1, <1>4, <1>11, <2>1, <3>1, <3>2, <3>3 DEF BranchesWhole, Made, Kept, Registered
  <2> QED BY <1>5, <1>6, <1>9, <2>3
<1>13. CASE e.op = "branch"
  <2> DEFINE record == [live |-> TRUE, name |-> e.name, fork |-> e.from, next |-> 0]
  <2>1. branches' = [branches EXCEPT ![b] = record] /\ byName' = [byName EXCEPT ![e.name] = b]
    BY <1>1, <1>13 DEF Restored, b
  <2>2. record.live = TRUE /\ record.name = e.name /\ record.fork = e.from
    OBVIOUS
  <2> HIDE DEF record
  <2>3. i \in Made(i) /\ i \in Made(Len(log)) /\ b # Main /\ e.name \in Names
    <3>1. i \in Made(i) /\ i \in Made(Len(log))
      BY <1>3, <1>13 DEF Made, e
    <3> QED BY <3>1 DEF LogWhole, b, e
  <2>4. \A k \in Made(cursor) : k \in Made(Len(log)) /\ log[k].branch # b
    <3> SUFFICES ASSUME NEW k \in Made(cursor) PROVE k \in Made(Len(log)) /\ log[k].branch # b
      OBVIOUS
    <3>1. k \in 1 .. cursor /\ k \in Made(Len(log)) /\ k # i
      BY <1>3, <1>7 DEF Made
    <3>2. k \in OfKind({"branch"}) /\ i \in OfKind({"branch"})
      BY <1>2, <2>3, <3>1 DEF OfKind, Made
    <3> QED BY <3>1, <3>2 DEF LogWhole, BranchIdsUnique, b, e
  <2>5. ~Registered(b)
    BY <1>1, <1>3, <1>4, <1>5, <2>3, <2>4 DEF BranchesWhole
  <2>6. \A n \in Names : byName[n] # b
    BY <1>1, <2>3, <2>5 DEF BranchesWhole, NamesWhole
  <2>7. Made(i) = Made(cursor) \cup {i}
    BY <1>3, <2>3 DEF Made
  <2>8. ASSUME NEW c \in Branches, branches'[c].live
        PROVE  c = Main \/ \E j \in Made(i) : log[j].branch = c
    <3>1. CASE c = b
      BY <2>3, <3>1 DEF b, e
    <3>2. CASE c # b
      <4>1. Registered(c)
        BY <1>2, <1>3, <2>1, <2>8, <3>2 DEF Registered
      <4> QED BY <1>1, <1>4, <1>5, <2>7, <4>1 DEF BranchesWhole
    <3> QED BY <3>1, <3>2
  <2>9. ASSUME NEW n \in Names, byName'[n] # Main
        PROVE  branches'[byName'[n]].live /\ branches'[byName'[n]].name = n
    <3>1. CASE n = e.name
      BY <1>2, <1>3, <2>1, <2>2, <3>1
    <3>2. CASE n # e.name
      <4>1. byName'[n] = byName[n] /\ byName[n] \in Branches /\ byName[n] # b
        BY <1>2, <2>1, <2>6, <3>2
      <4>2. Registered(byName[n]) /\ branches[byName[n]].name = n
        BY <1>1, <2>9, <4>1 DEF BranchesWhole, NamesWhole
      <4> QED BY <1>2, <2>1, <4>1, <4>2 DEF Registered
    <3> QED BY <3>1, <3>2
  <2>10. ASSUME NEW k \in Made(i), log[k].branch \notin discarded
         PROVE  /\ branches'[log[k].branch].live /\ branches'[log[k].branch].fork = log[k].from
                /\ byName'[log[k].name] = log[k].branch
    <3>1. CASE k = i
      BY <1>2, <1>3, <2>1, <2>2, <2>3, <3>1 DEF b, e
    <3>2. CASE k \in Made(cursor)
      <4>1. Kept(k) /\ log[k].branch # b /\ log[k].branch \in Branches
        BY <1>1, <1>4, <1>7, <2>4, <2>10, <3>2 DEF BranchesWhole, Made
      <4>2. log[k].name # e.name /\ log[k].name \in Names
        <5>1. k \in Made(Len(log)) /\ k < i
          BY <1>2, <2>4, <3>2 DEF Made, i
        <5> QED BY <2>3, <2>10, <5>1 DEF LogWhole, e
      <4> QED BY <1>2, <2>1, <4>1, <4>2 DEF Kept, Registered
    <3> QED BY <2>7, <3>1, <3>2
  <2>11. BranchesWhole'
    BY <1>1, <1>4, <1>11, <2>8, <2>9, <2>10 DEF BranchesWhole, NamesWhole, Made, Kept, Registered
  <2> QED BY <1>5, <1>6, <1>9, <2>11
<1> QED BY <1>12, <1>13

LEMMA GenesisProcess ==
    ASSUME TypeInv, CountInv, RegistryInv, Whole, GenesisInv,
           \/ Halt \/ Crash \/ LoseSnapshot \/ Open \/ ReplayEntry \/ Refuse \/ Ready
    PROVE  ~gapped' /\ LogWhole' /\ HeadsWhole' /\ BranchesWhole' /\ ForkWhole'
<1>0. Memory /\ Durable /\ Ghosts /\ Calling
  BY TypeParts
<1>1. ~gapped /\ LogWhole /\ HeadsWhole /\ BranchesWhole /\ ForkWhole
  BY DEF GenesisInv
<1>2. released = 0 /\ Base = 0
  BY <1>1, WholeReplays
<1>3. UNCHANGED <<log, ckpt, discarded>>
  BY DEF Halt, Crash, Stopped, LoseSnapshot, Open, ReplayEntry, Refuse, Ready, disk, ghosts
<1>4. ~gapped'
  <2>1. gapped' = gapped \/ gapped' = (gapped \/ (~Resumable /\ released > 0))
    BY DEF Halt, Crash, Stopped, LoseSnapshot, Open, ReplayEntry, Refuse, Ready, ghosts
  <2>2. ~(released > 0)
    BY <1>2
  <2> QED BY <1>1, <2>1, <2>2, Zenon
<1>5. LogWhole'
  BY <1>1, <1>3, LogWholeKept
<1>6. CASE Halt \/ Crash \/ Refuse \/ LoseSnapshot
  <2>1. pc' = "down" /\ todo' = <<>>
    BY <1>0, <1>6 DEF Halt, Crash, Stopped, Refuse, LoseSnapshot, Forget, Calling, Nothing
  <2> QED BY <1>4, <1>5, <2>1 DEF HeadsWhole, BranchesWhole, ForkWhole
<1>7. CASE Open
  <2>1. /\ pc = "down" /\ pc' = "replaying" /\ UNCHANGED <<todo, heads, branches, byName, nextBranch>>
        /\ cursor' = IF Resumable THEN ckpt.pos ELSE released
    BY <1>7 DEF Open, registry
  <2>2. cursor' = 0
    BY <1>2, <2>1 DEF Whole
  <2>3. Folding' = 0 /\ Nothing
    BY <1>0, <2>1, <2>2 DEF Folding, Calling
  <2>4. todo' = <<>> /\ (\A c \in Branches : heads'[c] = ZERO) /\ \A n \in Names : byName'[n] = Main
    BY <2>1, <2>3 DEF Nothing
  <2>5. \A c \in Branches : branches'[c].live => c = Main
    BY <2>1, <2>3 DEF Nothing, MainOnly, Absent
  <2>6. HeadsWhole'
    BY <2>3, <2>4 DEF HeadsWhole, On
  <2>7. BranchesWhole'
    BY <2>3, <2>4, <2>5 DEF BranchesWhole, NamesWhole, Made, Registered
  <2> QED BY <1>4, <1>5, <2>4, <2>6, <2>7 DEF ForkWhole
<1>8. CASE ReplayEntry
  BY <1>1, <1>4, <1>8, GenesisReplay DEF RegistryInv
<1>9. CASE Ready
  <2>1. /\ pc = "replaying" /\ pc' = "up" /\ cursor = Len(log)
        /\ UNCHANGED <<todo, heads, byName, nextBranch>> /\ todo = <<>>
        /\ branches' = [c \in Branches |-> IF branches[c].live /\ heads[c] # ZERO
                                       THEN [branches[c] EXCEPT !.next = @ + 1] ELSE branches[c]]
    BY <1>0, <1>9 DEF Ready, store, Calling
  <2>2. \A c \in Branches : /\ branches'[c].live = branches[c].live
                            /\ branches'[c].fork = branches[c].fork
                            /\ branches'[c].name = branches[c].name
    <3> TAKE c \in Branches
    <3>1. branches[c] \in Branch
      BY <1>0 DEF Memory
    <3> DEFINE d == [branches[c] EXCEPT !.next = @ + 1]
    <3>2. d.live = branches[c].live /\ d.fork = branches[c].fork /\ d.name = branches[c].name
      BY <3>1 DEF Branch
    <3>3. branches'[c] = branches[c] \/ branches'[c] = d
      BY <2>1
    <3> HIDE DEF d
    <3> QED BY <3>2, <3>3
  <2>3. Folding = Len(log) /\ Folding' = Len(log) /\ \A c : ~Creating(c)
    BY <1>3, <2>1 DEF Folding, Creating
  <2>4. HeadsWhole'
    BY <1>1, <1>3, <2>1, <2>3 DEF HeadsWhole, On
  <2>5. byName \in [Names -> Branches] /\ \A k \in 1 .. Len(log) : log[k].branch \in Branches
    <3>1. log \in Seq(Entry) /\ byName \in [Names -> Branches]
      BY <1>0 DEF Durable, Memory
    <3>2. \A k \in 1 .. Len(log) : log[k] \in Entry
      BY <3>1
    <3> QED BY <3>1, <3>2 DEF Entry
  <2>6. BranchesWhole'
    <3>1. NamesWhole'
      BY <1>1, <2>1, <2>2, <2>5 DEF BranchesWhole, NamesWhole, Registered
    <3>2. \A c \in Branches : branches'[c].live => c = Main \/ \E j \in Made(Len(log)) : log[j].branch = c
      BY <1>1, <2>1, <2>2, <2>3 DEF BranchesWhole, Registered
    <3>3. ASSUME NEW k \in Made(Len(log)), log[k].branch \notin discarded
          PROVE  /\ branches'[log[k].branch].live /\ branches'[log[k].branch].fork = log[k].from
                 /\ byName[log[k].name] = log[k].branch
      <4>1. Kept(k) /\ log[k].branch \in Branches
        BY <1>1, <2>1, <2>3, <2>5, <3>3 DEF BranchesWhole, Made
      <4> QED BY <2>2, <4>1 DEF Kept, Registered
    <3>4. \A k \in 1 .. Len(log) : log[k].branch < nextBranch
      BY <1>1, <2>1, <2>3 DEF BranchesWhole
    <3> QED BY <1>3, <2>1, <2>3, <3>1, <3>2, <3>3, <3>4 DEF BranchesWhole, Made, Kept, Registered
  <2> QED BY <1>4, <1>5, <2>1, <2>4, <2>6 DEF ForkWhole
<1> QED BY <1>6, <1>7, <1>8, <1>9

LEMMA GenesisStep == TypeInv /\ CountInv /\ RegistryInv /\ GenesisInv /\ [Next]_vars => GenesisInv'
<1> SUFFICES ASSUME TypeInv, CountInv, RegistryInv, GenesisInv, [Next]_vars, Whole'
             PROVE  ~gapped' /\ LogWhole' /\ HeadsWhole' /\ BranchesWhole' /\ ForkWhole'
  BY DEF GenesisInv
<1>1. Whole
  BY WholeBack
<1>2. ~gapped /\ LogWhole /\ HeadsWhole /\ BranchesWhole /\ ForkWhole
  BY <1>1 DEF GenesisInv
<1>3. AppendsRegistered /\ LiveBelowNext
  BY <1>1 DEF RegistryInv, Strayless, Whole
<1>4. CASE AppendEntry
  <2>1. gapped' = gapped
    BY <1>4, Appended
  <2> QED BY <1>2, <1>3, <1>4, <2>1, GenesisAppend
<1>5. CASE AdvanceHead \/ WriteSnapshot \/ WriteCheckpoint \/ InstallStates
  <2>1. gapped' = gapped
    BY <1>5 DEF AdvanceHead, WriteSnapshot, WriteCheckpoint, InstallStates, ghosts
  <2> QED BY <1>2, <1>5, <2>1, GenesisCall
<1>6. CASE \/ \E b \in Branches : Write(b)
           \/ \E name \in Names, b \in Branches : CreateBranch(name, b)
           \/ \E name \in Names : DiscardBranch(name)
           \/ \E s, t \in Branches : Merge(s, t)
           \/ Release \/ Shutdown
  <2>1. gapped' = gapped
    BY <1>6 DEF Write, CreateBranch, DiscardBranch, Merge, Release, Shutdown, ghosts
  <2> QED BY <1>2, <1>6, <2>1, GenesisCalls
<1>7. CASE Halt \/ Crash \/ LoseSnapshot \/ Open \/ ReplayEntry \/ Refuse \/ Ready
  BY <1>1, <1>7, GenesisProcess
<1>8. CASE UNCHANGED vars
  <2>1. /\ UNCHANGED <<log, pc, todo, cursor, heads>> /\ UNCHANGED <<branches, byName, nextBranch>>
        /\ UNCHANGED <<discarded, gapped>>
    BY <1>8 DEF vars, disk, recovery, store, registry, ghosts
  <2>2. Folding' = Folding
    BY <2>1 DEF Folding
  <2>3. LogWhole'
    BY <1>2, <2>1, LogWholeKept
  <2>4. HeadsWhole'
    BY <1>2, <2>1, <2>2 DEF HeadsWhole, On, Creating
  <2>5. BranchesWhole'
    BY <1>2, <2>1, <2>2 DEF BranchesWhole, NamesWhole, Made, Kept, Registered, Creating
  <2>6. ForkWhole'
    BY <1>2, <2>1 DEF ForkWhole, On, Made, Registered
  <2> QED BY <1>2, <2>1, <2>3, <2>4, <2>5, <2>6
<1>9. ~AppendFails /\ ~CheckpointFails
  BY WholeSteps
<1> QED BY <1>4, <1>5, <1>6, <1>7, <1>8, <1>9 DEF Next

LEMMA GenesisInit == Init => RegistryInv /\ GenesisInv
<1> SUFFICES ASSUME Init PROVE RegistryInv /\ GenesisInv
  OBVIOUS
<1>1. pc = "down" /\ log = <<>> /\ todo = <<>> /\ gapped = FALSE
  BY DEF Init
<1>2. RegistryInv
  BY RegistryNothing DEF Init, Nothing
<1>3. LogWhole
  BY <1>1 DEF LogWhole, ChainUnbroken, BranchIdsUnique, OfKind, Made
<1>4. HeadsWhole /\ BranchesWhole /\ ForkWhole
  BY <1>1 DEF HeadsWhole, BranchesWhole, ForkWhole
<1> QED BY <1>1, <1>2, <1>3, <1>4 DEF GenesisInv

(* Until a checkpoint covers an entry, and while no write failed or went to a  *)
(* branch that is not there, every opening rebuilds what the log says: each   *)
(* branch's head, its name and fork point unless discarded; no entry starts a *)
(* branch over, and no id is given twice (durable.rs, index and assemble;     *)
(* branches.rs, restore).                                                     *)
THEOREM ReplayIsWhole == Spec => []GenesisReplayIsWhole
<1>1. ASSUME TypeInv, GenesisInv PROVE GenesisReplayIsWhole
  <2> SUFFICES ASSUME Whole PROVE HeadsFoldLog /\ ChainUnbroken /\ BranchesSurvive /\ BranchIdsUnique
    BY DEF GenesisReplayIsWhole
  <2>1. LogWhole /\ HeadsWhole /\ BranchesWhole
    BY <1>1 DEF GenesisInv
  <2>2. log \in Seq(Entry) /\ DOMAIN log = 1 .. Len(log)
    BY <1>1, TypeParts DEF Durable
  <2>3. HeadsFoldLog
    <3> SUFFICES ASSUME Idle, NEW i \in DOMAIN log
                 PROVE  LET mine == {j \in DOMAIN log : log[j].branch = log[i].branch}
                        IN  heads[log[i].branch] \in mine /\ \A j \in mine : j <= heads[log[i].branch]
      BY DEF HeadsFoldLog
    <3>1. pc = "up" /\ Folding = Len(log)
      BY DEF Idle, Folding
    <3>2. log[i].branch \in Branches
      <4>1. log[i] \in Entry
        BY <2>2
      <4> QED BY <4>1 DEF Entry
    <3>3. {j \in DOMAIN log : log[j].branch = log[i].branch} = On(log[i].branch, Len(log))
      BY <2>2 DEF On
    <3>4. i \in On(log[i].branch, Len(log))
      BY <3>3
    <3> QED BY <2>1, <3>1, <3>2, <3>3, <3>4 DEF HeadsWhole
  <2>4. BranchesSurvive
    <3> SUFFICES ASSUME Idle, NEW i \in OfKind({"branch"}), log[i].branch \notin discarded PROVE Kept(i)
      BY DEF BranchesSurvive, Kept
    <3>1. pc = "up" /\ Folding = Len(log)
      BY DEF Idle, Folding
    <3>2. i \in Made(Len(log))
      BY <2>2 DEF OfKind, Made
    <3> QED BY <2>1, <3>1, <3>2 DEF BranchesWhole
  <2> QED BY <2>1, <2>3, <2>4 DEF LogWhole
<1>2. Init => TypeInv /\ CountInv /\ RegistryInv /\ GenesisInv
  BY TypeInit, CountInit, GenesisInit
<1>3. TypeInv /\ CountInv /\ RegistryInv /\ GenesisInv /\ [Next]_vars
      => (TypeInv /\ CountInv /\ RegistryInv /\ GenesisInv)'
  BY TypeStep, CountStep, RegistryStep, GenesisStep
<1> QED BY <1>1, <1>2, <1>3, PTL DEF Spec
=============================================================================
