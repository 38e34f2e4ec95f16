# ThetaBase: specifications, model checking and proofs

ThetaBase is a log-structured, branchable database engine for data and schema
changes written by agents. This directory holds TLA+ models of the parts of it
where order, failure and accumulated history decide whether it is correct: from
the write-ahead log through recovery, branches, merges, gated schema changes and
queries to the clients that speak to the server over a socket.
Everything is written from the sources under `src/crates` and `src/sdk`; the
documents under `src/docs` are quoted only where they and the code disagree.

Contents: [inventory](#inventory-of-the-system) ·
[modules](#modules-and-what-they-stand-for) · [runs](#runs) ·
[findings](#disagreements-found) · [fairness](#fairness) · [proofs](#proofs) ·
[limits](#what-is-not-modelled-and-known-limits) · [plan](#plan)

`tlc -config X.cfg M` runs a model, `tlapm M.tla` checks a proof module.
`PROJECT.json` lists components, runs, the mutants that break each property, the
source lines behind every definition, hazards, findings and theorems.

## Inventory of the system

One `thetad` process serves one project. Connections (tokio tasks) read framed
requests, authorize each against a shared `Authorizer`, and send it over a
bounded channel to the one task that owns the `Engine`. The engine is
sequential: it checks gates, appends entries to a `DurableLogStore`, folds them
into in-memory views and keeps the proposal, shadow-branch, budget and breaker
state of the Safety Layer. The store appends to the segment WAL, and now and then
writes a snapshot and a WAL checkpoint. The log is the only durable state;
everything else is a fold of it, or is lost with the process. An archiver (a crate
with its own schedule) moves segments below the checkpoint to an object store.

| Component (module) | State | Operations | What is hard | What makes it correct |
| --- | --- | --- | --- | --- |
| **Segment WAL** (`Wal`) | segment files, CHECKPOINT, position, data key | `append_batch`, rolling, `checkpoint`, `release_segment`, `recover_at` | crash between write, fsync, directory fsync and rename; failed writes that leave bytes; encryption turned on or off between restarts; recovery that crashes | acknowledged records survive; order kept; crashes alone never make recovery refuse |
| **Durable store, branch registry** (`DurableStore`) | applied count, snapshot, heads, entries, views, ids, fork points | `append_and_apply`, snapshot + checkpoint, `assemble`, `create_branch`, `discard_branch` | two files that must agree; checkpoint errors after a durable append; released segments with a lost snapshot; a registry rebuilt from the part of the log that was replayed | each durable entry is folded once; snapshot and checkpoint are of one prefix; reopening shows what was written |
| **Branch merge, merge queue** (`Merge`, `MergeQueue`) | queued merges, speculative target | `merge`, enqueue, revalidate, withdraw, land | repeated and crossing merges; what lands ahead; a landing that fails half way | conflicts go to a person; a queued merge lands as promised |
| **CRDT values** (`CrdtStates`, `Crdt`) | PN-counter, LWW register, OR-set, RGA sequence | `apply`, `merge` | identities and tags travelling through merges and replays | merge is commutative, associative, idempotent; a value is the sum of its operations |
| **Materialized view, rows** (`View`, `Rows`) | rows, tables, versions, indexes, CRDT states | put, put-if, transaction, batch, schema change, restart | indexes kept through schema changes and replays; preconditions read before other writers | an index loses no row; a conditional put never overwrites an unread write |
| **Query engine** (`Query`, `Sql`) | none (statistics) | build, render, parse, optimize, execute | rewrites, index choice and row budgets that must keep meaning; text written by one side and read by the other | optimized plan = plan; what was built is what is answered |
| **History readers** (`History`, `Completeness`) | anchors, consumer positions | as-of reads, diffs, change feed, provenance, attribution, inclusion and completeness proofs | a log that grows, forks and is cut by a restart; snapshots taken before | the past stands; proofs are sound and complete |
| **Verifier, anchors** (`Integrity`) | pass in progress, anchors, receipts | `maintain`, `verify_anchors` | a pass in slices over a growing chain; a sink that forgets or is gone | no false alarm; a pass covers its chain; no accusation without cause |
| **Signing** (`Signing`) | book, session keys | `register_session_key`, `append_signed`, `verify_signatures` | envelopes late, twice, or after a key changed; a book that is memory beside a log that is disk | verified if and only if signed, in this life, with the keys of now |
| **Regions, synchronisation** (`Regions`, `Sync`) | placement, floors, positions; replica logs | place, write, merge home, follow, read; digest, plan, rebase | readers moving between followers; entries exchanged by any route | no caller reads backwards; same entries, same state |
| **Engine task, connections, authorizer** (`Server`) | bounded queue, handler phases, RwLock over revocations | accept, Hello, request, revocation push, maintenance, stop | guards held over awaits; queue at its limit; lists late, twice, out of order | revocations land and stay; a revoked token's request is not executed; nothing dropped at a stop |
| **Gated schema changes, shadows, review budget, breaker** (`Proposals`) | pending proposals, shadow branches, reservations, samples | propose, apply, validate, promote, reject, collect, settle, trip | proposals re-proposed and outlived by their shadows; data moving while they wait; rolling windows | no row lost without approval; promotion does what was validated; commitments within every ceiling |
| **Gates, policy, claims, triage, replay** (`Gates`, `Safety`) | policy in force, recorded decisions | classify, gate, claim, push a policy, review queue | thresholds lowered by claims, policies replaced while proposals wait | claims lose nothing; only newer genuine policies apply; the queue hides nothing |
| **Audit trail** (`Trail`) | file of sealed or plain lines, recent window | open, append, review | a line torn by a death or an error; wrong key or project | an uncut trail keeps every entry, in order |
| **Spend budget** (`Spend`) | samples per scope | `may_spend`, `record_spend` | admitted on an estimate, charged later, rolling window | what is counted is what was charged |
| **Cold archive** (`Archive`) | manifest, objects, schedule | tick, sweep, release, expire, restore, drill | a store that fails half way or loses its answer; manifest saved later than segments are released | nothing released before it is proved recoverable; everything covered is released in the end |
| **Scribe client** (`Scribe`) | read caches, pool, token | get, put, change, refresh | reads racing own writes, lost connections, calls dropped in flight | own writes are read back; no reply reaches another caller |
| **Bindings** (`Binding`) | call queue, session, socket buffer | call, exchange, abandon, bytes, close | frames in pieces, answers behind a close, refusals without an id | a caller is told what became of its own request |
| **Migration from Postgres** (`Eject`) | plan, cursor, findings | reflect, plan, propose, copy, verify | a source that changes meanwhile, writes that fail or land late, re-runs | no difference unseen; an undisturbed run is clean |
| Login, describe, embed, MCP, CLI screens, code generation, other SDKs, deployment | credentials | – | – | not modelled, see [limits](#what-is-not-modelled-and-known-limits) |

The hazards behind this table, each at the line where it bites, are in
`PROJECT.json` under `hazards` with the properties aimed at them.

## Modules and what they stand for

```
DurableLog  <-- implemented by --  Wal                    (refinement in MCWal)
   the log as one sequence  -->  DurableStore             (MCDurableStore: two instances)
CrdtStates  -->  Crdt ------------------------+
Integrity, Merge --> MergeQueue, Signing,     |
Regions, View --> Gates --> Safety,           +-->  MCOperations
Trail, Spend ---------------------------------+
View --> Query --> Rows ----------------------+
View --> History, Completeness, Sync,         +-->  MCReaders
Query --> Sql, Scribe, Eject, Binding --------+
Server, Proposals, Archive                           (a run each)
```

Between the parts and the two runs stand the modules the theorems are about:
`OnePart`, `Ledgers` and `InstanceParts` for `MCOperations`, `ReaderParts` for `MCReaders`.

An entry's hash is its place in the log (or, in `Completeness` and `Sync`, the
term it is the hash of), so no two entries collide; everything else about a
chain is the code's.

**`Wal`** – `disk` is the segment files, each a sequence of cells (a header, then
records); `synced` counts the cells an fsync covered, `named` says the directory
entry is durable. One action per point where a process can stop:
`Submit`, `Roll`, `RollDone`, `WriteBatch`, `Ack`, then `WriteFails`,
`SyncFails`, `RollFails` (before, within or after the new file's header) and
`DirSyncFails` (after a rename or an unlink) for errors the process survives,
`CheckpointRename`, `CheckpointDone`, `Release`, `ReleaseDone`, and `Kill` (the process dies, its
writes stay in the page cache), `PowerLoss` (what was not synced may go, in any
prefix, the last cell torn), `Rekey`. An fsync of the directory names every file
in it and settles every removal (`SyncDir`). Recovery is `RecoverFresh`,
`RecoverRefuses` (which truncates before it refuses, as the code does),
`Recover` and `Opened`; it can crash like everything else.

**`DurableLog`** – the abstract specification: a sequence of records that
grows, of which a batch is acknowledged only when all of it is in.
`MCWal!ImplementsDurableLog` maps `Wal` to it: the abstract log is what recovery
from genesis would read if the machine lost power now.

**`DurableStore`** – the log is the sequence `Wal` implements, so an entry's hash
is its index. A view is the set of entries folded into it (with a mark when one
is folded twice). A call is a list of steps in `todo` (append, advance the head,
snapshot, checkpoint, install merged states), so crashes and failures fall
between them. `Open`, `ReplayEntry`, `Refuse` and `Ready` are `assemble` and
`Engine::open`. A snapshot or a checkpoint may fail with its new file in place
(`CheckpointFails`), and neither a write nor a fork asks whether the branch it
names is there (`MaxStrays` bounds the cases where it is not). `truth` is a history
variable: what clients were promised each branch holds.

**`CrdtStates`, `Crdt`** – the four CRDTs as values with `ApplyOp`,
`MergeStates` and `Value`; then one row on all branches under operations, forks,
merges and a genesis replay. `path` is the chain `LogStore::history` walks.
`seen` is a history variable: the operations a branch's state stands for, and
what each removal had observed, which `ValueIsFold` compares the state with.

**`Server`** – one handler per client, whose `phase` is the await it is in;
tokio's fair RwLock as a FIFO of waiters and a set of readers; the engine's
bounded queue; `Maintain`/`SinkReturns` for anchoring on the engine's task;
revocation lists numbered by version, pushed in any order; `Shutdown`,
`EngineStops`, `Exit`. The model holds the read guard exactly where the Rust
temporaries do: over the Hello, and over the engine call.

**`Proposals`** – one action per engine request (`Propose`,
`ProposeWithinBudget`, `ValidateShadow`, `ApplySchemaChange`, `PromoteShadow`,
`RejectShadow`, `Merge` of a shadow, writes to targets and shadows,
`PushPolicy`) and the maintenance pass `CollectExpired`. Views are declared
tables and present rows; the merge that promotion goes through is `merge.rs`
restricted to whole-table changes and row presence. The breaker's samples leave
from the front of its window, up to the first that stays, as `evict_expired` pops
them.

**`Archive`** – the log's rolls and checkpoints interleave with a tick, which
goes through its segments one at a time; each ends as one of the code's four
outcomes (`AlreadyArchived`, `Archived`, `Deferred`, `Failed`), and a store can
leave an object intact, altered or unreadable, or lose its answer. `Save`,
`Expire` and `Restart` are the owner's, between ticks. Restore plans and drills
read the state and are operators.

**`View`, `Query`, `Rows`** – `View` is `view.rs` as an operator: `ApplyOp` and
`ApplySchema` fold an operation into rows, versions, CRDT kinds and secondary
indexes, and `Candidates` is what an index answers. `Query` holds plans, the
rewrites (`PushDown`, `SelectIndexes`, `Simplify`), `Needed` budgets, evaluation
of predicates and aggregates, and result shapes. `Rows` runs them over one
branch: writers with versions they read before, batches, transactions, schema
changes, a query through the optimizer, and a restart that replays the log or
resumes from a snapshot.

**`Sql`** – the client's renderer (`Render`, `BoundParams`) and the server's
parser (`ParseSelect` and its clauses), over tokens. A behaviour builds a query
step by step, or writes a text clause by clause.

**`OnePart`, `Ledgers`, `InstanceParts`, `ReaderParts`** – instances of the smaller modules
side by side, each with constants and variables of its own, so that one run explores
them and theorems speak of the very properties it checks. `part` is the part whose
behaviour it is; the other parts' variables are `Idle`.

**`Merge`, `MergeQueue`** – the three-way merge of two histories as operators
(`SchemaConflicts`, `KeyConflicts`, `NewOps`, `MergedStates`), then the queue:
`Try` speculates on the target as it will be once everything ahead has landed,
`Revalidate` evicts, `LandNext` and `LandFails` land whole or in part. `sure` is a
history variable: the tickets whose answer nothing has disturbed since it was given.

**`History`** – one project's entries with branches and a consumer: `SnapshotAt`,
`AsOfTime`, `Diff`, `Since` (the change feed), `Provenance`, `Activity`,
`ExclusiveRows`, `Prove` and `Verifies`. `past` is a history variable: the rows
main had at each commit. **`Completeness`** is the authenticated map: `Leaves`,
`Levels`, `ProveRange`, `VerifyRange`, over every small map.

**`Integrity`** – `Engine::maintain` on a clock: `VerifierTick` takes a slice of
a pass, `PublishRefused` and the anchors follow their policy, the sink comes,
goes and forgets, and a restart leaves some chains unreadable (`orphan`).

**`Signing`**, **`Regions`**, **`Sync`**, **`Trail`**, **`Spend`** – one action
per operation of `signing.rs`, `region.rs`, `sync.rs`, `store.rs` and `spend.rs`
with the engine's part of each. Envelopes in `Signing` arrive late and twice;
followers in `Regions` lag; replicas in `Sync` send in any order; lines in
`Trail` are cut short by errors and deaths.

**`Gates`, `Safety`** – `Gates` is `impact.rs`, `classify.rs`, `policy.rs`,
`rationale.rs`, `proof.rs`, `triage.rs` and `replay.rs` as operators over
`View`; `Safety` is the engine around them: propose with or without a claim,
apply, push a signed policy, write, restart.

**`Scribe`** – tasks that call through handles which share a pool; each call's
`pc` is the await it is in, `wire` and `back` are what a connection carries. A
call can be dropped anywhere (`Lose`), its request still be served
(`ServeOrphan`), a token expire and be refreshed.

**`Binding`** – the TypeScript client's session and socket with the protocol
core's `ToWire` and `FromWire`, against a server that grants, refuses, stops,
or is newer. Every method the client offers is one of the calls. Steps of the event
loop run before the next socket event.

**`Eject`** – reflection, `PlanExcluding`, a dry run, declared and held tables,
keyset batches (`KeyAfter` as Postgres' row comparison), `Parse` and `Rounded`
for what a value keeps, `CompareRow` and the report. Others edit the source, a
stray write hits the target, an answer is lost and its write lands later.

`MCOperations` and `MCReaders` put parts that share no state into one run: `part`
says whose behaviour it is, and the parts' variables are shared names. A state of
the run is a state of one part, and each property speaks of the parts it names.
The other `MC*` modules give constants values; the `*Proofs` modules hold
theorems.

## Runs

Twelve runs: seven must pass, five show a disagreement. State counts are of
distinct states.

| Run | Bounds | Shows |
| --- | --- | --- |
| `wal` (601 k) | 4 segments of 3 cells, batches to 2, 5 records, 2 troubles in any mixture | `NothingLost`, `OrderKept`, `AlwaysReopens`, `ImplementsDurableLog` |
| `wal_fault` | 4 records, 1 trouble | `AckedSurvives` fails |
| `store` (4.7 M) | *resume*: main and one branch made before any checkpoint, 4 entries, checkpoint every 2, 3 lives, a lost snapshot, an I/O error, a write to or a fork of a branch that is not there, released segments; *branches*: 3 branches, 5 entries, 2 CRDT operations, a merge, 2 lives, no checkpoint | `ViewsSurvive`, `CountsMeanPrefixes`, `AlwaysOpens`, `GenesisReplayIsWhole` |
| `store_inherit` | as *resume*, the branch made after the checkpoint | `ViewsTrue` fails |
| `store_merge_two` | 3 branches, 6 entries, 2 merges, one life | `MergeKeepsStates` fails |
| `server` (497 k) | 2 clients, a genuine and a bad token, queue of 1, 2 requests, 2 pushes, 1 maintenance, 3 instants | `NothingServedAfterRevocation`, `NeverUnrevoked`, `StopsDrained`, `NobodyWaitsForEver` |
| `server_stalled` | 2 clients, 1 push, no assumption on clients | `RevocationsLand` fails |
| `proposals` (939 k) | drop and add of one table, a table beside it, 2 reservations, 3 log entries, 3 instants, TTLs of 1, windows of 2 and 1 | `CeilingsHold`, `OnlyWhatWasApproved`, `AnsweredReviewsStaySpent`, `ProposalsEnd` |
| `proposals_reused` | no time passes, no budget, 5 entries | `PromotionShipsTheChange` fails |
| `archive` (678 k) | 4 segments, window 1, 3 instants, 2 faults, 1 rot, 1 restart | `Recoverable`, `DrillsAgree`, `EventuallyReleased` |
| `operations` (836 k) | *crdt*: 3 branches, 3 operations, 2 merges, a restart; *integrity*: 2 branches, 3 entries, slices of 2, 2 lives; *queue*: 2 sources, one operation on each and on the target, 1 failure; *signing*: 2 secrets, 2 entries, 2 envelopes, 2 lives; *regions*: 2 regions, 2 followers, 2 keys; *gating*: 4 changes, 3 claims, 4 pushes; *trail*: 3 entries, 3 opens, 2 projects; *spend*: 2 agents, 3 pieces of work | `CrdtsConverge`, `LoggedIsShown`, `IntegrityIsHonest`, `PassesAndAnchorsCover`, `QueuePromises`, `SignaturesMatch`, `NothingGoesBack`, `GatesHold`, `LedgersHold` |
| `readers` (378 k) | *rows*: one table, 2 keys, 2 row values, 4 schema changes, 3 plans; *history*: 4 entries, a fork, a restart; *map*: every map of 3 keys and 2 values; *sync*: 3 replicas, 3 writes; *sql*: built queries of 4 parts and texts of 4 clauses; *scribe*: 2 tasks, 2 handles, pool of 1, 3 calls; *eject*: 3 relations, 2 runs, 2 disturbances; *binding*: 2 callers, 19 methods, 2 calls | `QueriesAreRight`, `PutsAreGuarded`, `HistoryStands`, `DiscardRecovers`, `ReplicasConverge`, `ClientsAreAnswered`, `MigrationsAreHonest` |

Every passing run but `proposals` and `store`, whose type invariants are within
`CeilingsHold` and `ViewsSurvive`, also checks a `TypeOK` or `TypesOK`. A
property such as `HistoryStands` is the conjunction of what its modules promise;
the conjuncts are named, stated and commented in the modules.

*Why the bounds are enough.* Each was chosen so that what a property is about
happens, and each property's mutants are caught within it. Three cells make a
segment roll after two records, so a batch of two can straddle a roll, and four
segments let recovery meet damage with segments before and behind it. Two
troubles are the least that make recovery itself crash, or a power loss follow
a key change. Three lives with an interval of two make a second snapshot follow a
lost first. Three branches are the least on which a branch receives another's
states through a third. Two clients are the least at which one's guard blocks
the other, and a queue of one is full while one request waits. The time bounds
in `proposals` make both windows slide while a proposal and its shadow lapse. A
window of one in `archive` lets a segment expire while its file is still held by a
refused release, be stored again, and be forgotten by a restart. Two queued
merges are the least where one is judged behind another. Two followers are
needed for a reader to move to an older one, and three replicas for an entry to
arrive by two routes. A pool of one makes a second call reuse the first's
connection. Three keys make a completeness map with a level of odd width, and a
range with a neighbour on each side. The composite key of `eject` has two parts
that disagree with the rows' order, and batches of two split it.

`MCReaders` says in comments which steps are taken only where they matter (a
restart when one entry is left to write, the last call of a client a get, and
the like); these cut repetitions, not orders of events that a property speaks of.

All of these systems really stop under their bounds (a `server` may exit), so
deadlock is not checked.

*Conditions in the properties*, each of which stands for a loss the code does have
or a promise it does not make:

- `SurvivesCrashes` speaks of crashes of one kind: after a process was killed by
  itself, recovery returns records that were never synced, and a power loss
  later takes them back. `InOrder` does too (`SameCrashes`): a kill in
  `create_segment` leaves a file whose directory entry was never synced, the next
  process takes it for its active segment, checkpoints in it and releases what
  lies below; a power loss before the directory is synced again takes it, and the log
  starts over at segment 0 below its own checkpoint (27 steps, without the condition).
- `AckedDurable` and the refinement speak of power losses, without failed writes
  (`wal_fault` is what a failed write does).
- `ViewsRecover` is about views: those of every id no client discarded, whether or
  not the registry still knows it, since a read names the id and goes to the view.
  It does not say that a branch is still registered. A recovery from a checkpoint
  registers only branches whose `BranchCreate` it replays (`engine.rs:612-619`), so
  one made below the checkpoint is gone from the registry after any restart, a clean
  shutdown included, and its name and its id are free for another, though
  `engine.rs:2709` says of the entry "Logged, so the branch survives a restart".
  `BranchesSurvive` checked by itself under `AloneSpec` shows it in 12 states (one
  branch, 3 entries, interval 2, 1 checkpoint, 2 lives, no fault); no run keeps this.
  `ViewsRecover` also exempts CRDT operations once there was both a merge and a
  restart: the states a merge installs are not in the log.
- `gapped` marks a replay from the first live segment because a snapshot was lost
  after the archive had released a segment; no claim is made of what follows.
- `GenesisReplayIsWhole` speaks of logs no checkpoint covers yet, without failed
  writes and without writes to ids nobody created (`Whole`). So it says nothing of
  what a recovery from a checkpoint does not read: part of that is lost, as the
  condition above and `store_inherit` show.
- The fork of a *discarded* branch is not in the run. Discards are not logged, so such
  a fork starts empty and shows the discarded branch's rows after a genesis replay.
- `AlwaysOpens` holds in the run, where the branch is made before any checkpoint.
  With one made after it and one stray write it does not: an entry written to an
  unregistered id is in the log when `create_branch` gives that id out and moves
  its head back below the checkpoint (`engine.rs:2700-2722`); the branch's next
  entry names a predecessor outside the window its branch already started in, and
  after a crash `assemble` refuses the log as broken (`durable.rs:284-300`).
- `PromotionTouchesOnlyItsTable` holds where every change to a branch is to one
  table, as in the run. Otherwise it does not: a row of `u` rewritten on a shadow
  of "drop `t`" comes back at the promotion if "drop `u`" was approved meanwhile,
  because the merge compares declarations with declarations and writes with writes
  (two changes, threshold 1, 7 states).
- `ValueIsFold` for registers and sequences, and `OrdersAgree`, assume
  `IdsUnique`: after a restart commit counters start over and identities repeat.
- `Recoverable` ends when a manifest saved before an expiry is loaded after it
  (`stale`). Without that condition TLC finds the loss: the archive of a segment
  succeeds but its release is refused, the manifest is saved, expiry forgets the
  segment, storing it again fails half way, the archiver restarts with the older
  manifest, takes the segment for archived, and releases it.
- `IndexLosesNothing` and `OptimizingKeepsTheAnswer` except indexes left behind
  by a rename, a dropped table, or a table declared over rows it already had
  (`stale`), and numbers beyond a float's precision.
- `UpdatesAreNotLost`, `ThePastStands`, `FollowerAgrees`, `DeclaredWhereItWas`
  and `AnchoredProofsStand` speak of an instance that never restarted: a restart
  from a checkpoint forgets versions and entries below it.
- `NothingOmitted` leaves out a proof with neither a match nor a left neighbour,
  which the code accepts as bounded below.
- `PassCovers` and the anchors speak of chains `history` can read; after a restart
  from a checkpoint `maintain` verifies an empty list where it cannot.
- `AppendedSurvive` speaks of trails in which no line was cut short, `PromiseKept`
  of merges nothing intervened with, `AdmittedFits` of work alone in flight,
  `ClaimsLoseNothing` of branches that did not move since the claim was proved.
- `OwnWritesSeen` excepts a value stored by a get that overlapped the write.
- `NoDifferenceUnseen` compares with what the importer would write (its own
  parser's reading of the source), and asks that nothing moves while verifying.
- `RenderedMeansBuilt` lets the server refuse empty lists, an offset without a
  limit, and columns named as keywords; `ToldTheTruth` excepts `promote`.

## Disagreements found

The five violation runs, as recorded under `findings`:

1. `wal_fault` (`wal.rs:325`): a failed write leaves its bytes in the file; the
   next acknowledged append lands behind them, and recovery truncates both.
2. `store_inherit` (`durable.rs:306`): a branch created after a checkpoint
   comes back from a crash without what it inherited.
3. `store_merge_two` (`merge.rs:383`): merging a second branch into a target
   whose own log never touched a counter replaces the first branch's states.
4. `server_stalled` (`server.rs:130`): the read guard outlives the check, so a
   client that never says Hello stops revocations, and every later reader.
5. `proposals_reused` (`engine.rs:2356`): a reused shadow branch validates and
   is promoted without carrying out the drop.

## Fairness

- `Server!Spec`: weak fairness of each handler, of `Dispatch` and of
  `SinkReturns`. Tokio polls a task whose await is ready; the lock and the
  channel are FIFO; the anchor sink is expected to have its own timeout
  (`service.rs`). Nothing is assumed of clients. `PromptSpec`, used by `server`,
  adds that a client that connected says Hello or leaves, which the code does not
  enforce; `server_stalled` is the run without it.
- `Proposals!FairSpec`: time passes, and `CollectExpired` runs, as the engine task
  runs maintenance between requests and on its interval.
- `Archive!FairSpec`: `StartTick` and `Sweep`, as `schedule::run` ticks until
  cancelled, whatever a tick found. Faults are finite in number by a bound,
  which stands for an outage that ends.
- Everything else checks safety only.

## Proofs

Proved with TLAPS for every value of the constants under each module's named
`ASSUME` (bounds are natural numbers, sizes positive, branch ids natural numbers
with 0 among them, genuine tokens among the tokens). A theorem with a condition of
its own states it as an `ASSUME`.

**`WalProofs`** (`TypeCorrect`). `TypeOK` is inductive with `acked` and
recovered ids at most the number submitted. The work is in the operators that
choose: `Oldest`, `Newest` and `ValidEnd` are shown to exist by
well-foundedness of `<`, then truncation, cutting and repair to return files,
and each action is one step.

**`WalProofs`, what survives** (`LogLosesNothing`, `LogKeepsOrder`, `LogAlwaysReopens`).
Two invariants over `TypeInv`. `OrderInv` says where records may lie,
whatever I/O errors there were: ids grow along a file and from file to file
(`Ordered`), nothing lies at or above the batch in progress (`Under`), nothing
above the active segment (`AtTop`), a checkpoint's segment is there and only what
lies below it was released (`Anchors`), and without kills every file but the one
being created is named (`Named`). `CrashInv` says what can be read while no call
failed: each file is whole, or it is the last one, cut by a crash, and the
process is down (`FilesWhole`); the process is at the end of the last file
(`ActiveFile`, `BatchInv`); a checkpoint's position can be read (`Checkpoints`);
what was acknowledged or recovered is in some file (`Held`); and what a power
loss could take is the write in progress (`Settling`). `NothingLost` alone is far
from inductive: a recovery keeps it only because what it truncates is the last
file's torn tail, and a release because the checkpoint is above the file.

**`WalProofs`, the refinement** (`LogRefines`). `ImplementsDurableLog` maps
`log` to what a power loss at this instant would leave in the segments, `inflight`
to the batch between `Submit` and `Ack`, and `promised` to `acked`. The proof takes
`OrderInv` and `CrashInv` and one more fact, `Unsynced`: a batch being written is
past what is synced, so the log does not hold it yet. Then each action either leaves
every file's durable records as they were (`RollSame`, `WriteUnsynced`,
`ReleaseSame`, `RecoverSame`, ...), or changes those of the active file, after which
no file has any, so what is added there is added to the whole (`LogAppends`):
`Ack` adds the batch, a `PowerLoss` some prefix of it. `RecoverSame` is where the
work is: a repair cuts the file exactly after its last readable record, whatever is
synced there. `FlattenSeq` is a recursion hidden in a `CHOOSE`; its table is shown
to exist for every length by hand (`JoinsExist`), which needs no induction theorem.

**`StoreProofs`** (`TypeCorrect`, `CountsAreRight`, `AlwaysReopens`,
`ReplayIsWhole`). `CountsMeanPrefixes` needs to know how far a replay has come:
`CountInv` ties the count, the views and the entries known to `Folding`, which is
the cursor while replaying and the end of the log afterwards. `AlwaysOpens` is about
an error in a future recovery, so `LinkInv` says of the log as it stands that every
entry above the checkpoint names one inside the window or opens its branch there
(`WindowLinks`), that the next one will (`HeadsLink`), and that no entry above the
checkpoint is on a branch yet to be created (`NewIsUnwritten`). The last is where
the theorem needs its condition, `MaxStrays = 0 \/ ForkCkpts = 0`; see `AlwaysOpens`
above for the counterexample without it. `GenesisInv` says that the heads, names and
fork points are folds of what was read, a branch in the middle of being made apart.

**`ProposalsProofs`** (`CeilingsAlwaysHold`, `AnsweredStaysSpent`,
`UnconfirmedKeepsRows`, `PromotionStaysInItsTable`, `ApprovedIsAllThatHappens`).
The model's views, effects and totals are folds. The library's induction theorems
take a predicate as a parameter, which no installed prover can instantiate, so
the module has its own, about sets: a set of numbers with 0 and every successor is
`Nat` (`Upward`, from well-foundedness of `<`), and a set of subsets with every
subset whose strict subsets it has is all of them (`SubsetsUpward`). From them
every fold has a unique table of partial results (`FoldExists`, `FoldUnique`,
`PrefixFold`), and from the tables come the facts the code relies on: a longer log
extends the view of a shorter one, a sum of costs is the sum over its parts, evicting
a prefix takes its rows off the total. The invariant `Inv` is then simple; the
work in it is `CommittedWithinCeiling`, which does not mention the time to come:
`Load` is the budget as a function of what is held, what is spent and the time,
and is shown to shrink as time passes, to grow by a reservation's own cost, and
not to grow at a settlement, where a review moves from one sum to the other with a
new date. `PromotionStaysInItsTable` follows a shadow branch and its target
from the fork (`Following`): while the validation is current, the two agree on every
row of another table that the target has not written since (`Agrees`), and what the
shadow wrote there is what it shows (`EntriesShow`), so what the merge carries
over is what was there. It assumes `OneTable`, without which it is false.

**`ServerProofs`** (`TypeCorrect`, `RevocationIsFinal`, `RevocationIsKept`,
`StopIsDrained`). `NothingServedAfterRevocation` is not inductive. The
invariant adds: a queued job's handler is `calling`, still holds a read guard, and
its token is not covered by the list in force (`Guarded`); a handler has one job
(`OneEach`); what was executed was answered or is about to be (`Tracked`); a
stopped engine has no handlers and no queue (`Over`); numbers are in range
(`Asked`). `ApplyPush` needs `readers = {}`, hence an empty queue, so no list
lands while a job waits. The same guard that causes finding 4
is what makes the revocation guarantee hold.

**`CopiesProofs`**: copies of the data that are kept apart.

- *CRDT states*. `CounterMerge`, `SetMerge` and `RegisterMerge` are the laws of
  `merge` (registers commute if no stamp was given to two values, as stamps carry
  branch and commit). `HistoryShown` proves `LoggedIsShown` until the first
  restart (it states `[](restarts = 0 => LoggedIsShown)`): merges install states
  computed elsewhere, and still no branch loses an operation of its own chain. The
  invariant says the head and the base lie on a branch's path and that two paths
  agree below a common entry (`HeadOnPath`, `BaseOnPath`, `PathsAgree`), because
  `Converged` decides from the logs since the *source's* fork point whether the
  target's state may be replaced.
- *Replicas* (`CopiesConverge`; `SyncInv`). Every log is one chain that holds no
  entry twice, every entry is in its writer's log, and any two logs agree on the
  order of the assignments to a key (`SyncAgree`). The last is what makes the state a
  function of the set of entries, and it is not kept by a log alone: a plan is made
  from two, and rebased.
- *Scribe's caches* (`TheCacheKeepsItsPromises`; `ClientInv`). `OwnWritesSeen` is about
  what a cache holds, while what goes into it was told by a server some awaits ago, over
  a connection another call used before. So the invariant follows a value from the
  server on: a row is its last write (`StoreOk`), no older than any the handle was told
  landed (`AcksOk`); each reply a call was given or has coming answers the request in
  the same place (`Exchanged`), with a value the key had since the call began (`Tells`),
  unless a write through the same cache overlaps it, and then the get is marked
  (`RacesMarked`); while a write is under way its cache has nothing of its keys but what
  a marked get stored (`Evicted`), so that an acknowledgement, which raises what the cache
  must not fall behind, finds nothing unmarked below it. The pool gets connections back
  only with nothing outstanding (`PoolOk`): that is what lets `Exchanged` begin at
  the first reply. A call dropped at any await keeps all of it.
- *A binding's session* (`TheSessionTellsTheTruth`; `SessionInv`). A byte is the frame it
  is of and its place in it, so what a socket has of a frame is a `Slice`, and `SliceSplits`
  says that a slice cut anywhere gives two. The callers in line each wait once
  (`InLine`), and identifiers go up one at a time, so only the first in line can be
  matched (`Numbered`). While it waits its request is with the server, or lost with
  it (`Unanswered`), or its answer is the last frame, of which some first bytes
  have arrived and the rest are in flight or gone with the connection
  (`Answered`); `Read` says which of those bytes the session was given, which a
  reader is owed and which are buffered. What a caller was told then follows from what the
  server did (`Told`): a success was done, a refusal was not.

**`ArchiveProofs`** (`TypeCorrect`, `NothingIsLost`, `DrillsMeanRestores`).
`Recoverable` is about files and objects while a tick trusts the manifest; `Listed`
(a listed segment's object is good, or `stale`) and `TypeOK`'s clause that what a
tick has yet to visit is still on disk close the gap. A drill of the whole archive
passes exactly when it could be restored, since a manifest's digests and lengths
are those of what was stored (`ManifestsShaped`).

**`PartsProofs`**: four parts of an instance, each a section with its invariant.

- *Signed writes* (`SignaturesAreHonest`; `SignInv`). An envelope may come late,
  twice, or after its key was replaced, so that what the book holds decides needs: a
  content this life appended is below the commit that is next on its branch, hence
  no later envelope has it, and if it came signed the book still has the signature
  (`SignBooked`); a session signs only what it writes itself (`SignOwn`).
- *Verifier and anchors* (`NeitherAlarmsNorVouchesFalsely`, `PassesAndAnchorsAreWhole`;
  `IntegInv`). A pass is a slice at a time over a chain that grows: it has seen all
  it is past of the chain it walks (`Walked`). An anchor is of an entry its branch
  still has, where it says if the chain can be read, and the sink has it as it was
  taken or not at all (`AnchorStands`). The action property follows one tick of the
  timer through the branches it anchors.
- *Regions* (`RegionsNeverGoBack`; `ReadInv`). A read compares with the caller's
  floor, while the promise is about all it was ever shown: for each key seen there is
  a floor at or above it (`FloorsCover`), which `Observed` keeps because it drops only
  lower floors. Nothing is assumed of how far a follower lags.
- *Audit trail* (`TrailKeepsWhatItAnswered`; `TrailInv`). Every entry answered for was
  written, the later the further on (`TrailWritten`), and the file an instance is up on
  is one it may read to the end (`TrailMatches`). While no line was cut, lines are
  numbered, and an instance shows them all but one it failed to answer for
  (`TrailUncut`).

**`GatingProofs`, gates** (`TheGatesHold`, `PoliciesNeverGoBack`; `GatesInv`). A lowered gate was
lowered by a claim that held on the branch's rows, and still does while nothing was
appended to the branch (`PendingOk`); a recorded decision is what the policy it was
taken under says of what it was taken on (`TrailOk`); schema changes and writes leave a
view its shape (`Shape`). That gates are monotone is about all policies and sizes and
needs no invariant.

**`GatingProofs`, the queue of merges** (`TheQueueKeepsItsPromises`; `QueueInv`). A sure
merge is what merging behind those ahead of it comes to *now*, with the histories and
views of now (`PromisesOf`), and nothing is sure behind a merge that is not
(`SureFirst`). The step that needs work is a landing (`LandingShifts`): behind the
head and on the target as it was, or at the front and on the target as it is after the
head has landed, a merge reads the same operations (`ReadingJoin`, a history's reading
joins as the history does; `BookkeepingUnread`, the landing's own entry is not read)
and the same CRDT states (`SpecJoin`), and it depends on nothing else (`MergeReads`).
`Revalidate` is an induction over the queue (`AllKeptWell`). The hypothesis
`MergeQueueAssumption` is that the target is not one of its own sources and a
transaction holds a sequence of operations.

**`ProposalsProofs`, the spend ledger** (`TheLedgerHolds`; `LedgerInv`). The samples a scope
keeps are all the charges still in its window (`Kept`), and what a piece of work was
answered stays true of the charges made before it, as they only become fewer
(`Promised`).

In these modules `part` says whose a behaviour is, as in the runs. A theorem
about a property that speaks of several parts has `[](part = ...)` in its
hypothesis and the specification of that part; another part's half is another theorem
(`NothingGoesBack`, `LedgersHold`) or is only model-checked (the parts of
`QueuePromises` about review: `QueueIsHonest`, `ReviewsTheRiskiest`, which sort).

*Only model-checked*: all liveness (`NobodyWaitsForEver`, `RevocationsLand`,
`ProposalsEnd`, `EventuallyReleased`), since ENABLED and fairness are out of
the prover's reach; what `View`'s users `Query` and `Sql` compute, which declare
`RECURSIVE` operators, and with them `QueriesAreRight`, `PutsAreGuarded` and what
else `Rows` says; `CrdtsConverge` beyond `CopiesProofs`, `ViewsSurvive`,
`HistoryStands`, `DiscardRecovers`, and `MigrationsAreHonest`.

## What is not modelled, and known limits

`PROJECT.json` gives every component's status and reason. Not modelled: login
(an OAuth dialogue, sequential, with outside services), content hashes and ciphers
(a hash is what it was taken of), the embedded engine and the MCP server (they
wrap the engine and keep nothing), the command line's screens, code generation,
the other SDKs, deployment, and benchmarks. Within the modelled parts:

- `Wal`: bytes are cells; a read error during recovery and a checkpoint at a
  position other than the log's own are left out (the store passes its own).
- `DurableStore`: each plain write has a key of its own, so plain writes never
  conflict; the WAL's own failures are the sequence's. Fork after a checkpoint is
  in `store_inherit` only.
- `Crdt`: widths of counters, values in sequences, plain writes to the row, and
  resumption from a snapshot.
- `Server`: what a request does; frames fit the socket's buffer. An instance that
  waits for its first revocation list can only get it over a connection, and a
  handshake needs a list: with `StartsSynced = FALSE` no `Push` is ever enabled.
  No run keeps this.
- `Proposals`: whole-table changes, presence of rows only; not restarts (all of its
  state is in memory, and a restart loses it) or a failing append. Claims and
  column changes are in `Safety`, without shadows and budgets.
- `Archive`: `AT1` framing and the S3 client are the store's outcomes. Restore
  plans start at segment 0, so none succeeds after an expiry. A drill compares
  lengths, not digests, so it misses an object altered at its length
  (`DrillsAgree` is about the others, and while nothing has expired: it compares a
  drill with the restore that follows, and does not see a hole). `expired()` takes a prefix of the
  manifest's keys: with segments 0 and 2 archived and 1 failed, it leaves a
  hole (seen with five segments). `schedule::run` never saves the manifest.
- `Query`: averages, rounding of floats, cost estimates. `Sql`: characters.
- `Sync`, `Regions`: nothing in `thetad` moves entries between instances yet, so
  the transport is the model's.

Noticed while reading or modelling, beyond the five findings. Where a property
touches one of these, its condition (above) says so.

*Engine and store.* A branch made below a checkpoint is no longer registered after a
restart from it. `discard_branch` is not logged, so a restart brings the
branch back; a shadow branch's entries are in the log without a `BranchCreate`;
a crash between `File::create` and the audit header makes every later open
`Malformed`; a write that failed is followed by others behind its bytes in the
audit trail too. Commit counters of a reopened branch start over. A policy's
version is reset at a restart, so an older push replays. `put_if` after a restart
from a checkpoint compares with versions that were forgotten.

*Reviews.* Promotion and approval check no deadline, only the next maintenance
pass does; proposing the same change twice within budget leaks the first
reservation until its TTL; `propose_with_claim` reserves no review; a claim
proved at propose is not proved again at apply; a raw merge of a shadow branch
bypasses promotion; the protected-branch rule and the classifier disagree about
lenient policies (`classify.rs:106-112`, `policy.rs:125-126`);
`AlterColumnType.from` is the caller's word; `recorded_decisions` counts the
entries of validations and promotions as unreplayable; the spend budget is asked
by no request.

*Merges.* `land_next_merge` removes the request before it merges; a queued merge
whose source is discarded lands against no base; a merge that failed half way is
not repeated as the same merge; a route may name a discarded branch.

*Rows and queries.* `Delete` of a CRDT key leaves its state; dropping rows or
renaming a column leaves versions and indexes behind, and a dropped table its
index covers; altering a type converts no row; index bounds pass integers through
a float; a transaction's two puts can share a unique index, and a batch checks
none; sorting by mixed columns is not a total order; a limit with an offset
inside another limit is budgeted short; `SELECT *, COUNT(*)` drops the `*`.

*Readers.* A cursor at the beginning never delivers commit 0; after a restart
from a checkpoint the feed skips what is below it without saying so; an empty
completeness proof verifies any root; provenance loses or misdates a column a
rename touched; a digest says nothing of which instance it is from; where
`history` fails the verifier reports a pass over nothing.

*Clients.* The TypeScript and Python `promote` expect a commit where the server
answers with a merge, so every promotion that succeeded throws; their `merge` and
`describe` send what the core does not read; an unreadable request is answered
with id 0, which a client reports as a lost stream; gate errors lose their diff;
query parameters arrive as texts; `useBranch` moves calls already queued. The
Rust client's `merge` clears only its own handle's cache, a cache disabled by a
TTL of 0 comes back with `on_branch`, an expired token is not retried through a
`SwappableToken`, and `put_many` reports an error though other rows landed. The
pool's size bounds idle connections only.

*Migration.* `eject` treats a table whose gate is `AutoApply` as declared,
though `propose` applies nothing; it verifies the schema against the reflection
it was made from; a loss in the importer's own parser is invisible to its
verification, a row only in the target is never looked for, and its cursor is
never saved.

## Plan

Done: the log and its refinement, the store, the server, proposals, CRDTs and
the archive; then the view, rows and queries, SQL on both sides, merge and its
queue, history, completeness, integrity, signing, regions, synchronisation,
gates and policies, audit and spend, and the clients and the migration.

Left to prove: `DurableStore`'s `ViewsRecover` while there are no merges, and
`DurableLog` with deaths of the process alone, which leave unsynced bytes to read.

To model, if more is wanted: `Proposals` with column changes and claims in the
same run, a `Server` whose engine is `Rows`, and the `AT1` object format.
