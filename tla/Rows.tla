-------------------------------- MODULE Rows --------------------------------
(* One branch of the engine as its writers and readers use it: puts, puts      *)
(* conditional on a version, transactions, batches and schema changes against  *)
(* the live view; queries through the planner's statistics; and an instance    *)
(* that stops and comes back from its log or from a snapshot (thetad           *)
(* engine.rs, theta-storage durable.rs). The breaker and the review of schema  *)
(* changes are Proposals's.                                                    *)
EXTENDS Query

CONSTANTS Tables, PrimaryKeys, RowValues, Writers,
          Changes,       \* the schema changes proposed
          FirstSchema,   \* the table definitions a new database is given
          Plans,         \* the queries asked, with Bindings
          Bindings,
          Probes,        \* <<column, bound>>: what the indexes are asked
          MaxEntries, MaxLives

NoRead == [key |-> <<>>, version |-> 0, at |-> 0]

VARIABLES
  view,      \* the branch's view
  log,       \* its entries: commit and operations
  next,      \* the branch's next commit
  stats,     \* the planner's statistics
  held,      \* what each writer read, once: key, version, how long the log was
  stale,     \* <<table, column>>: columns whose index missed a change to the rows since it was built
  lives
vars == <<view, log, next, stats, held, stale, lives>>

Keys == Tables \X PrimaryKeys
Put(key, row) == [op |-> "Put", key |-> key, row |-> row]
Delete(key) == [op |-> "Delete", key |-> key]
Crdt(key, kind) == [op |-> "Crdt", key |-> key, kind |-> kind]
Schema(change) == [op |-> "Schema", change |-> change]

\* -------------------------------------------------------------------- checks
(* A row whose columns all exist is refused where another row of the table     *)
(* holds the same values on a unique index.                                    *)
Held(index, r) == [i \in 1..Len(index.columns) |-> Column(r.pk, r.row, index.columns[i])]
Whole(values) == \A i \in 1..Len(values) : values[i].type # "missing"
Alike(xs, ys) == \A i \in 1..Len(xs) : SameValue(xs[i], ys[i])
Clash(index, a, b) == Whole(Held(index, a)) /\ Alike(Held(index, a), Held(index, b))
UniqueChecks(v, key, row) ==
  \A index \in {i \in Table(v, key[1]).indexes : i.unique} :
    \A r \in ToSet(Scan(v, key[1])) :
      r.pk # key[2] => ~Clash(index, [pk |-> key[2], row |-> row], r)
MayPut(v, key, row) == RowTypeChecks(v, key[1], row) /\ UniqueChecks(v, key, row)

Absent == -1
VersionOf(v, key) == IF key \in DOMAIN v.versions THEN v.versions[key] ELSE Absent

\* -------------------------------------------------------------------- writes
(* The columns whose index a schema change leaves behind the rows it moved. A  *)
(* table declared before it has rows leaves nothing behind, in a replay either.*)
CoveredOf(v, t) == {x \in v.indexes.covered : x[1] = t}
Declares(def, t) == {<<t, i.columns[1]>> : i \in {j \in def.indexes : Len(j.columns) = 1}}
LeftBehind(v, s, change) ==
  LET t == change.table
  IN  CASE change.kind \in {"AddIndex", "DropIndex"} -> {}
        [] change.kind = "RenameColumn" -> s \cup {<<t, change.column>>, <<t, change.to>>}
        [] change.kind = "DropTable"    -> s \cup CoveredOf(v, t)
        [] change.kind = "AddTable"     ->
             s \cup CoveredOf(v, t) \cup (IF Scan(v, t) = <<>> THEN {} ELSE Declares(change.def, t))
        [] OTHER -> s

(* One entry, and a log of them, on a view and its stale columns.              *)
Applied(at, entry) ==
  LET op == entry.ops[1]
  IN  [view |-> Apply(at.view, entry),
       stale |-> IF op.op = "Schema" THEN LeftBehind(at.view, at.stale, op.change) ELSE at.stale]
Resumed(v, entries) == FoldLeft(Applied, [view |-> v, stale |-> {}], entries)

(* append: the next commit of the branch, written and applied.                 *)
Append1(ops) ==
  LET entry == [commit |-> next, ops |-> ops]
      after == Applied([view |-> view, stale |-> stale], entry)
  IN  /\ Len(log) < MaxEntries
      /\ log' = Append(log, entry)
      /\ view' = after.view /\ stale' = after.stale
      /\ next' = next + 1
      /\ UNCHANGED <<stats, held, lives>>

PutRow1(key, row) ==
  /\ MayPut(view, key, row)
  /\ Append1(<<Put(key, row)>>)

Erase(key) == Append1(<<Delete(key)>>)
Mutate(key) == Append1(<<Crdt(key, "counter")>>)

Read(w, key) ==
  /\ held[w] = NoRead
  /\ VersionOf(view, key) # Absent
  /\ held' = [held EXCEPT ![w] = [key |-> key, version |-> view.versions[key],
                                  at |-> Len(log)]]
  /\ UNCHANGED <<view, log, next, stats, stale, lives>>

(* put_if with the version the writer read.                                    *)
PutIf(w, row) ==
  LET key == held[w].key
  IN  /\ key # <<>>
      /\ VersionOf(view, key) = held[w].version
      /\ MayPut(view, key, row)
      /\ Append1(<<Put(key, row)>>)

(* A transaction of two rows, both to be absent: each is checked against the   *)
(* view as it is, and neither against the other.                               *)
Transact(k1, r1, k2, r2) ==
  /\ k1[2] < k2[2]
  /\ VersionOf(view, k1) = Absent /\ VersionOf(view, k2) = Absent
  /\ MayPut(view, k1, r1) /\ MayPut(view, k2, r2)
  /\ Append1(<<Put(k1, r1), Put(k2, r2)>>)

(* A batch is checked for nothing.                                             *)
WriteBatch(key, row) == Append1(<<Put(key, row), Crdt(key, "counter")>>)

ChangeSchema(change) == Append1(<<Schema(change)>>)

\* ------------------------------------------------------------------- reading
Query(plan) ==
  /\ stats' = Analyzed(stats, view, SourceTable(plan))
  /\ UNCHANGED <<view, log, next, held, stale, lives>>

(* The answer a query gives now, and the one the rows alone give.              *)
Answered(plan) ==
  Execute(Optimize(plan, Analyzed(stats, view, SourceTable(plan))), view, Bindings)
Plain(v) == [v EXCEPT !.indexes = NoIndexes]
Expected(plan) == Execute(plan, Plain(view), Bindings)

(* A restart replays the log, indexes and all; or it takes the snapshot of a   *)
(* prefix, which has no indexes, builds them and replays the rest (here, a     *)
(* rest that changes no schema). The branch's commits start over: its registry *)
(* learns one head, or none when nothing was replayed.                         *)
Restart(n) ==
  LET rest == SubSeq(log, n + 1, Len(log))
      back == Resumed(IF n = 0 THEN EmptyView
                      ELSE RebuildIndexes(Plain(Replay(SubSeq(log, 1, n)))), rest)
  IN  /\ lives < MaxLives
      /\ n = 0 \/ \A i \in 1..Len(rest) : rest[i].ops[1].op # "Schema"
      /\ view' = back.view /\ stale' = back.stale
      /\ next' = IF rest = <<>> THEN 0 ELSE 1
      /\ stats' = NoStats
      /\ lives' = lives + 1
      /\ UNCHANGED <<log, held>>

Init ==
  /\ log = [i \in 1..Len(FirstSchema) |-> [commit |-> i - 1, ops |-> <<Schema(FirstSchema[i])>>]]
  /\ view = Replay(log)
  /\ next = Len(log)
  /\ stats = NoStats
  /\ held = [w \in Writers |-> NoRead]
  /\ stale = {}
  /\ lives = 0

Next ==
  \/ \E key \in Keys, row \in RowValues : PutRow1(key, row)
  \/ \E key \in Keys : Erase(key)
  \/ \E key \in Keys : Mutate(key)
  \/ \E w \in Writers, key \in Keys : Read(w, key)
  \/ \E w \in Writers, row \in RowValues : PutIf(w, row)
  \/ \E k1, k2 \in Keys, row \in RowValues : Transact(k1, row, k2, row)
  \/ \E key \in Keys, row \in RowValues : WriteBatch(key, row)
  \/ \E change \in Changes : ChangeSchema(change)
  \/ \E plan \in Plans : Query(plan)
  \/ \E n \in 0..MaxEntries : n <= Len(log) /\ Restart(n)
Spec == Init /\ [][Next]_vars

\* ---------------------------------------------------------------- properties
TypeOK ==
  /\ DOMAIN view.keys \cup DOMAIN view.crdts \subseteq Keys
  /\ \A e \in view.indexes.entries : <<e[1], e[2]>> \in view.indexes.covered
  /\ next \in 0..MaxEntries /\ lives \in 0..MaxLives
  /\ \A w \in Writers : held[w] = NoRead \/ held[w].key \in Keys

(* A row that a predicate matches is among the candidates of an index that     *)
(* serves it.                                                                  *)
Asked(bound) ==
  CASE bound.kind = "any"   -> "eq"
    [] bound.kind = "below" -> IF bound.incl THEN "lte" ELSE "lt"
    [] bound.kind = "above" -> IF bound.incl THEN "gte" ELSE "gt"
Matching(t, c, bound) ==
  {r \in ToSet(Scan(view, t)) :
     \E v \in bound.values : Holds(Asked(bound), Compare(Column(r.pk, r.row, c), v))}
Loses(t, c, bound, r) == Answers(view, t, c, bound) /\ r.pk \notin Candidates(view, t, c, bound)

(* Where the encoding does not keep the executor's order: a zero of the other  *)
(* sign, or an integer past the exact ones at the open end of a range. And a   *)
(* bare value is in no index.                                                  *)
Imprecise(v) == Numeric(v) /\ (Real(v) = 0 \/ Real(v) >= Exact)
Delicate(bound, r, c) == Imprecise(Column(0, r.row, c)) \/ ~r.row.map

(* An index that answers loses no row the scan would have found: through puts, *)
(* deletes, batches, dropped columns and rebuilt indexes, while nothing was    *)
(* renamed and no table replaced or dropped since the index was last built     *)
(* (address.rs:189-199, view.rs:275-336).                                      *)
IndexLosesNothing ==
  \A t \in Tables : \A probe \in Probes :
    <<t, probe[1]>> \notin stale =>
      \A r \in Matching(t, probe[1], probe[2]) :
        Loses(t, probe[1], probe[2], r) => Delicate(probe[2], r, probe[1])

(* A query answered by the optimized plan, through indexes and budgets, is the *)
(* query answered by the plan as it was asked, over the rows alone             *)
(* (optimize.rs:26-30).                                                        *)
OptimizingKeepsTheAnswer ==
  \A plan \in Plans :
    (~ \E x \in stale : x[1] = SourceTable(plan)) => Answered(plan) = Expected(plan)

(* A conditional put succeeds only over the very write its author read:        *)
(* whatever wrote the row in between has moved its version. True of an         *)
(* instance that never restarted (engine.rs:924-939).                          *)
Touches(entry, key) ==
  \E i \in 1..Len(entry.ops) : entry.ops[i].op # "Schema" /\ entry.ops[i].key = key
UpdatesAreNotLost ==
  [][\A w \in Writers :
       lives = 0 /\ (\E row \in RowValues : PutIf(w, row)) =>
         ~ \E i \in held[w].at + 1..Len(log) : Touches(log[i], held[w].key)]_vars

(* A put, on a condition or not, brings no second row onto a unique index: the *)
(* pairs of rows that share one were all there before (engine.rs:2847-2926).   *)
Shared(v, t) ==
  {<<i, p>> \in Table(v, t).indexes \X (PrimaryKeys \X PrimaryKeys) :
     /\ i.unique /\ p[1] # p[2]
     /\ \E a, b \in ToSet(Scan(v, t)) : a.pk = p[1] /\ b.pk = p[2] /\ Clash(i, a, b)}
PutsShareNothing ==
  [][\A key \in Keys, row \in RowValues :
       PutRow1(key, row) => Shared(view', key[1]) \subseteq Shared(view, key[1])]_vars
=============================================================================
