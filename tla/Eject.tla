------------------------------- MODULE Eject -------------------------------
(* `theta eject`: a migration from Postgres (theta-eject; theta-cli            *)
(* commands.rs eject). A schema is reflected and planned, the tables' changes  *)
(* are proposed, the rows copied in batches by primary key, and source and     *)
(* target compared, while others write to both. Any call may fail, a write's   *)
(* answer may be lost, and a run that stopped is started again.                *)
(* A cell's text is a number, Null, a document's null or an infinity; two      *)
(* neighbours (2k, 2k+1) are texts that differ only beyond what a float or a   *)
(* millisecond can hold. A key is told by its parts alone, and its columns     *)
(* need not be listed again.                                                   *)
EXTENDS Integers, SequencesExt, FiniteSetsExt

CONSTANTS Relations,   \* the source's: name, whether a view, columns, key, the columns of each
                       \* unique constraint; a column's type, whether an array, what its name
                       \* reads as ("counter", "state" or "plain"), nullability and constraints
          Contents,    \* the rows they may begin with: table -> key -> column -> text
          Edits,       \* rows others may write to the source: <<table, key, row>>
          Strays,      \* rows others may leave in the target: <<table, key, value>>
          Exclusions,  \* the lists of tables an operator may exclude
          BatchSize, MaxRuns, MaxMoves

VARIABLES source,      \* Postgres' rows
          target,      \* ThetaBase's rows, by <<table, key>>
          plan,        \* the plan of the current run
          run,         \* how far it is
          late,        \* writes whose answers were lost and which may yet land
          still,       \* "run" while nobody else wrote since the run began, "check"
                       \* since its verification began, else "no"
          runs, moves
ejectVars == <<source, target, plan, run, late, still, runs, moves>>

Null == -1
JsonNull == -2
Infinity == 100
Bad == -3        \* no value: the text does not parse
Unencodable == -4  \* a float that JSON has no number for

\* -------------------------------------------------------------- types, values
Kept(ty) == [ty |-> ty, lossy |-> FALSE]
Lossy(ty) == [ty |-> ty, lossy |-> TRUE]
MapType(column) ==
  CASE column.array -> Kept("list")
    [] column.udt = "bool" -> Kept("bool")
    [] column.udt \in {"int2", "int4", "int8"} -> Kept("int")
    [] column.udt \in {"float4", "float8"} -> Kept("float")
    [] column.udt \in {"numeric", "decimal"} -> Lossy("float")
    [] column.udt \in {"text", "varchar", "char", "bpchar", "name", "citext", "uuid"} -> Kept("text")
    [] column.udt = "bytea" -> Kept("bytes")
    [] column.udt = "timestamptz" -> Kept("timestamp")
    [] column.udt \in {"timestamp", "date"} -> Lossy("timestamp")
    [] column.udt \in {"json", "jsonb"} -> Kept("map")
    [] OTHER -> Lossy("text")

(* A CRDT is suggested, never applied.                                         *)
CrdtFor(column) ==
  \/ column.reads = "counter" /\ MapType(column).ty = "int"
  \/ column.array
  \/ column.reads = "state"

(* The texts of a float, of a document and of an instant, each read as         *)
(* precisely as it is kept: a document's null is a row's, its integers of 64   *)
(* bits are exact (no odd text is one) and its other numbers are floats; an    *)
(* infinite instant has no reading at all.                                     *)
Rounded(text) == IF text = Infinity THEN Unencodable ELSE 2 * (text \div 2)
FromJson(text) == IF text = JsonNull THEN Null ELSE 2 * (text \div 2)
ParseTimestamp(text) == IF text = Infinity THEN Bad ELSE 2 * (text \div 2)

(* NULL whatever the type; any other type keeps what its text says.            *)
Parse(text, ty) ==
  CASE text = Null -> Null
    [] text # Null /\ ty = "float" -> Rounded(text)
    [] text # Null /\ ty = "map" -> FromJson(text)
    [] text # Null /\ ty = "timestamp" -> ParseTimestamp(text)
    [] OTHER -> text

\* ---------------------------------------------------------------------- plan
NoPlan == [tables |-> <<>>, warnings |-> {}, blockers |-> {}]
Warn(table, column, about) == [table |-> table, column |-> column, about |-> about]

(* The base tables; what is derived from them is not reflected.                *)
Reflect == SelectSeq(Relations, LAMBDA t : ~t.view)

Names(tables) == {tables[i].name : i \in 1..Len(tables)}
ConstraintWarnings(table) ==
  {Warn(table.name, u, "unique") : u \in table.uniques}
    \cup {Warn(table.name, c.name, "default") : c \in {d \in ToSet(table.columns) : d.default}}
    \cup {Warn(table.name, c.name, "length") : c \in {d \in ToSet(table.columns) : d.limited}}
ColumnWarnings(table) ==
  {Warn(table.name, c.name, "lossy") : c \in {d \in ToSet(table.columns) : MapType(d).lossy}}
    \cup {Warn(table.name, c.name, "crdt") : c \in {d \in ToSet(table.columns) : CrdtFor(d)}}

PlannedColumn(column) ==
  [name |-> column.name, nullable |-> column.nullable] @@ MapType(column)
PlannedTable(table) ==
  [name |-> table.name, key |-> table.key,
   columns |-> [i \in 1..Len(table.columns) |-> PlannedColumn(table.columns[i])]]

(* An exclusion that names nothing and a table without a key stop a migration. *)
PlanExcluding(schema, excluded) ==
  LET kept == SelectSeq(schema, LAMBDA t : t.name \notin excluded /\ t.key # <<>>)
      keyless == SelectSeq(schema, LAMBDA t : t.name \notin excluded /\ t.key = <<>>)
  IN  [tables |-> [i \in 1..Len(kept) |-> PlannedTable(kept[i])],
       warnings |-> {Warn(n, "", "excluded") : n \in excluded \cap Names(schema)}
                      \cup UNION {ColumnWarnings(t) \cup ConstraintWarnings(t) : t \in ToSet(kept)},
       blockers |-> (excluded \ Names(schema)) \cup Names(keyless)]
IsRunnable(p) == p.blockers = {}

\* ---------------------------------------------------------------------- rows
(* A composite key comes after another by its first part that differs.         *)
KeyAfter(k, l) ==
  \E i \in 1..Len(k) : k[i] > l[i] /\ \A j \in 1..i - 1 : k[j] = l[j]
\* Mutant: each part is compared on its own.
EveryPartAfter(k, l) == \A i \in 1..Len(k) : k[i] > l[i]
Follows(k, l) == KeyAfter(k, l)

Beginning == <<>>
(* A row as it is written: a null is not stored.                               *)
RowValue(table, key) ==
  LET row == source[table.name][key]
      Cell(column) == Parse(row[column.name], column.ty)
      columns == {c \in ToSet(table.columns) : Cell(c) # Null}
  IN  [name \in {c.name : c \in columns} |-> Cell(CHOOSE c \in columns : c.name = name)]

(* The keys after the cursor in order, at most a batch of them, and the rows   *)
(* they had when they were read.                                               *)
NextBatch(table, after) ==
  LET left == {k \in DOMAIN source[table.name] : after = Beginning \/ Follows(k, after)}
      keys == SetToSortSeq(left, LAMBDA k, l : KeyAfter(l, k))
      taken == SubSeq(keys, 1, Min({BatchSize, Len(keys)}))
  IN  [i \in 1..Len(taken) |-> [key |-> taken[i], value |-> RowValue(table, taken[i])]]
Unparseable(batch) == \E i \in 1..Len(batch) : \E c \in DOMAIN batch[i].value : batch[i].value[c] = Bad
(* A float JSON has no number for is written as null, which the server does    *)
(* not take for a float.                                                       *)
Refusable(value) == \E c \in DOMAIN value : value[c] = Unencodable

\* -------------------------------------------------------------- verification
Finding(severity, table, column, key, about) ==
  [severity |-> severity, table |-> table, column |-> column, key |-> key, about |-> about]
Unexpected(findings) == {f \in findings : f.severity = "unexpected"}
IsClean(findings) == Unexpected(findings) = {}

Field(value, column) == IF column \in DOMAIN value THEN value[column] ELSE Null
CompareRow(table, key, want, got) ==
  {Finding(IF c.lossy THEN "expected" ELSE "unexpected", table.name, c.name, key, "value") :
     c \in {d \in ToSet(table.columns) : Field(want, d.name) # Field(got, d.name)}}
VerifyRow(table, key, want) ==
  IF <<table.name, key>> \notin DOMAIN target
  THEN {Finding("unexpected", table.name, "", key, "missing")}
  ELSE CompareRow(table, key, want, target[<<table.name, key>>])
VerifyRowCount(table, inSource, inTarget) ==
  IF inSource = inTarget THEN {} ELSE {Finding("unexpected", table.name, "", Beginning, "count")}

(* The plan against the schema it was made from, and what the source enforces  *)
(* and the target will not.                                                    *)
SchemaFinding(table, column, about) == Finding("unexpected", table.name, column, Beginning, about)
VerifyColumn(table, column) ==
  LET planned == {c \in ToSet(table.columns) : c.name = column.name}
  IN  CASE planned = {} -> {SchemaFinding(table, column.name, "unplanned")}
        [] \E c \in planned : c.nullable # column.nullable -> {SchemaFinding(table, column.name, "nullability")}
        [] OTHER -> {}
VerifyTable(table, from) ==
  (IF from.key = table.key THEN {} ELSE {SchemaFinding(table, "", "key")})
    \cup UNION {VerifyColumn(table, c) : c \in ToSet(from.columns)}
    \cup {Finding("expected", w.table, w.column, Beginning, w.about) : w \in ConstraintWarnings(from)}
VerifySchema(p) ==
  UNION {LET from == {t \in ToSet(Reflect) : t.name = table.name}
         IN  IF from = {} THEN {SchemaFinding(table, "", "unknown")}
             ELSE UNION {VerifyTable(table, t) : t \in from}
         : table \in ToSet(p.tables)}

\* ------------------------------------------------------------------- the run
Resting == [pc |-> "rest", ti |-> 1, after |-> Beginning, batch |-> <<>>, reached |-> Beginning,
            inSource |-> 0, inTarget |-> 0, findings |-> {}]
Table == plan.tables[run.ti]
Begun(r) == [r EXCEPT !.after = Beginning, !.batch = <<>>, !.inSource = 0, !.inTarget = 0]
Alone == UNCHANGED <<plan, late, runs, moves>>
Stopped == [run EXCEPT !.pc = "failed"]

(* What is reported at the end: a mismatch fails the command, which has        *)
(* written everything.                                                         *)
Reported(r) == [Begun(r) EXCEPT !.pc = IF IsClean(r.findings) THEN "done" ELSE "mismatched"]
Finished == run.pc \in {"done", "mismatched"}

(* The next table, or the next phase at its first.                             *)
Onward(r) ==
  IF r.ti < Len(plan.tables) THEN [Begun(r) EXCEPT !.ti = @ + 1]
  ELSE CASE r.pc = "schema" -> [Begun(r) EXCEPT !.pc = "rows", !.ti = 1]
         [] r.pc = "rows"   -> [Begun(r) EXCEPT !.pc = "verify", !.ti = 1, !.findings = VerifySchema(plan)]
         [] r.pc = "verify" -> Reported(r)
Verifying(r) == IF run.pc # "verify" /\ r.pc = "verify" THEN "check" ELSE still
WhenStill(r) == IF still = "run" THEN "run" ELSE Verifying(r)

(* eject: reflect, plan, and go no further if something blocks it or the run   *)
(* is a dry one.                                                               *)
Start(excluded, dry) ==
  /\ run.pc \notin {"schema", "rows", "verify"} /\ runs < MaxRuns
  /\ plan' = PlanExcluding(Reflect, excluded)
  /\ run' = [Resting EXCEPT !.pc = CASE ~IsRunnable(plan') -> "failed"
                                     [] IsRunnable(plan') /\ dry -> "planned"
                                     [] IsRunnable(plan') /\ ~dry /\ plan'.tables = <<>> -> "done"
                                     [] OTHER -> "schema"]
  /\ still' = "run"
  /\ runs' = runs + 1
  /\ UNCHANGED <<source, target, late, moves>>

(* A table is proposed and nothing more: a proposal that could be applied at   *)
(* once is taken for applied, any other gate ends the run.                     *)
GateVerdicts == {"AutoApply", "held"}
Propose(gate) ==
  /\ run.pc = "schema" /\ run' = IF gate = "AutoApply" THEN Onward(run) ELSE Stopped
  /\ still' = WhenStill(run')
  /\ Alone /\ UNCHANGED <<source, target>>

(* A call of the source or of the target that fails.                           *)
Fail ==
  /\ run.pc \in {"schema", "rows", "verify"} /\ run' = Stopped
  /\ Alone /\ UNCHANGED <<source, target, still>>

(* The next batch of a table; an empty one ends it, counted if it was checked. *)
ReadBatch ==
  /\ run.pc \in {"rows", "verify"} /\ run.batch = <<>>
  /\ LET batch == NextBatch(Table, run.after)
     IN  run' = IF Unparseable(batch) THEN Stopped
                ELSE IF batch # <<>> THEN [run EXCEPT !.batch = batch, !.reached = Last(batch).key]
                ELSE IF run.pc = "rows" THEN Onward(run)
                ELSE Onward([run EXCEPT !.findings = @ \cup VerifyRowCount(Table, run.inSource, run.inTarget)])
  /\ still' = WhenStill(run')
  /\ Alone /\ UNCHANGED <<source, target>>

(* The cursor moves once the whole batch is dealt with.                        *)
Consumed(r) == [r EXCEPT !.batch = Tail(@), !.after = IF Len(r.batch) = 1 THEN r.reached ELSE @]

Landed(key, value) == (<<Table.name, key>> :> value) @@ target
PutRow ==
  /\ run.pc = "rows" /\ run.batch # <<>>
  /\ LET row == Head(run.batch)
     IN  IF Refusable(row.value) THEN run' = Stopped /\ UNCHANGED target
         ELSE target' = Landed(row.key, row.value) /\ run' = Consumed(run)
  /\ Alone /\ UNCHANGED <<source, still>>

(* The answer is lost: the write has landed, or it may land later, or never.   *)
LoseAnswer ==
  /\ run.pc = "rows" /\ run.batch # <<>> /\ run' = Stopped
  /\ LET row == Head(run.batch)
     IN  /\ ~Refusable(row.value)
         /\ \/ target' = Landed(row.key, row.value) /\ UNCHANGED late
            \/ late' = late \cup {<<Table.name, row.key, row.value>>} /\ UNCHANGED target
  /\ UNCHANGED <<source, plan, still, runs, moves>>

(* A row that is not there, or whose value cannot be read, is missing.         *)
GetRow ==
  /\ run.pc = "verify" /\ run.batch # <<>>
  /\ LET row == Head(run.batch)
         found == IF <<Table.name, row.key>> \in DOMAIN target THEN 1 ELSE 0
     IN  run' = [Consumed(run) EXCEPT !.inSource = @ + 1, !.inTarget = @ + found,
                                      !.findings = @ \cup VerifyRow(Table, row.key, row.value)]
  /\ Alone /\ UNCHANGED <<source, target, still>>

\* ------------------------------------------------------------------ the others
Moved == still' = "no" /\ UNCHANGED <<plan, run, runs>>
Edit(e) ==
  /\ moves < MaxMoves /\ moves' = moves + 1
  /\ source' = [source EXCEPT ![e[1]] = (e[2] :> e[3]) @@ @]
  /\ Moved /\ UNCHANGED <<target, late>>
Erase(table, key) ==
  /\ moves < MaxMoves /\ moves' = moves + 1 /\ key \in DOMAIN source[table]
  /\ source' = [source EXCEPT ![table] = Restrict(@, DOMAIN @ \ {key})]
  /\ Moved /\ UNCHANGED <<target, late>>
Stray(e) ==
  /\ moves < MaxMoves /\ moves' = moves + 1
  /\ target' = (<<e[1], e[2]>> :> e[3]) @@ target
  /\ Moved /\ UNCHANGED <<source, late>>
Vanish(at) ==
  /\ moves < MaxMoves /\ moves' = moves + 1 /\ at \in DOMAIN target
  /\ target' = Restrict(target, DOMAIN target \ {at})
  /\ Moved /\ UNCHANGED <<source, late>>
LandLate(w) ==
  /\ w \in late /\ late' = late \ {w}
  /\ target' = (<<w[1], w[2]>> :> w[3]) @@ target
  /\ Moved /\ UNCHANGED <<source, moves>>

Init ==
  /\ source \in Contents /\ target = <<>> /\ plan = NoPlan /\ run = Resting
  /\ late = {} /\ still = "no" /\ runs = 0 /\ moves = 0

Next ==
  \/ \E excluded \in Exclusions, dry \in BOOLEAN : Start(excluded, dry)
  \/ \E gate \in GateVerdicts : Propose(gate)
  \/ Fail \/ ReadBatch \/ PutRow \/ LoseAnswer \/ GetRow
  \/ \E e \in Edits : Edit(e)
  \/ \E table \in Names(Reflect) : \E key \in DOMAIN source[table] : Erase(table, key)
  \/ \E e \in Strays : Stray(e)
  \/ \E at \in DOMAIN target : Vanish(at)
  \/ \E w \in late : LandLate(w)

Spec == Init /\ [][Next]_ejectVars

\* ---------------------------------------------------------------- properties
TypeOK ==
  /\ run.pc \in {"rest", "planned", "schema", "rows", "verify", "done", "mismatched", "failed"}
  /\ run.ti \in 1..Len(Reflect) /\ still \in {"run", "check", "no"}
  /\ run.batch # <<>> => run.pc \in {"rows", "verify", "failed"}
  /\ run.pc \in {"schema", "rows", "verify"} => IsRunnable(plan)

Differs(table, key, column) ==
  \/ <<table.name, key>> \notin DOMAIN target
  \/ Field(RowValue(table, key), column) # Field(target[<<table.name, key>>], column)

(* Whatever differs between source and target when verification begins, and    *)
(* through it, is found: when it ends every planned column of every source row *)
(* that is not what the importer would write is in the report, as a change of  *)
(* meaning only where the plan said the type's mapping could lose one          *)
(* (verify.rs verify_row; migrate.rs re-reads the source).                     *)
NoDifferenceUnseen ==
  Finished /\ still # "no" =>
    \A i \in 1..Len(plan.tables) : \A key \in DOMAIN source[plan.tables[i].name] :
      \A c \in ToSet(plan.tables[i].columns) : Differs(plan.tables[i], key, c.name) =>
        \E f \in run.findings :
          /\ f.table = plan.tables[i].name /\ f.key = key
          /\ \/ f.about = "missing" /\ f.severity = "unexpected"
             \/ f.column = c.name /\ (f.severity = "expected" => c.lossy)

(* A run nobody disturbs, with nothing of an earlier one still to land, brings *)
(* every row over and says so, whatever earlier runs left half done: a re-run  *)
(* repeats their writes and duplicates none (migrate.rs, import.rs).           *)
UndisturbedRunIsClean ==
  Finished /\ still = "run" =>
    /\ IsClean(run.findings)
    /\ \A i \in 1..Len(plan.tables) : \A key \in DOMAIN source[plan.tables[i].name] :
         \A c \in ToSet(plan.tables[i].columns) : ~Differs(plan.tables[i], key, c.name)

(* A change of meaning the report calls expected was among the plan's          *)
(* warnings, and every table that stays behind is named in them.               *)
ExpectedWasWarned ==
  /\ \A f \in run.findings : f.severity = "expected" =>
       \E w \in plan.warnings : w.table = f.table /\ w.column = f.column
                                /\ (f.about = "value" => w.about = "lossy")
  /\ run.pc \in {"rows", "verify"} \/ Finished =>
       \A name \in Names(Reflect) : name \in Names(plan.tables) \/ Warn(name, "", "excluded") \in plan.warnings
=============================================================================
