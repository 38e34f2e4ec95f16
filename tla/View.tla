-------------------------------- MODULE View --------------------------------
(* One branch's materialized view: rows, versions, CRDT states, schema and     *)
(* secondary indexes, what every operation of the log does to them, and what   *)
(* the executor may ask of them (theta-storage view.rs; theta-core address.rs, *)
(* schema.rs, value.rs, index.rs).                                             *)
(* A key is <<table, primary key>>. A value is its type, its place in that     *)
(* type's order and, for the float zero, its sign; a row is a map of columns,  *)
(* or a bare value, which is the one column `value` and never indexed.         *)
EXTENDS Integers, SequencesExt

CONSTANT Exact    \* every integer up to here is an f64; above, only the even ones
ASSUME ExactIsEven == Exact \in Nat /\ Exact % 4 = 0

\* ------------------------------------------------------------------ values
Of(type, num) == [type |-> type, num |-> num, neg |-> FALSE]
Int0(n) == Of("int", n)
Null == Of("null", 0)
Missing == Of("missing", 0)
NegativeZero == [type |-> "float", num |-> 0, neg |-> TRUE]

(* PartialEq of values: the two float zeros are equal.                         *)
SameValue(a, b) == a.type = b.type /\ a.num = b.num

(* A null is accepted by every declared type, anything else by its own.        *)
Accepts(ty, v) == v.type \in {"null", ty}

(* `i as f64`: the nearest representable, ties to the even mantissa.           *)
AsFloat(n) ==
  LET k == (n - Exact) \div 2
  IN  IF n <= Exact \/ (n - Exact) % 2 = 0 THEN n ELSE Exact + 2 * (k + (k % 2))

Numeric(v) == v.type \in {"int", "float"}
Real(v) == IF v.type = "int" THEN AsFloat(v.num) ELSE v.num

(* compare_values: -1, 0 or 1, and 2 where the two do not compare.             *)
Incomparable == 2
Cmp(x, y) == IF x < y THEN -1 ELSE IF x > y THEN 1 ELSE 0
Compare(a, b) ==
  IF "missing" \in {a.type, b.type} THEN Incomparable
  ELSE IF a.type = b.type /\ a.type \notin {"list", "map"} THEN Cmp(a.num, b.num)
  ELSE IF Numeric(a) /\ Numeric(b) THEN Cmp(Real(a), Real(b))
  ELSE Incomparable

\* ------------------------------------------------------- the index encoding
Rank == [bool |-> 1, int |-> 2, float |-> 2, timestamp |-> 3, text |-> 4, bytes |-> 5]
RankSpan == 1000
Encodable(v) == v.type \in DOMAIN Rank

(* Order-preserving bytes: -0.0 sorts just below 0.0, and integers go by way   *)
(* of their f64.                                                               *)
Encode(v) ==
  Rank[v.type] * RankSpan
    + (IF Numeric(v) THEN 2 * Real(v) + (IF v.neg THEN 0 ELSE 1) ELSE v.num)

(* What an index may be asked: one of some values, or a range. The codes a     *)
(* bound sweeps; a bound that holds an unencodable value sweeps none and the   *)
(* caller scans.                                                               *)
AnyOf(values) == [kind |-> "any", values |-> values]
Below(v, incl) == [kind |-> "below", values |-> {v}, incl |-> incl]
Above(v, incl) == [kind |-> "above", values |-> {v}, incl |-> incl]
Servable(bound) == \A v \in bound.values : Encodable(v)
Swept(bound, code) ==
  \E v \in bound.values :
    CASE bound.kind = "any"   -> code = Encode(v)
      [] bound.kind = "below" -> code < Encode(v) \/ (bound.incl /\ code = Encode(v))
      [] bound.kind = "above" -> code > Encode(v) \/ (bound.incl /\ code = Encode(v))

\* -------------------------------------------------------------------- rows
ValueColumn == "value"
KeyColumn == "_key"
RowOf(fields) == [map |-> TRUE, fields |-> fields]
Bare(v) == [map |-> FALSE, fields |-> (ValueColumn :> v)]
NoRow == [map |-> FALSE, fields |-> <<>>]

(* A column of a row as a query sees it, and as the index does.                *)
Column(pk, row, c) ==
  IF c = KeyColumn THEN Of("text", pk)
  ELSE IF c \in DOMAIN row.fields THEN row.fields[c] ELSE Missing
ColumnsOf(row) == DOMAIN row.fields
HasColumn(row, c) == c = KeyColumn \/ (c \in DOMAIN row.fields /\ row.fields[c].type # "null")
Cell(row, c) == IF row.map /\ c \in DOMAIN row.fields THEN row.fields[c] ELSE Missing

\* ------------------------------------------------------------------ schema
Field(ty, nullable, crdt) == [ty |-> ty, nullable |-> nullable, crdt |-> crdt]
IndexDef(name, columns, unique) == [name |-> name, columns |-> columns, unique |-> unique]
TableDef(fields, indexes) == [fields |-> fields, indexes |-> indexes]
NoTable == TableDef(<<>>, {})

Table(v, t) == IF t \in DOMAIN v.schema THEN v.schema[t] ELSE NoTable
IndexedColumns(v, t) == {i.columns[1] : i \in {j \in Table(v, t).indexes : Len(j.columns) = 1}}

(* Rows are checked against the columns the table declares; an undeclared      *)
(* table or column takes anything.                                             *)
RowTypeChecks(v, t, row) ==
  \A c \in DOMAIN row.fields \cap DOMAIN Table(v, t).fields :
    Accepts(Table(v, t).fields[c].ty, row.fields[c])

\* -------------------------------------------------------------------- view
NoIndexes == [covered |-> {}, entries |-> {}]
EmptyView == [keys |-> <<>>, versions |-> <<>>, crdts |-> <<>>, schema |-> <<>>,
              indexes |-> NoIndexes, rejected |-> 0, applied |-> 0]

Drop(f, gone) == Restrict(f, DOMAIN f \ gone)
KeysOf(f, t) == {k \in DOMAIN f : k[1] = t}

(* reindex_row: each indexed column whose value changed loses its old entry    *)
(* and takes its new one. Taking one covers the column for good.               *)
\* Mutant: an index takes a row without covering the column.
ReindexedUncovered(v, key, before, after) ==
  LET t == key[1]
      take == {c \in IndexedColumns(v, t) : Encodable(Cell(after, c))}
  IN  [v EXCEPT !.indexes.entries = @ \cup {<<t, c, Encode(Cell(after, c)), key[2]>> : c \in take}]

Reindexed(v, key, before, after) ==
  LET t == key[1]
      moved == {c \in IndexedColumns(v, t) : ~SameValue(Cell(before, c), Cell(after, c))}
      lose == {<<t, c, Encode(Cell(before, c)), key[2]>> :
                 c \in {d \in moved : Encodable(Cell(before, d))}}
      take == {c \in moved : Encodable(Cell(after, c))}
  IN  [v EXCEPT !.indexes =
         [covered |-> @.covered \cup {<<t, c>> : c \in take},
          entries |-> (@.entries \ lose)
                        \cup {<<t, c, Encode(Cell(after, c)), key[2]>> : c \in take}]]

(* rebuild_indexes: every row reindexed from nothing.                          *)
RebuildIndexes(v) ==
  LET cells == UNION {{<<k, c>> : c \in IndexedColumns(v, k[1])} : k \in DOMAIN v.keys}
      taken == {e \in cells : Encodable(Cell(v.keys[e[1]], e[2]))}
  IN  [v EXCEPT !.indexes =
         [covered |-> {<<e[1][1], e[2]>> : e \in taken},
          entries |-> {<<e[1][1], e[2], Encode(Cell(v.keys[e[1]], e[2])), e[1][2]>> : e \in taken}]]

At(f, key) == IF key \in DOMAIN f THEN f[key] ELSE NoRow

PutRow(v, key, row, commit) ==
  Reindexed([v EXCEPT !.keys = (key :> row) @@ @, !.versions = (key :> commit) @@ @],
            key, At(v.keys, key), row)

DeleteRow(v, key) ==
  Reindexed([v EXCEPT !.keys = Drop(@, {key}), !.versions = Drop(@, {key})],
            key, At(v.keys, key), NoRow)

(* A CRDT state takes the kind declared for `value`, or the operation's own;   *)
(* an operation of another kind is set aside and changes nothing but the       *)
(* version, which moves either way.                                            *)
\* Mutant: the version stays as it is.
MutateCrdtUnseen(v, key, kind, commit) ==
  [v EXCEPT !.crdts = (key :> [kind |-> kind,
                               n |-> 1 + (IF key \in DOMAIN @ THEN @[key].n ELSE 0)]) @@ @]

MutateCrdt(v, key, kind, commit) ==
  LET fields == Table(v, key[1]).fields
      declared == IF ValueColumn \in DOMAIN fields THEN fields[ValueColumn].crdt ELSE "none"
      fresh == [kind |-> IF declared = "none" THEN kind ELSE declared, n |-> 0]
      state == IF key \in DOMAIN v.crdts THEN v.crdts[key] ELSE fresh
      fits == state.kind = kind
  IN  [v EXCEPT !.crdts = (key :> [state EXCEPT !.n = @ + (IF fits THEN 1 ELSE 0)]) @@ @,
                !.versions = (key :> commit) @@ @,
                !.rejected = @ + (IF fits THEN 0 ELSE 1)]

CrdtValue(state) == IF state.kind = "counter" THEN Int0(state.n) ELSE Of("list", state.n)

WithTable(v, t, def) == [v EXCEPT !.schema = (t :> def) @@ @]

(* The rows a dropped or renamed column leaves behind: a map row that has no   *)
(* column left goes. Neither the indexes nor the versions are touched.         *)
WithoutColumn(v, t, c) ==
  LET left == [k \in KeysOf(v.keys, t) |-> [v.keys[k] EXCEPT !.fields = Drop(@, {c})]]
      empty == {k \in DOMAIN left : left[k].fields = <<>>}
  IN  [v EXCEPT !.keys = Drop(left @@ @, empty),
                !.crdts = IF c = ValueColumn THEN Drop(@, KeysOf(v.crdts, t)) ELSE @]

RenamedFields(fields, from, to) ==
  IF from \in DOMAIN fields THEN (to :> fields[from]) @@ Drop(fields, {from}) ELSE fields
WithRenamed(v, t, from, to) ==
  [v EXCEPT !.keys =
     [k \in DOMAIN @ |-> IF k[1] = t /\ @[k].map /\ from # to
                         THEN [@[k] EXCEPT !.fields = RenamedFields(@, from, to)] ELSE @[k]]]

Alter(def, c, part, to) ==
  IF c \in DOMAIN def.fields THEN [def EXCEPT !.fields[c][part] = to] ELSE def

ApplySchema(v, change) ==
  LET t == change.table
      def == Table(v, t)
  IN  CASE change.kind = "AddTable"    -> WithTable(v, t, change.def)
        [] change.kind = "DropTable"   ->
             [v EXCEPT !.schema = Drop(@, {t}), !.keys = Drop(@, KeysOf(@, t)),
                       !.crdts = Drop(@, KeysOf(@, t))]
        [] change.kind = "AddColumn"   ->
             WithTable(v, t, [def EXCEPT !.fields = (change.column :> change.to) @@ @])
        [] change.kind = "DropColumn"  ->
             WithoutColumn(WithTable(v, t, [def EXCEPT !.fields = Drop(@, {change.column})]),
                           t, change.column)
        [] change.kind \in {"ty", "nullable", "crdt"} ->
             WithTable(v, t, Alter(def, change.column, change.kind, change.to))
        [] change.kind = "AddIndex"    ->
             RebuildIndexes(WithTable(v, t, [def EXCEPT !.indexes =
               {i \in @ : i.name # change.index.name} \cup {change.index}]))
        [] change.kind = "DropIndex"   ->
             RebuildIndexes(WithTable(v, t, [def EXCEPT !.indexes =
               {i \in @ : i.name # change.index}]))
        [] change.kind = "RenameColumn" ->
             WithRenamed(WithTable(v, t, [def EXCEPT !.fields =
                           RenamedFields(@, change.column, change.to)]),
                         t, change.column, change.to)

ApplyOp(v, op, commit) ==
  CASE op.op = "Put"    -> PutRow(v, op.key, op.row, commit)
    [] op.op = "Delete" -> DeleteRow(v, op.key)
    [] op.op = "Crdt"   -> MutateCrdt(v, op.key, op.kind, commit)
    [] op.op = "Schema" -> ApplySchema(v, op.change)

(* apply: one entry, its transaction's operations one after the other.         *)
Apply(v, entry) ==
  LET Step(w, op) == ApplyOp(w, op, entry.commit)
  IN  [FoldLeft(Step, v, entry.ops) EXCEPT !.applied = @ + 1]
(* apply, of an entry that holds one operation.                                *)
ApplyOne(v, op, commit) == [ApplyOp(v, op, commit) EXCEPT !.applied = @ + 1]
Replay(entries) == FoldLeft(Apply, EmptyView, entries)

\* ------------------------------------------- what the executor may ask of it
(* The rows of a table by primary key, a plain row before the CRDT of its key. *)
Scan(v, t) ==
  LET pks == {k[2] : k \in KeysOf(v.keys, t) \cup KeysOf(v.crdts, t)}
      Rows(pk) == (IF <<t, pk>> \in DOMAIN v.keys
                   THEN << [pk |-> pk, row |-> v.keys[<<t, pk>>]] >> ELSE <<>>)
                  \o (IF <<t, pk>> \in DOMAIN v.crdts
                      THEN << [pk |-> pk, row |-> Bare(CrdtValue(v.crdts[<<t, pk>>]))] >>
                      ELSE <<>>)
  IN  FlattenSeq([i \in 1..Cardinality(pks) |-> Rows(SetToSortSeq(pks, <)[i])])

Unlimited == -1
UpTo(rows, max) == IF max = Unlimited \/ max > Len(rows) THEN rows ELSE SubSeq(rows, 1, max)
ScanUpTo(v, t, max) == UpTo(Scan(v, t), max)

RowAt(v, t, pk) ==
  IF <<t, pk>> \in DOMAIN v.keys THEN v.keys[<<t, pk>>]
  ELSE IF <<t, pk>> \in DOMAIN v.crdts THEN Bare(CrdtValue(v.crdts[<<t, pk>>]))
  ELSE NoRow

(* Whether the column's index answers, and the primary keys it then names.     *)
Answers(v, t, c, bound) == <<t, c>> \in v.indexes.covered /\ Servable(bound)
Candidates(v, t, c, bound) ==
  {e[4] : e \in {x \in v.indexes.entries : x[1] = t /\ x[2] = c /\ Swept(bound, x[3])}}
=============================================================================
