------------------------------- MODULE Query -------------------------------
(* Queries over one view: the plans a caller builds, the passes that rewrite   *)
(* them, their evaluation under a budget of rows, and the shape of what comes  *)
(* back (theta-query builder.rs, plan.rs, optimize.rs, stats.rs, exec.rs,      *)
(* result.rs). Averages, floats' rounding and text forms are left out.         *)
EXTENDS View

\* ------------------------------------------------------- predicates and plans
NoParam == "none"
Lit(v) == [param |-> NoParam, ty |-> "any", value |-> v]
Param(name, ty) == [param |-> name, ty |-> ty, value |-> Null]

Always == [p |-> "true", column |-> KeyColumn, values |-> <<>>, parts |-> <<>>]
Is(rel, column, expr) == [p |-> rel, column |-> column, values |-> <<expr>>, parts |-> <<>>]
In(column, exprs) == [p |-> "in", column |-> column, values |-> exprs, parts |-> <<>>]
IsNull(column) == [p |-> "null", column |-> column, values |-> <<>>, parts |-> <<>>]
All(preds) == [p |-> "and", column |-> KeyColumn, values |-> <<>>, parts |-> preds]
AnyPred(preds) == [p |-> "or", column |-> KeyColumn, values |-> <<>>, parts |-> preds]
Not(pred) == [p |-> "not", column |-> KeyColumn, values |-> <<>>, parts |-> <<pred>>]

ScanOf(t) == [node |-> "scan", table |-> t]
Lookup(t, expr) == [node |-> "lookup", table |-> t, key |-> expr]
IndexScan(t, index, pred) == [node |-> "index", table |-> t, index |-> index, pred |-> pred]
Filter(input, pred) == [node |-> "filter", input |-> input, pred |-> pred]
Project(input, columns) == [node |-> "project", input |-> input, columns |-> columns]
Sort(input, by) == [node |-> "sort", input |-> input, by |-> by]
Limit(input, count, offset) == [node |-> "limit", input |-> input, count |-> count, offset |-> offset]
Aggregate(input, groupBy, aggs) == [node |-> "agg", input |-> input, groupBy |-> groupBy, aggs |-> aggs]
Join(outer, inner, column, binds) ==
  [node |-> "join", input |-> outer, inner |-> inner, column |-> column, binds |-> binds]

Leaf(plan) == plan.node \in {"scan", "lookup", "index"}
RECURSIVE SourceTable(_)
SourceTable(plan) == IF Leaf(plan) THEN plan.table ELSE SourceTable(plan.input)

RECURSIVE PredParams(_)
PredParams(pred) ==
  {<<e.param, e.ty>> : e \in {x \in ToSet(pred.values) : x.param # NoParam}}
    \cup UNION {PredParams(part) : part \in ToSet(pred.parts)}

(* A join's inner side is given one parameter by the join itself; whatever     *)
(* bears its name so far asks the caller for nothing.                          *)
RECURSIVE Params(_)
Params(plan) ==
  LET own == CASE plan.node = "lookup" -> IF plan.key.param = NoParam THEN {}
                                          ELSE {<<plan.key.param, plan.key.ty>>}
               [] plan.node \in {"index", "filter"} -> PredParams(plan.pred)
               [] plan.node = "join" -> Params(plan.inner)
               [] OTHER -> {}
      all == own \cup (IF Leaf(plan) THEN {} ELSE Params(plan.input))
  IN  IF plan.node = "join" THEN {p \in all : p[1] # plan.binds} ELSE all

\* ------------------------------------------------------------------- builder
(* A second filter joins the first in a conjunction; an aggregate takes the    *)
(* place of a projection; sort and limit go on top whatever the order of the   *)
(* calls.                                                                      *)
WithFilter(plan, pred) ==
  IF plan.node # "filter" THEN Filter(plan, pred)
  ELSE Filter(plan.input, All(IF plan.pred.p = "and" THEN plan.pred.parts \o <<pred>>
                              ELSE <<plan.pred, pred>>))
WithAggregate(plan, groupBy, aggs) ==
  Aggregate(IF plan.node = "project" THEN plan.input ELSE plan, groupBy, aggs)
NoLimit == [count |-> Unlimited, offset |-> 0]
Build(plan, by, limit) ==
  LET sorted == IF by = <<>> THEN plan ELSE Sort(plan, by)
  IN  IF limit = NoLimit THEN sorted ELSE Limit(sorted, limit.count, limit.offset)

\* ---------------------------------------------------------------- statistics
NoStats == <<>>
TableStats(rows, distinct, indexes) == [rows |-> rows, distinct |-> distinct, indexes |-> indexes]
StatsOf(stats, t) == IF t \in DOMAIN stats THEN stats[t] ELSE TableStats(0, <<>>, {})

(* What a query learns of its table first: the rows, the distinct values of    *)
(* each column, and the first column of each index. An index once declared     *)
(* stays declared, whatever branch or schema declared it.                      *)
Analyzed(stats, v, t) ==
  LET rows == ToSet(Scan(v, t))
      columns == UNION {ColumnsOf(r.row) : r \in rows}
      Values(c) == {r.row.fields[c] : r \in {x \in rows : c \in DOMAIN x.row.fields}}
  IN  (t :> TableStats(Len(Scan(v, t)), [c \in columns |-> Cardinality(Values(c))],
                       StatsOf(stats, t).indexes \cup {i.columns[1] : i \in Table(v, t).indexes}))
        @@ stats

\* ----------------------------------------------------------------- optimizer
(* Filters move below projections and sorts.                                   *)
RECURSIVE PushDown(_)
PushDown(plan) ==
  IF plan.node = "filter" /\ plan.input.node \in {"project", "sort"}
  THEN [plan.input EXCEPT !.input = PushDown(Filter(@, plan.pred))]
  ELSE IF plan.node \in {"filter", "project", "sort", "limit", "agg"}
  THEN [plan EXCEPT !.input = PushDown(@)]
  ELSE plan

Sargable == {"eq", "lt", "lte", "gt", "gte", "in"}
RECURSIVE IndexFor(_, _)
IndexFor(pred, declared) ==
  IF pred.p \in Sargable THEN pred.column \in declared
  ELSE pred.p = "and" /\ \E part \in ToSet(pred.parts) : IndexFor(part, declared)

(* A filter right above a scan becomes an index scan where one of its terms    *)
(* has an index.                                                               *)
RECURSIVE SelectIndexes(_, _)
SelectIndexes(plan, stats) ==
  IF plan.node = "filter"
  THEN LET input == SelectIndexes(plan.input, stats)
       IN  IF input.node = "scan" /\ IndexFor(plan.pred, StatsOf(stats, input.table).indexes)
           THEN IndexScan(input.table, "index", plan.pred)
           ELSE Filter(input, plan.pred)
  ELSE IF plan.node \in {"project", "sort", "limit", "agg"}
  THEN [plan EXCEPT !.input = SelectIndexes(@, stats)]
  ELSE plan

RECURSIVE Simplify(_)
Simplify(plan) ==
  IF plan.node = "filter" /\ plan.pred.p = "true" THEN Simplify(plan.input)
  ELSE IF plan.node = "limit"
  THEN LET input == Simplify(plan.input)
       IN  IF input.node = "lookup" /\ plan.offset = 0 /\ plan.count # 0 THEN input
           ELSE [plan EXCEPT !.input = input]
  ELSE IF plan.node \in {"filter", "project", "sort", "agg"}
  THEN [plan EXCEPT !.input = Simplify(@)]
  ELSE plan

Optimize(plan, stats) == Simplify(SelectIndexes(PushDown(plan), stats))

\* -------------------------------------------------------------------- access
Resolve(expr, bindings) == IF expr.param = NoParam THEN expr.value ELSE bindings[expr.param]

(* The key a value looks a row up by: its text, or its encoding, which names   *)
(* no row here.                                                                *)
NoKey == -1
KeyOf(v) == IF v.type = "text" THEN v.num ELSE NoKey

(* Whether the indexes can serve a predicate, and the keys they then name. A   *)
(* conjunction takes its first servable term, a disjunction needs all of them. *)
BoundOf(pred, values) ==
  CASE pred.p \in {"eq", "in"} -> AnyOf(values)
    [] pred.p \in {"lt", "lte"} -> [Below(Null, pred.p = "lte") EXCEPT !.values = values]
    [] pred.p \in {"gt", "gte"} -> [Above(Null, pred.p = "gte") EXCEPT !.values = values]
ValuesOf(pred, bindings) == {Resolve(e, bindings) : e \in ToSet(pred.values)}

RECURSIVE Serves(_, _, _, _)
Serves(v, t, pred, bindings) ==
  CASE pred.p \in Sargable -> Answers(v, t, pred.column, BoundOf(pred, ValuesOf(pred, bindings)))
    [] pred.p = "and" -> \E part \in ToSet(pred.parts) : Serves(v, t, part, bindings)
    [] pred.p = "or"  -> \A part \in ToSet(pred.parts) : Serves(v, t, part, bindings)
    [] OTHER -> FALSE

RECURSIVE Served(_, _, _, _)
Served(v, t, pred, bindings) ==
  CASE pred.p \in Sargable ->
         Candidates(v, t, pred.column, BoundOf(pred, ValuesOf(pred, bindings)))
    [] pred.p = "and" ->
         LET first == SelectInSeq(pred.parts, LAMBDA part : Serves(v, t, part, bindings))
         IN  Served(v, t, pred.parts[first], bindings)
    [] pred.p = "or" -> UNION {Served(v, t, part, bindings) : part \in ToSet(pred.parts)}

\* ------------------------------------------------------------------ matching
Holds(rel, c) ==
  CASE rel \in {"eq", "in"} -> c = 0
    [] rel = "ne"  -> c \in {-1, 1}
    [] rel = "lt"  -> c = -1
    [] rel = "lte" -> c \in {-1, 0}
    [] rel = "gt"  -> c = 1
    [] rel = "gte" -> c \in {0, 1}

RECURSIVE Matches(_, _, _)
Matches(r, pred, bindings) ==
  CASE pred.p = "true" -> TRUE
    [] pred.p = "null" -> Column(r.pk, r.row, pred.column).type \in {"missing", "null"}
    [] pred.p = "and"  -> \A part \in ToSet(pred.parts) : Matches(r, part, bindings)
    [] pred.p = "or"   -> \E part \in ToSet(pred.parts) : Matches(r, part, bindings)
    [] pred.p = "not"  -> ~Matches(r, pred.parts[1], bindings)
    [] OTHER -> \E value \in ValuesOf(pred, bindings) :
                  Holds(pred.p, Compare(Column(r.pk, r.row, pred.column), value))

Kept(rows, pred, bindings) == SelectSeq(rows, LAMBDA r : Matches(r, pred, bindings))

(* The fields of both, the inner's winning; a bare value goes under its side's *)
(* name.                                                                       *)
Combined(outer, inner) ==
  LET Side(row, name) == IF row.map THEN row.fields ELSE (name :> row.fields[ValueColumn])
  IN  [pk |-> outer.pk, row |-> RowOf(Side(inner.row, "inner") @@ Side(outer.row, "outer"))]

(* Sort order: a missing column after everything, incomparable values equal,   *)
(* ties by primary key.                                                        *)
SortCompare(a, b) ==
  IF a.type = "missing" \/ b.type = "missing"
  THEN (IF a.type = b.type THEN 0 ELSE IF b.type = "missing" THEN -1 ELSE 1)
  ELSE LET c == Compare(a, b) IN IF c = Incomparable THEN 0 ELSE c
ByColumns(by, a, b) ==
  LET C(i) == SortCompare(Column(a.pk, a.row, by[i].column), Column(b.pk, b.row, by[i].column))
                * (IF by[i].desc THEN -1 ELSE 1)
      differ == {i \in 1..Len(by) : C(i) # 0}
  IN  IF differ = {} THEN a.pk < b.pk ELSE C(Min(differ)) = -1
Sorted(rows, by) == SortSeq(rows, LAMBDA a, b : ByColumns(by, a, b))

\* ----------------------------------------------------------------- aggregates
NonNull(rows, c) ==
  SelectSeq([i \in 1..Len(rows) |-> Column(rows[i].pk, rows[i].row, c)],
            LAMBDA v : v.type \notin {"missing", "null"})
SumOf(values) ==
  LET AnyFloat == \E i \in 1..Len(values) : values[i].type = "float"
      Add(v, total) == IF Numeric(v) THEN total + (IF AnyFloat THEN Real(v) ELSE v.num) ELSE total
  IN  Of(IF AnyFloat THEN "float" ELSE "int", FoldRight(Add, values, 0))
Extreme(values, want) ==
  LET Better(best, v) == IF Compare(v, best) = want THEN v ELSE best
  IN  IF values = <<>> THEN Null ELSE FoldLeft(Better, values[1], Tail(values))
Aggregated(agg, rows) ==
  CASE agg.func = "count" -> Int0(IF agg.column = "*" THEN Len(rows) ELSE Len(NonNull(rows, agg.column)))
    [] agg.func = "sum" -> SumOf(NonNull(rows, agg.column))
    [] agg.func = "min" -> Extreme(NonNull(rows, agg.column), -1)
    [] agg.func = "max" -> Extreme(NonNull(rows, agg.column), 1)

Orphan(v) == IF v.type = "missing" THEN Null ELSE v
GroupKey(r, groupBy) == [i \in 1..Len(groupBy) |-> Orphan(Column(r.pk, r.row, groupBy[i]))]
Grouped(rows, groupBy, aggs) ==
  LET keys == {GroupKey(r, groupBy) : r \in ToSet(rows)}
      Members(key) == SelectSeq(rows, LAMBDA r : GroupKey(r, groupBy) = key)
      Shown(key) == [c \in ToSet(groupBy) |-> key[CHOOSE i \in 1..Len(groupBy) : groupBy[i] = c]]
      Totals(of) == [alias \in {a.alias : a \in ToSet(aggs)} |->
                       Aggregated(CHOOSE a \in ToSet(aggs) : a.alias = alias, of)]
      order == SetToSeq(keys)
  IN  IF groupBy = <<>> THEN << [pk |-> 0, row |-> RowOf(Totals(rows))] >>
      ELSE [i \in 1..Len(order) |->
             [pk |-> 0, row |-> RowOf(Totals(Members(order[i])) @@ Shown(order[i]))]]

\* ---------------------------------------------------------------- evaluation
(* `budget` is how many rows the operators above can use: the ones that change *)
(* which rows come first pass none on, a filter keeps its own.                 *)
Smaller(a, b) == IF a = Unlimited THEN b ELSE IF b = Unlimited THEN a ELSE Min({a, b})
NeededCount(plan) == plan.count   \* mutant: the rows skipped are not asked for
Needed(plan) == IF plan.count = Unlimited THEN Unlimited ELSE plan.offset + plan.count
Skipped(rows, plan) ==
  UpTo(IF plan.offset >= Len(rows) THEN <<>> ELSE SubSeq(rows, plan.offset + 1, Len(rows)), plan.count)

RECURSIVE Eval(_, _, _, _)
Eval(plan, v, bindings, budget) ==
  CASE plan.node = "scan" -> ScanUpTo(v, plan.table, budget)
    [] plan.node = "lookup" ->
         LET pk == KeyOf(Resolve(plan.key, bindings))
             row == RowAt(v, plan.table, pk)
         IN  IF row = NoRow THEN <<>> ELSE << [pk |-> pk, row |-> row] >>
    [] plan.node = "index" ->
         LET pks == SetToSortSeq(Served(v, plan.table, plan.pred, bindings), <)
             found == SelectSeq([i \in 1..Len(pks) |->
                                   [pk |-> pks[i], row |-> RowAt(v, plan.table, pks[i])]],
                                LAMBDA r : r.row # NoRow)
         IN  Kept(IF Serves(v, plan.table, plan.pred, bindings) THEN found ELSE Scan(v, plan.table),
                  plan.pred, bindings)
    [] plan.node = "join" ->
         LET outer == SelectSeq(Eval(plan.input, v, bindings, Unlimited),
                                LAMBDA r : Column(r.pk, r.row, plan.column).type # "missing")
             Pairs(joined, r) ==
               LET inner == Eval(plan.inner, v,
                                 (plan.binds :> Column(r.pk, r.row, plan.column)) @@ bindings, Unlimited)
               IN  IF budget # Unlimited /\ joined # <<>> /\ Len(joined) >= budget THEN joined
                   ELSE joined \o [i \in 1..Len(inner) |-> Combined(r, inner[i])]
         IN  FoldLeft(Pairs, <<>>, outer)
    [] plan.node = "filter" ->
         UpTo(Kept(Eval(plan.input, v, bindings, Unlimited), plan.pred, bindings), budget)
    [] plan.node = "project" -> Eval(plan.input, v, bindings, budget)
    [] plan.node = "sort" -> Sorted(Eval(plan.input, v, bindings, Unlimited), plan.by)
    [] plan.node = "limit" ->
         Skipped(Eval(plan.input, v, bindings, Smaller(Needed(plan), budget)), plan)
    [] plan.node = "agg" ->
         Grouped(Eval(plan.input, v, bindings, Unlimited), plan.groupBy, plan.aggs)

Bound(plan, bindings) ==
  \A p \in Params(plan) :
    p[1] \in DOMAIN bindings /\ (p[2] = "any" \/ Accepts(p[2], bindings[p[1]]))
Execute(plan, v, bindings) ==
  IF Bound(plan, bindings) THEN [ok |-> TRUE, rows |-> Eval(plan, v, bindings, Unlimited)]
  ELSE [ok |-> FALSE, rows |-> <<>>]

\* -------------------------------------------------------------- the result set
RECURSIVE Projection(_, _)
Projection(plan, rows) ==
  CASE plan.node = "project" -> ToSet(plan.columns)
    [] plan.node = "agg" -> ToSet(plan.groupBy) \cup {a.alias : a \in ToSet(plan.aggs)}
    [] plan.node \in {"sort", "limit"} -> Projection(plan.input, rows)
    [] OTHER -> {KeyColumn} \cup UNION {ColumnsOf(r.row) : r \in ToSet(rows)}

(* A column has its declared type, or that of its first value that is not      *)
(* null; and the rows are encoded only if every value has its column's type.   *)
ColumnType(v, t, rows, c) ==
  IF c \in DOMAIN Table(v, t).fields THEN Table(v, t).fields[c].ty
  ELSE IF NonNull(rows, c) = <<>> THEN "text" ELSE NonNull(rows, c)[1].type
AnyText == {"bytes", "list", "map"}
Encodes(v, plan, rows) ==
  \A c \in Projection(plan, rows) :
    LET ty == ColumnType(v, SourceTable(plan), rows, c)
    IN  ty # "null" /\ (ty \in AnyText \/ \A i \in 1..Len(NonNull(rows, c)) :
                                            NonNull(rows, c)[i].type = ty)
=============================================================================
