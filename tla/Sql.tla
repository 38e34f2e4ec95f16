-------------------------------- MODULE Sql --------------------------------
(* The two ways a query is written. A fluent builder collects a query as data  *)
(* and the client renders it, its values as parameters (the SDKs' query.ts and *)
(* its likes; theta-scribe-wasm query.rs); a caller may as well write the text *)
(* itself. The server compiles either into a plan (theta-query sql.rs). A text *)
(* is a sequence of tokens: what `tokenize` does with characters is left out.  *)
EXTENDS Query

CONSTANTS Columns,     \* the columns a builder may name
          BadNames,    \* those of them that are not identifiers
          Terms,       \* the predicates a caller may add
          Clauses,     \* the pieces of text a caller may write, sequences of tokens
          Samples,     \* the views the queries are asked of
          MaxParts     \* bound on the parts of a query or of a text

VARIABLES query,       \* what the builder holds, or NoQuery
          text,        \* what is sent: its tokens, or Unwritten when it cannot be written
          parts        \* how many parts it was made of
sqlVars == <<query, text, parts>>

\* -------------------------------------------------------------------- tokens
Word(w) == [tok |-> "word", w |-> w, v |-> Null]
Sym(s) == [tok |-> "symbol", w |-> s, v |-> Null]
Dollar(name) == [tok |-> "param", w |-> name, v |-> Null]
Lexed(v) == [tok |-> "value", w |-> "", v |-> v]

(* Keywords are recognised in any case: these are the names a column here may  *)
(* share with one.                                                             *)
Lowercase == [NOT |-> "not", DISTINCT |-> "distinct", JOIN |-> "join"]
WordAt(s, i, kw) ==
  i <= Len(s) /\ s[i].tok = "word" /\ (s[i].w = kw \/ (kw \in DOMAIN Lowercase /\ s[i].w = Lowercase[kw]))
SymbolAt(s, i, sym) == i <= Len(s) /\ s[i].tok = "symbol" /\ s[i].w = sym
NameAt(s, i) == i <= Len(s) /\ s[i].tok = "word"

\* --------------------------------------------------------------- the renderer
(* A builder's query: its predicate is the plan's, values in it, and one more  *)
(* kind, `notnull`.                                                            *)
NoPredicate == [p |-> "none", column |-> KeyColumn, values |-> <<>>, parts |-> <<>>]
NoQuery == [table |-> "", columns |-> <<>>, filter |-> NoPredicate, orderBy |-> <<>>, limit |-> NoLimit]
NotNull(column) == [p |-> "notnull", column |-> column, values |-> <<>>, parts |-> <<>>]
Unset == -1

NewQuery(name) == [NoQuery EXCEPT !.table = name, !.limit = [count |-> Unset, offset |-> Unset]]
Select(q, columns) == [q EXCEPT !.columns = @ \o columns]
Where(q, pred) == [q EXCEPT !.filter = IF @.p = "none" THEN pred ELSE All(<<@, pred>>)]
OrderBy(q, column, desc) == [q EXCEPT !.orderBy = Append(@, [column |-> column, desc |-> desc])]
LimitTo(q, count) == [q EXCEPT !.limit.count = count]
OffsetBy(q, count) == [q EXCEPT !.limit.offset = count]

Separated(seqs, sep) ==
  IF seqs = <<>> THEN <<>>
  ELSE FoldLeft(LAMBDA all, one : all \o <<sep>> \o one, seqs[1], Tail(seqs))
Parenthesised(s) == <<Sym("(")>> \o s \o <<Sym(")")>>
Operator == [eq |-> "=", ne |-> "!=", lt |-> "<", lte |-> "<=", gt |-> ">", gte |-> ">="]
Bind(n) == "p" \o ToString(n)

(* How many values a predicate binds, and which, in the order they are named.  *)
RECURSIVE ValuesBound(_)
ValuesBound(pred) ==
  [i \in 1..Len(pred.values) |-> pred.values[i].value]
    \o FlattenSeq([i \in 1..Len(pred.parts) |-> ValuesBound(pred.parts[i])])

\* Mutant: a list of terms is left to precedence.
BareJoin(terms, op) == IF terms = <<>> THEN <<Word("TRUE")>> ELSE Separated(terms, Word(op))

(* No term is always true, one stands alone, more are parenthesised.           *)
JoinTerms(terms, op) ==
  IF terms = <<>> THEN <<Word("TRUE")>>
  ELSE IF Len(terms) = 1 THEN terms[1] ELSE Parenthesised(Separated(terms, Word(op)))

(* The tokens of a predicate whose first value is bound as number n.           *)
RECURSIVE Predicate(_, _)
Predicate(pred, n) ==
  LET column == Word(pred.column)
      From(i) == n + Len(FlattenSeq([j \in 1..i - 1 |-> ValuesBound(pred.parts[j])]))
      rendered == [i \in 1..Len(pred.parts) |-> Predicate(pred.parts[i], From(i))]
      names == [i \in 1..Len(pred.values) |-> <<Dollar(Bind(n + i - 1))>>]
  IN  CASE pred.p = "in" -> <<column, Word("IN")>> \o Parenthesised(Separated(names, Sym(",")))
        [] pred.p = "null" -> <<column, Word("IS"), Word("NULL")>>
        [] pred.p = "notnull" -> <<column, Word("IS"), Word("NOT"), Word("NULL")>>
        [] pred.p = "and" -> JoinTerms(rendered, "AND")
        [] pred.p = "or" -> JoinTerms(rendered, "OR")
        [] pred.p = "not" -> <<Word("NOT")>> \o Parenthesised(rendered[1])
        [] OTHER -> <<column, Sym(Operator[pred.p])>> \o names[1]

RECURSIVE ColumnsIn(_)
ColumnsIn(pred) ==
  IF pred.p \in {"and", "or", "not"} THEN UNION {ColumnsIn(part) : part \in ToSet(pred.parts)}
  ELSE IF pred.p = "none" THEN {} ELSE {pred.column}

Listed(names) == Separated([i \in 1..Len(names) |-> <<Word(names[i])>>], Sym(","))
Ordered(by) ==
  Separated([i \in 1..Len(by) |->
              IF by[i].desc THEN <<Word(by[i].column), Word("DESC")>> ELSE <<Word(by[i].column)>>], Sym(","))
Number(keyword, n) == IF n = Unset THEN <<>> ELSE <<Word(keyword), Lexed(Int0(n))>>

Unwritten == << Sym("refused") >>
Render(q) ==
  IF (ToSet(q.columns) \cup ColumnsIn(q.filter) \cup {o.column : o \in ToSet(q.orderBy)}) \cap BadNames # {}
  THEN Unwritten
  ELSE <<Word("SELECT")>> \o (IF q.columns = <<>> THEN <<Sym("*")>> ELSE Listed(q.columns))
         \o <<Word("FROM"), Word(q.table)>>
         \o (IF q.filter.p = "none" THEN <<>> ELSE <<Word("WHERE")>> \o Predicate(q.filter, 0))
         \o (IF q.orderBy = <<>> THEN <<>> ELSE <<Word("ORDER"), Word("BY")>> \o Ordered(q.orderBy))
         \o Number("LIMIT", q.limit.count) \o Number("OFFSET", q.limit.offset)
BoundParams(q) ==
  LET values == IF q.filter.p = "none" THEN <<>> ELSE ValuesBound(q.filter)
  IN  [name \in {Bind(i - 1) : i \in 1..Len(values)} |-> values[CHOOSE i \in 1..Len(values) : Bind(i - 1) = name]]

\* ----------------------------------------------------------------- the parser
(* A parse from token i: what it read and the token after it, or a refusal.    *)
Read(node, at) == [ok |-> TRUE, node |-> node, at |-> at]
Refused == [ok |-> FALSE, node |-> <<>>, at |-> 0]

Named == {"TRUE", "FALSE", "NULL"}
NamedValue == [TRUE |-> Of("bool", 1), FALSE |-> Of("bool", 0), NULL |-> Null]
ParseValue(s, i) ==
  IF i > Len(s) THEN Refused
  ELSE CASE s[i].tok = "value" -> Read(Lit(s[i].v), i + 1)
         [] s[i].tok = "param" -> Read(Param(s[i].w, "any"), i + 1)
         [] s[i].tok = "word" /\ s[i].w \in Named -> Read(Lit(NamedValue[s[i].w]), i + 1)
         [] OTHER -> Refused

Compared == ("=" :> "eq") @@ ("!=" :> "ne") @@ ("<>" :> "ne") @@ ("<" :> "lt")
              @@ ("<=" :> "lte") @@ (">" :> "gt") @@ (">=" :> "gte")

(* What one element and, after a comma, the rest of its list read.             *)
Then(first, more, rest) ==
  IF ~first.ok THEN Refused
  ELSE IF ~more THEN Read(<<first.node>>, first.at)
  ELSE IF rest.ok THEN Read(<<first.node>> \o rest.node, rest.at) ELSE Refused
ParseList(s, i) ==
  LET list[j \in 1..Len(s) + 1] ==
        LET first == ParseValue(s, j) IN Then(first, SymbolAt(s, first.at, ","), list[first.at + 1])
  IN  list[i]

(* Of the operators below each reads one rule of the grammar and finds the     *)
(* others, at any token, in `read`.                                            *)
Alone(terms, joined) == IF terms.ok THEN Read(IF Len(terms.node) = 1 THEN terms.node[1] ELSE joined, terms.at) ELSE Refused
(* The terms one connective separates: of OR, conjunctions; of AND, negations. *)
ParseTerms(read, s, i, op) ==
  LET first == IF op = "AND" THEN read["not", i] ELSE Alone(read["AND", i], All(read["AND", i].node))
  IN  Then(first, WordAt(s, first.at, op), read[op, first.at + 1])

ParseOr(read, i) == Alone(read["OR", i], AnyPred(read["OR", i].node))

ParseNot(read, s, i) ==
  IF ~WordAt(s, i, "NOT") THEN read["comparison", i]
  ELSE LET term == read["not", i + 1] IN IF term.ok THEN Read(Not(term.node), term.at) ELSE Refused

Closed(s, parse, node) == IF parse.ok /\ SymbolAt(s, parse.at, ")") THEN Read(node, parse.at + 1) ELSE Refused
ParseComparison(read, s, i) ==
  IF SymbolAt(s, i, "(") THEN Closed(s, read["or", i + 1], read["or", i + 1].node)
  ELSE IF ~NameAt(s, i) THEN Refused
  ELSE IF WordAt(s, i + 1, "IS")
  THEN LET negated == WordAt(s, i + 2, "NOT")
           at == IF negated THEN i + 3 ELSE i + 2
           pred == IsNull(s[i].w)
       IN  IF WordAt(s, at, "NULL") THEN Read(IF negated THEN Not(pred) ELSE pred, at + 1) ELSE Refused
  ELSE IF WordAt(s, i + 1, "IN")
  THEN LET list == IF SymbolAt(s, i + 2, "(") THEN ParseList(s, i + 3) ELSE Refused
       IN  Closed(s, list, In(s[i].w, list.node))
  ELSE LET value == ParseValue(s, i + 2)
       IN  IF i < Len(s) /\ s[i + 1].tok = "symbol" /\ s[i + 1].w \in DOMAIN Compared /\ value.ok
           THEN Read(Is(Compared[s[i + 1].w], s[i].w, value.node), value.at) ELSE Refused

ParsePredicate(s, i) ==
  LET read[rule \in {"or", "OR", "AND", "not", "comparison"}, j \in 1..Len(s) + 1] ==
        CASE rule = "or" -> ParseOr(read, j)
          [] rule \in {"OR", "AND"} -> ParseTerms(read, s, j, rule)
          [] rule = "not" -> ParseNot(read, s, j)
          [] rule = "comparison" -> ParseComparison(read, s, j)
  IN  read["or", i]

ParseName(s, i) == IF NameAt(s, i) THEN Read(s[i].w, i + 1) ELSE Refused
ParseNames(s, i) ==
  LET list[j \in 1..Len(s) + 1] ==
        LET first == ParseName(s, j) IN Then(first, SymbolAt(s, first.at, ","), list[first.at + 1])
  IN  list[i]

(* One entry of the SELECT list: everything, a column, or an aggregate, whose  *)
(* alias defaults to its function and column.                                  *)
AggregateNames == [COUNT |-> "count", SUM |-> "sum", MIN |-> "min", MAX |-> "max", AVG |-> "avg"]
Entry(kind, column, func, alias) == [kind |-> kind, column |-> column, func |-> func, alias |-> alias]
ParseSelected(s, i) ==
  IF SymbolAt(s, i, "*") THEN Read(Entry("all", "*", "", ""), i + 1)
  ELSE IF ~NameAt(s, i) THEN Refused
  ELSE IF SymbolAt(s, i + 1, "(")
  THEN LET star == SymbolAt(s, i + 2, "*")
           func == AggregateNames[s[i].w]
           default == IF star THEN func ELSE func \o "_" \o s[i + 2].w
           as == WordAt(s, i + 4, "AS")
       IN  IF s[i].w \notin DOMAIN AggregateNames \/ ~(star \/ NameAt(s, i + 2)) \/ ~SymbolAt(s, i + 3, ")")
              \/ (as /\ ~NameAt(s, i + 5))
           THEN Refused
           ELSE Read(Entry("agg", IF star THEN "*" ELSE s[i + 2].w, func, IF as THEN s[i + 5].w ELSE default),
                     IF as THEN i + 6 ELSE i + 4)
  ELSE IF WordAt(s, i + 1, "AS") THEN Refused
  ELSE Read(Entry("column", s[i].w, "", ""), i + 1)

ParseSelectList(s, i) ==
  LET list[j \in 1..Len(s) + 1] ==
        LET first == ParseSelected(s, j) IN Then(first, SymbolAt(s, first.at, ","), list[first.at + 1])
  IN  list[i]

ParseDirected(s, i) ==
  LET desc == WordAt(s, i + 1, "DESC")
  IN  IF ~NameAt(s, i) THEN Refused
      ELSE Read([column |-> s[i].w, desc |-> desc], IF desc \/ WordAt(s, i + 1, "ASC") THEN i + 2 ELSE i + 1)
ParseOrder(s, i) ==
  LET list[j \in 1..Len(s) + 1] ==
        LET first == ParseDirected(s, j) IN Then(first, SymbolAt(s, first.at, ","), list[first.at + 1])
  IN  list[i]

(* A plain column beside an aggregate must be grouped by; everything selected  *)
(* is no projection at all.                                                    *)
Entries(selected, kind) == SelectSeq(selected, LAMBDA e : e.kind = kind)
Names(entries) == [i \in 1..Len(entries) |-> entries[i].column]
ApplyProjection(plan, selected, groupBy) ==
  LET aggs == Entries(selected, "agg")
      plain == Names(Entries(selected, "column"))
  IN  IF aggs # <<>> \/ groupBy # <<>>
      THEN IF ToSet(plain) \subseteq ToSet(groupBy)
           THEN Read(Aggregate(plan, groupBy, [i \in 1..Len(aggs) |->
                  [func |-> aggs[i].func, column |-> aggs[i].column, alias |-> aggs[i].alias]]), 0)
           ELSE Refused
      ELSE Read(IF Entries(selected, "all") # <<>> THEN plan ELSE Project(plan, plain), 0)

Unsupported == {"JOIN", "INNER", "LEFT", "RIGHT", "FULL", "CROSS", "UNION"}
ParseCount(s, i) ==
  IF i <= Len(s) /\ s[i].tok = "value" /\ s[i].v.type = "int" /\ s[i].v.num >= 0 THEN Read(s[i].v.num, i + 1) ELSE Refused

Trailing(s, at) == at <= Len(s)

(* parse_select: each clause adds to the statement read so far, q; it may      *)
(* stand in its place only, and nothing after the last.                        *)
NoStatement == [ok |-> FALSE, at |-> 0, selected |-> <<>>, plan |-> <<>>, sort |-> <<>>, limit |-> NoLimit]
Bad(q) == [q EXCEPT !.ok = FALSE]
SelectClause(s) ==
  LET list == ParseSelectList(s, 2)
  IN  IF WordAt(s, 1, "SELECT") /\ ~WordAt(s, 2, "DISTINCT") /\ list.ok
      THEN [NoStatement EXCEPT !.ok = TRUE, !.at = list.at, !.selected = list.node] ELSE NoStatement
FromClause(s, q) ==
  IF q.ok /\ WordAt(s, q.at, "FROM") /\ NameAt(s, q.at + 1) /\ ~\E w \in Unsupported : WordAt(s, q.at + 2, w)
  THEN [q EXCEPT !.plan = ScanOf(s[q.at + 1].w), !.at = @ + 2] ELSE Bad(q)
WhereClause(s, q) ==
  LET pred == ParsePredicate(s, q.at + 1)
  IN  IF ~q.ok \/ ~WordAt(s, q.at, "WHERE") THEN q
      ELSE IF pred.ok THEN [q EXCEPT !.plan = Filter(@, pred.node), !.at = pred.at] ELSE Bad(q)
(* A keyword that BY must follow, and what the list behind it reads.           *)
By(s, q, keyword, list) ==
  IF ~WordAt(s, q.at, keyword) THEN Read(<<>>, q.at) ELSE IF WordAt(s, q.at + 1, "BY") THEN list ELSE Refused
GroupClause(s, q) ==
  LET grouped == By(s, q, "GROUP", ParseNames(s, q.at + 2))
      projected == ApplyProjection(q.plan, q.selected, grouped.node)
  IN  IF ~q.ok \/ ~grouped.ok \/ WordAt(s, grouped.at, "HAVING") \/ ~projected.ok THEN Bad(q)
      ELSE [q EXCEPT !.plan = projected.node, !.at = grouped.at]
OrderClause(s, q) ==
  LET sorted == By(s, q, "ORDER", ParseOrder(s, q.at + 2))
  IN  IF ~q.ok \/ ~sorted.ok THEN Bad(q) ELSE [q EXCEPT !.sort = sorted.node, !.at = sorted.at]
LimitClause(s, q) ==
  LET count == ParseCount(s, q.at + 1)
      offset == IF WordAt(s, count.at, "OFFSET") THEN ParseCount(s, count.at + 1) ELSE Read(0, count.at)
  IN  IF ~q.ok \/ ~WordAt(s, q.at, "LIMIT") THEN q
      ELSE IF count.ok /\ offset.ok
           THEN [q EXCEPT !.limit = [count |-> count.node, offset |-> offset.node], !.at = offset.at] ELSE Bad(q)
ParseSelect(s) ==
  LET q == LimitClause(s, OrderClause(s, GroupClause(s, WhereClause(s, FromClause(s, SelectClause(s))))))
  IN  IF q.ok /\ ~Trailing(s, q.at) THEN Read(Build(q.plan, q.sort, q.limit), q.at) ELSE Refused

\* ------------------------------------------------------------------- actions
Init == query = NoQuery /\ text = <<>> /\ parts = 0

More == parts < MaxParts /\ parts' = parts + 1
Built(q) == More /\ query' = q /\ text' = Render(q)

Begin(table) == parts = 0 /\ Built(NewQuery(table))
Add(q) == query # NoQuery /\ Built(q)
AddSelect(column) == Add(Select(query, <<column>>))
AddWhere(pred) == Add(Where(query, pred))
AddOrder(column, desc) == Add(OrderBy(query, column, desc))
AddLimit(count) == Add(LimitTo(query, count))
AddOffset(count) == Add(OffsetBy(query, count))

Write(clause) == query = NoQuery /\ More /\ text' = text \o clause /\ UNCHANGED query

Next ==
  \/ Begin("t")
  \/ \E column \in Columns : AddSelect(column)
  \/ \E pred \in Terms : AddWhere(pred)
  \/ \E column \in Columns, desc \in BOOLEAN : AddOrder(column, desc)
  \/ \E n \in 0..1 : AddLimit(n) \/ AddOffset(n)
  \/ \E clause \in Clauses : Write(clause)

Spec == Init /\ [][Next]_sqlVars

\* ---------------------------------------------------------------- properties
TypeOK ==
  /\ query.table \in {"", "t"} /\ query.filter.p \in {"none", "and"} \cup {t.p : t \in Terms}
  /\ ToSet(query.columns) \subseteq Columns /\ parts \in 0..MaxParts
  /\ \A i \in 1..Len(text) : text[i].tok \in {"word", "symbol", "param", "value"}

(* What a builder's query means, of itself.                                    *)
RECURSIVE Meaning(_)
Meaning(pred) ==
  IF pred.p = "notnull" THEN Not(IsNull(pred.column))
  ELSE [pred EXCEPT !.parts = [i \in 1..Len(@) |-> Meaning(@[i])]]
Answer(q, v) ==
  LET kept == IF q.filter.p = "none" THEN Scan(v, q.table) ELSE Kept(Scan(v, q.table), Meaning(q.filter), <<>>)
      sorted == IF q.orderBy = <<>> THEN kept ELSE Sorted(kept, q.orderBy)
      from == IF q.limit.offset = Unset THEN 0 ELSE q.limit.offset
  IN  UpTo(IF from >= Len(sorted) THEN <<>> ELSE SubSeq(sorted, from + 1, Len(sorted)), q.limit.count)

(* A list of no terms, an offset with no limit and a column that has the name  *)
(* of a keyword where the keyword may stand are refused; nothing else is.      *)
RECURSIVE Complete(_)
Complete(pred) ==
  /\ pred.p \in {"and", "or"} => pred.parts # <<>>
  /\ pred.p = "in" => pred.values # <<>>
  /\ \A part \in ToSet(pred.parts) : Complete(part)
Reserved == {"not", "distinct"}
Answerable(q) ==
  /\ (ToSet(q.columns) \cup ColumnsIn(q.filter) \cup {o.column : o \in ToSet(q.orderBy)})
       \cap (BadNames \cup Reserved) = {}
  /\ Complete(q.filter)
  /\ q.limit.offset # Unset => q.limit.count # Unset

AnswersAs(q, v, plan, result) ==
  /\ result.ok /\ result.rows = Answer(q, v)
  /\ q.columns # <<>> => Projection(plan, <<>>) = ToSet(q.columns)
Asked(plan, v) == Execute(Optimize(plan, Analyzed(NoStats, v, query.table)), v, BoundParams(query))
MeansBuilt(plan) ==
  /\ Answerable(query) => plan.ok
  /\ plan.ok => \A v \in Samples : AnswersAs(query, v, plan.node, Asked(plan.node, v))
(* The text a builder sends is compiled to a plan that answers what was built, *)
(* or it is refused, and only a query that cannot be written is: no grouping,  *)
(* binding or clause is lost between the client's renderer and the server's    *)
(* parser (query.rs render, sql.rs compile).                                   *)
RenderedMeansBuilt == query # NoQuery => MeansBuilt(ParseSelect(text))

(* What a plan says: the tables, columns and aliases it names, its parameters  *)
(* and its values.                                                             *)
RECURSIVE PredWords(_), PlanWords(_)
PredWords(pred) ==
  (IF pred.parts = <<>> THEN {Word(pred.column)} ELSE {})
    \cup {IF e.param = NoParam THEN Lexed(e.value) ELSE Dollar(e.param) : e \in ToSet(pred.values)}
    \cup UNION {PredWords(part) : part \in ToSet(pred.parts)}
Said(names) == {Word(n) : n \in names}
PlanWords(plan) ==
  IF plan.node = "scan" THEN {Word(plan.table)}
  ELSE PlanWords(plan.input) \cup
    CASE plan.node = "filter" -> PredWords(plan.pred)
      [] plan.node = "project" -> Said(ToSet(plan.columns))
      [] plan.node = "sort" -> Said({b.column : b \in ToSet(plan.by)})
      [] plan.node = "limit" -> {Lexed(Int0(plan.count)), Lexed(Int0(plan.offset))}
      [] plan.node = "agg" -> Said(ToSet(plan.groupBy)) \cup
           UNION {Said({a.alias, a.column}) : a \in ToSet(plan.aggs)}
Keywords == {"SELECT", "DISTINCT", "FROM", "WHERE", "AND", "OR", "NOT", "IN", "IS", "NULL", "TRUE", "FALSE",
             "GROUP", "BY", "HAVING", "ORDER", "ASC", "DESC", "LIMIT", "OFFSET", "AS"}
              \cup Unsupported \cup DOMAIN AggregateNames

SaysAllOf(plan, words) ==
  plan.ok =>
    \A token \in ToSet(words) :
      \/ token.tok = "symbol" \/ (token.tok = "word" /\ token.w \in Keywords)
      \/ token \in PlanWords(plan.node)
(* A text somebody wrote is compiled only if the plan says everything it says: *)
(* every name, parameter and value of it is in the plan, so no clause was      *)
(* passed over (sql.rs: what is excluded is refused, never partly honoured).   *)
NothingPassedOver == SaysAllOf(ParseSelect(text), text)
=============================================================================
