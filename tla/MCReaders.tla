----------------------------- MODULE MCReaders -----------------------------
(* What reads the log and what is read from it, in one run: a branch's rows,   *)
(* indexes and queries (Rows), its history (History), the completeness map     *)
(* (Completeness), queries in SQL (Sql), replicas that exchange entries and    *)
(* the clients (ReaderParts), and a migration (Eject). A behaviour is one      *)
(* part's: `part` says whose; Rows' variables stay as they began in any other; *)
(* history, the map, SQL and the migration share the variables u1, u2, ...     *)
EXTENDS Rows, ReaderParts

CONSTANT Parts
VARIABLES u1, u2, u3, u4, u5, u6, u7, u8, u9, u10
shared == <<u1, u2, u3, u4, u5, u6, u7, u8, u9, u10>>
others == <<shared, logs, writes, clientVars, sessionVars>>

OnPart(p, A) ==
  part = p /\ A /\ UNCHANGED <<part, vars, logs, writes, clientVars, sessionVars>>

\* ------------------------------------------------------------------------ rows
(* One table of at most two rows with an index on `b`; a unique index, a drop  *)
(* and a rename of the column, and the table's drop may come. Bounds: a        *)
(* restart comes when one entry is left to write, and only the first row is    *)
(* read (after the second entry), mutated and written in a batch.              *)
Key1 == <<"t", 1>>
B(n) == RowOf("b" :> Int0(n))
BC(n, m) == RowOf(("b" :> Int0(n)) @@ ("c" :> Int0(m)))
MCRowValues == {B(1), BC(2, 1)}
Fs == ("b" :> Field("int", TRUE, "none"))
Ix == IndexDef("ix", <<"b">>, FALSE)
Uq == IndexDef("uq", <<"b">>, TRUE)
MCFirst == << [kind |-> "AddTable", table |-> "t", def |-> TableDef(Fs, {Ix})] >>
MCChanges == { [kind |-> "AddIndex", table |-> "t", index |-> Uq],
   [kind |-> "DropColumn", table |-> "t", column |-> "b"],
   [kind |-> "RenameColumn", table |-> "t", column |-> "b", to |-> "c"],
   [kind |-> "DropTable", table |-> "t"] }
P1 == Is("lte", "b", Lit(Int0(1)))
MCPlans == { Build(WithFilter(ScanOf("t"), P1), <<>>, [count |-> 1, offset |-> 1]),
             Filter(Sort(ScanOf("t"), << [column |-> "b", desc |-> TRUE] >>), Is("gt", "b", Param("x", "int"))),
             WithAggregate(WithFilter(WithFilter(ScanOf("t"), P1), Not(IsNull("c"))), <<"b">>, << [func |-> "count", column |-> "*", alias |-> "n"] >>) }
MCBindings == ("x" :> Int0(1))
MCProbes == {<<"b", AnyOf({Int0(1)})>>, <<"b", Above(Int0(1), TRUE)>>, <<"c", AnyOf({Int0(1)})>>}
OnRows(A) == part = "rows" /\ A /\ UNCHANGED <<part, others>>

\* --------------------------------------------------------------------- history
Row(n) == <<"t", n>>
Sets(n, r) == Put(Row(n), B(r))
Act(op, at, who) == [ops |-> <<op>>, at |-> at, who |-> who]
DropB == Schema([kind |-> "DropColumn", table |-> "t", column |-> "b"])
HistoryActs ==
  {Act(Sets(1, 1), 3, "ana"), Act(Sets(1, 2), 1, "bot"),
   Act(Delete(Row(1)), 2, "bot"),
   Act(DropB, 1, "bot"),
   Act(Schema([kind |-> "AddColumn", table |-> "t", column |-> "b", to |-> Field("text", TRUE, "none")]), 2, "ana"),
   Act(Schema([kind |-> "ty", table |-> "t", column |-> "b", to |-> "float"]), 2, "bot")}
(* A branch's own: a row, its deletion, a column's drop (bound).               *)
BranchActs == {Act(Sets(1, 2), 1, "bot"), Act(Delete(Row(1)), 2, "bot"), Act(DropB, 1, "bot")}
HistoryFirst ==
  Act(Schema([kind |-> "AddTable", table |-> "t",
              def |-> TableDef("b" :> Field("int", TRUE, "none"), {})]), 1, "ana")
Told == INSTANCE History WITH
  Main <- 0, Branches <- {0, 1}, Acts <- HistoryActs, FirstAct <- HistoryFirst,
  ForkAct <- [ops |-> <<>>, at |-> 2, who |-> "bot"], Limits <- {1, 2},
  MaxEntries <- 4, MaxForks <- 1, MaxLives <- 1,
  entries <- u1, from <- u2, heads <- u3, open <- u4, next <- u5, views <- u6, past <- u7,
  consumer <- u8, anchored <- u9, lives <- u10
OnHistory(A) == OnPart("history", A)

\* ---------------------------------------------------------------- completeness
Map == INSTANCE Completeness WITH Keys <- {1, 2, 3}, Values <- {1, 2}, rows <- u1
OnMap(A) == OnPart("map", A) /\ UNCHANGED <<u2, u3, u4, u5, u6, u7, u8, u9, u10>>

\* ------------------------------------------------------------------------ sync
ASSUME Copies!SyncAssumption
OnSync(A) ==
  part = "sync" /\ A /\ UNCHANGED <<part, vars, shared, clientVars, sessionVars>>

\* ------------------------------------------------------------------------- sql
(* Queries of one table, built and written; one of the columns has a keyword's *)
(* name, one is no identifier. A text begins as a query does, or with a clause *)
(* in the wrong place.                                                         *)
Filled(b1, b2) == PutRow(PutRow(WithTable(EmptyView, "t", TableDef(Fs, {Ix})), <<"t", 1>>, b1, 1), <<"t", 2>>, b2, 2)
IsB(n) == Is("eq", "b", Lit(Int0(n)))
SqlTerms ==
  { IsB(1), Not(Is("lt", "c", Lit(Int0(2)))),
    AnyPred(<<IsB(2), All(<<Is("gte", "b", Lit(Int0(1))), [IsNull("c") EXCEPT !.p = "notnull"]>>)>>),
    Not(AnyPred(<<In("b", <<Lit(Int0(2)), Lit(Null)>>), IsNull("c")>>)), AnyPred(<<IsB(1)>>),
    All(<<>>), In("b", <<>>), Is("ne", "not", Lit(Int0(1))) }
SqlWord(w) == [tok |-> "word", w |-> w, v |-> Null]
SqlSym(w) == [tok |-> "symbol", w |-> w, v |-> Null]
SqlInt(n) == [tok |-> "value", w |-> "", v |-> Int0(n)]
SqlPar(w) == [tok |-> "param", w |-> w, v |-> Null]
SqlClauses ==
  { <<SqlWord("SELECT"), SqlWord("b"), SqlWord("FROM"), SqlWord("t")>>,
    <<SqlWord("SELECT"), SqlSym("*"), SqlWord("FROM"), SqlWord("t")>>,
    <<SqlWord("SELECT"), SqlWord("DISTINCT"), SqlWord("b"), SqlWord("FROM"), SqlWord("t")>>,
    <<SqlWord("SELECT"), SqlWord("b"), SqlSym(","), SqlWord("COUNT"), SqlSym("("), SqlSym("*"), SqlSym(")"),
      SqlWord("AS"), SqlWord("n"), SqlWord("FROM"), SqlWord("t")>>,
    <<SqlWord("SELECT"), SqlWord("SUM"), SqlSym("("), SqlWord("c"), SqlSym(")"), SqlWord("FROM"), SqlWord("t")>>,
    <<SqlWord("JOIN"), SqlWord("u")>>,
    <<SqlWord("WHERE"), SqlWord("b"), SqlSym("<>"), SqlPar("x")>>,
    <<SqlWord("WHERE"), SqlWord("NOT"), SqlSym("("), SqlWord("b"), SqlWord("IS"), SqlWord("NOT"), SqlWord("NULL")>>,
    <<SqlWord("WHERE"), SqlWord("b"), SqlSym("="), SqlWord("c")>>,
    <<SqlWord("OR"), SqlWord("c"), SqlWord("IN"), SqlSym("("), SqlInt(1), SqlSym(","), SqlWord("NULL"), SqlSym(")")>>,
    <<SqlSym(")")>>,
    <<SqlWord("GROUP"), SqlWord("BY"), SqlWord("b")>>,
    <<SqlWord("HAVING"), SqlWord("n"), SqlSym(">"), SqlInt(1)>>,
    <<SqlWord("ORDER"), SqlWord("BY"), SqlWord("c"), SqlWord("ASC"), SqlSym(","), SqlWord("b"), SqlWord("DESC")>>,
    <<SqlWord("LIMIT"), SqlInt(2)>>, <<SqlWord("OFFSET"), SqlInt(1)>> }
SqlFirst == {clause \in SqlClauses : clause[1].w \in {"SELECT", "JOIN"}}
Statements == INSTANCE Sql WITH
  Columns <- {"b", "c", "not", "a b"}, BadNames <- {"a b"}, Terms <- SqlTerms, Clauses <- SqlClauses,
  Samples <- {Filled(B(1), BC(2, 1)), Filled(BC(2, 2), B(2)), Filled(RowOf("c" :> Int0(1)), BC(1, 1))}, MaxParts <- 4,
  query <- u1, text <- u2, parts <- u3
OnSql(A) == OnPart("sql", A) /\ UNCHANGED <<u4, u5, u6, u7, u8, u9, u10>>

\* ---------------------------------------------------------------------- scribe
(* Two tasks, a handle on main and one on a branch, a pool of one connection.  *)
(* Which task makes a call does not matter: the second does when the first is  *)
(* busy. Some steps are taken only where they matter: the last call is a get   *)
(* of `k`, time passes before it, the token changes while the first connection *)
(* is opened, and it is the first task that loses its connection.              *)
MCClientBranch == [main |-> 0, side |-> 1]
MCCacheSize == [main |-> 1, side |-> 2]
MCCacheTtl == [main |-> 1, side |-> 1]
ASSUME Clients!ScribeAssumption
ASSUME Spoken!BindingAssumption
Callers == IF part # "scribe" THEN {} ELSE IF Clients!Busy("c1") THEN {"c2"} ELSE {"c1"}
Gets == {<<"main", "k">>, <<"side", "k">>} \cup (IF part = "scribe" /\ called = 2 THEN {} ELSE {<<"main", "l">>})
Putters == IF part = "scribe" /\ called < 2 THEN Callers ELSE {}
OnClients(A) ==
  part = "scribe" /\ A /\ UNCHANGED <<part, vars, shared, logs, writes, sessionVars>>

\* ----------------------------------------------------------------------- eject
(* A table with a composite key whose parts disagree with the rows' order, an  *)
(* exact, a lossy and a constrained column, and a table without a key. A run   *)
(* may begin again once, and others move twice.                                *)
EjectColumn(name, udt) ==
  [name |-> name, udt |-> udt, array |-> udt = "_text", reads |-> IF name = "view_count" THEN "counter" ELSE "plain",
   nullable |-> TRUE, default |-> name = "n", limited |-> name = "price"]
EjectRelations ==
  << [name |-> "t", view |-> FALSE, key |-> <<"a", "b">>, uniques |-> {"n"},
      columns |-> <<EjectColumn("n", "int8"), EjectColumn("price", "numeric"), EjectColumn("view_count", "int4"),
                    EjectColumn("at", "timestamptz"), EjectColumn("note", "jsonb")>>],
     [name |-> "log", view |-> FALSE, key |-> <<>>, uniques |-> {}, columns |-> <<EjectColumn("m", "_text")>>],
     [name |-> "totals", view |-> TRUE, key |-> <<>>, uniques |-> {}, columns |-> <<EjectColumn("m", "interval")>>] >>
EjectRow(n, price, at) ==
  [c \in {"n", "price", "view_count", "at", "note"} |->
    CASE c = "n" -> n [] c = "price" -> price [] c = "at" -> at [] c = "view_count" -> -1
      [] c = "note" -> IF price = 100 THEN -2 ELSE price]
EjectLog == [k \in {<<0>>} |-> [m |-> 1]]
EjectRows ==
  (<<1, 2>> :> EjectRow(1, 3, 5)) @@ (<<2, 1>> :> EjectRow(2, -1, 4)) @@ (<<2, 3>> :> EjectRow(-1, 2, 0))
EjectContents ==
  { [t |-> EjectRows, log |-> EjectLog],
    [t |-> [EjectRows EXCEPT ![<<2, 1>>] = EjectRow(3, 100, 4)], log |-> EjectLog],
    [t |-> [EjectRows EXCEPT ![<<2, 3>>] = EjectRow(3, 1, 100)], log |-> EjectLog] }
EjectStrays == { <<"t", <<2, 1>>, [price |-> 9]>>, <<"t", <<1, 2>>, [n |-> 1, price |-> 1, at |-> 4]>> }
EjectEdits == { <<"t", <<1, 1>>, EjectRow(7, 7, 7)>>, <<"t", <<2, 1>>, EjectRow(2, 5, 4)>> }
Moves == INSTANCE Eject WITH
  Relations <- EjectRelations, Contents <- EjectContents, Strays <- EjectStrays,
  Edits <- EjectEdits,
  Exclusions <- {{}, {"log"}, {"lgo"}}, BatchSize <- 2, MaxRuns <- 2, MaxMoves <- 2,
  source <- u1, target <- u2, plan <- u3, run <- u4, late <- u5, still <- u6, runs <- u7, moves <- u8
OnMoves(A) == OnPart("eject", A) /\ UNCHANGED <<u9, u10>>

\* --------------------------------------------------------------------- binding
(* Two callers on one session, the second calling when the first is busy;      *)
(* every method is called first, a few after.                                  *)
MCFirstMethods == {"get", "put", "delete", "putIf", "transaction", "query", "explain", "status", "describe",
                 "propose", "show", "validate", "apply", "promote", "reject", "create", "createFrom", "merge", "discard"}
MethodsAfter(n) == IF n = 0 THEN SessionMethods ELSE {"get", "put", "describe"}
Free == IF part # "binding" THEN {} ELSE IF asked["a"].pc # "done" THEN {"b"} ELSE {"a"}
OnSpoken(A) ==
  part = "binding" /\ A /\ UNCHANGED <<part, vars, shared, logs, writes, clientVars>>

\* --------------------------------------------------------------- the one system
NoClients ==
  /\ stored = Idle /\ wrote = Idle /\ caches = Idle /\ tasks = Idle /\ idle = Idle
  /\ orphans = Idle /\ token = Idle /\ hour = Idle /\ acked = Idle /\ called = Idle
NoDialogue ==
  /\ asked = Idle /\ queue = Idle /\ dialogue = Idle /\ sock = Idle
  /\ flight = Idle /\ server = Idle /\ begun = Idle
Rest4 == u4 = Idle /\ u5 = Idle /\ u6 = Idle /\ u7 = Idle /\ u8 = Idle /\ u9 = Idle /\ u10 = Idle
Rest3 == u3 = Idle /\ Rest4
Rest2 == u2 = Idle /\ Rest3
Rest1 == u1 = Idle /\ Rest2
ComposedInit ==
  /\ part \in Parts
  /\ Init
  /\ IF part = "sync" THEN Copies!Init ELSE logs = Idle /\ writes = Idle
  /\ IF part = "scribe" THEN Clients!Init ELSE NoClients
  /\ IF part = "binding" THEN Spoken!Init ELSE NoDialogue
  /\ CASE part = "history" -> Told!Init
       [] part = "map"     -> Map!Init /\ Rest2
       [] part = "sql"     -> Statements!Init /\ Rest4
       [] part = "eject"   -> Moves!Init /\ u9 = Idle /\ u10 = Idle
       [] OTHER            -> Rest1

ComposedNext ==
  \/ \E key \in Keys, row \in RowValues : OnRows(PutRow1(key, row))
  \/ \E key \in Keys : OnRows(Erase(key))
  \/ OnRows(Mutate(Key1))
  \/ Len(log) = 2 /\ \E w \in Writers : OnRows(Read(w, Key1))
  \/ \E w \in Writers, row \in RowValues : OnRows(PutIf(w, row))
  \/ \E k1, k2 \in Keys, row \in RowValues : OnRows(Transact(k1, row, k2, row))
  \/ \E row \in RowValues : OnRows(WriteBatch(Key1, row))
  \/ \E change \in Changes : OnRows(ChangeSchema(change))
  \/ \E plan \in Plans : OnRows(Query(plan))
  \/ \E n \in 0..MaxEntries - 1 : Len(log) = MaxEntries - 1 /\ OnRows(Restart(n))

  \/ \E act \in HistoryActs : OnHistory(Told!Write(0, act))
  \/ \E act \in BranchActs : OnHistory(Told!Write(1, act))
  \/ part = "history" /\ Len(u1) > 1 /\ \E p, b \in {0, 1} : OnHistory(Told!Fork(p, b))
  \/ \E b \in {0, 1} : OnHistory(Told!Discard(b))
  \/ part = "history" /\ Len(u1) < 3 /\ OnHistory(Told!Seed)
  \/ \E limit \in {1, 2} : OnHistory(Told!Follow(limit))
  \/ part = "history" /\ Len(u1) \in {2, 3} /\ OnHistory(Told!Anchor)
  \/ part = "history" /\ \E k \in 1..5 : k <= Len(u1) + 1 /\ OnHistory(Told!Restart(k))

  \/ \E key \in {1, 2, 3}, value \in {1, 2} : OnMap(Map!Hold(key, value))
  \/ \E key \in {1, 2, 3} : OnMap(Map!Drop(key))

  \/ part = "sync" /\ \E r \in Replicas : \E op \in Copies!Ops(writes) :
       OnSync(Copies!Write(r, op))
  \/ \E r, s \in Replicas : r # s /\ OnSync(Copies!Send(r, s))

  \/ OnSql(Statements!Begin("t"))
  \/ \E column \in {"b", "c", "not", "a b"} : OnSql(Statements!AddSelect(column))
  \/ \E pred \in SqlTerms : OnSql(Statements!AddWhere(pred))
  \/ \E column \in {"b", "c"}, desc \in BOOLEAN : OnSql(Statements!AddOrder(column, desc))
  \/ \E n \in 0..1 : OnSql(Statements!AddLimit(n + 1))
  \/ \E n \in 0..1 : OnSql(Statements!AddOffset(n))
  \/ part = "sql" /\ \E clause \in IF u2 = <<>> THEN SqlFirst ELSE SqlClauses : OnSql(Statements!Write(clause))

  \/ \E t \in Callers, get \in Gets :
       OnClients(Clients!Get(t, get[1], get[2]))
  \/ \E t \in Putters, put \in {<<"main", <<"l", "k">>>>, <<"side", <<"k">>>>} :
       OnClients(Clients!Put(t, put[1], put[2]))
  \/ \E t \in Putters : OnClients(Clients!Change(t, "main"))
  \/ \E t \in {"c1", "c2"} : OnClients(Clients!Acquire(t))
  \/ \E t \in {"c1", "c2"} : OnClients(Clients!Open(t))
  \/ \E t \in {"c1", "c2"} : OnClients(Clients!Serve(t))
  \/ \E t \in {"c1", "c2"} : (part = "scribe" /\ tasks[t].reqs # << >> /\ tasks[t].reqs[1].op # "get" /\ OnClients(Clients!Refuse(t)))
  \/ \E t \in {"c1", "c2"} : OnClients(Clients!Receive(t))
  \/ \E t \in {"c1", "c2"} : OnClients(Clients!Settle(t))
  \/ OnClients(Clients!Lose("c1"))
  \/ part = "scribe" /\ \E wire \in orphans : OnClients(Clients!ServeOrphan(wire))
  \/ part = "scribe" /\ called = 2 /\ (\E h \in DOMAIN caches : caches[h].entries # <<>>) /\ OnClients(Clients!Tick)
  \/ part = "scribe" /\ called = 1 /\ tasks["c1"].pc \in {"open", "retry"} /\ OnClients(Clients!Expire)

  \/ \E excluded \in {{}, {"log"}, {"lgo"}} : OnMoves(Moves!Start(excluded, FALSE))
  \/ OnMoves(Moves!Start({"log"}, TRUE))
  \/ \E gate \in {"AutoApply", "held"} : OnMoves(Moves!Propose(gate))
  \/ OnMoves(Moves!Fail)
  \/ OnMoves(Moves!ReadBatch)
  \/ OnMoves(Moves!PutRow)
  \/ OnMoves(Moves!LoseAnswer)
  \/ OnMoves(Moves!GetRow)
  \/ \E e \in EjectEdits : OnMoves(Moves!Edit(e))
  \/ part = "eject" /\ \E key \in DOMAIN u1.t : OnMoves(Moves!Erase("t", key))
  \/ \E e \in EjectStrays : OnMoves(Moves!Stray(e))
  \/ part = "eject" /\ \E at \in DOMAIN u2 : OnMoves(Moves!Vanish(at))
  \/ part = "eject" /\ \E w \in u5 : OnMoves(Moves!LandLate(w))

  \/ \E c \in Free : \E method \in MethodsAfter(begun) :
       OnSpoken(Spoken!Call(c, method))
  \/ OnSpoken(Spoken!Exchange)
  \/ OnSpoken(Spoken!Resume)
  \/ OnSpoken(Spoken!Abandon)
  \/ \E n \in {1, 3, 4} : OnSpoken(Spoken!Data(n))
  \/ OnSpoken(Spoken!Closed)
  \/ OnSpoken(Spoken!Break)
  \/ OnSpoken(Spoken!Close)
  \/ OnSpoken(Spoken!Grant)
  \/ OnSpoken(Spoken!Unmet)
  \/ \E code \in Spoken!Codes : OnSpoken(Spoken!Refuse(code))
  \/ OnSpoken(Spoken!Unreadable)
  \/ OnSpoken(Spoken!Newer)
  \/ \E does \in BOOLEAN : OnSpoken(Spoken!Stop(does))

ComposedSpec == ComposedInit /\ [][ComposedNext]_<<part, vars, others>>

\* ------------------------------------------------------------------ properties
(* Every part's state has its type.                                            *)
TypesOK == TypeOK /\ (part = "history" => Told!TypeOK) /\ (part = "sql" => Statements!TypeOK)
           /\ (part = "scribe" => Clients!TypeOK) /\ (part = "eject" => Moves!TypeOK)
           /\ (part = "binding" => Spoken!TypeOK)

(* An index loses no row its table has, and an optimized plan, through indexes *)
(* and budgets, answers what the plan as asked would (Rows' IndexLosesNothing  *)
(* and OptimizingKeepsTheAnswer); a query built by a client and one written by *)
(* hand are compiled to what they say or refused (Sql).                        *)
QueriesAreRight ==
  /\ IndexLosesNothing /\ OptimizingKeepsTheAnswer
  /\ part = "sql" => Statements!RenderedMeansBuilt /\ Statements!NothingPassedOver

(* A conditional put succeeds only over the write its author read, and no put  *)
(* brings a second row onto a unique index (Rows' UpdatesAreNotLost and        *)
(* PutsShareNothing).                                                          *)
PutsAreGuarded == UpdatesAreNotLost /\ PutsShareNothing

(* The past read at a commit or a time is what it was; a follower rebuilds it; *)
(* a column names the entry that declared it; every entry is somebody's once;  *)
(* what was anchored stays provable under its anchor and no other. And a proof *)
(* that a range is complete verifies when honest, never when it omits a row -- *)
(* provided it has a match or a left neighbour: with neither it is bounded by  *)
(* nothing below, and is accepted (completeness.rs:404-435) -- and no two maps *)
(* share a root.                                                               *)
HistoryStands ==
  /\ part = "history" =>
       /\ Told!ThePastStands /\ Told!FollowerAgrees /\ Told!DeclaredWhereItWas
       /\ Told!EachEntryOnce /\ Told!AnchoredProofsStand
  /\ part = "map" => Map!HonestProofsVerify /\ Map!NothingOmitted /\ Map!RootsTellMapsApart

(* Discarding a branch frees exactly the rows it was said to hold alone.       *)
DiscardRecovers == [][part = "history" => Told!DiscardFrees]_<<part, vars, others>>

(* A migration's report leaves out no difference, calls nothing expected that  *)
(* was not warned of, and a run nobody disturbs brings every row over, however *)
(* the runs before it ended.                                                   *)
MigrationsAreHonest ==
  part = "eject" => Moves!NoDifferenceUnseen /\ Moves!UndisturbedRunIsClean /\ Moves!ExpectedWasWarned
=============================================================================
