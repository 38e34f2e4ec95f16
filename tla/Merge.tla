------------------------------- MODULE Merge -------------------------------
(***************************************************************************)
(* theta-storage's merge.rs: the three-way merge of two branches' histories  *)
(* since their fork, as operators.  A history is a sequence of operations,   *)
(* oldest first; a transaction holds a sequence of them.                     *)
(***************************************************************************)
EXTENDS Naturals, Sequences, FiniteSets, SequencesExt, Functions

None == [none |-> TRUE]
Some(v) == [some |-> v]

\* The operations of OpType, and the changes of SchemaChange.
Put(k, v) == [op |-> "put", key |-> k, value |-> Some(v)]
Delete(k) == [op |-> "delete", key |-> k, value |-> None]
CrdtOp(k, kind, id) == [op |-> "crdt", key |-> k, kind |-> kind, id |-> id]
SchemaOp(c) == [op |-> "schema", change |-> c]
Transaction(ops) == [op |-> "transaction", ops |-> ops]
Bookkeeping == [op |-> "bookkeeping"]     \* BranchCreate and Merge

AddTable(t, def) == [change |-> "AddTable", table |-> t, name |-> None, def |-> Some(def)]
DropTable(t) == [change |-> "DropTable", table |-> t, name |-> None, def |-> None]
OnColumn(kind, t, c, def) ==
    [change |-> kind, table |-> t, name |-> Some(c), def |-> Some(def)]
RenameColumn(t, from, to) ==
    [change |-> "RenameColumn", table |-> t, name |-> Some(from), def |-> Some(to)]

\* What a change declares: a table, or a name in one.  Two changes with the same
\* declaration are two answers to one question.
Declaration(c) == <<c.table, c.name>>
TableScoped(c) == c.change \in {"AddTable", "DropTable"}
Creates(c) == IF c.change = "RenameColumn" THEN {<<c.table, c.def>>} ELSE {}

\* A transaction's operations are looked into, one level as the engine writes them.
Flat(history) ==
    FlattenSeq([i \in DOMAIN history |->
        IF history[i].op = "transaction" THEN history[i].ops ELSE <<history[i]>>])

Contributes(op) == op.op # "bookkeeping"

\* The elements of s that pass, each with what it stands for.
Those(s, Passes(_), As(_)) == FlattenSeq([i \in DOMAIN s |-> IF Passes(s[i]) THEN <<As(s[i])>> ELSE <<>>])

SchemaChanges(history) == Those(Flat(history), LAMBDA o : o.op = "schema", LAMBDA o : o.change)

\* effects(): what a history does to each key in the end: the last operation on
\* it, an assignment or the CRDT operations.
KeyOps(history) == Those(Flat(history), LAMBDA o : o.op \in {"put", "delete", "crdt"}, LAMBDA o : o)
Touched(history) == {KeyOps(history)[i].key : i \in DOMAIN KeyOps(history)}
Effect(history, k) ==
    LET last == Last(SelectSeq(KeyOps(history), LAMBDA o : o.key = k))
    IN  IF last.op = "crdt" THEN [crdt |-> TRUE] ELSE [crdt |-> FALSE, value |-> last.value]

ReplayOf(k, effect) ==
    IF effect.value = None THEN Delete(k) ELSE Put(k, effect.value.some)

\* A CRDT state: its kind and the operations in it; states of one kind join.
Joinable(a, b) == a.kind = b.kind
Join(a, b) == [kind |-> a.kind, ops |-> a.ops \cup b.ops]

(***************************************************************************)
(* Conflicts                                                                *)
(***************************************************************************)
SchemaKey(declaration) == <<"schema", declaration[1], declaration[2]>>
RowKey(k) == <<"row", k, None>>

\* The last change wins where one side declares a thing twice.
Ours(changes, declaration) ==
    Last(SelectSeq(changes, LAMBDA c : Declaration(c) = declaration))

Redefined(ours, theirs) ==
    {Declaration(c) : c \in {x \in Range(theirs) :
        /\ \E o \in Range(ours) : Declaration(o) = Declaration(x)
        /\ Ours(ours, Declaration(x)) # x}}

ChangesTo(changes, t) == SelectSeq(changes, LAMBDA c : c.table = t)

\* One side creates or drops a table the other changes in any other way.
Contested(ours, theirs) ==
    {<<c.table, None>> : c \in {x \in Range(ours) \cup Range(theirs) :
        /\ TableScoped(x)
        /\ ChangesTo(ours, x.table) # <<>> /\ ChangesTo(theirs, x.table) # <<>>
        /\ ChangesTo(ours, x.table) # ChangesTo(theirs, x.table)}}

\* A column renamed to a name the other side declares, by a rename or not.
RenamedOnto(ours, theirs) ==
    UNION {Creates(c) : c \in Range(theirs)}
        \cap ({Declaration(c) : c \in Range(ours)} \cup UNION {Creates(c) : c \in Range(ours)})

SchemaConflicts(ours, theirs) ==
    {SchemaKey(d) : d \in Redefined(ours, theirs) \cup Contested(ours, theirs)
                            \cup RenamedOnto(ours, theirs)}

\* Two writes of one key that differ, two CRDT states that do not join, or a key
\* one side treats as a CRDT and the other does not.
KeyConflict(ours, theirs, tview, sview, k) ==
    /\ k \in Touched(ours) \cap Touched(theirs)
    /\ LET a == Effect(ours, k)
           b == Effect(theirs, k)
       IN  CASE a.crdt /\ b.crdt -> /\ k \in DOMAIN tview \cap DOMAIN sview
                                    /\ ~ Joinable(tview[k], sview[k])
             [] ~ a.crdt /\ ~ b.crdt -> a.value # b.value
             [] OTHER -> TRUE

KeyConflicts(ours, theirs, tview, sview) ==
    {RowKey(k) : k \in {x \in Touched(ours) : KeyConflict(ours, theirs, tview, sview, x)}}

Conflicts(ours, theirs, tview, sview) ==
    SchemaConflicts(SchemaChanges(ours), SchemaChanges(theirs))
        \cup KeyConflicts(ours, theirs, tview, sview)

(***************************************************************************)
(* The outcome                                                              *)
(***************************************************************************)

\* Schema changes the target has not made, in the source's order.
NewSchema(ours, theirs) ==
    Those(theirs, LAMBDA c : \A o \in Range(ours) : Declaration(o) # Declaration(c), LAMBDA c : c)

\* The keys only the source assigned, in key order, as what they end as.
NewOps(ours, theirs) ==
    LET keys == {k \in Touched(theirs) \ Touched(ours) : ~ Effect(theirs, k).crdt}
    IN  SetToSeq({ReplayOf(k, Effect(theirs, k)) : k \in keys})

\* The CRDT states the merge puts into the target's view.
Converged(ours, theirs, tview, sview) ==
    {k \in Touched(theirs) \cap DOMAIN sview :
        /\ Effect(theirs, k).crdt
        /\ k \in Touched(ours) => Effect(ours, k).crdt}

MergedStates(ours, theirs, tview, sview) ==
    [k \in Converged(ours, theirs, tview, sview) |->
        IF k \in Touched(ours) /\ k \in DOMAIN tview THEN Join(tview[k], sview[k])
        ELSE sview[k]]

\* merge(): heads as positions in the log; theirs and ours are the histories
\* since the base.
UpToDate == [status |-> "up_to_date"]
MergeBranches(sourceHead, base, targetHead, theirs, ours, tview, sview) ==
    LET nothing == \/ sourceHead \in {None, base}
                   \/ targetHead = sourceHead
                   \/ \A i \in DOMAIN theirs : ~ Contributes(theirs[i])
        conflicts == Conflicts(ours, theirs, tview, sview)
    IN  CASE nothing -> UpToDate
          [] ~ nothing /\ conflicts # {} -> [status |-> "conflicted", conflicts |-> conflicts]
          [] OTHER -> [status |-> "merged",
                       schema |-> NewSchema(SchemaChanges(ours), SchemaChanges(theirs)),
                       ops |-> NewOps(ours, theirs),
                       crdt |-> MergedStates(ours, theirs, tview, sview)]

\* merge_crdt_states: everything of theirs joined into ours, a key of another
\* kind left as it is and reported.
JoinAll(ours, theirs) ==
    [states |-> [k \in DOMAIN ours \cup DOMAIN theirs |->
        IF k \notin DOMAIN ours THEN theirs[k]
        ELSE IF k \in DOMAIN theirs /\ Joinable(ours[k], theirs[k])
             THEN Join(ours[k], theirs[k]) ELSE ours[k]],
     mismatched |-> {k \in DOMAIN ours \cap DOMAIN theirs : ~ Joinable(ours[k], theirs[k])}]
=============================================================================
