-------------------------------- MODULE Crdt --------------------------------
(***************************************************************************)
(* One CRDT-typed row on every branch of a store: the operations           *)
(* apply_crdt logs, forks, merges as Engine::merge does them, and a        *)
(* restart that replays the log from its beginning.                        *)
(*                                                                         *)
(* The row is declared nowhere, so its kind is that of the first operation *)
(* a branch sees.  Plain writes and deletions of the same row, and a       *)
(* restart that resumes from a snapshot, are left out (DurableStore has    *)
(* those).                                                                 *)
(***************************************************************************)
EXTENDS CrdtStates

CONSTANTS Amounts, Times,                     \* arguments
          OpKinds,                            \* the kinds clients use
          MaxOps, MaxMerges, MaxEntries, MaxRestarts  \* bounds

ASSUME CrdtAssumption ==
    /\ 0 \in Branches
    /\ Amounts \subseteq Int /\ Times \subseteq Nat /\ OpKinds \subseteq Kinds
    /\ {MaxOps, MaxMerges, MaxEntries, MaxRestarts} \subseteq Nat

VARIABLES log,      \* the entries, oldest first
          heads,    \* branch -> the index of its newest entry, or ZERO
          path,     \* branch -> the indices on the way from its head to the beginning
          base,     \* branch -> its fork point, an index or ZERO, or Absent
          commit,   \* branch -> next_commit
          state,    \* branch -> the row's state in the branch's view
          seen,     \* ghost: branch -> the operations that state stands for
          restarts

vars == <<log, heads, path, base, commit, state, seen, restarts>>

Main == 0
ZERO == 0
Absent == -1
Created(b) == base[b] # Absent
Bookkeeping(op) == op \in {"branch", "merge"}
Logged(n) == ~Bookkeeping(log[n].op)
Count(ops) == Cardinality({n \in DOMAIN log : log[n].op \in ops})
Operations == {"increment", "set", "add", "remove", "insert", "take"}

Entry(op, kind, arg, b, time) ==
    [op |-> op, kind |-> kind, arg |-> arg, branch |-> b, commit |-> commit[b], time |-> time]

\* Ids clients hold: of elements some branch inserted, and the one they guess comes next.
HandedOut == {<<log[n].commit, log[n].branch>> : n \in {m \in DOMAIN log : log[m].op = "insert"}}
Requests(b) ==
    {r \in [op : {"increment"}, kind : {"counter"}, arg : Amounts, time : {0}]
        \cup [op : {"set"}, kind : {"register"}, arg : Elements, time : Times]
        \cup [op : {"add", "remove"}, kind : {"set"}, arg : Elements, time : {0}]
        \cup [op : {"insert"}, kind : {"sequence"}, arg : {None, <<commit[b], b>>} \cup HandedOut, time : {0}]
        \cup [op : {"take"}, kind : {"sequence"}, arg : HandedOut, time : {0}] : r.kind \in OpKinds}

\* The additions of a value, or the insertion of an id, a removal finds in the view.
Observed(known, e) ==
    {p.n : p \in {q \in known :
        \/ e.op = "remove" /\ log[q.n].op = "add" /\ log[q.n].arg = e.arg
        \/ e.op = "take" /\ log[q.n].op = "insert" /\ <<log[q.n].commit, log[q.n].branch>> = e.arg}}

\* MaterializedView::apply_crdt, of entry e at index n.  An operation of another
\* kind is rejected.
Fits(st, e) == st = Unwritten \/ st.kind = e.kind
Folded(view, e, n) ==
    IF Bookkeeping(e.op) \/ ~Fits(view.state, e) THEN view
    ELSE [state |-> ApplyOp(view.state, e),
          seen |-> view.seen \cup {[n |-> n, observed |-> Observed(view.seen, e)]}]
Shows(b, view) == state' = [state EXCEPT ![b] = view.state] /\ seen' = [seen EXCEPT ![b] = view.seen]

Room == Len(log) < MaxEntries

Appends(b, e) ==
    /\ Room
    /\ log' = Append(log, e)
    /\ heads' = [heads EXCEPT ![b] = Len(log) + 1]
    /\ path' = [path EXCEPT ![b] = @ \cup {Len(log) + 1}]
    /\ commit' = [commit EXCEPT ![b] = @ + 1]

-----------------------------------------------------------------------------
Init ==
    /\ log = <<>>
    /\ heads = [b \in Branches |-> ZERO]
    /\ path = [b \in Branches |-> {}]
    /\ base = [b \in Branches |-> IF b = Main THEN ZERO ELSE Absent]
    /\ commit = [b \in Branches |-> 0]
    /\ state = [b \in Branches |-> Unwritten]
    /\ seen = [b \in Branches |-> {}]
    /\ restarts = 0

\* Engine::apply_crdt
ApplyCrdt(b, r) ==
    LET e == Entry(r.op, r.kind, r.arg, b, r.time)
    IN  /\ Count(Operations) < MaxOps
        /\ Fits(state[b], r)
        /\ Appends(b, e)
        /\ Shows(b, Folded([state |-> state[b], seen |-> seen[b]], e, Len(log) + 1))
        /\ UNCHANGED <<base, restarts>>

\* Engine::create_branch: the entry follows the parent's head, the view is the parent's.
CreateBranch(b, from) ==
    /\ ~Created(b) /\ Created(from)
    /\ \A c \in Branches : c < b => Created(c)
    /\ Room
    /\ log' = Append(log, [Entry("branch", "none", None, b, 0) EXCEPT !.commit = 0])
    /\ heads' = [heads EXCEPT ![b] = Len(log) + 1]
    /\ path' = [path EXCEPT ![b] = path[from] \cup {Len(log) + 1}]
    /\ base' = [base EXCEPT ![b] = heads[from]]
    /\ commit' = [commit EXCEPT ![b] = 1]
    /\ Shows(b, [state |-> state[from], seen |-> seen[from]])
    /\ UNCHANGED restarts

\* LogStore::history: back to the base, or to the beginning when it is not met.
History(p, until) == IF until \in p THEN {n \in p : n > until} ELSE p
Touched(entries) == \E n \in entries : Logged(n)

\* mutant: always takes the source's state
ConvergedOnSource(s, t) == [state |-> state[s], seen |-> seen[s]]

\* The CRDT part of merge: the states joined when both logs have operations since
\* the base, the source's state when only its log has.
Converged(s, t) ==
    IF Touched(History(path[t], base[s]))
    THEN [state |-> MergeStates(state[t], state[s]), seen |-> seen[t] \cup seen[s]]
    ELSE [state |-> state[s], seen |-> seen[s]]

\* A conflict of kinds, like a source with nothing to merge, changes nothing.
Mergeable(s, t) ==
    /\ Created(s) /\ Created(t)
    /\ heads[s] \notin {ZERO, base[s], heads[t]}
    /\ Touched(History(path[s], base[s]))
    /\ Touched(History(path[t], base[s])) => state[s].kind = state[t].kind

Merge(s, t) ==
    /\ Count({"merge"}) < MaxMerges
    /\ Mergeable(s, t)
    /\ Appends(t, Entry("merge", "none", None, t, 0))
    /\ Shows(t, Converged(s, t))
    /\ UNCHANGED <<base, restarts>>

\* Every view is folded again from the log, which has no merged states; the commit
\* counters start over.
Replayed(p) == FoldLeft(LAMBDA view, n : Folded(view, log[n], n), [state |-> Unwritten, seen |-> {}],
                        SetToSortSeq(p, <))
Restart ==
    /\ restarts < MaxRestarts
    /\ restarts' = restarts + 1
    /\ LET views == [b \in Branches |-> Replayed(path[b])]
       IN  /\ state' = [b \in Branches |-> views[b].state]
           /\ seen' = [b \in Branches |-> views[b].seen]
    /\ commit' = [b \in Branches |-> IF heads[b] = ZERO THEN 0 ELSE 1]
    /\ UNCHANGED <<log, heads, path, base>>

Next ==
    \/ \E b \in Branches : Created(b) /\ \E r \in Requests(b) : ApplyCrdt(b, r)
    \/ \E b, from \in Branches : CreateBranch(b, from)
    \/ \E s, t \in Branches : Merge(s, t)
    \/ Restart

Spec == Init /\ [][Next]_vars

-----------------------------------------------------------------------------
(* What a branch ought to show, from the operations its state stands for.   *)

Ops(b) == {p.n : p \in seen[b]}
OpsOf(b, op) == {n \in Ops(b) : log[n].op = op}
Alive(b, n) == \A p \in seen[b] : n \notin p.observed
StampOf(n) == Stamp(log[n].time, log[n].branch, log[n].commit)
IdOf(n) == <<log[n].commit, log[n].branch>>

\* Insertions whose chain of origins leads to the head: no set of insertions that
\* only point at each other, or at an id the branch never saw, holds them.
Anchored(b) ==
    LET ids == {IdOf(n) : n \in OpsOf(b, "insert")}
        adrift == UNION {U \in SUBSET OpsOf(b, "insert") :
                    \A n \in U : log[n].arg # None /\ (log[n].arg \in ids => \E m \in U : IdOf(m) = log[n].arg)}
    IN  OpsOf(b, "insert") \ adrift

\* Identities of register writes and insertions repeat once commit counters start over.
IdsUnique == \A m, n \in DOMAIN log :
                 Logged(m) /\ Logged(n) /\ IdOf(m) = IdOf(n) => m = n

(* A branch shows exactly what its operations add up to, whatever the order *)
(* they and the merges that brought them came in: a counter the sum, a      *)
(* register the write with the last stamp, a set what has an addition no    *)
(* removal saw, a sequence the insertions that were not taken out           *)
(* (theta-core crdt, apply_op and merge).                                   *)
ValueIsFold ==
    \A b \in Branches :
        CASE state[b].kind = "counter" ->
                Value(state[b]) = MapThenSumSet(LAMBDA n : log[n].arg, Ops(b))
          [] state[b].kind = "register" ->
                IdsUnique => \E n \in Ops(b) :
                    /\ Value(state[b]) = log[n].arg
                    /\ \A m \in Ops(b) : m # n => StampLess(StampOf(m), StampOf(n))
          [] state[b].kind = "set" ->
                Value(state[b]) = {log[n].arg : n \in {m \in OpsOf(b, "add") : Alive(b, m)}}
          [] state[b].kind = "sequence" ->
                IdsUnique => ToSet(Value(state[b])) = {IdOf(n) : n \in {m \in Anchored(b) : Alive(b, m)}}
          [] state[b].kind = "none" -> seen[b] = {}

(* Any two branches that show two elements show them in the same order,     *)
(* whatever else they have seen (RgaSequence::ordered_ids).                 *)
OrdersAgree ==
    IdsUnique => \A b, c \in Branches :
        b < c /\ state[b].kind = "sequence" /\ state[c].kind = "sequence" =>
            LET here == LiveIds(state[b].of)
                there == LiveIds(state[c].of)
            IN  SelectSeq(here, LAMBDA i : Contains(there, i)) = SelectSeq(there, LAMBDA i : Contains(here, i))

(* Every operation in a branch's own history is in what the branch shows:   *)
(* merges may install another branch's state in place of this one's, and    *)
(* still never lose what was logged here (merge.rs, the arm for a key only  *)
(* the source touched).                                                     *)
LoggedIsShown ==
    \A b \in Branches : \A n \in path[b] : Logged(n) => n \in Ops(b)

(* A state has the kind of its operations; a set's next tag is new to it, and *)
(* a sequence holds no element nobody inserted.                              *)
TypeOK ==
    /\ \A n \in DOMAIN log : log[n].branch \in Branches /\ log[n].commit \in Nat
    /\ heads \in [Branches -> DOMAIN log \cup {ZERO}]
    /\ path \in [Branches -> SUBSET DOMAIN log]
    /\ base \in [Branches -> DOMAIN log \cup {ZERO, Absent}]
    /\ commit \in [Branches -> Nat]
    /\ restarts \in 0 .. MaxRestarts
    /\ \A b \in Branches :
        /\ state[b].kind \in Kinds \cup {"none"}
        /\ \A n \in Ops(b) : n \in DOMAIN log /\ log[n].kind = state[b].kind
        /\ state[b].kind = "set" => \A p \in state[b].of.adds : p[2][2] < state[b].of.next
        /\ state[b].kind = "sequence" => DOMAIN state[b].of \subseteq {IdOf(n) : n \in Ops(b)}
=============================================================================
