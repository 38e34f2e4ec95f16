----------------------------- MODULE CrdtStates -----------------------------
(***************************************************************************)
(* The four CRDTs of theta-core as values: what an operation does to a     *)
(* state, what merging two states gives, and what a reader of a state      *)
(* sees.  A replica is a branch.  An operation comes with the stamp of its *)
(* log entry: time, branch and commit.                                     *)
(*                                                                         *)
(* Left out: the u64 and i64 widths of a counter, the values a sequence    *)
(* carries (an element is its id), and next_counter of a sequence, which   *)
(* no logged insertion reads.                                              *)
(***************************************************************************)
EXTENDS Integers, FiniteSets, SequencesExt

CONSTANTS Branches, \* replica ids
          Elements  \* values a register or a set holds

ASSUME BranchesAssumption == Branches \subseteq Nat

None == <<>>  \* Option::None, of a stamp, an id or a whole state
Larger(m, n) == IF m >= n THEN m ELSE n
Added(f, r, by) == [q \in Branches |-> IF q = r THEN f[q] + by ELSE f[q]]

\* WriteStamp and ElemId: derived, lexicographic orders.
IdLess(i, j) == i[1] < j[1] \/ (i[1] = j[1] /\ i[2] < j[2])
Stamp(time, branch, commit) == <<time, branch, commit>>
StampLess(s, t) == \/ s[1] < t[1]
                   \/ s[1] = t[1] /\ IdLess(<<s[2], s[3]>>, <<t[2], t[3]>>)

-----------------------------------------------------------------------------
(* PnCounter *)

EmptyCounter == [positive |-> [r \in Branches |-> 0], negative |-> [r \in Branches |-> 0]]
Increment(c, r, by) ==
    IF by >= 0 THEN [c EXCEPT !.positive = Added(@, r, by)]
    ELSE [c EXCEPT !.negative = Added(@, r, -by)]

PerReplicaSum(m, n) == [r \in Branches |-> m[r] + n[r]]  \* mutant: added, not maximised
PerReplicaMax(m, n) == [r \in Branches |-> Larger(m[r], n[r])]
MergeCounters(a, b) == [positive |-> PerReplicaMax(a.positive, b.positive),
                        negative |-> PerReplicaMax(a.negative, b.negative)]
CounterValue(c) == MapThenSumSet(LAMBDA r : c.positive[r] - c.negative[r], Branches)

(* LwwRegister *)

EmptyRegister == [stamp |-> None, value |-> None]
SetRegister(g, stamp, value) ==
    IF g.stamp # None /\ ~StampLess(g.stamp, stamp) THEN g ELSE [stamp |-> stamp, value |-> value]
MergeRegisters(a, b) == IF b.stamp = None THEN a ELSE SetRegister(a, b.stamp, b.value)

(* OrSet: adds are pairs of an element and a tag <<replica, counter>>. *)

EmptySet == [adds |-> {}, removed |-> {}, next |-> 0]
SetAdd(s, e, r) == [s EXCEPT !.adds = @ \cup {<<e, <<r, s.next>>>>}, !.next = @ + 1]
TagsOf(s, e) == {p[2] : p \in {q \in s.adds : q[1] = e}}
SetRemove(s, e) == [s EXCEPT !.removed = @ \cup TagsOf(s, e)]
MergeSets(a, b) == [adds |-> a.adds \cup b.adds, removed |-> a.removed \cup b.removed,
                    next |-> Larger(a.next, b.next)]
SetValue(s) == {p[1] : p \in {q \in s.adds : q[2] \notin s.removed}}

(* RgaSequence: ids <<counter, replica>> to elements. *)

EmptySequence == <<>>
Elem(origin, tombstone) == [origin |-> origin, tombstone |-> tombstone]
SeqInsert(q, id, after) == [i \in DOMAIN q \cup {id} |-> IF i = id THEN Elem(after, FALSE) ELSE q[i]]

SeqRemove(q, id) == [i \in DOMAIN q |-> Elem(q[i].origin, q[i].tombstone \/ i = id)]
MergeSequences(a, b) ==
    [i \in DOMAIN a \cup DOMAIN b |->
        IF i \notin DOMAIN a THEN b[i]
        ELSE Elem(a[i].origin, a[i].tombstone \/ (i \in DOMAIN b /\ b[i].tombstone))]

\* ordered_ids: depth first from the head, siblings newest first.
OrderedIds(q) ==
    LET kids(origin) == SetToSortSeq({i \in DOMAIN q : q[i].origin = origin}, LAMBDA i, j : IdLess(j, i))
        walk[n \in 0 .. Cardinality(DOMAIN q)] ==
            IF n = 0 THEN [stack |-> kids(None), out |-> <<>>]
            ELSE LET before == walk[n - 1]
                 IN  IF before.stack = <<>> THEN before
                     ELSE [stack |-> kids(Head(before.stack)) \o Tail(before.stack),
                           out |-> Append(before.out, Head(before.stack))]
    IN  walk[Cardinality(DOMAIN q)].out
LiveIds(q) == SelectSeq(OrderedIds(q), LAMBDA i : ~q[i].tombstone)

-----------------------------------------------------------------------------
(* CrdtState: one of the four, or none yet. *)

Kinds == {"counter", "register", "set", "sequence"}
State(kind, of) == [kind |-> kind, of |-> of]
Unwritten == State("none", None)

Empty(kind) == CASE kind = "counter" -> EmptyCounter [] kind = "register" -> EmptyRegister
                 [] kind = "set" -> EmptySet         [] kind = "sequence" -> EmptySequence

\* apply_op, after the kind was found to fit.
ApplyOp(state, op) ==
    LET of == IF state = Unwritten THEN Empty(op.kind) ELSE state.of
    IN  State(op.kind,
          CASE op.op = "increment" -> Increment(of, op.branch, op.arg)
            [] op.op = "set" -> SetRegister(of, Stamp(op.time, op.branch, op.commit), op.arg)
            [] op.op = "add" -> SetAdd(of, op.arg, op.branch)
            [] op.op = "remove" -> SetRemove(of, op.arg)
            [] op.op = "insert" -> SeqInsert(of, <<op.commit, op.branch>>, op.arg)
            [] op.op = "take" -> SeqRemove(of, op.arg))

\* merge of two states of one kind.
MergeStates(a, b) ==
    State(a.kind,
      CASE a.kind = "counter" -> MergeCounters(a.of, b.of)
        [] a.kind = "register" -> MergeRegisters(a.of, b.of)
        [] a.kind = "set" -> MergeSets(a.of, b.of)
        [] a.kind = "sequence" -> MergeSequences(a.of, b.of))

Value(state) ==
    CASE state.kind = "counter" -> CounterValue(state.of)
      [] state.kind = "register" -> state.of.value
      [] state.kind = "set" -> SetValue(state.of)
      [] state.kind = "sequence" -> LiveIds(state.of)
=============================================================================
