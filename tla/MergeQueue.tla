----------------------------- MODULE MergeQueue -----------------------------
(***************************************************************************)
(* The queue of merges into one branch: theta-storage's mergequeue.rs with   *)
(* enqueue_merge, withdraw_merge, revalidate_merges, land_next_merge and     *)
(* merge of thetad's engine.rs.  A merge is queued only when it merges       *)
(* cleanly into the target as it will be once everything ahead has landed.   *)
(* The sources fork from the target; a branch's log is what was written on   *)
(* it since, and a head is a position in it.                                 *)
(***************************************************************************)
EXTENDS Merge, TLC

CONSTANTS
    Sources,          \* branches that merge into the target
    TargetOps, SourceOps,  \* the operations clients make on each
    MaxTargetOps, MaxSourceOps,   \* bounds
    MaxTickets, MaxFailures

\* A branch does not merge into itself; a client's transaction is one of its writes.
MergeQueueAssumption ==
    /\ "target" \notin Sources
    /\ \A o \in TargetOps \cup SourceOps : o.op = "transaction" => o.ops \in Seq(Range(o.ops))

VARIABLES
    target,      \* the target's history
    source,      \* the sources' histories since they forked
    fork,        \* the target's length when each source forked
    live,        \* sources that have a view and a registry entry
    tview,       \* CRDT states of the target's view
    sview,       \* CRDT states of the sources' views
    queued, nextTicket,
    direct,      \* operations clients made on the target
    failures,
    sure         \* tickets whose promise nothing has disturbed since it was made

vars == <<target, source, fork, live, tview, sview, queued, nextTicket, direct, failures, sure>>
branches == <<source, fork, live, sview>>

Empty == <<>>
ViewOf(s) == IF s \in live THEN sview[s] ELSE Empty

\* Branch.fork_point, or None once the branch is discarded: history then goes
\* back to the start on both sides.
Base(s) == IF s \in live THEN Some(fork[s]) ELSE None

\* Entries are told apart by the branch they were appended to and their place.
HashAt(b, n) == IF n = 0 THEN None ELSE Some(<<b, n>>)
HeadOf(s) == HashAt(s, Len(source[s]))
TargetHead == HashAt("target", Len(target))
ForkHash(base) == IF base = None THEN None ELSE HashAt("target", base.some)
Inherited(s) == SubSeq(target, 1, fork[s])
Theirs(s, base) == IF base = None THEN Inherited(s) \o source[s] ELSE source[s]
Since(history, base) ==
    IF base = None THEN history ELSE SubSeq(history, base.some + 1, Len(history))

\* merge::merge over a store whose target history ends with `pending`
Try(s, base, pending, states) ==
    MergeBranches(HeadOf(s), ForkHash(base), TargetHead, Theirs(s, base),
                  Since(target, base) \o pending, states, ViewOf(s))

(***************************************************************************)
(* Speculation                                                              *)
(***************************************************************************)
Landed(outcome) ==
    [i \in DOMAIN outcome.schema |-> SchemaOp(outcome.schema[i])]
        \o (IF outcome.ops = <<>> THEN <<>> ELSE <<Transaction(outcome.ops)>>)

\* pending_entries: what is queued, as changes the target has already made
PendingNone(q) == <<>>   \* mutant: a merge is tried against the target as it is
Pending(q) == FlattenSeq([i \in DOMAIN q |-> Landed(q[i].outcome)])

\* apply_to, over the queue: later states replace earlier ones.
Extend(states, more) == [k \in DOMAIN states \cup DOMAIN more |->
                            IF k \in DOMAIN more THEN more[k] ELSE states[k]]
Setters(q, k) == {i \in DOMAIN q : k \in DOMAIN q[i].outcome.crdt}
LastSetter(q, k) == CHOOSE i \in Setters(q, k) : \A j \in Setters(q, k) : j <= i
Speculative(q) ==
    [k \in DOMAIN tview \cup UNION {DOMAIN q[i].outcome.crdt : i \in DOMAIN q} |->
        IF Setters(q, k) = {} THEN tview[k] ELSE q[LastSetter(q, k)].outcome.crdt[k]]

\* who_touched: the first queued merge that writes one of the conflicting keys
Touches(item, conflicts) ==
    \/ \E i \in DOMAIN item.outcome.ops : RowKey(item.outcome.ops[i].key) \in conflicts
    \/ \E i \in DOMAIN item.outcome.schema :
        SchemaKey(Declaration(item.outcome.schema[i])) \in conflicts
Behind(q, conflicts) ==
    LET who == {i \in DOMAIN q : Touches(q[i], conflicts)}
    IN  IF who = {} THEN None ELSE Some(q[CHOOSE i \in who : \A j \in who : i <= j].ticket)

Position(s) == {i \in DOMAIN queued : queued[i].source = s}

\* What enqueue answers.
EnqueueResult(s) ==
    LET outcome == Try(s, Base(s), Pending(queued), Speculative(queued))
    IN  CASE Position(s) # {} -> [result |-> "AlreadyQueued"]
          [] Position(s) = {} /\ outcome.status = "up_to_date" -> [result |-> "NothingToMerge"]
          [] Position(s) = {} /\ outcome.status = "conflicted" ->
                [result |-> "WouldConflict", conflicts |-> outcome.conflicts,
                 behind |-> Behind(queued, outcome.conflicts)]
          [] OTHER -> [result |-> "Queued", outcome |-> outcome]

\* revalidate: every queued merge tried again behind the ones that are kept
Still(item, ahead) ==
    LET outcome == Try(item.source, item.base, Pending(ahead), Speculative(ahead))
    IN  IF item.source \in live /\ outcome.status = "merged"
        THEN <<[item EXCEPT !.outcome = outcome]>> ELSE <<>>
Kept(q) ==
    LET kept[i \in 0 .. Len(q)] ==
            IF i = 0 THEN <<>> ELSE kept[i - 1] \o Still(q[i], kept[i - 1])
    IN  kept[Len(q)]

(***************************************************************************)
(* Steps                                                                    *)
(***************************************************************************)
Init ==
    /\ target = <<>>
    /\ source = [s \in Sources |-> <<>>]
    /\ fork = [s \in Sources |-> 0]
    /\ live = {}
    /\ tview = Empty
    /\ sview = [s \in Sources |-> Empty]
    /\ queued = <<>> /\ nextTicket = 1
    /\ direct = 0 /\ failures = 0
    /\ sure = {}

\* view.apply of a client's operation
Applied(states, o) ==
    IF o.op # "crdt" THEN states
    ELSE Extend(states, (o.key :> [kind |-> o.kind,
                                   ops |-> {o.id} \cup (IF o.key \in DOMAIN states
                                                        THEN states[o.key].ops ELSE {})]))

\* apply_crdt refuses an operation of another kind than the key's state.
Accepts(states, o) == o.op = "crdt" /\ o.key \in DOMAIN states => states[o.key].kind = o.kind

Fork(s) ==
    /\ s \notin live /\ source[s] = <<>>
    /\ live' = live \cup {s}
    /\ fork' = [fork EXCEPT ![s] = Len(target)]
    /\ source' = [source EXCEPT ![s] = <<Bookkeeping>>]
    /\ sview' = [sview EXCEPT ![s] = tview]
    /\ UNCHANGED <<target, tview, queued, nextTicket, direct, failures, sure>>

WriteTarget(o) ==
    /\ direct < MaxTargetOps
    /\ Accepts(tview, o)
    /\ direct' = direct + 1
    /\ target' = Append(target, o)
    /\ tview' = Applied(tview, o)
    /\ sure' = {}
    /\ UNCHANGED <<branches, queued, nextTicket, failures>>

WriteSource(s, o) ==
    /\ s \in live
    /\ Len(source[s]) <= MaxSourceOps
    /\ Accepts(sview[s], o)
    /\ source' = [source EXCEPT ![s] = Append(@, o)]
    /\ sview' = [sview EXCEPT ![s] = Applied(@, o)]
    /\ sure' = IF Position(s) = {} THEN sure ELSE {}
    /\ UNCHANGED <<target, fork, live, tview, queued, nextTicket, direct, failures>>

\* discard_branch removes the view and the registry entry, and leaves the log.
Discard(s) ==
    /\ s \in live
    /\ live' = live \ {s}
    /\ sure' = IF Position(s) = {} THEN sure ELSE {}
    /\ UNCHANGED <<target, source, fork, tview, sview, queued, nextTicket, direct, failures>>

Enqueue(s) ==
    /\ nextTicket <= MaxTickets
    /\ EnqueueResult(s).result = "Queued"
    /\ queued' = Append(queued, [ticket |-> nextTicket, source |-> s, base |-> Base(s),
                                 outcome |-> EnqueueResult(s).outcome])
    /\ nextTicket' = nextTicket + 1
    \* it was validated behind what is queued: sure if they all are
    /\ sure' = IF \A i \in DOMAIN queued : queued[i].ticket \in sure
               THEN sure \cup {nextTicket} ELSE sure
    /\ UNCHANGED <<target, branches, tview, direct, failures>>

Withdraw(i) ==
    /\ i \in DOMAIN queued
    /\ queued' = RemoveAt(queued, i)
    /\ sure' = {queued[j].ticket : j \in 1 .. i - 1} \cap sure
    /\ UNCHANGED <<target, branches, tview, nextTicket, direct, failures>>

Revalidate ==
    /\ queued # <<>>
    /\ queued' = Kept(queued)
    /\ sure' = {queued'[i].ticket : i \in DOMAIN queued'}
    /\ UNCHANGED <<target, branches, tview, nextTicket, direct, failures>>

\* Engine::merge, as land_next_merge calls it: decided again, on the target as it
\* is, with the base the registry has now.
Outcome(s) == Try(s, Base(s), <<>>, tview)

LandNext ==
    /\ queued # <<>>
    /\ LET head == Head(queued)
           outcome == Outcome(head.source)
       IN  /\ queued' = Tail(queued)
           /\ IF outcome.status = "merged"
              THEN /\ target' = target \o Landed(outcome) \o <<Bookkeeping>>
                   /\ tview' = Extend(tview, outcome.crdt)
              ELSE UNCHANGED <<target, tview>>
           /\ sure' = IF head.ticket \in sure THEN sure \ {head.ticket} ELSE {}
    /\ UNCHANGED <<branches, nextTicket, direct, failures>>

\* The log refuses the n-th append of a landing: what came before it stays, the
\* merge is off the queue and the CRDT states are not installed.
LandFails(n) ==
    /\ queued # <<>>
    /\ failures < MaxFailures
    /\ LET outcome == Outcome(Head(queued).source)
       IN  /\ outcome.status = "merged"
           /\ n \in 0 .. Len(Landed(outcome))
           /\ target' = target \o SubSeq(Landed(outcome), 1, n)
    /\ queued' = Tail(queued)
    /\ failures' = failures + 1
    /\ sure' = {}
    /\ UNCHANGED <<branches, tview, nextTicket, direct>>

Next ==
    \/ \E s \in Sources : Fork(s) \/ Discard(s) \/ Enqueue(s)
    \/ \E o \in TargetOps : WriteTarget(o)
    \/ \E s \in Sources, o \in SourceOps : WriteSource(s, o)
    \/ \E i \in 1 .. MaxTickets : Withdraw(i)
    \/ Revalidate
    \/ LandNext
    \/ \E n \in 0 .. MaxSourceOps + 1 : LandFails(n)

Spec == Init /\ [][Next]_vars

-----------------------------------------------------------------------------
TypeOK ==
    /\ live \subseteq Sources
    /\ \A s \in Sources : fork[s] \in 0 .. Len(target)
    /\ \A i \in DOMAIN queued : /\ queued[i].ticket \in 1 .. nextTicket - 1
                                /\ queued[i].outcome.status = "merged"
    /\ sure \subseteq {queued[i].ticket : i \in DOMAIN queued}

\* The queue lists merges that are expected to land, and they do: if nothing
\* was written to the target or to a queued source, withdrawn or discarded since
\* it was told so, the merge at the head lands with the outcome it was promised.
PromiseKept ==
    queued # <<>> /\ Head(queued).ticket \in sure
        => Outcome(Head(queued).source) = Head(queued).outcome

\* A source waits in one place, and tickets are in the order they were given.
QueueOrdered ==
    \A i, j \in DOMAIN queued :
        i < j => queued[i].source # queued[j].source /\ queued[i].ticket < queued[j].ticket
=============================================================================
