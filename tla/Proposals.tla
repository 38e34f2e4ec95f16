----------------------------- MODULE Proposals -----------------------------
(***************************************************************************)
(* Gated schema changes: the life of a proposal in thetad's engine.rs and   *)
(* shadow.rs, with theta-safety's classify.rs, budget.rs and breaker.rs and *)
(* the merge of theta-storage's merge.rs that promotion goes through.       *)
(*                                                                         *)
(* The changes are whole-table ones (AddTable, DropTable): they reach all   *)
(* three gates and both kinds of schema conflict.  A row's value is not     *)
(* modelled, only its presence.  The engine runs one request at a time, so  *)
(* every action is one request, or the engine's own maintenance.            *)
(***************************************************************************)
EXTENDS Integers, SequencesExt, FiniteSetsExt

CONSTANTS
    Targets,            \* the branches changes are proposed for
    Keys,               \* keys, as <<table, primary key>>
    Recovered,          \* the rows every target has when the engine opens
    Changes,            \* the changes proposed, of [op, table, branch]
    Agents,             \* the sessions that propose
    Threshold,          \* effective_irreversible_shadow_threshold
    ConfirmCost, ShadowCost,
    ProjectCeiling, BranchCeiling, AgentCeiling,
    BudgetWindow,       \* BudgetPolicy.window_ms
    ProposalTtl,        \* BudgetPolicy.proposal_ttl_ms
    ShadowTtl,          \* SafetyPolicy.shadow_ttl_ms
    BreakerCeiling, BreakerWindow,
    MaxTime,            \* bound: the last instant
    ProposeUntil,       \* bound: the last instant a change is proposed
    MaxReservations,    \* bound: reservations made
    MaxEntries,         \* bound: entries of all open branches while requests are taken
    MaxBatch            \* bound: operations in a write_batch

Tables == {k[1] : k \in Keys}

ASSUME ProposalsAssumption ==
    /\ Recovered \subseteq Keys
    /\ Changes \subseteq [op : {"add", "drop"}, table : Tables, branch : Targets]
    /\ {Threshold, ConfirmCost, ShadowCost, ProjectCeiling, BranchCeiling, AgentCeiling} \subseteq Nat
    /\ {BudgetWindow, ProposalTtl, ShadowTtl, BreakerCeiling, BreakerWindow} \subseteq Nat
    /\ {MaxTime, ProposeUntil, MaxReservations, MaxEntries, MaxBatch} \subseteq Nat

VARIABLES
    now,
    log,            \* the entries of each target branch
    view,           \* what each target holds: declared tables and rows
    pending,        \* Engine.pending, by change id
    shadows,        \* Engine.shadows, with each shadow branch's entries and view
    reservations,   \* Engine.reservations: change id to reservation id
    held, spent,    \* ReviewBudget.held and .spent
    nextId,         \* ReviewBudget.next_id
    breaker,        \* CircuitBreaker
    answered        \* the request that was last granted

data == <<log, view>>
budget == <<reservations, held, spent, nextId>>
vars == <<now, data, pending, shadows, budget, breaker, answered>>

FREE == 0   \* ReservationId::FREE

(* f, and g where f has nothing: @@ and :> of the TLC module, written out for *)
(* the proofs, which cannot expand those.                                     *)
Over(f, g) == [x \in DOMAIN f \union DOMAIN g |-> IF x \in DOMAIN f THEN f[x] ELSE g[x]]
Insert(f, c, x) == Over([d \in {c} |-> x], f)

-----------------------------------------------------------------------------
(* The log: an entry's schema changes and the keys it puts or deletes. *)

Entry == [schema : Seq(Changes), writes : UNION {[S -> BOOLEAN] : S \in SUBSET Keys}]
Nothing == [k \in {} |-> FALSE]
Schema(c) == [schema |-> <<c>>, writes |-> Nothing]
Transaction(w) == [schema |-> <<>>, writes |-> w]
MergeEntry == [schema |-> <<>>, writes |-> Nothing]

Rows(v, t) == {k \in v.rows : k[1] = t}

(* MaterializedView::apply *)
ApplyChange(v, c) ==
    IF c.op = "add" THEN [v EXCEPT !.tables = @ \union {c.table}]
                    ELSE [tables |-> v.tables \ {c.table}, rows |-> v.rows \ Rows(v, c.table)]

Apply(v, e) ==
    LET w == FoldLeft(ApplyChange, v, e.schema)
        Put == {k \in DOMAIN e.writes : e.writes[k]}
    IN  [w EXCEPT !.rows = (@ \ DOMAIN e.writes) \union Put]

Extend(v, es) == FoldLeft(Apply, v, es)

Effects(es) == FoldLeft(LAMBDA acc, e : Over(e.writes, acc), Nothing, es)
SchemaChanges(es) == FoldLeft(LAMBDA acc, e : acc \o e.schema, <<>>, es)
SchemaOf(es, t) == SelectSeq(SchemaChanges(es), LAMBDA c : c.table = t)

(***************************************************************************)
(* merge::merge of one side's entries since the fork, on top of the other's. *)
(***************************************************************************)
SchemaConflicts(ours, theirs) ==
    {t \in Tables :
        LET o == SchemaOf(ours, t)
            s == SchemaOf(theirs, t)
        IN  o # <<>> /\ s # <<>> /\ (o # s \/ \E i \in DOMAIN s : s[i] # Last(o))}

WriteConflicts(ours, theirs) ==
    LET o == Effects(ours)
        s == Effects(theirs)
    IN  {k \in DOMAIN o \intersect DOMAIN s : o[k] # s[k]}

Conflicted(ours, theirs) ==
    SchemaConflicts(ours, theirs) # {} \/ WriteConflicts(ours, theirs) # {}

(* Their schema changes, for the tables ours leaves alone. *)
Carried(ours, changes) ==
    FoldLeft(LAMBDA acc, c : IF SchemaOf(ours, c.table) = <<>> THEN Append(acc, Schema(c)) ELSE acc,
             <<>>, changes)

MergeResult(ours, theirs) ==
    LET s == Effects(theirs)
        ops == [k \in DOMAIN s \ DOMAIN Effects(ours) |-> s[k]]
    IN  Carried(ours, SchemaChanges(theirs))
        \o (IF DOMAIN ops = {} THEN <<>> ELSE <<Transaction(ops)>>)
        \o <<MergeEntry>>

Append_(b, es) ==
    /\ log' = [log EXCEPT ![b] = @ \o es]
    /\ view' = [view EXCEPT ![b] = Extend(@, es)]

-----------------------------------------------------------------------------
(* The classifier. *)

RowsAffected(v, c) == IF c.op = "drop" THEN Cardinality(Rows(v, c.table)) ELSE 0

DropGate(rows) == IF rows > Threshold THEN "shadow" ELSE "confirm"
Gate(v, c) == IF c.op = "drop" THEN DropGate(RowsAffected(v, c)) ELSE "auto"

-----------------------------------------------------------------------------
(* ReviewBudget *)

CostOf(gate) ==
    CASE gate = "auto" -> 0
      [] gate = "confirm" -> ConfirmCost
      [] gate = "shadow" -> ShadowCost

Scopes == {<<"project", 0>>} \union ({"branch"} \X Targets) \union ({"agent"} \X Agents)

Ceiling(scope) ==
    CASE scope[1] = "project" -> ProjectCeiling
      [] scope[1] = "branch" -> BranchCeiling
      [] scope[1] = "agent" -> AgentCeiling

Charges(agent, branch) == {<<"project", 0>>, <<"branch", branch>>, <<"agent", agent>>}

Unexpired == {r \in held : now - r.at <= ProposalTtl}
InWindow == {s \in spent : s.at + BudgetWindow > now}

Units(rs, scope) == MapThenSumSet(LAMBDA r : r.cost, {r \in rs : scope \in Charges(r.agent, r.branch)})

(* ReviewBudget::committed, after expire. *)
Committed(scope) == Units(Unexpired, scope) + Units(InWindow, scope)

\* Mutant: the ceiling is compared before the proposal's own cost is added.
FitsBefore(cost, scope) == Committed(scope) <= Ceiling(scope)

Fits(cost, scope) == Committed(scope) + cost <= Ceiling(scope)

Reserve(gate, agent, branch) ==
    LET cost == CostOf(gate) IN
    /\ \A scope \in Charges(agent, branch) : Fits(cost, scope)
    /\ spent' = InWindow
    /\ IF cost = 0
       THEN UNCHANGED nextId /\ held' = Unexpired
       ELSE /\ nextId <= MaxReservations
            /\ nextId' = nextId + 1
            /\ held' = Unexpired \union
                    {[id |-> nextId, at |-> now, cost |-> cost, agent |-> agent, branch |-> branch]}

\* Mutant: a rejection refunds.
OnlyApprovalsSpend(settlement) == settlement = "approved"

(* Settlement::refunds *)
Spends(settlement) == settlement \in {"approved", "rejected"}

(* settle_review of the changes in cs, one after the other. *)
Settle(cs, settlement) ==
    LET answering == cs \intersect DOMAIN reservations
        settled == {r \in Unexpired : \E c \in answering : reservations[c] = r.id}
    IN  IF answering = {}
        THEN UNCHANGED budget
        ELSE /\ reservations' = Restrict(reservations, DOMAIN reservations \ cs)
             /\ held' = Unexpired \ settled
             /\ spent' = InWindow \union
                    (IF Spends(settlement) THEN {[r EXCEPT !.at = now] : r \in settled} ELSE {})
             /\ UNCHANGED nextId

-----------------------------------------------------------------------------
(* Shadow branches. *)

Dropped(f, cs) == Restrict(f, DOMAIN f \ cs)

UNVALIDATED == -1

NewShadow(c) ==
    [fork |-> Len(log[c.branch]), entries |-> <<Schema(c)>>,
     view |-> Apply(view[c.branch], Schema(c)),
     opened |-> now, validated |-> UNVALIDATED, passed |-> FALSE]

(* shadow::validate: the change took effect, nothing outside its table moved, *)
(* and the rows went the way they should.                                     *)
TookEffect(c, target, shadow) ==
    IF c.op = "drop"
    THEN (Rows(target, c.table) # {} \/ c.table \in target.tables) /\ Rows(shadow, c.table) = {}
    ELSE (c.table \in target.tables) # (c.table \in shadow.tables)

OnlyItsTable(c, target, shadow) ==
    target.rows \ Rows(target, c.table) = shadow.rows \ Rows(shadow, c.table)

RowCountMatches(c, target, shadow) ==
    IF c.op = "drop" THEN Rows(shadow, c.table) = {}
    ELSE Cardinality(Rows(shadow, c.table)) = Cardinality(Rows(target, c.table))

Checks(c, target, shadow) ==
    /\ TookEffect(c, target, shadow)
    /\ OnlyItsTable(c, target, shadow)
    /\ RowCountMatches(c, target, shadow)

Validated(c, s) ==
    [s EXCEPT !.validated = Len(s.entries), !.passed = Checks(c, view[c.branch], s.view)]

\* Mutant: any validation will do.
EverValidated(s) == s.validated # UNVALIDATED

IsCurrent(s) == s.validated = Len(s.entries)

Ours(c) == LET l == log[c.branch] IN SubSeq(l, shadows[c].fork + 1, Len(l))

-----------------------------------------------------------------------------
Opened == [tables |-> {}, rows |-> Recovered]

Closed == [samples |-> <<>>, rows |-> 0, tripped |-> FALSE]

Init ==
    /\ now = 0
    /\ log = [b \in Targets |-> <<>>]
    /\ view = [b \in Targets |-> Opened]
    /\ pending = <<>>
    /\ shadows = <<>>
    /\ reservations = <<>>
    /\ held = {}
    /\ spent = {}
    /\ nextId = 1
    /\ breaker = Closed
    /\ answered = "none"

Room ==
    MapThenSumSet(LAMBDA b : Len(log[b]), Targets)
        + MapThenSumSet(LAMBDA c : Len(shadows[c].entries), DOMAIN shadows) < MaxEntries

MayPropose == now <= ProposeUntil /\ Room

Hold(c, gate) == pending' = Insert(pending, c, [gate |-> gate, at |-> now])

ShadowOf(c) == IF c \in DOMAIN shadows THEN shadows[c] ELSE NewShadow(c)

(* Engine::propose, what a client's ProposeSchemaChange runs. *)
Propose(c) ==
    LET gate == Gate(view[c.branch], c) IN
    /\ MayPropose
    /\ Hold(c, gate)
    /\ IF gate = "shadow"
       THEN shadows' = Insert(shadows, c, Validated(c, ShadowOf(c)))
       ELSE UNCHANGED shadows
    /\ answered' = "none"
    /\ UNCHANGED <<now, data, budget, breaker>>

(* Engine::propose_within_budget.  A refusal leaves nothing but the sweep. *)
ProposeWithinBudget(c, agent) ==
    LET gate == Gate(view[c.branch], c) IN
    /\ MayPropose
    /\ Reserve(gate, agent, c.branch)
    /\ Hold(c, gate)
    /\ reservations' = Insert(reservations, c, IF CostOf(gate) = 0 THEN FREE ELSE nextId)
    /\ answered' = "none"
    /\ UNCHANGED <<now, data, shadows, breaker>>

(* Engine::validate_shadow, as a request of its own. *)
ValidateShadow(c) ==
    /\ c \in DOMAIN shadows
    /\ shadows' = [shadows EXCEPT ![c] = Validated(c, @)]
    /\ answered' = "none"
    /\ UNCHANGED <<now, data, pending, budget, breaker>>

MayApply(gate, confirm) == gate = "auto" \/ (gate = "confirm" /\ confirm)

(* Engine::apply_schema_change *)
ApplySchemaChange(c, confirm) ==
    /\ c \in DOMAIN pending
    /\ MayApply(pending[c].gate, confirm)
    /\ pending' = Dropped(pending, {c})
    /\ Settle({c}, "approved")
    /\ Append_(c.branch, <<Schema(c)>>)
    /\ answered' = (IF confirm THEN "settled" ELSE "applied")
    /\ UNCHANGED <<now, shadows, breaker>>

(* Engine::release_shadow *)
Release(c, settlement) ==
    /\ shadows' = Dropped(shadows, {c})
    /\ pending' = Dropped(pending, {c})
    /\ Settle({c}, settlement)

Promotable(c) == shadows[c].passed /\ IsCurrent(shadows[c])

(* Engine::promote_shadow.  A conflict leaves the proposal as it is. *)
PromoteShadow(c) ==
    /\ c \in DOMAIN shadows
    /\ c \in DOMAIN pending
    /\ Promotable(c)
    /\ ~Conflicted(Ours(c), shadows[c].entries)
    /\ Append_(c.branch, MergeResult(Ours(c), shadows[c].entries))
    /\ Release(c, "approved")
    /\ answered' = "promoted"
    /\ UNCHANGED <<now, breaker>>

RejectSettles == "rejected"

(* Engine::reject_shadow *)
RejectShadow(c) ==
    /\ c \in DOMAIN shadows
    /\ Release(c, RejectSettles)
    /\ answered' = "settled"
    /\ UNCHANGED <<now, data, breaker>>

(* Engine::merge, with a shadow branch as its source. *)
Merge(c) ==
    /\ c \in DOMAIN shadows
    /\ Room
    /\ ~Conflicted(Ours(c), shadows[c].entries)
    /\ Append_(c.branch, MergeResult(Ours(c), shadows[c].entries))
    /\ answered' = "none"
    /\ UNCHANGED <<now, pending, shadows, budget, breaker>>

(***************************************************************************)
(* put, delete and write_batch, on a target or on a shadow branch: the      *)
(* breaker first, and the rows only if it lets them through.                *)
(***************************************************************************)
RowsOf(samples) == FoldLeft(LAMBDA n, s : n + s.rows, 0, samples)

(* evict_expired: samples leave from the front, up to the first that stays. *)
Expired(samples) ==
    Min({n \in 0..Len(samples) : n < Len(samples) => samples[n + 1].at + BreakerWindow > now})

Evicted(b) ==
    LET n == Expired(b.samples)
        gone == RowsOf(SubSeq(b.samples, 1, n))
    IN  [b EXCEPT !.samples = SubSeq(@, n + 1, Len(@)), !.rows = IF gone > @ THEN 0 ELSE @ - gone]

Trips(b, n) == b.rows + n > BreakerCeiling

Recorded(b, n) ==
    IF b.tripped THEN b
    ELSE IF Trips(b, n) THEN [b EXCEPT !.tripped = TRUE, !.rows = @ + n]
    ELSE [b EXCEPT !.samples = Append(@, [at |-> now, rows |-> n]), !.rows = @ + n]

(* Engine::check_breaker *)
Checked(n) ==
    /\ breaker' = Recorded(Evicted(breaker), n)
    /\ answered' = "none"

WriteTarget(b, w) ==
    /\ Room
    /\ Checked(Cardinality(DOMAIN w))
    /\ IF breaker'.tripped THEN UNCHANGED data ELSE Append_(b, <<Transaction(w)>>)
    /\ UNCHANGED <<now, pending, shadows, budget>>

WriteShadow(c, w) ==
    /\ c \in DOMAIN shadows
    /\ Room
    /\ Checked(Cardinality(DOMAIN w))
    /\ IF breaker'.tripped THEN UNCHANGED shadows
       ELSE shadows' = [shadows EXCEPT ![c].entries = Append(@, Transaction(w)),
                                       ![c].view = Apply(@, Transaction(w))]
    /\ UNCHANGED <<now, data, pending, budget>>

(* Engine::apply_signed_policy: a newer signed policy replaces the breaker, which is  *)
(* the only way a tripped one ever closes.  The thresholds stay.              *)
PushPolicy ==
    /\ breaker # Closed
    /\ breaker' = Closed
    /\ answered' = "none"
    /\ UNCHANGED <<now, data, pending, shadows, budget>>

\* Mutant: a shadow branch whose proposal has lapsed is forgotten.
PendingShadows == {c \in DOMAIN shadows \intersect DOMAIN pending : now - shadows[c].opened >= ShadowTtl}

(* Engine::collect_expired, which the engine's task runs between requests. *)
ExpiredShadows == {c \in DOMAIN shadows : now - shadows[c].opened >= ShadowTtl}
Lapsed ==
    LET ttl == IF ShadowTtl < ProposalTtl THEN ShadowTtl ELSE ProposalTtl
    IN  {c \in DOMAIN pending : now - pending[c].at >= ttl}

CollectExpired ==
    LET reclaimed == ExpiredShadows \union Lapsed IN
    /\ reclaimed # {}
    /\ shadows' = Dropped(shadows, ExpiredShadows)
    /\ pending' = Dropped(pending, reclaimed)
    /\ Settle(reclaimed, "expired")
    /\ answered' = "none"
    /\ UNCHANGED <<now, data, breaker>>

Tick ==
    /\ now < MaxTime
    /\ now' = now + 1
    /\ answered' = "none"
    /\ UNCHANGED <<data, pending, shadows, budget, breaker>>

Writes == UNION {[S -> BOOLEAN] : S \in UNION {kSubset(n, Keys) : n \in 1..MaxBatch}}

Request(c) ==
    \/ Propose(c)
    \/ \E agent \in Agents : ProposeWithinBudget(c, agent)
    \/ ValidateShadow(c)
    \/ \E confirm \in BOOLEAN : ApplySchemaChange(c, confirm)
    \/ PromoteShadow(c)
    \/ RejectShadow(c)
    \/ Merge(c)

Next ==
    \/ \E c \in Changes : Request(c)
    \/ \E b \in Targets, w \in Writes : WriteTarget(b, w)
    \/ \E c \in Changes, w \in Writes : WriteShadow(c, w)
    \/ PushPolicy
    \/ CollectExpired
    \/ Tick

Spec == Init /\ [][Next]_vars

(* Time passes, and the engine's task runs its maintenance. *)
FairSpec == Spec /\ WF_vars(Tick) /\ WF_vars(CollectExpired)

-----------------------------------------------------------------------------
Branch == [tables : SUBSET Tables, rows : SUBSET Keys]
Held == [id : 1..MaxReservations, at : 0..MaxTime, cost : Nat, agent : Agents, branch : Targets]

(* The shape of the state; a reservation is never both held and spent, and   *)
(* the view of every target is the fold of its log.                          *)
TypeOK ==
    /\ now \in 0..MaxTime
    /\ \A b \in Targets : view[b] \in Branch /\ view[b] = Extend(Opened, log[b])
    /\ DOMAIN pending \subseteq Changes
    /\ \A c \in DOMAIN pending : pending[c] \in [gate : {"auto", "confirm", "shadow"}, at : 0..MaxTime]
    /\ DOMAIN shadows \subseteq Changes
    /\ \A c \in DOMAIN shadows : shadows[c].view \in Branch
    /\ held \subseteq Held /\ spent \subseteq Held
    /\ \A r \in held, s \in spent : r.id # s.id
    /\ nextId \in 1..(MaxReservations + 1)
    /\ breaker.rows \in Nat

(* A change that lands without anyone's confirmation destroys no row, however *)
(* the table filled while the proposal waited.                                *)
UnconfirmedLosesNothing ==
    [][answered' = "applied" => \A b \in Targets : view[b].rows \subseteq view[b].rows']_vars

(* Promotion touches no row outside the table its change names, whatever was  *)
(* written to the shadow branch and to the target since it was forked.        *)
PromotionTouchesOnlyItsTable ==
    [][\A c \in DOMAIN shadows : answered' = "promoted" /\ c \notin DOMAIN shadows' =>
           OnlyItsTable(c, view[c.branch], view[c.branch]')]_vars

(* Nothing is lost unconfirmed, and a promotion touches only its own table.    *)
OnlyWhatWasApproved == UnconfirmedLosesNothing /\ PromotionTouchesOnlyItsTable

(* The reviews held and the reviews given in the window never exceed what a   *)
(* project, a branch or an agent may ask for.                                 *)
CommittedWithinCeiling == \A scope \in Scopes : Committed(scope) <= Ceiling(scope)

(* A review that was answered in time stays charged: approving and rejecting  *)
(* refund nothing.                                                            *)
AnsweredReviewsStaySpent ==
    [][answered' \in {"settled", "applied", "promoted"} =>
           \A r \in Unexpired : r \in held' \/ \E s \in spent' : s.id = r.id /\ s.cost = r.cost]_vars

(* The breaker's running total is the sum of its window, and a window's       *)
(* accepted rows never pass the ceiling, however samples expire, and trips    *)
(* and policy pushes interleave.                                              *)
BreakerCountsWindow ==
    /\ RowsOf(breaker.samples) <= BreakerCeiling
    /\ ~breaker.tripped => breaker.rows = RowsOf(breaker.samples)

(* Reviews held and given in the window stay within every ceiling, and the     *)
(* breaker's running total is the rows of its window.                          *)
CeilingsHold == TypeOK /\ CommittedWithinCeiling /\ BreakerCountsWindow

(* Nothing proposed stays for ever: proposals, their shadow branches and the  *)
(* reviews they hold are all answered or reclaimed.                           *)
ProposalsEnd ==
    <>[](pending = <<>> /\ shadows = <<>> /\ reservations = <<>>)

-----------------------------------------------------------------------------
(* A drop that validates against the target as it stands, and is promoted, has *)
(* been carried out: what was validated is what ships (shadow.rs, specs/07     *)
(* section 5).  Nobody merged the shadow branch beforehand.                    *)
PromotionShipsTheChange ==
    [][\A c \in DOMAIN shadows :
           /\ answered' = "promoted" /\ c \notin DOMAIN shadows' /\ c.op = "drop"
           /\ Checks(c, view[c.branch], shadows[c].view)
           /\ MergeEntry \notin Range(Ours(c))
           => Rows(view[c.branch]', c.table) = {}]_vars

=============================================================================
