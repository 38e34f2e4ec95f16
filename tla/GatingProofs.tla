---------------------------- MODULE GatingProofs ----------------------------
(***************************************************************************)
(* What the gates of schema changes promise, for every policy, change, claim *)
(* and push (InstanceParts' Gating, an instance of Safety): a claim loses    *)
(* nothing and lowers no drop, what was recorded replays, gates are monotone,*)
(* and a policy only moves forward.                                          *)
(***************************************************************************)
EXTENDS InstanceParts, Integers, SequencesExt, TLAPS, SequenceTheorems, FiniteSetTheorems, WellFoundedInduction

-----------------------------------------------------------------------------
(* What an operation leaves alone in a view                                 *)

Shape(v) == {"keys", "crdts"} \subseteq DOMAIN v

LEMMA SchemaShape ==
  ASSUME NEW v, NEW change, Shape(v), change.kind \in Gating!Kinds
  PROVE  Shape(Gating!ApplySchema(v, change))
  BY DEF Shape, Gating!ApplySchema, Gating!Kinds, Gating!WithTable, Gating!WithoutColumn,
         Gating!WithRenamed, Gating!RebuildIndexes

LEMMA RowShape ==
  ASSUME NEW v, NEW op, NEW commit, Shape(v), op.op \in {"Put", "Delete", "Crdt"}
  PROVE  Shape(Gating!ApplyOp(v, op, commit))
  BY DEF Shape, Gating!ApplyOp, Gating!PutRow, Gating!DeleteRow, Gating!MutateCrdt, Gating!Reindexed

\* A change of a column's type or nullability touches no row.
Narrowing(change) == change.kind = "ty" \/ (change.kind = "nullable" /\ ~change.to)

LEMMA NarrowingKeepsRows ==
  ASSUME NEW v, NEW change, Shape(v), Narrowing(change)
  PROVE  Gating!RowsOf(Gating!ApplySchema(v, change), change.table) = Gating!RowsOf(v, change.table)
<1> DEFINE w == Gating!ApplySchema(v, change)
<1>1. w.keys = v.keys /\ w.crdts = v.crdts
  BY DEF Shape, Narrowing, Gating!ApplySchema, Gating!WithTable
<1> HIDE DEF w
<1>2. QED
  BY <1>1 DEF Gating!RowsOf, w

-----------------------------------------------------------------------------
(* Claims                                                                   *)

LEMMA ClaimKeeps ==
  ASSUME NEW v, NEW p, Shape(v), Narrowing(p.change), Gating!OwnClaim(p),
         p.change.column # "", p.claim.kind # "empty" => p.claim.column # "",
         Gating!Verify(p.claim, p.change, v) = "holds"
  PROVE  Gating!Satisfied(Gating!ApplySchema(v, p.change), p.change)
<1>1. ~Gating!Mismatch(p.claim, p.change) /\ \A r \in Gating!RowsOf(v, p.claim.table) : Gating!Keeps(p.claim, p.change, r[2])
  BY DEF Gating!Verify
<1>2. p.claim.table = p.change.table
  BY <1>1 DEF Gating!Mismatch
<1>3. Gating!RowsOf(Gating!ApplySchema(v, p.change), p.change.table) = Gating!RowsOf(v, p.change.table)
  BY NarrowingKeepsRows
<1>4. p.claim.kind # "empty" => p.claim.column = p.change.column
  BY <1>1 DEF Gating!Mismatch, Gating!Target, Narrowing
<1>5. SUFFICES ASSUME NEW r \in Gating!RowsOf(v, p.change.table)
      PROVE  IF p.change.kind = "ty" THEN Gating!FitsIn(r[2], p.change.column, p.change.to)
             ELSE Gating!HasColumn(r[2], p.change.column)
  BY <1>3 DEF Gating!Satisfied
<1>6. Gating!Keeps(p.claim, p.change, r[2])
  BY <1>1, <1>2
<1>7. p.claim.kind = IF p.change.kind = "ty" THEN "type" ELSE "present"
  BY <1>6 DEF Gating!OwnClaim, Gating!Keeps
<1>8. QED
  BY <1>4, <1>6, <1>7 DEF Gating!Keeps

-----------------------------------------------------------------------------
(* The invariant                                                            *)

\* A lowered gate was lowered by a claim that held on the branch's rows, and still
\* does while the branch has had nothing appended.
PendingOk(p, es, vs) ==
  /\ p.branch \in GatedBranches /\ p.change \in GatedChanges
  /\ p.at \in Nat /\ p.at <= es[p.branch]
  /\ Gating!Lowers(p) =>
       /\ p.diff.gate = "auto" /\ Narrowing(p.change) /\ p.claim \in GatedClaims
       /\ p.at = es[p.branch] => Gating!Verify(p.claim, p.change, vs[p.branch]) = "holds"

DecisionOk(e) ==
  e.kind = "decision" => e.gate = Gating!Diff(e.change, e.rows, e.under, e.protected).gate
IsSeq(s) == \E S : s \in Seq(S)
TrailOk(s) == IsSeq(s) /\ \A i \in DOMAIN s : DecisionOk(s[i])

GatesInv ==
  /\ DOMAIN views = GatedBranches /\ \A b \in GatedBranches : Shape(views[b])
  /\ edits \in [GatedBranches -> Nat]
  /\ sync \in [version : Nat, policy : Gating!Policies]
  /\ lives \in Nat
  /\ \A id \in DOMAIN pending : PendingOk(pending[id], edits, views)
  /\ TrailOk(trail)

LEMMA GatesInvInit == ASSUME Gating!SafetyAssumption, Gating!Init PROVE GatesInv
<1>1. TrailOk(trail)
  <2>1. trail \in Seq({}) /\ DOMAIN trail = {}
    BY DEF Gating!Init
  <2>2. QED
    BY <2>1 DEF TrailOk, IsSeq
<1>2. DOMAIN pending = {}
  BY DEF Gating!Init
<1>3. DOMAIN views = GatedBranches /\ \A b \in GatedBranches : Shape(views[b])
  BY DEF Gating!Init, Shape, Gating!SafetyAssumption
<1>4. edits \in [GatedBranches -> Nat] /\ sync \in [version : Nat, policy : Gating!Policies] /\ lives \in Nat
  BY DEF Gating!Init, Gating!Policies
<1>5. QED
  BY <1>1, <1>2, <1>3, <1>4 DEF GatesInv

LEMMA RecordKeepsTrail ==
  ASSUME Gating!SafetyAssumption, TrailOk(trail), NEW e, DecisionOk(e), Gating!Record(e)
  PROVE  TrailOk(trail')
<1>1. PICK S : trail \in Seq(S)
  BY DEF TrailOk, IsSeq
<1> DEFINE T == S \cup {e}
           long == Append(trail, e)
<1>2. trail \in Seq(T)
  BY <1>1
<1>3. long \in Seq(T) /\ Len(long) = Len(trail) + 1
  BY <1>2
<1>4. \A i \in 1..Len(long) : DecisionOk(long[i])
  <2>1. SUFFICES ASSUME NEW i \in 1..Len(long) PROVE DecisionOk(long[i])
    OBVIOUS
  <2>2. CASE i = Len(long)
    <3>1. long[i] = e
      BY <1>2, <1>3, <2>2
    <3>2. QED
      BY <3>1
  <2>3. CASE i # Len(long)
    <3>1. i \in DOMAIN trail /\ long[i] = trail[i]
      BY <1>2, <1>3, <2>3
    <3>2. QED
      BY <3>1 DEF TrailOk
  <2>4. QED
    BY <2>2, <2>3
<1> HIDE DEF long, T
<1>5. trail' = Gating!Recent(long)
  BY DEF Gating!Record, long
<1>6. CASE Len(long) > RecentSize
  <2> DEFINE from == Len(long) - RecentSize + 1
  <2>1. from \in 1..Len(long) /\ Len(long) \in Nat /\ RecentSize \in Nat
    <3>1. RecentSize \in Nat \ {0}
      BY Zenon DEF Gating!SafetyAssumption
    <3>2. Len(long) \in Nat
      BY <1>3
    <3>3. QED
      BY <1>6, <3>1, <3>2
  <2>2. trail' = SubSeq(long, from, Len(long))
    BY <1>5, <1>6 DEF Gating!Recent
  <2>3. trail' \in Seq(T) /\ Len(trail') = RecentSize
    BY <1>3, <2>1, <2>2
  <2>4. \A i \in 1..RecentSize : trail'[i] = long[from + i - 1] /\ from + i - 1 \in 1..Len(long)
    BY <1>3, <2>1, <2>2
  <2>5. DOMAIN trail' = 1..RecentSize
    BY <2>3
  <2> HIDE DEF from
  <2>6. QED
    BY <1>4, <2>3, <2>4, <2>5 DEF TrailOk, IsSeq
<1>7. CASE ~(Len(long) > RecentSize)
  <2>1. trail' = long /\ DOMAIN long = 1..Len(long)
    BY <1>3, <1>5, <1>7 DEF Gating!Recent
  <2>2. QED
    BY <1>3, <1>4, <2>1 DEF TrailOk, IsSeq
<1>8. QED
  BY <1>6, <1>7

\* An entry appended to a branch: its claims are no longer judged by the new view,
\* and the others' are as they were.
LEMMA AppendKeepsPending ==
  ASSUME GatesInv, NEW b \in GatedBranches, NEW op, Gating!AppendTo(b, op), NEW p, PendingOk(p, edits, views)
  PROVE  PendingOk(p, edits', views')
<1>1. edits' = [edits EXCEPT ![b] = @ + 1] /\ edits \in [GatedBranches -> Nat]
  BY DEF GatesInv, Gating!AppendTo
<1>2. p.branch \in GatedBranches /\ p.at \in Nat /\ p.at <= edits[p.branch]
  BY DEF PendingOk
<1>3. CASE p.branch = b
  <2>1. edits'[p.branch] = edits[p.branch] + 1 /\ edits[p.branch] \in Nat
    BY <1>1, <1>2, <1>3
  <2>2. p.at <= edits'[p.branch] /\ p.at # edits'[p.branch]
    BY <1>2, <2>1
  <2>3. QED
    BY <2>2 DEF PendingOk
<1>4. CASE p.branch # b
  <2>1. edits'[p.branch] = edits[p.branch] /\ views'[p.branch] = views[p.branch]
    BY <1>1, <1>2, <1>4 DEF Gating!AppendTo, GatesInv
  <2>2. QED
    BY <2>1 DEF PendingOk
<1>5. QED
  BY <1>3, <1>4

LEMMA AppendKeepsViews ==
  ASSUME GatesInv, NEW b \in GatedBranches, NEW op, Gating!AppendTo(b, op),
         Shape(Gating!ApplyOp(views[b], op, edits[b] + 1))
  PROVE  /\ DOMAIN views' = GatedBranches /\ \A c \in GatedBranches : Shape(views'[c])
         /\ edits' \in [GatedBranches -> Nat]
<1>1. edits' \in [GatedBranches -> Nat]
  BY DEF GatesInv, Gating!AppendTo
<1>2. views' = [views EXCEPT ![b] = Gating!ApplyOne(views[b], op, edits[b] + 1)]
  BY DEF Gating!AppendTo
<1>3. Shape(Gating!ApplyOne(views[b], op, edits[b] + 1))
  BY DEF Shape, Gating!ApplyOne
<1>4. QED
  BY <1>1, <1>2, <1>3 DEF GatesInv

\* A proposal, with its claim or none: Hold puts it in its place.
LEMMA HoldKeepsPending ==
  ASSUME GatesInv, NEW b \in GatedBranches, NEW c \in GatedChanges, NEW diff, NEW classified, NEW claim,
         Gating!Hold(b, c, diff, classified, claim), UNCHANGED <<edits, views>>,
         diff.gate # classified =>
           /\ diff.gate = "auto" /\ Narrowing(c) /\ claim \in GatedClaims
           /\ Gating!Verify(claim, c, views[b]) = "holds"
  PROVE  \A id \in DOMAIN pending' : PendingOk(pending'[id], edits', views')
<1> DEFINE new == [branch |-> b, change |-> c, diff |-> diff, classified |-> classified,
                   claim |-> claim, at |-> edits[b]]
<1>1. pending' = [id \in DOMAIN pending \cup {Gating!ChangeId(b, c)} |->
                   IF id = Gating!ChangeId(b, c) THEN new ELSE pending[id]]
  BY DEF Gating!Hold
<1>2. PendingOk(new, edits, views)
  BY DEF PendingOk, Gating!Lowers, GatesInv
<1> HIDE DEF new
<1>3. ASSUME NEW id \in DOMAIN pending' PROVE pending'[id] = new \/ (id \in DOMAIN pending /\ pending'[id] = pending[id])
  BY <1>1, <1>3
<1>4. QED
  BY <1>2, <1>3 DEF GatesInv

LEMMA ProposeKeeps ==
  ASSUME Gating!SafetyAssumption, GatesInv, NEW b \in GatedBranches, NEW c \in GatedChanges,
         Gating!ProposeSchemaChange(b, c) \/ \E claim \in GatedClaims : Gating!ProposeWithClaim(b, c, claim)
  PROVE  GatesInv'
<1> DEFINE diff == Gating!DiffOf(b, c)
<1>1. ASSUME NEW lowered PROVE DecisionOk(Gating!Decision(b, c, diff, lowered))
  BY DEF DecisionOk, Gating!Decision, Gating!DiffOf, Gating!Diff
<1>2. CASE Gating!ProposeSchemaChange(b, c)
  <2>1. Gating!Record(Gating!Decision(b, c, diff, FALSE)) /\ Gating!Hold(b, c, diff, diff.gate, Gating!NoClaim)
    BY <1>2 DEF Gating!ProposeSchemaChange
  <2>2. UNCHANGED <<views, edits, sync, lives>>
    BY <1>2 DEF Gating!ProposeSchemaChange
  <2> HIDE DEF diff
  <2>3. TrailOk(trail')
    BY <1>1, <2>1, RecordKeepsTrail DEF GatesInv
  <2>4. \A id \in DOMAIN pending' : PendingOk(pending'[id], edits', views')
    BY <2>1, <2>2, HoldKeepsPending
  <2>5. QED
    BY <2>2, <2>3, <2>4 DEF GatesInv
<1>3. ASSUME NEW claim \in GatedClaims, Gating!ProposeWithClaim(b, c, claim) PROVE GatesInv'
  <2> DEFINE verdict == Gating!Verify(claim, c, views[b])
             gate == Gating!Lowered(diff.gate, c, verdict)
             lower == [diff EXCEPT !.gate = gate]
  <2>1. Gating!Record(Gating!Decision(b, c, diff, gate # diff.gate)) /\ Gating!Hold(b, c, lower, diff.gate, claim)
    BY <1>3 DEF Gating!ProposeWithClaim
  <2>2. UNCHANGED <<views, edits, sync, lives>>
    BY <1>3 DEF Gating!ProposeWithClaim
  <2>3. lower.gate = gate
    BY DEF Gating!DiffOf, Gating!Diff
  <2>4. gate # diff.gate => gate = "auto" /\ Narrowing(c) /\ verdict = "holds"
    BY DEF Gating!Lowered, Narrowing
  <2>5. TrailOk(trail')
    <3> HIDE DEF diff, gate
    <3>1. QED
      BY <1>1, <2>1, RecordKeepsTrail DEF GatesInv
  <2>6. \A id \in DOMAIN pending' : PendingOk(pending'[id], edits', views')
    <3>1. lower.gate # diff.gate =>
            /\ lower.gate = "auto" /\ Narrowing(c) /\ claim \in GatedClaims
            /\ Gating!Verify(claim, c, views[b]) = "holds"
      BY <2>3, <2>4
    <3> HIDE DEF diff, gate, lower
    <3>2. QED
      BY <2>1, <2>2, <3>1, HoldKeepsPending
  <2> HIDE DEF diff, gate, lower, verdict
  <2>7. QED
    BY <2>2, <2>5, <2>6 DEF GatesInv
<1>4. QED
  BY <1>2, <1>3

LEMMA ApplyKeeps ==
  ASSUME Gating!SafetyAssumption, GatesInv, NEW id \in DOMAIN pending, NEW confirm, Gating!ApplySchemaChange(id, confirm)
  PROVE  GatesInv'
<1> DEFINE p == pending[id]
           op == [op |-> "Schema", change |-> p.change]
<1>1. Gating!AppendTo(p.branch, op) /\ pending' = Gating!Drop(pending, {id}) /\ UNCHANGED <<sync, trail, lives>>
  BY DEF Gating!ApplySchemaChange
<1>2. p.branch \in GatedBranches /\ p.change \in GatedChanges
  BY DEF GatesInv, PendingOk
<1>3. p.change.kind \in Gating!Kinds
  BY <1>2, Zenon DEF Gating!SafetyAssumption
<1> HIDE DEF p
<1>4. Shape(views[p.branch])
  BY <1>2 DEF GatesInv
<1>5. Gating!ApplyOp(views[p.branch], op, edits[p.branch] + 1) = Gating!ApplySchema(views[p.branch], p.change)
  BY DEF Gating!ApplyOp
<1>6. Shape(Gating!ApplyOp(views[p.branch], op, edits[p.branch] + 1))
  BY <1>3, <1>4, <1>5, SchemaShape
<1> HIDE DEF op
<1>7. /\ DOMAIN views' = GatedBranches /\ \A c \in GatedBranches : Shape(views'[c])
      /\ edits' \in [GatedBranches -> Nat]
  BY <1>1, <1>2, <1>6, AppendKeepsViews
<1>8. \A i \in DOMAIN pending' : PendingOk(pending'[i], edits', views')
  <2>1. \A i \in DOMAIN pending' : i \in DOMAIN pending /\ pending'[i] = pending[i]
    BY <1>1 DEF Gating!Drop, Gating!Restrict
  <2>2. QED
    BY <1>1, <1>2, <2>1, AppendKeepsPending DEF GatesInv
<1>9. QED
  BY <1>1, <1>7, <1>8 DEF GatesInv

LEMMA RowOpKeeps ==
  ASSUME Gating!SafetyAssumption, GatesInv, NEW b \in GatedBranches, NEW op \in GatedWrites, Gating!RowOp(b, op)
  PROVE  GatesInv'
<1>1. op.op \in {"Put", "Delete", "Crdt"}
  BY Zenon DEF Gating!SafetyAssumption
<1>2. Shape(Gating!ApplyOp(views[b], op, edits[b] + 1))
  BY <1>1, RowShape DEF GatesInv
<1>3. Gating!AppendTo(b, op) /\ UNCHANGED <<sync, pending, trail, lives>>
  BY DEF Gating!RowOp
<1>4. /\ DOMAIN views' = GatedBranches /\ \A c \in GatedBranches : Shape(views'[c])
      /\ edits' \in [GatedBranches -> Nat]
  BY <1>2, <1>3, AppendKeepsViews
<1>5. \A i \in DOMAIN pending' : PendingOk(pending'[i], edits', views')
  BY <1>3, AppendKeepsPending DEF GatesInv
<1>6. QED
  BY <1>3, <1>4, <1>5 DEF GatesInv

LEMMA GatesInvNext ==
  ASSUME Gating!SafetyAssumption, GatesInv, [Gating!Next]_(Gating!vars)
  PROVE  GatesInv'
<1>1. ASSUME NEW id \in DOMAIN pending, Gating!Validate(id) PROVE GatesInv'
  <2>1. Gating!Record(Gating!Other("validation")) /\ UNCHANGED <<views, edits, sync, pending, lives>>
    BY <1>1 DEF Gating!Validate
  <2>2. DecisionOk(Gating!Other("validation"))
    BY DEF DecisionOk, Gating!Other
  <2>3. TrailOk(trail')
    BY <2>1, <2>2, RecordKeepsTrail DEF GatesInv
  <2>4. QED
    BY <2>1, <2>3 DEF GatesInv
<1>2. ASSUME NEW push \in Pushes, Gating!ApplySignedPolicy(push) PROVE GatesInv'
  <2>1. Gating!Record(Gating!Other("policy")) /\ UNCHANGED <<views, edits, pending, lives>>
    BY <1>2 DEF Gating!ApplySignedPolicy
  <2>2. DecisionOk(Gating!Other("policy"))
    BY DEF DecisionOk, Gating!Other
  <2>3. TrailOk(trail')
    BY <2>1, <2>2, RecordKeepsTrail DEF GatesInv
  <2>4. push.version \in Nat
    BY Zenon DEF Gating!SafetyAssumption
  <2>5. sync' \in [version : Nat, policy : Gating!Policies]
    BY <1>2, <2>4 DEF Gating!ApplySignedPolicy, Gating!Policies
  <2>6. QED
    BY <2>1, <2>3, <2>5 DEF GatesInv
<1>3. CASE Gating!Restart
  <2>1. DOMAIN pending' = {} /\ lives' \in Nat /\ sync' \in [version : Nat, policy : Gating!Policies]
    BY <1>3 DEF Gating!Restart, GatesInv, Gating!Policies
  <2>2. QED
    BY <1>3, <2>1 DEF Gating!Restart, GatesInv
<1>4. CASE UNCHANGED Gating!vars
  BY <1>4 DEF Gating!vars, GatesInv, TrailOk, IsSeq
<1>5. QED
  BY <1>1, <1>2, <1>3, <1>4, RowOpKeeps, ProposeKeeps, ApplyKeeps DEF Gating!Next

-----------------------------------------------------------------------------
(* What it gives                                                            *)

LEMMA ClaimsHold ==
  ASSUME Gating!SafetyAssumption, GatesInv
  PROVE  Gating!ClaimsLoseNothing /\ Gating!ADropIsStillADrop
<1>1. SUFFICES ASSUME NEW id \in DOMAIN pending, Gating!Lowers(pending[id])
      PROVE  LET p == pending[id]
             IN  /\ p.at = edits[p.branch] /\ Gating!OwnClaim(p) => Gating!Satisfied(Gating!Applied(p), p.change)
                 /\ p.diff.gate = "auto" /\ ~Gating!Drops(p.change) /\ ~Gating!AddsNothing(p.change)
  BY DEF Gating!ClaimsLoseNothing, Gating!ADropIsStillADrop
<1> DEFINE p == pending[id]
<1>2. PendingOk(p, edits, views)
  BY DEF GatesInv
<1> HIDE DEF p
<1>3. /\ p.branch \in GatedBranches /\ p.change \in GatedChanges /\ p.diff.gate = "auto"
      /\ Narrowing(p.change) /\ p.claim \in GatedClaims
      /\ p.at = edits[p.branch] => Gating!Verify(p.claim, p.change, views[p.branch]) = "holds"
  BY <1>1, <1>2 DEF PendingOk, p
<1>4. ~Gating!Drops(p.change) /\ ~Gating!AddsNothing(p.change)
  BY <1>3 DEF Narrowing, Gating!Drops, Gating!AddsNothing
<1>5. p.change.column # "" /\ (p.claim.kind # "empty" => p.claim.column # "")
  <2>1. p.change.kind \in {"ty", "nullable"}
    BY <1>3 DEF Narrowing
  <2>2. QED
    BY <1>3, <2>1, Zenon DEF Gating!SafetyAssumption
<1>6. ASSUME p.at = edits[p.branch], Gating!OwnClaim(p) PROVE Gating!Satisfied(Gating!Applied(p), p.change)
  <2>1. Shape(views[p.branch])
    BY <1>3 DEF GatesInv
  <2>2. QED
    BY <1>3, <1>5, <1>6, <2>1, ClaimKeeps DEF Gating!Applied
<1>7. QED
  BY <1>3, <1>4, <1>6 DEF p

LEMMA RecordsReplay == ASSUME GatesInv PROVE Gating!ReplayAgrees
<1>1. SUFFICES ASSUME NEW i \in DOMAIN trail, trail[i].kind = "decision"
      PROVE  Gating!Divergence(trail[i], trail[i].under) = "same"
  BY DEF Gating!ReplayAgrees, Gating!Recorded
<1>2. DecisionOk(trail[i])
  BY DEF GatesInv, TrailOk
<1>3. QED
  BY <1>1, <1>2 DEF DecisionOk, Gating!Divergence, Gating!Replayed

\* The thresholds that decide, of a policy as it is or tightened.
InForce(policy, protected) == IF protected THEN Gating!Tightened(policy) ELSE policy

LEMMA Thresholds ==
  ASSUME Gating!SafetyAssumption, Gating!GatesAssumption, NEW policy \in Gating!Policies, NEW protected \in BOOLEAN
  PROVE  /\ InForce(policy, protected).row \in Nat
         /\ Gating!ShadowThreshold(InForce(policy, protected)) \in Nat
         /\ InForce(policy, TRUE).row <= InForce(policy, FALSE).row
         /\ Gating!ShadowThreshold(InForce(policy, TRUE)) <= Gating!ShadowThreshold(InForce(policy, FALSE))
         /\ InForce(policy, TRUE).rules = {}
<1>1. policy.row \in Nat /\ policy.shadow \in Nat
  BY Zenon DEF Gating!SafetyAssumption
<1>2. Floor.row \in Nat /\ Floor.shadow \in Nat /\ MaxShadow \in Nat
  BY DEF Gating!GatesAssumption
<1>3. QED
  BY <1>1, <1>2 DEF InForce, Gating!Tightened, Gating!ShadowThreshold, Gating!Least, Gating!Policy

LEMMA GateRises ==
  ASSUME NEW destructive \in BOOLEAN, NEW reversible \in BOOLEAN, NEW m \in Nat, NEW n \in Nat, m <= n,
         NEW p, NEW q, p.row \in Nat, q.row \in Nat, Gating!ShadowThreshold(p) \in Nat, Gating!ShadowThreshold(q) \in Nat,
         q.row <= p.row, Gating!ShadowThreshold(q) <= Gating!ShadowThreshold(p)
  PROVE  Gating!Strictness[Gating!GateOf(destructive, reversible, m, p)]
           <= Gating!Strictness[Gating!GateOf(destructive, reversible, n, q)]
  BY DEF Gating!GateOf, Gating!Strictness

LEMMA Verdicts ==
  ASSUME Gating!SafetyAssumption, NEW c \in GatedChanges, NEW policy
  PROVE  Gating!Reversible(c) \in BOOLEAN /\ Gating!Destructive(c, policy) \in BOOLEAN
<1>1. c.kind = "nullable" => c.to \in BOOLEAN
  BY Zenon DEF Gating!SafetyAssumption
<1>2. QED
  BY <1>1 DEF Gating!Reversible, Gating!Destructive, Gating!Widens, Gating!Drops

LEMMA ReasonsBelong ==
  ASSUME NEW destructive \in BOOLEAN, NEW reversible \in BOOLEAN, NEW n \in Nat, NEW p, NEW approved \in BOOLEAN
  PROVE  LET gate == Gating!GateOf(destructive, reversible, n, p)
             rule == Gating!Rule(destructive, reversible, n, p, approved)
         IN  /\ gate = "shadow" <=> rule = "IrreversibleOverShadowThreshold"
             /\ gate = "auto" <=> Gating!Remedy(gate, rule) = "none"
             /\ rule = "AutoApprovedByPolicy" => approved
  BY DEF Gating!GateOf, Gating!Rule, Gating!Remedy

LEMMA GatesRise ==
  ASSUME Gating!SafetyAssumption, Gating!GatesAssumption, GatesInv
  PROVE  Gating!GatesAreMonotone
<1> DEFINE At_(c, n, protected) == Gating!Diff(c, n, sync.policy, protected)
<1>1. SUFFICES ASSUME NEW c \in GatedChanges, NEW p \in BOOLEAN, NEW n \in Gating!Rows
      PROVE  /\ n > 0 => Gating!Strictness[At_(c, n - 1, p).gate] <= Gating!Strictness[At_(c, n, p).gate]
             /\ Gating!Strictness[At_(c, n, FALSE).gate] <= Gating!Strictness[At_(c, n, TRUE).gate]
             /\ At_(c, n, p).gate = "shadow" <=> At_(c, n, p).rule = "IrreversibleOverShadowThreshold"
             /\ At_(c, n, p).gate = "auto" <=> At_(c, n, p).remedy = "none"
             /\ At_(c, n, p).rule = "AutoApprovedByPolicy" => ~p
  BY DEF Gating!GatesAreMonotone
<1> HIDE DEF At_
<1>2. n \in Nat
  BY DEF Gating!Rows, Gating!GatesAssumption
<1>3. sync.policy \in Gating!Policies
  BY DEF GatesInv
<1>4. Gating!Reversible(c) \in BOOLEAN /\ Gating!Destructive(c, sync.policy) \in BOOLEAN
  BY Verdicts
<1>5. ASSUME n > 0 PROVE Gating!Strictness[At_(c, n - 1, p).gate] <= Gating!Strictness[At_(c, n, p).gate]
  <2>1. n - 1 \in Nat /\ n - 1 <= n
    BY <1>2, <1>5
  <2> DEFINE q == InForce(sync.policy, p)
  <2>2. q.row \in Nat /\ Gating!ShadowThreshold(q) \in Nat
    BY <1>3, Thresholds
  <2>3. /\ At_(c, n - 1, p).gate = Gating!GateOf(Gating!Destructive(c, sync.policy), Gating!Reversible(c), n - 1, q)
        /\ At_(c, n, p).gate = Gating!GateOf(Gating!Destructive(c, sync.policy), Gating!Reversible(c), n, q)
    BY DEF At_, Gating!Diff, InForce
  <2> HIDE DEF q
  <2>4. q.row <= q.row /\ Gating!ShadowThreshold(q) <= Gating!ShadowThreshold(q)
    BY <2>2
  <2>5. QED
    BY <1>2, <1>4, <2>1, <2>2, <2>3, <2>4, GateRises, Zenon
<1>6. Gating!Strictness[At_(c, n, FALSE).gate] <= Gating!Strictness[At_(c, n, TRUE).gate]
  <2> DEFINE q == InForce(sync.policy, FALSE)
             r == InForce(sync.policy, TRUE)
  <2>1. /\ q.row \in Nat /\ Gating!ShadowThreshold(q) \in Nat /\ r.row \in Nat /\ Gating!ShadowThreshold(r) \in Nat
        /\ r.row <= q.row /\ Gating!ShadowThreshold(r) <= Gating!ShadowThreshold(q)
    BY <1>3, Thresholds
  <2>2. /\ At_(c, n, FALSE).gate = Gating!GateOf(Gating!Destructive(c, sync.policy), Gating!Reversible(c), n, q)
        /\ At_(c, n, TRUE).gate = Gating!GateOf(Gating!Destructive(c, sync.policy), Gating!Reversible(c), n, r)
    BY DEF At_, Gating!Diff, InForce
  <2> HIDE DEF q, r
  <2>3. n <= n
    BY <1>2
  <2>4. QED
    BY <1>2, <1>4, <2>1, <2>2, <2>3, GateRises
<1>7. /\ At_(c, n, p).gate = "shadow" <=> At_(c, n, p).rule = "IrreversibleOverShadowThreshold"
      /\ At_(c, n, p).gate = "auto" <=> At_(c, n, p).remedy = "none"
      /\ At_(c, n, p).rule = "AutoApprovedByPolicy" => ~p
  <2> DEFINE q == InForce(sync.policy, p)
             approved == At_(c, n, p).gate = "auto" /\ \E r \in q.rules : r.kind = c.kind /\ n <= r.max
  <2>1. /\ At_(c, n, p).gate = Gating!GateOf(Gating!Destructive(c, sync.policy), Gating!Reversible(c), n, q)
        /\ At_(c, n, p).rule = Gating!Rule(Gating!Destructive(c, sync.policy), Gating!Reversible(c), n, q, approved)
        /\ At_(c, n, p).remedy = Gating!Remedy(At_(c, n, p).gate, At_(c, n, p).rule)
    <3>1. At_(c, n, p).gate = Gating!GateOf(Gating!Destructive(c, sync.policy), Gating!Reversible(c), n, q)
      BY DEF At_, Gating!Diff, InForce
    <3>2. At_(c, n, p).rule = Gating!Rule(Gating!Destructive(c, sync.policy), Gating!Reversible(c), n, q, approved)
      BY <3>1 DEF At_, Gating!Diff, InForce
    <3>3. At_(c, n, p).remedy = Gating!Remedy(At_(c, n, p).gate, At_(c, n, p).rule)
      BY DEF At_, Gating!Diff
    <3>4. QED
      BY <3>1, <3>2, <3>3
  <2>2. approved \in BOOLEAN /\ (p => ~approved)
    BY <1>3, Thresholds
  <2> HIDE DEF q, approved
  <2>3. QED
    BY <1>2, <1>4, <2>1, <2>2, ReasonsBelong
<1>8. QED
  BY <1>5, <1>6, <1>7

(* A claim lets no change through that the rows of its branch break, and       *)
(* lowers no drop; every recorded decision replays to the gate it got; touching*)
(* more rows, or protecting a branch, never weakens a gate, and the reason     *)
(* given is the gate's (proof.rs, audit.rs, replay.rs, diff.rs, rationale.rs). *)
THEOREM TheGatesHold ==
  ASSUME Gating!SafetyAssumption, Gating!GatesAssumption
  PROVE  Gating!Spec => []GatesHold
<1>1. Gating!Init => GatesInv
  BY GatesInvInit
<1>2. GatesInv /\ [Gating!Next]_(Gating!vars) => GatesInv'
  BY GatesInvNext
<1>3. GatesInv => GatesHold
  BY ClaimsHold, RecordsReplay, GatesRise DEF GatesHold, Gating!GatesHold
<1>4. QED
  BY <1>1, <1>2, <1>3, PTL DEF Gating!Spec

LEMMA StepMovesForward ==
  ASSUME GatesInv, Gating!Next
  PROVE  Gating!MovesForward
<1>1. ASSUME NEW push \in Pushes, Gating!ApplySignedPolicy(push) PROVE Gating!MovesForward
  BY <1>1 DEF Gating!ApplySignedPolicy, Gating!Genuine, Gating!Newer, Gating!MovesForward
<1>2. CASE Gating!Restart
  BY <1>2 DEF Gating!Restart, Gating!MovesForward, GatesInv
<1>3. CASE UNCHANGED sync
  BY <1>3 DEF Gating!MovesForward
<1>4. QED
  BY <1>1, <1>2, <1>3 DEF Gating!Next, Gating!RowOp, Gating!ProposeSchemaChange,
                          Gating!ProposeWithClaim, Gating!ApplySchemaChange, Gating!Validate

(* While an instance runs, the policy in force is only ever replaced by a      *)
(* genuine push for its own project with a higher version (signed.rs). This is *)
(* the policy's side of NothingGoesBack, PartsProofs has the regions'.         *)
THEOREM PoliciesNeverGoBack ==
  ASSUME Gating!SafetyAssumption
  PROVE  Gating!Spec /\ [](part = "gating") => NothingGoesBack
<1>1. Gating!Init => GatesInv
  BY GatesInvInit
<1>2. GatesInv /\ [Gating!Next]_(Gating!vars) => GatesInv'
  BY GatesInvNext
<1>3. GatesInv /\ [Gating!Next]_(Gating!vars) => [part = "gating" => Gating!MovesForward]_(Gating!vars)
  BY StepMovesForward
<1>4. part = "gating" => [part = "regions" => Placed!NoReadGoesBack /\ Placed!RouteKept]_(Placed!vars)
  OBVIOUS
<1>5. QED
  BY <1>1, <1>2, <1>3, <1>4, PTL DEF Gating!Spec, NothingGoesBack

-----------------------------------------------------------------------------
(* The queue of merges. Histories: what a merge reads of them               *)

LEMMA OneByOne ==
  ASSUME NEW n \in Nat, NEW Q, 0 \in Q, \A i \in 1 .. n : i - 1 \in Q => i \in Q
  PROVE  n \in Q
<1>1. SUFFICES ASSUME n \notin Q PROVE FALSE
  OBVIOUS
<1> DEFINE T == {i \in Nat : i <= n /\ i \notin Q}
           least == CHOOSE t \in T : \A u \in T : t <= u
<1>2. T \in SUBSET Nat /\ n \in T
  BY <1>1
<1>3. \E t \in T : \A u \in T : t <= u
  <2> HIDE DEF T
  <2>1. PICK t \in T : \A u \in T : ~ <<u, t>> \in OpToRel(<, Nat)
    BY <1>2, NatLessThanWellFounded, WFMin
  <2>2. ASSUME NEW u \in T PROVE t <= u
    <3>1. u \in Nat /\ t \in Nat /\ ~(u < t)
      BY <1>2, <2>1 DEF OpToRel
    <3>2. QED
      BY <3>1
  <2>3. QED
    BY <2>2
<1>4. least \in T /\ \A u \in T : least <= u
  BY <1>3, SeqEqual
<1> HIDE DEF least
<1>5. least \in Nat /\ least # 0 /\ least <= n /\ least \notin Q
  BY <1>4
<1>6. least - 1 \notin T /\ least - 1 \in Nat /\ least \in 1 .. n
  BY <1>4, <1>5
<1>7. QED
  BY <1>5, <1>6

LEMMA SeqJoin ==
  ASSUME NEW s, NEW t, IsSeq(s), IsSeq(t)
  PROVE  /\ IsSeq(s \o t) /\ Len(s \o t) = Len(s) + Len(t)
         /\ Len(s) \in Nat /\ Len(t) \in Nat
         /\ \A i \in 1 .. Len(s) : (s \o t)[i] = s[i]
         /\ \A i \in 1 .. Len(t) : (s \o t)[Len(s) + i] = t[i]
<1>1. PICK S : s \in Seq(S)
  BY DEF IsSeq
<1>2. PICK T : t \in Seq(T)
  BY DEF IsSeq
<1> DEFINE U == S \cup T
<1>3. s \in Seq(U) /\ t \in Seq(U)
  BY <1>1, <1>2
<1> HIDE DEF U
<1>4. s \o t \in Seq(U) /\ Len(s \o t) = Len(s) + Len(t)
  BY <1>3, SeqEqual
<1>5. \A i \in 1 .. Len(s) + Len(t) : (s \o t)[i] = IF i <= Len(s) THEN s[i] ELSE t[i - Len(s)]
  BY <1>3, SeqEqual
<1>6. Len(s) \in Nat /\ Len(t) \in Nat
  BY <1>3, SeqEqual
<1>7. \A i \in 1 .. Len(t) : (s \o t)[Len(s) + i] = t[i]
  <2> TAKE i \in 1 .. Len(t)
  <2>1. Len(s) + i \in 1 .. Len(s) + Len(t) /\ ~(Len(s) + i <= Len(s)) /\ Len(s) + i - Len(s) = i
    BY <1>6
  <2>2. QED
    BY <1>5, <2>1
<1>8. QED
  BY <1>4, <1>5, <1>6, <1>7 DEF IsSeq

LEMMA SeqShape ==
  ASSUME NEW s, IsSeq(s)
  PROVE  Len(s) \in Nat /\ DOMAIN s = 1 .. Len(s) /\ s = [i \in 1 .. Len(s) |-> s[i]]
BY DEF IsSeq

LEMMA SeqMade ==
  ASSUME NEW n \in Nat, NEW f, f = [i \in 1 .. n |-> f[i]]
  PROVE  IsSeq(f) /\ Len(f) = n
<1>1. f \in [1 .. n -> {f[i] : i \in 1 .. n}]
  OBVIOUS
<1>2. f \in Seq({f[i] : i \in 1 .. n}) /\ Len(f) = n
  BY <1>1
<1>3. QED
  BY <1>2 DEF IsSeq

LEMMA SameSeq ==
  ASSUME NEW s, NEW t, IsSeq(s), IsSeq(t), Len(s) = Len(t), \A i \in 1 .. Len(s) : s[i] = t[i]
  PROVE  s = t
<1>1. PICK S : s \in Seq(S)
  BY DEF IsSeq
<1>2. PICK T : t \in Seq(T)
  BY DEF IsSeq
<1>3. s \in Seq(S \cup T) /\ t \in Seq(S \cup T)
  BY <1>1, <1>2
<1>4. QED
  BY <1>3, SeqEqual

LEMMA JoinAssociative ==
  ASSUME NEW s, NEW t, NEW u, IsSeq(s), IsSeq(t), IsSeq(u)
  PROVE  s \o (t \o u) = (s \o t) \o u
<1>1. PICK S : s \in Seq(S)
  BY DEF IsSeq
<1>2. PICK T : t \in Seq(T)
  BY DEF IsSeq
<1>3. PICK V : u \in Seq(V)
  BY DEF IsSeq
<1> DEFINE U == S \cup T \cup V
<1>4. s \in Seq(U) /\ t \in Seq(U) /\ u \in Seq(U)
  BY <1>1, <1>2, <1>3
<1> HIDE DEF U
<1>5. QED
  BY <1>4, ConcatAssociative

LEMMA JoinEmpty ==
  ASSUME NEW s, IsSeq(s)
  PROVE  s \o <<>> = s /\ <<>> \o s = s /\ IsSeq(<<>>)
<1>1. PICK S : s \in Seq(S)
  BY DEF IsSeq
<1>2. <<>> \in Seq(S)
  OBVIOUS
<1>3. QED
  BY <1>1, <1>2, ConcatEmptySeq DEF IsSeq


(* One sequence of several, a part at a time.                               *)
Parts(a) == IsSeq(a) /\ \A i \in 1 .. Len(a) : IsSeq(a[i])
Then(s, t) == s \o t
Grows(P, a, n) == P = [i \in 1 .. n |-> IF i = 1 THEN a[i] ELSE Then(P[i - 1], a[i])]

LEMMA ThenSeq == ASSUME NEW s, NEW t, IsSeq(s), IsSeq(t) PROVE IsSeq(Then(s, t))
BY SeqJoin DEF Then

LEMMA ThenAssociative ==
  ASSUME NEW s, NEW t, NEW u, IsSeq(s), IsSeq(t), IsSeq(u)
  PROVE  Then(s, Then(t, u)) = Then(Then(s, t), u)
BY JoinAssociative DEF Then

LEMMA GrowsExist ==
  ASSUME NEW n \in Nat, NEW a
  PROVE  \E P : Grows(P, a, n)
<1> DEFINE Q == {m \in Nat : \E P : Grows(P, a, m)}
<1>1. 0 \in Q
  <2>1. Grows([i \in 1 .. 0 |-> 0], a, 0)
    BY DEF Grows
  <2>2. QED
    BY <2>1
<1>2. ASSUME NEW m \in 1 .. n, m - 1 \in Q PROVE m \in Q
  <2>1. PICK P : Grows(P, a, m - 1)
    BY <1>2
  <2> DEFINE next == IF m = 1 THEN a[m] ELSE Then(P[m - 1], a[m])
             R == [i \in 1 .. m |-> IF i = m THEN next ELSE P[i]]
  <2>2. \A i \in 1 .. m - 1 : R[i] = P[i] /\ P[i] = IF i = 1 THEN a[i] ELSE Then(P[i - 1], a[i])
    BY <2>1 DEF Grows
  <2>3. R[m] = next
    OBVIOUS
  <2>4. R = [i \in 1 .. m |-> R[i]]
    OBVIOUS
  <2> HIDE DEF R, next
  <2>5. ASSUME NEW i \in 1 .. m PROVE R[i] = IF i = 1 THEN a[i] ELSE Then(R[i - 1], a[i])
    <3>1. CASE i = m
      <4>1. m # 1 => R[m - 1] = P[m - 1]
        BY <2>2
      <4>2. QED
        BY <2>3, <3>1, <4>1 DEF next
    <3>2. CASE i # m
      <4>1. i \in 1 .. m - 1
        BY <3>2
      <4>2. i # 1 => i - 1 \in 1 .. m - 1
        BY <4>1
      <4>3. R[i] = P[i] /\ P[i] = IF i = 1 THEN a[i] ELSE Then(P[i - 1], a[i])
        BY <2>2, <4>1
      <4>4. i # 1 => R[i - 1] = P[i - 1]
        BY <2>2, <4>2
      <4>5. QED
        BY <4>3, <4>4
    <3>3. QED
      BY <3>1, <3>2
  <2>6. R = [i \in 1 .. m |-> IF i = 1 THEN a[i] ELSE Then(R[i - 1], a[i])]
    BY <2>4, <2>5
  <2>7. QED
    BY <2>6 DEF Grows
<1> HIDE DEF Q
<1>3. n \in Q
  BY <1>1, <1>2, OneByOne
<1>4. QED
  BY <1>3 DEF Q

LEMMA FlattenGrows ==
  ASSUME NEW a, Len(a) \in Nat, Len(a) # 0
  PROVE  \E P : Grows(P, a, Len(a)) /\ Queue!FlattenSeq(a) = P[Len(a)]
<1> DEFINE n == Len(a)
           P == CHOOSE flatten : Grows(flatten, a, n)
<1>1. Grows(P, a, n)
  BY GrowsExist
<1>2. Queue!FlattenSeq(a) = P[Len(a)]
  BY DEF Queue!FlattenSeq, Grows, Then
<1>3. QED
  BY <1>1, <1>2

\* The first i parts joined.
LEMMA GrowsStep ==
  ASSUME NEW a, Parts(a), NEW n, n \in 1 .. Len(a), NEW P, Grows(P, a, n)
  PROVE  /\ P[1] = a[1]
         /\ \A i \in 2 .. n : P[i] = Then(P[i - 1], a[i])
         /\ \A i \in 1 .. n : IsSeq(P[i])
<1>0. Len(a) \in Nat /\ \A i \in 1 .. Len(a) : IsSeq(a[i])
  BY SeqShape DEF Parts
<1>1. P[1] = a[1]
  BY <1>0 DEF Grows
<1>2. ASSUME NEW i \in 2 .. n PROVE P[i] = Then(P[i - 1], a[i])
  BY <1>0 DEF Grows
<1>3. ASSUME NEW m \in 1 .. n PROVE IsSeq(P[m])
  <2> DEFINE Q == {i \in 0 .. n : i = 0 \/ IsSeq(P[i])}
  <2>1. 0 \in Q
    BY <1>0
  <2>2. ASSUME NEW i \in 1 .. m, i - 1 \in Q PROVE i \in Q
    <3>1. CASE i = 1
      BY <1>0, <1>1, <3>1
    <3>2. CASE i # 1
      <4>1. P[i] = Then(P[i - 1], a[i]) /\ i \in 0 .. n /\ IsSeq(P[i - 1]) /\ IsSeq(a[i])
        BY <1>0, <1>2, <2>2, <3>2
      <4>2. QED
        BY <4>1, ThenSeq
    <3>3. QED
      BY <3>1, <3>2
  <2> HIDE DEF Q
  <2>3. m \in Q
    BY <1>0, <2>1, <2>2, OneByOne
  <2>4. QED
    BY <2>3 DEF Q
<1>4. QED
  BY <1>1, <1>2, <1>3

LEMMA FlattenIsSeq ==
  ASSUME NEW a, Parts(a)
  PROVE  IsSeq(Queue!FlattenSeq(a))
<1>1. Len(a) \in Nat
  BY SeqShape DEF Parts
<1>2. CASE Len(a) = 0
  BY <1>2 DEF Queue!FlattenSeq, Parts
<1>3. CASE Len(a) # 0
  <2>1. PICK P : Grows(P, a, Len(a)) /\ Queue!FlattenSeq(a) = P[Len(a)]
    BY <1>1, <1>3, FlattenGrows
  <2>2. Len(a) \in 1 .. Len(a)
    BY <1>1, <1>3
  <2>3. IsSeq(P[Len(a)])
    BY <2>1, <2>2, GrowsStep
  <2>4. QED
    BY <2>1, <2>3
<1>4. QED
  BY <1>2, <1>3

LEMMA FlattenOne ==
  ASSUME NEW a, Parts(a), Len(a) = 1
  PROVE  Queue!FlattenSeq(a) = a[1]
<1>1. PICK P : Grows(P, a, Len(a)) /\ Queue!FlattenSeq(a) = P[Len(a)]
  BY FlattenGrows
<1>2. P[1] = a[1]
  BY <1>1 DEF Grows
<1>3. QED
  BY <1>1, <1>2

\* What two sequences of parts join to is one joined to the other.
LEMMA FlattenJoin ==
  ASSUME NEW a, NEW b, Parts(a), Parts(b)
  PROVE  /\ Parts(a \o b)
         /\ Queue!FlattenSeq(a \o b) = Queue!FlattenSeq(a) \o Queue!FlattenSeq(b)
<1> DEFINE c == a \o b
           m == Len(a)
           n == Len(b)
<1>1. /\ IsSeq(c) /\ Len(c) = m + n /\ m \in Nat /\ n \in Nat
      /\ \A i \in 1 .. m : c[i] = a[i]
      /\ \A i \in 1 .. n : c[m + i] = b[i]
  BY SeqJoin DEF Parts
<1>2. (\A i \in 1 .. m : IsSeq(a[i])) /\ (\A i \in 1 .. n : IsSeq(b[i])) /\ IsSeq(a) /\ IsSeq(b)
  BY DEF Parts
<1>3. Parts(c)
  <2>1. ASSUME NEW i \in 1 .. m + n PROVE IsSeq(c[i])
    <3>1. CASE i \in 1 .. m
      BY <1>1, <1>2, <3>1
    <3>2. CASE i \notin 1 .. m
      <4>1. i - m \in 1 .. n /\ m + (i - m) = i
        BY <1>1, <3>2
      <4>2. QED
        BY <1>1, <1>2, <4>1
    <3>3. QED
      BY <3>1, <3>2
  <2>2. QED
    BY <1>1, <2>1 DEF Parts
<1> HIDE DEF c
<1>4. CASE n = 0
  <2>1. b = <<>>
    BY <1>1, <1>2, <1>4, SeqShape
  <2>2. c = a
    BY <1>2, <2>1, JoinEmpty DEF c
  <2>3. Queue!FlattenSeq(b) = <<>>
    BY <1>4, <2>1 DEF Queue!FlattenSeq
  <2>4. QED
    BY <1>3, <2>2, <2>3, FlattenIsSeq, JoinEmpty DEF c
<1>5. CASE n # 0 /\ m = 0
  <2>1. a = <<>>
    BY <1>1, <1>2, <1>5, SeqShape
  <2>2. c = b
    BY <1>2, <2>1, JoinEmpty DEF c
  <2>3. Queue!FlattenSeq(a) = <<>>
    BY <1>5, <2>1 DEF Queue!FlattenSeq
  <2>4. QED
    BY <1>3, <2>2, <2>3, FlattenIsSeq, JoinEmpty DEF c
<1>6. CASE n # 0 /\ m # 0
  <2>0. Len(a) \in Nat /\ Len(a) # 0 /\ Len(b) \in Nat /\ Len(b) # 0 /\ m \in 1 .. Len(a) /\ n \in 1 .. Len(b)
    BY <1>1, <1>6
  <2>1. PICK P : Grows(P, a, m) /\ Queue!FlattenSeq(a) = P[m]
    BY <2>0, FlattenGrows
  <2>2. PICK R : Grows(R, b, n) /\ Queue!FlattenSeq(b) = R[n]
    BY <1>1, <1>6, FlattenGrows
  <2>3. PICK T : Grows(T, c, m + n) /\ Queue!FlattenSeq(c) = T[m + n]
    <3>1. Len(c) \in Nat /\ Len(c) # 0 /\ Len(c) = m + n
      BY <1>1, <1>6
    <3>2. QED
      BY <3>1, FlattenGrows
  <2>4. /\ P[1] = a[1] /\ \A i \in 2 .. m : P[i] = Then(P[i - 1], a[i])
        /\ \A i \in 1 .. m : IsSeq(P[i])
    BY <2>0, <2>1, GrowsStep
  <2>5. /\ R[1] = b[1] /\ \A i \in 2 .. n : R[i] = Then(R[i - 1], b[i])
        /\ \A i \in 1 .. n : IsSeq(R[i])
    BY <2>0, <2>2, GrowsStep
  <2>6. /\ T[1] = c[1] /\ \A i \in 2 .. m + n : T[i] = Then(T[i - 1], c[i])
        /\ \A i \in 1 .. m + n : IsSeq(T[i])
    <3>1. m + n \in 1 .. Len(c)
      BY <1>1, <1>6
    <3>2. QED
      BY <1>3, <2>3, <3>1, GrowsStep
  <2>7. T[m] = P[m]
    <3> DEFINE Q == {i \in 0 .. m : i = 0 \/ T[i] = P[i]}
    <3>1. 0 \in Q
      BY <1>1
    <3>2. ASSUME NEW i \in 1 .. m, i - 1 \in Q PROVE i \in Q
      <4>1. CASE i = 1
        BY <1>1, <2>4, <2>6, <4>1
      <4>2. CASE i # 1
        <5>1. T[i] = Then(T[i - 1], c[i]) /\ P[i] = Then(P[i - 1], a[i]) /\ c[i] = a[i] /\ T[i - 1] = P[i - 1]
          BY <1>1, <2>4, <2>6, <3>2, <4>2
        <5>2. QED
          BY <5>1
      <4>3. QED
        BY <4>1, <4>2
    <3> HIDE DEF Q
    <3>3. m \in Q
      BY <1>1, <3>1, <3>2, OneByOne
    <3>4. QED
      BY <1>6, <3>3 DEF Q
  <2>8. T[m + n] = Then(P[m], R[n])
    <3> DEFINE Q == {i \in 0 .. n : i = 0 \/ T[m + i] = Then(P[m], R[i])}
    <3>1. 0 \in Q
      BY <1>1
    <3>2. ASSUME NEW i \in 1 .. n, i - 1 \in Q PROVE i \in Q
      <4>0. T[m + i] = Then(T[m + i - 1], c[m + i]) /\ c[m + i] = b[i]
        <5>1. m + i \in 2 .. m + n
          BY <1>1, <1>6
        <5>2. QED
          BY <1>1, <2>6, <5>1
      <4>1. CASE i = 1
        BY <1>1, <2>5, <2>7, <4>0, <4>1
      <4>2. CASE i # 1
        <5>1. R[i] = Then(R[i - 1], b[i]) /\ T[m + i - 1] = Then(P[m], R[i - 1])
          <6>1. m + (i - 1) = m + i - 1
            BY <1>1
          <6>2. QED
            BY <2>5, <3>2, <4>2, <6>1
        <5>2. IsSeq(P[m]) /\ IsSeq(R[i - 1]) /\ IsSeq(b[i])
          <6>1. m \in 1 .. m /\ i - 1 \in 1 .. n /\ i \in 1 .. n
            BY <1>1, <1>6, <4>2
          <6>2. QED
            BY <1>2, <2>4, <2>5, <6>1
        <5>3. Then(P[m], Then(R[i - 1], b[i])) = Then(Then(P[m], R[i - 1]), b[i])
          BY <5>2, ThenAssociative
        <5>4. QED
          BY <4>0, <5>1, <5>3
      <4>3. QED
        BY <4>1, <4>2
    <3> HIDE DEF Q
    <3>3. n \in Q
      BY <1>1, <3>1, <3>2, OneByOne
    <3>4. QED
      BY <1>6, <3>3 DEF Q
  <2>9. QED
    BY <1>1, <1>3, <2>1, <2>2, <2>3, <2>8 DEF c, Then
<1>7. QED
  BY <1>1, <1>4, <1>5, <1>6

\* A table over a whole made of two is the table over one and that over the other.
Table(f, n) == f = [i \in 1 .. n |-> f[i]]
LEMMA TablesJoin ==
  ASSUME NEW a, NEW b, IsSeq(a), IsSeq(b), NEW f, NEW g, NEW h,
         Table(f, Len(a)), Table(g, Len(b)), Table(h, Len(a) + Len(b)),
         \A i \in 1 .. Len(a) : h[i] = f[i],
         \A i \in 1 .. Len(b) : h[Len(a) + i] = g[i]
  PROVE  h = f \o g
<1>1. Len(a) \in Nat /\ Len(b) \in Nat
  BY SeqShape
<1>2. IsSeq(f) /\ Len(f) = Len(a)
  BY <1>1, SeqMade DEF Table
<1>3. IsSeq(g) /\ Len(g) = Len(b)
  BY <1>1, SeqMade DEF Table
<1>4. Len(a) + Len(b) \in Nat
  BY <1>1
<1>5. IsSeq(h) /\ Len(h) = Len(a) + Len(b)
  BY <1>4, SeqMade DEF Table
<1>6. /\ IsSeq(f \o g) /\ Len(f \o g) = Len(a) + Len(b)
      /\ \A i \in 1 .. Len(a) : (f \o g)[i] = f[i]
      /\ \A i \in 1 .. Len(b) : (f \o g)[Len(a) + i] = g[i]
  <2>1. /\ IsSeq(f \o g) /\ Len(f \o g) = Len(f) + Len(g)
        /\ \A i \in 1 .. Len(f) : (f \o g)[i] = f[i]
        /\ \A i \in 1 .. Len(g) : (f \o g)[Len(f) + i] = g[i]
    BY ONLY <1>2, <1>3, SeqJoin
  <2>2. QED
    BY <1>2, <1>3, <2>1
<1>7. ASSUME NEW i \in 1 .. Len(h) PROVE h[i] = (f \o g)[i]
  <2>1. CASE i \in 1 .. Len(a)
    BY <1>6, <2>1
  <2>2. CASE i \notin 1 .. Len(a)
    <3>1. i - Len(a) \in 1 .. Len(b) /\ Len(a) + (i - Len(a)) = i
      BY <1>1, <1>5, <2>2
    <3>2. h[Len(a) + (i - Len(a))] = g[i - Len(a)] /\ (f \o g)[Len(a) + (i - Len(a))] = g[i - Len(a)]
      BY <1>6, <3>1
    <3>3. QED
      BY <3>1, <3>2
  <2>3. QED
    BY <2>1, <2>2
<1>8. QED
  BY <1>5, <1>6, <1>7, SameSeq

LEMMA OneIsSeq == ASSUME NEW x PROVE IsSeq(<<x>>) /\ Len(<<x>>) = 1 /\ <<x>>[1] = x
<1>1. <<x>> \in Seq({x})
  OBVIOUS
<1>2. QED
  BY <1>1 DEF IsSeq

EntryOk(e) == e.op = "transaction" => IsSeq(e.ops)
IsHistory(h) == IsSeq(h) /\ \A i \in 1 .. Len(h) : EntryOk(h[i])
OpensTo(e) == IF e.op = "transaction" THEN e.ops ELSE <<e>>
ChangeIn(e) == IF e.op = "schema" THEN <<e.change>> ELSE <<>>
RowOpIn(e) == IF e.op \in {"put", "delete", "crdt"} THEN <<e>> ELSE <<>>

LEMMA HistoryJoin ==
  ASSUME NEW a, NEW b, IsHistory(a), IsHistory(b)
  PROVE  IsHistory(a \o b)
<1>1. /\ IsSeq(a \o b) /\ Len(a \o b) = Len(a) + Len(b) /\ Len(a) \in Nat /\ Len(b) \in Nat
      /\ \A i \in 1 .. Len(a) : (a \o b)[i] = a[i]
      /\ \A i \in 1 .. Len(b) : (a \o b)[Len(a) + i] = b[i]
  BY SeqJoin DEF IsHistory
<1>2. ASSUME NEW i \in 1 .. Len(a) + Len(b) PROVE EntryOk((a \o b)[i])
  <2>1. CASE i \in 1 .. Len(a)
    BY <1>1, <2>1 DEF IsHistory
  <2>2. CASE i \notin 1 .. Len(a)
    <3>1. i - Len(a) \in 1 .. Len(b) /\ Len(a) + (i - Len(a)) = i
      BY <1>1, <2>2
    <3>2. QED
      BY <1>1, <3>1 DEF IsHistory
  <2>3. QED
    BY <2>1, <2>2
<1>3. QED
  BY <1>1, <1>2 DEF IsHistory

LEMMA FlattenIsHistory ==
  ASSUME NEW a, Parts(a), \A i \in 1 .. Len(a) : IsHistory(a[i])
  PROVE  IsHistory(Queue!FlattenSeq(a))
<1>1. Len(a) \in Nat
  BY SeqShape DEF Parts
<1>2. CASE Len(a) = 0
  <2>1. a = <<>>
    BY <1>2, SeqShape DEF Parts
  <2>2. QED
    <3>1. Queue!FlattenSeq(a) = <<>> /\ Len(<<>>) = 0 /\ IsSeq(<<>>)
      BY <1>2, <2>1, SeqMade DEF Queue!FlattenSeq, Parts
    <3>2. QED
      BY <3>1 DEF IsHistory
<1>3. CASE Len(a) # 0
  <2>1. PICK P : Grows(P, a, Len(a)) /\ Queue!FlattenSeq(a) = P[Len(a)]
    BY <1>1, <1>3, FlattenGrows
  <2>2. Len(a) \in 1 .. Len(a)
    BY <1>1, <1>3
  <2>3. P[1] = a[1] /\ \A i \in 2 .. Len(a) : P[i] = Then(P[i - 1], a[i])
    BY <2>1, <2>2, GrowsStep
  <2> DEFINE Q == {i \in 0 .. Len(a) : i = 0 \/ IsHistory(P[i])}
  <2>4. 0 \in Q
    BY <1>1
  <2>5. ASSUME NEW i \in 1 .. Len(a), i - 1 \in Q PROVE i \in Q
    <3>1. CASE i = 1
      BY <1>1, <2>3, <3>1
    <3>2. CASE i # 1
      <4>1. P[i] = P[i - 1] \o a[i] /\ IsHistory(P[i - 1]) /\ IsHistory(a[i]) /\ i \in 0 .. Len(a)
        <5>1. i \in 2 .. Len(a) /\ i \in 0 .. Len(a)
          BY <1>1, <3>2
        <5>2. P[i] = P[i - 1] \o a[i]
          BY <2>3, <5>1 DEF Then
        <5>3. IsHistory(P[i - 1]) /\ IsHistory(a[i])
          BY <2>5, <3>2
        <5>4. QED
          BY <5>1, <5>2, <5>3
      <4>2. QED
        BY <4>1, HistoryJoin
    <3>3. QED
      BY <3>1, <3>2
  <2> HIDE DEF Q
  <2>6. Len(a) \in Q
    BY <1>1, <2>4, <2>5, OneByOne
  <2>7. QED
    BY <1>3, <2>1, <2>6 DEF Q
<1>4. QED
  BY <1>2, <1>3

LEMMA FlatJoin ==
  ASSUME NEW a, NEW b, IsHistory(a), IsHistory(b)
  PROVE  /\ Queue!Flat(a \o b) = Queue!Flat(a) \o Queue!Flat(b)
         /\ IsSeq(Queue!Flat(a)) /\ IsSeq(Queue!Flat(b))
<1> DEFINE Opens(h) == [i \in 1 .. Len(h) |-> OpensTo(h[i])]
<1>1. ASSUME NEW h, IsHistory(h)
      PROVE  Queue!Flat(h) = Queue!FlattenSeq(Opens(h)) /\ Parts(Opens(h)) /\ Len(Opens(h)) = Len(h)
  <2>1. DOMAIN h = 1 .. Len(h) /\ Len(h) \in Nat /\ \A i \in 1 .. Len(h) : EntryOk(h[i])
    BY <1>1, SeqShape DEF IsHistory
  <2>2. IsSeq(Opens(h)) /\ Len(Opens(h)) = Len(h)
    BY <2>1, SeqMade
  <2>3. \A i \in 1 .. Len(h) : Opens(h)[i] = OpensTo(h[i])
    OBVIOUS
  <2>4. \A i \in 1 .. Len(h) : IsSeq(OpensTo(h[i]))
    BY <2>1, OneIsSeq DEF EntryOk, OpensTo
  <2>5. Opens(h) = [i \in DOMAIN h |-> IF h[i].op = "transaction" THEN h[i].ops ELSE <<h[i]>>]
    BY <2>1 DEF OpensTo
  <2>6. QED
    BY <2>2, <2>3, <2>4, <2>5 DEF Parts, Queue!Flat
<1>2. IsSeq(a) /\ IsSeq(b)
  BY DEF IsHistory
<1>3. /\ Len(a \o b) = Len(a) + Len(b) /\ Len(a) \in Nat /\ Len(b) \in Nat
      /\ \A i \in 1 .. Len(a) : (a \o b)[i] = a[i]
      /\ \A i \in 1 .. Len(b) : (a \o b)[Len(a) + i] = b[i]
  BY <1>2, SeqJoin
<1>4. Opens(a \o b) = Opens(a) \o Opens(b)
  <2> DEFINE f == Opens(a)
             g == Opens(b)
             h == Opens(a \o b)
  <2>1. Table(f, Len(a)) /\ Table(g, Len(b))
    BY DEF Table
  <2>2. Table(h, Len(a) + Len(b))
    BY <1>3 DEF Table
  <2>3. \A i \in 1 .. Len(a) : h[i] = f[i]
    BY <1>3
  <2>4. \A i \in 1 .. Len(b) : h[Len(a) + i] = g[i]
    BY <1>3
  <2> HIDE DEF f, g, h
  <2>5. h = f \o g
    BY ONLY <1>2, <2>1, <2>2, <2>3, <2>4, TablesJoin
  <2>6. QED
    BY <2>5 DEF f, g, h
<1> HIDE DEF Opens
<1>5. IsHistory(a \o b)
  BY HistoryJoin
<1>6. Parts(Opens(a)) /\ Parts(Opens(b)) /\ Queue!Flat(a) = Queue!FlattenSeq(Opens(a))
      /\ Queue!Flat(b) = Queue!FlattenSeq(Opens(b)) /\ Queue!Flat(a \o b) = Queue!FlattenSeq(Opens(a \o b))
  BY <1>1, <1>5
<1>7. Queue!FlattenSeq(Opens(a) \o Opens(b)) = Queue!FlattenSeq(Opens(a)) \o Queue!FlattenSeq(Opens(b))
  BY ONLY <1>6, FlattenJoin
<1>8. IsSeq(Queue!FlattenSeq(Opens(a))) /\ IsSeq(Queue!FlattenSeq(Opens(b)))
  BY ONLY <1>6, FlattenIsSeq
<1>9. QED
  BY <1>4, <1>6, <1>7, <1>8

\* What is read of a history, its changes or its row operations, joins with it.
ReadIn(what, e) == IF what = "schema" THEN ChangeIn(e) ELSE RowOpIn(e)
ReadsIn(what, s) == [i \in 1 .. Len(s) |-> ReadIn(what, s[i])]
Reading(what, h) == Queue!FlattenSeq(ReadsIn(what, Queue!Flat(h)))

LEMMA ReadInIsSeq == ASSUME NEW what, NEW e PROVE IsSeq(ReadIn(what, e))
BY OneIsSeq, JoinEmpty DEF ReadIn, ChangeIn, RowOpIn

LEMMA ReadsInParts ==
  ASSUME NEW what, NEW s, IsSeq(s)
  PROVE  Parts(ReadsIn(what, s)) /\ Len(ReadsIn(what, s)) = Len(s) /\ Table(ReadsIn(what, s), Len(s))
<1>1. Len(s) \in Nat
  BY SeqShape
<1>2. Table(ReadsIn(what, s), Len(s)) /\ \A i \in 1 .. Len(s) : ReadsIn(what, s)[i] = ReadIn(what, s[i])
  BY DEF ReadsIn, Table
<1>3. IsSeq(ReadsIn(what, s)) /\ Len(ReadsIn(what, s)) = Len(s)
  BY <1>1, <1>2, SeqMade DEF Table
<1>4. QED
  BY <1>2, <1>3, ReadInIsSeq DEF Parts

LEMMA ReadingJoin ==
  ASSUME NEW what, NEW a, NEW b, IsHistory(a), IsHistory(b)
  PROVE  /\ Reading(what, a \o b) = Reading(what, a) \o Reading(what, b)
         /\ IsSeq(Reading(what, a)) /\ IsSeq(Reading(what, b))
<1> DEFINE p == Queue!Flat(a)
           q == Queue!Flat(b)
           f == ReadsIn(what, p)
           g == ReadsIn(what, q)
           h == ReadsIn(what, p \o q)
<1>1. Queue!Flat(a \o b) = p \o q /\ IsSeq(p) /\ IsSeq(q)
  BY FlatJoin
<1> HIDE DEF p, q
<1>2. /\ IsSeq(p \o q) /\ Len(p \o q) = Len(p) + Len(q)
      /\ \A i \in 1 .. Len(p) : (p \o q)[i] = p[i]
      /\ \A i \in 1 .. Len(q) : (p \o q)[Len(p) + i] = q[i]
      /\ Len(p) \in Nat /\ Len(q) \in Nat
  BY <1>1, SeqJoin
<1>3. \A i \in 1 .. Len(p) : h[i] = f[i]
  BY <1>2 DEF ReadsIn
<1>4. \A i \in 1 .. Len(q) : h[Len(p) + i] = g[i]
  BY <1>2 DEF ReadsIn
<1>5. Parts(f) /\ Parts(g) /\ Table(f, Len(p)) /\ Table(g, Len(q)) /\ Table(h, Len(p) + Len(q))
  <2>1. Table(h, Len(p \o q))
    BY <1>2, ReadsInParts
  <2>2. QED
    BY <1>1, <1>2, <2>1, ReadsInParts
<1> HIDE DEF f, g, h
<1>6. h = f \o g
  BY ONLY <1>1, <1>3, <1>4, <1>5, TablesJoin
<1>7. Queue!FlattenSeq(f \o g) = Queue!FlattenSeq(f) \o Queue!FlattenSeq(g)
  BY ONLY <1>5, FlattenJoin
<1>8. IsSeq(Queue!FlattenSeq(f)) /\ IsSeq(Queue!FlattenSeq(g))
  BY ONLY <1>5, FlattenIsSeq
<1>9. QED
  BY <1>1, <1>6, <1>7, <1>8 DEF Reading, f, g, h, p, q

LEMMA ReadingIs ==
  ASSUME NEW h, IsHistory(h)
  PROVE  Queue!SchemaChanges(h) = Reading("schema", h) /\ Queue!KeyOps(h) = Reading("row", h)
<1>1. IsSeq(Queue!Flat(h))
  BY FlatJoin
<1>2. DOMAIN Queue!Flat(h) = 1 .. Len(Queue!Flat(h))
  BY <1>1, SeqShape
<1>3. Queue!SchemaChanges(h) = Reading("schema", h)
  BY <1>2 DEF Queue!SchemaChanges, Queue!Those, Reading, ReadsIn, ReadIn, ChangeIn
<1>4. Queue!KeyOps(h) = Reading("row", h)
  BY <1>2 DEF Queue!KeyOps, Queue!Those, Reading, ReadsIn, ReadIn, RowOpIn
<1>5. QED
  BY <1>3, <1>4

\* The same is read of a history whether or not a merge's own entry is in it.
LEMMA BookkeepingUnread ==
  ASSUME NEW a, NEW b, IsHistory(a), IsHistory(b)
  PROVE  /\ IsHistory(a \o b) /\ IsHistory((a \o <<Queue!Bookkeeping>>) \o b)
         /\ Queue!SchemaChanges((a \o <<Queue!Bookkeeping>>) \o b) = Queue!SchemaChanges(a \o b)
         /\ Queue!KeyOps((a \o <<Queue!Bookkeeping>>) \o b) = Queue!KeyOps(a \o b)
<1> DEFINE m == <<Queue!Bookkeeping>>
<1>1. IsSeq(m) /\ Len(m) = 1 /\ m[1] = Queue!Bookkeeping
  BY OneIsSeq
<1>2. Queue!Bookkeeping.op = "bookkeeping"
  BY DEF Queue!Bookkeeping
<1>3. IsHistory(m)
  BY <1>1, <1>2 DEF IsHistory, EntryOk
<1>4. Queue!Flat(m) = m
  <2> DEFINE o == [i \in DOMAIN m |-> IF m[i].op = "transaction" THEN m[i].ops ELSE <<m[i]>>]
  <2>1. o = [i \in 1 .. 1 |-> m]
    BY <1>1, <1>2, SeqShape
  <2>2. Queue!Flat(m) = Queue!FlattenSeq(o)
    BY DEF Queue!Flat
  <2> HIDE DEF o, m
  <2>3. o = [i \in 1 .. 1 |-> o[i]] /\ o[1] = m
    BY <2>1
  <2>4. IsSeq(o) /\ Len(o) = 1
    BY <2>3, SeqMade
  <2>5. Parts(o)
    BY <1>1, <2>3, <2>4 DEF Parts
  <2>6. QED
    BY <2>2, <2>3, <2>4, <2>5, FlattenOne
<1>5. ASSUME NEW what PROVE Reading(what, m) = <<>>
  <2> DEFINE r == ReadsIn(what, m)
  <2>1. Parts(r) /\ Len(r) = 1
    BY <1>1, ReadsInParts
  <2>2. r[1] = <<>>
    BY <1>1, <1>2 DEF ReadsIn, ReadIn, ChangeIn, RowOpIn
  <2> HIDE DEF r
  <2>3. QED
    BY <1>4, <2>1, <2>2, FlattenOne DEF Reading, r
<1> HIDE DEF m
<1>6. IsHistory(a \o m) /\ IsHistory(a \o b) /\ IsHistory((a \o m) \o b)
  BY <1>3, HistoryJoin
<1>7. ASSUME NEW what PROVE Reading(what, (a \o m) \o b) = Reading(what, a \o b)
  <2>1. Reading(what, a \o m) = Reading(what, a) \o <<>> /\ IsSeq(Reading(what, a))
    <3>1. Reading(what, a \o m) = Reading(what, a) \o Reading(what, m) /\ IsSeq(Reading(what, a))
      BY <1>3, ReadingJoin
    <3>2. Reading(what, m) = <<>>
      BY <1>5
    <3>3. QED
      BY <3>1, <3>2
  <2>2. Reading(what, a \o m) = Reading(what, a)
    BY <2>1, JoinEmpty
  <2>3. Reading(what, (a \o m) \o b) = Reading(what, a \o m) \o Reading(what, b)
    BY <1>6, ReadingJoin
  <2>4. Reading(what, a \o b) = Reading(what, a) \o Reading(what, b)
    BY ReadingJoin
  <2>5. QED
    BY <2>2, <2>3, <2>4
<1>8. QED
  BY <1>6, <1>7, ReadingIs DEF m

-----------------------------------------------------------------------------
(* Merges: what one decides, and on what                                    *)

\* A merge depends on the target only through what is read of its history.
LEMMA MergeReads ==
  ASSUME NEW source1, NEW base1, NEW head1, NEW head2, NEW theirs, NEW ours1, NEW ours2, NEW states, NEW svs,
         Queue!SchemaChanges(ours1) = Queue!SchemaChanges(ours2),
         Queue!KeyOps(ours1) = Queue!KeyOps(ours2),
         source1 = Queue!None \/ (head1 # source1 /\ head2 # source1)
  PROVE  Queue!MergeBranches(source1, base1, head1, theirs, ours1, states, svs)
           = Queue!MergeBranches(source1, base1, head2, theirs, ours2, states, svs)
<1>1. Queue!Touched(ours1) = Queue!Touched(ours2)
  BY DEF Queue!Touched
<1>2. ASSUME NEW k PROVE Queue!Effect(ours1, k) = Queue!Effect(ours2, k)
  BY DEF Queue!Effect
<1>3. ASSUME NEW k PROVE Queue!KeyConflict(ours1, theirs, states, svs, k) <=> Queue!KeyConflict(ours2, theirs, states, svs, k)
  <2>1. Queue!Effect(ours1, k) = Queue!Effect(ours2, k)
    BY <1>2
  <2>2. QED
    BY <1>1, <2>1 DEF Queue!KeyConflict
<1>4. Queue!KeyConflicts(ours1, theirs, states, svs) = Queue!KeyConflicts(ours2, theirs, states, svs)
  BY <1>1, <1>3 DEF Queue!KeyConflicts
<1>5. Queue!Conflicts(ours1, theirs, states, svs) = Queue!Conflicts(ours2, theirs, states, svs)
  BY <1>4 DEF Queue!Conflicts
<1>6. Queue!NewOps(ours1, theirs) = Queue!NewOps(ours2, theirs)
  BY <1>1 DEF Queue!NewOps
<1>7. Queue!Converged(ours1, theirs, states, svs) = Queue!Converged(ours2, theirs, states, svs)
  BY <1>1, <1>2 DEF Queue!Converged
<1>8. Queue!MergedStates(ours1, theirs, states, svs) = Queue!MergedStates(ours2, theirs, states, svs)
  BY <1>1, <1>7 DEF Queue!MergedStates
<1>9. (\/ source1 \in {Queue!None, base1} \/ head1 = source1 \/ \A i \in DOMAIN theirs : ~Queue!Contributes(theirs[i]))
        <=> (\/ source1 \in {Queue!None, base1} \/ head2 = source1 \/ \A i \in DOMAIN theirs : ~Queue!Contributes(theirs[i]))
  OBVIOUS
<1>10. QED
  BY <1>5, <1>6, <1>8, <1>9, Zenon DEF Queue!MergeBranches

LEMMA SameCounting == ASSUME NEW S PROVE Queue!Cardinality(S) = Cardinality(S)
BY Zenon DEF Queue!Cardinality, Cardinality

LEMMA ListIsSeq ==
  ASSUME NEW S, IsFiniteSet(S)
  PROVE  IsSeq(Queue!SetToSeq(S))
<1> DEFINE n == Cardinality(S)
           Lists == {f \in [1 .. n -> S] : Queue!IsInjective(f)}
<1>1. n \in Nat /\ ExistsBijection(1 .. n, S)
  BY FS_CardinalityType
<1>2. PICK f : f \in Bijection(1 .. n, S)
  BY <1>1 DEF ExistsBijection
<1>3. f \in [1 .. n -> S] /\ \A i, j \in 1 .. n : f[i] = f[j] => i = j
  BY <1>2 DEF Bijection, Injection, IsInjective
<1>4. f \in Lists
  BY <1>3 DEF Queue!IsInjective
<1>5. Queue!SetToSeq(S) = CHOOSE g \in [1 .. n -> S] : Queue!IsInjective(g)
  BY SameCounting DEF Queue!SetToSeq
<1>6. Queue!SetToSeq(S) \in [1 .. n -> S]
  BY <1>4, <1>5
<1> HIDE DEF n
<1>7. Queue!SetToSeq(S) \in Seq(S)
  BY <1>1, <1>6
<1>8. QED
  BY <1>7 DEF IsSeq

LEMMA ValuesFinite ==
  ASSUME NEW S, IsFiniteSet(S), NEW f, f = [x \in S |-> f[x]]
  PROVE  IsFiniteSet({f[x] : x \in S})
<1> DEFINE T == {f[x] : x \in S}
<1>1. f \in [S -> T] /\ \A t \in T : \E x \in S : f[x] = t
  OBVIOUS
<1>2. f \in Surjection(S, T)
  BY <1>1 DEF Surjection
<1>3. QED
  BY <1>2, FS_Surjection

LEMMA TouchedFinite ==
  ASSUME NEW h, IsHistory(h)
  PROVE  IsFiniteSet(Queue!Touched(h))
<1>1. IsSeq(Queue!KeyOps(h))
  <2>1. Queue!KeyOps(h) = Reading("row", h)
    BY ReadingIs
  <2>2. IsSeq(Reading("row", h))
    BY ReadingJoin
  <2>3. QED
    BY <2>1, <2>2
<1> DEFINE n == Len(Queue!KeyOps(h))
           f == [i \in 1 .. n |-> Queue!KeyOps(h)[i].key]
<1>2. DOMAIN Queue!KeyOps(h) = 1 .. n /\ n \in Nat
  BY <1>1, SeqShape
<1>3. Queue!Touched(h) = {f[i] : i \in 1 .. n}
  BY <1>2 DEF Queue!Touched
<1>4. IsFiniteSet(1 .. n)
  BY <1>2, FS_Interval
<1>7. f = [i \in 1 .. n |-> f[i]]
  OBVIOUS
<1> HIDE DEF n, f
<1>5. IsFiniteSet({f[i] : i \in 1 .. n})
  BY <1>4, <1>7, ValuesFinite
<1>6. QED
  BY <1>3, <1>5

OutcomeOk(o) == o.status = "merged" => IsSeq(o.schema) /\ IsSeq(o.ops)

LEMMA NewSchemaIsSeq ==
  ASSUME NEW ours, NEW theirs, IsSeq(theirs)
  PROVE  IsSeq(Queue!NewSchema(ours, theirs))
<1> DEFINE Taken(c) == IF \A o \in Queue!Range(ours) : Queue!Declaration(o) # Queue!Declaration(c)
                       THEN <<c>> ELSE <<>>
           parts == [i \in 1 .. Len(theirs) |-> Taken(theirs[i])]
<1>1. Len(theirs) \in Nat /\ DOMAIN theirs = 1 .. Len(theirs)
  BY SeqShape
<1>2. Queue!NewSchema(ours, theirs) = Queue!FlattenSeq(parts)
  BY <1>1 DEF Queue!NewSchema, Queue!Those
<1>3. \A i \in 1 .. Len(theirs) : IsSeq(Taken(theirs[i]))
  BY OneIsSeq, JoinEmpty
<1>4. parts = [i \in 1 .. Len(theirs) |-> parts[i]] /\ \A i \in 1 .. Len(theirs) : parts[i] = Taken(theirs[i])
  OBVIOUS
<1> HIDE DEF parts, Taken
<1>5. IsSeq(parts) /\ Len(parts) = Len(theirs)
  BY <1>1, <1>4, SeqMade
<1>6. Parts(parts)
  BY <1>3, <1>4, <1>5 DEF Parts
<1>7. QED
  BY <1>2, <1>6, FlattenIsSeq

LEMMA NewOpsIsSeq ==
  ASSUME NEW ours, NEW theirs, IsHistory(theirs)
  PROVE  IsSeq(Queue!NewOps(ours, theirs))
<1> DEFINE keyset == {k \in Queue!Touched(theirs) \ Queue!Touched(ours) : ~Queue!Effect(theirs, k).crdt}
           f == [k \in keyset |-> Queue!ReplayOf(k, Queue!Effect(theirs, k))]
<1>1. IsFiniteSet(keyset)
  <2>1. keyset \subseteq Queue!Touched(theirs)
    OBVIOUS
  <2>2. QED
    BY <2>1, TouchedFinite, FS_Subset
<1>2. {Queue!ReplayOf(k, Queue!Effect(theirs, k)) : k \in keyset} = {f[k] : k \in keyset}
  OBVIOUS
<1>3. Queue!NewOps(ours, theirs) = Queue!SetToSeq({f[k] : k \in keyset})
  BY <1>2 DEF Queue!NewOps
<1>6. f = [k \in keyset |-> f[k]]
  OBVIOUS
<1> HIDE DEF keyset, f
<1>4. IsFiniteSet({f[k] : k \in keyset})
  BY <1>1, <1>6, ValuesFinite
<1>5. QED
  BY <1>3, <1>4, ListIsSeq

LEMMA MergeIsOk ==
  ASSUME NEW s, NEW b, NEW t, NEW theirs, NEW ours, NEW states, NEW svs, IsHistory(theirs)
  PROVE  OutcomeOk(Queue!MergeBranches(s, b, t, theirs, ours, states, svs))
<1> DEFINE o == Queue!MergeBranches(s, b, t, theirs, ours, states, svs)
           schema == Queue!NewSchema(Queue!SchemaChanges(ours), Queue!SchemaChanges(theirs))
           ops == Queue!NewOps(ours, theirs)
<1>1. IsSeq(schema) /\ IsSeq(ops)
  <2>1. Queue!SchemaChanges(theirs) = Reading("schema", theirs)
    BY ReadingIs
  <2>2. IsSeq(Reading("schema", theirs))
    BY ReadingJoin
  <2>3. IsSeq(Queue!SchemaChanges(theirs))
    BY <2>1, <2>2
  <2>4. QED
    BY <2>3, NewSchemaIsSeq, NewOpsIsSeq
<1>2. o.status = "merged" => o.schema = schema /\ o.ops = ops
  BY DEF Queue!MergeBranches, Queue!UpToDate
<1>3. QED
  BY <1>1, <1>2 DEF OutcomeOk

LEMMA LandedIsHistory ==
  ASSUME NEW o, IsSeq(o.schema), IsSeq(o.ops)
  PROVE  IsHistory(Queue!Landed(o))
<1> DEFINE f == [i \in 1 .. Len(o.schema) |-> Queue!SchemaOp(o.schema[i])]
           t == IF o.ops = <<>> THEN <<>> ELSE <<Queue!Transaction(o.ops)>>
<1>1. Len(o.schema) \in Nat /\ DOMAIN o.schema = 1 .. Len(o.schema)
  BY SeqShape
<1>2. Queue!Landed(o) = f \o t
  BY <1>1 DEF Queue!Landed
<1>3. f = [i \in 1 .. Len(o.schema) |-> f[i]]
      /\ \A i \in 1 .. Len(o.schema) : f[i].op = "schema"
  BY DEF Queue!SchemaOp
<1>4. IsHistory(t)
  <2>1. Queue!Transaction(o.ops).ops = o.ops
    BY DEF Queue!Transaction
  <2>2. IsHistory(<<Queue!Transaction(o.ops)>>)
    BY <2>1, OneIsSeq DEF IsHistory, EntryOk
  <2>3. IsHistory(<<>>)
    BY JoinEmpty, OneIsSeq DEF IsHistory
  <2>4. QED
    BY <2>2, <2>3
<1> HIDE DEF f, t
<1>5. IsSeq(f) /\ Len(f) = Len(o.schema)
  BY <1>1, <1>3, SeqMade
<1>6. IsHistory(f)
  BY <1>3, <1>5 DEF IsHistory, EntryOk
<1>7. QED
  BY <1>2, <1>4, <1>6, HistoryJoin

-----------------------------------------------------------------------------
(* What a merge behind others in the queue comes to                         *)

SpecOf(tv, q) ==
  [k \in DOMAIN tv \cup UNION {DOMAIN q[i].outcome.crdt : i \in DOMAIN q} |->
     IF Queue!Setters(q, k) = {} THEN tv[k] ELSE q[Queue!LastSetter(q, k)].outcome.crdt[k]]

\* The merge of s behind q, on a target and a source that are given: their
\* histories, the place of the fork, whether s is live, and both views.
BaseOf(f, alive) == IF alive THEN Queue!Some(f) ELSE Queue!None
TheirsOf(tg, src, base, f) == IF base = Queue!None THEN SubSeq(tg, 1, f) \o src ELSE src
Decide(s, q, tg, tv, src, f, alive, sv) ==
  Queue!MergeBranches(Queue!HashAt(s, Len(src)), Queue!ForkHash(BaseOf(f, alive)), Queue!HashAt("target", Len(tg)),
                      TheirsOf(tg, src, BaseOf(f, alive), f),
                      Queue!Since(tg, BaseOf(f, alive)) \o Queue!Pending(q),
                      SpecOf(tv, q), IF alive THEN sv ELSE <<>>)
Answer(s, q) == Decide(s, q, target, tview, source[s], fork[s], s \in live, sview[s])

LEMMA AnswerIs ==
  ASSUME NEW s, NEW q
  PROVE  Queue!Try(s, Queue!Base(s), Queue!Pending(q), Queue!Speculative(q)) = Answer(s, q)
<1>1. Queue!Speculative(q) = SpecOf(tview, q)
  BY DEF Queue!Speculative, SpecOf
<1>2. Queue!Base(s) = BaseOf(fork[s], s \in live)
  BY DEF Queue!Base, BaseOf
<1>3. Queue!Theirs(s, Queue!Base(s)) = TheirsOf(target, source[s], BaseOf(fork[s], s \in live), fork[s])
  BY <1>2 DEF Queue!Theirs, Queue!Inherited, TheirsOf
<1>4. Queue!ViewOf(s) = IF s \in live THEN sview[s] ELSE <<>>
  BY DEF Queue!ViewOf, Queue!Empty
<1>5. Queue!HeadOf(s) = Queue!HashAt(s, Len(source[s])) /\ Queue!TargetHead = Queue!HashAt("target", Len(target))
  BY DEF Queue!HeadOf, Queue!TargetHead
<1>6. QED
  BY <1>1, <1>2, <1>3, <1>4, <1>5 DEF Queue!Try, Answer, Decide

IsTable(v) == v = [k \in DOMAIN v |-> v[k]]
ItemOk(x) == x.outcome.status = "merged" /\ OutcomeOk(x.outcome)
Items(q) == IsSeq(q) /\ \A i \in 1 .. Len(q) : ItemOk(q[i])

LEMMA NothingAhead ==
  ASSUME NEW tv, IsTable(tv)
  PROVE  SpecOf(tv, <<>>) = tv /\ Queue!Pending(<<>>) = <<>>
<1>1. DOMAIN <<>> = {}
  OBVIOUS
<1>2. \A k : Queue!Setters(<<>>, k) = {}
  BY <1>1 DEF Queue!Setters
<1>3. UNION {DOMAIN <<>>[i].outcome.crdt : i \in DOMAIN <<>>} = {}
  BY <1>1
<1>4. SpecOf(tv, <<>>) = [k \in DOMAIN tv |-> tv[k]]
  BY <1>2, <1>3 DEF SpecOf
<1>5. Queue!Pending(<<>>) = Queue!FlattenSeq([i \in DOMAIN <<>> |-> Queue!Landed(<<>>[i].outcome)])
  BY DEF Queue!Pending
<1> DEFINE f == [i \in DOMAIN <<>> |-> Queue!Landed(<<>>[i].outcome)]
<1>6. f = <<>>
  BY <1>1
<1>7. Queue!FlattenSeq(<<>>) = <<>>
  BY DEF Queue!FlattenSeq
<1>8. QED
  BY <1>4, <1>5, <1>6, <1>7 DEF IsTable

LEMMA PendingJoin ==
  ASSUME NEW x, ItemOk(x), NEW q, Items(q)
  PROVE  /\ Queue!Pending(<<x>> \o q) = Queue!Landed(x.outcome) \o Queue!Pending(q)
         /\ IsHistory(Queue!Landed(x.outcome)) /\ IsHistory(Queue!Pending(q))
<1> DEFINE Lands(r) == [i \in 1 .. Len(r) |-> Queue!Landed(r[i].outcome)]
<1>1. ASSUME NEW r, Items(r)
      PROVE  /\ Queue!Pending(r) = Queue!FlattenSeq(Lands(r)) /\ Parts(Lands(r)) /\ Len(Lands(r)) = Len(r)
             /\ Table(Lands(r), Len(r)) /\ \A i \in 1 .. Len(r) : IsHistory(Lands(r)[i])
  <2>1. Len(r) \in Nat /\ DOMAIN r = 1 .. Len(r) /\ \A i \in 1 .. Len(r) : ItemOk(r[i])
    BY <1>1, SeqShape DEF Items
  <2>2. Queue!Pending(r) = Queue!FlattenSeq(Lands(r))
    BY <2>1 DEF Queue!Pending
  <2>3. \A i \in 1 .. Len(r) : IsHistory(Queue!Landed(r[i].outcome))
    BY <2>1, LandedIsHistory DEF ItemOk, OutcomeOk
  <2>4. \A i \in 1 .. Len(r) : Lands(r)[i] = Queue!Landed(r[i].outcome)
    OBVIOUS
  <2>5. Lands(r) = [i \in 1 .. Len(r) |-> Lands(r)[i]]
    OBVIOUS
  <2> HIDE DEF Lands
  <2>6. IsSeq(Lands(r)) /\ Len(Lands(r)) = Len(r)
    BY <2>1, <2>5, SeqMade
  <2>7. Parts(Lands(r))
    BY <2>3, <2>4, <2>6 DEF Parts, IsHistory
  <2>8. QED
    BY <2>2, <2>3, <2>4, <2>5, <2>6, <2>7 DEF Table
<1>2. IsSeq(<<x>>) /\ Len(<<x>>) = 1 /\ <<x>>[1] = x
  BY OneIsSeq
<1>3. Items(<<x>>) /\ IsSeq(q)
  BY <1>2 DEF Items
<1>4. /\ IsSeq(<<x>> \o q) /\ Len(<<x>> \o q) = 1 + Len(q) /\ Len(q) \in Nat
      /\ (<<x>> \o q)[1] = x /\ \A i \in 1 .. Len(q) : (<<x>> \o q)[1 + i] = q[i]
  <2>1. /\ IsSeq(<<x>> \o q) /\ Len(<<x>> \o q) = Len(<<x>>) + Len(q) /\ Len(q) \in Nat
        /\ \A i \in 1 .. Len(<<x>>) : (<<x>> \o q)[i] = <<x>>[i]
        /\ \A i \in 1 .. Len(q) : (<<x>> \o q)[Len(<<x>>) + i] = q[i]
    BY ONLY <1>2, <1>3, SeqJoin
  <2>2. QED
    BY <1>2, <2>1
<1>5. Items(<<x>> \o q)
  <2>1. ASSUME NEW i \in 1 .. 1 + Len(q) PROVE ItemOk((<<x>> \o q)[i])
    <3>1. CASE i = 1
      BY <1>4, <3>1
    <3>2. CASE i # 1
      <4>1. i - 1 \in 1 .. Len(q) /\ 1 + (i - 1) = i
        BY <1>4, <3>2
      <4>2. QED
        BY <1>4, <4>1 DEF Items
    <3>3. QED
      BY <3>1, <3>2
  <2>2. QED
    BY <1>4, <2>1 DEF Items
<1> DEFINE one == <<x>>
           all == <<x>> \o q
<1>6. Lands(all) = Lands(one) \o Lands(q)
  <2> DEFINE f == Lands(one)
             g == Lands(q)
             h == Lands(all)
  <2>1. Table(f, Len(one)) /\ Table(g, Len(q)) /\ Table(h, Len(one) + Len(q))
    BY <1>2, <1>4 DEF Table
  <2>2. \A i \in 1 .. Len(one) : h[i] = f[i]
    BY <1>2, <1>4
  <2>3. \A i \in 1 .. Len(q) : h[Len(one) + i] = g[i]
    BY <1>2, <1>4
  <2>4. IsSeq(one) /\ IsSeq(q)
    BY <1>2, <1>3
  <2> HIDE DEF f, g, h, one
  <2>5. h = f \o g
    BY ONLY <2>1, <2>2, <2>3, <2>4, TablesJoin
  <2>6. QED
    BY <2>5 DEF f, g, h
<1>7. Lands(one)[1] = Queue!Landed(x.outcome)
  BY <1>2
<1>8. Items(one) /\ Items(all) /\ Len(one) = 1
  BY <1>2, <1>3, <1>5
<1> HIDE DEF Lands, one, all
<1>9. Queue!FlattenSeq(Lands(one)) = Queue!Landed(x.outcome)
  <2>1. Parts(Lands(one)) /\ Len(Lands(one)) = 1
    BY <1>1, <1>8
  <2>2. QED
    BY <1>7, <2>1, FlattenOne
<1>10. Queue!Pending(all) = Queue!Landed(x.outcome) \o Queue!Pending(q)
  <2>1. Queue!FlattenSeq(Lands(one) \o Lands(q)) = Queue!FlattenSeq(Lands(one)) \o Queue!FlattenSeq(Lands(q))
    BY <1>1, <1>8, FlattenJoin
  <2>2. QED
    BY <1>1, <1>6, <1>8, <1>9, <2>1
<1>11. IsHistory(Queue!Landed(x.outcome))
  BY LandedIsHistory DEF ItemOk, OutcomeOk
<1>12. IsHistory(Queue!Pending(q))
  <2>1. Parts(Lands(q)) /\ Queue!Pending(q) = Queue!FlattenSeq(Lands(q)) /\ \A i \in 1 .. Len(Lands(q)) : IsHistory(Lands(q)[i])
    BY <1>1
  <2>2. QED
    BY <2>1, FlattenIsHistory
<1>13. QED
  BY <1>10, <1>11, <1>12 DEF all

LEMMA LastExists ==
  ASSUME NEW n \in Nat, NEW S, S \subseteq 1 .. n, S # {}
  PROVE  \E i \in S : \A j \in S : j <= i
<1> DEFINE Q == {m \in 0 .. n : (\A i \in S : ~(i <= m)) \/ \E i \in S : i <= m /\ \A j \in S : j <= m => j <= i}
<1>0. \A i \in S : i \in Nat /\ 1 <= i /\ i <= n
  OBVIOUS
<1>1. 0 \in Q
  BY <1>0
<1>2. ASSUME NEW m \in 1 .. n, m - 1 \in Q PROVE m \in Q
  <2>1. CASE m \in S
    BY <1>0, <2>1
  <2>2. CASE m \notin S
    <3>1. \A i \in S : i <= m <=> i <= m - 1
      BY <1>0, <2>2
    <3>2. QED
      BY <1>2, <3>1
  <2>3. QED
    BY <2>1, <2>2
<1> HIDE DEF Q
<1>3. n \in Q
  BY <1>1, <1>2, OneByOne
<1>4. QED
  BY <1>0, <1>3 DEF Q

LEMMA LastSetterIs ==
  ASSUME NEW q, IsSeq(q), NEW k, NEW m, m \in Queue!Setters(q, k), \A j \in Queue!Setters(q, k) : j <= m
  PROVE  Queue!LastSetter(q, k) = m
<1>1. Queue!Setters(q, k) \subseteq 1 .. Len(q) /\ Len(q) \in Nat
  BY SeqShape DEF Queue!Setters
<1>2. Queue!LastSetter(q, k) \in Queue!Setters(q, k)
      /\ \A j \in Queue!Setters(q, k) : j <= Queue!LastSetter(q, k)
  BY DEF Queue!LastSetter
<1>3. Queue!LastSetter(q, k) <= m /\ m <= Queue!LastSetter(q, k)
      /\ m \in Nat /\ Queue!LastSetter(q, k) \in Nat
  BY <1>1, <1>2
<1>4. QED
  BY <1>3

\* The states of a view once one more merge has landed in it.
LEMMA SpecJoin ==
  ASSUME NEW tv, NEW x, NEW q, IsSeq(q)
  PROVE  SpecOf(Queue!Extend(tv, x.outcome.crdt), q) = SpecOf(tv, <<x>> \o q)
<1> DEFINE r == <<x>> \o q
           n == Len(q)
           more == x.outcome.crdt
           ev == Queue!Extend(tv, more)
           D == DOMAIN tv \cup DOMAIN more \cup UNION {DOMAIN q[i].outcome.crdt : i \in 1 .. n}
<1>1. IsSeq(<<x>>) /\ Len(<<x>>) = 1 /\ <<x>>[1] = x
  BY OneIsSeq
<1>2. /\ IsSeq(r) /\ Len(r) = 1 + n /\ n \in Nat
      /\ r[1] = x /\ \A i \in 1 .. n : r[1 + i] = q[i]
  <2>1. /\ IsSeq(r) /\ Len(r) = Len(<<x>>) + Len(q) /\ Len(q) \in Nat
        /\ \A i \in 1 .. Len(<<x>>) : r[i] = <<x>>[i]
        /\ \A i \in 1 .. Len(q) : r[Len(<<x>>) + i] = q[i]
    BY ONLY <1>1, IsSeq(q), SeqJoin
  <2>2. QED
    BY <1>1, <2>1
<1> HIDE DEF r
<1>3. DOMAIN r = 1 .. 1 + n /\ DOMAIN q = 1 .. n
  BY <1>2, SeqShape
<1>4. ASSUME NEW i \in 1 .. 1 + n PROVE i = 1 \/ (i - 1 \in 1 .. n /\ r[i] = q[i - 1])
  <2>1. CASE i # 1
    <3>1. i - 1 \in 1 .. n /\ 1 + (i - 1) = i
      BY <1>2, <2>1
    <3>2. QED
      BY <1>2, <3>1
  <2>2. QED
    BY <2>1
<1>5. UNION {DOMAIN r[i].outcome.crdt : i \in DOMAIN r} = DOMAIN more \cup UNION {DOMAIN q[i].outcome.crdt : i \in 1 .. n}
  <2>1. ASSUME NEW k, NEW i \in 1 .. 1 + n, k \in DOMAIN r[i].outcome.crdt
        PROVE  k \in DOMAIN more \cup UNION {DOMAIN q[j].outcome.crdt : j \in 1 .. n}
    BY <1>2, <1>4, <2>1
  <2>2. ASSUME NEW k, NEW i \in 1 .. n, k \in DOMAIN q[i].outcome.crdt
        PROVE  \E j \in 1 .. 1 + n : k \in DOMAIN r[j].outcome.crdt
    <3>1. 1 + i \in 1 .. 1 + n /\ r[1 + i] = q[i]
      BY <1>2
    <3>2. QED
      BY <2>2, <3>1
  <2>3. 1 \in 1 .. 1 + n /\ r[1].outcome.crdt = more
    BY <1>2
  <2>4. QED
    BY <1>3, <2>1, <2>2, <2>3
<1>6. DOMAIN ev = DOMAIN tv \cup DOMAIN more
      /\ \A k \in DOMAIN tv \cup DOMAIN more : ev[k] = IF k \in DOMAIN more THEN more[k] ELSE tv[k]
  BY DEF Queue!Extend
<1>7. \A k : Queue!Setters(q, k) = {i \in 1 .. n : k \in DOMAIN q[i].outcome.crdt}
  BY <1>3 DEF Queue!Setters
<1>8. \A k : Queue!Setters(r, k) = {i \in 1 .. 1 + n : k \in DOMAIN r[i].outcome.crdt}
  BY <1>3 DEF Queue!Setters
<1> DEFINE Left(k) == IF Queue!Setters(q, k) = {} THEN ev[k] ELSE q[Queue!LastSetter(q, k)].outcome.crdt[k]
           Right(k) == IF Queue!Setters(r, k) = {} THEN tv[k] ELSE r[Queue!LastSetter(r, k)].outcome.crdt[k]
<1>9. ASSUME NEW k \in D PROVE Left(k) = Right(k)
  <2>1. CASE Queue!Setters(q, k) # {}
    <3>1. PICK m \in Queue!Setters(q, k) : \A j \in Queue!Setters(q, k) : j <= m
      BY <1>2, <1>7, <2>1, LastExists
    <3>2. m \in 1 .. n /\ 1 + m \in 1 .. 1 + n /\ r[1 + m] = q[m]
      BY <1>2, <1>7, <3>1
    <3>3. 1 + m \in Queue!Setters(r, k)
      BY <1>7, <1>8, <3>1, <3>2
    <3>4. ASSUME NEW j \in Queue!Setters(r, k) PROVE j <= 1 + m
      <4>1. j \in 1 .. 1 + n /\ k \in DOMAIN r[j].outcome.crdt
        BY <1>8
      <4>2. CASE j = 1
        BY <3>2, <4>2
      <4>3. CASE j # 1
        <5>1. j - 1 \in Queue!Setters(q, k)
          BY <1>4, <1>7, <4>1, <4>3
        <5>2. j - 1 <= m
          BY <3>1, <5>1
        <5>3. QED
          BY <3>2, <4>1, <5>2
      <4>4. QED
        BY <4>2, <4>3
    <3>5. Queue!LastSetter(q, k) = m
      BY <3>1, LastSetterIs
    <3>6. Queue!LastSetter(r, k) = 1 + m
      BY <1>2, <3>3, <3>4, LastSetterIs
    <3>7. QED
      BY <2>1, <3>2, <3>3, <3>5, <3>6
  <2>2. CASE Queue!Setters(q, k) = {} /\ k \in DOMAIN more
    <3>0. 1 \in Queue!Setters(r, k)
      BY <1>2, <1>8, <2>2
    <3>1. 1 \in Queue!Setters(r, k) /\ \A j \in Queue!Setters(r, k) : j <= 1
      <4>1. ASSUME NEW j \in Queue!Setters(r, k), j # 1 PROVE FALSE
        <5>1. j \in 1 .. 1 + n /\ k \in DOMAIN r[j].outcome.crdt
          BY <1>8
        <5>2. j - 1 \in Queue!Setters(q, k)
          BY <1>4, <1>7, <4>1, <5>1
        <5>3. QED
          BY <2>2, <5>2
      <4>2. QED
        BY <3>0, <4>1
    <3>2. Queue!LastSetter(r, k) = 1
      BY <1>2, <3>1, LastSetterIs
    <3>3. QED
      BY <1>2, <1>6, <2>2, <3>1, <3>2
  <2>3. CASE Queue!Setters(q, k) = {} /\ k \notin DOMAIN more
    <3>1. Queue!Setters(r, k) = {}
      BY <1>2, <1>4, <1>7, <1>8, <2>3
    <3>2. k \in DOMAIN tv
      BY <1>7, <2>3
    <3>3. QED
      BY <1>6, <2>3, <3>1, <3>2
  <2>4. QED
    BY <2>1, <2>2, <2>3
<1>10. SpecOf(ev, q) = [k \in D |-> Left(k)]
  BY <1>3, <1>6 DEF SpecOf
<1>11. SpecOf(tv, r) = [k \in D |-> Right(k)]
  BY <1>5 DEF SpecOf
<1>12. [k \in D |-> Left(k)] = [k \in D |-> Right(k)]
  <2> HIDE DEF D, Left, Right
  <2>1. QED
    BY <1>9
<1>13. QED
  BY <1>10, <1>11, <1>12 DEF r

-----------------------------------------------------------------------------
(* Pieces of a sequence                                                     *)

LEMMA PieceOf ==
  ASSUME NEW s, IsSeq(s), NEW m \in Nat, NEW n \in Nat, 1 <= m, m <= n + 1, n <= Len(s)
  PROVE  /\ IsSeq(SubSeq(s, m, n)) /\ Len(SubSeq(s, m, n)) = n + 1 - m
         /\ \A i \in 1 .. n + 1 - m : SubSeq(s, m, n)[i] = s[m + i - 1]
<1>1. PICK S : s \in Seq(S)
  BY DEF IsSeq
<1>2. m \in Int /\ n \in Int /\ \A i \in m .. n : s[i] \in S
  BY <1>1
<1>3. /\ SubSeq(s, m, n) \in Seq(S)
      /\ Len(SubSeq(s, m, n)) = IF m <= n THEN n - m + 1 ELSE 0
      /\ \A i \in 1 .. n - m + 1 : SubSeq(s, m, n)[i] = s[m + i - 1]
  BY ONLY <1>2, SubSeqProperties
<1>4. (IF m <= n THEN n - m + 1 ELSE 0) = n + 1 - m /\ n - m + 1 = n + 1 - m
  OBVIOUS
<1>5. QED
  BY <1>3, <1>4 DEF IsSeq

LEMMA FrontOfJoin ==
  ASSUME NEW s, NEW t, IsSeq(s), IsSeq(t), NEW f \in Nat, f <= Len(s)
  PROVE  SubSeq(s \o t, 1, f) = SubSeq(s, 1, f)
<1>1. /\ IsSeq(s \o t) /\ Len(s \o t) = Len(s) + Len(t) /\ Len(s) \in Nat /\ Len(t) \in Nat
      /\ \A i \in 1 .. Len(s) : (s \o t)[i] = s[i]
  BY SeqJoin
<1>2. f <= Len(s \o t) /\ 1 \in Nat /\ 1 <= 1 /\ 1 <= f + 1 /\ f + 1 - 1 = f
  BY <1>1
<1>3. /\ IsSeq(SubSeq(s, 1, f)) /\ Len(SubSeq(s, 1, f)) = f
      /\ \A i \in 1 .. f : SubSeq(s, 1, f)[i] = s[1 + i - 1]
  <2>1. /\ IsSeq(SubSeq(s, 1, f)) /\ Len(SubSeq(s, 1, f)) = f + 1 - 1
        /\ \A i \in 1 .. f + 1 - 1 : SubSeq(s, 1, f)[i] = s[1 + i - 1]
    BY <1>2, PieceOf
  <2>2. QED
    BY <1>2, <2>1
<1>4. /\ IsSeq(SubSeq(s \o t, 1, f)) /\ Len(SubSeq(s \o t, 1, f)) = f
      /\ \A i \in 1 .. f : SubSeq(s \o t, 1, f)[i] = (s \o t)[1 + i - 1]
  <2> DEFINE u == s \o t
  <2>0. IsSeq(u) /\ f <= Len(u)
    BY <1>1, <1>2
  <2> HIDE DEF u
  <2>1. /\ IsSeq(SubSeq(u, 1, f)) /\ Len(SubSeq(u, 1, f)) = f + 1 - 1
        /\ \A i \in 1 .. f + 1 - 1 : SubSeq(u, 1, f)[i] = u[1 + i - 1]
    BY <1>2, <2>0, PieceOf
  <2>2. QED
    BY <1>2, <2>1 DEF u
<1>5. \A i \in 1 .. f : SubSeq(s \o t, 1, f)[i] = SubSeq(s, 1, f)[i]
  BY <1>1, <1>3, <1>4
<1>6. QED
  BY <1>3, <1>4, <1>5, SameSeq

LEMMA RestOfJoin ==
  ASSUME NEW s, NEW t, IsSeq(s), IsSeq(t), NEW f \in Nat, f <= Len(s)
  PROVE  SubSeq(s \o t, f + 1, Len(s \o t)) = SubSeq(s, f + 1, Len(s)) \o t
<1> DEFINE u == SubSeq(s \o t, f + 1, Len(s \o t))
           v == SubSeq(s, f + 1, Len(s))
           n == Len(s) - f
<1>1. /\ IsSeq(s \o t) /\ Len(s \o t) = Len(s) + Len(t) /\ Len(s) \in Nat /\ Len(t) \in Nat
      /\ \A i \in 1 .. Len(s) : (s \o t)[i] = s[i]
      /\ \A i \in 1 .. Len(t) : (s \o t)[Len(s) + i] = t[i]
  BY SeqJoin
<1>2. n \in Nat /\ f + 1 \in Nat /\ 1 <= f + 1 /\ f + 1 <= Len(s) + 1 /\ f + 1 <= Len(s \o t) + 1 /\ Len(s \o t) \in Nat
  BY <1>1
<1>3. /\ IsSeq(v) /\ Len(v) = Len(s) + 1 - (f + 1)
      /\ \A i \in 1 .. Len(s) + 1 - (f + 1) : v[i] = s[(f + 1) + i - 1]
  <2>1. f + 1 \in Nat /\ Len(s) \in Nat /\ 1 <= f + 1 /\ f + 1 <= Len(s) + 1 /\ Len(s) <= Len(s)
    BY <1>1, <1>2
  <2>2. QED
    BY ONLY <2>1, IsSeq(s), PieceOf
<1>4. /\ IsSeq(u) /\ Len(u) = Len(s \o t) + 1 - (f + 1)
      /\ \A i \in 1 .. Len(s \o t) + 1 - (f + 1) : u[i] = (s \o t)[(f + 1) + i - 1]
  <2> DEFINE w == s \o t
  <2>1. f + 1 \in Nat /\ Len(w) \in Nat /\ 1 <= f + 1 /\ f + 1 <= Len(w) + 1 /\ Len(w) <= Len(w) /\ IsSeq(w)
    BY <1>1, <1>2
  <2> HIDE DEF w
  <2>2. /\ IsSeq(SubSeq(w, f + 1, Len(w))) /\ Len(SubSeq(w, f + 1, Len(w))) = Len(w) + 1 - (f + 1)
        /\ \A i \in 1 .. Len(w) + 1 - (f + 1) : SubSeq(w, f + 1, Len(w))[i] = w[(f + 1) + i - 1]
    BY ONLY <2>1, PieceOf
  <2>3. QED
    BY <2>2 DEF w
<1> HIDE DEF u, v
<1>5. Len(v) = n /\ Len(u) = n + Len(t)
  BY <1>1, <1>2, <1>3, <1>4
<1>6. /\ IsSeq(v \o t) /\ Len(v \o t) = n + Len(t)
      /\ \A i \in 1 .. n : (v \o t)[i] = v[i]
      /\ \A i \in 1 .. Len(t) : (v \o t)[n + i] = t[i]
  <2>1. /\ IsSeq(v \o t) /\ Len(v \o t) = Len(v) + Len(t)
        /\ \A i \in 1 .. Len(v) : (v \o t)[i] = v[i]
        /\ \A i \in 1 .. Len(t) : (v \o t)[Len(v) + i] = t[i]
    BY ONLY <1>3, IsSeq(t), SeqJoin
  <2>2. QED
    BY <1>5, <2>1
<1>7. ASSUME NEW i \in 1 .. Len(u) PROVE u[i] = (v \o t)[i]
  <2>0. u[i] = (s \o t)[f + i]
    <3>1. i \in 1 .. Len(s \o t) + 1 - (f + 1) /\ (f + 1) + i - 1 = f + i
      BY <1>1, <1>4
    <3>2. QED
      BY <1>4, <3>1
  <2>1. CASE i \in 1 .. n
    <3>1. f + i \in 1 .. Len(s) /\ i \in 1 .. Len(s) + 1 - (f + 1) /\ (f + 1) + i - 1 = f + i
      BY <1>1, <2>1
    <3>2. QED
      BY <1>1, <1>3, <1>6, <2>0, <2>1, <3>1
  <2>2. CASE i \notin 1 .. n
    <3>1. i - n \in 1 .. Len(t) /\ n + (i - n) = i /\ Len(s) + (i - n) = f + i
      BY <1>1, <1>2, <1>5, <2>2
    <3>2. (v \o t)[n + (i - n)] = t[i - n] /\ (s \o t)[Len(s) + (i - n)] = t[i - n]
      BY <1>1, <1>6, <3>1
    <3>3. QED
      BY <2>0, <3>1, <3>2
  <2>3. QED
    BY <2>1, <2>2
<1>8. u = v \o t
  BY <1>4, <1>5, <1>6, <1>7, SameSeq
<1>9. QED
  BY <1>8 DEF u, v

LEMMA PieceIsHistory ==
  ASSUME NEW h, IsHistory(h), NEW m \in Nat, NEW n \in Nat, 1 <= m, m <= n + 1, n <= Len(h)
  PROVE  IsHistory(SubSeq(h, m, n))
<1>1. /\ IsSeq(SubSeq(h, m, n)) /\ Len(SubSeq(h, m, n)) = n + 1 - m
      /\ \A i \in 1 .. n + 1 - m : SubSeq(h, m, n)[i] = h[m + i - 1]
  BY PieceOf DEF IsHistory
<1>2. ASSUME NEW i \in 1 .. n + 1 - m PROVE EntryOk(SubSeq(h, m, n)[i])
  <2>1. m + i - 1 \in 1 .. Len(h)
    <3>1. Len(h) \in Nat
      BY SeqShape DEF IsHistory
    <3>2. QED
      BY <3>1
  <2>2. QED
    BY <1>1, <2>1 DEF IsHistory
<1>3. QED
  BY <1>1, <1>2 DEF IsHistory

\* A merge behind the head is decided as it was once the head has landed.
LEMMA LandingShifts ==
  ASSUME NEW s, s # "target", NEW h, ItemOk(h), NEW q, Items(q), NEW tg, IsHistory(tg), NEW tv,
         NEW src, NEW f \in Nat, f <= Len(tg), NEW alive, NEW sv
  PROVE  Decide(s, q, (tg \o Queue!Landed(h.outcome)) \o <<Queue!Bookkeeping>>,
                Queue!Extend(tv, h.outcome.crdt), src, f, alive, sv)
           = Decide(s, <<h>> \o q, tg, tv, src, f, alive, sv)
<1> DEFINE L == Queue!Landed(h.outcome)
           B == <<Queue!Bookkeeping>>
           tg2 == (tg \o L) \o B
           base == BaseOf(f, alive)
           since == Queue!Since(tg, base)
           since2 == Queue!Since(tg2, base)
           P == Queue!Pending(q)
           all == <<h>> \o q
<1>1. IsHistory(L) /\ IsHistory(P) /\ Queue!Pending(all) = L \o P
  BY PendingJoin
<1>2. IsHistory(B) /\ IsSeq(B)
  <2>1. Queue!Bookkeeping.op # "transaction"
    BY DEF Queue!Bookkeeping
  <2>2. QED
    BY <2>1, OneIsSeq DEF IsHistory, EntryOk
<1> HIDE DEF L, B, P, all
<1>3. IsHistory(tg \o L) /\ IsSeq(tg) /\ IsSeq(L) /\ IsSeq(tg \o L) /\ IsSeq(P)
  BY <1>1, HistoryJoin DEF IsHistory
<1>4. Len(tg \o L) = Len(tg) + Len(L) /\ Len(tg) \in Nat /\ Len(L) \in Nat
  BY <1>3, SeqJoin
<1>5. f <= Len(tg \o L)
  BY <1>4
<1>6. SubSeq(tg2, 1, f) = SubSeq(tg, 1, f)
  <2>1. SubSeq(tg2, 1, f) = SubSeq(tg \o L, 1, f)
    BY <1>2, <1>3, <1>5, FrontOfJoin
  <2>2. SubSeq(tg \o L, 1, f) = SubSeq(tg, 1, f)
    BY <1>3, FrontOfJoin
  <2>3. QED
    BY <2>1, <2>2
<1>7. TheirsOf(tg2, src, base, f) = TheirsOf(tg, src, base, f)
  BY <1>6 DEF TheirsOf
<1>8. IsHistory(since) /\ since2 = (since \o L) \o B
  <2>1. CASE ~alive
    <3>1. base = Queue!None
      BY <2>1 DEF BaseOf
    <3>2. QED
      BY <3>1 DEF Queue!Since
  <2>2. CASE alive
    <3>1. base # Queue!None /\ base.some = f
      BY <2>2 DEF BaseOf, Queue!Some, Queue!None
    <3>2. since = SubSeq(tg, f + 1, Len(tg)) /\ since2 = SubSeq(tg2, f + 1, Len(tg2))
      BY <3>1 DEF Queue!Since
    <3>3. SubSeq(tg2, f + 1, Len(tg2)) = SubSeq(tg \o L, f + 1, Len(tg \o L)) \o B
      BY <1>2, <1>3, <1>5, RestOfJoin
    <3>4. SubSeq(tg \o L, f + 1, Len(tg \o L)) = SubSeq(tg, f + 1, Len(tg)) \o L
      BY <1>3, RestOfJoin
    <3>5. IsHistory(SubSeq(tg, f + 1, Len(tg)))
      <4>1. f + 1 \in Nat /\ 1 <= f + 1 /\ f + 1 <= Len(tg) + 1 /\ Len(tg) <= Len(tg) /\ Len(tg) \in Nat
        BY <1>4
      <4>2. QED
        BY <4>1, PieceIsHistory
    <3>6. QED
      BY <3>2, <3>3, <3>4, <3>5
  <2>3. QED
    BY <2>1, <2>2
<1> HIDE DEF tg2, since, since2, base
<1>9. IsHistory(since \o L)
  BY <1>1, <1>8, HistoryJoin
<1>10. /\ Queue!SchemaChanges(since2 \o P) = Queue!SchemaChanges((since \o L) \o P)
       /\ Queue!KeyOps(since2 \o P) = Queue!KeyOps((since \o L) \o P)
  <2>1. since2 \o P = ((since \o L) \o B) \o P
    BY <1>8
  <2>2. /\ Queue!SchemaChanges(((since \o L) \o B) \o P) = Queue!SchemaChanges((since \o L) \o P)
        /\ Queue!KeyOps(((since \o L) \o B) \o P) = Queue!KeyOps((since \o L) \o P)
    BY <1>1, <1>9, BookkeepingUnread DEF B
  <2>3. QED
    BY <2>1, <2>2
<1>11. (since \o L) \o P = since \o (L \o P)
  <2>1. IsSeq(since)
    BY <1>8 DEF IsHistory
  <2>2. QED
    BY <1>3, <2>1, JoinAssociative
<1>12. SpecOf(Queue!Extend(tv, h.outcome.crdt), q) = SpecOf(tv, all)
  BY SpecJoin DEF all, Items
<1> DEFINE mine == Queue!HashAt(s, Len(src))
           one == Queue!HashAt("target", Len(tg))
           two == Queue!HashAt("target", Len(tg2))
<1>13. mine = Queue!None \/ (two # mine /\ one # mine)
  BY DEF Queue!HashAt, Queue!Some, Queue!None
<1> DEFINE theirs == TheirsOf(tg, src, base, f)
           states == SpecOf(tv, all)
           mysv == IF alive THEN sv ELSE <<>>
           ours == since2 \o P
           ours2 == since \o (L \o P)
<1>14. Decide(s, q, tg2, Queue!Extend(tv, h.outcome.crdt), src, f, alive, sv)
         = Queue!MergeBranches(mine, Queue!ForkHash(base), two, theirs, ours, states, mysv)
  BY <1>7, <1>12 DEF Decide, since2, base, P
<1>15. Decide(s, all, tg, tv, src, f, alive, sv)
         = Queue!MergeBranches(mine, Queue!ForkHash(base), one, theirs, ours2, states, mysv)
  BY <1>1 DEF Decide, since, base
<1>16. Queue!SchemaChanges(ours) = Queue!SchemaChanges(ours2) /\ Queue!KeyOps(ours) = Queue!KeyOps(ours2)
  BY <1>10, <1>11
<1> HIDE DEF mine, one, two, theirs, states, mysv, ours, ours2
<1>17. Queue!MergeBranches(mine, Queue!ForkHash(base), two, theirs, ours, states, mysv)
         = Queue!MergeBranches(mine, Queue!ForkHash(base), one, theirs, ours2, states, mysv)
  BY ONLY <1>13, <1>16, MergeReads
<1>18. QED
  BY <1>14, <1>15, <1>17 DEF tg2, L, B, all

-----------------------------------------------------------------------------
(* The queue's inductive invariant                                          *)

\* The histories are histories, and a source forked from a prefix of the target's.
HistoriesOf(tg, tv, src, fk, lv, sv) ==
  /\ IsHistory(tg) /\ IsTable(tv)
  /\ src = [s \in MergeSources |-> src[s]]
  /\ fk = [s \in MergeSources |-> fk[s]]
  /\ sv = [s \in MergeSources |-> sv[s]]
  /\ lv \subseteq MergeSources
  /\ \A s \in MergeSources : IsHistory(src[s]) /\ fk[s] \in Nat /\ fk[s] <= Len(tg)

\* What is queued would merge, was given a ticket, and comes from a source that has
\* been written; its base is where a source that is still live forked.
EntryFor(x, next, src, fk, lv) ==
  /\ x = [ticket |-> x.ticket, source |-> x.source, base |-> x.base, outcome |-> x.outcome]
  /\ x.ticket \in Nat /\ x.ticket < next
  /\ x.source \in MergeSources /\ src[x.source] # <<>>
  /\ x.source \in lv => x.base = Queue!Some(fk[x.source])
  /\ ItemOk(x)
EntriesOf(q, next, src, fk, lv) ==
  /\ IsSeq(q) /\ next \in Nat
  /\ \A i \in 1 .. Len(q) : EntryFor(q[i], next, src, fk, lv)

InLine(q) ==
  \A i, j \in 1 .. Len(q) : i < j => q[i].source # q[j].source /\ q[i].ticket < q[j].ticket

\* Nothing is sure behind a merge that is not.
SureFirst(q, su, next) ==
  /\ \A t \in su : t \in Nat /\ t < next
  /\ \A i, j \in 1 .. Len(q) : i < j /\ q[j].ticket \in su => q[i].ticket \in su

\* A sure merge is what merging behind those ahead of it comes to now.
PromiseFor(x, ahead, tg, tv, src, fk, lv, sv) ==
  x.outcome = Decide(x.source, ahead, tg, tv, src[x.source], fk[x.source], x.source \in lv, sv[x.source])
PromisesOf(q, su, tg, tv, src, fk, lv, sv) ==
  \A i \in 1 .. Len(q) : q[i].ticket \in su => PromiseFor(q[i], SubSeq(q, 1, i - 1), tg, tv, src, fk, lv, sv)

QueueInv ==
  /\ HistoriesOf(target, tview, source, fork, live, sview)
  /\ EntriesOf(queued, nextTicket, source, fork, live)
  /\ InLine(queued)
  /\ SureFirst(queued, sure, nextTicket)
  /\ PromisesOf(queued, sure, target, tview, source, fork, live, sview)

LEMMA StatusIs ==
  ASSUME NEW s, NEW b, NEW t, NEW theirs, NEW ours, NEW states, NEW svs
  PROVE  /\ Queue!MergeBranches(s, b, t, theirs, ours, states, svs).status \in {"up_to_date", "conflicted", "merged"}
         /\ s = Queue!None => Queue!MergeBranches(s, b, t, theirs, ours, states, svs).status = "up_to_date"
<1> DEFINE same == \/ s \in {Queue!None, b} \/ t = s \/ \A i \in DOMAIN theirs : ~Queue!Contributes(theirs[i])
           o == Queue!MergeBranches(s, b, t, theirs, ours, states, svs)
<1>1. CASE same
  <2>1. o = Queue!UpToDate
    BY <1>1 DEF Queue!MergeBranches
  <2>2. QED
    BY <2>1 DEF Queue!UpToDate
<1>2. CASE ~same /\ Queue!Conflicts(ours, theirs, states, svs) # {}
  <2>1. o.status = "conflicted"
    BY <1>2 DEF Queue!MergeBranches
  <2>2. QED
    BY <1>2, <2>1
<1>3. CASE ~same /\ Queue!Conflicts(ours, theirs, states, svs) = {}
  <2>1. o.status = "merged"
    BY <1>3 DEF Queue!MergeBranches
  <2>2. QED
    BY <1>3, <2>1
<1>4. QED
  BY <1>1, <1>2, <1>3

\* A decision that a merge can be made says what lands.
LEMMA DecidesWell ==
  ASSUME NEW s, NEW q, NEW tg, NEW tv, NEW src, NEW f \in Nat, NEW alive, NEW svs,
         IsHistory(tg), IsHistory(src), f <= Len(tg)
  PROVE  /\ OutcomeOk(Decide(s, q, tg, tv, src, f, alive, svs))
         /\ Decide(s, q, tg, tv, src, f, alive, svs).status \in {"up_to_date", "conflicted", "merged"}
         /\ Decide(s, q, tg, tv, src, f, alive, svs).status = "merged" => src # <<>>
<1> DEFINE theirs == TheirsOf(tg, src, BaseOf(f, alive), f)
           ours == Queue!Since(tg, BaseOf(f, alive)) \o Queue!Pending(q)
           states == SpecOf(tv, q)
           mine == IF alive THEN svs ELSE <<>>
           h == Queue!HashAt(s, Len(src))
           b == Queue!ForkHash(BaseOf(f, alive))
           t == Queue!HashAt("target", Len(tg))
<1>1. IsHistory(theirs)
  <2>1. IsHistory(SubSeq(tg, 1, f))
    <3>1. 1 \in Nat /\ 1 <= 1 /\ 1 <= f + 1
      OBVIOUS
    <3>2. QED
      BY <3>1, PieceIsHistory
  <2>2. IsHistory(SubSeq(tg, 1, f) \o src)
    BY <2>1, HistoryJoin
  <2>3. QED
    BY <2>2 DEF TheirsOf
<1>2. Decide(s, q, tg, tv, src, f, alive, svs) = Queue!MergeBranches(h, b, t, theirs, ours, states, mine)
  BY DEF Decide
<1>3. src = <<>> => h = Queue!None
  BY DEF Queue!HashAt
<1> HIDE DEF theirs, ours, states, mine, h, b, t
<1>4. QED
  BY <1>1, <1>2, <1>3, StatusIs, MergeIsOk

LEMMA AppendIs ==
  ASSUME NEW s, IsSeq(s), NEW e
  PROVE  /\ Append(s, e) = s \o <<e>> /\ IsSeq(Append(s, e)) /\ Len(Append(s, e)) = Len(s) + 1 /\ Len(s) \in Nat
         /\ Append(s, e)[Len(s) + 1] = e
         /\ \A i \in 1 .. Len(s) : Append(s, e)[i] = s[i]
<1>1. PICK S : s \in Seq(S)
  BY DEF IsSeq
<1> DEFINE T == S \cup {e}
<1>2. s \in Seq(T) /\ e \in T
  BY <1>1
<1> HIDE DEF T
<1>3. /\ Append(s, e) \in Seq(T) /\ Append(s, e) = s \o <<e>> /\ Len(Append(s, e)) = Len(s) + 1 /\ Len(s) \in Nat
      /\ Append(s, e)[Len(s) + 1] = e
      /\ \A i \in 1 .. Len(s) : Append(s, e)[i] = s[i]
  BY <1>2, AppendProperties
<1>4. QED
  BY <1>3 DEF IsSeq

LEMMA OneMoreIsHistory ==
  ASSUME NEW h, IsHistory(h), NEW e, EntryOk(e)
  PROVE  IsHistory(Append(h, e)) /\ Len(Append(h, e)) = Len(h) + 1 /\ Len(h) \in Nat /\ Append(h, e) # <<>>
<1>1. /\ IsSeq(Append(h, e)) /\ Len(Append(h, e)) = Len(h) + 1 /\ Len(h) \in Nat
      /\ Append(h, e)[Len(h) + 1] = e
      /\ \A i \in 1 .. Len(h) : Append(h, e)[i] = h[i]
  BY AppendIs DEF IsHistory
<1>2. \A i \in 1 .. Len(h) + 1 : i \in 1 .. Len(h) \/ i = Len(h) + 1
  BY <1>1
<1>3. IsHistory(Append(h, e))
  BY <1>1, <1>2 DEF IsHistory
<1>4. Append(h, e) # <<>>
  <2>1. Len(Append(h, e)) # 0 /\ Len(<<>>) = 0
    BY <1>1
  <2>2. QED
    BY <2>1
<1>5. QED
  BY <1>1, <1>3, <1>4

\* The merges that are left of a queue stand in the order they stood in.
LeftOf(q2, q, f) ==
  /\ IsSeq(q2) /\ f \in [1 .. Len(q2) -> 1 .. Len(q)]
  /\ \A i, j \in 1 .. Len(q2) : i < j => f[i] < f[j]
  /\ \A i \in 1 .. Len(q2) : q2[i].ticket = q[f[i]].ticket /\ q2[i].source = q[f[i]].source

LEMMA LeftInLine ==
  ASSUME NEW q, NEW q2, NEW f, LeftOf(q2, q, f), InLine(q)
  PROVE  InLine(q2)
<1>1. ASSUME NEW i \in 1 .. Len(q2), NEW j \in 1 .. Len(q2), i < j
      PROVE  q2[i].source # q2[j].source /\ q2[i].ticket < q2[j].ticket
  <2>1. f[i] \in 1 .. Len(q) /\ f[j] \in 1 .. Len(q) /\ f[i] < f[j]
    BY <1>1 DEF LeftOf
  <2>2. q[f[i]].source # q[f[j]].source /\ q[f[i]].ticket < q[f[j]].ticket
    BY <2>1 DEF InLine
  <2>3. QED
    BY <2>2 DEF LeftOf
<1>2. QED
  BY <1>1 DEF InLine

-----------------------------------------------------------------------------
(* The queue's steps                                                        *)

LEMMA QueueBegins ==
  ASSUME Queue!Init
  PROVE  QueueInv
<1>1. IsHistory(<<>>) /\ Len(<<>>) = 0
  <2>1. IsSeq(<<>>)
    BY JoinEmpty, OneIsSeq
  <2>2. QED
    BY <2>1 DEF IsHistory
<1>2. IsSeq(<<>>) /\ IsTable(<<>>)
  <2>1. IsSeq(<<>>)
    BY <1>1 DEF IsHistory
  <2>2. IsTable(<<>>)
    BY DEF IsTable
  <2>3. QED
    BY <2>1, <2>2
<1>3. HistoriesOf(target, tview, source, fork, live, sview)
  BY <1>1, <1>2 DEF Queue!Init, HistoriesOf, Queue!Empty
<1>4. EntriesOf(queued, nextTicket, source, fork, live)
  BY <1>1, <1>2 DEF Queue!Init, EntriesOf
<1>5. InLine(queued) /\ SureFirst(queued, sure, nextTicket)
  BY <1>1 DEF Queue!Init, InLine, SureFirst
<1>6. PromisesOf(queued, sure, target, tview, source, fork, live, sview)
  BY <1>1 DEF Queue!Init, PromisesOf
<1>7. QED
  BY <1>3, <1>4, <1>5, <1>6 DEF QueueInv

LEMMA ForkKeeps ==
  ASSUME QueueInv, NEW s \in MergeSources, Queue!Fork(s)
  PROVE  QueueInv'
<1>1. /\ s \notin live /\ source[s] = <<>> /\ live' = live \cup {s}
      /\ fork' = [fork EXCEPT ![s] = Len(target)]
      /\ source' = [source EXCEPT ![s] = <<Queue!Bookkeeping>>]
      /\ sview' = [sview EXCEPT ![s] = tview]
      /\ target' = target /\ tview' = tview /\ queued' = queued /\ nextTicket' = nextTicket /\ sure' = sure
  BY DEF Queue!Fork
<1>2. HistoriesOf(target, tview, source, fork, live, sview) /\ Len(target) \in Nat
  BY SeqShape DEF QueueInv, HistoriesOf, IsHistory
<1>3. IsHistory(<<Queue!Bookkeeping>>)
  <2>1. Queue!Bookkeeping.op # "transaction"
    BY DEF Queue!Bookkeeping
  <2>2. QED
    BY <2>1, OneIsSeq DEF IsHistory, EntryOk
<1>4. HistoriesOf(target', tview', source', fork', live', sview')
  <2>1. ASSUME NEW r \in MergeSources PROVE IsHistory(source'[r]) /\ fork'[r] \in Nat /\ fork'[r] <= Len(target)
    <3>1. CASE r = s
      <4>1. source'[r] = <<Queue!Bookkeeping>> /\ fork'[r] = Len(target)
        BY <1>1, <1>2, <3>1 DEF HistoriesOf
      <4>2. QED
        BY <1>2, <1>3, <4>1
    <3>2. CASE r # s
      <4>1. source'[r] = source[r] /\ fork'[r] = fork[r]
        BY <1>1, <1>2, <3>2 DEF HistoriesOf
      <4>2. QED
        BY <1>2, <4>1 DEF HistoriesOf
    <3>3. QED
      BY <3>1, <3>2
  <2>2. source' = [r \in MergeSources |-> source'[r]] /\ fork' = [r \in MergeSources |-> fork'[r]]
        /\ sview' = [r \in MergeSources |-> sview'[r]] /\ live' \subseteq MergeSources
    BY <1>1, <1>2 DEF HistoriesOf
  <2>3. IsHistory(target) /\ IsTable(tview)
    BY <1>2 DEF HistoriesOf
  <2>4. QED
    BY <1>1, <2>1, <2>2, <2>3 DEF HistoriesOf
<1>5. ASSUME NEW i \in 1 .. Len(queued) PROVE queued[i].source \in MergeSources /\ queued[i].source # s
  BY <1>1 DEF QueueInv, EntriesOf, EntryFor
<1>6. EntriesOf(queued', nextTicket', source', fork', live')
  <2>1. ASSUME NEW i \in 1 .. Len(queued) PROVE EntryFor(queued[i], nextTicket, source', fork', live')
    <3>1. EntryFor(queued[i], nextTicket, source, fork, live)
      BY DEF QueueInv, EntriesOf
    <3>2. source'[queued[i].source] = source[queued[i].source] /\ fork'[queued[i].source] = fork[queued[i].source]
          /\ (queued[i].source \in live' => queued[i].source \in live)
      BY <1>1, <1>2, <1>5 DEF HistoriesOf
    <3>3. QED
      BY <3>1, <3>2 DEF EntryFor
  <2>2. QED
    BY <1>1, <2>1 DEF QueueInv, EntriesOf
<1>7. PromisesOf(queued', sure', target', tview', source', fork', live', sview')
  <2>1. ASSUME NEW i \in 1 .. Len(queued), queued[i].ticket \in sure
        PROVE  PromiseFor(queued[i], SubSeq(queued, 1, i - 1), target, tview, source', fork', live', sview')
    <3>1. PromiseFor(queued[i], SubSeq(queued, 1, i - 1), target, tview, source, fork, live, sview)
      BY <2>1 DEF QueueInv, PromisesOf
    <3>2. source'[queued[i].source] = source[queued[i].source] /\ fork'[queued[i].source] = fork[queued[i].source]
          /\ sview'[queued[i].source] = sview[queued[i].source]
          /\ (queued[i].source \in live' <=> queued[i].source \in live)
      BY <1>1, <1>2, <1>5 DEF HistoriesOf
    <3>3. (queued[i].source \in live') = (queued[i].source \in live)
      BY <3>2
    <3>4. QED
      BY <3>1, <3>2, <3>3 DEF PromiseFor
  <2>2. QED
    BY <1>1, <2>1 DEF PromisesOf
<1>8. QED
  BY <1>1, <1>4, <1>6, <1>7 DEF QueueInv

LEMMA WriteTargetKeeps ==
  ASSUME QueueInv, NEW o, EntryOk(o), Queue!WriteTarget(o)
  PROVE  QueueInv'
<1>1. /\ target' = Append(target, o) /\ tview' = Queue!Applied(tview, o) /\ sure' = {}
      /\ source' = source /\ fork' = fork /\ live' = live /\ sview' = sview
      /\ queued' = queued /\ nextTicket' = nextTicket
  BY DEF Queue!WriteTarget, Queue!branches
<1>2. IsTable(tview')
  BY <1>1 DEF Queue!Applied, Queue!Extend, IsTable, QueueInv, HistoriesOf
<1>3. IsHistory(target') /\ Len(target') = Len(target) + 1 /\ Len(target) \in Nat
  BY <1>1, OneMoreIsHistory DEF QueueInv, HistoriesOf
<1>4. HistoriesOf(target', tview', source', fork', live', sview')
  BY <1>1, <1>2, <1>3 DEF QueueInv, HistoriesOf
<1>5. QED
  BY <1>1, <1>4 DEF QueueInv, SureFirst, PromisesOf

\* What a source does says nothing of the others' promises.
LEMMA OthersKeep ==
  ASSUME QueueInv, NEW s \in MergeSources,
         sure' = IF Queue!Position(s) = {} THEN sure ELSE {},
         target' = target, tview' = tview, fork' = fork, queued' = queued, nextTicket' = nextTicket,
         \A r \in MergeSources \ {s} : source'[r] = source[r] /\ sview'[r] = sview[r] /\ (r \in live' <=> r \in live)
  PROVE  SureFirst(queued', sure', nextTicket') /\ PromisesOf(queued', sure', target', tview', source', fork', live', sview')
<1>1. CASE Queue!Position(s) # {}
  BY <1>1 DEF QueueInv, SureFirst, PromisesOf
<1>2. CASE Queue!Position(s) = {}
  <2>1. DOMAIN queued = 1 .. Len(queued)
    BY SeqShape DEF QueueInv, EntriesOf
  <2>2. ASSUME NEW i \in 1 .. Len(queued), queued[i].ticket \in sure
        PROVE  PromiseFor(queued[i], SubSeq(queued, 1, i - 1), target, tview, source', fork', live', sview')
    <3>1. queued[i].source # s /\ queued[i].source \in MergeSources
      BY <1>2, <2>1 DEF Queue!Position, QueueInv, EntriesOf, EntryFor
    <3>2. source'[queued[i].source] = source[queued[i].source] /\ sview'[queued[i].source] = sview[queued[i].source]
          /\ (queued[i].source \in live' <=> queued[i].source \in live)
      BY <3>1
    <3>3. (queued[i].source \in live') = (queued[i].source \in live)
      BY <3>2
    <3>4. PromiseFor(queued[i], SubSeq(queued, 1, i - 1), target, tview, source, fork, live, sview)
      BY <2>2 DEF QueueInv, PromisesOf
    <3>5. QED
      BY <3>2, <3>3, <3>4 DEF PromiseFor
  <2>3. QED
    BY <1>2, <2>2 DEF QueueInv, PromisesOf
<1>3. QED
  BY <1>1, <1>2

LEMMA WriteSourceKeeps ==
  ASSUME QueueInv, NEW s \in MergeSources, NEW o, EntryOk(o), Queue!WriteSource(s, o)
  PROVE  QueueInv'
<1>1. /\ source' = [source EXCEPT ![s] = Append(source[s], o)]
      /\ sview' = [sview EXCEPT ![s] = Queue!Applied(sview[s], o)]
      /\ sure' = (IF Queue!Position(s) = {} THEN sure ELSE {})
      /\ target' = target /\ fork' = fork /\ live' = live /\ tview' = tview
      /\ queued' = queued /\ nextTicket' = nextTicket
  BY DEF Queue!WriteSource
<1>2. HistoriesOf(target, tview, source, fork, live, sview)
  BY DEF QueueInv
<1>3. IsHistory(Append(source[s], o)) /\ Append(source[s], o) # <<>>
  BY <1>2, OneMoreIsHistory DEF HistoriesOf
<1>4. HistoriesOf(target', tview', source', fork', live', sview')
  BY <1>1, <1>2, <1>3 DEF HistoriesOf
<1>5. EntriesOf(queued', nextTicket', source', fork', live')
  <2>1. ASSUME NEW i \in 1 .. Len(queued) PROVE EntryFor(queued[i], nextTicket, source', fork, live)
    <3>1. EntryFor(queued[i], nextTicket, source, fork, live)
      BY DEF QueueInv, EntriesOf
    <3>2. source'[queued[i].source] # <<>>
      BY <1>1, <1>2, <1>3, <3>1 DEF HistoriesOf, EntryFor
    <3>3. QED
      BY <3>1, <3>2 DEF EntryFor
  <2>2. QED
    BY <1>1, <2>1 DEF QueueInv, EntriesOf
<1>6. SureFirst(queued', sure', nextTicket') /\ PromisesOf(queued', sure', target', tview', source', fork', live', sview')
  <2>1. \A r \in MergeSources \ {s} : source'[r] = source[r] /\ sview'[r] = sview[r] /\ (r \in live' <=> r \in live)
    BY <1>1, <1>2 DEF HistoriesOf
  <2>2. QED
    BY <1>1, <2>1, OthersKeep
<1>7. QED
  BY <1>1, <1>4, <1>5, <1>6 DEF QueueInv

LEMMA DiscardKeeps ==
  ASSUME QueueInv, NEW s \in MergeSources, Queue!Discard(s)
  PROVE  QueueInv'
<1>1. /\ live' = live \ {s} /\ sure' = (IF Queue!Position(s) = {} THEN sure ELSE {})
      /\ target' = target /\ source' = source /\ fork' = fork /\ tview' = tview /\ sview' = sview
      /\ queued' = queued /\ nextTicket' = nextTicket
  BY DEF Queue!Discard
<1>2. HistoriesOf(target', tview', source', fork', live', sview')
  BY <1>1 DEF QueueInv, HistoriesOf
<1>3. EntriesOf(queued', nextTicket', source', fork', live')
  BY <1>1 DEF QueueInv, EntriesOf, EntryFor
<1>4. SureFirst(queued', sure', nextTicket') /\ PromisesOf(queued', sure', target', tview', source', fork', live', sview')
  <2>1. \A r \in MergeSources \ {s} : source'[r] = source[r] /\ sview'[r] = sview[r] /\ (r \in live' <=> r \in live)
    BY <1>1
  <2>2. QED
    BY <1>1, <2>1, OthersKeep
<1>5. QED
  BY <1>1, <1>2, <1>3, <1>4 DEF QueueInv

LEMMA EnqueueKeeps ==
  ASSUME QueueInv, NEW s \in MergeSources, Queue!Enqueue(s)
  PROVE  QueueInv'
<1> DEFINE o == Decide(s, queued, target, tview, source[s], fork[s], s \in live, sview[s])
           x == [ticket |-> nextTicket, source |-> s, base |-> Queue!Base(s), outcome |-> o]
           n == Len(queued)
<1>1. Queue!Try(s, Queue!Base(s), Queue!Pending(queued), Queue!Speculative(queued)) = o
  BY AnswerIs DEF Answer
<1>2. HistoriesOf(target, tview, source, fork, live, sview) /\ EntriesOf(queued, nextTicket, source, fork, live)
      /\ InLine(queued) /\ SureFirst(queued, sure, nextTicket)
      /\ PromisesOf(queued, sure, target, tview, source, fork, live, sview)
  BY DEF QueueInv
<1>3. OutcomeOk(o) /\ o.status \in {"up_to_date", "conflicted", "merged"} /\ (o.status = "merged" => source[s] # <<>>)
  <2>1. IsHistory(target) /\ IsHistory(source[s]) /\ fork[s] \in Nat /\ fork[s] <= Len(target)
    BY <1>2 DEF HistoriesOf
  <2>2. QED
    BY <2>1, DecidesWell
<1> HIDE DEF o
<1>4. Queue!Position(s) = {} /\ o.status = "merged" /\ Queue!EnqueueResult(s).outcome = o
  <2>1. Queue!EnqueueResult(s).result = "Queued"
    BY DEF Queue!Enqueue
  <2>2. CASE Queue!Position(s) # {}
    <3>1. Queue!EnqueueResult(s).result = "AlreadyQueued"
      BY <2>2 DEF Queue!EnqueueResult
    <3>2. QED
      BY <2>1, <3>1
  <2>3. CASE Queue!Position(s) = {} /\ o.status = "up_to_date"
    <3>1. Queue!EnqueueResult(s).result = "NothingToMerge"
      BY <1>1, <2>3 DEF Queue!EnqueueResult
    <3>2. QED
      BY <2>1, <3>1
  <2>4. CASE Queue!Position(s) = {} /\ o.status = "conflicted"
    <3>1. Queue!EnqueueResult(s).result = "WouldConflict"
      BY <1>1, <2>4 DEF Queue!EnqueueResult
    <3>2. QED
      BY <2>1, <3>1
  <2>5. CASE Queue!Position(s) = {} /\ o.status = "merged"
    <3>1. Queue!EnqueueResult(s) = [result |-> "Queued", outcome |-> o]
      BY <1>1, <2>5 DEF Queue!EnqueueResult
    <3>2. QED
      BY <2>5, <3>1
  <2>6. QED
    BY <1>3, <2>2, <2>3, <2>4, <2>5
<1>5. /\ queued' = Append(queued, x) /\ nextTicket' = nextTicket + 1
      /\ sure' = IF \A i \in DOMAIN queued : queued[i].ticket \in sure THEN sure \cup {nextTicket} ELSE sure
      /\ target' = target /\ source' = source /\ fork' = fork /\ live' = live /\ sview' = sview /\ tview' = tview
  BY <1>4 DEF Queue!Enqueue, Queue!branches
<1>6. EntryFor(x, nextTicket + 1, source, fork, live)
  <2>1. x.outcome = o /\ x.ticket = nextTicket /\ x.source = s /\ x.base = Queue!Base(s)
        /\ x = [ticket |-> x.ticket, source |-> x.source, base |-> x.base, outcome |-> x.outcome]
    OBVIOUS
  <2>2. ItemOk(x) /\ source[x.source] # <<>>
    BY <1>3, <1>4, <2>1 DEF ItemOk
  <2>3. x.source \in live => x.base = Queue!Some(fork[x.source])
    BY <2>1 DEF Queue!Base
  <2>4. nextTicket \in Nat
    BY <1>2 DEF EntriesOf
  <2> HIDE DEF x
  <2>5. QED
    BY <2>1, <2>2, <2>3, <2>4 DEF EntryFor
<1>7. x.source = s /\ x.ticket = nextTicket /\ x.outcome = o
  OBVIOUS
<1> HIDE DEF x
<1>8. /\ IsSeq(queued) /\ n \in Nat /\ DOMAIN queued = 1 .. n
      /\ IsSeq(queued') /\ Len(queued') = n + 1 /\ queued'[n + 1] = x /\ queued' = queued \o <<x>>
      /\ \A i \in 1 .. n : queued'[i] = queued[i]
  BY <1>2, <1>5, AppendIs, SeqShape DEF EntriesOf
<1>9. \A i \in 1 .. n + 1 : i \in 1 .. n \/ i = n + 1
  BY <1>8
<1>10. nextTicket \in Nat /\ \A i \in 1 .. n : queued[i].ticket \in Nat /\ queued[i].ticket < nextTicket
  BY <1>2 DEF EntriesOf, EntryFor
<1>11. \A i \in 1 .. n : queued[i].source # s
  BY <1>4, <1>8 DEF Queue!Position
<1>12. EntriesOf(queued', nextTicket', source', fork', live')
  <2>1. ASSUME NEW i \in 1 .. n PROVE EntryFor(queued[i], nextTicket + 1, source, fork, live)
    BY <1>2, <1>10 DEF EntriesOf, EntryFor
  <2>2. nextTicket + 1 \in Nat
    BY <1>10
  <2>3. QED
    BY <1>5, <1>6, <1>8, <1>9, <2>1, <2>2 DEF EntriesOf
<1>13. InLine(queued')
  <2>1. ASSUME NEW i \in 1 .. n + 1, NEW j \in 1 .. n + 1, i < j
        PROVE  queued'[i].source # queued'[j].source /\ queued'[i].ticket < queued'[j].ticket
    <3>1. i \in 1 .. n
      BY <1>8, <2>1
    <3>2. CASE j \in 1 .. n
      BY <1>2, <1>8, <2>1, <3>1, <3>2 DEF InLine
    <3>3. CASE j = n + 1
      BY <1>7, <1>8, <1>10, <1>11, <3>1, <3>3
    <3>4. QED
      BY <1>9, <3>2, <3>3
  <2>2. QED
    BY <1>8, <2>1 DEF InLine
<1>14. SureFirst(queued', sure', nextTicket')
  <2>1. \A t \in sure' : t \in Nat /\ t < nextTicket + 1
    BY <1>2, <1>5, <1>10 DEF SureFirst
  <2>2. ASSUME NEW i \in 1 .. n + 1, NEW j \in 1 .. n + 1, i < j, queued'[j].ticket \in sure'
        PROVE  queued'[i].ticket \in sure'
    <3>1. i \in 1 .. n /\ queued'[i] = queued[i]
      BY <1>8, <2>2
    <3>2. CASE j \in 1 .. n
      <4>1. queued[j].ticket \in sure
        BY <1>5, <1>8, <1>10, <2>2, <3>2
      <4>2. queued[i].ticket \in sure
        BY <1>2, <2>2, <3>1, <3>2, <4>1 DEF SureFirst
      <4>3. QED
        BY <1>5, <3>1, <4>2
    <3>3. CASE j = n + 1
      <4>1. nextTicket \in sure' /\ nextTicket \notin sure
        BY <1>2, <1>7, <1>8, <1>10, <2>2, <3>3 DEF SureFirst
      <4>2. \A k \in 1 .. n : queued[k].ticket \in sure
        BY <1>5, <1>8, <4>1
      <4>3. QED
        BY <1>5, <3>1, <4>2
    <3>4. QED
      BY <1>9, <3>2, <3>3
  <2>3. QED
    BY <1>5, <1>8, <2>1, <2>2 DEF SureFirst
<1>15. PromisesOf(queued', sure', target', tview', source', fork', live', sview')
  <2>1. ASSUME NEW i \in 1 .. n + 1, queued'[i].ticket \in sure'
        PROVE  PromiseFor(queued'[i], SubSeq(queued', 1, i - 1), target, tview, source, fork, live, sview)
    <3>1. i - 1 \in Nat /\ i - 1 <= n
      BY <1>8
    <3>2. SubSeq(queued', 1, i - 1) = SubSeq(queued, 1, i - 1)
      <4>1. IsSeq(<<x>>)
        BY OneIsSeq
      <4>2. QED
        BY <1>8, <3>1, <4>1, FrontOfJoin
    <3>3. CASE i \in 1 .. n
      <4>1. queued[i].ticket \in sure
        BY <1>5, <1>8, <1>10, <2>1, <3>3
      <4>2. QED
        BY <1>2, <1>8, <3>2, <3>3, <4>1 DEF PromisesOf
    <3>4. CASE i = n + 1
      <4>1. SubSeq(queued, 1, n) = queued
        <5>1. 1 \in Nat /\ 1 <= 1 /\ 1 <= n + 1 /\ n <= Len(queued) /\ n + 1 - 1 = n
          BY <1>8
        <5>2. /\ IsSeq(SubSeq(queued, 1, n)) /\ Len(SubSeq(queued, 1, n)) = n + 1 - 1
              /\ \A k \in 1 .. n + 1 - 1 : SubSeq(queued, 1, n)[k] = queued[1 + k - 1]
          BY <1>8, <5>1, PieceOf
        <5>3. \A k \in 1 .. n : SubSeq(queued, 1, n)[k] = queued[k]
          BY <1>8, <5>2
        <5>4. QED
          BY <1>8, <5>1, <5>2, <5>3, SameSeq
      <4>2. i - 1 = n /\ queued'[i] = x
        BY <1>8, <3>4
      <4>3. QED
        BY <1>7, <3>2, <4>1, <4>2 DEF PromiseFor, o
    <3>5. QED
      BY <1>9, <3>3, <3>4
  <2>2. QED
    BY <1>5, <1>8, <2>1 DEF PromisesOf
<1>16. HistoriesOf(target', tview', source', fork', live', sview')
  BY <1>2, <1>5
<1>17. QED
  BY <1>12, <1>13, <1>14, <1>15, <1>16 DEF QueueInv

LEMMA LeftEntries ==
  ASSUME NEW q, NEW q2, NEW f, LeftOf(q2, q, f), \A i \in 1 .. Len(q2) : q2[i] = q[f[i]],
         NEW next, NEW src, NEW fk, NEW lv, EntriesOf(q, next, src, fk, lv)
  PROVE  EntriesOf(q2, next, src, fk, lv)
<1>1. ASSUME NEW i \in 1 .. Len(q2) PROVE EntryFor(q2[i], next, src, fk, lv)
  <2>1. f[i] \in 1 .. Len(q)
    BY DEF LeftOf
  <2>2. QED
    BY <2>1 DEF EntriesOf
<1>2. QED
  BY <1>1 DEF EntriesOf, LeftOf

LEMMA WithoutOne ==
  ASSUME NEW q, IsSeq(q), NEW i \in 1 .. Len(q)
  PROVE  /\ IsSeq(Queue!RemoveAt(q, i)) /\ Len(Queue!RemoveAt(q, i)) = Len(q) - 1 /\ Len(q) \in Nat
         /\ \A j \in 1 .. Len(q) - 1 : Queue!RemoveAt(q, i)[j] = q[IF j < i THEN j ELSE j + 1]
         /\ \A j \in 1 .. i : SubSeq(Queue!RemoveAt(q, i), 1, j - 1) = SubSeq(q, 1, j - 1)
<1> DEFINE n == Len(q)
           a == SubSeq(q, 1, i - 1)
           b == SubSeq(q, i + 1, n)
           r == Queue!RemoveAt(q, i)
<1>1. n \in Nat /\ i \in Nat /\ 1 <= i /\ i <= n
  BY SeqShape
<1>2. r = a \o b
  BY DEF Queue!RemoveAt
<1>3. /\ IsSeq(a) /\ Len(a) = i - 1 /\ \A k \in 1 .. i - 1 : a[k] = q[k]
  <2>1. 1 \in Nat /\ i - 1 \in Nat /\ 1 <= 1 /\ 1 <= i - 1 + 1 /\ i - 1 <= Len(q) /\ i - 1 + 1 - 1 = i - 1
    BY <1>1
  <2>2. /\ IsSeq(a) /\ Len(a) = i - 1 + 1 - 1 /\ \A k \in 1 .. i - 1 + 1 - 1 : a[k] = q[1 + k - 1]
    BY <2>1, PieceOf
  <2> HIDE DEF a
  <2>3. QED
    BY <1>1, <2>1, <2>2
<1>4. /\ IsSeq(b) /\ Len(b) = n - i /\ \A k \in 1 .. n - i : b[k] = q[i + k]
  <2>1. i + 1 \in Nat /\ n \in Nat /\ 1 <= i + 1 /\ i + 1 <= n + 1 /\ n <= Len(q) /\ n + 1 - (i + 1) = n - i
    BY <1>1
  <2>2. /\ IsSeq(b) /\ Len(b) = n + 1 - (i + 1) /\ \A k \in 1 .. n + 1 - (i + 1) : b[k] = q[(i + 1) + k - 1]
    BY <2>1, PieceOf
  <2> HIDE DEF b
  <2>3. QED
    BY <1>1, <2>1, <2>2
<1> HIDE DEF a, b, r
<1>5. /\ IsSeq(r) /\ Len(r) = (i - 1) + (n - i)
      /\ \A k \in 1 .. i - 1 : r[k] = a[k]
      /\ \A k \in 1 .. n - i : r[(i - 1) + k] = b[k]
  <2>1. /\ IsSeq(a \o b) /\ Len(a \o b) = Len(a) + Len(b)
        /\ \A k \in 1 .. Len(a) : (a \o b)[k] = a[k]
        /\ \A k \in 1 .. Len(b) : (a \o b)[Len(a) + k] = b[k]
    <3>1. IsSeq(a) /\ IsSeq(b)
      BY <1>3, <1>4
    <3>2. QED
      BY ONLY <3>1, SeqJoin
  <2>2. QED
    BY <1>2, <1>3, <1>4, <2>1
<1>6. IsSeq(r) /\ Len(r) = n - 1
  BY <1>1, <1>5
<1>7. ASSUME NEW j \in 1 .. n - 1 PROVE r[j] = q[IF j < i THEN j ELSE j + 1]
  <2>1. CASE j < i
    BY <1>1, <1>3, <1>5, <2>1
  <2>2. CASE ~(j < i)
    <3>1. j - i + 1 \in 1 .. n - i /\ (i - 1) + (j - i + 1) = j /\ i + (j - i + 1) = j + 1
      BY <1>1, <2>2
    <3>2. r[(i - 1) + (j - i + 1)] = b[j - i + 1] /\ b[j - i + 1] = q[i + (j - i + 1)]
      BY <1>4, <1>5, <3>1
    <3>3. QED
      BY <2>2, <3>1, <3>2
  <2>3. QED
    BY <2>1, <2>2
<1>8. ASSUME NEW j \in 1 .. i PROVE SubSeq(r, 1, j - 1) = SubSeq(q, 1, j - 1)
  <2>1. j - 1 \in Nat /\ j - 1 <= Len(a)
    BY <1>1, <1>3
  <2>2. SubSeq(r, 1, j - 1) = SubSeq(a, 1, j - 1)
    BY <1>2, <1>3, <1>4, <2>1, FrontOfJoin
  <2>3. 1 \in Nat /\ 1 <= 1 /\ 1 <= (j - 1) + 1 /\ j - 1 <= Len(q)
    BY <1>1, <2>1
  <2>4. /\ IsSeq(SubSeq(a, 1, j - 1)) /\ Len(SubSeq(a, 1, j - 1)) = (j - 1) + 1 - 1
        /\ \A k \in 1 .. (j - 1) + 1 - 1 : SubSeq(a, 1, j - 1)[k] = a[1 + k - 1]
    BY <1>3, <2>1, <2>3, PieceOf
  <2>5. /\ IsSeq(SubSeq(q, 1, j - 1)) /\ Len(SubSeq(q, 1, j - 1)) = (j - 1) + 1 - 1
        /\ \A k \in 1 .. (j - 1) + 1 - 1 : SubSeq(q, 1, j - 1)[k] = q[1 + k - 1]
    BY <2>1, <2>3, PieceOf
  <2>6. \A k \in 1 .. (j - 1) + 1 - 1 : SubSeq(a, 1, j - 1)[k] = SubSeq(q, 1, j - 1)[k]
    <3> TAKE k \in 1 .. (j - 1) + 1 - 1
    <3>1. 1 + k - 1 = k /\ k \in 1 .. i - 1
      BY <1>1, <1>3, <2>1
    <3>2. QED
      BY <1>3, <2>4, <2>5, <3>1
  <2>7. SubSeq(a, 1, j - 1) = SubSeq(q, 1, j - 1)
    <3> DEFINE u == SubSeq(a, 1, j - 1)
               v == SubSeq(q, 1, j - 1)
    <3>1. IsSeq(u) /\ IsSeq(v) /\ Len(u) = Len(v) /\ \A k \in 1 .. Len(u) : u[k] = v[k]
      BY <2>4, <2>5, <2>6
    <3> HIDE DEF u, v
    <3>2. u = v
      BY <3>1, SameSeq
    <3>3. QED
      BY <3>2 DEF u, v
  <2>8. QED
    BY <2>2, <2>7
<1>9. QED
  BY <1>1, <1>6, <1>7, <1>8 DEF r

LEMMA WithdrawKeeps ==
  ASSUME QueueInv, NEW i, Queue!Withdraw(i)
  PROVE  QueueInv'
<1> DEFINE n == Len(queued)
           f == [j \in 1 .. n - 1 |-> IF j < i THEN j ELSE j + 1]
<1>1. HistoriesOf(target, tview, source, fork, live, sview) /\ EntriesOf(queued, nextTicket, source, fork, live)
      /\ InLine(queued) /\ SureFirst(queued, sure, nextTicket)
      /\ PromisesOf(queued, sure, target, tview, source, fork, live, sview)
  BY DEF QueueInv
<1>2. IsSeq(queued) /\ n \in Nat /\ DOMAIN queued = 1 .. n
  BY <1>1, SeqShape DEF EntriesOf
<1>3. /\ i \in 1 .. n /\ queued' = Queue!RemoveAt(queued, i)
      /\ sure' = {queued[j].ticket : j \in 1 .. i - 1} \cap sure
      /\ target' = target /\ source' = source /\ fork' = fork /\ live' = live /\ sview' = sview /\ tview' = tview
      /\ nextTicket' = nextTicket
  BY <1>2 DEF Queue!Withdraw, Queue!branches
<1>4. /\ IsSeq(queued') /\ Len(queued') = n - 1
      /\ \A j \in 1 .. n - 1 : queued'[j] = queued[IF j < i THEN j ELSE j + 1]
      /\ \A j \in 1 .. i : SubSeq(queued', 1, j - 1) = SubSeq(queued, 1, j - 1)
  BY <1>2, <1>3, WithoutOne
<1>5. f \in [1 .. n - 1 -> 1 .. n] /\ \A j \in 1 .. n - 1 : f[j] = IF j < i THEN j ELSE j + 1
  BY <1>2, <1>3
<1>6. \A j, k \in 1 .. n - 1 : j < k => f[j] < f[k]
  BY <1>2, <1>3, <1>5
<1> HIDE DEF f
<1>7. \A j \in 1 .. n - 1 : queued'[j] = queued[f[j]]
  BY <1>4, <1>5
<1>8. LeftOf(queued', queued, f)
  BY <1>4, <1>5, <1>6, <1>7 DEF LeftOf
<1>9. EntriesOf(queued', nextTicket, source, fork, live) /\ InLine(queued')
  BY <1>1, <1>4, <1>7, <1>8, LeftEntries, LeftInLine
\* What is still sure stood ahead of the one that is withdrawn.
<1>10. ASSUME NEW j \in 1 .. n - 1, queued'[j].ticket \in sure'
       PROVE  j < i /\ queued'[j] = queued[j] /\ queued[j].ticket \in sure
  <2>1. PICK k \in 1 .. i - 1 : queued[k].ticket = queued'[j].ticket
    BY <1>3, <1>10
  <2>2. queued[f[j]].ticket = queued[k].ticket /\ f[j] \in 1 .. n /\ k \in 1 .. n
    BY <1>2, <1>3, <1>5, <1>7, <2>1
  <2>3. f[j] = k
    <3>1. queued[f[j]].ticket \in Nat /\ queued[k].ticket \in Nat
      BY <1>1, <2>2 DEF EntriesOf, EntryFor
    <3>2. ~(f[j] < k) /\ ~(k < f[j])
      BY <1>1, <2>2, <3>1 DEF InLine
    <3>3. QED
      BY <1>2, <2>2, <3>2
  <2>4. j < i /\ f[j] = j
    BY <1>2, <1>3, <1>5, <2>1, <2>3
  <2>5. QED
    BY <1>3, <1>7, <1>10, <2>4
<1>11. SureFirst(queued', sure', nextTicket)
  <2>1. \A t \in sure' : t \in Nat /\ t < nextTicket
    BY <1>1, <1>3 DEF SureFirst
  <2>2. ASSUME NEW j \in 1 .. n - 1, NEW k \in 1 .. n - 1, j < k, queued'[k].ticket \in sure'
        PROVE  queued'[j].ticket \in sure'
    <3>1. k < i /\ queued[k].ticket \in sure
      BY <1>10, <2>2
    <3>2. j \in 1 .. i - 1 /\ j \in 1 .. n /\ k \in 1 .. n /\ queued'[j] = queued[j]
      BY <1>2, <1>3, <1>4, <2>2, <3>1
    <3>3. queued[j].ticket \in sure
      BY <1>1, <2>2, <3>1, <3>2 DEF SureFirst
    <3>4. QED
      BY <1>3, <3>2, <3>3
  <2>3. QED
    BY <1>4, <2>1, <2>2 DEF SureFirst
<1>12. PromisesOf(queued', sure', target, tview, source, fork, live, sview)
  <2>1. ASSUME NEW j \in 1 .. n - 1, queued'[j].ticket \in sure'
        PROVE  PromiseFor(queued'[j], SubSeq(queued', 1, j - 1), target, tview, source, fork, live, sview)
    <3>1. j < i /\ queued'[j] = queued[j] /\ queued[j].ticket \in sure
      BY <1>10, <2>1
    <3>2. j \in 1 .. i /\ j \in 1 .. n
      BY <1>2, <1>3, <3>1
    <3>3. QED
      BY <1>1, <1>4, <3>1, <3>2 DEF PromisesOf
  <2>2. QED
    BY <1>4, <2>1 DEF PromisesOf
<1>13. QED
  BY <1>1, <1>3, <1>9, <1>11, <1>12 DEF QueueInv

LEMMA OutcomeIs ==
  ASSUME NEW s, IsTable(tview)
  PROVE  Queue!Outcome(s) = Decide(s, <<>>, target, tview, source[s], fork[s], s \in live, sview[s])
<1>1. Queue!Speculative(<<>>) = tview /\ Queue!Pending(<<>>) = <<>>
  <2>1. Queue!Speculative(<<>>) = SpecOf(tview, <<>>)
    BY DEF Queue!Speculative, SpecOf
  <2>2. QED
    BY <2>1, NothingAhead
<1>2. Queue!Outcome(s) = Queue!Try(s, Queue!Base(s), Queue!Pending(<<>>), Queue!Speculative(<<>>))
  BY <1>1 DEF Queue!Outcome
<1>3. QED
  BY <1>2, AnswerIs DEF Answer

LEMMA TailIs ==
  ASSUME NEW q, IsSeq(q), q # <<>>
  PROVE  /\ IsSeq(Tail(q)) /\ Len(Tail(q)) = Len(q) - 1 /\ Len(q) \in Nat /\ 1 \in 1 .. Len(q) /\ Head(q) = q[1]
         /\ \A i \in 1 .. Len(q) - 1 : Tail(q)[i] = q[i + 1]
<1>1. PICK S : q \in Seq(S)
  BY DEF IsSeq
<1>2. /\ Tail(q) \in Seq(S) /\ Len(Tail(q)) = Len(q) - 1
      /\ \A i \in 1 .. Len(Tail(q)) : Tail(q)[i] = q[i + 1]
  BY <1>1, HeadTailProperties
<1>3. Len(q) \in Nat /\ Len(q) # 0 /\ Head(q) = q[1]
  BY <1>1
<1>4. QED
  BY <1>2, <1>3 DEF IsSeq

\* Ahead of a merge stand the head and those ahead of it among the rest.
LEMMA HeadAndRest ==
  ASSUME NEW q, IsSeq(q), q # <<>>, NEW i \in 1 .. Len(q) - 1
  PROVE  SubSeq(q, 1, i) = <<q[1]>> \o SubSeq(Tail(q), 1, i - 1)
<1> DEFINE r == Tail(q)
           a == SubSeq(q, 1, i)
           b == SubSeq(r, 1, i - 1)
<1>1. /\ IsSeq(r) /\ Len(r) = Len(q) - 1 /\ Len(q) \in Nat /\ \A k \in 1 .. Len(q) - 1 : r[k] = q[k + 1]
  BY TailIs
<1> HIDE DEF r
<1>2. 1 \in Nat /\ i \in Nat /\ i - 1 \in Nat /\ 1 <= 1 /\ 1 <= i + 1 /\ 1 <= (i - 1) + 1 /\ i <= Len(q) /\ i - 1 <= Len(r)
  BY <1>1
<1>3. /\ IsSeq(a) /\ Len(a) = i + 1 - 1 /\ \A k \in 1 .. i + 1 - 1 : a[k] = q[1 + k - 1]
  BY <1>2, PieceOf
<1>4. /\ IsSeq(b) /\ Len(b) = (i - 1) + 1 - 1 /\ \A k \in 1 .. (i - 1) + 1 - 1 : b[k] = r[1 + k - 1]
  BY <1>1, <1>2, PieceOf
<1> HIDE DEF a, b
<1>5. IsSeq(<<q[1]>>) /\ Len(<<q[1]>>) = 1 /\ <<q[1]>>[1] = q[1]
  BY OneIsSeq
<1> DEFINE c == <<q[1]>>
<1>6. /\ IsSeq(c \o b) /\ Len(c \o b) = i /\ (c \o b)[1] = q[1]
      /\ \A k \in 1 .. i - 1 : (c \o b)[1 + k] = b[k]
  <2>1. IsSeq(c) /\ IsSeq(b) /\ Len(c) = 1 /\ c[1] = q[1]
    BY <1>4, <1>5
  <2> HIDE DEF c
  <2>2. /\ IsSeq(c \o b) /\ Len(c \o b) = Len(c) + Len(b)
        /\ \A k \in 1 .. Len(c) : (c \o b)[k] = c[k]
        /\ \A k \in 1 .. Len(b) : (c \o b)[Len(c) + k] = b[k]
    <3>1. IsSeq(c) /\ IsSeq(b)
      BY <2>1
    <3>2. QED
      BY ONLY <3>1, SeqJoin
  <2>3. Len(b) = i - 1
    BY <1>2, <1>4
  <2>4. 1 + (i - 1) = i /\ 1 \in 1 .. 1
    BY <1>2
  <2>5. QED
    BY <2>1, <2>2, <2>3, <2>4
<1> HIDE DEF c
<1>7. ASSUME NEW k \in 1 .. i PROVE a[k] = (c \o b)[k]
  <2>1. a[k] = q[k]
    BY <1>2, <1>3
  <2>2. CASE k = 1
    BY <1>6, <2>1, <2>2
  <2>3. CASE k # 1
    <3>1. k - 1 \in 1 .. i - 1 /\ 1 + (k - 1) = k /\ k - 1 \in 1 .. Len(q) - 1 /\ (k - 1) + 1 = k
      BY <1>2, <2>3
    <3>2. (c \o b)[1 + (k - 1)] = b[k - 1]
      BY <1>6, <3>1
    <3>3. b[k - 1] = r[k - 1]
      <4>1. k - 1 \in 1 .. (i - 1) + 1 - 1 /\ 1 + (k - 1) - 1 = k - 1
        BY <1>2, <3>1
      <4>2. b[k - 1] = r[1 + (k - 1) - 1]
        BY <1>4, <4>1
      <4>3. QED
        BY <4>1, <4>2
    <3>4. r[k - 1] = q[(k - 1) + 1]
      BY <1>1, <3>1
    <3>5. QED
      BY <2>1, <3>1, <3>2, <3>3, <3>4
  <2>4. QED
    BY <2>2, <2>3
<1>8. Len(a) = i /\ IsSeq(a)
  BY <1>2, <1>3
<1>9. a = c \o b
  BY ONLY <1>6, <1>7, <1>8, SameSeq
<1>10. QED
  BY <1>9 DEF a, b, c, r

\* What landing does to the target is to add to its history.
LEMMA LongerTarget ==
  ASSUME NEW tg, NEW tv, NEW src, NEW fk, NEW lv, NEW sv, HistoriesOf(tg, tv, src, fk, lv, sv),
         NEW more, IsHistory(more), NEW tv2, IsTable(tv2)
  PROVE  HistoriesOf(tg \o more, tv2, src, fk, lv, sv)
<1>1. IsHistory(tg \o more)
  BY HistoryJoin DEF HistoriesOf
<1>2. Len(tg \o more) = Len(tg) + Len(more) /\ Len(tg) \in Nat /\ Len(more) \in Nat
  BY SeqJoin DEF HistoriesOf, IsHistory
<1>3. QED
  BY <1>1, <1>2 DEF HistoriesOf

LEMMA HeadLeaves ==
  ASSUME QueueInv, queued # <<>>, queued' = Tail(queued)
  PROVE  EntriesOf(queued', nextTicket, source, fork, live) /\ InLine(queued')
<1> DEFINE n == Len(queued)
           f == [j \in 1 .. n - 1 |-> j + 1]
<1>1. EntriesOf(queued, nextTicket, source, fork, live) /\ InLine(queued) /\ IsSeq(queued)
  BY DEF QueueInv, EntriesOf
<1>2. /\ IsSeq(queued') /\ Len(queued') = n - 1 /\ n \in Nat
      /\ \A i \in 1 .. n - 1 : queued'[i] = queued[i + 1]
  BY <1>1, TailIs
<1>3. f \in [1 .. n - 1 -> 1 .. n] /\ \A i \in 1 .. n - 1 : f[i] = i + 1
  BY <1>2
<1>4. \A i, j \in 1 .. n - 1 : i < j => f[i] < f[j]
  BY <1>2, <1>3
<1> HIDE DEF f
<1>5. \A i \in 1 .. n - 1 : queued'[i] = queued[f[i]]
  BY <1>2, <1>3
<1>6. LeftOf(queued', queued, f)
  BY <1>2, <1>3, <1>4, <1>5 DEF LeftOf
<1>7. QED
  BY <1>1, <1>2, <1>5, <1>6, LeftEntries, LeftInLine

LEMMA NothingSure ==
  ASSUME NEW q, NEW next, NEW tg, NEW tv, NEW src, NEW fk, NEW lv, NEW sv
  PROVE  SureFirst(q, {}, next) /\ PromisesOf(q, {}, tg, tv, src, fk, lv, sv)
BY DEF SureFirst, PromisesOf

LEMMA LandNextKeeps ==
  ASSUME QueueInv, Queue!MergeQueueAssumption, Queue!LandNext
  PROVE  QueueInv'
<1> DEFINE n == Len(queued)
           h == queued[1]
           s == h.source
           o == Decide(s, <<>>, target, tview, source[s], fork[s], s \in live, sview[s])
<1>1. HistoriesOf(target, tview, source, fork, live, sview) /\ EntriesOf(queued, nextTicket, source, fork, live)
      /\ InLine(queued) /\ SureFirst(queued, sure, nextTicket)
      /\ PromisesOf(queued, sure, target, tview, source, fork, live, sview)
  BY DEF QueueInv
<1>2. queued # <<>> /\ IsSeq(queued) /\ IsTable(tview) /\ IsHistory(target)
  BY <1>1 DEF Queue!LandNext, EntriesOf, HistoriesOf
<1>3. /\ n \in Nat /\ 1 \in 1 .. n /\ Head(queued) = h
      /\ IsSeq(Tail(queued)) /\ Len(Tail(queued)) = n - 1 /\ \A i \in 1 .. n - 1 : Tail(queued)[i] = queued[i + 1]
  BY <1>2, TailIs
<1>4. EntryFor(h, nextTicket, source, fork, live)
  BY <1>1, <1>3 DEF EntriesOf
<1>5. Queue!Outcome(s) = o
  BY <1>2, OutcomeIs
<1>6. OutcomeOk(o)
  <2>1. IsHistory(source[s]) /\ fork[s] \in Nat /\ fork[s] <= Len(target)
    BY <1>1, <1>4 DEF HistoriesOf, EntryFor
  <2>2. QED
    BY <1>2, <2>1, DecidesWell
<1> HIDE DEF o
<1>7. /\ queued' = Tail(queued)
      /\ IF o.status = "merged"
         THEN /\ target' = (target \o Queue!Landed(o)) \o <<Queue!Bookkeeping>>
              /\ tview' = Queue!Extend(tview, o.crdt)
         ELSE target' = target /\ tview' = tview
      /\ sure' = IF h.ticket \in sure THEN sure \ {h.ticket} ELSE {}
      /\ source' = source /\ fork' = fork /\ live' = live /\ sview' = sview /\ nextTicket' = nextTicket
  BY <1>3, <1>5 DEF Queue!LandNext, Queue!branches
<1> HIDE DEF s, h
<1>8. EntriesOf(queued', nextTicket', source', fork', live') /\ InLine(queued')
  BY <1>2, <1>7, HeadLeaves
<1>9. HistoriesOf(target', tview', source', fork', live', sview')
  <2>1. CASE o.status = "merged"
    <3>1. IsHistory(Queue!Landed(o))
      BY <1>6, <2>1, LandedIsHistory DEF OutcomeOk
    <3>2. IsHistory(<<Queue!Bookkeeping>>)
      <4>1. Queue!Bookkeeping.op # "transaction"
        BY DEF Queue!Bookkeeping
      <4>2. QED
        BY <4>1, OneIsSeq DEF IsHistory, EntryOk
    <3>3. target' = target \o (Queue!Landed(o) \o <<Queue!Bookkeeping>>)
      <4>1. IsSeq(target) /\ IsSeq(Queue!Landed(o)) /\ IsSeq(<<Queue!Bookkeeping>>)
        BY <1>2, <3>1, <3>2 DEF IsHistory
      <4>2. (target \o Queue!Landed(o)) \o <<Queue!Bookkeeping>> = target \o (Queue!Landed(o) \o <<Queue!Bookkeeping>>)
        BY <4>1, JoinAssociative
      <4>3. QED
        BY <1>7, <2>1, <4>2
    <3>4. IsHistory(Queue!Landed(o) \o <<Queue!Bookkeeping>>)
      BY <3>1, <3>2, HistoryJoin
    <3>5. IsTable(tview')
      BY <1>7, <2>1 DEF IsTable, Queue!Extend
    <3>6. QED
      BY <1>1, <1>7, <3>3, <3>4, <3>5, LongerTarget
  <2>2. CASE o.status # "merged"
    BY <1>1, <1>7, <2>2
  <2>3. QED
    BY <2>1, <2>2
<1>10. CASE h.ticket \notin sure
  <2>1. sure' = {}
    BY <1>7, <1>10
  <2>2. SureFirst(queued', sure', nextTicket') /\ PromisesOf(queued', sure', target', tview', source', fork', live', sview')
    BY <2>1, NothingSure
  <2>3. QED
    BY <1>8, <1>9, <2>2 DEF QueueInv
<1>11. CASE h.ticket \in sure
  <2>1. SubSeq(queued, 1, 1 - 1) = <<>>
    BY SubSeqEmpty
  <2>2. h.outcome = o
    <3>1. PromiseFor(h, SubSeq(queued, 1, 1 - 1), target, tview, source, fork, live, sview)
      BY <1>1, <1>3, <1>11 DEF PromisesOf, h
    <3>2. QED
      BY <2>1, <3>1 DEF PromiseFor, o, s
  <2>3. ItemOk(h) /\ o.status = "merged"
    BY <1>4, <2>2 DEF EntryFor, ItemOk
  <2>4. target' = (target \o Queue!Landed(h.outcome)) \o <<Queue!Bookkeeping>> /\ tview' = Queue!Extend(tview, h.outcome.crdt)
        /\ sure' = sure \ {h.ticket}
    BY <1>7, <1>11, <2>2, <2>3
  <2>5. ASSUME NEW i \in 1 .. n - 1 PROVE i + 1 \in 1 .. n /\ queued'[i] = queued[i + 1] /\ queued'[i].ticket # h.ticket
    <3>1. i + 1 \in 1 .. n /\ queued'[i] = queued[i + 1] /\ 1 < i + 1
      BY <1>3, <1>7
    <3>2. h.ticket < queued[i + 1].ticket /\ h.ticket \in Nat
      BY <1>1, <1>3, <1>4, <3>1 DEF InLine, h, EntryFor
    <3>3. QED
      BY <3>1, <3>2
  <2>6. SureFirst(queued', sure', nextTicket')
    <3>1. \A t \in sure' : t \in Nat /\ t < nextTicket
      BY <1>1, <2>4 DEF SureFirst
    <3>2. ASSUME NEW i \in 1 .. n - 1, NEW j \in 1 .. n - 1, i < j, queued'[j].ticket \in sure'
          PROVE  queued'[i].ticket \in sure'
      <4>1. queued[j + 1].ticket \in sure /\ i + 1 < j + 1
        BY <1>3, <2>4, <2>5, <3>2
      <4>2. queued[i + 1].ticket \in sure
        BY <1>1, <2>5, <4>1 DEF SureFirst
      <4>3. QED
        BY <2>4, <2>5, <4>2
    <3>3. QED
      BY <1>3, <1>7, <3>1, <3>2 DEF SureFirst
  <2>7. PromisesOf(queued', sure', target', tview', source', fork', live', sview')
    <3>1. ASSUME NEW i \in 1 .. n - 1, queued'[i].ticket \in sure'
          PROVE  PromiseFor(queued'[i], SubSeq(queued', 1, i - 1), target', tview', source, fork, live, sview)
      <4> DEFINE x == queued[i + 1]
                 t == x.source
                 ahead == SubSeq(Tail(queued), 1, i - 1)
      <4>1. i + 1 \in 1 .. n /\ queued'[i] = x /\ x.ticket \in sure /\ (i + 1) - 1 = i
        BY <1>3, <2>4, <2>5, <3>1
      <4>2. PromiseFor(x, SubSeq(queued, 1, i), target, tview, source, fork, live, sview)
        BY <1>1, <4>1 DEF PromisesOf
      <4>3. SubSeq(queued, 1, i) = <<h>> \o ahead
        BY <1>2, HeadAndRest DEF h
      <4>4. Items(ahead)
        <5>1. 1 \in Nat /\ i - 1 \in Nat /\ 1 <= 1 /\ 1 <= (i - 1) + 1 /\ i - 1 <= Len(Tail(queued))
          BY <1>3
        <5>2. /\ IsSeq(ahead) /\ Len(ahead) = (i - 1) + 1 - 1
              /\ \A k \in 1 .. (i - 1) + 1 - 1 : ahead[k] = Tail(queued)[1 + k - 1]
          BY <1>3, <5>1, PieceOf
        <5> HIDE DEF ahead
        <5>3. ASSUME NEW k \in 1 .. i - 1 PROVE ItemOk(ahead[k])
          <6>1. k \in 1 .. n - 1 /\ k + 1 \in 1 .. n /\ 1 + k - 1 = k /\ k \in 1 .. (i - 1) + 1 - 1
            BY <1>3
          <6>2. ahead[k] = queued[k + 1]
            BY <1>3, <5>2, <6>1
          <6>3. QED
            BY <1>1, <6>1, <6>2 DEF EntriesOf, EntryFor
        <5>4. Len(ahead) = i - 1
          BY <5>1, <5>2
        <5>5. QED
          BY <5>2, <5>3, <5>4 DEF Items
      <4>5. t \in MergeSources /\ fork[t] \in Nat /\ fork[t] <= Len(target)
        BY <1>1, <4>1 DEF EntriesOf, EntryFor, HistoriesOf
      <4>6. t # "target"
        BY <4>5 DEF Queue!MergeQueueAssumption
      <4> HIDE DEF ahead, t, x
      <4>7. Decide(t, ahead, (target \o Queue!Landed(h.outcome)) \o <<Queue!Bookkeeping>>,
                   Queue!Extend(tview, h.outcome.crdt), source[t], fork[t], t \in live, sview[t])
              = Decide(t, <<h>> \o ahead, target, tview, source[t], fork[t], t \in live, sview[t])
        BY <1>2, <2>3, <4>4, <4>5, <4>6, LandingShifts
      <4>8. x.outcome = Decide(t, <<h>> \o ahead, target, tview, source[t], fork[t], t \in live, sview[t])
        BY <4>2, <4>3 DEF PromiseFor, t
      <4>9. x.outcome = Decide(t, ahead, target', tview', source[t], fork[t], t \in live, sview[t])
        BY <2>4, <4>7, <4>8
      <4>10. SubSeq(queued', 1, i - 1) = ahead
        BY <1>7 DEF ahead
      <4>11. QED
        BY <4>1, <4>9, <4>10 DEF PromiseFor, t
    <3>2. QED
      BY <1>3, <1>7, <3>1 DEF PromisesOf
  <2>8. QED
    BY <1>8, <1>9, <2>6, <2>7 DEF QueueInv
<1>12. QED
  BY <1>10, <1>11

LEMMA LandFailsKeeps ==
  ASSUME QueueInv, NEW k, Queue!LandFails(k)
  PROVE  QueueInv'
<1> DEFINE s == Head(queued).source
           o == Decide(s, <<>>, target, tview, source[s], fork[s], s \in live, sview[s])
           L == Queue!Landed(o)
<1>1. HistoriesOf(target, tview, source, fork, live, sview) /\ EntriesOf(queued, nextTicket, source, fork, live)
  BY DEF QueueInv
<1>2. queued # <<>> /\ IsSeq(queued) /\ IsTable(tview) /\ IsHistory(target)
  BY <1>1 DEF Queue!LandFails, EntriesOf, HistoriesOf
<1>3. Head(queued) = queued[1] /\ 1 \in 1 .. Len(queued)
  BY <1>2, TailIs
<1>4. s \in MergeSources
  BY <1>1, <1>3 DEF EntriesOf, EntryFor
<1>5. Queue!Outcome(s) = o
  BY <1>2, OutcomeIs
<1>6. OutcomeOk(o)
  <2>1. IsHistory(source[s]) /\ fork[s] \in Nat /\ fork[s] <= Len(target)
    BY <1>1, <1>4 DEF HistoriesOf
  <2>2. QED
    BY <1>2, <2>1, DecidesWell
<1> HIDE DEF o
<1>7. /\ o.status = "merged" /\ k \in 0 .. Len(L) /\ target' = target \o SubSeq(L, 1, k)
      /\ queued' = Tail(queued) /\ sure' = {} /\ tview' = tview
      /\ source' = source /\ fork' = fork /\ live' = live /\ sview' = sview /\ nextTicket' = nextTicket
  BY <1>5 DEF Queue!LandFails, Queue!branches
<1>8. IsHistory(SubSeq(L, 1, k))
  <2>1. IsHistory(L)
    BY <1>6, <1>7, LandedIsHistory DEF OutcomeOk
  <2>2. Len(L) \in Nat
    BY <2>1, SeqShape DEF IsHistory
  <2>3. 1 \in Nat /\ k \in Nat /\ 1 <= 1 /\ 1 <= k + 1 /\ k <= Len(L)
    BY <1>7, <2>2
  <2> HIDE DEF L
  <2>4. QED
    BY <2>1, <2>3, PieceIsHistory
<1>9. HistoriesOf(target', tview', source', fork', live', sview')
  BY <1>1, <1>2, <1>7, <1>8, LongerTarget
<1>10. EntriesOf(queued', nextTicket', source', fork', live') /\ InLine(queued')
  BY <1>2, <1>7, HeadLeaves
<1>11. SureFirst(queued', sure', nextTicket') /\ PromisesOf(queued', sure', target', tview', source', fork', live', sview')
  BY <1>7, NothingSure
<1>12. QED
  BY <1>9, <1>10, <1>11 DEF QueueInv

(* Revalidation, a merge at a time.                                         *)
Keeps(K, q, n) == K = [i \in 0 .. n |-> IF i = 0 THEN <<>> ELSE Then(K[i - 1], Queue!Still(q[i], K[i - 1]))]

LEMMA KeepsExist ==
  ASSUME NEW n \in Nat, NEW q
  PROVE  \E K : Keeps(K, q, n)
<1> DEFINE Q == {m \in Nat : \E K : Keeps(K, q, m)}
<1>1. 0 \in Q
  <2>1. Keeps([i \in 0 .. 0 |-> <<>>], q, 0)
    BY DEF Keeps
  <2>2. QED
    BY <2>1
<1>2. ASSUME NEW m \in 1 .. n, m - 1 \in Q PROVE m \in Q
  <2>1. PICK K : Keeps(K, q, m - 1)
    BY <1>2
  <2> DEFINE next == Then(K[m - 1], Queue!Still(q[m], K[m - 1]))
             R == [i \in 0 .. m |-> IF i = m THEN next ELSE K[i]]
  <2>2. \A i \in 0 .. m - 1 : R[i] = K[i]
        /\ K[i] = IF i = 0 THEN <<>> ELSE Then(K[i - 1], Queue!Still(q[i], K[i - 1]))
    BY <2>1 DEF Keeps
  <2>3. R[m] = next /\ R = [i \in 0 .. m |-> R[i]]
    OBVIOUS
  <2> HIDE DEF R, next
  <2>4. ASSUME NEW i \in 0 .. m PROVE R[i] = IF i = 0 THEN <<>> ELSE Then(R[i - 1], Queue!Still(q[i], R[i - 1]))
    <3>1. CASE i = m
      <4>1. R[m - 1] = K[m - 1] /\ m # 0
        BY <2>2
      <4>2. QED
        BY <2>3, <3>1, <4>1 DEF next
    <3>2. CASE i # m
      <4>1. i \in 0 .. m - 1
        BY <3>2
      <4>2. i # 0 => i - 1 \in 0 .. m - 1
        BY <4>1
      <4>3. R[i] = K[i] /\ K[i] = IF i = 0 THEN <<>> ELSE Then(K[i - 1], Queue!Still(q[i], K[i - 1]))
        BY <2>2, <4>1
      <4>4. i # 0 => R[i - 1] = K[i - 1]
        BY <2>2, <4>2
      <4>5. QED
        BY <4>3, <4>4
    <3>3. QED
      BY <3>1, <3>2
  <2>5. R = [i \in 0 .. m |-> IF i = 0 THEN <<>> ELSE Then(R[i - 1], Queue!Still(q[i], R[i - 1]))]
    BY <2>3, <2>4
  <2>6. QED
    BY <2>5 DEF Keeps
<1> HIDE DEF Q
<1>3. n \in Q
  BY <1>1, <1>2, OneByOne
<1>4. QED
  BY <1>3 DEF Q

LEMMA KeptIs ==
  ASSUME NEW q, Len(q) \in Nat
  PROVE  \E K : Keeps(K, q, Len(q)) /\ Queue!Kept(q) = K[Len(q)]
<1> DEFINE n == Len(q)
           K == CHOOSE kept : Keeps(kept, q, n)
<1>1. Keeps(K, q, n)
  BY KeepsExist
<1>2. Queue!Kept(q) = K[n]
  BY DEF Queue!Kept, Keeps, Then
<1>3. QED
  BY <1>1, <1>2

\* What is kept of the first m: in their order, each as merging behind those kept
\* ahead of it comes to.
KeptWell(r, m, f) ==
  /\ IsSeq(r) /\ f \in [1 .. Len(r) -> 1 .. m]
  /\ \A i, j \in 1 .. Len(r) : i < j => f[i] < f[j]
  /\ \A i \in 1 .. Len(r) : /\ r[i].ticket = queued[f[i]].ticket /\ r[i].source = queued[f[i]].source
                            /\ EntryFor(r[i], nextTicket, source, fork, live)
                            /\ PromiseFor(r[i], SubSeq(r, 1, i - 1), target, tview, source, fork, live, sview)

LEMMA WholeOf == ASSUME NEW s, IsSeq(s) PROVE SubSeq(s, 1, Len(s)) = s
<1>1. PICK S : s \in Seq(S)
  BY DEF IsSeq
<1>2. QED
  BY <1>1, SubSeqFull

LEMMA StillIs ==
  ASSUME QueueInv, NEW m \in 1 .. Len(queued), NEW r
  PROVE  \/ Queue!Still(queued[m], r) = <<>>
         \/ \E y : /\ Queue!Still(queued[m], r) = <<y>>
                   /\ y.ticket = queued[m].ticket /\ y.source = queued[m].source
                   /\ EntryFor(y, nextTicket, source, fork, live)
                   /\ PromiseFor(y, r, target, tview, source, fork, live, sview)
<1> DEFINE x == queued[m]
           o == Decide(x.source, r, target, tview, source[x.source], fork[x.source], x.source \in live, sview[x.source])
           y == [x EXCEPT !.outcome = o]
<1>1. EntryFor(x, nextTicket, source, fork, live) /\ HistoriesOf(target, tview, source, fork, live, sview)
  BY DEF QueueInv, EntriesOf
<1>2. OutcomeOk(o)
  <2>1. IsHistory(target) /\ IsHistory(source[x.source]) /\ fork[x.source] \in Nat /\ fork[x.source] <= Len(target)
    BY <1>1 DEF HistoriesOf, EntryFor
  <2> HIDE DEF x
  <2>2. QED
    BY <2>1, DecidesWell
<1> HIDE DEF x
<1>3. CASE x.source \in live
  <2>1. x.base = Queue!Base(x.source)
    BY <1>1, <1>3 DEF EntryFor, Queue!Base
  <2>2. Queue!Try(x.source, x.base, Queue!Pending(r), Queue!Speculative(r)) = o
    BY <2>1, AnswerIs DEF Answer
  <2> HIDE DEF o
  <2>3. Queue!Still(x, r) = IF o.status = "merged" THEN <<y>> ELSE <<>>
    BY <1>3, <2>2 DEF Queue!Still
  <2>4. y = [ticket |-> x.ticket, source |-> x.source, base |-> x.base, outcome |-> o]
    <3>1. x = [ticket |-> x.ticket, source |-> x.source, base |-> x.base, outcome |-> x.outcome]
      BY <1>1 DEF EntryFor
    <3>2. QED
      BY <3>1
  <2>5. y.ticket = x.ticket /\ y.source = x.source /\ y.base = x.base /\ y.outcome = o
        /\ y = [ticket |-> y.ticket, source |-> y.source, base |-> y.base, outcome |-> y.outcome]
    BY <2>4
  <2> HIDE DEF y
  <2>6. PromiseFor(y, r, target, tview, source, fork, live, sview)
    BY <2>5 DEF PromiseFor, o
  <2>7. CASE o.status = "merged"
    <3>1. ItemOk(y)
      BY <1>2, <2>5, <2>7 DEF ItemOk
    <3>2. EntryFor(y, nextTicket, source, fork, live)
      BY <1>1, <2>5, <3>1 DEF EntryFor
    <3>3. QED
      BY <2>3, <2>5, <2>6, <2>7, <3>2 DEF x
  <2>8. CASE o.status # "merged"
    BY <2>3, <2>8 DEF x
  <2>9. QED
    BY <2>7, <2>8
<1>4. CASE x.source \notin live
  BY <1>4 DEF Queue!Still, x
<1>5. QED
  BY <1>3, <1>4

LEMMA KeptOneMore ==
  ASSUME QueueInv, NEW m \in 1 .. Len(queued), NEW r, NEW f, KeptWell(r, m - 1, f)
  PROVE  \E g : KeptWell(Then(r, Queue!Still(queued[m], r)), m, g)
<1>0. m \in Nat /\ IsSeq(r) /\ Len(r) \in Nat /\ f \in [1 .. Len(r) -> 1 .. m - 1]
  <2>1. Len(queued) \in Nat
    BY SeqShape DEF QueueInv, EntriesOf
  <2>2. QED
    BY <2>1, SeqShape DEF KeptWell
<1>1. CASE Queue!Still(queued[m], r) = <<>>
  <2>1. Then(r, Queue!Still(queued[m], r)) = r
    BY <1>0, <1>1, JoinEmpty DEF Then
  <2>2. f \in [1 .. Len(r) -> 1 .. m]
    BY <1>0
  <2>3. KeptWell(r, m, f)
    BY <2>2 DEF KeptWell
  <2>4. QED
    BY <2>1, <2>3
<1>2. CASE Queue!Still(queued[m], r) # <<>>
  <2>1. PICK y : /\ Queue!Still(queued[m], r) = <<y>>
                 /\ y.ticket = queued[m].ticket /\ y.source = queued[m].source
                 /\ EntryFor(y, nextTicket, source, fork, live)
                 /\ PromiseFor(y, r, target, tview, source, fork, live, sview)
    BY <1>2, StillIs
  <2> DEFINE n == Len(r)
             t == r \o <<y>>
             g == [i \in 1 .. n + 1 |-> IF i = n + 1 THEN m ELSE f[i]]
  <2>2. Then(r, Queue!Still(queued[m], r)) = t
    BY <2>1 DEF Then
  <2>3. /\ IsSeq(t) /\ Len(t) = n + 1 /\ t[n + 1] = y /\ \A i \in 1 .. n : t[i] = r[i]
    <3>1. t = Append(r, y)
      BY <1>0, AppendIs
    <3> HIDE DEF t
    <3>2. QED
      BY <1>0, <3>1, AppendIs
  <2>4. g \in [1 .. n + 1 -> 1 .. m] /\ g[n + 1] = m /\ \A i \in 1 .. n : g[i] = f[i] /\ f[i] < m
    BY <1>0
  <2>5. IsSeq(<<y>>)
    BY OneIsSeq
  <2> HIDE DEF t, g
  <2>6. \A i \in 1 .. n + 1 : i \in 1 .. n \/ i = n + 1
    BY <1>0
  <2>7. ASSUME NEW i \in 1 .. n + 1, NEW j \in 1 .. n + 1, i < j PROVE g[i] < g[j]
    <3>1. i \in 1 .. n
      BY <1>0, <2>7
    <3>2. CASE j \in 1 .. n
      BY <2>4, <2>7, <3>1, <3>2 DEF KeptWell
    <3>3. CASE j = n + 1
      BY <2>4, <3>1, <3>3
    <3>4. QED
      BY <2>6, <3>2, <3>3
  <2>8. ASSUME NEW i \in 1 .. n + 1 PROVE SubSeq(t, 1, i - 1) = SubSeq(r, 1, i - 1)
    <3>1. i - 1 \in Nat /\ i - 1 <= n
      BY <1>0
    <3>2. QED
      BY <1>0, <2>5, <3>1, FrontOfJoin DEF t
  <2>9. ASSUME NEW i \in 1 .. n + 1
        PROVE  /\ t[i].ticket = queued[g[i]].ticket /\ t[i].source = queued[g[i]].source
               /\ EntryFor(t[i], nextTicket, source, fork, live)
               /\ PromiseFor(t[i], SubSeq(t, 1, i - 1), target, tview, source, fork, live, sview)
    <3>1. CASE i \in 1 .. n
      <4>1. t[i] = r[i] /\ g[i] = f[i] /\ SubSeq(t, 1, i - 1) = SubSeq(r, 1, i - 1)
        BY <2>3, <2>4, <2>8, <3>1
      <4>2. /\ r[i].ticket = queued[f[i]].ticket /\ r[i].source = queued[f[i]].source
            /\ EntryFor(r[i], nextTicket, source, fork, live)
            /\ PromiseFor(r[i], SubSeq(r, 1, i - 1), target, tview, source, fork, live, sview)
        BY <3>1 DEF KeptWell
      <4>3. QED
        BY <4>1, <4>2
    <3>2. CASE i = n + 1
      <4>1. i - 1 = n /\ SubSeq(t, 1, i - 1) = r
        BY <1>0, <2>8, <3>2, WholeOf
      <4>2. QED
        BY <2>1, <2>3, <2>4, <3>2, <4>1
    <3>3. QED
      BY <2>6, <3>1, <3>2
  <2>10. KeptWell(t, m, g)
    BY <2>3, <2>4, <2>7, <2>9 DEF KeptWell
  <2>11. QED
    BY <2>2, <2>10
<1>3. QED
  BY <1>1, <1>2

LEMMA AllKeptWell ==
  ASSUME QueueInv
  PROVE  \E f : KeptWell(Queue!Kept(queued), Len(queued), f)
<1> DEFINE n == Len(queued)
<1>1. n \in Nat
  BY SeqShape DEF QueueInv, EntriesOf
<1>2. PICK K : Keeps(K, queued, n) /\ Queue!Kept(queued) = K[n]
  BY <1>1, KeptIs
<1>3. K[0] = <<>> /\ \A i \in 1 .. n : K[i] = Then(K[i - 1], Queue!Still(queued[i], K[i - 1]))
  BY <1>1, <1>2 DEF Keeps
<1> DEFINE Q == {m \in 0 .. n : \E f : KeptWell(K[m], m, f)}
<1>4. 0 \in Q
  <2>1. IsSeq(<<>>) /\ Len(<<>>) = 0
    BY JoinEmpty, OneIsSeq
  <2>2. KeptWell(<<>>, 0, [i \in 1 .. 0 |-> 0])
    BY <2>1 DEF KeptWell
  <2>3. QED
    BY <1>1, <1>3, <2>2
<1>5. ASSUME NEW m \in 1 .. n, m - 1 \in Q PROVE m \in Q
  <2>1. PICK f : KeptWell(K[m - 1], m - 1, f)
    BY <1>5
  <2>2. PICK g : KeptWell(Then(K[m - 1], Queue!Still(queued[m], K[m - 1])), m, g)
    BY <2>1, KeptOneMore
  <2>3. KeptWell(K[m], m, g) /\ m \in 0 .. n
    BY <1>1, <1>3, <2>2
  <2>4. QED
    BY <2>3
<1> HIDE DEF Q
<1>6. n \in Q
  BY <1>1, <1>4, <1>5, OneByOne
<1>7. QED
  BY <1>2, <1>6 DEF Q

LEMMA RevalidateKeeps ==
  ASSUME QueueInv, Queue!Revalidate
  PROVE  QueueInv'
<1>1. PICK f : KeptWell(Queue!Kept(queued), Len(queued), f)
  BY AllKeptWell
<1>2. /\ queued' = Queue!Kept(queued)
      /\ sure' = {queued'[i].ticket : i \in DOMAIN queued'}
      /\ target' = target /\ source' = source /\ fork' = fork /\ live' = live /\ sview' = sview /\ tview' = tview
      /\ nextTicket' = nextTicket
  BY DEF Queue!Revalidate, Queue!branches
<1>3. KeptWell(queued', Len(queued), f)
  BY <1>1, <1>2
<1>4. IsSeq(queued') /\ DOMAIN queued' = 1 .. Len(queued')
  BY <1>3, SeqShape DEF KeptWell
<1>5. InLine(queued) /\ nextTicket \in Nat /\ HistoriesOf(target, tview, source, fork, live, sview)
  BY DEF QueueInv, EntriesOf
<1>6. LeftOf(queued', queued, f)
  BY <1>3 DEF KeptWell, LeftOf
<1>7. InLine(queued')
  BY <1>5, <1>6, LeftInLine
<1>8. EntriesOf(queued', nextTicket', source', fork', live')
  BY <1>2, <1>3, <1>5 DEF KeptWell, EntriesOf
<1>9. SureFirst(queued', sure', nextTicket')
  <2>1. \A t \in sure' : t \in Nat /\ t < nextTicket
    BY <1>2, <1>3, <1>4 DEF KeptWell, EntryFor
  <2>2. QED
    BY <1>2, <1>4, <2>1 DEF SureFirst
<1>10. PromisesOf(queued', sure', target', tview', source', fork', live', sview')
  BY <1>2, <1>3 DEF KeptWell, PromisesOf
<1>11. QED
  BY <1>2, <1>5, <1>7, <1>8, <1>9, <1>10 DEF QueueInv

LEMMA QueueStep ==
  ASSUME QueueInv, Queue!MergeQueueAssumption, [Queue!Next]_(Queue!vars)
  PROVE  QueueInv'
<1>1. CASE UNCHANGED Queue!vars
  BY <1>1 DEF Queue!vars, QueueInv
<1>2. ASSUME NEW o \in TargetWrites \cup SourceWrites PROVE EntryOk(o)
  BY <1>2 DEF Queue!MergeQueueAssumption, EntryOk, IsSeq
<1>3. CASE Queue!Next
  <2>1. ASSUME NEW s \in MergeSources, Queue!Fork(s) PROVE QueueInv'
    BY <2>1, ForkKeeps
  <2>2. ASSUME NEW s \in MergeSources, Queue!Discard(s) PROVE QueueInv'
    BY <2>2, DiscardKeeps
  <2>3. ASSUME NEW s \in MergeSources, Queue!Enqueue(s) PROVE QueueInv'
    BY <2>3, EnqueueKeeps
  <2>4. ASSUME NEW o \in TargetWrites, Queue!WriteTarget(o) PROVE QueueInv'
    BY <1>2, <2>4, WriteTargetKeeps
  <2>5. ASSUME NEW s \in MergeSources, NEW o \in SourceWrites, Queue!WriteSource(s, o) PROVE QueueInv'
    BY <1>2, <2>5, WriteSourceKeeps
  <2>6. ASSUME NEW i, Queue!Withdraw(i) PROVE QueueInv'
    BY <2>6, WithdrawKeeps
  <2>7. CASE Queue!Revalidate
    BY <2>7, RevalidateKeeps
  <2>8. CASE Queue!LandNext
    BY <2>8, LandNextKeeps
  <2>9. ASSUME NEW k, Queue!LandFails(k) PROVE QueueInv'
    BY <2>9, LandFailsKeeps
  <2>10. QED
    BY <1>3, <2>1, <2>2, <2>3, <2>4, <2>5, <2>6, <2>7, <2>8, <2>9 DEF Queue!Next
<1>4. QED
  BY <1>1, <1>3

LEMMA QueueInvImplies ==
  ASSUME QueueInv
  PROVE  Queue!PromiseKept /\ Queue!QueueOrdered
<1>1. IsSeq(queued) /\ DOMAIN queued = 1 .. Len(queued) /\ IsTable(tview)
  BY SeqShape DEF QueueInv, EntriesOf, HistoriesOf
<1>2. Queue!QueueOrdered
  BY <1>1 DEF Queue!QueueOrdered, QueueInv, InLine
<1>3. ASSUME queued # <<>>, Head(queued).ticket \in sure
      PROVE  Queue!Outcome(Head(queued).source) = Head(queued).outcome
  <2> DEFINE h == queued[1]
  <2>1. Head(queued) = h /\ 1 \in 1 .. Len(queued)
    BY <1>1, <1>3, TailIs
  <2>2. SubSeq(queued, 1, 1 - 1) = <<>>
    BY SubSeqEmpty
  <2>3. PromiseFor(h, <<>>, target, tview, source, fork, live, sview)
    <3>1. PromiseFor(h, SubSeq(queued, 1, 1 - 1), target, tview, source, fork, live, sview)
      BY <1>3, <2>1 DEF QueueInv, PromisesOf
    <3>2. QED
      BY <2>2, <3>1
  <2> HIDE DEF h
  <2>4. QED
    BY <1>1, <2>1, <2>3, OutcomeIs DEF PromiseFor
<1>4. QED
  BY <1>2, <1>3 DEF Queue!PromiseKept

(* A merge that nothing has disturbed since the queue answered for it lands with *)
(* exactly the outcome it was given, however many landed before it and whatever  *)
(* the histories, the operations and the conflicts; and no source stands in line *)
(* twice, nor tickets out of order (mergequeue.rs, engine.rs' land_next_merge).  *)
(* This is the queue's side of QueuePromises.                                    *)
THEOREM TheQueueKeepsItsPromises ==
  ASSUME Queue!MergeQueueAssumption
  PROVE  Queue!Spec /\ [](part = "queue") => []QueuePromises
<1>1. Queue!Init => QueueInv
  BY QueueBegins
<1>2. QueueInv /\ [Queue!Next]_(Queue!vars) => QueueInv'
  BY QueueStep
<1>3. QueueInv /\ part = "queue" => QueuePromises
  BY QueueInvImplies DEF QueuePromises
<1>4. QED
  BY <1>1, <1>2, <1>3, PTL DEF Queue!Spec
=============================================================================
