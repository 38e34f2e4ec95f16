------------------------------ MODULE Safety -------------------------------
(* Gating on one instance: what the engine does when a change is proposed,     *)
(* with or without a claim, applied, and when the owner pushes a policy; what  *)
(* the audit trail keeps of it and the queue a reviewer sees (thetad engine.rs *)
(* 705-746, 1080-1390, 2202-2252; theta-safety audit.rs and signed.rs).        *)
(* Shadow branches, the review budget and the breaker are Proposals'.          *)
EXTENDS Gates

CONSTANTS
  Branches, Protected,  \* the branches, and those that are protected
  Opening,              \* the view each branch holds when the engine opens
  Writes,               \* operations on rows, each taken on some branch
  Changes,              \* the changes that may be proposed
  Claims,               \* the claims that may go with them
  Configured,           \* the policy the instance was configured with
  Pushes,               \* signed pushes, of [version, project, genuine, policy]
  Project,              \* the project this instance serves
  ConfirmCost, ShadowCost,
  Capacity,             \* RECENT_CAPACITY
  MaxWrites, MaxRecords, MaxLives  \* bounds
Policies == {Configured} \cup {p.policy : p \in Pushes}
Kinds == {"AddTable", "DropTable", "AddColumn", "DropColumn", "RenameColumn", "AddIndex",
          "DropIndex", "ty", "nullable", "crdt"}
SafetyAssumption ==
  /\ Protected \subseteq Branches
  /\ {ConfirmCost, ShadowCost, MaxWrites, MaxRecords, MaxLives} \subseteq Nat
  /\ Capacity \in Nat \ {0}
  /\ {"keys", "crdts"} \subseteq DOMAIN Opening
  /\ \A op \in Writes : op.op \in {"Put", "Delete", "Crdt"}
  /\ \A c \in Changes :
       /\ c.kind \in Kinds
       /\ c.kind = "nullable" => c.to \in BOOLEAN
       /\ c.kind \in {"ty", "nullable"} => c.column # ""
  /\ \A c \in Claims :
       c.kind \in {"type", "present", "empty"} /\ (c.kind # "empty" => c.column # "")
  /\ \A p \in Pushes : p.version \in Nat
  /\ \A p \in Policies : {p.row, p.shadow} \subseteq Nat

VARIABLES
  views,     \* each branch's materialized view
  edits,     \* how many entries each branch has had appended
  sync,      \* PolicySync: the policy in force and its version
  pending,   \* Engine.pending: [id |-> proposal]
  trail,     \* the audit trail's recent window
  total,     \* and how many entries it has in all
  lives
vars == <<views, edits, sync, pending, trail, total, lives>>

Init ==
  /\ views = [b \in Branches |-> Opening]
  /\ edits = [b \in Branches |-> 0]
  /\ sync = [version |-> 0, policy |-> Configured]
  /\ pending = <<>>
  /\ trail = <<>>
  /\ total = 0
  /\ lives = 0

(* ChangeId::of: the change and its branch, so proposing it again takes the    *)
(* same place in the queue.                                                    *)
ChangeId(b, change) == <<b, change>>

Recent(entries) ==
  IF Len(entries) > Capacity THEN SubSeq(entries, Len(entries) - Capacity + 1, Len(entries))
  ELSE entries
Record(entry) ==
  /\ total < MaxRecords
  /\ trail' = Recent(Append(trail, entry))
  /\ total' = total + 1

AppendTo(b, op) ==
  /\ views' = [views EXCEPT ![b] = ApplyOne(@, op, edits[b] + 1)]
  /\ edits' = [edits EXCEPT ![b] = @ + 1]

DiffOf(b, change) ==
  Diff(change, RowsAffected(views[b], change), sync.policy, b \in Protected)

(* with_decision: the inputs of the classification and the gate it gave, the   *)
(* gate before any claim. The policy is kept here for the properties only.     *)
Decision(b, change, diff, lowered) ==
  [kind |-> "decision", change |-> change, rows |-> diff.rows, protected |-> b \in Protected,
   gate |-> diff.gate, lowered |-> lowered, under |-> sync.policy]
Other(kind) == [kind |-> kind]

\* ----------------------------------------------------------------- actions
RowOp(b, op) ==
  /\ edits[b] < MaxWrites
  /\ op.op = "Put" => RowTypeChecks(views[b], op.key[1], op.row)
  /\ AppendTo(b, op)
  /\ UNCHANGED <<sync, pending, trail, total, lives>>

Hold(b, change, diff, classified, claim) ==
  LET held == ChangeId(b, change)
  IN  pending' = [id \in DOMAIN pending \cup {held} |->
        IF id = held
        THEN [branch |-> b, change |-> change, diff |-> diff, classified |-> classified,
              claim |-> claim, at |-> edits[b]]
        ELSE pending[id]]
NoClaim == [kind |-> "none", table |-> "", column |-> ""]

ProposeSchemaChange(b, change) ==
  LET diff == DiffOf(b, change)
  IN  /\ Record(Decision(b, change, diff, FALSE))
      /\ Hold(b, change, diff, diff.gate, NoClaim)
      /\ UNCHANGED <<views, edits, sync, lives>>

ProposeWithClaim(b, change, claim) ==
  LET diff == DiffOf(b, change)
      gate == Lowered(diff.gate, change, Verify(claim, change, views[b]))
  IN  /\ Record(Decision(b, change, diff, gate # diff.gate))
      /\ Hold(b, change, [diff EXCEPT !.gate = gate], diff.gate, claim)
      /\ UNCHANGED <<views, edits, sync, lives>>

(* The gate is the one the proposal was given; an unconfirmed Confirm, and any *)
(* ShadowValidate, are refused and change nothing.                             *)
ApplySchemaChange(id, confirm) ==
  LET p == pending[id]
  IN  /\ edits[p.branch] < MaxWrites
      /\ p.diff.gate # "shadow"
      /\ p.diff.gate = "confirm" => confirm
      /\ pending' = Drop(pending, {id})
      /\ AppendTo(p.branch, [op |-> "Schema", change |-> p.change])
      /\ UNCHANGED <<sync, trail, total, lives>>

(* What else the trail is told of a change: its validation on a shadow branch  *)
(* (AuditEntry::for_validation), which also names the change.                  *)
Validate(id) ==
  /\ pending[id].diff.gate = "shadow"
  /\ Record(Other("validation"))
  /\ UNCHANGED <<views, edits, sync, pending, lives>>

(* A push is verified with the keys the instance holds, then accepted if it is *)
(* for this project and newer than what is held (SignedPolicy::verify,         *)
(* PolicySync::apply); anything else changes nothing.                          *)
Genuine(push) == push.genuine
Newer(push) == push.project = Project /\ push.version > sync.version
ApplySignedPolicy(push) ==
  /\ Genuine(push) /\ Newer(push)
  /\ sync' = [version |-> push.version, policy |-> push.policy]
  /\ Record(Other("policy"))
  /\ UNCHANGED <<views, edits, pending, lives>>

(* The trail and the log are on disk; proposals and the pushed policy are not. *)
Restart ==
  /\ lives < MaxLives
  /\ lives' = lives + 1
  /\ sync' = [version |-> 0, policy |-> Configured]
  /\ pending' = <<>>
  /\ UNCHANGED <<views, edits, trail, total>>

Next ==
  \/ \E b \in Branches, op \in Writes : RowOp(b, op)
  \/ \E b \in Branches, c \in Changes : ProposeSchemaChange(b, c)
  \/ \E b \in Branches, c \in Changes, claim \in Claims : ProposeWithClaim(b, c, claim)
  \/ \E id \in DOMAIN pending, confirm \in BOOLEAN : ApplySchemaChange(id, confirm)
  \/ \E id \in DOMAIN pending : Validate(id)
  \/ \E push \in Pushes : ApplySignedPolicy(push)
  \/ Restart
Spec == Init /\ [][Next]_vars

\* ----------------------------------------------------------------- queries
(* review_queue                                                                *)
Waiting == {[id |-> id, diff |-> pending[id].diff] :
              id \in {i \in DOMAIN pending : pending[i].diff.gate # "auto"}}
ReviewQueue == Triage(Waiting, ConfirmCost, ShadowCost)

(* recorded_decisions: the places of those that can be replayed, and how many  *)
(* entries described a classification and cannot be.                           *)
Recorded == {i \in DOMAIN trail : trail[i].kind = "decision"}
DescribesAClassification(e) == e.kind \in {"decision", "validation"}
NotReplayable == Cardinality({i \in DOMAIN trail : DescribesAClassification(trail[i])} \ Recorded)

\* -------------------------------------------------------------- properties
TypeOK ==
  /\ DOMAIN views = Branches /\ edits \in [Branches -> 0..MaxWrites]
  /\ sync.version \in Nat
  /\ Len(trail) <= Capacity /\ Len(trail) <= total /\ total <= MaxRecords
  /\ \A id \in DOMAIN pending : pending[id].branch \in Branches

(* A change whose gate a claim about that very constraint lowered, applied     *)
(* before its branch moves, leaves no row of its table in breach of it.        *)
Lowers(p) == p.diff.gate # p.classified
Applied(p) == ApplySchema(views[p.branch], p.change)
Satisfied(v, change) ==
  \A r \in RowsOf(v, change.table) :
    IF change.kind = "ty" THEN FitsIn(r[2], change.column, change.to)
    ELSE HasColumn(r[2], change.column)
OwnClaim(p) ==
  p.claim.kind \in {"empty", IF p.change.kind = "ty" THEN "type" ELSE "present"}
ClaimsLoseNothing ==
  \A id \in DOMAIN pending :
    LET p == pending[id]
    IN  Lowers(p) /\ p.at = edits[p.branch] /\ OwnClaim(p) => Satisfied(Applied(p), p.change)

(* A claim only ever lowers a change of type or a NOT NULL, and to AutoApply: a*)
(* drop is still a drop, and no claim makes a gate stricter. A widening over   *)
(* too many rows is lowered too, as proof.rs apply has it.                     *)
ADropIsStillADrop ==
  \A id \in DOMAIN pending :
    LET p == pending[id]
    IN  Lowers(p) => p.diff.gate = "auto" /\ ~Drops(p.change) /\ ~AddsNothing(p.change)

(* Every recorded decision, replayed under the policy that was in force,       *)
(* agrees: claims and re-proposals do not disturb the record.                  *)
ReplayAgrees == \A i \in Recorded : Divergence(trail[i], trail[i].under) = "same"

(* The queue hides nothing and softens nothing: every waiting change is in     *)
(* exactly one batch, its table's, under a gate no weaker than its own; a      *)
(* batch costs no more than its members and comes before any weaker one.       *)
QueueIsHonest ==
  LET q == ReviewQueue
      In(i) == {q[i].members[j] : j \in DOMAIN q[i].members}
  IN  /\ UNION {In(i) : i \in DOMAIN q} = Waiting
      /\ \A i \in DOMAIN q :
           /\ Len(q[i].members) = Cardinality(In(i)) /\ q[i].cost <= q[i].alone
           /\ \A m \in In(i) :
                m.diff.table = q[i].table /\ Strictness[m.diff.gate] <= Strictness[q[i].gate]
           /\ \A j \in DOMAIN q : i < j =>
                q[i].table # q[j].table /\ Strictness[q[i].gate] >= Strictness[q[j].gate]

(* Under the policy in force, touching more rows never makes a gate weaker,    *)
(* protecting a branch never does, and the reason given belongs to the gate.   *)
Rows == 0..(MaxShadow + 1)
GatesAreMonotone ==
  \A c \in Changes, p \in BOOLEAN :
    LET At_(n, protected) == Diff(c, n, sync.policy, protected)
    IN  \A n \in Rows :
          /\ n > 0 => Strictness[At_(n - 1, p).gate] <= Strictness[At_(n, p).gate]
          /\ Strictness[At_(n, FALSE).gate] <= Strictness[At_(n, TRUE).gate]
          /\ At_(n, p).gate = "shadow" <=> At_(n, p).rule = "IrreversibleOverShadowThreshold"
          /\ At_(n, p).gate = "auto" <=> At_(n, p).remedy = "none"
          /\ At_(n, p).rule = "AutoApprovedByPolicy" => ~p

(* What the gates promise, whatever is written, proposed, claimed or pushed.   *)
GatesHold == ClaimsLoseNothing /\ ADropIsStillADrop /\ ReplayAgrees /\ GatesAreMonotone

(* While the engine runs, a push that is applied is newer than every push this *)
(* life applied before it; one for another project, or forged, changes nothing.*)
MovesForward ==
  lives' = lives =>
    \/ sync' = sync
    \/ sync'.version > sync.version
       /\ \E p \in Pushes : p.genuine /\ p.project = Project /\ p.version = sync'.version
                            /\ p.policy = sync'.policy
=============================================================================
