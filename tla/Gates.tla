------------------------------- MODULE Gates -------------------------------
(* What decides whether a schema change needs a person: how many rows it       *)
(* touches (thetad impact.rs), its classification and gate (theta-safety       *)
(* classify.rs, policy.rs, diff.rs), the reason given for it (rationale.rs),   *)
(* the claims that may lower it (proof.rs), the batches a reviewer sees        *)
(* (triage.rs) and the replay of recorded decisions (replay.rs).               *)
(* Changes are those of View; an altered type also names the type it says it   *)
(* comes from, a nullability whether it brings a backfill.                     *)
EXTENDS View

CONSTANTS
  Floor,            \* SafetyPolicy::protected: [row |-> Nat, shadow |-> Nat]
  MaxShadow         \* MAX_IRREVERSIBLE_SHADOW_THRESHOLD
GatesAssumption ==
  Floor \in [row : Nat, shadow : Nat] /\ MaxShadow \in Nat /\ Floor.shadow <= MaxShadow

AddsNothing(change) == change.kind \in {"AddTable", "AddColumn", "AddIndex", "crdt"}
Drops(change) == change.kind \in {"DropTable", "DropColumn"}

\* ------------------------------------------------------------------ impact
(* Plain rows and CRDT rows of the table both count.                           *)
RowsOf(v, t) ==
  {<<k, v.keys[k]>> : k \in KeysOf(v.keys, t)}
    \cup {<<k, Bare(CrdtValue(v.crdts[k]))>> : k \in KeysOf(v.crdts, t)}
PlainRows(v, t) == [k \in KeysOf(v.keys, t) |-> v.keys[k]]
CrdtRows(v, t) == [k \in KeysOf(v.crdts, t) |-> Bare(CrdtValue(v.crdts[k]))]

Count(v, t, Keep(_)) ==
  Cardinality({k \in KeysOf(v.keys, t) : Keep(PlainRows(v, t)[k])})
    + Cardinality({k \in KeysOf(v.crdts, t) : Keep(CrdtRows(v, t)[k])})

RowsAffected(v, change) ==
  LET With(row) == HasColumn(row, change.column)
      Without(row) == ~HasColumn(row, change.column)
  IN  CASE change.kind = "DropTable" -> Count(v, change.table, LAMBDA row : TRUE)
        [] change.kind \in {"DropColumn", "RenameColumn", "ty"} -> Count(v, change.table, With)
        [] change.kind = "nullable" /\ ~change.to -> Count(v, change.table, Without)
        [] OTHER -> 0

\* ---------------------------------------------------------- classification
(* The widening lattice, the one sanctioned change of type.                    *)
Widens(from, to) ==
  \/ from = to
  \/ from = "null"
  \/ <<from, to>> \in {<<"int", "float">>, <<"int", "text">>, <<"bool", "text">>,
                       <<"timestamp", "int">>}

Reversible(change) ==
  CASE Drops(change)             -> FALSE
    [] change.kind = "nullable"  -> change.to
    [] change.kind = "ty"        -> Widens(change.from, change.to)
    [] OTHER                     -> TRUE

Classify(change) ==
  CASE AddsNothing(change)       -> "safe"
    [] Drops(change)             -> "destructive"
    [] change.kind = "ty"        -> IF Widens(change.from, change.to) THEN "safe" ELSE "destructive"
    [] change.kind = "nullable"  ->
         IF change.to THEN "safe" ELSE IF change.backfill THEN "ambiguous" ELSE "destructive"
    [] OTHER                     -> "ambiguous"

(* A policy: its two thresholds, whether ambiguous counts as safe, and rules   *)
(* that approve a kind of change up to a number of rows.                       *)
Policy(row, shadow, lenient, rules) ==
  [row |-> row, shadow |-> shadow, lenient |-> lenient, rules |-> rules]

Least(a, b) == IF a < b THEN a ELSE b
TightenedOnly(p) ==       \* mutant: keeps the rules
  Policy(Least(p.row, Floor.row), Least(p.shadow, Floor.shadow), FALSE, p.rules)
Tightened(p) == Policy(Least(p.row, Floor.row), Least(p.shadow, Floor.shadow), FALSE, {})
ShadowThreshold(p) == Least(p.shadow, MaxShadow)

(* Whether the change is treated as destructive: read from the policy as it    *)
(* stands, before it is tightened for a protected branch.                      *)
Destructive(change, policy) ==
  \/ Classify(change) = "destructive"
  \/ Classify(change) = "ambiguous" /\ ~policy.lenient

GateOf(destructive, reversible, rows, p) ==
  IF destructive /\ ~reversible /\ rows > ShadowThreshold(p) THEN "shadow"
  ELSE IF destructive \/ rows > p.row THEN "confirm"
  ELSE "auto"
Strictness == [auto |-> 0, confirm |-> 1, shadow |-> 2]

(* GateRationale::derive: the rule that explains the gate, decided again from  *)
(* the same inputs, and what would help.                                       *)
Rule(destructive, reversible, rows, p, approved) ==
  IF destructive /\ ~reversible /\ rows > ShadowThreshold(p) THEN "IrreversibleOverShadowThreshold"
  ELSE IF destructive THEN "Destructive"
  ELSE IF rows > p.row THEN "OverRowImpactThreshold"
  ELSE IF approved THEN "AutoApprovedByPolicy"
  ELSE "WithinThresholds"
Remedy(gate, rule) ==
  CASE gate = "auto"    -> "none"
    [] gate = "shadow"  -> "ValidateOnShadowBranch"
    [] gate = "confirm" -> IF rule = "OverRowImpactThreshold" THEN "ReduceBlastRadius" ELSE "Confirm"

(* classify: the whole diff of a change that touches so many rows.             *)
Diff(change, rows, policy, protected) ==
  LET p == IF protected THEN Tightened(policy) ELSE policy
      destructive == Destructive(change, policy)
      gate == GateOf(destructive, Reversible(change), rows, p)
      approved == gate = "auto" /\ \E r \in p.rules : r.kind = change.kind /\ rows <= r.max
      rule == Rule(destructive, Reversible(change), rows, p, approved)
  IN  [gate |-> gate, destructive |-> destructive, reversible |-> Reversible(change),
       rows |-> rows, table |-> change.table, rule |-> rule, remedy |-> Remedy(gate, rule)]

\* ------------------------------------------------------------------ claims
TypeClaim(t, c) == [kind |-> "type", table |-> t, column |-> c]
PresentClaim(t, c) == [kind |-> "present", table |-> t, column |-> c]
EmptyClaim(t) == [kind |-> "empty", table |-> t, column |-> ""]

(* The part of a table a change is about; an index stands where a column does. *)
Target(change) ==
  CASE change.kind \in {"AddTable", "DropTable"} -> ""
    [] change.kind = "AddIndex" -> change.index.name
    [] change.kind = "DropIndex" -> change.index
    [] OTHER -> change.column

Mismatch(claim, change) ==
  \/ claim.kind = "type" /\ change.kind # "ty"
  \/ claim.table # change.table
  \/ claim.column # "" /\ Target(change) # "" /\ claim.column # Target(change)

(* A value that could be stored under the type. Every float here is integral.  *)
Fits(v, ty) ==
  \/ v.type = "null" \/ v.type = ty
  \/ {v.type, ty} = {"int", "float"}
FitsIn(row, c, ty) == LET v == Column("", row, c) IN v = Missing \/ Fits(v, ty)

(* verify: a sweep of the branch's own rows, the claim's own question asked of *)
(* each.                                                                       *)
Keeps(claim, change, row) ==
  CASE claim.kind = "empty"   -> FALSE
    [] claim.kind = "present" -> HasColumn(row, claim.column)
    [] claim.kind = "type"    -> FitsIn(row, claim.column, change.to)
Verify(claim, change, v) ==
  IF Mismatch(claim, change) THEN "irrelevant"
  ELSE IF \A r \in RowsOf(v, claim.table) : Keeps(claim, change, r[2]) THEN "holds" ELSE "fails"

(* apply: a proof lowers a narrowing and a NOT NULL, and never a drop.         *)
Lowered(gate, change, verdict) ==
  IF verdict = "holds" /\ (change.kind = "ty" \/ (change.kind = "nullable" /\ ~change.to))
  THEN "auto" ELSE gate

\* ------------------------------------------------------------------ triage
(* ReviewCost::of, and one batch for each table with something waiting.        *)
CostOf(gate, confirm, shadow) ==
  CASE gate = "auto" -> 0 [] gate = "confirm" -> confirm [] gate = "shadow" -> shadow

Strongest(gates) == CHOOSE g \in gates : \A h \in gates : Strictness[g] >= Strictness[h]

(* Of [id, diff] records; members and batches both come strongest first, then  *)
(* by rows; then by a name, which is any fixed order.                          *)
Outranks(g, rows, h, others) == Strictness[g] > Strictness[h] \/ (g = h /\ rows > others)
Members(S) ==
  SetToSortSeq(S, LAMBDA a, b : Outranks(a.diff.gate, a.diff.rows, b.diff.gate, b.diff.rows))

SumOf(S, f(_)) == FoldSet(LAMBDA m, n : n + f(m), 0, S)
Batch(t, S, confirm, shadow) ==
  LET gate == Strongest({m.diff.gate : m \in S})
  IN  [table |-> t, gate |-> gate, members |-> Members(S),
       rows |-> SumOf(S, LAMBDA m : m.diff.rows),
       cost |-> CostOf(gate, confirm, shadow),
       alone |-> SumOf(S, LAMBDA m : CostOf(m.diff.gate, confirm, shadow))]
Triage(waiting, confirm, shadow) ==
  LET batches == {Batch(t, {m \in waiting : m.diff.table = t}, confirm, shadow) :
                    t \in {m.diff.table : m \in waiting}}
  IN  SetToSortSeq(batches, LAMBDA a, b : Outranks(a.gate, a.rows, b.gate, b.rows))

\* ------------------------------------------------------------------ replay
(* What a recorded decision's gate would be under a policy, and how that       *)
(* differs from what it was.                                                   *)
Replayed(d, policy) == Diff(d.change, d.rows, policy, d.protected).gate
Divergence(d, policy) ==
  LET now == Strictness[Replayed(d, policy)]
      was == Strictness[d.gate]
  IN  IF now = was THEN "same" ELSE IF now > was THEN "stricter" ELSE "looser"
=============================================================================
