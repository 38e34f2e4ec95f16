---------------------------- MODULE MCOperations ----------------------------
(* Parts of one instance that are each checked on their own, in one run: the   *)
(* CRDT types (Crdt), the merge queue (MergeQueue), and signed writes, the     *)
(* verifier and the anchors, regions, gating, the audit trail and the spend    *)
(* budget (InstanceParts). A behaviour is one part's: `part` says whose, Crdt's*)
(* variables stay as they began in any other, and the rest are Idle.           *)
EXTENDS Crdt, InstanceParts, TLC

CONSTANTS Parts, x, y

AmountsMC == {1, -1}

ofSigning == <<signedLog, nextCommit, keys, book, sent, changes, lastSigned>>
ofIntegrity == <<chain, orphan, made, verifier, anchors, held, receipts, reachable, report, forgotten>>
ofRegions == <<existing, placement, written, merged, position, floors, shown, answer>>
ofGating == <<views, edits, sync, pending, trail>>
ofTrail == <<header, lines, ended, sealKey, opened, recent, opens, pieces>>
ofSpend == <<samples, inFlight, moment, everything>>
ofQueue == <<target, source, fork, live, tview, sview, queued, nextTicket, direct, failures, sure>>
others == <<clock, lives, appended, total, ofSigning, ofIntegrity, ofRegions, ofGating, ofTrail,
            ofSpend, ofQueue>>

ASSUME Integ!IntegrityAssumption
ASSUME Signed!SigningAssumption
ASSUME Placed!RegionsAssumption
ASSUME Gating!SafetyAssumption /\ Gating!GatesAssumption
ASSUME Audit!TrailAssumption
ASSUME Ledger!SpendAssumption
ASSUME Queue!MergeQueueAssumption

\* ----------------------------------------------------------------- merge queue
Plans == INSTANCE Merge
MergeSourceOps ==
  {Plans!Put("k", 1), Plans!Put("k", 2), Plans!CrdtOp("n", "counter", 1), Plans!CrdtOp("k", "counter", 1),
   Plans!SchemaOp(Plans!OnColumn("AddColumn", "t", "c", 2))}
MergeTargetOps ==
  {Plans!SchemaOp(Plans!OnColumn("AddColumn", "t", "c", 1)), Plans!CrdtOp("n", "counter", 2)}

\* ---------------------------------------------------------------------- gating
(* A table with a declared column, a row, and a CRDT row that has only `value`.*)
NumberColumn == [ty |-> "int", nullable |-> TRUE, crdt |-> "none"]
One == [type |-> "int", num |-> 1, neg |-> FALSE]
TheTable == [kind |-> "AddTable", table |-> "t",
             def |-> [fields |-> ("c" :> NumberColumn), indexes |-> {}]]
GatingRows ==
  << [commit |-> 1, ops |-> << [op |-> "Schema", change |-> TheTable] >>],
     [commit |-> 2, ops |-> << [op |-> "Put", key |-> <<"t", 1>>,
                                row |-> [map |-> TRUE, fields |-> ("c" :> One)]],
                               [op |-> "Crdt", key |-> <<"t", 2>>, kind |-> "counter"] >>] >>
GatingChanges ==
  {[kind |-> "ty", table |-> "t", column |-> "value", from |-> "int", to |-> "bool"],
   [kind |-> "nullable", table |-> "t", column |-> "c", to |-> FALSE, backfill |-> TRUE],
   [kind |-> "DropColumn", table |-> "t", column |-> "c"],
   [kind |-> "RenameColumn", table |-> "t", column |-> "c", to |-> "d"]}
Claim(kind, column) == [kind |-> kind, table |-> "t", column |-> column]
Limits(row, shadow, lenient, rules) ==
  [row |-> row, shadow |-> shadow, lenient |-> lenient, rules |-> rules]
Push(version, project, genuine, policy) ==
  [version |-> version, project |-> project, genuine |-> genuine, policy |-> policy]
Loose == Limits(3, 3, TRUE, {[kind |-> "RenameColumn", max |-> 1]})
Tight == Limits(0, 0, FALSE, {})
GatingWrites == {[op |-> "Delete", key |-> <<"t", 1>>]}
GatingClaims == {Claim("type", "value"), Claim("present", "c"), Claim("present", "value")}
GatingPushes == {Push(1, "p", TRUE, Loose), Push(2, "p", TRUE, Tight),
                 Push(3, "q", TRUE, Loose), Push(3, "p", FALSE, Loose)}
Images == INSTANCE View
GatingOpening == Images!Replay(GatingRows)
GatingFloor == [row |-> 1, shadow |-> 1]
GatingConfigured == Limits(1, 0, FALSE, {})

\* --------------------------------------------------------------- the one system
OnPart(p, A) == part = p /\ A /\ UNCHANGED part
OnCrdt(A) == OnPart("crdt", A) /\ UNCHANGED others
OnIntegrity(A) ==
  /\ OnPart("integrity", A)
  /\ UNCHANGED <<vars, total, ofSigning, ofRegions, ofGating, ofTrail, ofSpend, ofQueue>>
OnQueue(A) ==
  /\ OnPart("queue", A)
  /\ UNCHANGED <<vars, clock, lives, appended, total, ofSigning, ofIntegrity, ofRegions, ofGating, ofTrail, ofSpend>>
OnSigning(A) ==
  /\ OnPart("signing", A)
  /\ UNCHANGED <<vars, appended, total, ofIntegrity, ofRegions, ofGating, ofTrail, ofSpend, ofQueue>>
OnRegions(A) ==
  /\ OnPart("regions", A)
  /\ UNCHANGED <<vars, lives, appended, total, ofSigning, ofIntegrity, ofGating, ofTrail, ofSpend, ofQueue>>
OnGating(A) ==
  /\ OnPart("gating", A)
  /\ UNCHANGED <<vars, clock, appended, ofSigning, ofIntegrity, ofRegions, ofTrail, ofSpend, ofQueue>>
OnTrail(A) ==
  /\ OnPart("trail", A)
  /\ UNCHANGED <<vars, lives, ofSigning, ofIntegrity, ofRegions, ofGating, ofSpend, ofQueue>>
OnSpend(A) ==
  /\ OnPart("spend", A)
  /\ UNCHANGED <<vars, clock, lives, appended, total, ofSigning, ofIntegrity, ofRegions, ofGating, ofTrail, ofQueue>>

IdleSigning ==
  /\ signedLog = Idle /\ nextCommit = Idle /\ keys = Idle /\ book = Idle /\ sent = Idle
  /\ changes = Idle /\ lastSigned = Idle
IdleIntegrity ==
  /\ chain = Idle /\ orphan = Idle /\ made = Idle /\ verifier = Idle /\ anchors = Idle /\ held = Idle
  /\ receipts = Idle /\ reachable = Idle /\ report = Idle /\ forgotten = Idle
IdleRegions ==
  /\ existing = Idle /\ placement = Idle /\ written = Idle /\ merged = Idle /\ position = Idle
  /\ floors = Idle /\ shown = Idle /\ answer = Idle
IdleGating == views = Idle /\ edits = Idle /\ sync = Idle /\ pending = Idle /\ trail = Idle
IdleTrail ==
  /\ header = Idle /\ lines = Idle /\ ended = Idle /\ sealKey = Idle /\ opened = Idle /\ recent = Idle
  /\ opens = Idle /\ pieces = Idle
IdleSpend == samples = Idle /\ inFlight = Idle /\ moment = Idle /\ everything = Idle
IdleQueue ==
  /\ target = Idle /\ source = Idle /\ fork = Idle /\ live = Idle /\ tview = Idle /\ sview = Idle
  /\ queued = Idle /\ nextTicket = Idle /\ direct = Idle /\ failures = Idle /\ sure = Idle
(* What a part begins with, and the parts that are not it.                     *)
Begins(p, its, PartIdle) == IF part = p THEN its ELSE PartIdle
ComposedInit ==
  /\ part \in Parts
  /\ Init
  /\ Begins("integrity", Integ!Init, IdleIntegrity)
  /\ Begins("queue", Queue!Init, IdleQueue)
  /\ Begins("signing", Signed!Init, IdleSigning)
  /\ Begins("regions", Placed!Init, IdleRegions)
  /\ Begins("gating", Gating!Init, IdleGating)
  /\ Begins("trail", Audit!Init, IdleTrail)
  /\ Begins("spend", Ledger!Init, IdleSpend)
  /\ part \notin {"integrity", "signing", "regions", "trail"} => clock = Idle
  /\ part \notin {"integrity", "signing", "gating"} => lives = Idle
  /\ part \notin {"integrity", "trail"} => appended = Idle
  /\ part \notin {"gating", "trail"} => total = Idle

ComposedNext ==
  \/ \E b \in Branches : Created(b) /\ \E r \in Requests(b) : OnCrdt(ApplyCrdt(b, r))
  \/ \E b, from \in Branches : OnCrdt(CreateBranch(b, from))
  \/ \E s, t \in Branches : OnCrdt(Merge(s, t))
  \/ OnCrdt(Restart)

  \/ \E b \in ChainBranches : OnIntegrity(Integ!Write(b))
  \/ \E b \in ChainBranches : OnIntegrity(Integ!Fork(b))
  \/ OnIntegrity(Integ!Maintain)
  \/ OnIntegrity(Integ!SetVerifierRate)
  \/ OnIntegrity(Integ!SinkFlips)
  \/ \E r \in 1..8 : OnIntegrity(Integ!SinkForgets(r))
  \/ \E k \in 0..3 : OnIntegrity(Integ!Restart(k))

  \/ \E s \in MergeSources : OnQueue(Queue!Fork(s))
  \/ \E s \in MergeSources : OnQueue(Queue!Discard(s))
  \/ \E s \in MergeSources : OnQueue(Queue!Enqueue(s))
  \/ \E o \in TargetWrites : OnQueue(Queue!WriteTarget(o))
  \/ \E s \in MergeSources, o \in SourceWrites : OnQueue(Queue!WriteSource(s, o))
  \/ \E i \in 1..MaxTickets : OnQueue(Queue!Withdraw(i))
  \/ OnQueue(Queue!Revalidate)
  \/ OnQueue(Queue!LandNext)
  \/ \E n \in 0..MaxPerSource + 1 : OnQueue(Queue!LandFails(n))

  \/ OnSigning(Signed!Tick)
  \/ \E s \in Sessions, k \in Secrets : OnSigning(Signed!RegisterSessionKey(s, k))
  \/ \E s \in Sessions, k \in Secrets, b \in SignedBranches, op \in Payloads, at \in 0..1 :
       OnSigning(Signed!Sign(s, k, b, op, at))
  \/ part = "signing" /\ \E e \in sent, refused \in BOOLEAN : OnSigning(Signed!AppendSigned(e, refused))
  \/ \E b \in SignedBranches, op \in Payloads, a \in Sessions \cup {Signed!NoSession} :
       OnSigning(Signed!AppendUnsigned(b, op, a))
  \/ OnSigning(Signed!Restart)

  \/ OnRegions(Placed!Tick)
  \/ \E r \in RegionNames, b \in BranchIds : OnRegions(Placed!PlaceRegion(r, b))
  \/ \E b \in BranchIds : OnRegions(Placed!DiscardBranch(b))
  \/ \E c \in Callers, r \in RegionNames, k \in RowKeys : OnRegions(Placed!Write(c, r, k))
  \/ \E r \in RegionNames : OnRegions(Placed!MergeHome(r))
  \/ \E f \in Followers : OnRegions(Placed!Follow(f))
  \/ \E c \in Callers, f \in Followers, k \in RowKeys : OnRegions(Placed!Read(c, f, k))

  \/ \E b \in GatedBranches, op \in GatedWrites : OnGating(Gating!RowOp(b, op))
  \/ \E b \in GatedBranches, c \in GatedChanges : OnGating(Gating!ProposeSchemaChange(b, c))
  \/ \E b \in GatedBranches, c \in GatedChanges, claim \in GatedClaims :
       OnGating(Gating!ProposeWithClaim(b, c, claim))
  \/ part = "gating" /\ \E id \in DOMAIN pending, confirm \in BOOLEAN : OnGating(Gating!ApplySchemaChange(id, confirm))
  \/ part = "gating" /\ \E id \in DOMAIN pending : OnGating(Gating!Validate(id))
  \/ \E push \in Pushes : OnGating(Gating!ApplySignedPolicy(push))
  \/ OnGating(Gating!Restart)

  \/ \E k \in SealKeys \cup {NoKey}, p \in Projects : OnTrail(Audit!Open(k, p))
  \/ \E left \in {"empty", "torn"} : OnTrail(Audit!DieCreating(left))
  \/ \E r \in Risks : OnTrail(Audit!AppendEntry(r))
  \/ \E r \in Risks, whole, dies \in BOOLEAN : OnTrail(Audit!CutShort(r, whole, dies))
  \/ \E r \in Risks : OnTrail(Audit!Unanswered(r))
  \/ OnTrail(Audit!Stop)
  \/ OnTrail(Audit!Tick)

  \/ \E a \in Spenders \cup {NoSpender}, c \in Charged : OnSpend(Ledger!Ask(a, c))
  \/ part = "spend" /\ \E w \in inFlight, c \in Charged : OnSpend(Ledger!RecordSpend(w, c))
  \/ OnSpend(Ledger!Tick)

ComposedSpec == ComposedInit /\ [][ComposedNext]_<<part, vars, others>>

\* ------------------------------------------------------------------ properties
(* Every part's state has its type (each module's TypeOK).                     *)
TypesOK ==
  /\ part = "integrity" => Integ!TypeOK
  /\ part = "queue" => Queue!TypeOK
  /\ part = "signing" => Signed!TypeOK
  /\ part = "regions" => Placed!TypeOK
  /\ part = "gating" => Gating!TypeOK
  /\ part = "trail" => Audit!TypeOK
  /\ part = "spend" => Ledger!TypeOK

(* A CRDT's value is the fold of the operations its branch stands for, whatever*)
(* order branches and merges brought them in, and two branches that stand for  *)
(* the same operations agree (Crdt's TypeOK, ValueIsFold and OrdersAgree).     *)
CrdtsConverge == TypeOK /\ ValueIsFold /\ OrdersAgree
=============================================================================
