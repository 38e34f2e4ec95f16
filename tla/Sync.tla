--------------------------------- MODULE Sync ---------------------------------
(* Independent logs about the same data, and what carries entries between them *)
(* (theta-storage sync.rs; theta-core log.rs hashes). An entry's content is    *)
(* the replica and moment it was written at and its operation: two writes with *)
(* one content are one entry to a sync, so here a replica's clock never names  *)
(* two of its writes alike. A hash is the term it is the hash of.              *)
EXTENDS Integers, Sequences, FiniteSets

CONSTANTS Replicas, Keys, MaxWrites
SyncAssumption == MaxWrites \in Nat

VARIABLES logs, written     \* replica -> its chain; how many writes there were
vars == <<logs, written>>

Put(key, n) == [op |-> "Put", key |-> key, n |-> n]
Delete(key) == [op |-> "Delete", key |-> key, n |-> 0]
Add(key) == [op |-> "Crdt", key |-> key, n |-> 0]

Zero == <<>>
Hash(entry) == <<entry.prev, entry.content>>
HeadOf(log) == IF log = <<>> THEN Zero ELSE Hash(log[Len(log)])
Digest(log) == {log[i].content : i \in 1..Len(log)}

\* ------------------------------------------------------------------ the plan
(* The places, in ours, of what theirs lacks; and the keys assigned in some.   *)
Lacking(ours, theirs) == {i \in 1..Len(ours) : ours[i].content \notin Digest(theirs)}
Assigns(entry) == entry.content.op.op # "Crdt"
AssignedKeys(log, places) == {log[i].content.op.key : i \in {j \in places : Assigns(log[j])}}
PlanToSend(ours, theirs) ==   \* mutant: sends whatever the other lacks
  [to_send |-> Lacking(ours, theirs), conflicts |-> {}]
Plan(ours, theirs) ==
  [to_send |-> Lacking(ours, theirs),
   conflicts |-> AssignedKeys(ours, Lacking(ours, theirs))
                   \cap AssignedKeys(theirs, Lacking(theirs, ours))]

(* rebase: what is received, in its order, each linked onto the head so far.   *)
Linked(log, content) == Append(log, [prev |-> HeadOf(log), content |-> content])
Rebased(ours, to_send, theirs) ==
  LET linked[n \in 0..Len(ours)] ==
        IF n = 0 THEN theirs
        ELSE IF n \in to_send THEN Linked(linked[n - 1], ours[n].content)
        ELSE linked[n - 1]
  IN  linked[Len(ours)]

\* ------------------------------------------------------------------- actions
Ops(n) == {Put(k, n) : k \in Keys} \cup {Delete(k) : k \in Keys} \cup {Add(k) : k \in Keys}

Write(r, op) ==
  /\ written < MaxWrites
  /\ written' = written + 1
  /\ logs' = [logs EXCEPT ![r] = Linked(@, [by |-> r, at |-> written, op |-> op])]

(* One side's missing entries reach the other, unless both assigned a key:     *)
(* that is for a human.                                                        *)
Send(r, s) ==
  LET plan == Plan(logs[r], logs[s])
  IN  /\ plan.conflicts = {} /\ plan.to_send # {}
      /\ logs' = [logs EXCEPT ![s] = Rebased(logs[r], plan.to_send, @)]
      /\ UNCHANGED written

Init == logs = [r \in Replicas |-> <<>>] /\ written = 0
Next ==
  \/ \E r \in Replicas : \E op \in Ops(written) : Write(r, op)
  \/ \E r, s \in Replicas : r # s /\ Send(r, s)
Spec == Init /\ [][Next]_vars

\* ---------------------------------------------------------------- properties
(* What a log says: each key's last assignment, and each counter's increments. *)
OpsOn(log, k) == {i \in 1..Len(log) : log[i].content.op.key = k}
Assignments(log, k) == {i \in OpsOn(log, k) : Assigns(log[i])}
LastOf(places) == CHOOSE i \in places : \A j \in places : j <= i
ValueOf(log, k) ==
  IF Assignments(log, k) = {} THEN Delete(k)
  ELSE log[LastOf(Assignments(log, k))].content.op
CountOf(log, k) == Cardinality(OpsOn(log, k) \ Assignments(log, k))
State(log) == [k \in Keys |-> [value |-> ValueOf(log, k), count |-> CountOf(log, k)]]

(* Replicas that hold the same entries say the same, by whatever routes and in *)
(* whatever order the entries reached them; and they have nothing to send      *)
(* (sync.rs:24-36).                                                            *)
SameEntriesSameState ==
  \A r, s \in Replicas :
    Digest(logs[r]) = Digest(logs[s]) =>
      /\ State(logs[r]) = State(logs[s])
      /\ Plan(logs[r], logs[s]) = [to_send |-> {}, conflicts |-> {}]

(* A replica's log is one unbroken chain that holds no entry twice, and every  *)
(* entry's replica wrote it: carrying one neither forks a log nor forges it    *)
(* (sync.rs:8-22, 180-201).                                                    *)
ChainsStayWhole ==
  \A r \in Replicas :
    /\ \A i \in 1..Len(logs[r]) :
         logs[r][i].prev = IF i = 1 THEN Zero ELSE Hash(logs[r][i - 1])
    /\ Cardinality(Digest(logs[r])) = Len(logs[r])
    /\ \A c \in Digest(logs[r]) : c \in Digest(logs[c.by])

\* What syncing promises, whatever the topology.
ReplicasConverge == SameEntriesSameState /\ ChainsStayWhole
=============================================================================
