------------------------------- MODULE Spend -------------------------------
(* The compute spend of a project and its agents over a rolling window         *)
(* (theta-safety spend.rs; thetad engine.rs 1141-1146, 1223-1233). Work is     *)
(* admitted on an estimate and charged with what it came to, so two pieces     *)
(* admitted together may end over a ceiling. A scope's samples are only ever   *)
(* filtered and summed: they are a set here, each with its number.             *)
EXTENDS Integers, FiniteSetsExt

CONSTANTS
  Agents,                       \* sessions; work may also belong to no session
  NoAgent,
  ProjectCeiling, AgentCeiling, Window,  \* the SpendPolicy
  Costs,                        \* estimates and measurements
  MaxWork, MaxClock             \* bounds
SpendAssumption ==
  /\ Costs \subseteq Nat /\ NoAgent \notin Agents
  /\ {ProjectCeiling, AgentCeiling, Window, MaxWork, MaxClock} \subseteq Nat

VARIABLES
  spent,    \* SpendLedger.spent: each scope's samples
  running,  \* work admitted and not yet charged, by whom and with what answer
  clock,
  charged   \* each scope's samples, every one ever recorded
vars == <<spent, running, clock, charged>>

Project == "project"
Scopes == Agents \cup {Project}
SpendScopes(agent) == {Project} \cup ({agent} \cap Agents)
Ceiling(scope) == IF scope = Project THEN ProjectCeiling ELSE AgentCeiling

Init ==
  /\ spent = [s \in Scopes |-> {}] /\ charged = [s \in Scopes |-> {}]
  /\ running = {} /\ clock = 0

InWindow(at) == at + Window > clock
Current(samples) == {x \in samples : InWindow(x.at)}
Sum(samples) == MapThenSumSet(LAMBDA x : x.cost, samples)
Spent(scope) == Sum(Current(spent[scope]))

(* may_spend: every scope is asked before any would be charged.                *)
Exhausted(scopes, cost) == \E s \in scopes : Spent(s) + cost > Ceiling(s)
Remaining(scopes, cost) == Min({Ceiling(s) - Spent(s) - cost : s \in scopes})

Charges == Cardinality(charged[Project])   \* every charge is to the project too
Ask(agent, cost) ==
  /\ Charges + Cardinality(running) < MaxWork
  /\ ~Exhausted(SpendScopes(agent), cost)
  /\ running' = running \cup {[agent |-> agent, cost |-> cost, at |-> clock,
                               left |-> Remaining(SpendScopes(agent), cost)]}
  /\ UNCHANGED <<spent, clock, charged>>

(* record: what has left the window goes first, whichever scope it is of.      *)
Evicted(scope) == Current(spent[scope])
RecordSpend(work, actual) ==
  LET New(s) == IF s \in SpendScopes(work.agent)
                THEN {[nth |-> Charges, at |-> clock, cost |-> actual]} ELSE {}
  IN  /\ running' = running \ {work}
      /\ spent' = [s \in Scopes |-> Evicted(s) \cup New(s)]
      /\ charged' = [s \in Scopes |-> charged[s] \cup New(s)]
      /\ UNCHANGED clock

Tick == clock < MaxClock /\ clock' = clock + 1 /\ UNCHANGED <<spent, running, charged>>

Next ==
  \/ \E a \in Agents \cup {NoAgent}, c \in Costs : Ask(a, c)
  \/ \E w \in running, c \in Costs : RecordSpend(w, c)
  \/ Tick
Spec == Init /\ [][Next]_vars

\* -------------------------------------------------------------- properties
TypeOK ==
  /\ DOMAIN spent = Scopes /\ clock \in 0..MaxClock
  /\ \A s \in Scopes : \A x \in spent[s] : x.at <= clock
  /\ Charges + Cardinality(running) <= MaxWork

(* What a scope is said to have spent is everything charged to it inside the   *)
(* window: nothing in the window is evicted and nothing outside it counts.     *)
SpentIsCharged == \A s \in Scopes : Spent(s) = Sum(Current(charged[s]))

(* Work that is alone in flight, and has seen no charge since it was admitted, *)
(* fits under the ceiling of every scope it will be charged to, with room for  *)
(* what it was told is left.                                                   *)
Alone(w) == running = {w} /\ \A x \in charged[Project] : x.at < w.at
AdmittedFits ==
  \A w \in running :
    Alone(w) => \A s \in SpendScopes(w.agent) : Spent(s) + w.cost + w.left <= Ceiling(s)

\* What the ledger promises about each scope.
LedgersHold == SpentIsCharged /\ AdmittedFits
=============================================================================
