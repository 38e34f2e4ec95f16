------------------------------ MODULE Ledgers ------------------------------
(* The two records an instance answers for: the audit trail (Trail), and the   *)
(* ledger of what its agents spent (Spend), over constants and variables with  *)
(* names of their own.                                                         *)
EXTENDS OnePart

CONSTANTS Risks, SealKeys, NoKey, Projects, WindowSize, Tears, TrailLength, MaxOpens, TrailClock
VARIABLES clock, header, lines, ended, sealKey, opened, recent, total, opens, pieces, appended
Audit == INSTANCE Trail WITH
  Keys <- SealKeys, Capacity <- WindowSize, MaxEntries <- TrailLength, MaxClock <- TrailClock,
  key <- sealKey, state <- opened

CONSTANTS Spenders, NoSpender, ProjectLimit, SpenderLimit, Span, Charged, MaxCharges, LastTick
VARIABLES samples, inFlight, moment, everything
Ledger == INSTANCE Spend WITH
  Agents <- Spenders, NoAgent <- NoSpender, ProjectCeiling <- ProjectLimit,
  AgentCeiling <- SpenderLimit, Window <- Span, Costs <- Charged,
  MaxWork <- MaxCharges, MaxClock <- LastTick,
  spent <- samples, running <- inFlight, clock <- moment, charged <- everything

(* An uncut trail keeps every entry it answered for, in order, and the wrong   *)
(* key or project is refused and never read short; what the spend ledger says  *)
(* was spent is what was charged in the window, and work admitted alone fits   *)
(* its ceilings (Trail's and Spend's LedgersHold).                             *)
LedgersHold ==
  /\ part = "trail" => Audit!LedgersHold
  /\ part = "spend" => Ledger!LedgersHold
=============================================================================
