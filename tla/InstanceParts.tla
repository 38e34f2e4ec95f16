--------------------------- MODULE InstanceParts ---------------------------
(* Parts of one instance that touch each other nowhere the modules say: signed *)
(* writes (Signing), the verifier and the anchors (Integrity), regions and     *)
(* follower reads (Regions), gating (Safety), the queue of merges into a branch*)
(* (MergeQueue), and the ledgers. Each is an instance of its module; constants *)
(* have a name for each part, and the clock, lives, appended and total are     *)
(* whichever part's the behaviour is.                                          *)
EXTENDS Ledgers

CONSTANTS SignedBranches, Sessions, Secrets, Payloads, Skew,
          SignedEntries, SignedClock, MaxEnvelopes, MaxKeys, SignedLives
VARIABLES signedLog, nextCommit, keys, book, sent, changes, lives, lastSigned
Signed == INSTANCE Signing WITH
  Branches <- SignedBranches, MaxEntries <- SignedEntries, MaxClock <- SignedClock,
  MaxLives <- SignedLives, log <- signedLog

CONSTANTS ChainBranches, ChainMain, EntriesPerTick, MaxPass, MaxGap, RequireFirst,
          ChainEntries, ChainClock, ChainLives, MaxForgotten
VARIABLES chain, orphan, made, verifier, anchors, held, receipts, reachable, report, forgotten
Integ == INSTANCE Integrity WITH
  Branches <- ChainBranches, Main <- ChainMain, MaxEntries <- ChainEntries,
  MaxClock <- ChainClock, MaxLives <- ChainLives

CONSTANTS RegionNames, BranchIds, Home, RowKeys, Callers, Followers, MaxLag,
          RegionWrites, RegionClock, MaxDiscards
VARIABLES existing, placement, written, merged, position, floors, shown, answer
Placed == INSTANCE Regions WITH
  Keys <- RowKeys, MaxWrites <- RegionWrites, MaxClock <- RegionClock, seen <- shown

CONSTANTS Exact, Floor, MaxShadow, GatedBranches, Protected, Opening, GatedWrites, GatedChanges,
          GatedClaims, Configured, Pushes, OwnProject, ConfirmCost, ShadowCost, RecentSize,
          GatedEdits, MaxRecords, GatedLives
VARIABLES views, edits, sync, pending, trail
Gating == INSTANCE Safety WITH
  Branches <- GatedBranches, Writes <- GatedWrites, Changes <- GatedChanges, Claims <- GatedClaims,
  Project <- OwnProject, Capacity <- RecentSize, MaxWrites <- GatedEdits, MaxLives <- GatedLives

CONSTANTS MergeSources, TargetWrites, SourceWrites, MaxDirect, MaxPerSource, MaxTickets, MaxFailures
VARIABLES target, source, fork, live, tview, sview, queued, nextTicket, direct, failures, sure
Queue == INSTANCE MergeQueue WITH
  Sources <- MergeSources, TargetOps <- TargetWrites, SourceOps <- SourceWrites,
  MaxTargetOps <- MaxDirect, MaxSourceOps <- MaxPerSource

\* ------------------------------------------------------------------ properties
(* verify_signatures passes exactly when each keyed session's present key      *)
(* signed, in this life, all the log attributes to it.                         *)
SignaturesMatch == part = "signing" => Signed!SignaturesMatch

(* The verifier raises no false alarm and anchors neither accuse a log that    *)
(* still holds what was anchored nor vouch for one that does not.              *)
IntegrityIsHonest == part = "integrity" => Integ!IntegrityIsHonest

(* A pass that completes has checked the chain it began on, and one tick with  *)
(* the sink reachable leaves no branch unprotected for longer than the policy. *)
PassesAndAnchorsCover ==
  [][part = "integrity" => Integ!PassCovers /\ Integ!AnchorsCoverPrefixes]_(Integ!vars)

(* A claim lets nothing through that breaks the constraint it checked, and     *)
(* lowers no drop; what is recorded replays; more rows or protection never     *)
(* weaken a gate (Safety's GatesHold).                                         *)
GatesHold == part = "gating" => Gating!GatesHold

(* A merge the queue promised lands as promised when nothing intervened, and   *)
(* tickets stand in line once each, in order; the queue of changes that wait   *)
(* for a reviewer hides none of them and softens none; and a review of the     *)
(* trail leaves out nothing that outranks what it lists.                       *)
QueuePromises ==
  /\ part = "queue" => Queue!PromiseKept /\ Queue!QueueOrdered
  /\ part = "gating" => Gating!QueueIsHonest
  /\ part = "trail" => Audit!ReviewsTheRiskiest

(* Nothing goes back: no caller reads an older version than it has seen, on any*)
(* follower; a region's route, once given, stays; while an instance runs its   *)
(* policy only moves to newer, genuine pushes for its own project.             *)
NothingGoesBack ==
  /\ [][part = "regions" => Placed!NoReadGoesBack /\ Placed!RouteKept]_(Placed!vars)
  /\ [][part = "gating" => Gating!MovesForward]_(Gating!vars)
=============================================================================
