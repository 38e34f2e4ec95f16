----------------------------- MODULE Integrity -----------------------------
(***************************************************************************)
(* What Engine::maintain does on the service's timer: theta-storage's        *)
(* verifier.rs, which walks main's hash chain a slice at a time, and         *)
(* anchor.rs, which publishes branch heads to a sink the operator does not   *)
(* control and checks later that the log still contains them.                *)
(*                                                                         *)
(* A chain is the sequence of entries history() reaches in this life of the  *)
(* process, oldest first, and an entry stands for its hash.  A process that  *)
(* opened from a checkpoint indexes the entries after it only: if there were *)
(* any, walking back from the head meets a hash that is not indexed and      *)
(* history() fails ("orphan"); if there were none, the next append is a new  *)
(* root.  Anchors, the pass in progress and the findings are in memory.      *)
(***************************************************************************)
EXTENDS Integers, Sequences, FiniteSets, SequencesExt

CONSTANTS
    Branches, Main,
    EntriesPerTick,   \* VerifierPolicy.entries_per_tick
    MaxPass,          \* VerifierPolicy.max_pass_ms
    MaxGap,           \* AnchorPolicy.max_gap_ms
    RequireFirst,     \* AnchorPolicy.require_first_anchor
    MaxEntries,       \* bound: entries appended
    MaxClock,         \* bound: the clock
    MaxLives,         \* bound: processes that ran
    MaxForgotten      \* bound: anchors the sink loses

IntegrityAssumption ==
    /\ Main \in Branches /\ Branches \subseteq Nat /\ IsFiniteSet(Branches)
    /\ EntriesPerTick \in Nat \ {0}
    /\ RequireFirst \in BOOLEAN
    /\ {MaxPass, MaxGap, MaxEntries, MaxClock, MaxForgotten} \subseteq Nat
    /\ MaxLives \in {1, 2}

VARIABLES
    clock,
    chain,       \* entries history() reaches, by branch
    orphan,      \* branches on which history() fails
    made,        \* the entry that created each branch, 0 when there is none
    appended,    \* entries appended so far: the next entry's hash
    verifier,    \* the Verifier
    anchors,     \* AnchorLog.by_branch
    held,        \* InMemorySink.held: what the sink will reproduce, by receipt
    receipts,    \* InMemorySink.next
    reachable,   \* whether publish reaches the sink
    report,      \* the last Maintenance
    lives, forgotten

wal == <<chain, orphan, made, appended>>
vars == <<clock, chain, orphan, made, appended, verifier, anchors, held, receipts, reachable,
          report, lives, forgotten>>

Never == -1        \* fully_verified_since: None
Hash == Nat \ {0}
AnchorErrors == {"Unreachable", "Rejected", "WentBackwards", "AnchoredHeadMissing",
                 "ReceiptNotHonoured", "Stale", "NeverAnchored"}
Anchor == [branch : Branches, head : Hash, covered : Nat, at : Nat, receipt : Nat]
Verifier == [cursor : Nat, target : Nat, passes : Nat, verifiedSince : Nat \cup {Never},
             started : Nat, seen : SUBSET Hash]

NewVerifier(now) ==
    [cursor |-> 0, target |-> 0, passes |-> 0, verifiedSince |-> Never, started |-> now,
     seen |-> {}]

NoReport == [chainError |-> FALSE, slow |-> FALSE, anchored |-> {}, unanchored |-> {}]

\* history(branch, None), oldest first
Readable(b) == b \notin orphan
Chain(b) == chain[b]
ChainOrEmpty(b) == IF Readable(b) THEN Chain(b) ELSE <<>>

(***************************************************************************)
(* The verifier                                                             *)
(***************************************************************************)

\* The predecessor the entry at position i of a chain claims.  The links are the
\* ones history() followed, so only a chain that starts after ZERO lacks one.
PrevIn(entries, i) == IF i = 1 THEN 0 ELSE entries[i - 1]

\* A pass takes the length of the log as it is when the pass begins.
Begin(v, entries, now) ==
    IF v.cursor # 0 THEN v
    ELSE [v EXCEPT !.target = Len(entries), !.started = now, !.seen = {}]

SliceEnd(v) ==
    IF v.cursor + EntriesPerTick < v.target THEN v.cursor + EntriesPerTick ELSE v.target

\* The first entry of the slice whose predecessor has not been seen, if any.
Broken(v, entries) ==
    {i \in v.cursor + 1 .. SliceEnd(v) :
        /\ PrevIn(entries, i) # 0
        /\ PrevIn(entries, i) \notin v.seen \cup {entries[k] : k \in v.cursor + 1 .. i - 1}}

Advance(v, entries, now) ==
    LET end == SliceEnd(v)
        done == end >= v.target
    IN  [v EXCEPT !.seen = @ \cup {entries[k] : k \in v.cursor + 1 .. end},
                  !.cursor = IF done THEN 0 ELSE end,
                  !.passes = IF done THEN @ + 1 ELSE @,
                  !.verifiedSince = IF done THEN now ELSE @]

VerifierTick(entries, now) ==
    LET v == Begin(verifier, entries, now)
        bad == Broken(v, entries)
    IN  IF bad = {} THEN [error |-> FALSE, verifier |-> Advance(v, entries, now)]
        ELSE LET first == CHOOSE i \in bad : \A j \in bad : i <= j
             IN  [error |-> TRUE,
                  verifier |-> [v EXCEPT !.seen =
                                    @ \cup {entries[k] : k \in v.cursor + 1 .. first - 1}]]

NotKeepingUp(v, now) ==
    now > MaxPass + (IF v.verifiedSince = Never THEN v.started ELSE v.verifiedSince)

(***************************************************************************)
(* Anchors                                                                  *)
(***************************************************************************)
Anchored(b) == anchors[b]
Latest(b) == Last(anchors[b])

\* The head of a branch, and how many entries maintain says an anchor covers:
\* none when history() fails.
HasHead(b) == Chain(b) # <<>>
Covered(b) == Len(ChainOrEmpty(b))

\* Mutant: due once the gap is over, not when it is reached.
DueAfter(b, now) ==
    IF Anchored(b) = <<>> THEN RequireFirst ELSE now > Latest(b).at + MaxGap

Due(b, now) ==
    IF Anchored(b) = <<>> THEN RequireFirst ELSE now >= Latest(b).at + MaxGap

PublishRefused(b) == Anchored(b) # <<>> /\ Covered(b) < Latest(b).covered

\* The branches one call anchors, in the order of their ids: each takes the next
\* receipt.
Rank(b, S) == Cardinality({c \in S : c < b}) + 1

NewAnchor(b, S, now) ==
    [branch |-> b, head |-> Last(Chain(b)), covered |-> Covered(b), at |-> now,
     receipt |-> receipts + Rank(b, S)]

AttestsSame(a, c) ==
    a.branch = c.branch /\ a.head = c.head /\ a.covered = c.covered /\ a.at = c.at

\* Mutant: the receipt is one the sink gave once.
SinkGaveReceipt(a) == a.receipt \in 1 .. receipts

SinkHonours(a) == a.receipt \in DOMAIN held /\ AttestsSame(held[a.receipt], a)

\* AnchorLog::verify over the chain history() returned, as of now: "ok" or the
\* error of the first anchor that fails, the gap last.
VerifyAnchors(b, entries, now) ==
    LET all == Anchored(b)
        missing == {i \in DOMAIN all : ~ Contains(entries, all[i].head)}
        lost == {i \in DOMAIN all : ~ SinkHonours(all[i])}
        back == {i \in DOMAIN all : i > 1 /\ all[i].covered < all[i - 1].covered}
        bad == missing \cup lost \cup back
        first == CHOOSE i \in bad : \A j \in bad : i <= j
    IN  CASE all = <<>> -> IF RequireFirst THEN "NeverAnchored" ELSE "ok"
          [] bad # {} -> IF first \in missing THEN "AnchoredHeadMissing"
                         ELSE IF first \in lost THEN "ReceiptNotHonoured"
                         ELSE "WentBackwards"
          [] OTHER -> IF now > Latest(b).at + MaxGap THEN "Stale" ELSE "ok"

\* Engine::verify_anchors: history() is read first and its error is the answer.
EngineVerify(b) ==
    IF ~ Readable(b) THEN "UnknownCommit" ELSE VerifyAnchors(b, Chain(b), clock)

(***************************************************************************)
(* Steps                                                                    *)
(***************************************************************************)
Init ==
    /\ clock = 0
    /\ chain = [b \in Branches |-> <<>>]
    /\ orphan = {}
    /\ made = [b \in Branches |-> 0]
    /\ appended = 0
    /\ verifier = NewVerifier(0)
    /\ anchors = [b \in Branches |-> <<>>]
    /\ held = <<>>
    /\ receipts = 0
    /\ reachable \in BOOLEAN
    /\ report = NoReport
    /\ lives = 1
    /\ forgotten = 0

Exists(b) == b = Main \/ made[b] # 0

Write(b) ==
    /\ appended < MaxEntries
    /\ Exists(b)
    /\ appended' = appended + 1
    /\ chain' = [chain EXCEPT ![b] = Append(@, appended + 1)]
    /\ UNCHANGED <<clock, orphan, made, verifier, anchors, held, receipts, reachable, report,
                   lives, forgotten>>

Fork(b) ==
    /\ appended < MaxEntries
    /\ ~ Exists(b)
    /\ appended' = appended + 1
    /\ made' = [made EXCEPT ![b] = appended + 1]
    /\ chain' = [chain EXCEPT ![b] = Append(chain[Main], appended + 1)]
    /\ orphan' = IF Main \in orphan THEN orphan \cup {b} ELSE orphan \ {b}
    /\ UNCHANGED <<clock, verifier, anchors, held, receipts, reachable, report, lives,
                   forgotten>>

\* The service's timer: verify a slice of main, then anchor what is due.  The
\* branches whose publish fails are reported, and stay due.
Maintain ==
    /\ clock < MaxClock
    /\ clock' = clock + 1
    /\ LET now == clock + 1
           t == VerifierTick(ChainOrEmpty(Main), now)
           due == {b \in Branches : Exists(b) /\ Due(b, now) /\ HasHead(b)}
           taken == IF reachable THEN {b \in due : ~ PublishRefused(b)} ELSE {}
           new == [b \in taken |-> NewAnchor(b, taken, now)]
       IN  /\ verifier' = t.verifier
           /\ anchors' = [b \in Branches |-> IF b \in taken THEN Append(anchors[b], new[b])
                                             ELSE anchors[b]]
           /\ receipts' = receipts + Cardinality(taken)
           /\ held' = [r \in DOMAIN held \cup {new[b].receipt : b \in taken} |->
                          IF r \in DOMAIN held THEN held[r]
                          ELSE new[CHOOSE b \in taken : new[b].receipt = r]]
           /\ report' = [chainError |-> t.error, slow |-> NotKeepingUp(t.verifier, now),
                         anchored |-> taken, unanchored |-> due \ taken]
    /\ UNCHANGED <<wal, reachable, lives, forgotten>>

\* Engine::set_verifier_entries_per_tick replaces the verifier, as of time 0.
SetVerifierRate ==
    /\ verifier # NewVerifier(0)
    /\ verifier' = NewVerifier(0)
    /\ UNCHANGED <<clock, wal, anchors, held, receipts, reachable, report, lives, forgotten>>

\* The sink goes away, comes back, or loses what it took.
SinkFlips ==
    /\ reachable' = ~ reachable
    /\ UNCHANGED <<clock, wal, verifier, anchors, held, receipts, report, lives, forgotten>>

SinkForgets(r) ==
    /\ forgotten < MaxForgotten
    /\ r \in DOMAIN held
    /\ forgotten' = forgotten + 1
    /\ held' = [x \in DOMAIN held \ {r} |-> held[x]]
    /\ UNCHANGED <<clock, wal, verifier, anchors, receipts, reachable, report, lives>>

\* Engine::open over a checkpoint that covers the first k entries: what was
\* appended after it is indexed, a branch created before it is not known, and
\* the verifier and the anchors start again.  With k = 0 all is replayed.
\* Entries are in the order they were appended in.
Since(entries, k) ==
    SubSeq(entries, Cardinality({i \in DOMAIN entries : entries[i] <= k}) + 1, Len(entries))

Restart(k) ==
    /\ lives < MaxLives
    /\ k \in 0 .. appended
    /\ lives' = lives + 1
    /\ made' = [b \in Branches |-> IF made[b] > k THEN made[b] ELSE 0]
    /\ chain' = [b \in Branches |-> IF b = Main \/ made[b] > k THEN Since(chain[b], k)
                                    ELSE <<>>]
    /\ orphan' = {b \in Branches : chain'[b] \notin {<<>>, chain[b]}}
    /\ verifier' = NewVerifier(0)
    /\ anchors' = [b \in Branches |-> <<>>]
    /\ report' = NoReport
    /\ UNCHANGED <<clock, appended, held, receipts, reachable, forgotten>>

Next ==
    \/ \E b \in Branches : Write(b) \/ Fork(b)
    \/ Maintain
    \/ SetVerifierRate
    \/ SinkFlips
    \/ \E r \in 1 .. MaxClock * Cardinality(Branches) : SinkForgets(r)
    \/ \E k \in 0 .. MaxEntries : Restart(k)

Spec == Init /\ [][Next]_vars

-----------------------------------------------------------------------------
TypeOK ==
    /\ clock \in Nat /\ appended \in Nat /\ receipts \in Nat
    /\ chain \in [Branches -> Seq(Hash)]
    /\ orphan \subseteq Branches
    /\ made \in [Branches -> Nat]
    /\ verifier \in Verifier
    /\ \A b \in Branches : \A i \in DOMAIN anchors[b] : anchors[b][i] \in Anchor
    /\ \A r \in DOMAIN held : held[r] \in Anchor
    /\ report.chainError \in BOOLEAN /\ report.slow \in BOOLEAN
    /\ (report.anchored \cup report.unanchored) \subseteq Branches

\* A log nobody touched is never reported broken, whatever was appended between
\* two slices of a pass and however the passes are cut (verifier.rs tick).
NoFalseAlarm == ~ report.chainError

\* A completed pass has seen every entry the chain had when the pass began: the
\* word "verified" is only said of what was checked.  It holds where history()
\* can read the chain; where it cannot, maintain verifies an empty list.
PassCovers ==
    /\ verifier'.passes > verifier.passes
    /\ Readable(Main)
    => /\ \A i \in 1 .. verifier'.target : chain[Main][i] \in verifier'.seen
       /\ verifier.cursor = 0 => verifier'.target = Len(chain[Main])

\* verify_anchors is right about the sink and the log: it accepts only what the
\* sink reproduces in full and recently enough, and accuses nobody while the
\* sink has kept what it took.
AnchorsTellTheTruth ==
    \A b \in Branches :
        LET verdict == EngineVerify(b)
            kept == \A i \in DOMAIN anchors[b] : anchors[b][i].receipt \in DOMAIN held
        IN  /\ verdict = "ok" => /\ kept
                                 /\ Anchored(b) # <<>> => clock <= Latest(b).at + MaxGap
                                 /\ Anchored(b) = <<>> => ~ RequireFirst
            /\ kept /\ Readable(b) => verdict \in {"ok", "Stale", "NeverAnchored"}

\* While the sink answers, one tick of the timer leaves no branch unprotected:
\* what the last anchor of a readable branch covers is never more than MaxGap
\* old, and it covers a prefix of the chain that ends at the anchored head.
AnchorsCoverPrefixes ==
    /\ reachable /\ clock' # clock
    => \A b \in Branches :
        HasHead(b) /\ Readable(b) /\ RequireFirst =>
            /\ anchors'[b] # <<>>
            /\ Last(anchors'[b]).at + MaxGap > clock'
            /\ chain[b][Last(anchors'[b]).covered] = Last(anchors'[b]).head

\* Each word of the verifier and of the anchors is true when it is said.
IntegrityIsHonest == NoFalseAlarm /\ AnchorsTellTheTruth
=============================================================================
