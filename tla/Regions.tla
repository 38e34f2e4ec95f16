------------------------------ MODULE Regions ------------------------------
(***************************************************************************)
(* Regional branches and follower reads: theta-storage's region.rs with      *)
(* place_region and route_write of thetad's engine.rs.  A region writes to   *)
(* the branch it was placed on; the branches merge home at a cadence.  A     *)
(* follower holds a prefix of a branch's log, and may_serve answers a caller *)
(* only at or above the version the caller has seen of the key.  Followers   *)
(* and the callers that keep a floor are the library's users.                *)
(***************************************************************************)
EXTENDS Integers, Sequences, FiniteSets

CONSTANTS
    RegionNames, BranchIds, Home, Keys, Callers, Followers,
    MaxLag,           \* MergeCadence.max_lag_ms
    MaxWrites, MaxClock, MaxDiscards   \* bounds

RegionsAssumption ==
    Home \in BranchIds /\ {MaxLag, MaxWrites, MaxClock, MaxDiscards} \subseteq Nat

VARIABLES
    clock,
    existing,     \* branches of the registry
    placement,    \* Placement.by_region: a set of [region, branch]
    written,      \* the set of keys each commit of a branch wrote
    merged,       \* when each region's branch was last merged: last_merged_ms
    position,     \* how much of Home's log a follower has applied
    floors,       \* VersionFloor of each caller: a set of [key, version]
    seen,         \* the newest version each caller was ever shown or wrote, by key
    answer        \* the last read's decision

vars == <<clock, existing, placement, written, merged, position, floors, seen, answer>>

Absent == -1
Range(s) == {s[i] : i \in DOMAIN s}

(***************************************************************************)
(* Placement                                                                *)
(***************************************************************************)
Placed(region) == \E p \in placement : p.region = region

\* route: the region's branch, or a refusal, never the home branch instead
Route(region) == {p.branch : p \in {q \in placement : q.region = region}}

\* lagging: the regions behind the cadence; one that never merged is behind
Lag(region) ==
    IF \E m \in merged : m.region = region
    THEN clock - (CHOOSE m \in merged : m.region = region).at ELSE MaxClock + MaxLag + 1
Lagging == {p.region : p \in {q \in placement : Lag(q.region) > MaxLag}}

(***************************************************************************)
(* Follower reads                                                           *)
(***************************************************************************)

\* version_of: the commit that last wrote a key, in the first n entries of Home
VersionOf(key, n) ==
    LET at == {i \in 1 .. n : key \in written[Home][i]}
    IN  IF at = {} THEN Absent ELSE (CHOOSE i \in at : \A j \in at : j <= i) - 1

Required(caller, key) == {f.version : f \in {g \in floors[caller] : g.key = key}}

Serve(key, version) == [decision |-> "serve", key |-> key, version |-> version]
Redirect(key) == [decision |-> "redirect", key |-> key, version |-> Absent]

\* Mutant: a follower that has nothing of a key says so.
MayServeNothing(follower, caller, key) ==
    LET have == VersionOf(key, position[follower])
    IN  IF \A r \in Required(caller, key) : have = Absent \/ have >= r
        THEN Serve(key, have) ELSE Redirect(key)

MayServe(follower, caller, key) ==
    LET have == VersionOf(key, position[follower])
        required == Required(caller, key)
    IN  IF required = {} \/ (have # Absent /\ \A r \in required : have >= r)
        THEN Serve(key, have) ELSE Redirect(key)

\* observed: a floor only goes up
Observed(fs, key, version) ==
    LET known == {f \in fs : f.key = key}
    IN  IF \E f \in known : f.version >= version THEN fs
        ELSE (fs \ known) \cup {[key |-> key, version |-> version]}

\* record: what a read returned, unless the key was not there
Record(fs, decision) ==
    IF decision.decision = "serve" /\ decision.version # Absent
    THEN Observed(fs, decision.key, decision.version) ELSE fs

-----------------------------------------------------------------------------
NoAnswer == [decision |-> "none", caller |-> "nobody", key |-> "nothing", version |-> Absent]

Init ==
    /\ clock = 0
    /\ existing = BranchIds
    /\ placement = {} /\ merged = {}
    /\ written = [b \in BranchIds |-> <<>>]
    /\ position = [f \in Followers |-> 0]
    /\ floors = [c \in Callers |-> {}]
    /\ seen = [c \in Callers |-> [k \in Keys |-> Absent]]
    /\ answer = NoAnswer

Tick ==
    /\ clock < MaxClock
    /\ clock' = clock + 1
    /\ UNCHANGED <<existing, placement, written, merged, position, floors, seen, answer>>

\* place_region: the branch must exist, and a region is placed once.
PlaceRegion(region, branch) ==
    /\ branch \in existing
    /\ ~Placed(region)
    /\ placement' = placement \cup {[region |-> region, branch |-> branch]}
    /\ UNCHANGED <<clock, existing, written, merged, position, floors, seen, answer>>

\* discard_branch; it does not ask whether a region is placed on the branch.
DiscardBranch(branch) ==
    /\ branch \in existing \ {Home}
    /\ Cardinality(BranchIds \ existing) < MaxDiscards
    /\ existing' = existing \ {branch}
    /\ UNCHANGED <<clock, placement, written, merged, position, floors, seen, answer>>

\* A write in a region: on the branch route_write names.  The caller observes the
\* version of what it wrote at home.
Write(caller, region, key) ==
    \E branch \in Route(region) \cap existing :
        /\ Len(written[branch]) < MaxWrites
        /\ written' = [written EXCEPT ![branch] = Append(@, {key})]
        /\ IF branch = Home
           THEN /\ floors' = [floors EXCEPT ![caller] = Observed(@, key, Len(written[Home]))]
                /\ seen' = [seen EXCEPT ![caller][key] = Len(written[Home])]
           ELSE UNCHANGED <<floors, seen>>
        /\ answer' = NoAnswer
        /\ UNCHANGED <<clock, existing, placement, merged, position>>

\* The cadence merges a region's branch home: its keys in one commit and a Merge
\* entry after it, or nothing when home wrote one of them since the fork.
MergeHome(region) ==
    \E branch \in (Route(region) \cap existing) \ {Home} :
        LET theirs == UNION Range(written[branch])
        IN  /\ region \in Lagging
            /\ Len(written[Home]) + 2 <= MaxWrites
            /\ theirs # {} /\ theirs \cap UNION Range(written[Home]) = {}
            /\ written' = [written EXCEPT ![Home] = @ \o <<theirs, {}>>]
            /\ merged' = {m \in merged : m.region # region}
                            \cup {[region |-> region, at |-> clock]}
            /\ UNCHANGED <<clock, existing, placement, position, floors, seen, answer>>

\* A follower applies the next entry it receives.
Follow(follower) ==
    /\ position[follower] < Len(written[Home])
    /\ position' = [position EXCEPT ![follower] = @ + 1]
    /\ UNCHANGED <<clock, existing, placement, written, merged, floors, seen, answer>>

\* A caller asks any follower, and records what it is told.
Read(caller, follower, key) ==
    LET decision == MayServe(follower, caller, key)
    IN  /\ answer' = [caller |-> caller, decision |-> decision.decision,
                      key |-> key, version |-> decision.version]
        /\ floors' = [floors EXCEPT ![caller] = Record(@, decision)]
        /\ seen' = [seen EXCEPT ![caller][key] =
                        IF decision.version > @ THEN decision.version ELSE @]
        /\ UNCHANGED <<clock, existing, placement, written, merged, position>>

Next ==
    \/ Tick
    \/ \E r \in RegionNames, b \in BranchIds : PlaceRegion(r, b)
    \/ \E b \in BranchIds : DiscardBranch(b)
    \/ \E c \in Callers, r \in RegionNames, k \in Keys : Write(c, r, k)
    \/ \E r \in RegionNames : MergeHome(r)
    \/ \E f \in Followers : Follow(f)
    \/ \E c \in Callers, f \in Followers, k \in Keys : Read(c, f, k)

Spec == Init /\ [][Next]_vars

-----------------------------------------------------------------------------
TypeOK ==
    /\ \A p, q \in placement : p.region = q.region => p = q
    /\ \A f \in Followers : position[f] \in 0 .. Len(written[Home])
    /\ \A c \in Callers : \A f, g \in floors[c] : f.key = g.key => f = g

\* A caller that has seen a version of a key, by writing it or by reading it from
\* any follower, is never shown an older one by another (may_serve).
NoReadGoesBack ==
    answer' # answer /\ answer'.decision = "serve"
        => answer'.version >= seen[answer'.caller][answer'.key]

\* Once a region has a branch its writes keep going there (place).
RouteKept == \A r \in RegionNames : Placed(r) => Route(r)' = Route(r)
=============================================================================
