--------------------------- MODULE MCDurableStore ---------------------------
(***************************************************************************)
(* The durable store's run: two instances of it in one, over the same        *)
(* variables.  In the one, `resume`, one branch beside main lives through     *)
(* checkpoints every two entries, lost snapshots, I/O errors, stray writes   *)
(* and released segments; in the other, `branches`, two branches, a merge    *)
(* and a second life are always replayed from genesis.  Branch names are     *)
(* interchangeable.                                                          *)
(***************************************************************************)
EXTENDS DurableStore, TLC

CONSTANTS x, y  \* branch names
NameSymmetry == Permutations({x, y})  \* `resume` has only x: no state of it has y

VARIABLE shape

Wide == INSTANCE DurableStore WITH
    Names <- {x, y}, Interval <- 9, MaxEntries <- 5, MaxBranch <- 2, MaxLives <- 2, ForkCkpts <- 2,
    MaxCheckpoints <- 0, MaxFaults <- 0, MaxLosses <- 0, MaxIncrements <- 2, MaxMerges <- 1,
    MaxStrays <- 0, MaxReleased <- 0
ASSUME Wide!StoreAssumption

Resumes == shape = "resume"
Forks == shape = "branches"

ComposedInit == shape \in {"resume", "branches"} /\ IF Resumes THEN Init ELSE Wide!Init
OnResume(A) == Resumes /\ A /\ UNCHANGED shape
OnForks(A) == Forks /\ A /\ UNCHANGED shape
ComposedNext ==
    \/ OnResume(AppendEntry) \/ OnResume(AppendFails) \/ OnResume(AdvanceHead)
    \/ OnResume(WriteSnapshot) \/ OnResume(WriteCheckpoint) \/ OnResume(CheckpointFails)
    \/ \E b \in Branches : OnResume(Write(b))
    \/ \E name \in Names, b \in Branches : OnResume(CreateBranch(name, b))
    \/ \E name \in Names : OnResume(DiscardBranch(name))
    \/ OnResume(Release) \/ OnResume(LoseSnapshot)
    \/ OnResume(Shutdown) \/ OnResume(Halt) \/ OnResume(Crash)
    \/ OnResume(Open) \/ OnResume(ReplayEntry) \/ OnResume(Refuse) \/ OnResume(Ready)
    \/ OnForks(Wide!AppendEntry) \/ OnForks(Wide!AdvanceHead) \/ OnForks(Wide!InstallStates)
    \/ \E b \in Wide!Branches : OnForks(Wide!Write(b))
    \/ \E name \in {x, y}, b \in Wide!Branches : OnForks(Wide!CreateBranch(name, b))
    \/ \E name \in {x, y} : OnForks(Wide!DiscardBranch(name))
    \/ \E s, t \in Wide!Branches : OnForks(Wide!Merge(s, t))
    \/ OnForks(Wide!Crash)
    \/ OnForks(Wide!Open) \/ OnForks(Wide!ReplayEntry) \/ OnForks(Wide!Ready)
ComposedSpec == ComposedInit /\ [][ComposedNext]_<<vars, shape>>

\* One instance, with the constants of the .cfg: the runs that show a disagreement.
AloneSpec == shape = "alone" /\ Init /\ [][Next /\ UNCHANGED shape]_<<vars, shape>>

\* The variables keep their types, and whatever crashed, failed, was checkpointed
\* or replayed, each branch id no client discarded, registered or not, shows what
\* was written to it, inherited and merged.
ViewsSurvive ==
    /\ Resumes => TypeOK /\ ViewsRecover
    /\ Forks => Wide!TypeOK /\ Wide!ViewsRecover
=============================================================================
