----------------------------- MODULE DurableLog -----------------------------
(***************************************************************************)
(* What a write-ahead log promises its callers, with no files in it: an     *)
(* append-only sequence of records.  A batch handed to the log joins it as a *)
(* whole when it is acknowledged; a crash before that may leave any prefix  *)
(* of it, and nothing that is in the log ever leaves it.                    *)
(***************************************************************************)
EXTENDS Naturals, Sequences

VARIABLES
    log,       \* the records a recovery would return, from genesis
    inflight,  \* the batch being appended
    promised   \* the records of acknowledged batches

vars == <<log, inflight, promised>>

Ids(s) == {s[i] : i \in 1 .. Len(s)}

Init ==
    /\ log = <<>>
    /\ inflight = <<>>
    /\ promised = {}

\* A batch of fresh records, numbered upwards.
Begin ==
    /\ inflight = <<>>
    /\ inflight' # <<>>
    /\ \A i \in 1 .. Len(inflight'), j \in 1 .. Len(log) : inflight'[i] > log[j]
    /\ UNCHANGED <<log, promised>>

Acknowledge ==
    /\ inflight # <<>>
    /\ log' = log \o inflight
    /\ promised' = promised \cup Ids(inflight)
    /\ inflight' = <<>>

Abandon ==
    /\ inflight # <<>>
    /\ \E n \in 0 .. Len(inflight) : log' = log \o SubSeq(inflight, 1, n)
    /\ inflight' = <<>>
    /\ UNCHANGED promised

Next == Begin \/ Acknowledge \/ Abandon

Spec == Init /\ [][Next]_vars
=============================================================================
