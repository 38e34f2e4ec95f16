------------------------------ MODULE MCServer ------------------------------
(***************************************************************************)
(* Server's runs.                                                           *)
(***************************************************************************)
EXTENDS Server
CONSTANTS c1, c2, t1, bad  \* clients; a genuine token and one that is not

\* Every request is answered and every revocation push lands, or the process has
\* stopped: nobody waits for ever on a lock or the queue.
NobodyWaitsForEver == RequestsAnswered /\ RevocationsLand
=============================================================================
