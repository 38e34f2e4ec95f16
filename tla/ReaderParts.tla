---------------------------- MODULE ReaderParts ----------------------------
(* What reads and keeps an instance's data elsewhere: replicas that exchange   *)
(* the entries of their logs (Sync), Scribe's clients (Scribe), and a language *)
(* binding's session (Binding), each an instance of its module, over constants *)
(* and variables with names of their own.                                      *)
EXTENDS OnePart

CONSTANTS Replicas, SyncKeys, SyncWrites
VARIABLES logs, writes
Copies == INSTANCE Sync WITH Keys <- SyncKeys, MaxWrites <- SyncWrites, written <- writes

CONSTANTS ClientTasks, ClientKeys, ClientBranch, CacheSize, CacheTtl, ClientPool, ClientRefreshes,
          ClientWrites, ClientTime, ClientCalls
VARIABLES stored, wrote, caches, tasks, idle, orphans, token, hour, acked, called
clientVars == <<stored, wrote, caches, tasks, idle, orphans, token, hour, acked, called>>
Clients == INSTANCE Scribe WITH
  Tasks <- ClientTasks, Keys <- ClientKeys, BranchOf <- ClientBranch,
  Capacity <- CacheSize, Ttl <- CacheTtl, PoolSize <- ClientPool, Refreshes <- ClientRefreshes,
  MaxWrites <- ClientWrites, MaxTime <- ClientTime, MaxCalls <- ClientCalls,
  rows <- stored, made <- wrote, now <- hour, calls <- called

CONSTANTS SessionCallers, SessionMethods, SessionCalls
VARIABLES asked, queue, dialogue, sock, flight, server, begun
sessionVars == <<asked, queue, dialogue, sock, flight, server, begun>>
Spoken == INSTANCE Binding WITH
  Callers <- SessionCallers, Methods <- SessionMethods, MaxCalls <- SessionCalls,
  calls <- asked, session <- dialogue, made <- begun

(* Replicas holding the same entries say the same, and every log is one whole, *)
(* unforged chain, by whatever routes the entries came.                        *)
ReplicasConverge == part = "sync" => Copies!ReplicasConverge

(* A client's own writes are in what it reads afterwards, no cache or pooled   *)
(* connection mixes branches or calls (Scribe); and a caller of a binding is   *)
(* told what became of its own request, however its bytes arrived (Binding).   *)
ClientsAreAnswered ==
  /\ part = "scribe" => Clients!OwnWritesSeen /\ Clients!EntriesAreTheirBranchs /\ Clients!PoolIsClean
  /\ part = "binding" =>
       /\ Spoken!FramesReadWhole /\ Spoken!ToldTheTruth
       /\ Spoken!OneAtATime /\ Spoken!NoAnswerDropped
=============================================================================
