------------------------------- MODULE Scribe -------------------------------
(* The Scribe client of one process: handles on branches, each with a read     *)
(* cache its clones share, over one pool of connections to the server          *)
(* (theta-scribe client.rs, cache.rs, pool.rs, token.rs). Tasks call           *)
(* concurrently; a connection may end, and a call be dropped, at any await.    *)
(* A row's value is the number of the write that made it; a delete is a write. *)
EXTENDS Integers, SequencesExt

CONSTANTS Tasks, Keys,
          BranchOf,     \* the branch of each handle: on_branch makes another handle
          Capacity,     \* of each handle's cache
          Ttl,          \* of each handle's cache; zero turns it off
          PoolSize,
          Refreshes,    \* whether the token source can fetch a new token
          MaxWrites, MaxTime, MaxCalls

Handles == DOMAIN BranchOf
Branches == {BranchOf[h] : h \in Handles}

(* No key is named as the marker of a change to all of them.                   *)
ScribeAssumption ==
  /\ IsFiniteSet(Keys) /\ Keys # {} /\ "*" \notin Keys /\ Handles # {}
  /\ Capacity \in [Handles -> Nat] /\ Ttl \in [Handles -> Nat]
  /\ PoolSize \in Nat

VARIABLES rows,      \* the server's: the last write of each key of each branch
          made,      \* which key of which branch each write was of
          caches,    \* each handle's cache
          tasks,     \* what each task is doing
          idle,      \* the pool's idle connections, oldest first
          orphans,   \* requests of lost connections the server may have yet to serve
          token,     \* whether the server still honours the token the source holds
          now,
          acked,     \* per handle and key, the last write it was told had landed
          calls      \* how many calls were made (bound)
scribeVars == <<rows, made, caches, tasks, idle, orphans, token, now, acked, calls>>

\* --------------------------------------------------------------- the cache
NoCache == [entries |-> <<>>, sequence |-> 0]
Enabled(h) == Ttl[h] > 0 /\ Capacity[h] > 0
Without(cache, gone) == [cache EXCEPT !.entries = Restrict(@, DOMAIN @ \ gone)]

(* A fresh entry answers; a stale one is dropped by the look-up that finds it. *)
Fresh(h, k) ==
  /\ Enabled(h) /\ k \in DOMAIN caches[h].entries
  /\ now - caches[h].entries[k].at < Ttl[h]
LookedUp(h, k) == IF Fresh(h, k) THEN caches[h] ELSE Without(caches[h], {k})

Oldest(cache) ==
  CHOOSE k \in DOMAIN cache.entries :
    \A l \in DOMAIN cache.entries : cache.entries[k].sequence <= cache.entries[l].sequence
CachePut(h, k, value, raced) ==
  LET full == Cardinality(DOMAIN caches[h].entries) >= Capacity[h] /\ k \notin DOMAIN caches[h].entries
      room == IF full THEN Without(caches[h], {Oldest(caches[h])}) ELSE caches[h]
      entry == [value |-> value, at |-> now, sequence |-> room.sequence + 1, raced |-> raced]
  IN  IF ~Enabled(h) THEN caches[h]
      ELSE [entries |-> [l \in DOMAIN room.entries \cup {k} |->
                           IF l = k THEN entry ELSE room.entries[l]],
            sequence |-> room.sequence + 1]

\* Mutant: a write leaves the key it changes in the cache.
InvalidatedLater(cache, keys) == cache
Invalidated(cache, keys) == Without(cache, keys)

\* ---------------------------------------------------------------- requests
(* What a call sends: a get or a put of one key, or a change that may touch    *)
(* every key of the branch (apply, merge).                                     *)
GetOf(k) == [op |-> "get", key |-> k]
PutOf(k) == [op |-> "put", key |-> k]
Sweep == [op |-> "all", key |-> "*"]
Writes(reqs) ==
  IF Sweep \in ToSet(reqs) THEN Keys ELSE {r.key : r \in {q \in ToSet(reqs) : q.op = "put"}}

NoConn == [next |-> 0, wire |-> <<>>, back |-> <<>>]
Resting == [pc |-> "rest", h |-> CHOOSE h \in Handles : TRUE, reqs |-> <<>>, conn |-> NoConn,
            got |-> <<>>, raced |-> FALSE]

Busy(t) == tasks[t].pc # "rest"
(* A get that overlaps a write of its key through the same cache.              *)
Overlapping(h, k) == \E t \in Tasks : Busy(t) /\ tasks[t].h = h /\ k \in Writes(tasks[t].reqs)

Started(t, h, reqs, raced) ==
  [[u \in Tasks |-> IF tasks[u].h = h /\ \E k \in Writes(reqs) : GetOf(k) \in ToSet(tasks[u].reqs)
                    THEN [tasks[u] EXCEPT !.raced = TRUE] ELSE tasks[u]]
     EXCEPT ![t] = [Resting EXCEPT !.pc = "acquire", !.h = h, !.reqs = reqs, !.raced = raced]]

Unserved == UNCHANGED <<rows, made, orphans>>
Outside == Unserved /\ UNCHANGED <<token, now, calls>>
Calls(t) == ~Busy(t) /\ calls < MaxCalls /\ calls' = calls + 1 /\ Unserved /\ UNCHANGED <<idle, token, now, acked>>

(* get: a fresh entry is the answer, and the call is over.                     *)
Get(t, h, k) ==
  /\ Calls(t)
  /\ caches' = [caches EXCEPT ![h] = LookedUp(h, k)]
  /\ tasks' = IF Fresh(h, k) THEN tasks ELSE Started(t, h, <<GetOf(k)>>, Overlapping(h, k))

(* put, delete, put_many: the keys leave the cache first. (A transaction does  *)
(* the same, of one request.)                                                  *)
Put(t, h, keys) ==
  /\ Calls(t) /\ keys # <<>>
  /\ caches' = [caches EXCEPT ![h] = Invalidated(@, ToSet(keys))]
  /\ tasks' = Started(t, h, [i \in 1..Len(keys) |-> PutOf(keys[i])], FALSE)

(* apply, merge: everything leaves the cache.                                  *)
Change(t, h) ==
  /\ Calls(t)
  /\ caches' = [caches EXCEPT ![h] = Invalidated(@, Keys)]
  /\ tasks' = Started(t, h, <<Sweep>>, FALSE)

\* ---------------------------------------------------------------- the pool
At(t, pc) == tasks[t].pc = pc
Becomes(t, task) == [tasks EXCEPT ![t] = task]
To(t, pc) == Becomes(t, [tasks[t] EXCEPT !.pc = pc])
Failed(t) == Becomes(t, Resting)

(* call, pipeline: every request goes out, numbered, before the first reply is *)
(* read.                                                                       *)
Sent(t, conn) ==
  LET reqs == tasks[t].reqs
      Request(i) == [id |-> conn.next + i - 1, branch |-> BranchOf[tasks[t].h], body |-> reqs[i]]
  IN  Becomes(t, [tasks[t] EXCEPT !.pc = "await",
                                  !.conn = [conn EXCEPT !.wire = [i \in 1..Len(reqs) |-> Request(i)],
                                                        !.next = conn.next + Len(reqs)]])

Acquire(t) ==
  /\ At(t, "acquire")
  /\ IF idle = <<>> THEN tasks' = To(t, "open") /\ UNCHANGED idle
     ELSE tasks' = Sent(t, Head(idle)) /\ idle' = Tail(idle)
  /\ Outside /\ UNCHANGED <<caches, acked>>

(* A handshake the token does not carry is tried once more, with a new token   *)
(* if the source can fetch one.                                                *)
Open(t) ==
  /\ tasks[t].pc \in {"open", "retry"}
  /\ IF token = "good" THEN tasks' = Sent(t, [NoConn EXCEPT !.next = 1]) /\ UNCHANGED token
     ELSE IF At(t, "open") /\ Refreshes
     THEN tasks' = To(t, "retry") /\ token' = "good"
     ELSE tasks' = Failed(t) /\ UNCHANGED token
  /\ Unserved /\ UNCHANGED <<caches, idle, acked, now, calls>>

Pooled(conns) == IF Len(idle) < PoolSize THEN idle \o conns ELSE idle

(* The replies come in order and must bear their requests' numbers; any other  *)
(* number ends the call and its connection. After the last, the connection     *)
(* goes back to the pool, if there is room.                                    *)
Expected(t) == tasks[t].conn.next - Len(tasks[t].reqs) + Len(tasks[t].got)
Receive(t) ==
  /\ At(t, "await") /\ tasks[t].conn.back # <<>>
  /\ LET reply == Head(tasks[t].conn.back)
         all == Len(tasks[t].got) + 1 = Len(tasks[t].reqs)
         rest == [tasks[t].conn EXCEPT !.back = Tail(tasks[t].conn.back)]
     IN  IF reply.id # Expected(t) THEN tasks' = Failed(t) /\ UNCHANGED idle
         ELSE /\ tasks' = Becomes(t, [tasks[t] EXCEPT !.conn = IF all THEN NoConn ELSE rest,
                                                      !.got = Append(tasks[t].got, reply.value),
                                                      !.pc = IF all THEN "settle" ELSE "await"])
              /\ idle' = IF all THEN Pooled(<<rest>>) ELSE idle
  /\ Outside /\ UNCHANGED <<caches, acked>>

(* The call returns: a get stores what it was told, a write is acknowledged    *)
(* unless one of its replies was a refusal.                                    *)
RefusedReply == -1
LandedAs(t, k) ==
  CHOOSE n \in ToSet(tasks[t].got) :
    n > 0 /\ made[n] = <<BranchOf[tasks[t].h], IF tasks[t].reqs[1] = Sweep THEN "*" ELSE k>>
Settle(t) ==
  LET h == tasks[t].h
      k == tasks[t].reqs[1].key
      refused == RefusedReply \in ToSet(tasks[t].got)
  IN  /\ At(t, "settle")
      /\ IF tasks[t].reqs[1].op = "get"
         THEN /\ caches' = IF refused THEN caches
                           ELSE [caches EXCEPT ![h] = CachePut(h, k, tasks[t].got[1], tasks[t].raced)]
              /\ UNCHANGED acked
         ELSE /\ acked' = IF refused THEN acked
                          ELSE [acked EXCEPT ![h] = [l \in Keys |->
                                 IF l \in Writes(tasks[t].reqs) THEN Max({acked[h][l], LandedAs(t, l)})
                                 ELSE acked[h][l]]]
              /\ UNCHANGED caches
      /\ tasks' = Failed(t)
      /\ Outside /\ UNCHANGED idle

(* The connection ends, or the caller drops the call: it does not go back to   *)
(* the pool. What the server had been sent it may still serve.                 *)
Lose(t) ==
  /\ tasks[t].pc \in {"open", "retry", "await"}
  /\ orphans' = IF tasks[t].conn.wire = <<>> THEN orphans ELSE orphans \cup {tasks[t].conn.wire}
  /\ tasks' = Failed(t)
  /\ UNCHANGED <<idle, rows, made, caches, token, now, acked, calls>>

\* ------------------------------------------------------------- the other side
(* What serving a request does: a sweep writes every key of the branch at once.*)
Touched(req) == IF req.body = Sweep THEN Keys ELSE IF req.body.op = "put" THEN {req.body.key} ELSE {}
Served(req) ==
  LET n == Len(made) + 1
  IN  /\ Touched(req) # {} => n <= MaxWrites
      /\ rows' = [rows EXCEPT ![req.branch] =
                    [k \in Keys |-> IF k \in Touched(req) THEN n ELSE rows[req.branch][k]]]
      /\ made' = IF Touched(req) = {} THEN made
                 ELSE Append(made, <<req.branch, req.body.key>>)

Reply(t, value) ==
  LET conn == tasks[t].conn
      reply == [id |-> Head(conn.wire).id, value |-> value]
  IN  tasks' = Becomes(t, [tasks[t] EXCEPT !.conn = [conn EXCEPT !.wire = Tail(conn.wire),
                                                                 !.back = Append(conn.back, reply)]])
Serve(t) ==
  /\ At(t, "await") /\ tasks[t].conn.wire # <<>>
  /\ LET req == Head(tasks[t].conn.wire)
     IN  /\ Served(req)
         /\ Reply(t, IF req.body.op = "get" THEN rows[req.branch][req.body.key] ELSE Len(made) + 1)
  /\ UNCHANGED <<caches, idle, orphans, token, now, acked, calls>>
Refuse(t) ==
  /\ At(t, "await") /\ tasks[t].conn.wire # <<>> /\ Reply(t, RefusedReply)
  /\ UNCHANGED <<rows, made, caches, idle, orphans, token, now, acked, calls>>
ServeOrphan(wire) ==
  /\ wire \in orphans /\ Served(Head(wire))
  /\ orphans' = (orphans \ {wire}) \cup (IF Len(wire) = 1 THEN {} ELSE {Tail(wire)})
  /\ UNCHANGED <<caches, tasks, idle, token, now, acked, calls>>

Tick ==
  /\ now < MaxTime /\ now' = now + 1
  /\ UNCHANGED <<rows, made, caches, tasks, idle, orphans, token, acked, calls>>
Expire ==
  /\ token = "good" /\ token' = "expired"
  /\ UNCHANGED <<rows, made, caches, tasks, idle, orphans, now, acked, calls>>

Init ==
  /\ rows = [b \in Branches |-> [k \in Keys |-> 0]] /\ made = <<>>
  /\ caches = [h \in Handles |-> NoCache] /\ tasks = [t \in Tasks |-> Resting]
  /\ idle = <<>> /\ orphans = {} /\ token = "good" /\ now = 0
  /\ acked = [h \in Handles |-> [k \in Keys |-> 0]] /\ calls = 0

Next ==
  \/ \E t \in Tasks, h \in Handles, k \in Keys : Get(t, h, k)
  \/ \E t \in Tasks, h \in Handles, keys \in SetToSeqs(Keys) \cup {<<k>> : k \in Keys} : Put(t, h, keys)
  \/ \E t \in Tasks, h \in Handles : Change(t, h)
  \/ \E t \in Tasks : \/ Acquire(t) \/ Open(t) \/ Serve(t) \/ Refuse(t) \/ Receive(t)
                      \/ Settle(t) \/ Lose(t)
  \/ \E wire \in orphans : ServeOrphan(wire)
  \/ Tick \/ Expire

Spec == Init /\ [][Next]_scribeVars

\* ---------------------------------------------------------------- properties
Stages == {"rest", "acquire", "open", "retry", "await", "settle"}
TypeOK ==
  /\ \A b \in Branches, k \in Keys : rows[b][k] \in 0..MaxWrites
  /\ \A t \in Tasks : tasks[t].pc \in Stages /\ tasks[t].h \in Handles
  /\ token \in {"good", "expired"} /\ now \in 0..MaxTime

(* Whatever a cache holds is a value its own branch had for that key, however  *)
(* calls of several handles shared the pool's connections (client.rs           *)
(* on_branch).                                                                 *)
EntriesAreTheirBranchs ==
  \A h \in Handles : \A k \in DOMAIN caches[h].entries :
    LET n == caches[h].entries[k].value
    IN  n > 0 => made[n][1] = BranchOf[h] /\ made[n][2] \in {k, "*"}

(* A read after a write this cache was told had landed never gets an older     *)
(* value from the cache (cache.rs invalidate), unless it was stored by a get   *)
(* that was under way together with the write.                                 *)
OwnWritesSeen ==
  \A h \in Handles : \A k \in DOMAIN caches[h].entries :
    caches[h].entries[k].raced \/ caches[h].entries[k].value >= acked[h][k]

(* What waits in the pool has no reply outstanding, so no caller can be given  *)
(* another's (pool.rs: a connection that errored is dropped); and neither pool *)
(* nor caches outgrow their bounds.                                            *)
PoolIsClean ==
  /\ Len(idle) <= PoolSize
  /\ \A i \in 1..Len(idle) : idle[i].wire = <<>> /\ idle[i].back = <<>>
  /\ \A h \in Handles : Cardinality(DOMAIN caches[h].entries) <= Capacity[h]
=============================================================================
