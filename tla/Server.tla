------------------------------- MODULE Server -------------------------------
(***************************************************************************)
(* A running instance: thetad's server.rs (connections, handshake, the      *)
(* authorizer behind an RwLock), service.rs (the engine task behind a       *)
(* bounded channel), session.rs, and theta-identity's revocation.rs.        *)
(*                                                                         *)
(* What a request does is Engine's business; here it is executed or it is   *)
(* not.  A handler runs from one await to the next in one step.  The lock   *)
(* is tokio's, which is fair: whoever waits is served in order, readers     *)
(* sharing.  Frames written to a client fit the socket's buffer.            *)
(***************************************************************************)
EXTENDS Naturals, Sequences, FiniteSets

CONSTANTS
    Conns,          \* clients, each with one connection at a time
    Tokens,         \* session tokens
    Genuine,        \* the ones this project's keys signed for this environment
    MaxConnections, \* ServerConfig.max_connections
    QueueDepth,     \* ServerConfig.queue_depth
    StalenessLimit, \* RevocationSync.staleness_limit_ms
    ExpiresAt,      \* expires_at_ms of every genuine token
    ClientsLeave,   \* clients may close their connections
    StartsSynced,   \* Authorizer::new, or awaiting_first_sync
    MaxClock,       \* bound: the last instant
    MaxRequests,    \* bound: requests sent
    MaxPushes,      \* bound: revocation pushes sent
    MaxTicks        \* bound: maintenance ticks

ASSUME ServerAssumption ==
    /\ Genuine \subseteq Tokens
    /\ MaxConnections \in Nat \ {0}
    /\ QueueDepth \in Nat \ {0}
    /\ {ClientsLeave, StartsSynced} \subseteq BOOLEAN
    /\ {StalenessLimit, ExpiresAt, MaxClock, MaxRequests, MaxPushes, MaxTicks} \subseteq Nat

VARIABLES
    clock,
    serving,    \* "accepting", "closing" once serve has returned, "exited"
    phase,      \* where each connection's handler is
    token,      \* the token each client has
    asked,      \* the request, or the pushed version, the handler is busy with
    gone,       \* connections whose client has closed its end
    waiters,    \* who waits for the authorizer's lock, in order
    readers,    \* who holds a read guard
    lists,      \* the Control Plane's revocation lists, by version
    version,    \* RevocationSync.list.version
    lastSynced, \* RevocationSync.last_synced_ms, or NEVER
    queue,      \* the engine's jobs
    engine,     \* "idle", "anchoring" or "stopped"
    executed,   \* requests the engine has dispatched
    answered,   \* requests answered with the engine's response
    bounds

authorizer == <<lists, version, lastSynced>>
lock == <<waiters, readers>>
work == <<queue, engine, executed>>
vars == <<clock, serving, phase, token, asked, gone, lock, authorizer, work, answered, bounds>>

NEVER == MaxClock + 1
NONE == 0
Phases == {"none", "hello lock", "hello", "open", "request lock", "push lock", "calling", "replied"}

Init ==
    /\ clock = 0
    /\ serving = "accepting"
    /\ phase = [c \in Conns |-> "none"]
    /\ token \in [Conns -> Tokens]
    /\ asked = [c \in Conns |-> NONE]
    /\ gone = {}
    /\ waiters = <<>>
    /\ readers = {}
    /\ lists = <<>>
    /\ version = 0
    /\ lastSynced = IF StartsSynced THEN 0 ELSE NEVER
    /\ queue = <<>>
    /\ engine = "idle"
    /\ executed = {}
    /\ answered = {}
    /\ bounds = [requests |-> 0, pushes |-> 0, ticks |-> 0]

Running == serving # "exited"
In(c, p) == Running /\ phase[c] = p
Goes(c, p) == phase' = [phase EXCEPT ![c] = p]

-----------------------------------------------------------------------------
(* authorize *)

\* The tokens a list of that version covers; revocations only accumulate.
Covered(v) == {lists[i] : i \in 1 .. v}

Stale == lastSynced = NEVER \/ clock > lastSynced + StalenessLimit

\* Signature, expiry and environment, then revocation, then staleness.
Authorized(t) == t \in Genuine /\ clock < ExpiresAt /\ t \notin Covered(version) /\ ~Stale

-----------------------------------------------------------------------------
(* The lock *)

Wait(c) == waiters' = Append(waiters, c)
AtHead(c) == waiters # <<>> /\ Head(waiters) = c

\* Mutants: a connection keeps its guard between requests; the guard is
\* released before the call.
GuardStored(c) == readers
GuardDropped(c) == readers

Released(c) == readers \ {c}
Kept(c) == readers \cup {c}

\* The handler has answered: it reads the next frame, or finds its client gone
\* and ends, and its permit with it.
Continues(c) ==
    /\ Goes(c, IF c \in gone THEN "none" ELSE "open")
    /\ gone' = gone \ {c}
    /\ asked' = [asked EXCEPT ![c] = NONE]
Ends(c) ==
    /\ Goes(c, "none")
    /\ gone' = gone \ {c}
    /\ asked' = [asked EXCEPT ![c] = NONE]

-----------------------------------------------------------------------------
(* Connections *)

\* A connection within the limit gets a handler, which asks for the lock first;
\* one over the limit is dropped, and changes nothing.
Handlers == {c \in Conns : phase[c] # "none"}
Accept(c) ==
    /\ serving = "accepting"
    /\ phase[c] = "none"
    /\ Cardinality(Handlers) < MaxConnections
    /\ Goes(c, "hello lock")
    /\ Wait(c)
    /\ UNCHANGED <<clock, serving, token, asked, gone, readers, authorizer, work, answered, bounds>>

\* The scrutinee's read guard lives until the handshake's match ends, so it is
\* held while the handler reads the client's Hello.
LockForHello(c) ==
    /\ In(c, "hello lock")
    /\ AtHead(c)
    /\ waiters' = Tail(waiters)
    /\ readers' = Kept(c)
    /\ Goes(c, "hello")
    /\ UNCHANGED <<clock, serving, token, asked, gone, authorizer, work, answered, bounds>>

\* The Hello arrives: Welcome, or a refusal and the end.
Hello(c) ==
    /\ In(c, "hello")
    /\ c \notin gone
    /\ IF Authorized(token[c]) THEN Continues(c) ELSE Ends(c)
    /\ readers' = Released(c)
    /\ UNCHANGED <<clock, serving, token, waiters, authorizer, work, answered, bounds>>

\* A client goes away; the handler finds out when it next reads.
Leave(c) ==
    /\ ClientsLeave
    /\ c \in Handlers /\ Running
    /\ c \notin gone
    /\ gone' = gone \cup {c}
    /\ UNCHANGED <<clock, serving, phase, token, asked, lock, authorizer, work, answered, bounds>>

FindsGone(c) ==
    /\ In(c, "hello") \/ In(c, "open")
    /\ c \in gone
    /\ Ends(c)
    /\ readers' = readers \ {c}
    /\ UNCHANGED <<clock, serving, token, waiters, authorizer, work, answered, bounds>>

-----------------------------------------------------------------------------
(* Requests *)

Request(c) ==
    /\ In(c, "open")
    /\ c \notin gone
    /\ bounds.requests < MaxRequests
    /\ bounds' = [bounds EXCEPT !.requests = @ + 1]
    /\ asked' = [asked EXCEPT ![c] = bounds.requests + 1]
    /\ Goes(c, "request lock")
    /\ Wait(c)
    /\ UNCHANGED <<clock, serving, token, gone, readers, authorizer, work, answered>>

\* The read guard is granted.  The token is checked again, and the guard is kept
\* while the job waits and runs; Busy releases it, and a refusal ends the
\* connection.
RoomAlways == TRUE  \* mutant: an unbounded channel
Room == Len(queue) < QueueDepth

Enqueue(c) ==
    /\ queue' = Append(queue, [conn |-> c, token |-> token[c], id |-> asked[c]])
    /\ readers' = Kept(c)
    /\ Goes(c, "calling")
    /\ UNCHANGED <<asked, gone>>
CheckRequest(c) ==
    /\ In(c, "request lock")
    /\ AtHead(c)
    /\ waiters' = Tail(waiters)
    /\ \/ Authorized(token[c]) /\ Room /\ Enqueue(c)
       \/ Authorized(token[c]) /\ ~Room /\ Continues(c) /\ UNCHANGED <<queue, readers>>
       \/ ~Authorized(token[c]) /\ Ends(c) /\ UNCHANGED <<queue, readers>>
    /\ UNCHANGED <<clock, serving, token, authorizer, engine, executed, answered, bounds>>

\* The engine task takes the oldest job, dispatches it and answered, whether or
\* not anyone is there to be told.
Dispatch ==
    /\ Running
    /\ engine = "idle"
    /\ queue # <<>>
    /\ queue' = Tail(queue)
    /\ executed' = executed \cup {Head(queue).id}
    /\ Goes(Head(queue).conn, "replied")
    /\ UNCHANGED <<clock, serving, token, asked, gone, lock, authorizer, engine, answered, bounds>>

\* The handler has its response: the match ends and the response is written.
Reply(c) ==
    /\ In(c, "replied")
    /\ readers' = Released(c)
    /\ Continues(c)
    /\ answered' = answered \cup {asked[c]}
    /\ UNCHANGED <<clock, serving, token, waiters, authorizer, work, bounds>>

-----------------------------------------------------------------------------
(* Revocations *)

\* The Control Plane revokes one more token: the next version.
Revoke(t) ==
    /\ Running
    /\ t \in Genuine \ Covered(Len(lists))
    /\ lists' = Append(lists, t)
    /\ UNCHANGED <<clock, serving, phase, token, asked, gone, lock, version, lastSynced, work, answered, bounds>>

\* A push of any version so far, late or repeated ones included.
Push(c, v) ==
    /\ In(c, "open")
    /\ c \notin gone
    /\ bounds.pushes < MaxPushes
    /\ bounds' = [bounds EXCEPT !.pushes = @ + 1]
    /\ asked' = [asked EXCEPT ![c] = v]
    /\ Goes(c, "push lock")
    /\ Wait(c)
    /\ UNCHANGED <<clock, serving, token, gone, readers, authorizer, work, answered>>

AnyVersion(v) == v  \* mutant: an older list replaces a newer one

\* RevocationSync::apply ignores an older list, and counts it as a heartbeat.
Applied(v) == IF v < version THEN version ELSE v

\* The write guard is granted once no reader holds one; the list is verified,
\* applied and answered without another await.
ApplyPush(c) ==
    /\ In(c, "push lock")
    /\ AtHead(c)
    /\ readers = {}
    /\ waiters' = Tail(waiters)
    /\ version' = Applied(asked[c])
    /\ lastSynced' = clock
    /\ Continues(c)
    /\ UNCHANGED <<clock, serving, token, readers, lists, work, answered, bounds>>

-----------------------------------------------------------------------------
(* Time, maintenance and the end *)

Tick ==
    /\ Running
    /\ clock < MaxClock
    /\ clock' = clock + 1
    /\ UNCHANGED <<serving, phase, token, asked, gone, lock, authorizer, work, answered, bounds>>

\* Maintenance publishes anchors to an external sink on the engine's own task.
Maintain ==
    /\ Running
    /\ engine = "idle"
    /\ bounds.ticks < MaxTicks
    /\ bounds' = [bounds EXCEPT !.ticks = @ + 1]
    /\ engine' = "anchoring"
    /\ UNCHANGED <<clock, serving, phase, token, asked, gone, lock, authorizer, queue, executed, answered>>

SinkReturns ==
    /\ Running
    /\ engine = "anchoring"
    /\ engine' = "idle"
    /\ UNCHANGED <<clock, serving, phase, token, asked, gone, lock, authorizer, queue, executed, answered, bounds>>

\* serve returns: no new connections, and its own engine handle is dropped.
Shutdown ==
    /\ serving = "accepting"
    /\ serving' = "closing"
    /\ UNCHANGED <<clock, phase, token, asked, gone, lock, authorizer, work, answered, bounds>>

LastHandleEarly == serving = "closing"  \* mutant: handlers' handles are not counted

\* Every handle is gone and nothing is queued: recv returns None, the engine
\* checkpoints and its task ends.
LastHandle == serving = "closing" /\ Handlers = {}
EngineStops ==
    /\ LastHandle
    /\ engine = "idle"
    /\ engine' = "stopped"
    /\ UNCHANGED <<clock, serving, phase, token, asked, gone, lock, authorizer, queue, executed, answered, bounds>>

\* main returns once serve has: the runtime drops every task where it stands.
Exit ==
    /\ serving = "closing"
    /\ serving' = "exited"
    /\ UNCHANGED <<clock, phase, token, asked, gone, lock, authorizer, work, answered, bounds>>

-----------------------------------------------------------------------------

Handler(c) == LockForHello(c) \/ FindsGone(c) \/ CheckRequest(c) \/ Reply(c) \/ ApplyPush(c)
Client(c) == Accept(c) \/ Hello(c) \/ Leave(c) \/ Request(c) \/ \E v \in 0 .. Len(lists) : Push(c, v)

Next ==
    \/ \E c \in Conns : Handler(c) \/ Client(c)
    \/ Dispatch \/ Maintain \/ SinkReturns
    \/ \E t \in Tokens : Revoke(t)
    \/ Tick \/ Shutdown \/ EngineStops \/ Exit

\* Tasks that can run do run, and a sink answers ("a sink is expected to have
\* its own timeout").  Nothing is assumed of clients.
Spec ==
    /\ Init /\ [][Next]_vars
    /\ \A c \in Conns : WF_vars(Handler(c))
    /\ WF_vars(Dispatch) /\ WF_vars(SinkReturns)

\* Clients that connect also say Hello, or go away.
PromptSpec == Spec /\ \A c \in Conns : WF_vars(Hello(c))

-----------------------------------------------------------------------------
(* Properties *)

Job == [conn : Conns, token : Tokens, id : 1 .. MaxRequests]

\* The variables keep their types.
TypeOK ==
    /\ clock \in 0 .. MaxClock
    /\ serving \in {"accepting", "closing", "exited"}
    /\ phase \in [Conns -> Phases]
    /\ token \in [Conns -> Tokens]
    /\ asked \in [Conns -> Nat]
    /\ gone \subseteq Conns
    /\ waiters \in Seq(Conns)
    /\ readers \subseteq Conns
    /\ lists \in Seq(Genuine)
    /\ version \in 0 .. Len(lists)
    /\ lastSynced \in 0 .. NEVER
    /\ queue \in Seq(Job)
    /\ Len(queue) <= QueueDepth
    /\ engine \in {"idle", "anchoring", "stopped"}
    /\ executed \cup answered \subseteq 1 .. MaxRequests
    /\ bounds \in [requests : 0 .. MaxRequests, pushes : 0 .. MaxPushes, ticks : 0 .. MaxTicks]

\* "routing it through the engine queue would let a backlog of writes delay a
\* revocation": once a pushed list is applied, nothing its tokens had queued is
\* executed any more.
NothingServedAfterRevocation ==
    [][\A r \in executed' \ executed :
          \E i \in DOMAIN queue : queue[i].id = r /\ queue[i].token \notin Covered(version)]_vars

\* Out-of-order and repeated pushes never un-revoke a token.
NeverUnrevoked == [][Covered(version) \subseteq (Covered(version))']_vars

\* When the engine task ends by itself everyone who was promised an answer has
\* one: nothing it accepted is dropped.
StopsDrained == engine = "stopped" => queue = <<>> /\ executed = answered

\* If clients that connect say Hello or leave, then a queued request is
\* answered and a pushed revocation is applied, however the lock is contended.
RequestsAnswered ==
    \A c \in Conns : phase[c] \in {"request lock", "calling", "replied"} ~>
                         (phase[c] \in {"open", "none"} \/ ~Running)
RevocationsLand ==
    \A c \in Conns : phase[c] = "push lock" ~> (phase[c] # "push lock" \/ ~Running)

=============================================================================
