---------------------------- MODULE ServerProofs ----------------------------
(***************************************************************************)
(* What holds of a running instance for any number of clients, tokens,      *)
(* versions and requests: a queued job is covered by its handler's read      *)
(* guard, so no list can be applied while anything is queued.                *)
(***************************************************************************)
EXTENDS Server, TLAPS

\* The number a handler is busy with is a request's, or a list's version.
Asked ==
    \A c \in Conns :
        /\ phase[c] \in {"request lock", "calling", "replied"} => asked[c] \in 1 .. MaxRequests
        /\ phase[c] = "push lock" => asked[c] \in 0 .. Len(lists)

\* A job's handler awaits its answer under a read guard, and the token it was
\* admitted with is not revoked.
Guarded ==
    \A i \in 1 .. Len(queue) :
        /\ phase[queue[i].conn] = "calling"
        /\ queue[i].conn \in readers
        /\ queue[i].id = asked[queue[i].conn]
        /\ queue[i].token \notin Covered(version)

\* A handler has one job at a time.
OneEach == \A i, j \in 1 .. Len(queue) : queue[i].conn = queue[j].conn => i = j

\* What was executed was answered, or its handler is about to answer it.
Tracked ==
    /\ answered \subseteq executed
    /\ \A c \in Conns : phase[c] = "replied" => asked[c] \in executed
    /\ \A r \in executed \ answered : \E c \in Conns : phase[c] = "replied" /\ asked[c] = r

\* The engine ends once serve has returned and the last handler with it.
Over == engine = "stopped" => serving # "accepting" /\ Handlers = {}

Inv == TypeOK /\ Asked /\ Guarded /\ OneEach /\ Tracked /\ Over

-----------------------------------------------------------------------------
(* Sequences *)

LEMMA AppendFacts ==
    ASSUME NEW S, NEW s \in Seq(S), NEW x \in S
    PROVE  /\ Append(s, x) \in Seq(S)
           /\ Len(s) \in Nat
           /\ Len(Append(s, x)) = Len(s) + 1
           /\ \A i \in 1 .. Len(s) : Append(s, x)[i] = s[i]
           /\ Append(s, x)[Len(s) + 1] = x
  OBVIOUS

LEMMA TailFacts ==
    ASSUME NEW S, NEW s \in Seq(S), s # <<>>
    PROVE  /\ Tail(s) \in Seq(S)
           /\ Len(s) \in Nat /\ Len(s) >= 1
           /\ Len(Tail(s)) = Len(s) - 1
           /\ \A i \in 1 .. Len(s) - 1 : Tail(s)[i] = s[i + 1]
           /\ Head(s) = s[1]
           /\ Head(s) \in S
  OBVIOUS

-----------------------------------------------------------------------------
(* Types *)

LEMMA Numbers ==
    /\ MaxClock \in Nat /\ MaxRequests \in Nat /\ MaxPushes \in Nat /\ MaxTicks \in Nat
    /\ QueueDepth \in Nat /\ QueueDepth >= 1 /\ Genuine \subseteq Tokens
  BY ServerAssumption

LEMMA InitTypes == Init => TypeOK /\ Asked
  BY Numbers DEF Init, TypeOK, Asked, NEVER, NONE, lock, authorizer, work, Phases, Job

\* The handler goes back to its socket, or ends.
LEMMA BackTypes ==
    ASSUME TypeOK, Asked, NEW c \in Conns, Continues(c) \/ Ends(c), UNCHANGED lists
    PROVE  phase' \in [Conns -> Phases] /\ gone' \subseteq Conns /\ asked' \in [Conns -> Nat] /\ Asked'
<1>1. PICK p \in {"none", "open"} : Goes(c, p)
  BY DEF Continues, Ends
<1>2. phase' = [phase EXCEPT ![c] = p] /\ asked' = [asked EXCEPT ![c] = 0] /\ gone' = gone \ {c}
  BY <1>1 DEF Continues, Ends, Goes, NONE
<1>3. phase' \in [Conns -> Phases] /\ gone' \subseteq Conns /\ asked' \in [Conns -> Nat]
  BY <1>2 DEF TypeOK, Phases
<1>4. phase \in [Conns -> Phases] /\ asked \in [Conns -> Nat]
  BY DEF TypeOK
<1>5. Asked'
  BY <1>1, <1>2, <1>4 DEF Asked
<1> QED
  BY <1>3, <1>5

\* A handler takes up a request.
LEMMA BusyTypes ==
    ASSUME Asked, NEW c \in Conns, NEW n \in Nat, n \in 1 .. MaxRequests,
           UNCHANGED lists, phase \in [Conns -> Phases], asked \in [Conns -> Nat],
           phase' = [phase EXCEPT ![c] = "request lock"], asked' = [asked EXCEPT ![c] = n]
    PROVE  phase' \in [Conns -> Phases] /\ asked' \in [Conns -> Nat] /\ Asked'
<1>1. phase' \in [Conns -> Phases]
  BY DEF Phases
<1>2. asked' \in [Conns -> Nat]
  OBVIOUS
<1>3. Asked'
  BY DEF Asked
<1> QED
  BY <1>1, <1>2, <1>3

LEMMA HandlerTypes ==
    ASSUME TypeOK, Asked, NEW c \in Conns, Handler(c)
    PROVE  TypeOK' /\ Asked'
<1> USE Numbers DEF lock, authorizer, work
<1>1. waiters # <<>> => Tail(waiters) \in Seq(Conns)
  BY TailFacts DEF TypeOK
<1>2. CASE LockForHello(c)
  BY <1>1, <1>2 DEF LockForHello, AtHead, Kept, Goes, In, TypeOK, Asked, Phases, NEVER
<1>3. CASE FindsGone(c)
  <2>1. phase' \in [Conns -> Phases] /\ gone' \subseteq Conns /\ asked' \in [Conns -> Nat] /\ Asked'
    BY <1>3, BackTypes DEF FindsGone
  <2> QED
    BY <2>1, <1>3 DEF FindsGone, TypeOK, NEVER
<1>4. CASE CheckRequest(c)
  <2>1. waiters' \in Seq(Conns)
    BY <1>1, <1>4 DEF CheckRequest, AtHead
  <2>2. CASE Room /\ Enqueue(c)
    <3>1. [conn |-> c, token |-> token[c], id |-> asked[c]] \in Job
      BY <1>4 DEF CheckRequest, In, TypeOK, Asked, Job
    <3>2. queue' \in Seq(Job) /\ Len(queue') = Len(queue) + 1 /\ Len(queue) \in Nat
      BY <2>2, <3>1, AppendFacts DEF Enqueue, TypeOK
    <3>3. Len(queue') <= QueueDepth
      BY <2>2, <3>2 DEF Room
    <3>4. phase' \in [Conns -> Phases] /\ Asked'
      BY <2>2, <1>4 DEF Enqueue, CheckRequest, In, Goes, TypeOK, Asked, Phases
    <3> QED
      BY <2>1, <2>2, <3>2, <3>3, <3>4, <1>4 DEF Enqueue, CheckRequest, Kept, TypeOK, NEVER
  <2>3. CASE (Continues(c) \/ Ends(c)) /\ UNCHANGED <<queue, readers>>
    <3>1. phase' \in [Conns -> Phases] /\ gone' \subseteq Conns /\ asked' \in [Conns -> Nat] /\ Asked'
      BY <1>4, <2>3, BackTypes DEF CheckRequest
    <3> QED
      BY <2>1, <2>3, <3>1, <1>4 DEF CheckRequest, TypeOK, NEVER
  <2> QED
    BY <1>4, <2>2, <2>3 DEF CheckRequest
<1>5. CASE Reply(c)
  <2>1. phase' \in [Conns -> Phases] /\ gone' \subseteq Conns /\ asked' \in [Conns -> Nat] /\ Asked'
    BY <1>5, BackTypes DEF Reply
  <2>2. asked[c] \in 1 .. MaxRequests
    BY <1>5 DEF Reply, In, Asked
  <2> QED
    BY <2>1, <2>2, <1>5 DEF Reply, Released, TypeOK, NEVER
<1>6. CASE ApplyPush(c)
  <2>1. phase' \in [Conns -> Phases] /\ gone' \subseteq Conns /\ asked' \in [Conns -> Nat] /\ Asked'
    BY <1>6, BackTypes DEF ApplyPush
  <2>2. version' \in 0 .. Len(lists)
    BY <1>6 DEF ApplyPush, In, Applied, TypeOK, Asked
  <2>3. lastSynced' \in 0 .. NEVER
    <3>1. lastSynced' = clock
      BY <1>6 DEF ApplyPush
    <3>2. clock \in 0 .. MaxClock
      BY DEF TypeOK
    <3> QED
      BY <3>1, <3>2 DEF NEVER
  <2> QED
    BY <1>1, <2>1, <2>2, <2>3, <1>6 DEF ApplyPush, AtHead, TypeOK, NEVER
<1> QED
  BY <1>2, <1>3, <1>4, <1>5, <1>6 DEF Handler

LEMMA ClientTypes ==
    ASSUME TypeOK, Asked, NEW c \in Conns, Client(c)
    PROVE  TypeOK' /\ Asked'
<1> USE Numbers DEF lock, authorizer, work
<1>1. Append(waiters, c) \in Seq(Conns)
  BY AppendFacts DEF TypeOK
<1>2. CASE Accept(c)
  BY <1>1, <1>2 DEF Accept, Wait, Goes, TypeOK, Asked, Phases, NEVER
<1>3. CASE Hello(c)
  <2>1. phase' \in [Conns -> Phases] /\ gone' \subseteq Conns /\ asked' \in [Conns -> Nat] /\ Asked'
    BY <1>3, BackTypes DEF Hello
  <2> QED
    BY <2>1, <1>3 DEF Hello, Released, TypeOK, NEVER
<1>4. CASE Leave(c)
  BY <1>4 DEF Leave, Handlers, TypeOK, Asked, NEVER
<1>5. CASE Request(c)
  <2>1. bounds.requests < MaxRequests /\ bounds' = [bounds EXCEPT !.requests = @ + 1]
    BY <1>5 DEF Request
  <2>2. bounds \in [requests : 0 .. MaxRequests, pushes : 0 .. MaxPushes, ticks : 0 .. MaxTicks]
    BY DEF TypeOK
  <2>3. bounds' \in [requests : 0 .. MaxRequests, pushes : 0 .. MaxPushes, ticks : 0 .. MaxTicks]
    BY <2>1, <2>2
  <2>4. bounds.requests + 1 \in 1 .. MaxRequests /\ bounds.requests + 1 \in Nat
    BY <2>1, <2>2
  <2>5. phase' \in [Conns -> Phases] /\ asked' \in [Conns -> Nat] /\ Asked'
    <3>1. phase' = [phase EXCEPT ![c] = "request lock"] /\ lists' = lists
      BY <1>5 DEF Request, Goes
    <3>2. phase \in [Conns -> Phases] /\ asked \in [Conns -> Nat]
      BY DEF TypeOK
    <3>3. asked' = [asked EXCEPT ![c] = bounds.requests + 1]
      BY <1>5 DEF Request
    <3>4. phase' \in [Conns -> Phases] /\ asked' \in [Conns -> Nat] /\ Asked'
      BY <2>4, <3>1, <3>2, <3>3, BusyTypes
    <3> QED
      BY <3>4
  <2> QED
    BY <1>1, <1>5, <2>3, <2>5 DEF Request, Wait, TypeOK, NEVER
<1>6. ASSUME NEW v \in 0 .. Len(lists), Push(c, v) PROVE TypeOK' /\ Asked'
  <2>1. bounds.pushes < MaxPushes /\ bounds' = [bounds EXCEPT !.pushes = @ + 1]
    BY <1>6 DEF Push
  <2>2. bounds \in [requests : 0 .. MaxRequests, pushes : 0 .. MaxPushes, ticks : 0 .. MaxTicks]
    BY DEF TypeOK
  <2>3. bounds' \in [requests : 0 .. MaxRequests, pushes : 0 .. MaxPushes, ticks : 0 .. MaxTicks]
    BY <2>1, <2>2
  <2>4. Len(lists) \in Nat /\ v \in Nat
    BY DEF TypeOK
  <2>5. phase' \in [Conns -> Phases] /\ asked' \in [Conns -> Nat] /\ Asked'
    BY <1>6, <2>4 DEF Push, Goes, TypeOK, Asked, Phases
  <2> QED
    BY <1>1, <1>6, <2>3, <2>5 DEF Push, Wait, TypeOK, NEVER
<1> QED
  BY <1>2, <1>3, <1>4, <1>5, <1>6 DEF Client

LEMMA StepTypes ==
    ASSUME TypeOK, Asked, Guarded, [Next]_vars
    PROVE  TypeOK' /\ Asked'
<1> USE Numbers DEF lock, authorizer, work
<1>1. CASE Dispatch
  <2>1. Tail(queue) \in Seq(Job) /\ Len(Tail(queue)) <= QueueDepth /\ Head(queue) \in Job
    BY <1>1, TailFacts DEF Dispatch, TypeOK
  <2>2. Head(queue).conn \in Conns /\ Head(queue).id \in 1 .. MaxRequests
    BY <2>1 DEF Job
  <2>3. phase' \in [Conns -> Phases]
    BY <1>1, <2>2 DEF Dispatch, Goes, TypeOK, Phases
  <2>4. \A d \in Conns : phase'[d] = phase[d] \/ (d = Head(queue).conn /\ phase'[d] = "replied")
    BY <1>1, <2>2 DEF Dispatch, Goes, TypeOK
  <2>5. TypeOK'
    BY <1>1, <2>1, <2>2, <2>3 DEF Dispatch, TypeOK, NEVER
  <2>6. Asked'
    <3>1. Head(queue) = queue[1] /\ 1 \in 1 .. Len(queue)
      BY <1>1, TailFacts DEF Dispatch, TypeOK
    <3>2. asked[Head(queue).conn] = Head(queue).id
      BY <3>1 DEF Guarded
    <3>3. UNCHANGED <<asked, lists>>
      BY <1>1 DEF Dispatch
    <3> QED
      BY <2>2, <2>4, <3>2, <3>3 DEF Asked
  <2> QED
    BY <2>5, <2>6
<1>2. CASE \E t \in Tokens : Revoke(t)
  <2>1. PICK t \in Genuine : lists' = Append(lists, t) /\ Revoke(t)
    BY <1>2 DEF Revoke
  <2>2. lists' \in Seq(Genuine) /\ Len(lists') = Len(lists) + 1 /\ Len(lists) \in Nat
    BY <2>1, AppendFacts DEF TypeOK
  <2>3. TypeOK'
    BY <2>1, <2>2 DEF Revoke, TypeOK, NEVER
  <2>4. Asked'
    <3>1. UNCHANGED <<phase, asked>>
      BY <2>1 DEF Revoke
    <3>2. \A n \in 0 .. Len(lists) : n \in 0 .. Len(lists')
      BY <2>2
    <3> QED
      BY <3>1, <3>2 DEF Asked
  <2> QED
    BY <2>3, <2>4
<1>3. CASE Tick
  <2>1. clock \in 0 .. MaxClock /\ clock < MaxClock /\ clock' = clock + 1
    BY <1>3 DEF Tick, TypeOK
  <2>2. clock' \in 0 .. MaxClock
    BY <2>1
  <2> QED
    BY <1>3, <2>2 DEF Tick, TypeOK, Asked, NEVER
<1>4. CASE SinkReturns
  BY <1>4 DEF SinkReturns, TypeOK, Asked, NEVER
<1>5. CASE Maintain
  <2>1. bounds' \in [requests : 0 .. MaxRequests, pushes : 0 .. MaxPushes, ticks : 0 .. MaxTicks]
    <3>1. bounds.ticks < MaxTicks /\ bounds' = [bounds EXCEPT !.ticks = @ + 1]
      BY <1>5 DEF Maintain
    <3>2. bounds \in [requests : 0 .. MaxRequests, pushes : 0 .. MaxPushes, ticks : 0 .. MaxTicks]
      BY DEF TypeOK
    <3> QED
      BY <3>1, <3>2
  <2> QED
    BY <1>5, <2>1 DEF Maintain, TypeOK, Asked, NEVER
<1>6. CASE Shutdown \/ EngineStops \/ Exit
  BY <1>6 DEF Shutdown, EngineStops, Exit, TypeOK, Asked, NEVER
<1>7. CASE UNCHANGED vars
  BY <1>7 DEF vars, TypeOK, Asked, NEVER
<1>8. CASE \E c \in Conns : Handler(c) \/ Client(c)
  <2>1. PICK c \in Conns : Handler(c) \/ Client(c)
    BY <1>8
  <2> QED
    BY <2>1, HandlerTypes, ClientTypes
<1> QED
  BY <1>1, <1>2, <1>3, <1>6, <1>7, <1>8, <1>4, <1>5 DEF Next

-----------------------------------------------------------------------------
(* What one connection does to the others, and to itself while it waits *)

Apart(c) ==
    /\ \A d \in Conns : d # c => /\ phase'[d] = phase[d]
                                 /\ asked'[d] = asked[d]
                                 /\ d \in readers <=> d \in readers'
    /\ phase'[c] = "replied" => phase[c] = "replied"
    /\ phase[c] = "calling" => phase' = phase /\ asked' = asked /\ readers' = readers
    /\ phase[c] = "replied" /\ ~Reply(c) => phase' = phase /\ asked' = asked

LEMMA StaysApart ==
    ASSUME TypeOK, NEW c \in Conns, Handler(c) \/ Client(c)
    PROVE  Apart(c)
<1> USE DEF lock, authorizer, work
<1>1. phase \in [Conns -> Phases] /\ asked \in [Conns -> Nat]
  BY DEF TypeOK
<1>2. CASE LockForHello(c)
  BY <1>1, <1>2 DEF LockForHello, In, Goes, Kept, Apart
<1>3. CASE FindsGone(c)
  BY <1>1, <1>3 DEF FindsGone, In, Ends, Goes, Apart
<1>4. CASE CheckRequest(c)
  BY <1>1, <1>4 DEF CheckRequest, In, Enqueue, Continues, Ends, Goes, Kept, Apart
<1>5. CASE Reply(c)
  BY <1>1, <1>5 DEF Reply, In, Continues, Goes, Released, Apart
<1>6. CASE ApplyPush(c)
  BY <1>1, <1>6 DEF ApplyPush, In, Continues, Goes, Apart
<1>7. CASE Accept(c)
  BY <1>1, <1>7 DEF Accept, Goes, Apart
<1>8. CASE Hello(c)
  BY <1>1, <1>8 DEF Hello, In, Continues, Ends, Goes, Released, Apart
<1>9. CASE Leave(c)
  BY <1>9 DEF Leave, Apart
<1>10. CASE Request(c)
  BY <1>1, <1>10 DEF Request, In, Goes, Apart
<1>11. ASSUME NEW v \in 0 .. Len(lists), Push(c, v) PROVE Apart(c)
  BY <1>1, <1>11 DEF Push, In, Goes, Apart
<1> QED
  BY <1>2, <1>3, <1>4, <1>5, <1>6, <1>7, <1>8, <1>9, <1>10, <1>11 DEF Handler, Client

\* Only three steps of a connection touch the queue, the answers or the list.
LEMMA TouchesLittle ==
    ASSUME NEW c \in Conns, Handler(c) \/ Client(c)
    PROVE  /\ UNCHANGED <<lists, executed, engine, serving>>
           /\ UNCHANGED queue \/ (CheckRequest(c) /\ Authorized(token[c]) /\ Enqueue(c))
           /\ UNCHANGED answered \/ Reply(c)
           /\ UNCHANGED version \/ ApplyPush(c)
<1> USE DEF lock, authorizer, work
<1>1. CASE Handler(c)
  BY <1>1 DEF Handler, LockForHello, FindsGone, CheckRequest, Reply, ApplyPush
<1>2. CASE Client(c)
  BY <1>2 DEF Client, Accept, Hello, Leave, Request, Push
<1> QED
  BY <1>1, <1>2

\* Steps of the engine, the clock and the process leave the connections alone.
LEMMA OthersTouchLittle ==
    ASSUME Tick \/ Maintain \/ SinkReturns \/ Shutdown \/ EngineStops \/ Exit \/ UNCHANGED vars
    PROVE  UNCHANGED <<phase, asked, readers, queue, version, lists, executed, answered>>
  BY DEF Tick, Maintain, SinkReturns, Shutdown, EngineStops, Exit, vars, lock, authorizer, work

-----------------------------------------------------------------------------
(* Queued jobs *)

LEMMA JobsAreJobs ==
    ASSUME TypeOK
    PROVE  \A i \in 1 .. Len(queue) : queue[i].conn \in Conns /\ queue[i] \in Job
<1>1. queue \in Seq(Job)
  BY DEF TypeOK
<1>2. \A i \in 1 .. Len(queue) : queue[i] \in Job
  BY <1>1
<1> QED
  BY <1>2 DEF Job

LEMMA EnqueueGuarded ==
    ASSUME TypeOK, Guarded, OneEach, NEW c \in Conns,
           CheckRequest(c), Authorized(token[c]), Enqueue(c), Asked
    PROVE  Guarded' /\ OneEach'
<1> DEFINE job == [conn |-> c, token |-> token[c], id |-> asked[c]]
<1>1. job \in Job
  BY DEF CheckRequest, In, TypeOK, Asked, Job
<1>2. queue \in Seq(Job) /\ queue' = Append(queue, job)
  BY DEF TypeOK, Enqueue
<1>3. /\ Len(queue) \in Nat /\ Len(queue') = Len(queue) + 1
      /\ \A i \in 1 .. Len(queue) : queue'[i] = queue[i]
      /\ queue'[Len(queue) + 1] = job
  BY <1>1, <1>2, AppendFacts
<1>4. \A i \in 1 .. Len(queue') : i \in 1 .. Len(queue) \/ queue'[i] = job
  BY <1>3
<1>5. UNCHANGED <<version, lists, asked>> /\ readers' = readers \cup {c}
  BY DEF CheckRequest, authorizer, Enqueue, Kept
<1>6. phase' = [phase EXCEPT ![c] = "calling"] /\ phase[c] = "request lock"
  BY DEF CheckRequest, In, Enqueue, Goes
<1>7. job.conn = c /\ job.id = asked[c] /\ job.token \notin Covered(version)
  BY DEF Authorized
<1>8. phase \in [Conns -> Phases]
  BY DEF TypeOK
<1>9. \A i \in 1 .. Len(queue) : queue[i].conn \in Conns /\ queue[i].conn # c
  BY <1>6, JobsAreJobs DEF Guarded
<1>10. (Covered(version))' = Covered(version)
  BY <1>5 DEF Covered
<1> HIDE DEF job
<1>11. Guarded'
  <2>1. ASSUME NEW i \in 1 .. Len(queue)
        PROVE  /\ phase'[queue[i].conn] = "calling"
               /\ queue[i].conn \in readers'
               /\ queue[i].id = asked'[queue[i].conn]
               /\ queue[i].token \notin (Covered(version))'
    BY <1>5, <1>6, <1>8, <1>9, <1>10 DEF Guarded
  <2>2. /\ phase'[job.conn] = "calling"
        /\ job.conn \in readers'
        /\ job.id = asked'[job.conn]
        /\ job.token \notin (Covered(version))'
    BY <1>5, <1>6, <1>7, <1>8, <1>10
  <2> QED
    BY <1>3, <1>4, <2>1, <2>2 DEF Guarded
<1>12. OneEach'
  BY <1>3, <1>4, <1>7, <1>9 DEF OneEach
<1> QED
  BY <1>11, <1>12

LEMMA DispatchGuarded ==
    ASSUME TypeOK, Guarded, OneEach, Dispatch
    PROVE  Guarded' /\ OneEach'
<1>1. queue \in Seq(Job) /\ queue # <<>> /\ queue' = Tail(queue)
  BY DEF TypeOK, Dispatch
<1>2. /\ Len(queue) \in Nat /\ Len(queue) >= 1 /\ Len(queue') = Len(queue) - 1
      /\ \A i \in 1 .. Len(queue) - 1 : queue'[i] = queue[i + 1]
      /\ Head(queue) = queue[1]
  BY <1>1, TailFacts
<1>3. UNCHANGED <<version, lists, asked, readers>> /\ phase' = [phase EXCEPT ![queue[1].conn] = "replied"]
  BY <1>2 DEF Dispatch, authorizer, lock, Goes
<1>4. phase \in [Conns -> Phases]
  BY DEF TypeOK
<1>5. \A i \in 1 .. Len(queue') : i + 1 \in 1 .. Len(queue) /\ queue'[i] = queue[i + 1] /\ i + 1 # 1
  BY <1>2
<1>6. \A i \in 1 .. Len(queue') : queue'[i].conn \in Conns /\ queue'[i].conn # queue[1].conn
  <2> SUFFICES ASSUME NEW i \in 1 .. Len(queue')
               PROVE  queue'[i].conn \in Conns /\ queue'[i].conn # queue[1].conn
    OBVIOUS
  <2>1. i + 1 \in 1 .. Len(queue) /\ queue'[i] = queue[i + 1] /\ i + 1 # 1
    BY <1>5
  <2>2. queue[i + 1].conn \in Conns
    BY <2>1, JobsAreJobs
  <2>3. 1 \in 1 .. Len(queue)
    BY <1>2
  <2>4. queue[i + 1].conn # queue[1].conn
    BY <2>1, <2>3 DEF OneEach
  <2> QED
    BY <2>1, <2>2, <2>4
<1>7. Guarded'
  BY <1>3, <1>4, <1>5, <1>6 DEF Guarded, Covered
<1>8. OneEach'
  BY <1>2, <1>5 DEF OneEach
<1> QED
  BY <1>7, <1>8

LEMMA StepGuarded ==
    ASSUME Inv, [Next]_vars
    PROVE  Guarded' /\ OneEach'
<1>1. ASSUME NEW c \in Conns, Handler(c) \/ Client(c) PROVE Guarded' /\ OneEach'
  <2>1. Apart(c)
    BY <1>1, StaysApart DEF Inv
  <2>2. CASE CheckRequest(c) /\ Authorized(token[c]) /\ Enqueue(c)
    BY <2>2, EnqueueGuarded DEF Inv
  <2>3. CASE ApplyPush(c) /\ UNCHANGED queue
    <3>1. Len(queue) \in Nat /\ readers = {}
      <4>1. queue \in Seq(Job)
        BY DEF Inv, TypeOK
      <4>2. readers = {}
        BY <2>3 DEF ApplyPush
      <4> QED
        BY <4>1, <4>2
    <3>2. 1 .. Len(queue) = {}
      BY <3>1 DEF Inv, Guarded
    <3> QED
      BY <2>3, <3>2 DEF Guarded, OneEach
  <2>4. CASE UNCHANGED <<queue, version>>
    <3>1. \A i \in 1 .. Len(queue) : queue[i].conn \in Conns
      BY JobsAreJobs DEF Inv
    <3>2. \A d \in Conns : phase[d] = "calling" => /\ phase'[d] = phase[d] /\ asked'[d] = asked[d]
                                                   /\ d \in readers <=> d \in readers'
      <4>1. ASSUME NEW d \in Conns, d # c, phase[d] = "calling"
            PROVE  /\ phase'[d] = phase[d]
                   /\ asked'[d] = asked[d]
                   /\ d \in readers <=> d \in readers'
        BY <2>1, <4>1 DEF Apart
      <4>2. phase[c] = "calling" => phase' = phase /\ asked' = asked /\ readers' = readers
        BY <2>1 DEF Apart
      <4> QED
        BY <4>1, <4>2
    <3>3. (Covered(version))' = Covered(version)
      BY <1>1, <2>4, TouchesLittle DEF Covered
    <3>4. Guarded'
      BY <2>4, <3>1, <3>2, <3>3 DEF Inv, Guarded
    <3> QED
      BY <2>4, <3>4 DEF Inv, OneEach
  <2> QED
    BY <1>1, <2>2, <2>3, <2>4, TouchesLittle
<1>2. CASE Dispatch
  BY <1>2, DispatchGuarded DEF Inv
<1>3. CASE \E t \in Tokens : Revoke(t)
  <2>1. PICK t \in Genuine : lists' = Append(lists, t) /\ UNCHANGED <<phase, asked, readers, queue, version>>
    BY <1>3 DEF Revoke, lock, work
  <2>2. \A i \in 1 .. version : lists'[i] = lists[i]
    <3>1. lists \in Seq(Genuine) /\ version \in 0 .. Len(lists)
      BY DEF Inv, TypeOK
    <3>2. \A i \in 1 .. Len(lists) : lists'[i] = lists[i]
      BY <2>1, <3>1, AppendFacts
    <3> QED
      BY <3>1, <3>2
  <2>3. (Covered(version))' = Covered(version)
    BY <2>1, <2>2 DEF Covered
  <2> QED
    BY <2>1, <2>3 DEF Inv, Guarded, OneEach
<1>4. CASE Tick \/ Maintain \/ SinkReturns \/ Shutdown \/ EngineStops \/ Exit \/ UNCHANGED vars
  BY <1>4, OthersTouchLittle DEF Inv, Guarded, OneEach, Covered
<1> QED
  BY <1>1, <1>2, <1>3, <1>4 DEF Next

-----------------------------------------------------------------------------
(* Answers, and the end *)

LEMMA StepTracked ==
    ASSUME Inv, [Next]_vars
    PROVE  Tracked'
<1>1. ASSUME NEW c \in Conns, Handler(c) \/ Client(c) PROVE Tracked'
  <2>1. Apart(c)
    BY <1>1, StaysApart DEF Inv
  <2>2. CASE Reply(c)
    <3>1. UNCHANGED executed /\ answered' = answered \cup {asked[c]} /\ phase[c] = "replied" /\ phase'[c] # "replied"
      BY <2>2 DEF Reply, work, In, Continues, Goes, Inv, TypeOK
    <3>2. \A d \in Conns : d # c => phase'[d] = phase[d] /\ asked'[d] = asked[d]
      BY <2>1 DEF Apart
    <3> QED
      BY <3>1, <3>2 DEF Inv, Tracked
  <2>3. CASE ~Reply(c)
    <3>1. UNCHANGED <<executed, answered>>
      BY <1>1, <2>3, TouchesLittle
    <3>2. \A d \in Conns : /\ phase[d] = "replied" <=> phase'[d] = "replied"
                           /\ phase[d] = "replied" => asked'[d] = asked[d]
      <4>1. \A d \in Conns : d # c => phase'[d] = phase[d] /\ asked'[d] = asked[d]
        BY <2>1 DEF Apart
      <4>2. /\ phase'[c] = "replied" => phase[c] = "replied"
            /\ phase[c] = "replied" => UNCHANGED <<phase, asked>>
        BY <2>1, <2>3 DEF Apart
      <4> QED
        BY <4>1, <4>2
    <3> QED
      BY <3>1, <3>2 DEF Inv, Tracked
  <2> QED
    BY <2>2, <2>3
<1>2. CASE Dispatch
  <2>1. queue # <<>> /\ queue \in Seq(Job) /\ phase \in [Conns -> Phases]
    BY <1>2 DEF Dispatch, Inv, TypeOK
  <2>2. 1 \in 1 .. Len(queue) /\ Head(queue) = queue[1] /\ queue[1].conn \in Conns
    BY <2>1, TailFacts, JobsAreJobs DEF Inv
  <2>3. phase[queue[1].conn] = "calling" /\ queue[1].id = asked[queue[1].conn]
    BY <2>2 DEF Inv, Guarded
  <2>4. /\ executed' = executed \cup {asked[queue[1].conn]}
        /\ phase' = [phase EXCEPT ![queue[1].conn] = "replied"]
        /\ UNCHANGED <<answered, asked>>
    BY <1>2, <2>2, <2>3 DEF Dispatch, Goes
  <2> HIDE DEF Inv
  <2>5. \A d \in Conns : phase'[d] = IF d = queue[1].conn THEN "replied" ELSE phase[d]
    BY <2>1, <2>4
  <2> QED
    BY <2>2, <2>3, <2>4, <2>5 DEF Inv, Tracked
<1>3. CASE \E t \in Tokens : Revoke(t)
  BY <1>3 DEF Revoke, work, Inv, Tracked
<1>4. CASE Tick \/ Maintain \/ SinkReturns \/ Shutdown \/ EngineStops \/ Exit \/ UNCHANGED vars
  BY <1>4, OthersTouchLittle DEF Inv, Tracked
<1> QED
  BY <1>1, <1>2, <1>3, <1>4 DEF Next

\* A connection without a handler can only be accepted.
LEMMA NoHandlers ==
    ASSUME Handlers = {}, serving # "accepting", NEW c \in Conns
    PROVE  ~Handler(c) /\ ~Client(c)
<1>1. phase[c] = "none"
  BY DEF Handlers
<1>2. ~Handler(c)
  BY <1>1 DEF Handler, LockForHello, FindsGone, CheckRequest, Reply, ApplyPush, In
<1>3. ~Client(c)
  BY <1>1 DEF Client, Accept, Hello, Leave, Request, Push, In, Handlers
<1> QED
  BY <1>2, <1>3

LEMMA StepOver ==
    ASSUME Inv, [Next]_vars
    PROVE  Over'
<1>1. CASE \E c \in Conns : Handler(c) \/ Client(c)
  <2>1. PICK c \in Conns : Handler(c) \/ Client(c)
    BY <1>1
  <2>2. UNCHANGED engine
    BY <2>1, TouchesLittle
  <2>3. engine # "stopped"
    BY <2>1, NoHandlers DEF Inv, Over
  <2> QED
    BY <2>2, <2>3 DEF Over
<1>2. CASE EngineStops
  BY <1>2 DEF EngineStops, LastHandle, Handlers, Over
<1>3. CASE Dispatch
  BY <1>3 DEF Dispatch, Over
<1>4. CASE Tick \/ Maintain \/ SinkReturns \/ Shutdown \/ Exit \/ (\E t \in Tokens : Revoke(t)) \/ UNCHANGED vars
  BY <1>4 DEF Tick, Maintain, SinkReturns, Shutdown, Exit, Revoke, vars, work, Inv, Over, Handlers
<1> QED
  BY <1>1, <1>2, <1>3, <1>4 DEF Next

-----------------------------------------------------------------------------
(* Theorems *)

LEMMA Invariant == Spec => []Inv
<1>1. Init => Inv
  <2>1. Init => Guarded /\ OneEach
    BY DEF Init, work, Guarded, OneEach
  <2>2. Init => Tracked /\ Over
    BY DEF Init, work, Tracked, Over
  <2> QED
    BY <2>1, <2>2, InitTypes DEF Inv
<1>2. Inv /\ [Next]_vars => Inv'
  BY StepTypes, StepGuarded, StepTracked, StepOver DEF Inv
<1> QED
  BY <1>1, <1>2, PTL DEF Spec

(* The variables of a running instance keep their types.                     *)
THEOREM TypeCorrect == Spec => []TypeOK
<1>1. Inv => TypeOK
  BY DEF Inv
<1> QED
  BY <1>1, Invariant, PTL

(* Nothing is executed for a token once a list that covers it was applied:   *)
(* the write guard waits for every handler whose job is still queued.        *)
THEOREM RevocationIsFinal == Spec => NothingServedAfterRevocation
<1>1. ASSUME Inv, [Next]_vars, NEW r \in executed' \ executed
      PROVE  \E i \in DOMAIN queue : queue[i].id = r /\ queue[i].token \notin Covered(version)
  <2>1. CASE Dispatch
    <3>1. queue # <<>> /\ queue \in Seq(Job)
      BY <1>1, <2>1 DEF Dispatch, Inv, TypeOK
    <3>2. 1 \in 1 .. Len(queue) /\ DOMAIN queue = 1 .. Len(queue) /\ Head(queue) = queue[1]
      BY <3>1, TailFacts
    <3>3. queue[1].id = r
      BY <1>1, <2>1, <3>2 DEF Dispatch
    <3> QED
      BY <1>1, <3>2, <3>3 DEF Inv, Guarded
  <2>2. CASE \E c \in Conns : Handler(c) \/ Client(c)
    BY <1>1, <2>2, TouchesLittle
  <2>3. CASE \E t \in Tokens : Revoke(t)
    BY <1>1, <2>3 DEF Revoke, work
  <2>4. CASE Tick \/ Maintain \/ SinkReturns \/ Shutdown \/ EngineStops \/ Exit \/ UNCHANGED vars
    BY <1>1, <2>4, OthersTouchLittle
  <2> QED
    BY <1>1, <2>1, <2>2, <2>3, <2>4 DEF Next
<1>2. Inv /\ [Next]_vars =>
        [\A r \in executed' \ executed :
            \E i \in DOMAIN queue : queue[i].id = r /\ queue[i].token \notin Covered(version)]_vars
  BY <1>1
<1> QED
  BY <1>2, Invariant, PTL DEF Spec, NothingServedAfterRevocation

(* No push, whatever its version, takes a revocation back.                   *)
THEOREM RevocationIsKept == Spec => NeverUnrevoked
<1>1. ASSUME Inv, [Next]_vars PROVE Covered(version) \subseteq (Covered(version))'
  <2>1. lists \in Seq(Genuine) /\ version \in 0 .. Len(lists)
    BY <1>1 DEF Inv, TypeOK
  <2>2. CASE \E c \in Conns : Handler(c) \/ Client(c)
    <3>1. PICK c \in Conns : Handler(c) \/ Client(c)
      BY <2>2
    <3>2. UNCHANGED lists /\ (UNCHANGED version \/ ApplyPush(c))
      BY <3>1, TouchesLittle
    <3>3. version \in Nat /\ asked[c] \in Nat
      BY <1>1, <2>1 DEF Inv, TypeOK
    <3>4. ApplyPush(c) => version' = version \/ (version' = asked[c] /\ ~(asked[c] < version))
      BY DEF ApplyPush, Applied
    <3>5. version' \in Nat /\ \A i \in 1 .. version : i \in 1 .. version'
      BY <3>2, <3>3, <3>4
    <3> QED
      BY <3>2, <3>5 DEF Covered
  <2>3. CASE \E t \in Tokens : Revoke(t)
    <3>1. PICK t \in Genuine : lists' = Append(lists, t) /\ UNCHANGED version
      BY <2>3 DEF Revoke
    <3>2. \A i \in 1 .. Len(lists) : lists'[i] = lists[i]
      BY <2>1, <3>1, AppendFacts
    <3>3. \A i \in 1 .. version : lists'[i] = lists[i]
      BY <2>1, <3>2
    <3> QED
      BY <3>1, <3>3 DEF Covered
  <2>4. CASE Dispatch
    BY <2>4 DEF Dispatch, authorizer, Covered
  <2>5. CASE Tick \/ Maintain \/ SinkReturns \/ Shutdown \/ EngineStops \/ Exit \/ UNCHANGED vars
    BY <2>5, OthersTouchLittle DEF Covered
  <2> QED
    BY <1>1, <2>2, <2>3, <2>4, <2>5 DEF Next
<1>2. Inv /\ [Next]_vars => [Covered(version) \subseteq (Covered(version))']_vars
  BY <1>1
<1> QED
  BY <1>2, Invariant, PTL DEF Spec, NeverUnrevoked

(* When the engine task ends by itself, everything it accepted was executed  *)
(* and answered.                                                             *)
THEOREM StopIsDrained == Spec => []StopsDrained
<1>1. Inv => StopsDrained
  <2>1. SUFFICES ASSUME Inv, engine = "stopped" PROVE queue = <<>> /\ executed = answered
    BY DEF StopsDrained
  <2>2. \A c \in Conns : phase[c] = "none"
    BY <2>1 DEF Inv, Over, Handlers
  <2>3. queue \in Seq(Job)
    BY <2>1 DEF Inv, TypeOK
  <2>4. queue = <<>>
    <3>1. \A i \in 1 .. Len(queue) : FALSE
      BY <2>1, <2>2, JobsAreJobs DEF Inv, Guarded
    <3>2. queue # <<>> => 1 \in 1 .. Len(queue)
      BY <2>3, TailFacts
    <3> QED
      BY <3>1, <3>2
  <2>5. executed = answered
    BY <2>1, <2>2 DEF Inv, Tracked
  <2> QED
    BY <2>4, <2>5
<1> QED
  BY <1>1, Invariant, PTL

=============================================================================
