------------------------------ MODULE Binding ------------------------------
(* A language binding: the methods of the TypeScript client over one session   *)
(* (index.ts, session.ts), its socket (node-socket.ts), the protocol core      *)
(* compiled to WebAssembly (theta-scribe-wasm) and the other end of the        *)
(* connection. Calls queue behind one another; bytes arrive in any pieces; the *)
(* connection may end anywhere. Socket events come only when nothing that was  *)
(* resolved is still to run, as in an event loop.                              *)
EXTENDS Integers, SequencesExt, TLC

CONSTANTS Callers,
          Methods,     \* the methods callers may call
          MaxCalls

VARIABLES calls,       \* what each caller called and what became of it
          queue,       \* the callers whose calls wait for the session, the running one first
          session,     \* the exchange under way and the next request id
          sock,        \* the socket: chunks arrived, the reader's demand, what it was given, failure
          flight,      \* bytes on their way to the client
          server,      \* the server's end: requests to serve, the frames it sent, whether it closed
          made         \* how many calls were made (bound)
bindingVars == <<calls, queue, session, sock, flight, server, made>>

\* ---------------------------------------------------------------- the methods
(* The request each method hands to the core; `createFrom` is branch.create    *)
(* with the name of a branch to start from,                                    *)
Op == [get |-> "get", put |-> "put", delete |-> "delete", putIf |-> "putIf", transaction |-> "transaction",
       query |-> "query", explain |-> "explain", status |-> "status", describe |-> "describe",
       propose |-> "proposeSchemaChange", show |-> "showChange", validate |-> "showChange",
       apply |-> "applySchemaChange", promote |-> "promoteChange", reject |-> "rejectChange",
       create |-> "createBranch", createFrom |-> "createBranch", merge |-> "merge", discard |-> "discardBranch"]
(* the wire message the core makes of it (to_wire),                            *)
ToWire == [get |-> "Get", put |-> "Put", delete |-> "Delete", putIf |-> "PutIf", transaction |-> "Transaction",
           query |-> "Query", explain |-> "Explain", status |-> "Status", audit |-> "Audit",
           proposeSchemaChange |-> "ProposeSchemaChange", showChange |-> "ShowChange", applySchemaChange |-> "ApplySchemaChange",
           promoteChange |-> "PromoteChange", rejectChange |-> "RejectChange", createBranch |-> "CreateBranch",
           listBranches |-> "ListBranches", merge |-> "Merge", discardBranch |-> "DiscardBranch"]
(* what the server answers when it does what was asked (dispatch.rs; it refuses*)
(* pushed revocations here, and the messages from SignedWrite on are of other  *)
(* clients),                                                                   *)
Success == [Get |-> "Get", Put |-> "Put", Delete |-> "Delete", PutIf |-> "Put", Transaction |-> "Transaction",
            Query |-> "Query", Explain |-> "Explain", Status |-> "Status", Audit |-> "Audit",
            ProposeSchemaChange |-> "Propose", ShowChange |-> "Change", ApplySchemaChange |-> "Apply",
            PromoteChange |-> "Merge", RejectChange |-> "Ok", CreateBranch |-> "Branch",
            ListBranches |-> "Branches", Merge |-> "Merge", DiscardBranch |-> "Ok",
            SignedWrite |-> "Put", Crdt |-> "Put", Describe |-> "Description",
            ReviewQueue |-> "ReviewQueue", PushPolicy |-> "Policy"]
(* what the core calls that answer (from_wire; any other it decodes is `raw`), *)
FromWire == [Get |-> "get", Put |-> "commit", Delete |-> "commit", Apply |-> "commit", Transaction |-> "commit",
             PreconditionFailed |-> "preconditionFailed", Query |-> "query", Explain |-> "explain",
             Propose |-> "propose", Branch |-> "branch", Branches |-> "branches", Merge |-> "merge",
             Status |-> "status", Audit |-> "audit", Error |-> "error", Ok |-> "ok", Change |-> "change",
             Description |-> "description", ReviewQueue |-> "reviewQueue"]
(* and what the method takes for an answer.                                    *)
Expects == [get |-> "get", put |-> "commit", delete |-> "commit", putIf |-> "commit", transaction |-> "commit",
            query |-> "query", explain |-> "explain", status |-> "status", describe |-> "description",
            propose |-> "propose", show |-> "change", validate |-> "change", apply |-> "commit",
            promote |-> "commit", reject |-> "ok", create |-> "branch", createFrom |-> "branch", merge |-> "merge", discard |-> "ok"]

(* The methods callers call are the client's own.                              *)
BindingAssumption == Methods \subseteq DOMAIN Op

(* `describe` is no request of the core's; a merge needs `source` and `into`,  *)
(* and the method sends `sourceBranch` and `targetBranch`; and a branch is told*)
(* to the server by its number, never by its name.                             *)
Requests == DOMAIN ToWire
HasFields(method) == method # "merge"
ParsesBranchId(method) == method # "createFrom"
Encodes(method) == Op[method] \in Requests /\ HasFields(method) /\ ParsesBranchId(method)
Conditional == {"putIf", "transaction"}

(* An answer of a kind this build's schema does not have is not decoded at all.*)
Decodes(reply) == reply.body # "Newer"
Kind(reply) == IF reply.body \in DOMAIN FromWire THEN FromWire[reply.body] ELSE "raw"
(* expect: the value, or the error that tells the caller what to do.           *)
Outcome(method, reply) ==
  LET kind == Kind(reply)
  IN  CASE method \in Conditional /\ kind = "preconditionFailed" -> "null"
        [] kind = Expects[method] -> "value"
        [] kind = "error" /\ reply.code = "ConfirmationRequired" -> "gate"
        [] kind = "error" /\ reply.code = "BreakerOpen" -> "breaker"
        [] kind = "error" /\ reply.code \notin {"ConfirmationRequired", "BreakerOpen"} -> "refused"
        [] kind = "raw" -> "raw"
        [] OTHER -> "unexpected"

\* ------------------------------------------------------------------- framing
(* The n-th frame's bytes: two of prefix, then its body.                       *)
PrefixLength == 2
FrameBytes(n, length) == [i \in 1..PrefixLength + length |-> <<n, i>>]
IsPrefix2(bytes) == bytes = << <<bytes[1][1], 1>>, <<bytes[1][1], 2>> >>
BodyLength(bytes) == server.frames[bytes[1][1]].length
IsBody(bytes) ==
  LET n == bytes[1][1]
  IN  bytes = SubSeq(FrameBytes(n, server.frames[n].length), PrefixLength + 1, PrefixLength + server.frames[n].length)

\* ---------------------------------------------------------------- the socket
NoWaiter == 0
Dead(s) == s.failed \/ s.destroyed
Buffered(s) == FlattenSeq(s.chunks)

\* Mutant: what is left of a chunk that was partly consumed is dropped.
WholeChunks(chunks, want) ==
  LET enough == {i \in 1..Len(chunks) : Len(FlattenSeq(SubSeq(chunks, 1, i))) >= want}
      used == CHOOSE i \in enough : \A j \in enough : i <= j
  IN  SubSeq(chunks, used + 1, Len(chunks))
Remainder(chunks, want) ==
  LET rest == SubSeq(FlattenSeq(chunks), want + 1, Len(FlattenSeq(chunks)))
  IN  IF rest = <<>> THEN <<>> ELSE <<rest>>

(* serve: a reader that waits is given its bytes as soon as all of them are    *)
(* there.                                                                      *)
Served(s) ==
  IF s.want = NoWaiter \/ Len(Buffered(s)) < s.want THEN s
  ELSE [s EXCEPT !.out = SubSeq(Buffered(s), 1, s.want), !.chunks = Remainder(s.chunks, s.want), !.want = NoWaiter]

ReadBytes(s, n) == Served([s EXCEPT !.want = n])
Failing(s) == [s EXCEPT !.failed = TRUE, !.want = NoWaiter]

\* --------------------------------------------------------------- the session
NoCall == [method |-> "none", pc |-> "done", id |-> 0, out |-> "none"]
Running == session.pc # "idle"
(* Nothing resolved is still to run.                                           *)
Settled == sock.out = <<>> /\ (queue = <<>> \/ (Running /\ ~sock.failed))

(* A method is called: its call waits for the one before it, failed or not.    *)
Call(c, method) ==
  /\ Settled /\ calls[c].pc = "done" /\ made < MaxCalls /\ made' = made + 1
  /\ calls' = [calls EXCEPT ![c] = [NoCall EXCEPT !.method = method, !.pc = "waits"]]
  /\ queue' = Append(queue, c)
  /\ UNCHANGED <<session, sock, flight, server>>

Ends(c, out) ==
  /\ calls' = [calls EXCEPT ![c] = [calls[c] EXCEPT !.pc = "done", !.out = out]]
  /\ queue' = Tail(queue)
Idle(s) == [s EXCEPT !.pc = "idle"]

(* exchange: the request takes the next id, is encoded, and written; a request *)
(* the core refuses, or a dead socket, fails the call alone.                   *)
Exchange ==
  /\ queue # <<>> /\ ~Running
  /\ LET c == Head(queue)
         request == [id |-> session.next, op |-> Op[calls[c].method], from |-> c]
         numbered == [session EXCEPT !.next = @ + 1]
     IN  IF ~Encodes(calls[c].method) \/ Dead(sock)
         THEN /\ session' = numbered
              /\ Ends(c, IF Encodes(calls[c].method) THEN "closed" ELSE "not encoded")
              /\ UNCHANGED <<sock, server>>
         ELSE /\ session' = [numbered EXCEPT !.pc = "prefix"]
              /\ calls' = [calls EXCEPT ![c] = [calls[c] EXCEPT !.id = session.next, !.pc = "sent"]]
              /\ server' = [server EXCEPT !.inbox = IF server.closed THEN @ ELSE Append(@, request)]
              /\ sock' = ReadBytes(sock, PrefixLength)
              /\ UNCHANGED queue
  /\ UNCHANGED <<flight, made>>

(* The prefix is here: read as much as it says. The body is here: decode it    *)
(* (a body that is not decoded fails the call alone), and close the connection *)
(* if it answers another request.                                              *)
Resume ==
  /\ Running /\ sock.out # <<>>
  /\ LET c == Head(queue)
         bytes == sock.out
         taken == [sock EXCEPT !.out = <<>>]
     IN  \/ /\ session.pc = "prefix"
            /\ session' = [session EXCEPT !.pc = "body"]
            /\ sock' = ReadBytes(taken, BodyLength(bytes))
            /\ UNCHANGED <<calls, queue>>
         \/ /\ session.pc = "body" /\ session' = Idle(session)
            /\ LET reply == server.frames[bytes[1][1]]
               IN  IF ~Decodes(reply) THEN Ends(c, "undecoded") /\ sock' = taken
                   ELSE IF reply.id = session.next - 1
                   THEN Ends(c, Outcome(calls[c].method, reply)) /\ sock' = taken
                   ELSE Ends(c, "desynchronised") /\ sock' = [taken EXCEPT !.destroyed = TRUE]
  /\ UNCHANGED <<flight, server, made>>

(* The reader of a socket that failed is told so.                              *)
Abandon ==
  /\ Running /\ sock.failed /\ sock.out = <<>>
  /\ session' = Idle(session) /\ Ends(Head(queue), "closed")
  /\ UNCHANGED <<sock, flight, server, made>>

\* -------------------------------------------------------------- socket events
Data(n) ==
  /\ Settled /\ ~Dead(sock) /\ n \in 1..Len(flight)
  /\ sock' = Served([sock EXCEPT !.chunks = Append(@, SubSeq(flight, 1, n))])
  /\ flight' = SubSeq(flight, n + 1, Len(flight))
  /\ UNCHANGED <<calls, queue, session, server, made>>
(* The other end closed, after its last byte; or the connection broke, with    *)
(* what was on its way; or close() was called.                                 *)
Closed ==
  /\ Settled /\ ~sock.failed /\ (sock.destroyed \/ (server.closed /\ flight = <<>>))
  /\ sock' = Failing(sock) /\ flight' = <<>> /\ server' = [server EXCEPT !.closed = TRUE]
  /\ UNCHANGED <<calls, queue, session, made>>
Break ==
  /\ Settled /\ ~Dead(sock)
  /\ sock' = Failing(sock) /\ flight' = <<>> /\ server' = [server EXCEPT !.closed = TRUE]
  /\ UNCHANGED <<calls, queue, session, made>>
Close ==
  /\ Settled /\ ~Dead(sock) /\ sock' = [sock EXCEPT !.destroyed = TRUE]
  /\ UNCHANGED <<calls, queue, session, flight, server, made>>

\* ------------------------------------------------------------- the other end
Reply(id, body, code, length) == [id |-> id, body |-> body, code |-> code, length |-> length]
Asked == Head(server.inbox)
Replied(reply, does, closes) ==
  /\ server' = [server EXCEPT !.inbox = Tail(@), !.frames = Append(@, reply), !.closed = closes,
                              !.done = IF does THEN @ \cup {Asked.id} ELSE @]
  /\ flight' = IF sock.failed THEN flight ELSE flight \o FrameBytes(Len(server.frames) + 1, reply.length)
  /\ UNCHANGED <<calls, queue, session, sock, made>>
Serving == ~server.closed /\ server.inbox # <<>>

(* It does what was asked,                                                     *)
Grant == Serving /\ Replied(Reply(Asked.id, Success[ToWire[Asked.op]], "", 2), TRUE, FALSE)
(* or finds a precondition unmet,                                              *)
Unmet == Serving /\ Asked.op \in Conditional
           /\ Replied(Reply(Asked.id, "PreconditionFailed", "", 1), FALSE, FALSE)
(* or refuses, ending the connection if it was the token it refused,           *)
Codes == {"Rejected", "ConfirmationRequired", "BreakerOpen", "Unauthorized"}
Refuse(code) == Serving /\ Replied(Reply(Asked.id, "Error", code, 1), FALSE, code = "Unauthorized")
(* or cannot read the request, and has no number to answer with,               *)
Unreadable == Serving /\ Replied(Reply(0, "Error", "Rejected", 1), FALSE, FALSE)
(* or answers with something newer than this client,                           *)
Newer == Serving /\ Replied(Reply(Asked.id, "Newer", "", 1), TRUE, FALSE)
(* or stops, before or after it did what was asked.                            *)
Stop(does) ==
  /\ Serving
  /\ server' = [server EXCEPT !.inbox = Tail(@), !.closed = TRUE,
                              !.done = IF does THEN @ \cup {Asked.id} ELSE @]
  /\ UNCHANGED <<calls, queue, session, sock, flight, made>>

Init ==
  /\ calls = [c \in Callers |-> NoCall] /\ queue = <<>> /\ session = [pc |-> "idle", next |-> 1]
  /\ sock = [chunks |-> <<>>, want |-> NoWaiter, out |-> <<>>, failed |-> FALSE, destroyed |-> FALSE]
  /\ flight = <<>> /\ server = [inbox |-> <<>>, frames |-> <<>>, closed |-> FALSE, done |-> {}]
  /\ made = 0

Next ==
  \/ \E c \in Callers, method \in Methods : Call(c, method)
  \/ Exchange \/ Resume \/ Abandon
  \/ \E n \in 1..Len(flight) : Data(n)
  \/ Closed \/ Break \/ Close
  \/ Grant \/ Unmet \/ Unreadable \/ Newer
  \/ \E code \in Codes : Refuse(code)
  \/ \E does \in BOOLEAN : Stop(does)

Spec == Init /\ [][Next]_bindingVars

\* ---------------------------------------------------------------- properties
TypeOK ==
  /\ \A c \in Callers : calls[c].pc \in {"done", "waits", "sent"} /\ calls[c].id < session.next
  /\ session.pc \in {"idle", "prefix", "body"} /\ sock.want \in 0..2
  /\ Running => queue # <<>>

(* Every reader of the stream is given a whole prefix or a whole body, in      *)
(* order, however the bytes arrived (node-socket.ts serve).                    *)
FramesReadWhole ==
  sock.out # <<>> => IF session.pc = "prefix" THEN IsPrefix2(sock.out) ELSE IsBody(sock.out)

(* A caller is told what the server did with the caller's own request: a value *)
(* means it was done, a refusal or an unmet condition that it was not; and a   *)
(* change that was done and answered is told as done, unless the server is     *)
(* newer or the method is `promote` (session.ts: an answer to somebody else's  *)
(* question is handed to nobody).                                              *)
ToldTheTruth ==
  \A c \in Callers :
    LET call == calls[c]
        done == call.id \in server.done
    IN  /\ call.out = "value" => done
        /\ call.out \in {"null", "gate", "breaker", "refused"} => ~done
        /\ call.out = "unexpected" => call.method = "promote"

(* Of one session's requests at most one is unanswered, whoever called; and    *)
(* nobody waits on a socket that failed (session.ts call; node-socket.ts fail).*)
OneAtATime ==
  /\ Cardinality({c \in Callers : calls[c].pc = "sent"}) <= 1
  /\ Len(server.inbox) <= 1
  /\ sock.failed => sock.want = NoWaiter

(* An answer whose last byte arrived before the connection ended reaches its   *)
(* caller: `closed` is told only to those whose answer did not.                *)
NoAnswerDropped ==
  Running /\ sock.failed =>
    \A n \in 1..Len(server.frames) : server.frames[n].id = session.next - 1 =>
      <<n, PrefixLength + server.frames[n].length>> \notin ToSet(Buffered(sock) \o sock.out)
=============================================================================
