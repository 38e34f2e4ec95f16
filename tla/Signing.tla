------------------------------ MODULE Signing ------------------------------
(***************************************************************************)
(* Entry signatures: theta-storage's signing.rs with register_session_key,   *)
(* append_signed and verify_signatures of thetad's engine.rs.  A session     *)
(* signs the content of an entry (everything in it but its place in the      *)
(* chain) for the commit number it was told is next; the envelope may arrive *)
(* late, twice, or after the session's key has changed.  The book of         *)
(* signatures and the key registry are in memory, beside the log.            *)
(* A private key is a member of Secrets, and its public half is its name.    *)
(***************************************************************************)
EXTENDS Integers, Sequences, FiniteSets

CONSTANTS
    Branches, Sessions, Secrets, Payloads,
    Skew,             \* SIGNED_WRITE_SKEW_MS
    MaxEntries, MaxClock, MaxEnvelopes, MaxKeys, MaxLives   \* bounds

NoSession == "person"
NoSecret == "none"

SigningAssumption ==
    /\ {Skew, MaxEntries, MaxClock, MaxEnvelopes, MaxKeys, MaxLives} \subseteq Nat
    /\ NoSession \notin Sessions /\ NoSecret \notin Secrets

VARIABLES
    clock,
    log,          \* entries of each branch, oldest first
    nextCommit,   \* Branch.next_commit
    keys,         \* KeyRegistry: a set of [session, secret], one for a session
    book,         \* SignatureBook: a set of signatures, one for a content
    sent,         \* envelopes clients signed and sent
    changes, lives,
    lastSigned    \* the secret that signed each entry, when append_signed wrote it

vars == <<clock, log, nextCommit, keys, book, sent, changes, lives, lastSigned>>

Content == [branch : Branches, commit : Nat, op : Payloads, author : Sessions \cup {NoSession},
            at : Nat]
Signature == [entry : Content, keyId : Sessions, secret : Secrets]

\* get: the keys a session is registered with, one or none
KeyOf(session) == {k.secret : k \in {r \in keys : r.session = session}}
Keyed(session) == KeyOf(session) # {}

\* insert: one signature for a content, the last
Inserted(b, signature) == {s \in b : s.entry # signature.entry} \cup {signature}

\* verify: what is wrong with the signature a book holds for an entry, if anything
VerifyIn(b, entry) ==
    LET held == {s \in b : s.entry = entry}
        s == CHOOSE h \in held : TRUE
    IN  CASE held = {} -> "Missing"
          [] held # {} /\ entry.author # NoSession /\ s.keyId # entry.author -> "WrongSigner"
          [] held # {} /\ entry.author \in {NoSession, s.keyId} /\ ~Keyed(s.keyId) -> "UnknownKey"
          [] held # {} /\ entry.author \in {NoSession, s.keyId} /\ Keyed(s.keyId)
                /\ s.secret \notin KeyOf(s.keyId) -> "BadSignature"
          [] OTHER -> "ok"

\* accept: checked as a book of its own before it is kept
Accepts(signature) == VerifyIn({signature}, signature.entry) = "ok"

EntryAt(b, op, author, at) ==
    [branch |-> b, commit |-> nextCommit[b], op |-> op, author |-> author, at |-> at]

Range(s) == {s[i] : i \in DOMAIN s}

\* verify_signatures: verify_all over the chain, for the sessions with a key
VerifyAll(b) ==
    \A entry \in Range(log[b]) : Keyed(entry.author) => VerifyIn(book, entry) = "ok"

\* Mutant: the entries the book has signatures for are checked, not those the log has.
VerifyBook(b) ==
    \A s \in book : s.entry.branch = b /\ Keyed(s.entry.author) => VerifyIn(book, s.entry) = "ok"

VerifySignatures(b) == VerifyAll(b)

-----------------------------------------------------------------------------
Init ==
    /\ clock = 0
    /\ log = [b \in Branches |-> <<>>]
    /\ nextCommit = [b \in Branches |-> 0]
    /\ keys = {} /\ book = {} /\ sent = {}
    /\ changes = 0 /\ lives = 1
    /\ lastSigned = [b \in Branches |-> <<>>]

Tick ==
    /\ clock < MaxClock
    /\ clock' = clock + 1
    /\ UNCHANGED <<log, nextCommit, keys, book, sent, changes, lives, lastSigned>>

\* A request whose token carries a signing key registers it; a session with a new
\* token may come with another key.
RegisterSessionKey(session, secret) ==
    /\ changes < MaxKeys
    /\ keys' = {r \in keys : r.session # session} \cup {[session |-> session, secret |-> secret]}
    /\ changes' = changes + 1
    /\ UNCHANGED <<clock, log, nextCommit, book, sent, lives, lastSigned>>

\* A client signs an entry for the commit it was told is next, at its own time.
Sign(session, secret, b, op, at) ==
    /\ Cardinality(sent) < MaxEnvelopes
    /\ sent' = sent \cup {[entry |-> EntryAt(b, op, session, at), keyId |-> session,
                           secret |-> secret]}
    /\ UNCHANGED <<clock, log, nextCommit, keys, book, changes, lives, lastSigned>>

Land(entry, secret) ==
    /\ log' = [log EXCEPT ![entry.branch] = Append(@, entry)]
    /\ lastSigned' = [lastSigned EXCEPT ![entry.branch] = Append(@, [secret |-> secret,
                                                                    life |-> lives])]
    /\ nextCommit' = [nextCommit EXCEPT ![entry.branch] = @ + 1]

\* append_signed.  The signature is kept before the type, the unique index, the
\* breaker and the log have their say: `refused` is any of them saying no.
AppendSigned(envelope, refused) ==
    LET entry == envelope.entry
    IN  /\ Len(log[entry.branch]) < MaxEntries
        /\ entry.commit = nextCommit[entry.branch]
        /\ entry.at - clock \in -Skew .. Skew
        /\ Accepts(envelope)
        /\ book' = Inserted(book, envelope)
        /\ IF refused THEN UNCHANGED <<log, nextCommit, lastSigned>>
           ELSE Land(entry, envelope.secret)
        /\ UNCHANGED <<clock, keys, sent, changes, lives>>

\* Every other write: a session that has a key may still write without using it.
AppendUnsigned(b, op, author) ==
    /\ Len(log[b]) < MaxEntries
    /\ Land(EntryAt(b, op, author, clock), NoSecret)
    /\ UNCHANGED <<clock, keys, book, sent, changes, lives>>

\* The log is replayed, set_head is called once for a branch that has entries,
\* and neither the registry nor the book is anywhere but in memory.
Restart ==
    /\ lives < MaxLives
    /\ lives' = lives + 1
    /\ keys' = {} /\ book' = {}
    /\ nextCommit' = [b \in Branches |-> IF log[b] = <<>> THEN 0 ELSE 1]
    /\ UNCHANGED <<clock, log, sent, changes, lastSigned>>

Next ==
    \/ Tick
    \/ \E session \in Sessions, secret \in Secrets : RegisterSessionKey(session, secret)
    \/ \E session \in Sessions, secret \in Secrets, b \in Branches, op \in Payloads,
          at \in 0 .. MaxClock : Sign(session, secret, b, op, at)
    \/ \E envelope \in sent, refused \in BOOLEAN : AppendSigned(envelope, refused)
    \/ \E b \in Branches, op \in Payloads, author \in Sessions \cup {NoSession} :
          AppendUnsigned(b, op, author)
    \/ Restart

Spec == Init /\ [][Next]_vars

-----------------------------------------------------------------------------
TypeOK ==
    /\ book \subseteq Signature /\ sent \subseteq Signature
    /\ \A s, t \in book : s.entry = t.entry => s = t
    /\ \A r, q \in keys : r.session = q.session => r = q
    /\ \A b \in Branches : Len(lastSigned[b]) = Len(log[b])

\* verify_signatures passes only when the holder of each session's present key
\* signed every entry the log attributes to the session (verify_all).
VerifiedMeansSigned ==
    \A b \in Branches : VerifySignatures(b) =>
        \A entry \in Range(log[b]) : Keyed(entry.author) =>
            \E s \in sent : /\ s.entry = entry /\ s.keyId = entry.author
                            /\ s.secret \in KeyOf(entry.author)

\* And it passes when they all were: a log whose keyed sessions signed everything in
\* this life of the process, with the keys they have now, verifies.
SignedMeansVerified ==
    \A b \in Branches :
        (\A i \in DOMAIN log[b] : Keyed(log[b][i].author) =>
            /\ lastSigned[b][i].secret \in KeyOf(log[b][i].author)
            /\ lastSigned[b][i].life = lives) => VerifySignatures(b)

\* The two together: verify_signatures passes exactly when it should.
SignaturesMatch == VerifiedMeansSigned /\ SignedMeansVerified
=============================================================================
