---------------------------- MODULE PartsProofs ----------------------------
(***************************************************************************)
(* Proofs about parts of an instance (InstanceParts), for every value of     *)
(* their constants: signed writes, the verifier and the anchors, regions and *)
(* follower reads, and the audit trail.  Each section has one part's         *)
(* inductive invariant, what an action keeps of it, and the theorem: a       *)
(* behaviour of that part's specification has the property the runs check of *)
(* it.                                                                       *)
(***************************************************************************)
EXTENDS InstanceParts, Integers, SequencesExt, FiniteSets, TLAPS,
        FiniteSetTheorems, SequenceTheorems, WellFoundedInduction

-----------------------------------------------------------------------------
(* Signed writes                                                            *)

SignTypes ==
    /\ clock \in Nat /\ lives \in Nat
    /\ signedLog \in [SignedBranches -> Seq(Signed!Content)]
    /\ nextCommit \in [SignedBranches -> Nat]
    /\ keys \subseteq [session : Sessions, secret : Secrets]
    /\ book \subseteq sent /\ sent \subseteq Signed!Signature
    /\ lastSigned \in [SignedBranches -> Seq([secret : Secrets \cup {Signed!NoSecret}, life : Nat])]
    /\ Signed!TypeOK

\* A session signs only what it writes itself.
SignOwn == \A s \in sent : s.keyId = s.entry.author

\* What this life of the process appended to a branch is below the commit that is
\* next there, so no later envelope has its content; and if it came signed, the
\* book still has the signature.
SignBooked ==
    \A b \in SignedBranches : \A i \in DOMAIN signedLog[b] :
        /\ signedLog[b][i].branch = b /\ lastSigned[b][i].life <= lives
        /\ lastSigned[b][i].life = lives =>
            /\ signedLog[b][i].commit < nextCommit[b]
            /\ lastSigned[b][i].secret # Signed!NoSecret =>
                \E s \in book : s.entry = signedLog[b][i] /\ s.secret = lastSigned[b][i].secret

SignInv == SignTypes /\ SignOwn /\ SignBooked

\* One signature at most is held for a content.
OneFor(b) == \A s, t \in b : s.entry = t.entry => s = t

LEMMA VerifiedIs ==
  ASSUME NEW b, OneFor(b), NEW entry
  PROVE  Signed!VerifyIn(b, entry) = "ok" <=>
           \E s \in b : /\ s.entry = entry
                        /\ entry.author \in {Signed!NoSession, s.keyId}
                        /\ s.secret \in Signed!KeyOf(s.keyId)
<1> DEFINE found == {s \in b : s.entry = entry}
<1>1. CASE found = {}
  BY <1>1 DEF Signed!VerifyIn
<1>2. ASSUME NEW s \in found
      PROVE  Signed!VerifyIn(b, entry) = "ok" <=>
               /\ entry.author \in {Signed!NoSession, s.keyId}
               /\ s.secret \in Signed!KeyOf(s.keyId)
  <2>1. (CHOOSE h \in found : TRUE) = s
    BY DEF OneFor
  <2>2. found # {}
    OBVIOUS
  <2>3. Signed!Keyed(s.keyId) <=> Signed!KeyOf(s.keyId) # {}
    BY DEF Signed!Keyed
  <2>4. Signed!VerifyIn(b, entry) =
          CASE entry.author # Signed!NoSession /\ s.keyId # entry.author -> "WrongSigner"
            [] entry.author \in {Signed!NoSession, s.keyId} /\ ~Signed!Keyed(s.keyId) -> "UnknownKey"
            [] entry.author \in {Signed!NoSession, s.keyId} /\ Signed!Keyed(s.keyId)
                  /\ s.secret \notin Signed!KeyOf(s.keyId) -> "BadSignature"
            [] OTHER -> "ok"
    BY <2>1, <2>2 DEF Signed!VerifyIn
  <2>5. QED
    BY <2>3, <2>4
<1>3. CASE found # {}
  <2>1. PICK s \in found : TRUE
    BY <1>3
  <2>2. s \in b /\ s.entry = entry /\ \A t \in b : t.entry = entry => t = s
    BY DEF OneFor
  <2> HIDE DEF found
  <2>3. QED
    BY <1>2, <2>1, <2>2
<1>4. QED
  BY <1>1, <1>3

LEMMA SignInitInv ==
  ASSUME Signed!Init
  PROVE  SignInv
  BY DEF Signed!Init, SignInv, SignTypes, SignOwn, SignBooked, Signed!TypeOK

LEMMA SignRegister ==
  ASSUME SignInv, NEW session \in Sessions, NEW secret \in Secrets,
         Signed!RegisterSessionKey(session, secret)
  PROVE  SignInv'
<1>1. keys' \subseteq [session : Sessions, secret : Secrets]
  BY DEF Signed!RegisterSessionKey, SignInv, SignTypes
<1>2. \A r, q \in keys' : r.session = q.session => r = q
  BY DEF Signed!RegisterSessionKey, SignInv, SignTypes, Signed!TypeOK
<1>3. UNCHANGED <<clock, signedLog, nextCommit, book, sent, lives, lastSigned>>
  BY DEF Signed!RegisterSessionKey
<1>4. SignTypes'
  BY <1>1, <1>2, <1>3 DEF SignInv, SignTypes, Signed!TypeOK
<1>5. SignOwn' /\ SignBooked'
  BY <1>3 DEF SignInv, SignOwn, SignBooked
<1>6. QED
  BY <1>4, <1>5 DEF SignInv

LEMMA SignSign ==
  ASSUME SignInv, NEW session \in Sessions, NEW secret \in Secrets, NEW b \in SignedBranches,
         NEW op \in Payloads, NEW at \in Nat, Signed!Sign(session, secret, b, op, at)
  PROVE  SignInv'
<1> DEFINE s == [entry |-> Signed!EntryAt(b, op, session, at), keyId |-> session, secret |-> secret]
<1>1. s \in Signed!Signature /\ s.keyId = s.entry.author
  BY DEF SignInv, SignTypes, Signed!EntryAt, Signed!Signature, Signed!Content
<1>2. sent' = sent \cup {s}
  BY DEF Signed!Sign
<1> HIDE DEF s
<1>3. UNCHANGED <<clock, signedLog, nextCommit, keys, book, lives, lastSigned>>
  BY DEF Signed!Sign
<1>4. SignTypes'
  BY <1>1, <1>2, <1>3 DEF SignInv, SignTypes, Signed!TypeOK
<1>5. SignOwn' /\ SignBooked'
  BY <1>1, <1>2, <1>3 DEF SignInv, SignOwn, SignBooked
<1>6. QED
  BY <1>4, <1>5 DEF SignInv

\* What a written entry leaves of the log's part of the invariant, when the book
\* keeps the signatures of what this life wrote, and has the new one's if it is signed.
LEMMA SignLand ==
  ASSUME SignInv, NEW entry \in Signed!Content, NEW secret \in Secrets \cup {Signed!NoSecret},
         Signed!Land(entry, secret), UNCHANGED <<clock, lives, keys, sent>>,
         entry.commit = nextCommit[entry.branch],
         book' \subseteq sent, OneFor(book'),
         \A s \in book : s \in book' \/ s.entry = entry,
         secret # Signed!NoSecret => \E s \in book' : s.entry = entry /\ s.secret = secret
  PROVE  SignInv'
<1> DEFINE b == entry.branch
           signed == [secret |-> secret, life |-> lives]
<1>1. /\ b \in SignedBranches /\ entry.commit \in Nat /\ lives \in Nat
      /\ signed \in [secret : Secrets \cup {Signed!NoSecret}, life : Nat]
      /\ signed.secret = secret /\ signed.life = lives
  BY DEF Signed!Content, SignInv, SignTypes
<1>2. /\ signedLog' = [signedLog EXCEPT ![b] = Append(@, entry)]
      /\ lastSigned' = [lastSigned EXCEPT ![b] = Append(@, signed)]
      /\ nextCommit' = [nextCommit EXCEPT ![b] = @ + 1]
  BY DEF Signed!Land
<1> HIDE DEF signed, b
<1>3. /\ signedLog[b] \in Seq(Signed!Content) /\ nextCommit[b] \in Nat
      /\ lastSigned[b] \in Seq([secret : Secrets \cup {Signed!NoSecret}, life : Nat])
      /\ Len(lastSigned[b]) = Len(signedLog[b])
  BY <1>1 DEF SignInv, SignTypes, Signed!TypeOK
<1>4. /\ signedLog' \in [SignedBranches -> Seq(Signed!Content)]
      /\ lastSigned' \in [SignedBranches -> Seq([secret : Secrets \cup {Signed!NoSecret}, life : Nat])]
      /\ nextCommit' \in [SignedBranches -> Nat]
  <2>1. Append(signedLog[b], entry) \in Seq(Signed!Content)
    BY <1>3
  <2>2. Append(lastSigned[b], signed) \in Seq([secret : Secrets \cup {Signed!NoSecret}, life : Nat])
    BY <1>1, <1>3
  <2>3. /\ signedLog \in [SignedBranches -> Seq(Signed!Content)] /\ nextCommit \in [SignedBranches -> Nat]
        /\ lastSigned \in [SignedBranches -> Seq([secret : Secrets \cup {Signed!NoSecret}, life : Nat])]
    BY DEF SignInv, SignTypes
  <2>4. signedLog' \in [SignedBranches -> Seq(Signed!Content)]
    BY <1>1, <1>2, <2>1, <2>3
  <2>5. lastSigned' \in [SignedBranches -> Seq([secret : Secrets \cup {Signed!NoSecret}, life : Nat])]
    BY <1>1, <1>2, <2>2, <2>3
  <2>6. nextCommit' \in [SignedBranches -> Nat]
    BY <1>1, <1>2, <1>3, <2>3
  <2>7. QED
    BY <2>4, <2>5, <2>6
<1>5. \A c \in SignedBranches : Len(lastSigned'[c]) = Len(signedLog'[c])
  <2>1. ASSUME NEW c \in SignedBranches PROVE Len(lastSigned'[c]) = Len(signedLog'[c])
    <3>1. CASE c = b
      BY <1>1, <1>2, <1>3, <3>1 DEF SignInv, SignTypes
    <3>2. CASE c # b
      BY <1>1, <1>2, <2>1, <3>2 DEF SignInv, SignTypes, Signed!TypeOK
    <3>3. QED
      BY <3>1, <3>2
  <2>2. QED
    BY <2>1
<1>6. SignTypes'
  BY <1>4, <1>5 DEF SignInv, SignTypes, Signed!TypeOK, OneFor
<1>7. SignOwn'
  BY DEF SignInv, SignOwn
<1>8. SignBooked'
  <2> SUFFICES ASSUME NEW c \in SignedBranches, NEW i \in DOMAIN signedLog'[c]
               PROVE  /\ signedLog'[c][i].branch = c /\ lastSigned'[c][i].life <= lives
                      /\ lastSigned'[c][i].life = lives =>
                          /\ signedLog'[c][i].commit < nextCommit'[c]
                          /\ lastSigned'[c][i].secret # Signed!NoSecret =>
                              \E s \in book' : s.entry = signedLog'[c][i] /\ s.secret = lastSigned'[c][i].secret
    BY DEF SignBooked
  <2>1. CASE c = b /\ i = Len(signedLog[b]) + 1
    <3>1. /\ signedLog'[c] = Append(signedLog[b], entry) /\ lastSigned'[c] = Append(lastSigned[b], signed)
          /\ nextCommit'[c] = nextCommit[b] + 1
      BY <1>1, <1>2, <2>1 DEF SignInv, SignTypes
    <3>2. signedLog'[c][i] = entry /\ lastSigned'[c][i] = signed
      BY <1>3, <2>1, <3>1
    <3>3. entry.branch = b /\ entry.commit = nextCommit[b]
      BY DEF b
    <3>4. QED
      BY <1>1, <1>3, <2>1, <3>1, <3>2, <3>3
  <2>2. CASE ~(c = b /\ i = Len(signedLog[b]) + 1)
    <3>1. /\ i \in DOMAIN signedLog[c] /\ signedLog'[c][i] = signedLog[c][i] /\ lastSigned'[c][i] = lastSigned[c][i]
      <4>1. CASE c = b
        <5>1. signedLog'[c] = Append(signedLog[b], entry) /\ lastSigned'[c] = Append(lastSigned[b], signed)
          BY <1>1, <1>2, <4>1 DEF SignInv, SignTypes
        <5>2. i \in 1 .. Len(signedLog[b]) + 1
          BY <1>3, <5>1
        <5>3. i \in 1 .. Len(signedLog[b])
          BY <1>3, <2>2, <4>1, <5>2
        <5>4. QED
          BY <1>3, <4>1, <5>1, <5>3
      <4>2. CASE c # b
        BY <1>1, <1>2, <4>2 DEF SignInv, SignTypes
      <4>3. QED
        BY <4>1, <4>2
    <3>2. nextCommit[c] \in Nat /\ nextCommit'[c] \in Nat /\ nextCommit[c] <= nextCommit'[c]
      BY <1>1, <1>2, <1>3 DEF SignInv, SignTypes
    <3>3. signedLog[c][i] \in Signed!Content /\ signedLog[c][i].commit \in Nat
      <4>1. signedLog[c] \in Seq(Signed!Content)
        BY DEF SignInv, SignTypes
      <4>2. signedLog[c][i] \in Signed!Content
        BY <3>1, <4>1
      <4>3. QED
        BY <4>2 DEF Signed!Content
    <3>4. ASSUME lastSigned[c][i].life = lives PROVE signedLog[c][i] # entry
      <4>1. signedLog[c][i].branch = c /\ signedLog[c][i].commit < nextCommit[c]
        BY <3>1, <3>4 DEF SignInv, SignBooked
      <4>2. entry.branch = c => entry.commit = nextCommit[c]
        OBVIOUS
      <4>3. QED
        BY <3>2, <3>3, <4>1, <4>2
    <3>5. /\ signedLog[c][i].branch = c /\ lastSigned[c][i].life <= lives
          /\ lastSigned[c][i].life = lives =>
              /\ signedLog[c][i].commit < nextCommit[c]
              /\ lastSigned[c][i].secret # Signed!NoSecret =>
                  \E s \in book : s.entry = signedLog[c][i] /\ s.secret = lastSigned[c][i].secret
      BY <3>1 DEF SignInv, SignBooked
    <3>6. QED
      BY <3>1, <3>2, <3>3, <3>4, <3>5
  <2>3. QED
    BY <2>1, <2>2
<1>9. QED
  BY <1>6, <1>7, <1>8 DEF SignInv

LEMMA SignAppendSigned ==
  ASSUME SignInv, NEW envelope \in sent, NEW refused \in BOOLEAN,
         Signed!AppendSigned(envelope, refused)
  PROVE  SignInv'
<1>1. /\ envelope \in Signed!Signature /\ envelope.entry \in Signed!Content
      /\ envelope.secret \in Secrets
  BY DEF SignInv, SignTypes, Signed!Signature
<1>2. /\ book' \subseteq sent /\ OneFor(book') /\ envelope \in book'
      /\ \A s \in book : s \in book' \/ s.entry = envelope.entry
  BY DEF Signed!AppendSigned, Signed!Inserted, SignInv, SignTypes, Signed!TypeOK, OneFor
<1>3. /\ envelope.entry.commit = nextCommit[envelope.entry.branch]
      /\ UNCHANGED <<clock, lives, keys, sent>>
  BY DEF Signed!AppendSigned
<1>4. CASE ~refused
  <2>1. Signed!Land(envelope.entry, envelope.secret)
    BY <1>4 DEF Signed!AppendSigned
  <2>2. QED
    BY <1>1, <1>2, <1>3, <2>1, SignLand
<1>5. CASE refused
  <2>1. UNCHANGED <<signedLog, nextCommit, lastSigned>>
    BY <1>5 DEF Signed!AppendSigned
  <2>2. SignTypes' /\ SignOwn'
    BY <1>2, <1>3, <2>1 DEF SignInv, SignTypes, SignOwn, Signed!TypeOK, OneFor
  <2>3. SignBooked'
    <3> SUFFICES ASSUME NEW b \in SignedBranches, NEW i \in DOMAIN signedLog[b], lastSigned[b][i].life = lives,
                        lastSigned[b][i].secret # Signed!NoSecret
                 PROVE  \E s \in book' : s.entry = signedLog[b][i] /\ s.secret = lastSigned[b][i].secret
      BY <1>3, <2>1 DEF SignInv, SignBooked
    <3>1. /\ signedLog[b][i].branch = b /\ signedLog[b][i].commit < nextCommit[b]
          /\ \E s \in book : s.entry = signedLog[b][i] /\ s.secret = lastSigned[b][i].secret
      BY DEF SignInv, SignBooked
    <3>2. nextCommit[b] \in Nat
      BY DEF SignInv, SignTypes
    <3>3. signedLog[b][i] # envelope.entry
      BY <1>3, <3>1, <3>2
    <3>4. QED
      BY <1>2, <3>1, <3>3
  <2>4. QED
    BY <2>2, <2>3 DEF SignInv
<1>6. QED
  BY <1>4, <1>5

LEMMA SignAppendUnsigned ==
  ASSUME SignInv, NEW b \in SignedBranches, NEW op \in Payloads,
         NEW author \in Sessions \cup {Signed!NoSession}, Signed!AppendUnsigned(b, op, author)
  PROVE  SignInv'
<1>1. Signed!EntryAt(b, op, author, clock) \in Signed!Content
  BY DEF SignInv, SignTypes, Signed!EntryAt, Signed!Content
<1>2. /\ Signed!EntryAt(b, op, author, clock).branch = b
      /\ Signed!EntryAt(b, op, author, clock).commit = nextCommit[b]
  BY DEF Signed!EntryAt
<1>3. /\ Signed!Land(Signed!EntryAt(b, op, author, clock), Signed!NoSecret)
      /\ UNCHANGED <<clock, keys, book, sent, lives>>
  BY DEF Signed!AppendUnsigned
<1>4. book' \subseteq sent /\ OneFor(book')
  BY <1>3 DEF SignInv, SignTypes, Signed!TypeOK, OneFor
<1>5. QED
  BY <1>1, <1>2, <1>3, <1>4, SignLand

LEMMA SignRestart ==
  ASSUME SignInv, Signed!Restart
  PROVE  SignInv'
<1>1. /\ UNCHANGED <<clock, signedLog, sent, lastSigned>> /\ keys' = {} /\ book' = {}
      /\ lives' = lives + 1 /\ nextCommit' = [b \in SignedBranches |-> IF signedLog[b] = <<>> THEN 0 ELSE 1]
  BY DEF Signed!Restart
<1>2. SignTypes' /\ SignOwn'
  <2>1. nextCommit' \in [SignedBranches -> Nat] /\ lives' \in Nat
    BY <1>1 DEF SignInv, SignTypes
  <2>2. SignTypes'
    BY <1>1, <2>1 DEF SignInv, SignTypes, Signed!TypeOK
  <2>3. SignOwn'
    BY <1>1 DEF SignInv, SignOwn
  <2>4. QED
    BY <2>2, <2>3
<1>3. SignBooked'
  <2> SUFFICES ASSUME NEW b \in SignedBranches, NEW i \in DOMAIN signedLog[b]
               PROVE  /\ signedLog[b][i].branch = b /\ lastSigned[b][i].life <= lives'
                      /\ lastSigned[b][i].life # lives'
    BY <1>1 DEF SignBooked
  <2>1. signedLog[b][i].branch = b /\ lastSigned[b][i].life <= lives
    BY DEF SignInv, SignBooked
  <2>2. lastSigned[b][i].life \in Nat /\ lives \in Nat
    <3>1. /\ lastSigned[b] \in Seq([secret : Secrets \cup {Signed!NoSecret}, life : Nat])
          /\ signedLog[b] \in Seq(Signed!Content) /\ Len(lastSigned[b]) = Len(signedLog[b])
      BY DEF SignInv, SignTypes, Signed!TypeOK
    <3>2. i \in 1 .. Len(lastSigned[b])
      BY <3>1
    <3> DEFINE marks == [secret : Secrets \cup {Signed!NoSecret}, life : Nat]
    <3>3. lastSigned[b][i] \in marks
      <4>1. lastSigned[b] \in Seq(marks)
        BY <3>1
      <4> HIDE DEF marks
      <4>2. QED
        BY <3>2, <4>1
    <3>4. QED
      BY <3>3 DEF SignInv, SignTypes
  <2>3. QED
    BY <1>1, <2>1, <2>2
<1>4. QED
  BY <1>2, <1>3 DEF SignInv

LEMMA SignNextInv ==
  ASSUME Signed!SigningAssumption, SignInv, [Signed!Next]_(Signed!vars)
  PROVE  SignInv'
<1>1. ASSUME NEW session \in Sessions, NEW secret \in Secrets, NEW b \in SignedBranches,
             NEW op \in Payloads, NEW at \in 0 .. SignedClock,
             Signed!Sign(session, secret, b, op, at)
      PROVE  SignInv'
  BY <1>1, SignSign DEF Signed!SigningAssumption
<1>2. CASE Signed!Tick \/ UNCHANGED Signed!vars
  <2>1. UNCHANGED <<signedLog, nextCommit, keys, book, sent, lives, lastSigned>> /\ clock' \in Nat
    BY <1>2 DEF Signed!Tick, Signed!vars, SignInv, SignTypes
  <2>2. SignTypes'
    BY <2>1 DEF SignInv, SignTypes, Signed!TypeOK
  <2>3. SignOwn' /\ SignBooked'
    BY <2>1 DEF SignInv, SignOwn, SignBooked
  <2>4. QED
    BY <2>2, <2>3 DEF SignInv
<1>3. QED
  BY <1>1, <1>2, SignRegister, SignAppendSigned, SignAppendUnsigned, SignRestart DEF Signed!Next

LEMMA SignInvMatches ==
  ASSUME Signed!SigningAssumption, SignInv
  PROVE  Signed!SignaturesMatch
<1>1. OneFor(book) /\ book \subseteq sent
  BY DEF SignInv, SignTypes, Signed!TypeOK, OneFor
<1>2. \A session : Signed!Keyed(session) => session \in Sessions /\ session # Signed!NoSession
  BY DEF Signed!Keyed, Signed!KeyOf, SignInv, SignTypes, Signed!SigningAssumption
<1>3. Signed!VerifiedMeansSigned
  <2> SUFFICES ASSUME NEW b \in SignedBranches, NEW entry \in Signed!Range(signedLog[b]),
                      Signed!Keyed(entry.author), Signed!VerifyIn(book, entry) = "ok"
               PROVE  \E s \in sent : /\ s.entry = entry /\ s.keyId = entry.author
                                      /\ s.secret \in Signed!KeyOf(entry.author)
    BY DEF Signed!VerifiedMeansSigned, Signed!VerifySignatures, Signed!VerifyAll
  <2>1. \E s \in book : /\ s.entry = entry /\ entry.author \in {Signed!NoSession, s.keyId}
                        /\ s.secret \in Signed!KeyOf(s.keyId)
    BY <1>1, VerifiedIs
  <2>2. entry.author # Signed!NoSession
    BY <1>2
  <2>3. QED
    BY <1>1, <2>1, <2>2
<1>4. Signed!SignedMeansVerified
  <2> SUFFICES ASSUME NEW b \in SignedBranches,
                      \A i \in DOMAIN signedLog[b] : Signed!Keyed(signedLog[b][i].author) =>
                          /\ lastSigned[b][i].secret \in Signed!KeyOf(signedLog[b][i].author)
                          /\ lastSigned[b][i].life = lives,
                      NEW j \in DOMAIN signedLog[b], Signed!Keyed(signedLog[b][j].author)
               PROVE  Signed!VerifyIn(book, signedLog[b][j]) = "ok"
    BY DEF Signed!SignedMeansVerified, Signed!VerifySignatures, Signed!VerifyAll, Signed!Range
  <2>1. /\ lastSigned[b][j].secret \in Signed!KeyOf(signedLog[b][j].author)
        /\ lastSigned[b][j].life = lives
    OBVIOUS
  <2>2. lastSigned[b][j].secret # Signed!NoSecret
    BY <2>1 DEF Signed!KeyOf, SignInv, SignTypes, Signed!SigningAssumption
  <2>3. PICK s \in book : s.entry = signedLog[b][j] /\ s.secret = lastSigned[b][j].secret
    BY <2>1, <2>2 DEF SignInv, SignBooked
  <2>4. s.keyId = signedLog[b][j].author
    BY <1>1, <2>3 DEF SignInv, SignOwn
  <2>5. QED
    BY <1>1, <2>1, <2>3, <2>4, VerifiedIs
<1>5. QED
  BY <1>3, <1>4 DEF Signed!SignaturesMatch

(* For any branches, sessions, secrets and bounds, whatever envelopes come late, *)
(* twice or after their session's key has changed, and over any restarts:        *)
(* verify_signatures passes exactly when, in this life of the process, the holder*)
(* of each keyed session's present key signed all the log attributes to the      *)
(* session (signing.rs verify_all, engine.rs append_signed).                     *)
THEOREM SignaturesAreHonest ==
  ASSUME Signed!SigningAssumption
  PROVE  Signed!Spec => []SignaturesMatch
<1>1. Signed!Init => SignInv
  BY SignInitInv
<1>2. SignInv /\ [Signed!Next]_(Signed!vars) => SignInv'
  BY SignNextInv
<1>3. SignInv => SignaturesMatch
  BY SignInvMatches DEF SignaturesMatch
<1>4. QED
  BY <1>1, <1>2, <1>3, PTL DEF Signed!Spec

-----------------------------------------------------------------------------
(* The verifier and the anchors                                             *)

IntegTypes ==
    /\ clock \in Nat /\ appended \in Nat /\ receipts \in Nat
    /\ chain \in [ChainBranches -> Seq(Integ!Hash)]
    /\ orphan \subseteq ChainBranches
    /\ made \in [ChainBranches -> Nat]
    /\ verifier \in Integ!Verifier
    /\ anchors \in [ChainBranches -> Seq(Integ!Anchor)]
    /\ DOMAIN held \subseteq 1 .. receipts

\* A pass in progress has seen all it is past of the chain it walks.
Walked(v, entries) ==
    /\ v.cursor <= v.target /\ v.target <= Len(entries)
    /\ \A k \in 1 .. v.cursor : entries[k] \in v.seen

\* An anchor of b is in b's chain, where it says if the chain can be read, and the
\* sink has it as it was taken or not at all.
AnchorStands(b, a) ==
    /\ b = ChainMain \/ made[b] # 0
    /\ a.receipt \in 1 .. receipts
    /\ a.receipt \in DOMAIN held => Integ!AttestsSame(held[a.receipt], a)
    /\ \E i \in 1 .. Len(chain[b]) : chain[b][i] = a.head
    /\ a.covered <= Len(Integ!ChainOrEmpty(b))
    /\ b \notin orphan => a.covered \in 1 .. Len(chain[b]) /\ chain[b][a.covered] = a.head

IntegInv ==
    /\ IntegTypes
    /\ ~report.chainError
    /\ Walked(verifier, Integ!ChainOrEmpty(ChainMain))
    /\ \A b \in ChainBranches : chain[b] # <<>> => b = ChainMain \/ made[b] # 0
    /\ \A b \in ChainBranches : \A i \in DOMAIN anchors[b] :
          /\ AnchorStands(b, anchors[b][i])
          /\ i > 1 => anchors[b][i].covered >= anchors[b][i - 1].covered

LEMMA NewVerifierWalks ==
  ASSUME NEW now \in Nat, NEW entries \in Seq(Integ!Hash)
  PROVE  Integ!NewVerifier(now) \in Integ!Verifier /\ Walked(Integ!NewVerifier(now), entries)
  BY DEF Integ!NewVerifier, Integ!Verifier, Walked, Integ!Never

LEMMA IntegInitInv ==
  ASSUME Integ!IntegrityAssumption, Integ!Init
  PROVE  IntegInv
<1>0. /\ verifier \in Integ!Verifier /\ Walked(verifier, <<>>)
      /\ <<>> \in Seq(Integ!Hash)
  <2>1. verifier = Integ!NewVerifier(0)
    BY DEF Integ!Init
  <2>2. 0 \in Nat /\ <<>> \in Seq(Integ!Hash)
    OBVIOUS
  <2>3. Integ!NewVerifier(0) \in Integ!Verifier /\ Walked(Integ!NewVerifier(0), <<>>)
    BY ONLY <2>2, NewVerifierWalks
  <2>4. QED
    BY <2>1, <2>2, <2>3
<1>1. IntegTypes
  <2>1. \A b \in ChainBranches : chain[b] \in Seq(Integ!Hash) /\ anchors[b] \in Seq(Integ!Anchor)
    BY DEF Integ!Init
  <2>2. DOMAIN held = {}
    BY DEF Integ!Init
  <2>3. QED
    BY <1>0, <2>1, <2>2 DEF Integ!Init, IntegTypes
<1>2. Integ!ChainOrEmpty(ChainMain) = <<>>
  BY DEF Integ!Init, Integ!ChainOrEmpty, Integ!Chain, Integ!IntegrityAssumption
<1>3. Walked(verifier, Integ!ChainOrEmpty(ChainMain))
  BY <1>0, <1>2
<1>4. QED
  BY <1>1, <1>3 DEF Integ!Init, IntegInv, Integ!NoReport

\* A tick of the verifier finds every link it follows among those it has seen, is
\* past no more of the chain than it has seen, and says "verified" of all of it.
LEMMA TickIsQuiet ==
  ASSUME Integ!IntegrityAssumption, verifier \in Integ!Verifier, NEW now \in Nat,
         NEW entries \in Seq(Integ!Hash), Walked(verifier, entries)
  PROVE  LET t == Integ!VerifierTick(entries, now)
         IN  /\ t.error = FALSE
             /\ t.verifier \in Integ!Verifier /\ Walked(t.verifier, entries)
             /\ t.verifier.passes > verifier.passes =>
                 /\ \A i \in 1 .. t.verifier.target : entries[i] \in t.verifier.seen
                 /\ verifier.cursor = 0 => t.verifier.target = Len(entries)
<1> DEFINE v == Integ!Begin(verifier, entries, now)
           end == Integ!SliceEnd(v)
           w == Integ!Advance(v, entries, now)
<1>0. EntriesPerTick \in Nat \ {0} /\ Len(entries) \in Nat
  BY DEF Integ!IntegrityAssumption
<1>1. /\ verifier.cursor \in Nat /\ verifier.target \in Nat /\ verifier.passes \in Nat
      /\ verifier.started \in Nat /\ verifier.seen \subseteq Integ!Hash
      /\ verifier.verifiedSince \in Nat \cup {Integ!Never}
  BY DEF Integ!Verifier
<1>2. /\ v \in Integ!Verifier /\ Walked(v, entries) /\ v.passes = verifier.passes
      /\ verifier.cursor = 0 => v.target = Len(entries)
  <2>1. CASE verifier.cursor # 0
    BY <2>1 DEF Integ!Begin
  <2>2. CASE verifier.cursor = 0
    <3>1. v = [verifier EXCEPT !.target = Len(entries), !.started = now, !.seen = {}]
      BY <2>2 DEF Integ!Begin
    <3>2. v \in Integ!Verifier /\ v.cursor = 0 /\ v.target = Len(entries) /\ v.passes = verifier.passes
      BY <1>0, <2>2, <3>1 DEF Integ!Verifier
    <3> HIDE DEF v
    <3>3. QED
      BY <1>0, <3>2 DEF Walked
  <2>3. QED
    BY <2>1, <2>2
<1>3. /\ v.cursor \in Nat /\ v.target \in Nat /\ v.passes \in Nat /\ v.seen \subseteq Integ!Hash
      /\ v.cursor <= v.target /\ v.target <= Len(entries)
      /\ \A k \in 1 .. v.cursor : entries[k] \in v.seen
  BY <1>2 DEF Integ!Verifier, Walked
<1> HIDE DEF v
<1>4. end \in Nat /\ v.cursor <= end /\ end <= v.target
  BY <1>0, <1>3 DEF Integ!SliceEnd
<1>5. Integ!Broken(v, entries) = {}
  <2>1. ASSUME NEW i \in v.cursor + 1 .. end, Integ!PrevIn(entries, i) # 0
        PROVE  Integ!PrevIn(entries, i) \in v.seen \cup {entries[k] : k \in v.cursor + 1 .. i - 1}
    <3>1. i # 1 /\ Integ!PrevIn(entries, i) = entries[i - 1]
      BY <2>1 DEF Integ!PrevIn
    <3>2. i - 1 \in 1 .. v.cursor \/ i - 1 \in v.cursor + 1 .. i - 1
      BY <1>3, <1>4, <3>1
    <3>3. QED
      BY <1>3, <3>1, <3>2
  <2> HIDE DEF end
  <2>2. QED
    BY <2>1 DEF Integ!Broken, end
<1>6. Integ!VerifierTick(entries, now) = [error |-> FALSE, verifier |-> w]
  BY <1>5 DEF Integ!VerifierTick, v
<1> DEFINE done == end >= v.target
<1>7. /\ w = [v EXCEPT !.seen = @ \cup {entries[k] : k \in v.cursor + 1 .. end},
                       !.cursor = IF done THEN 0 ELSE end,
                       !.passes = IF done THEN @ + 1 ELSE @,
                       !.verifiedSince = IF done THEN now ELSE @]
  BY DEF Integ!Advance
<1>8. \A k \in v.cursor + 1 .. end : entries[k] \in Integ!Hash
  BY <1>3, <1>4
<1> HIDE DEF end
<1>9. /\ w \in Integ!Verifier
      /\ w.seen = v.seen \cup {entries[k] : k \in v.cursor + 1 .. end}
      /\ w.cursor = IF done THEN 0 ELSE end
      /\ w.passes = IF done THEN v.passes + 1 ELSE v.passes
      /\ w.target = v.target
  <2>1. v.verifiedSince \in Nat \cup {Integ!Never} /\ v.started \in Nat
    BY <1>2 DEF Integ!Verifier
  <2>2. v = [cursor |-> v.cursor, target |-> v.target, passes |-> v.passes,
             verifiedSince |-> v.verifiedSince, started |-> v.started, seen |-> v.seen]
    BY <1>2 DEF Integ!Verifier
  <2>3. w = [cursor |-> IF done THEN 0 ELSE end, target |-> v.target,
             passes |-> IF done THEN v.passes + 1 ELSE v.passes,
             verifiedSince |-> IF done THEN now ELSE v.verifiedSince, started |-> v.started,
             seen |-> v.seen \cup {entries[k] : k \in v.cursor + 1 .. end}]
    BY <1>7, <2>2
  <2> HIDE DEF w, done
  <2>4. w \in Integ!Verifier
    BY <1>3, <1>4, <1>8, <2>1, <2>3 DEF Integ!Verifier
  <2>5. QED
    BY <2>3, <2>4
<1>10. \A k \in 1 .. end : entries[k] \in w.seen
  <2> SUFFICES ASSUME NEW k \in 1 .. end PROVE entries[k] \in w.seen
    OBVIOUS
  <2>1. k \in 1 .. v.cursor \/ k \in v.cursor + 1 .. end
    BY <1>3, <1>4
  <2>2. QED
    BY <1>3, <1>9, <2>1
<1> HIDE DEF w
<1>11. Walked(w, entries)
  BY <1>3, <1>4, <1>9, <1>10 DEF Walked
<1>12. w.passes > verifier.passes =>
          /\ \A i \in 1 .. w.target : entries[i] \in w.seen
          /\ verifier.cursor = 0 => w.target = Len(entries)
  BY <1>1, <1>2, <1>3, <1>4, <1>9, <1>10
<1>13. QED
  BY <1>6, <1>9, <1>11, <1>12

\* What Integrity counts with is what the theorems about finite sets count with.
LEMMA IntegCounts ==
  ASSUME NEW S
  PROVE  /\ Integ!Cardinality(S) = Cardinality(S)
         /\ Integ!IsFiniteSet(S) <=> IsFiniteSet(S)
<1>1. Integ!Cardinality(S) = Cardinality(S)
  BY Zenon DEF Integ!Cardinality, Cardinality
<1>2. Integ!IsFiniteSet(S) <=> IsFiniteSet(S)
  BY DEF Integ!IsFiniteSet, IsFiniteSet
<1>3. QED
  BY <1>1, <1>2

\* The receipts of one call are distinct, and follow those the sink gave before.
LEMMA RanksAreOrdered ==
  ASSUME ChainBranches \subseteq Nat, IsFiniteSet(ChainBranches), NEW S \in SUBSET ChainBranches, NEW b \in S
  PROVE  /\ Cardinality(S) \in Nat /\ Integ!Rank(b, S) \in 1 .. Cardinality(S)
         /\ \A c \in S : Integ!Rank(c, S) = Integ!Rank(b, S) => c = b
<1> DEFINE Below(c) == {x \in S : x < c}
<1>1. IsFiniteSet(S) /\ Cardinality(S) \in Nat
  BY FS_Subset, FS_CardinalityType
<1>2. ASSUME NEW c \in S
      PROVE  /\ IsFiniteSet(Below(c)) /\ Cardinality(Below(c)) \in Nat
             /\ Integ!Rank(c, S) = Cardinality(Below(c)) + 1
  <2>1. Below(c) \in SUBSET S
    OBVIOUS
  <2>2. IsFiniteSet(Below(c)) /\ Cardinality(Below(c)) \in Nat
    BY <1>1, <2>1, FS_Subset, FS_CardinalityType
  <2>3. Integ!Rank(c, S) = Cardinality(Below(c)) + 1
    BY IntegCounts, Zenon DEF Integ!Rank
  <2>4. QED
    BY <2>2, <2>3
<1>3. ASSUME NEW c \in S, NEW T \in SUBSET S, Below(c) \subseteq T, c \in T
      PROVE  Cardinality(Below(c)) + 1 <= Cardinality(T)
  <2>1. IsFiniteSet(T) /\ Cardinality(T) \in Nat
    BY <1>1, FS_Subset, FS_CardinalityType
  <2>2. c \notin Below(c) /\ Below(c) \cup {c} \in SUBSET T
    BY <1>3
  <2>3. Cardinality(Below(c) \cup {c}) = Cardinality(Below(c)) + 1
    BY <1>2, <2>2, FS_AddElement
  <2>4. QED
    BY <2>1, <2>2, <2>3, FS_Subset
<1>4. Integ!Rank(b, S) \in 1 .. Cardinality(S)
  <2>1. Below(b) \subseteq S /\ b \in S
    OBVIOUS
  <2>2. Cardinality(Below(b)) + 1 <= Cardinality(S)
    BY <1>3, <2>1
  <2>3. QED
    BY <1>1, <1>2, <2>2
<1>5. ASSUME NEW c \in S, NEW d \in S, c < d PROVE Integ!Rank(c, S) < Integ!Rank(d, S)
  <2>0. \A x \in S : x \in Nat
    OBVIOUS
  <2>1. Below(c) \subseteq Below(d) /\ c \in Below(d)
    <3>1. c \in Nat /\ d \in Nat
      BY <2>0
    <3>2. ASSUME NEW x \in S, x < c PROVE x < d
      <4>1. x \in Nat
        BY <2>0
      <4>2. QED
        BY <1>5, <3>1, <3>2, <4>1
    <3>3. QED
      BY <1>5, <3>2
  <2>2. Cardinality(Below(c)) + 1 <= Cardinality(Below(d))
    BY <1>3, <2>1
  <2>3. QED
    BY <1>2, <2>2
<1>6. ASSUME NEW c \in S, Integ!Rank(c, S) = Integ!Rank(b, S) PROVE c = b
  <2>1. ~(c < b) /\ ~(b < c)
    <3> HIDE DEF Below
    <3>1. Integ!Rank(c, S) \in Nat /\ Integ!Rank(b, S) \in Nat
      BY <1>2
    <3>2. QED
      BY <1>5, <1>6, <3>1
  <2>2. b \in Nat /\ c \in Nat
    OBVIOUS
  <2>3. QED
    BY <2>1, <2>2
<1>7. QED
  BY <1>1, <1>4, <1>6

LEMMA MainIsInt == ASSUME Integ!IntegrityAssumption, IntegInv
  PROVE  /\ ChainMain \in ChainBranches /\ ChainMain \in Nat
         /\ \A b \in ChainBranches : chain[b] \in Seq(Integ!Hash) /\ anchors[b] \in Seq(Integ!Anchor)
         /\ \A b \in ChainBranches : Integ!ChainOrEmpty(b) \in Seq(Integ!Hash)
  BY DEF Integ!IntegrityAssumption, IntegInv, IntegTypes, Integ!ChainOrEmpty, Integ!Chain

LEMMA IntegWrite ==
  ASSUME Integ!IntegrityAssumption, IntegInv, NEW b \in ChainBranches, Integ!Write(b)
  PROVE  IntegInv'
<1>1. /\ b = ChainMain \/ made[b] # 0 
      /\ appended' = appended + 1 /\ chain' = [chain EXCEPT ![b] = Append(@, appended + 1)]
      /\ UNCHANGED <<clock, orphan, made, verifier, anchors, held, receipts, report>>
  BY DEF Integ!Write, Integ!Exists
<1>2. /\ chain[b] \in Seq(Integ!Hash) /\ appended \in Nat /\ appended + 1 \in Integ!Hash
      /\ chain \in [ChainBranches -> Seq(Integ!Hash)]
  BY DEF IntegInv, IntegTypes, Integ!Hash
<1>3. chain' \in [ChainBranches -> Seq(Integ!Hash)] /\ chain'[b] = Append(chain[b], appended + 1)
  BY <1>1, <1>2
<1>4. \A c \in ChainBranches : /\ chain[c] \in Seq(Integ!Hash) /\ Len(chain[c]) <= Len(chain'[c])
                               /\ \A i \in 1 .. Len(chain[c]) : chain'[c][i] = chain[c][i]
                               /\ c # b => chain'[c] = chain[c]
  BY <1>1, <1>2, <1>3
<1>5. IntegTypes'
  BY <1>1, <1>2, <1>3 DEF IntegInv, IntegTypes
<1>6. \A c \in ChainBranches :
        /\ Integ!ChainOrEmpty(c) \in Seq(Integ!Hash) /\ (Integ!ChainOrEmpty(c))' \in Seq(Integ!Hash)
        /\ Len(Integ!ChainOrEmpty(c)) <= Len((Integ!ChainOrEmpty(c))')
        /\ \A i \in 1 .. Len(Integ!ChainOrEmpty(c)) : (Integ!ChainOrEmpty(c))'[i] = Integ!ChainOrEmpty(c)[i]
  BY <1>1, <1>3, <1>4 DEF Integ!ChainOrEmpty, Integ!Chain, Integ!Readable
<1>7. Walked(verifier, Integ!ChainOrEmpty(ChainMain))'
  <2>1. verifier.cursor \in Nat /\ verifier.target \in Nat
    BY DEF IntegInv, IntegTypes, Integ!Verifier
  <2>2. Walked(verifier, Integ!ChainOrEmpty(ChainMain))
    BY DEF IntegInv
  <2>3. ChainMain \in ChainBranches
    BY MainIsInt
  <2> HIDE DEF Integ!ChainOrEmpty
  <2>4. QED
    BY <1>1, <1>6, <2>1, <2>2, <2>3 DEF Walked
<1>8. ASSUME NEW c \in ChainBranches, NEW i \in DOMAIN anchors[c]
      PROVE  AnchorStands(c, anchors[c][i])'
  <2>1. AnchorStands(c, anchors[c][i])
    BY DEF IntegInv
  <2>2. anchors[c][i].covered \in Nat
    <3>1. anchors[c] \in Seq(Integ!Anchor)
      BY DEF IntegInv, IntegTypes
    <3>2. anchors[c][i] \in Integ!Anchor
      BY <3>1
    <3>3. QED
      BY <3>2 DEF Integ!Anchor
  <2>3. /\ \E j \in 1 .. Len(chain'[c]) : chain'[c][j] = anchors[c][i].head
        /\ c \notin orphan => /\ anchors[c][i].covered \in 1 .. Len(chain'[c])
                              /\ chain'[c][anchors[c][i].covered] = anchors[c][i].head
    <3>1. Len(chain[c]) \in Nat /\ Len(chain'[c]) \in Nat
      BY <1>3, <1>4
    <3>2. QED
      BY <1>4, <2>1, <3>1 DEF AnchorStands
  <2>4. anchors[c][i].covered <= Len((Integ!ChainOrEmpty(c))')
    BY <1>6, <2>1, <2>2 DEF AnchorStands
  <2>5. QED
    BY <1>1, <2>1, <2>3, <2>4 DEF AnchorStands, Integ!AttestsSame
<1>9. \A c \in ChainBranches : chain'[c] # <<>> => c = ChainMain \/ made[c] # 0
  BY <1>1, <1>4 DEF IntegInv
<1>10. QED
  BY <1>1, <1>5, <1>7, <1>8, <1>9 DEF IntegInv

LEMMA IntegFork ==
  ASSUME Integ!IntegrityAssumption, IntegInv, NEW b \in ChainBranches, Integ!Fork(b)
  PROVE  IntegInv'
<1>1. /\ b # ChainMain /\ made[b] = 0
      /\ made' = [made EXCEPT ![b] = appended + 1] /\ appended' = appended + 1
      /\ chain' = [chain EXCEPT ![b] = Append(chain[ChainMain], appended + 1)]
      /\ orphan' = IF ChainMain \in orphan THEN orphan \cup {b} ELSE orphan \ {b}
      /\ UNCHANGED <<clock, verifier, anchors, held, receipts, report>>
  BY DEF Integ!Fork, Integ!Exists
<1>2. /\ appended \in Nat /\ appended + 1 \in Integ!Hash /\ ChainMain \in ChainBranches
      /\ chain \in [ChainBranches -> Seq(Integ!Hash)] /\ made \in [ChainBranches -> Nat]
      /\ orphan \subseteq ChainBranches
  BY MainIsInt DEF IntegInv, IntegTypes, Integ!Hash
<1>3. Append(chain[ChainMain], appended + 1) \in Seq(Integ!Hash)
  BY <1>2
<1>4. /\ chain' \in [ChainBranches -> Seq(Integ!Hash)] /\ made' \in [ChainBranches -> Nat]
      /\ orphan' \subseteq ChainBranches
  BY <1>1, <1>2, <1>3
<1>5. \A c \in ChainBranches : c # b =>
        /\ chain'[c] = chain[c] /\ made'[c] = made[c] /\ (c \in orphan' <=> c \in orphan)
        /\ (Integ!ChainOrEmpty(c))' = Integ!ChainOrEmpty(c)
  BY <1>1, <1>2 DEF Integ!ChainOrEmpty, Integ!Chain, Integ!Readable
<1>6. IntegTypes'
  BY <1>1, <1>2, <1>4 DEF IntegInv, IntegTypes
<1>7. made'[b] # 0
  BY <1>1, <1>2
<1>8. ASSUME NEW c \in ChainBranches, NEW i \in DOMAIN anchors[c]
      PROVE  AnchorStands(c, anchors[c][i])'
  <2>1. AnchorStands(c, anchors[c][i])
    BY DEF IntegInv
  <2>2. c # b
    BY <1>1, <2>1 DEF AnchorStands
  <2>3. QED
    BY <1>1, <1>5, <2>1, <2>2 DEF AnchorStands, Integ!AttestsSame
<1>9. \A c \in ChainBranches : chain'[c] # <<>> => c = ChainMain \/ made'[c] # 0
  BY <1>5, <1>7 DEF IntegInv
<1>10. Walked(verifier, Integ!ChainOrEmpty(ChainMain))'
  BY <1>1, <1>2, <1>5 DEF IntegInv, Walked
<1>11. QED
  BY <1>1, <1>6, <1>8, <1>9, <1>10 DEF IntegInv

LEMMA IntegSetRate ==
  ASSUME Integ!IntegrityAssumption, IntegInv, Integ!SetVerifierRate
  PROVE  IntegInv'
<1>1. /\ verifier' = Integ!NewVerifier(0)
      /\ UNCHANGED <<clock, chain, orphan, made, appended, anchors, held, receipts, report>>
  BY DEF Integ!SetVerifierRate, Integ!wal
<1>2. (Integ!ChainOrEmpty(ChainMain))' = Integ!ChainOrEmpty(ChainMain)
  BY <1>1 DEF Integ!ChainOrEmpty, Integ!Chain, Integ!Readable
<1>3. verifier' \in Integ!Verifier /\ Walked(verifier', Integ!ChainOrEmpty(ChainMain))
  BY <1>1, MainIsInt, NewVerifierWalks
<1>4. IntegTypes'
  BY <1>1, <1>3 DEF IntegInv, IntegTypes
<1>5. \A c : \A a : AnchorStands(c, a) <=> AnchorStands(c, a)'
  BY <1>1 DEF AnchorStands, Integ!ChainOrEmpty, Integ!Chain, Integ!Readable
<1>6. QED
  BY <1>1, <1>2, <1>3, <1>4, <1>5 DEF IntegInv

LEMMA IntegSink ==
  ASSUME IntegInv, NEW r, Integ!SinkForgets(r) \/ Integ!SinkFlips
  PROVE  IntegInv'
<1>1. UNCHANGED <<clock, chain, orphan, made, appended, verifier, anchors, receipts, report>>
  BY DEF Integ!SinkForgets, Integ!SinkFlips, Integ!wal
<1>2. /\ DOMAIN held' \subseteq DOMAIN held
      /\ \A x \in DOMAIN held' : held'[x] = held[x]
  BY DEF Integ!SinkForgets, Integ!SinkFlips
<1>3. IntegTypes'
  BY <1>1, <1>2 DEF IntegInv, IntegTypes
<1>4. \A c : \A a : AnchorStands(c, a) => AnchorStands(c, a)'
  BY <1>1, <1>2 DEF AnchorStands, Integ!ChainOrEmpty, Integ!Chain, Integ!Readable, Integ!AttestsSame
<1>5. (Integ!ChainOrEmpty(ChainMain))' = Integ!ChainOrEmpty(ChainMain)
  BY <1>1 DEF Integ!ChainOrEmpty, Integ!Chain, Integ!Readable
<1>6. QED
  BY <1>1, <1>3, <1>4, <1>5 DEF IntegInv

LEMMA IntegRestart ==
  ASSUME Integ!IntegrityAssumption, IntegInv, NEW k \in Nat, Integ!Restart(k)
  PROVE  IntegInv'
<1>1. /\ made' = [b \in ChainBranches |-> IF made[b] > k THEN made[b] ELSE 0]
      /\ chain' = [b \in ChainBranches |-> IF b = ChainMain \/ made[b] > k THEN Integ!Since(chain[b], k)
                                      ELSE <<>>]
      /\ orphan' = {b \in ChainBranches : chain'[b] \notin {<<>>, chain[b]}}
      /\ verifier' = Integ!NewVerifier(0) /\ anchors' = [b \in ChainBranches |-> <<>>]
      /\ report' = Integ!NoReport
      /\ UNCHANGED <<clock, appended, held, receipts>>
  BY DEF Integ!Restart
<1>2. ASSUME NEW s \in Seq(Integ!Hash) PROVE Integ!Since(s, k) \in Seq(Integ!Hash)
  <2> DEFINE old == {i \in DOMAIN s : s[i] <= k}
  <2>1. IsFiniteSet(1 .. Len(s)) /\ DOMAIN s = 1 .. Len(s) /\ Len(s) \in Nat
    BY FS_Interval
  <2>2. old \in SUBSET (1 .. Len(s))
    BY <2>1
  <2>3. Cardinality(old) \in Nat
    BY <2>1, <2>2, FS_Subset, FS_CardinalityType
  <2>4. Integ!Since(s, k) = SubSeq(s, Cardinality(old) + 1, Len(s))
    BY IntegCounts, Zenon DEF Integ!Since
  <2> HIDE DEF old
  <2>5. \A i \in Cardinality(old) + 1 .. Len(s) : s[i] \in Integ!Hash
    BY <2>1, <2>3
  <2>6. QED
    BY <2>1, <2>3, <2>4, <2>5, SubSeqProperties
<1>3. chain' \in [ChainBranches -> Seq(Integ!Hash)]
  BY <1>1, <1>2, MainIsInt
<1>4. made' \in [ChainBranches -> Nat]
  BY <1>1 DEF IntegInv, IntegTypes
<1>5. (Integ!ChainOrEmpty(ChainMain))' \in Seq(Integ!Hash)
  BY <1>3, MainIsInt DEF Integ!ChainOrEmpty, Integ!Chain
<1>6. verifier' \in Integ!Verifier /\ Walked(verifier', (Integ!ChainOrEmpty(ChainMain))')
  BY <1>1, <1>5, NewVerifierWalks
<1>7. anchors' \in [ChainBranches -> Seq(Integ!Anchor)] /\ \A b \in ChainBranches : DOMAIN anchors'[b] = {}
  BY <1>1
<1>8. IntegTypes'
  BY <1>1, <1>3, <1>4, <1>6, <1>7 DEF IntegInv, IntegTypes
<1>9. \A b \in ChainBranches : chain'[b] # <<>> => b = ChainMain \/ made'[b] # 0
  <2> SUFFICES ASSUME NEW b \in ChainBranches, chain'[b] # <<>>, b # ChainMain PROVE made'[b] # 0
    OBVIOUS
  <2>1. made[b] > k /\ made[b] \in Nat
    BY <1>1 DEF IntegInv, IntegTypes
  <2>2. QED
    BY <1>1, <2>1
<1>10. QED
  BY <1>1, <1>6, <1>7, <1>8, <1>9 DEF IntegInv, Integ!NoReport

\* The branches one tick of the timer finds due, and those it anchors.
DueAt(now) == {b \in ChainBranches : Integ!Exists(b) /\ Integ!Due(b, now) /\ Integ!HasHead(b)}
TakenAt(now) == IF reachable THEN {b \in DueAt(now) : ~Integ!PublishRefused(b)} ELSE {}
NewAt(b, now) == Integ!NewAnchor(b, TakenAt(now), now)

\* What one tick does, with the receipts told apart.
LEMMA MaintainDoes ==
  ASSUME Integ!IntegrityAssumption, IntegInv, Integ!Maintain
  PROVE  /\ clock' = clock + 1 /\ UNCHANGED <<chain, orphan, made, appended>>
         /\ verifier' = Integ!VerifierTick(Integ!ChainOrEmpty(ChainMain), clock + 1).verifier
         /\ report'.chainError = Integ!VerifierTick(Integ!ChainOrEmpty(ChainMain), clock + 1).error
         /\ anchors' = [b \in ChainBranches |-> IF b \in TakenAt(clock + 1)
                                           THEN Append(anchors[b], NewAt(b, clock + 1)) ELSE anchors[b]]
         /\ receipts' = receipts + Cardinality(TakenAt(clock + 1))
         /\ Cardinality(TakenAt(clock + 1)) \in Nat
         /\ \A b \in TakenAt(clock + 1) : NewAt(b, clock + 1).receipt \in receipts + 1 .. receipts'
         /\ DOMAIN held' = DOMAIN held \cup {NewAt(b, clock + 1).receipt : b \in TakenAt(clock + 1)}
         /\ \A r \in DOMAIN held : held'[r] = held[r]
         /\ \A b \in TakenAt(clock + 1) : held'[NewAt(b, clock + 1).receipt] = NewAt(b, clock + 1)
<1> DEFINE now == clock + 1
           taken == TakenAt(now)
           new == [b \in taken |-> Integ!NewAnchor(b, taken, now)]
<1>1. /\ ChainBranches \subseteq Nat /\ IsFiniteSet(ChainBranches) /\ taken \in SUBSET ChainBranches
      /\ receipts \in Nat /\ DOMAIN held \subseteq 1 .. receipts
  BY IntegCounts DEF Integ!IntegrityAssumption, TakenAt, DueAt, IntegInv, IntegTypes
<1>2. /\ clock' = now /\ UNCHANGED <<chain, orphan, made, appended>>
      /\ verifier' = Integ!VerifierTick(Integ!ChainOrEmpty(ChainMain), now).verifier
      /\ anchors' = [b \in ChainBranches |-> IF b \in taken THEN Append(anchors[b], new[b]) ELSE anchors[b]]
      /\ receipts' = receipts + Integ!Cardinality(taken)
      /\ held' = [r \in DOMAIN held \cup {new[b].receipt : b \in taken} |->
                    IF r \in DOMAIN held THEN held[r]
                    ELSE new[CHOOSE b \in taken : new[b].receipt = r]]
      /\ report'.chainError = Integ!VerifierTick(Integ!ChainOrEmpty(ChainMain), now).error
  BY DEF Integ!Maintain, Integ!wal, TakenAt, DueAt
<1>3. \A b \in taken : new[b] = NewAt(b, now) /\ new[b].receipt = receipts + Integ!Rank(b, taken)
  BY DEF NewAt, Integ!NewAnchor
<1>4. Cardinality(taken) \in Nat
  BY <1>1, FS_Subset, FS_CardinalityType
<1>5. receipts' = receipts + Cardinality(taken)
  BY <1>2, IntegCounts
<1> HIDE DEF taken
<1>6. ASSUME NEW b \in taken
      PROVE  /\ Integ!Rank(b, taken) \in 1 .. Cardinality(taken)
             /\ \A c \in taken : Integ!Rank(c, taken) = Integ!Rank(b, taken) => c = b
  BY <1>1, RanksAreOrdered
<1>7. ASSUME NEW b \in taken PROVE new[b].receipt \in receipts + 1 .. receipts'
  BY <1>1, <1>3, <1>4, <1>5, <1>6
<1>8. ASSUME NEW b \in taken, NEW c \in taken, new[c].receipt = new[b].receipt PROVE c = b
  <2>1. /\ Integ!Rank(b, taken) \in Nat /\ Integ!Rank(c, taken) \in Nat
        /\ receipts + Integ!Rank(c, taken) = receipts + Integ!Rank(b, taken)
    BY <1>3, <1>4, <1>6, <1>8
  <2>2. Integ!Rank(c, taken) = Integ!Rank(b, taken)
    BY <1>1, <2>1
  <2>3. QED
    BY <1>6, <2>2
<1>9. ASSUME NEW b \in taken PROVE held'[new[b].receipt] = new[b]
  <2>1. new[b].receipt \notin DOMAIN held
    BY <1>1, <1>7
  <2>2. (CHOOSE c \in taken : new[c].receipt = new[b].receipt) = b
    BY <1>8
  <2> HIDE DEF new
  <2>3. QED
    BY <1>2, <2>1, <2>2
<1>10. /\ DOMAIN held' = DOMAIN held \cup {new[b].receipt : b \in taken}
       /\ \A r \in DOMAIN held : held'[r] = held[r]
  BY <1>2
<1>11. {new[b].receipt : b \in taken} = {NewAt(b, now).receipt : b \in taken}
  BY <1>3
<1>12. anchors' = [b \in ChainBranches |-> IF b \in taken THEN Append(anchors[b], NewAt(b, now)) ELSE anchors[b]]
  BY <1>2, <1>3
<1> HIDE DEF new
<1>13. \A b \in taken : /\ NewAt(b, now).receipt \in receipts + 1 .. receipts'
                        /\ held'[NewAt(b, now).receipt] = NewAt(b, now)
  BY <1>3, <1>7, <1>9
<1>14. DOMAIN held' = DOMAIN held \cup {NewAt(b, now).receipt : b \in taken}
  BY <1>10, <1>11
<1> HIDE DEF now
<1>15. QED
  BY <1>2, <1>4, <1>5, <1>10, <1>12, <1>13, <1>14 DEF taken, now

\* What is anchored is the head of the chain, and covers all of it.
LEMMA NewStands ==
  ASSUME Integ!IntegrityAssumption, IntegInv, NEW now \in Nat, NEW b \in TakenAt(now)
  PROVE  LET a == NewAt(b, now)
         IN  /\ a = [branch |-> b, head |-> a.head, covered |-> a.covered, at |-> now,
                     receipt |-> a.receipt]
             /\ a.covered \in Nat /\ a.head \in Integ!Hash
             /\ b \in ChainBranches /\ (b = ChainMain \/ made[b] # 0)
             /\ Len(chain[b]) >= 1 /\ Len(chain[b]) \in Nat /\ chain[b][Len(chain[b])] = a.head
             /\ a.covered = Len(Integ!ChainOrEmpty(b))
             /\ b \notin orphan => a.covered = Len(chain[b])
<1>1. /\ b \in ChainBranches /\ chain[b] # <<>> /\ chain[b] \in Seq(Integ!Hash)
      /\ b = ChainMain \/ made[b] # 0
  BY MainIsInt DEF TakenAt, DueAt, Integ!HasHead, Integ!Chain, Integ!Exists
<1>2. /\ Len(chain[b]) \in Nat /\ Len(chain[b]) >= 1 /\ Integ!Last(chain[b]) = chain[b][Len(chain[b])]
      /\ chain[b][Len(chain[b])] \in Integ!Hash
  BY <1>1 DEF Integ!Last
<1>3. /\ Integ!Covered(b) = Len(Integ!ChainOrEmpty(b)) /\ Integ!Covered(b) \in Nat
      /\ b \notin orphan => Integ!Covered(b) = Len(chain[b])
  BY <1>1 DEF Integ!Covered, Integ!ChainOrEmpty, Integ!Chain, Integ!Readable
<1>4. NewAt(b, now) = [branch |-> b, head |-> Integ!Last(chain[b]), covered |-> Integ!Covered(b),
                       at |-> now, receipt |-> receipts + Integ!Rank(b, TakenAt(now))]
  BY DEF NewAt, Integ!NewAnchor, Integ!Chain
<1>5. QED
  BY <1>1, <1>2, <1>3, <1>4

LEMMA IntegMaintain ==
  ASSUME Integ!IntegrityAssumption, IntegInv, Integ!Maintain
  PROVE  IntegInv'
<1> DEFINE now == clock + 1
           taken == TakenAt(now)
           new(b) == NewAt(b, now)
<1>1. /\ clock' = now /\ UNCHANGED <<chain, orphan, made, appended>>
      /\ verifier' = Integ!VerifierTick(Integ!ChainOrEmpty(ChainMain), now).verifier
      /\ report'.chainError = Integ!VerifierTick(Integ!ChainOrEmpty(ChainMain), now).error
      /\ anchors' = [b \in ChainBranches |-> IF b \in taken THEN Append(anchors[b], new(b)) ELSE anchors[b]]
      /\ receipts' = receipts + Cardinality(taken) /\ Cardinality(taken) \in Nat
      /\ \A b \in taken : new(b).receipt \in receipts + 1 .. receipts'
      /\ DOMAIN held' = DOMAIN held \cup {new(b).receipt : b \in taken}
      /\ \A r \in DOMAIN held : held'[r] = held[r]
      /\ \A b \in taken : held'[new(b).receipt] = new(b)
  BY MaintainDoes
<1>2. /\ clock \in Nat /\ receipts \in Nat /\ DOMAIN held \subseteq 1 .. receipts /\ now \in Nat
      /\ verifier \in Integ!Verifier /\ Walked(verifier, Integ!ChainOrEmpty(ChainMain))
      /\ anchors \in [ChainBranches -> Seq(Integ!Anchor)]
  BY DEF IntegInv, IntegTypes
<1>3. (Integ!ChainOrEmpty(ChainMain))' = Integ!ChainOrEmpty(ChainMain) /\ Integ!ChainOrEmpty(ChainMain) \in Seq(Integ!Hash)
  BY <1>1, MainIsInt DEF Integ!ChainOrEmpty, Integ!Chain, Integ!Readable
<1>4. ~report'.chainError /\ verifier' \in Integ!Verifier /\ Walked(verifier', Integ!ChainOrEmpty(ChainMain))
  BY <1>1, <1>2, <1>3, TickIsQuiet
<1>5. \A b \in taken :
         /\ b \in ChainBranches /\ (b = ChainMain \/ made[b] # 0) /\ new(b).covered \in Nat
         /\ new(b).at = now /\ Len(chain[b]) \in Nat
         /\ Len(chain[b]) >= 1 /\ chain[b][Len(chain[b])] = new(b).head
         /\ new(b).covered = Len(Integ!ChainOrEmpty(b))
         /\ b \notin orphan => new(b).covered = Len(chain[b])
  BY <1>2, NewStands
<1>6. ASSUME NEW b \in taken PROVE new(b) \in Integ!Anchor
  <2>1. /\ new(b) = [branch |-> b, head |-> new(b).head, covered |-> new(b).covered, at |-> now,
                     receipt |-> new(b).receipt]
        /\ new(b).covered \in Nat /\ new(b).head \in Integ!Hash /\ b \in ChainBranches
    BY <1>2, NewStands
  <2>2. new(b).receipt \in Nat
    BY <1>1, <1>2
  <2> HIDE DEF new, now
  <2>3. QED
    BY <1>2, <2>1, <2>2 DEF Integ!Anchor
<1> HIDE DEF taken, new, now
<1>7. \A b \in ChainBranches : /\ anchors[b] \in Seq(Integ!Anchor) /\ Len(anchors[b]) \in Nat
                               /\ b \in taken => anchors'[b] = Append(anchors[b], new(b))
                               /\ b \notin taken => anchors'[b] = anchors[b]
  BY <1>1, <1>2
<1>8. anchors' \in [ChainBranches -> Seq(Integ!Anchor)]
  BY <1>1, <1>2, <1>6, <1>7
<1>9. DOMAIN held' \subseteq 1 .. receipts' /\ receipts' \in Nat /\ receipts <= receipts'
  BY <1>1, <1>2
<1>10. IntegTypes'
  BY <1>1, <1>2, <1>4, <1>8, <1>9 DEF IntegInv, IntegTypes
<1>11. ASSUME NEW b \in ChainBranches, NEW a, AnchorStands(b, a) PROVE AnchorStands(b, a)'
  <2>1. a.receipt \in 1 .. receipts /\ (a.receipt \in DOMAIN held => Integ!AttestsSame(held[a.receipt], a))
    BY <1>11 DEF AnchorStands
  <2>2. \A c \in taken : a.receipt # new(c).receipt
    BY <1>1, <1>2, <1>9, <2>1
  <2>3. a.receipt \in DOMAIN held' => Integ!AttestsSame(held'[a.receipt], a)
    BY <1>1, <2>1, <2>2 DEF Integ!AttestsSame
  <2>4. a.receipt \in 1 .. receipts'
    BY <1>2, <1>9, <2>1
  <2>5. (Integ!ChainOrEmpty(b))' = Integ!ChainOrEmpty(b)
    BY <1>1 DEF Integ!ChainOrEmpty, Integ!Chain, Integ!Readable
  <2>6. QED
    BY <1>1, <1>11, <2>3, <2>4, <2>5 DEF AnchorStands, Integ!AttestsSame
<1>12. ASSUME NEW b \in taken, NEW a, a = new(b) PROVE AnchorStands(b, a)'
  <2>1. a.receipt \in 1 .. receipts' /\ held'[a.receipt] = a
    BY <1>1, <1>2, <1>12
  <2>2. (Integ!ChainOrEmpty(b))' = Integ!ChainOrEmpty(b)
    BY <1>1 DEF Integ!ChainOrEmpty, Integ!Chain, Integ!Readable
  <2>3. /\ b \in ChainBranches /\ (b = ChainMain \/ made'[b] # 0) /\ Len(chain'[b]) \in Nat
        /\ Len(chain'[b]) >= 1 /\ chain'[b][Len(chain'[b])] = a.head
        /\ a.covered = Len(Integ!ChainOrEmpty(b)) /\ a.covered \in Nat
        /\ b \notin orphan' => a.covered = Len(chain'[b])
    BY <1>1, <1>5, <1>12
  <2>4. Len(chain'[b]) \in 1 .. Len(chain'[b])
    BY <2>3
  <2>5. \E i \in 1 .. Len(chain'[b]) : chain'[b][i] = a.head
    BY <2>3, <2>4
  <2>6. b \notin orphan' => a.covered \in 1 .. Len(chain'[b]) /\ chain'[b][a.covered] = a.head
    BY <2>3, <2>4
  <2>7. a.covered <= Len(Integ!ChainOrEmpty(b))
    BY <2>3
  <2>8. QED
    BY <2>1, <2>2, <2>3, <2>5, <2>6, <2>7 DEF AnchorStands, Integ!AttestsSame
<1>13. ASSUME NEW b \in ChainBranches, NEW i \in DOMAIN anchors'[b], NEW a, a = anchors'[b][i]
       PROVE  /\ AnchorStands(b, a)'
              /\ i > 1 => a.covered >= anchors'[b][i - 1].covered
  <2>1. /\ anchors[b] \in Seq(Integ!Anchor) /\ Len(anchors[b]) \in Nat
        /\ DOMAIN anchors[b] = 1 .. Len(anchors[b])
        /\ \A j \in DOMAIN anchors[b] : /\ AnchorStands(b, anchors[b][j])
                                        /\ j > 1 => anchors[b][j].covered >= anchors[b][j - 1].covered
    BY <1>7 DEF IntegInv
  <2>2. CASE i \in DOMAIN anchors[b]
    <3>1. a = anchors[b][i] /\ (i > 1 => anchors'[b][i - 1] = anchors[b][i - 1])
      BY <1>7, <1>13, <2>1, <2>2
    <3>2. AnchorStands(b, a)
      BY <2>1, <2>2, <3>1
    <3>3. AnchorStands(b, a)'
      BY <1>11, <3>2
    <3>4. QED
      BY <2>1, <2>2, <3>1, <3>3
  <2>3. CASE i \notin DOMAIN anchors[b]
    <3>1. b \in taken /\ i = Len(anchors[b]) + 1 /\ anchors'[b] = Append(anchors[b], new(b))
      BY <1>7, <1>13, <2>1, <2>3
    <3>2. a = new(b) /\ (i > 1 => anchors'[b][i - 1] = anchors[b][Len(anchors[b])])
      BY <1>13, <2>1, <3>1
    <3>3. AnchorStands(b, a)'
      BY <1>12, <3>1, <3>2
    <3>4. i > 1 => a.covered >= anchors[b][Len(anchors[b])].covered
      <4> SUFFICES ASSUME i > 1 PROVE a.covered >= anchors[b][Len(anchors[b])].covered
        OBVIOUS
      <4>1. Len(anchors[b]) \in DOMAIN anchors[b]
        BY <2>1, <3>1
      <4>2. anchors[b][Len(anchors[b])].covered <= Len(Integ!ChainOrEmpty(b))
        BY <2>1, <4>1 DEF AnchorStands
      <4>3. anchors[b][Len(anchors[b])] \in Integ!Anchor
        BY <2>1, <4>1
      <4>4. anchors[b][Len(anchors[b])].covered \in Nat
        BY <4>3 DEF Integ!Anchor
      <4>5. a.covered = Len(Integ!ChainOrEmpty(b)) /\ a.covered \in Nat
        BY <1>5, <3>1, <3>2
      <4>6. QED
        BY <4>2, <4>4, <4>5
    <3>5. QED
      BY <3>2, <3>3, <3>4
  <2>4. QED
    BY <2>2, <2>3
<1>14. (\A b \in ChainBranches : \A i \in DOMAIN anchors[b] :
          /\ AnchorStands(b, anchors[b][i])
          /\ i > 1 => anchors[b][i].covered >= anchors[b][i - 1].covered)'
  BY <1>13
<1>15. (\A b \in ChainBranches : chain[b] # <<>> => b = ChainMain \/ made[b] # 0)'
  BY <1>1 DEF IntegInv
<1>16. Walked(verifier, Integ!ChainOrEmpty(ChainMain))' /\ (~report.chainError)'
  BY <1>3, <1>4
<1>17. QED
  BY <1>10, <1>14, <1>15, <1>16 DEF IntegInv

LEMMA IntegNextInv ==
  ASSUME Integ!IntegrityAssumption, IntegInv, [Integ!Next]_(Integ!vars)
  PROVE  IntegInv'
<1>1. CASE UNCHANGED Integ!vars
  <2>1. UNCHANGED <<clock, chain, orphan, made, appended, verifier, anchors, held, receipts, report>>
    BY <1>1 DEF Integ!vars
  <2>2. \A c : \A a : AnchorStands(c, a) => AnchorStands(c, a)'
    BY <2>1 DEF AnchorStands, Integ!ChainOrEmpty, Integ!Chain, Integ!Readable, Integ!AttestsSame
  <2>3. (Integ!ChainOrEmpty(ChainMain))' = Integ!ChainOrEmpty(ChainMain)
    BY <2>1 DEF Integ!ChainOrEmpty, Integ!Chain, Integ!Readable
  <2>4. IntegTypes'
    BY <2>1 DEF IntegInv, IntegTypes
  <2>5. QED
    BY <2>1, <2>2, <2>3, <2>4 DEF IntegInv
<1>2. ASSUME NEW k \in 0 .. ChainEntries, Integ!Restart(k) PROVE IntegInv'
  BY <1>2, IntegRestart
<1>3. QED
  BY <1>1, <1>2, IntegWrite, IntegFork, IntegMaintain, IntegSetRate, IntegSink DEF Integ!Next

LEMMA IntegInvHonest ==
  ASSUME Integ!IntegrityAssumption, IntegInv
  PROVE  Integ!IntegrityIsHonest
<1>1. Integ!NoFalseAlarm
  BY DEF IntegInv, Integ!NoFalseAlarm
<1>2. ASSUME NEW b \in ChainBranches, b \notin orphan
      PROVE  LET kept == \A i \in DOMAIN anchors[b] : anchors[b][i].receipt \in DOMAIN held
                 verdict == Integ!VerifyAnchors(b, chain[b], clock)
             IN  /\ verdict = "ok" => /\ kept
                                      /\ anchors[b] # <<>> => clock <= Integ!Latest(b).at + MaxGap
                                      /\ anchors[b] = <<>> => ~RequireFirst
                 /\ kept => verdict \in {"ok", "Stale", "NeverAnchored"}
  <2> DEFINE missing == {i \in DOMAIN anchors[b] : ~Integ!Contains(chain[b], anchors[b][i].head)}
             lost == {i \in DOMAIN anchors[b] : ~Integ!SinkHonours(anchors[b][i])}
             back == {i \in DOMAIN anchors[b] : i > 1 /\ anchors[b][i].covered < anchors[b][i - 1].covered}
             bad == missing \cup lost \cup back
             first == CHOOSE i \in bad : \A j \in bad : i <= j
             verdict == Integ!VerifyAnchors(b, chain[b], clock)
  <2>1. verdict = CASE anchors[b] = <<>> -> IF RequireFirst THEN "NeverAnchored" ELSE "ok"
                    [] bad # {} -> IF first \in missing THEN "AnchoredHeadMissing"
                                   ELSE IF first \in lost THEN "ReceiptNotHonoured"
                                   ELSE "WentBackwards"
                    [] OTHER -> IF clock > Integ!Latest(b).at + MaxGap THEN "Stale" ELSE "ok"
    BY DEF Integ!VerifyAnchors, Integ!Anchored
  <2>2. anchors[b] = <<>> => bad = {} /\ DOMAIN anchors[b] = {}
    OBVIOUS
  <2>3. missing = {}
    BY DEF IntegInv, AnchorStands, Integ!Contains
  <2>4. \A i \in DOMAIN anchors[b] :
           i \notin lost <=> anchors[b][i].receipt \in DOMAIN held
    BY DEF IntegInv, AnchorStands, Integ!SinkHonours
  <2>5. back = {}
    <3> SUFFICES ASSUME NEW i \in DOMAIN anchors[b], i > 1
                 PROVE  ~(anchors[b][i].covered < anchors[b][i - 1].covered)
      OBVIOUS
    <3>1. anchors[b] \in Seq(Integ!Anchor) /\ i - 1 \in DOMAIN anchors[b]
      BY MainIsInt
    <3>2. anchors[b][i] \in Integ!Anchor /\ anchors[b][i - 1] \in Integ!Anchor
      BY <3>1
    <3>3. anchors[b][i].covered \in Nat /\ anchors[b][i - 1].covered \in Nat
      BY <3>2 DEF Integ!Anchor
    <3>4. anchors[b][i].covered >= anchors[b][i - 1].covered
      BY DEF IntegInv
    <3>5. QED
      BY <3>3, <3>4
  <2> DEFINE kept == \A i \in DOMAIN anchors[b] : anchors[b][i].receipt \in DOMAIN held
  <2>6. kept <=> bad = {}
    <3>1. lost \subseteq DOMAIN anchors[b]
      OBVIOUS
    <3>2. bad = lost
      BY <2>3, <2>5
    <3> HIDE DEF bad, lost
    <3>3. QED
      BY <2>4, <3>1, <3>2
  <2>7. anchors[b] # <<>> => /\ Integ!Latest(b) \in Integ!Anchor /\ Integ!Latest(b).at \in Nat
    <3> SUFFICES ASSUME anchors[b] # <<>> PROVE Integ!Latest(b) \in Integ!Anchor /\ Integ!Latest(b).at \in Nat
      OBVIOUS
    <3>1. anchors[b] \in Seq(Integ!Anchor) /\ Integ!Latest(b) = anchors[b][Len(anchors[b])]
      BY MainIsInt DEF Integ!Latest, Integ!Last
    <3>2. Integ!Latest(b) \in Integ!Anchor
      BY <3>1
    <3>3. QED
      BY <3>2 DEF Integ!Anchor
  <2>8. clock \in Nat /\ MaxGap \in Nat /\ RequireFirst \in BOOLEAN
    BY DEF IntegInv, IntegTypes, Integ!IntegrityAssumption
  <2> HIDE DEF bad, missing, lost, back, first, verdict
  <2>9. CASE anchors[b] = <<>>
    <3>1. verdict = IF RequireFirst THEN "NeverAnchored" ELSE "ok"
      BY <2>1, <2>2, <2>9
    <3>2. kept
      BY <2>2, <2>9
    <3>3. QED
      BY <2>9, <3>1, <3>2 DEF verdict
  <2>10. CASE anchors[b] # <<>> /\ bad # {}
    <3>1. verdict \in {"AnchoredHeadMissing", "ReceiptNotHonoured", "WentBackwards"}
      BY <2>1, <2>10
    <3>2. QED
      BY <2>6, <2>10, <3>1 DEF verdict
  <2>11. CASE anchors[b] # <<>> /\ bad = {}
    <3>1. verdict = IF clock > Integ!Latest(b).at + MaxGap THEN "Stale" ELSE "ok"
      BY <2>1, <2>11
    <3>2. verdict \in {"ok", "Stale"} /\ (verdict = "ok" => clock <= Integ!Latest(b).at + MaxGap)
      BY <2>7, <2>8, <2>11, <3>1
    <3>3. kept
      BY <2>6, <2>11
    <3>4. QED
      BY <2>11, <3>2, <3>3 DEF verdict
  <2>12. QED
    BY <2>9, <2>10, <2>11
<1>3. \A b \in ChainBranches : b \in orphan => Integ!EngineVerify(b) = "UnknownCommit"
  BY DEF Integ!EngineVerify, Integ!Readable
<1>4. \A b \in ChainBranches : b \notin orphan => Integ!EngineVerify(b) = Integ!VerifyAnchors(b, chain[b], clock)
  BY DEF Integ!EngineVerify, Integ!Readable, Integ!Chain
<1>5. Integ!AnchorsTellTheTruth
  <2> SUFFICES ASSUME NEW b \in ChainBranches
               PROVE  LET verdict == Integ!EngineVerify(b)
                          kept == \A i \in DOMAIN anchors[b] : anchors[b][i].receipt \in DOMAIN held
                      IN  /\ verdict = "ok" =>
                               /\ kept
                               /\ Integ!Anchored(b) # <<>> => clock <= Integ!Latest(b).at + MaxGap
                               /\ Integ!Anchored(b) = <<>> => ~RequireFirst
                          /\ kept /\ Integ!Readable(b) => verdict \in {"ok", "Stale", "NeverAnchored"}
    BY DEF Integ!AnchorsTellTheTruth
  <2>1. CASE b \in orphan
    BY <1>3, <2>1 DEF Integ!Readable
  <2>2. CASE b \notin orphan
    BY <1>2, <1>4, <2>2 DEF Integ!Readable, Integ!Anchored
  <2>3. QED
    BY <2>1, <2>2
<1>6. QED
  BY <1>1, <1>5 DEF Integ!IntegrityIsHonest

LEMMA StepPassCovers ==
  ASSUME Integ!IntegrityAssumption, IntegInv, Integ!Next
  PROVE  Integ!PassCovers
<1>1. CASE Integ!Maintain
  <2> SUFFICES ASSUME verifier'.passes > verifier.passes, Integ!Readable(ChainMain)
               PROVE  /\ \A i \in 1 .. verifier'.target : chain[ChainMain][i] \in verifier'.seen
                      /\ verifier.cursor = 0 => verifier'.target = Len(chain[ChainMain])
    BY DEF Integ!PassCovers
  <2>1. Integ!ChainOrEmpty(ChainMain) = chain[ChainMain]
    BY DEF Integ!ChainOrEmpty, Integ!Chain
  <2>2. verifier' = Integ!VerifierTick(chain[ChainMain], clock + 1).verifier
    BY <1>1, <2>1, MaintainDoes
  <2>3. /\ verifier \in Integ!Verifier /\ clock + 1 \in Nat /\ chain[ChainMain] \in Seq(Integ!Hash)
        /\ Walked(verifier, chain[ChainMain])
    BY <2>1, MainIsInt DEF IntegInv, IntegTypes
  <2>4. QED
    BY <2>2, <2>3, TickIsQuiet
<1>2. CASE verifier' = verifier \/ verifier' = Integ!NewVerifier(0)
  <2>1. verifier.passes \in Nat
    BY DEF IntegInv, IntegTypes, Integ!Verifier
  <2>2. ~(verifier'.passes > verifier.passes)
    BY <1>2, <2>1 DEF Integ!NewVerifier
  <2>3. QED
    BY <2>2 DEF Integ!PassCovers
<1>3. QED
  BY <1>1, <1>2 DEF Integ!Next, Integ!Write, Integ!Fork, Integ!SetVerifierRate, Integ!SinkFlips,
                    Integ!SinkForgets, Integ!Restart

LEMMA StepAnchorsCover ==
  ASSUME Integ!IntegrityAssumption, MaxGap > 0, IntegInv, Integ!Next
  PROVE  Integ!AnchorsCoverPrefixes
<1>1. CASE Integ!Maintain
  <2> SUFFICES ASSUME reachable, NEW b \in ChainBranches, Integ!HasHead(b), b \notin orphan, RequireFirst
               PROVE  /\ anchors'[b] # <<>>
                      /\ Integ!Last(anchors'[b]).at + MaxGap > clock'
                      /\ chain[b][Integ!Last(anchors'[b]).covered] = Integ!Last(anchors'[b]).head
    BY DEF Integ!AnchorsCoverPrefixes, Integ!Readable
  <2>1. /\ clock \in Nat /\ clock' = clock + 1 /\ MaxGap \in Nat
        /\ anchors[b] \in Seq(Integ!Anchor) /\ chain[b] \in Seq(Integ!Hash)
        /\ b \in TakenAt(clock + 1) => anchors'[b] = Append(anchors[b], NewAt(b, clock + 1))
        /\ b \notin TakenAt(clock + 1) => anchors'[b] = anchors[b]
    BY <1>1, MaintainDoes, MainIsInt DEF IntegInv, IntegTypes, Integ!IntegrityAssumption
  <2>2. CASE b \in TakenAt(clock + 1)
    <3>1. /\ NewAt(b, clock + 1).at = clock + 1 /\ Len(chain[b]) \in Nat /\ Len(chain[b]) >= 1
          /\ chain[b][Len(chain[b])] = NewAt(b, clock + 1).head
          /\ NewAt(b, clock + 1).covered = Len(chain[b])
      <4>1. clock + 1 \in Nat
        BY <2>1
      <4>2. QED
        BY <2>2, <4>1, NewStands
    <3>2. anchors'[b] # <<>> /\ Integ!Last(anchors'[b]) = NewAt(b, clock + 1)
      BY <2>1, <2>2 DEF Integ!Last
    <3>3. QED
      BY <2>1, <3>1, <3>2
  <2>3. CASE b \notin TakenAt(clock + 1)
    <3>1. \A i \in DOMAIN anchors[b] : AnchorStands(b, anchors[b][i]) /\ anchors[b][i] \in Integ!Anchor
      <4>1. \A i \in DOMAIN anchors[b] : AnchorStands(b, anchors[b][i])
        BY DEF IntegInv
      <4>2. \A i \in DOMAIN anchors[b] : anchors[b][i] \in Integ!Anchor
        BY <2>1
      <4>3. QED
        BY <4>1, <4>2
    <3>2. ASSUME anchors[b] # <<>>
          PROVE  /\ Len(anchors[b]) \in DOMAIN anchors[b]
                 /\ Integ!Latest(b) = anchors[b][Len(anchors[b])]
                 /\ AnchorStands(b, Integ!Latest(b))
                 /\ Integ!Latest(b).at \in Nat /\ Integ!Latest(b).covered \in Nat
      <4>1. Len(anchors[b]) \in DOMAIN anchors[b] /\ Integ!Latest(b) = anchors[b][Len(anchors[b])]
        BY <2>1, <3>2 DEF Integ!Latest, Integ!Last
      <4>2. QED
        BY <3>1, <4>1 DEF Integ!Anchor
    <3>3. ~Integ!PublishRefused(b)
      <4> SUFFICES ASSUME anchors[b] # <<>> PROVE ~(Integ!Covered(b) < Integ!Latest(b).covered)
        BY DEF Integ!PublishRefused, Integ!Anchored
      <4>1. Integ!Latest(b).covered <= Integ!Covered(b) /\ Integ!Latest(b).covered \in Nat
        BY <3>2 DEF AnchorStands, Integ!Covered
      <4>2. Integ!Covered(b) \in Nat
        BY MainIsInt DEF Integ!Covered
      <4>3. QED
        BY <4>1, <4>2
    <3>4. Integ!Exists(b)
      BY DEF IntegInv, Integ!HasHead, Integ!Chain, Integ!Exists
    <3>5. ~Integ!Due(b, clock + 1)
      BY <2>3, <3>3, <3>4 DEF TakenAt, DueAt
    <3>6. anchors[b] # <<>> /\ ~(clock + 1 >= Integ!Latest(b).at + MaxGap)
      BY <3>5 DEF Integ!Due, Integ!Anchored
    <3>7. Integ!Last(anchors'[b]) = Integ!Latest(b)
      BY <2>1, <2>3 DEF Integ!Latest
    <3>8. QED
      BY <2>1, <2>3, <3>2, <3>6, <3>7 DEF AnchorStands
  <2>4. QED
    BY <2>2, <2>3
<1>2. CASE clock' = clock
  BY <1>2 DEF Integ!AnchorsCoverPrefixes
<1>3. QED
  BY <1>1, <1>2 DEF Integ!Next, Integ!Write, Integ!Fork, Integ!SetVerifierRate, Integ!SinkFlips,
                    Integ!SinkForgets, Integ!Restart

(* For any branches, rates and policy, however entries, forks, restarts, slices  *)
(* of a pass and a sink that comes, goes and forgets interleave: the verifier     *)
(* never reports a chain nobody touched, and verify_anchors accepts only what the *)
(* sink reproduces recently enough and accuses nobody while the sink kept its word.*)
THEOREM NeitherAlarmsNorVouchesFalsely ==
  ASSUME Integ!IntegrityAssumption
  PROVE  Integ!Spec => []IntegrityIsHonest
<1>1. Integ!Init => IntegInv
  BY IntegInitInv
<1>2. IntegInv /\ [Integ!Next]_(Integ!vars) => IntegInv'
  BY IntegNextInv
<1>3. IntegInv => IntegrityIsHonest
  BY IntegInvHonest DEF IntegrityIsHonest
<1>4. QED
  BY <1>1, <1>2, <1>3, PTL DEF Integ!Spec

(* Under the same conditions and a gap above zero: a pass that completes has seen *)
(* every entry its chain had when it began, and a tick with the sink reachable    *)
(* leaves each readable branch an anchor younger than the gap, over a prefix of   *)
(* its chain that ends at the anchored head.                                      *)
THEOREM PassesAndAnchorsAreWhole ==
  ASSUME Integ!IntegrityAssumption, MaxGap > 0
  PROVE  Integ!Spec => PassesAndAnchorsCover
<1>1. Integ!Init => IntegInv
  BY IntegInitInv
<1>2. IntegInv /\ [Integ!Next]_(Integ!vars) => IntegInv'
  BY IntegNextInv
<1>3. IntegInv /\ [Integ!Next]_(Integ!vars)
        => [part = "integrity" => Integ!PassCovers /\ Integ!AnchorsCoverPrefixes]_(Integ!vars)
  BY StepPassCovers, StepAnchorsCover
<1>4. QED
  BY <1>1, <1>2, <1>3, PTL DEF Integ!Spec, PassesAndAnchorsCover

-----------------------------------------------------------------------------
(* Regions and follower reads                                               *)

\* What seen may hold: a commit of home, or nothing.
Versions == Nat \cup {Placed!Absent}

\* A caller's floors are at or above every version it was shown or wrote.
FloorsCover ==
    \A c \in Callers : \A k \in RowKeys :
        shown[c][k] # Placed!Absent =>
            \E f \in floors[c] : f.key = k /\ f.version >= shown[c][k]

ReadInv ==
    /\ existing \subseteq BranchIds
    /\ written \in [BranchIds -> Seq(SUBSET RowKeys)]
    /\ position \in [Followers -> Nat]
    /\ floors \in [Callers -> SUBSET [key : RowKeys, version : Nat]]
    /\ shown \in [Callers -> [RowKeys -> Versions]]
    /\ FloorsCover

-----------------------------------------------------------------------------
(* The version a follower has of a key *)

LEMMA GreatestExists ==
  ASSUME NEW n \in Nat, NEW S \in SUBSET (1 .. n), S # {}
  PROVE  \E x \in S : \A y \in S : y <= x
<1> DEFINE T == {m \in Nat : n - m \in S}
<1>1. \A s \in S : n - s \in T
  OBVIOUS
<1>2. OpToRel(<, Nat) = {ss \in Nat \X Nat : ss[1] < ss[2]}
  BY DEF OpToRel
<1>3. PICK x \in T : \A y \in T : <<y, x>> \notin OpToRel(<, Nat)
  <2>1. T \in SUBSET Nat /\ T # {}
    BY <1>1
  <2>2. QED
    BY <2>1, NatLessThanWellFounded, WFMin
<1>4. ASSUME NEW y \in S PROVE y <= n - x
  <2>1. n - y \in T /\ <<n - y, x>> \in Nat \X Nat
    BY <1>1
  <2>2. ~(<<n - y, x>>[1] < <<n - y, x>>[2])
    BY <1>2, <1>3, <2>1
  <2>3. x \in Nat /\ y \in 1 .. n
    OBVIOUS
  <2>4. QED
    BY <2>2, <2>3
<1>5. QED
  BY <1>3, <1>4

LEMMA VersionsAreVersions ==
  ASSUME NEW key \in RowKeys, NEW n \in Nat
  PROVE  Placed!VersionOf(key, n) \in Versions
<1> DEFINE at == {i \in 1 .. n : key \in written[Home][i]}
<1>1. CASE at = {}
  BY <1>1 DEF Placed!VersionOf, Versions
<1>2. CASE at # {}
  <2> DEFINE newest == CHOOSE i \in at : \A j \in at : j <= i
  <2>1. \E x \in at : \A y \in at : y <= x
    <3>1. at \in SUBSET (1 .. n)
      OBVIOUS
    <3> HIDE DEF at
    <3>2. QED
      BY <1>2, <3>1, GreatestExists
  <2>2. newest \in at
    BY <2>1
  <2>3. newest \in 1 .. n
    BY <2>2
  <2>4. Placed!VersionOf(key, n) = newest - 1
    BY <1>2 DEF Placed!VersionOf
  <2> HIDE DEF newest
  <2>5. QED
    BY <2>3, <2>4 DEF Versions
<1>3. QED
  BY <1>1, <1>2

-----------------------------------------------------------------------------
(* Floors *)

\* observed keeps a floor's form, leaves a floor at or above the version it is
\* told of, and lowers no other.
LEMMA ObservedRaises ==
  ASSUME NEW fs \in SUBSET [key : RowKeys, version : Nat], NEW key \in RowKeys, NEW version \in Nat
  PROVE  /\ Placed!Observed(fs, key, version) \in SUBSET [key : RowKeys, version : Nat]
         /\ \E f \in Placed!Observed(fs, key, version) : f.key = key /\ f.version >= version
         /\ \A f \in fs : \E g \in Placed!Observed(fs, key, version) :
               g.key = f.key /\ g.version >= f.version
<1> DEFINE known == {f \in fs : f.key = key}
           new == [key |-> key, version |-> version]
<1>1. CASE \E f \in known : f.version >= version
  <2>1. Placed!Observed(fs, key, version) = fs
    BY <1>1 DEF Placed!Observed
  <2>2. QED
    BY <1>1, <2>1
<1>2. CASE ~ \E f \in known : f.version >= version
  <2>1. Placed!Observed(fs, key, version) = (fs \ known) \cup {new}
    BY <1>2 DEF Placed!Observed
  <2>2. new \in [key : RowKeys, version : Nat] /\ new.key = key /\ new.version = version
    OBVIOUS
  <2>3. ASSUME NEW f \in fs
        PROVE  \E g \in (fs \ known) \cup {new} : g.key = f.key /\ g.version >= f.version
    <3>1. CASE f \in known
      <4>1. f.key = key /\ ~(f.version >= version) /\ f.version \in Nat
        BY <1>2, <3>1
      <4>2. new.key = f.key /\ new.version >= f.version
        BY <2>2, <4>1
      <4>3. QED
        BY <4>2
    <3>2. CASE f \notin known
      BY <3>2
    <3>3. QED
      BY <3>1, <3>2
  <2> HIDE DEF new, known
  <2>4. QED
    BY <2>1, <2>2, <2>3
<1>3. QED
  BY <1>1, <1>2

\* What a caller is served is at or above what it has seen of the key.
LEMMA ServedIsNew ==
  ASSUME ReadInv, NEW c \in Callers, NEW f \in Followers, NEW k \in RowKeys,
         Placed!MayServe(f, c, k).decision = "serve"
  PROVE  Placed!MayServe(f, c, k).version >= shown[c][k]
<1> DEFINE have == Placed!VersionOf(k, position[f])
<1>1. have \in Versions
  BY VersionsAreVersions DEF ReadInv
<1>2. Placed!MayServe(f, c, k) = Placed!Serve(k, have)
  BY DEF Placed!MayServe, Placed!Serve, Placed!Redirect
<1>3. Placed!Required(c, k) = {} \/ (have # Placed!Absent /\ \A r \in Placed!Required(c, k) : have >= r)
  BY DEF Placed!MayServe, Placed!Serve, Placed!Redirect
<1>4. shown[c][k] \in Versions
  BY DEF ReadInv
<1> HIDE DEF have
<1>5. have >= shown[c][k]
  <2>1. CASE shown[c][k] = Placed!Absent
    BY <1>1, <2>1 DEF Versions, Placed!Absent
  <2>2. CASE shown[c][k] # Placed!Absent
    <3>1. PICK g \in floors[c] : g.key = k /\ g.version >= shown[c][k]
      BY <2>2 DEF ReadInv, FloorsCover
    <3>2. g.version \in Placed!Required(c, k)
      BY <3>1 DEF Placed!Required
    <3>3. g.version \in Nat
      BY DEF ReadInv
    <3>4. QED
      BY <1>1, <1>3, <1>4, <3>1, <3>2, <3>3 DEF Versions, Placed!Absent
  <2>3. QED
    BY <2>1, <2>2
<1>6. QED
  BY <1>2, <1>5 DEF Placed!Serve

-----------------------------------------------------------------------------
(* Reads of one caller, on any followers, never go back *)

LEMMA ReadInvInit ==
  ASSUME Placed!RegionsAssumption, Placed!Init
  PROVE  ReadInv
<1>1. written \in [BranchIds -> Seq(SUBSET RowKeys)]
  BY DEF Placed!Init
<1>2. QED
  BY <1>1 DEF Placed!Init, ReadInv, FloorsCover, Versions

\* A read, and a write at home, raise the caller's floor with what it has seen.
LEMMA FloorsFollow ==
  ASSUME ReadInv, NEW c \in Callers, NEW k \in RowKeys, NEW version \in Nat,
         floors' = [floors EXCEPT ![c] = Placed!Observed(@, k, version)],
         shown' = [shown EXCEPT ![c][k] = version]
  PROVE  /\ floors' \in [Callers -> SUBSET [key : RowKeys, version : Nat]]
         /\ shown' \in [Callers -> [RowKeys -> Versions]]
         /\ FloorsCover'
<1> DEFINE raised == Placed!Observed(floors[c], k, version)
<1>1. floors[c] \in SUBSET [key : RowKeys, version : Nat]
  BY DEF ReadInv
<1>2. /\ raised \in SUBSET [key : RowKeys, version : Nat]
      /\ \E f \in raised : f.key = k /\ f.version >= version
      /\ \A f \in floors[c] : \E g \in raised : g.key = f.key /\ g.version >= f.version
  BY <1>1, ObservedRaises
<1>3. floors'[c] = raised /\ \A d \in Callers \ {c} : floors'[d] = floors[d]
  BY DEF ReadInv
<1> HIDE DEF raised
<1>4. floors' \in [Callers -> SUBSET [key : RowKeys, version : Nat]]
  BY <1>2, <1>3 DEF ReadInv
<1>5. shown' \in [Callers -> [RowKeys -> Versions]]
  BY DEF ReadInv, Versions
<1>6. ASSUME NEW d \in Callers, NEW j \in RowKeys, shown'[d][j] # Placed!Absent
      PROVE  \E f \in floors'[d] : f.key = j /\ f.version >= shown'[d][j]
  <2>1. CASE d = c /\ j = k
    <3>1. shown'[d][j] = version
      BY <2>1 DEF ReadInv
    <3>2. QED
      BY <1>2, <1>3, <2>1, <3>1
  <2>2. CASE d = c /\ j # k
    <3>1. shown'[d][j] = shown[d][j] /\ shown[d][j] \in Versions
      BY <2>2 DEF ReadInv
    <3>2. PICK f \in floors[c] : f.key = j /\ f.version >= shown[c][j]
      BY <1>6, <2>2, <3>1 DEF ReadInv, FloorsCover
    <3>3. PICK g \in raised : g.key = f.key /\ g.version >= f.version
      BY <1>2, <3>2
    <3>4. f.version \in Nat /\ g.version \in Nat
      BY <1>1, <1>2, <3>2, <3>3
    <3>5. g.version >= shown'[d][j]
      BY <2>2, <3>1, <3>2, <3>3, <3>4 DEF Versions, Placed!Absent
    <3>6. QED
      BY <1>3, <2>2, <3>2, <3>3, <3>5
  <2>3. CASE d # c
    <3>1. shown'[d] = shown[d] /\ floors'[d] = floors[d]
      BY <1>3, <2>3 DEF ReadInv
    <3>2. QED
      BY <1>6, <3>1 DEF ReadInv, FloorsCover
  <2>4. QED
    BY <2>1, <2>2, <2>3
<1>7. QED
  BY <1>4, <1>5, <1>6 DEF FloorsCover

LEMMA WriteKeepsInv ==
  ASSUME Placed!RegionsAssumption, ReadInv,
         NEW c \in Callers, NEW r \in RegionNames, NEW k \in RowKeys, Placed!Write(c, r, k)
  PROVE  ReadInv'
<1>1. PICK b \in Placed!Route(r) \cap existing :
        /\ written' = [written EXCEPT ![b] = Append(@, {k})]
        /\ IF b = Home
           THEN /\ floors' = [floors EXCEPT ![c] = Placed!Observed(@, k, Len(written[Home]))]
                /\ shown' = [shown EXCEPT ![c][k] = Len(written[Home])]
           ELSE UNCHANGED <<floors, shown>>
        /\ UNCHANGED <<existing, position>>
  BY DEF Placed!Write
<1>2. written' \in [BranchIds -> Seq(SUBSET RowKeys)]
  <2>1. ASSUME NEW d \in BranchIds PROVE Append(written[d], {k}) \in Seq(SUBSET RowKeys)
    BY DEF ReadInv
  <2>2. QED
    BY <1>1, <2>1 DEF ReadInv
<1>3. CASE b = Home
  <2>1. written[Home] \in Seq(SUBSET RowKeys)
    BY DEF ReadInv, Placed!RegionsAssumption
  <2>2. Len(written[Home]) \in Nat
    BY <2>1
  <2>3. /\ floors' \in [Callers -> SUBSET [key : RowKeys, version : Nat]]
        /\ shown' \in [Callers -> [RowKeys -> Versions]]
        /\ FloorsCover'
    BY <1>1, <1>3, <2>2, FloorsFollow
  <2>4. QED
    BY <1>1, <1>2, <2>3 DEF ReadInv
<1>4. CASE b # Home
  BY <1>1, <1>2, <1>4 DEF ReadInv, FloorsCover
<1>5. QED
  BY <1>3, <1>4

LEMMA MergeKeepsInv ==
  ASSUME Placed!RegionsAssumption, ReadInv, NEW r \in RegionNames, Placed!MergeHome(r)
  PROVE  ReadInv'
<1>1. PICK b \in (Placed!Route(r) \cap existing) \ {Home} :
        /\ written' = [written EXCEPT ![Home] = @ \o <<UNION Placed!Range(written[b]), {}>>]
        /\ UNCHANGED <<existing, position, floors, shown>>
  BY DEF Placed!MergeHome
<1>2. UNION Placed!Range(written[b]) \in SUBSET RowKeys
  <2>1. written[b] \in Seq(SUBSET RowKeys)
    BY DEF ReadInv
  <2>2. QED
    BY <2>1 DEF Placed!Range
<1>3. written' \in [BranchIds -> Seq(SUBSET RowKeys)]
  <2> DEFINE theirs == UNION Placed!Range(written[b])
  <2>1. written[Home] \in Seq(SUBSET RowKeys) /\ <<theirs, {}>> \in Seq(SUBSET RowKeys)
    BY <1>2 DEF ReadInv, Placed!RegionsAssumption
  <2> HIDE DEF theirs
  <2>2. written[Home] \o <<theirs, {}>> \in Seq(SUBSET RowKeys)
    BY <2>1
  <2>3. written' = [written EXCEPT ![Home] = @ \o <<theirs, {}>>]
    BY <1>1 DEF theirs
  <2>4. QED
    BY <2>2, <2>3 DEF ReadInv
<1>4. QED
  BY <1>1, <1>3 DEF ReadInv, FloorsCover

LEMMA ReadKeepsInv ==
  ASSUME ReadInv, NEW c \in Callers, NEW f \in Followers, NEW k \in RowKeys, Placed!Read(c, f, k)
  PROVE  ReadInv'
<1> DEFINE decision == Placed!MayServe(f, c, k)
           have == Placed!VersionOf(k, position[f])
<1>1. have \in Versions /\ shown[c][k] \in Versions
  BY VersionsAreVersions DEF ReadInv
<1>2. UNCHANGED <<existing, written, position>>
  BY DEF Placed!Read
<1>3. CASE decision = Placed!Serve(k, have) /\ have # Placed!Absent
  <2>1. floors' = [floors EXCEPT ![c] = Placed!Observed(@, k, have)]
    BY <1>3 DEF Placed!Read, Placed!Record, Placed!Serve
  <2>2. shown' = [shown EXCEPT ![c][k] = have]
    <3>1. have >= shown[c][k]
      <4>1. decision.decision = "serve" /\ decision.version = have
        BY <1>3 DEF Placed!Serve
      <4> HIDE DEF have
      <4>2. QED
        BY <4>1, ServedIsNew
    <3>2. (IF have > shown[c][k] THEN have ELSE shown[c][k]) = have
      BY <1>1, <3>1 DEF Versions, Placed!Absent
    <3>3. shown' = [shown EXCEPT ![c][k] = IF decision.version > @ THEN decision.version ELSE @]
      BY DEF Placed!Read
    <3>4. decision.version = have
      BY <1>3 DEF Placed!Serve
    <3> HIDE DEF decision, have
    <3>5. QED
      BY <3>2, <3>3, <3>4
  <2>3. have \in Nat
    BY <1>1, <1>3 DEF Versions
  <2> HIDE DEF have
  <2>4. QED
    BY <1>2, <2>1, <2>2, <2>3, FloorsFollow DEF ReadInv
<1>4. CASE decision.version = Placed!Absent
  <2>1. floors' = floors
    BY <1>4 DEF Placed!Read, Placed!Record, ReadInv
  <2>2. shown' = shown
    BY <1>1, <1>4 DEF Placed!Read, ReadInv, Versions, Placed!Absent
  <2>3. QED
    BY <1>2, <2>1, <2>2 DEF ReadInv, FloorsCover
<1>5. QED
  BY <1>3, <1>4 DEF Placed!MayServe, Placed!Serve, Placed!Redirect

LEMMA ReadInvNext ==
  ASSUME Placed!RegionsAssumption, ReadInv, [Placed!Next]_(Placed!vars)
  PROVE  ReadInv'
<1>1. CASE UNCHANGED <<existing, written, position, floors, shown>>
  BY <1>1 DEF ReadInv, FloorsCover
<1>2. ASSUME NEW f \in Followers, Placed!Follow(f) PROVE ReadInv'
  <2>1. position' \in [Followers -> Nat]
    BY <1>2 DEF Placed!Follow, ReadInv
  <2>2. QED
    BY <1>2, <2>1 DEF Placed!Follow, ReadInv, FloorsCover
<1>3. ASSUME NEW c \in Callers, NEW r \in RegionNames, NEW k \in RowKeys, Placed!Write(c, r, k) PROVE ReadInv'
  BY <1>3, WriteKeepsInv
<1>4. ASSUME NEW r \in RegionNames, Placed!MergeHome(r) PROVE ReadInv'
  BY <1>4, MergeKeepsInv
<1>5. ASSUME NEW c \in Callers, NEW f \in Followers, NEW k \in RowKeys, Placed!Read(c, f, k) PROVE ReadInv'
  BY <1>5, ReadKeepsInv
<1>6. ASSUME NEW b \in BranchIds, Placed!DiscardBranch(b) PROVE ReadInv'
  BY <1>6 DEF Placed!DiscardBranch, ReadInv, FloorsCover
<1>7. CASE \/ Placed!Tick
           \/ \E r \in RegionNames, b \in BranchIds : Placed!PlaceRegion(r, b)
           \/ UNCHANGED Placed!vars
  BY <1>1, <1>7 DEF Placed!Tick, Placed!PlaceRegion, Placed!vars
<1>8. QED
  BY <1>2, <1>3, <1>4, <1>5, <1>6, <1>7 DEF Placed!Next

LEMMA StepReadsForward ==
  ASSUME ReadInv, Placed!Next
  PROVE  Placed!NoReadGoesBack
<1>1. ASSUME NEW c \in Callers, NEW f \in Followers, NEW k \in RowKeys, Placed!Read(c, f, k),
             answer'.decision = "serve"
      PROVE  answer'.version >= shown[answer'.caller][answer'.key]
  <2>1. Placed!MayServe(f, c, k) \in [decision : {"serve", "redirect"}, key : {k}, version : {Placed!VersionOf(k, position[f]), Placed!Absent}]
    BY DEF Placed!MayServe, Placed!Serve, Placed!Redirect
  <2>2. /\ answer'.decision = Placed!MayServe(f, c, k).decision /\ answer'.version = Placed!MayServe(f, c, k).version
        /\ answer'.caller = c /\ answer'.key = k
    BY <1>1, <2>1 DEF Placed!Read
  <2>3. QED
    BY <1>1, <2>2, ServedIsNew
<1>2. ASSUME NEW c \in Callers, NEW r \in RegionNames, NEW k \in RowKeys, Placed!Write(c, r, k)
      PROVE  answer'.decision # "serve"
  BY <1>2 DEF Placed!Write, Placed!NoAnswer
<1>3. CASE UNCHANGED answer
  BY <1>3 DEF Placed!NoReadGoesBack
<1>4. QED
  BY <1>1, <1>2, <1>3 DEF Placed!Next, Placed!NoReadGoesBack, Placed!Tick, Placed!PlaceRegion, Placed!DiscardBranch, Placed!MergeHome, Placed!Follow

LEMMA StepKeepsRoutes ==
  ASSUME Placed!Next
  PROVE  Placed!RouteKept
<1>1. ASSUME NEW r \in RegionNames, NEW b \in BranchIds, Placed!PlaceRegion(r, b) PROVE Placed!RouteKept
  BY <1>1 DEF Placed!PlaceRegion, Placed!RouteKept, Placed!Placed, Placed!Route
<1>2. CASE UNCHANGED placement
  BY <1>2 DEF Placed!RouteKept, Placed!Route
<1>3. QED
  BY <1>1, <1>2 DEF Placed!Next, Placed!Tick, Placed!DiscardBranch, Placed!Write, Placed!MergeHome, Placed!Follow, Placed!Read

(* No caller is ever served, by any follower however far behind, an older     *)
(* version of a key than it was shown or wrote before (region.rs may_serve);  *)
(* and a region that was given a branch keeps it, whatever is placed,         *)
(* discarded or merged later (region.rs place, engine.rs place_region). This  *)
(* is the regions' side of NothingGoesBack, GatingProofs has the policy's.    *)
THEOREM RegionsNeverGoBack ==
  ASSUME Placed!RegionsAssumption
  PROVE  Placed!Spec /\ [](part = "regions") => NothingGoesBack
<1>1. Placed!Init => ReadInv
  BY ReadInvInit
<1>2. ReadInv /\ [Placed!Next]_(Placed!vars) => ReadInv'
  BY ReadInvNext
<1>3. ReadInv /\ [Placed!Next]_(Placed!vars)
        => [part = "regions" => Placed!NoReadGoesBack /\ Placed!RouteKept]_(Placed!vars)
  BY StepReadsForward, StepKeepsRoutes
<1>4. part = "regions" => [part = "gating" => Gating!MovesForward]_(Gating!vars)
  OBVIOUS
<1>5. QED
  BY <1>1, <1>2, <1>3, <1>4, PTL DEF Placed!Spec, NothingGoesBack

-----------------------------------------------------------------------------
(* The audit trail                                                          *)

TrailEntry == [id : Nat, risk : Risks, at : Nat]
TrailPiece == [entry : TrailEntry, under : SealKeys \cup {NoKey}, whole : BOOLEAN]
TrailLine == Seq(TrailPiece)

\* Facts of the trail's own sequences.
LEMMA WindowIs ==
  ASSUME NEW E, NEW s \in Seq(E), WindowSize \in Nat \ {0}
  PROVE  /\ Audit!Window(s) \in Seq(E)
         /\ Len(Audit!Window(s)) = IF Len(s) > WindowSize THEN WindowSize ELSE Len(s)
         /\ \A i \in 1..Len(Audit!Window(s)) :
              Audit!Window(s)[i] = s[Len(s) - Len(Audit!Window(s)) + i]
<1>1. CASE Len(s) > WindowSize
  <2>1. Audit!Window(s) = SubSeq(s, Len(s) - WindowSize + 1, Len(s))
    BY <1>1 DEF Audit!Window
  <2>2. Len(s) \in Nat /\ Len(s) - WindowSize + 1 \in 1..Len(s)
    BY <1>1
  <2>3. SubSeq(s, Len(s) - WindowSize + 1, Len(s)) \in Seq(E)
    BY <2>2, SubSeqProperties
  <2>4. Len(SubSeq(s, Len(s) - WindowSize + 1, Len(s))) = WindowSize
    BY <2>2, SubSeqProperties
  <2>5. \A i \in 1..WindowSize : SubSeq(s, Len(s) - WindowSize + 1, Len(s))[i] = s[Len(s) - WindowSize + i]
    BY <2>2, SubSeqProperties
  <2>6. QED
    BY <1>1, <2>1, <2>3, <2>4, <2>5
<1>2. CASE ~(Len(s) > WindowSize)
  <2>1. Audit!Window(s) = s /\ Len(s) \in Nat
    BY <1>2 DEF Audit!Window
  <2>2. QED
    BY <1>2, <2>1
<1>3. QED
  BY <1>1, <1>2

LEMMA WrittenIs ==
  ASSUME lines \in Seq(TrailLine), lines = <<>> => ended, ended \in BOOLEAN, NEW p \in TrailPiece
  PROVE  /\ Audit!Written(p) \in Seq(TrailLine)
         /\ ended => /\ Len(Audit!Written(p)) = Len(lines) + 1
                     /\ \A i \in 1..Len(lines) : Audit!Written(p)[i] = lines[i]
                     /\ Audit!Written(p)[Len(lines) + 1] = <<p>>
         /\ ~ended => /\ Len(Audit!Written(p)) = Len(lines) /\ Len(lines) \in 1..Len(lines)
                      /\ \A i \in 1..Len(lines) : i # Len(lines) => Audit!Written(p)[i] = lines[i]
                      /\ Audit!Written(p)[Len(lines)] = Append(lines[Len(lines)], p)
<1>1. <<p>> \in TrailLine /\ Len(lines) \in Nat
  BY DEF TrailLine
<1>2. CASE ended
  <2>1. Audit!Written(p) = Append(lines, <<p>>)
    BY <1>2 DEF Audit!Written
  <2> HIDE DEF TrailLine
  <2>2. QED
    BY <1>1, <1>2, <2>1
<1>3. CASE ~ended
  <2>1. Audit!Written(p) = [lines EXCEPT ![Len(lines)] = Append(lines[Len(lines)], p)]
    BY <1>3 DEF Audit!Written
  <2>2. lines # <<>>
    BY <1>3
  <2>3. Len(lines) \in 1..Len(lines)
    BY <1>1, <2>2
  <2>4. lines[Len(lines)] \in TrailLine
    BY <2>3
  <2>5. Append(lines[Len(lines)], p) \in TrailLine
    BY <2>4 DEF TrailLine
  <2>6. QED
    BY <1>1, <1>3, <2>1, <2>3, <2>5
<1>4. QED
  BY <1>2, <1>3

\* How far a file is read.
LEMMA ReadableIs ==
  ASSUME lines \in Seq(TrailLine), NEW k
  PROVE  /\ Audit!Readable(k) \in 0..Len(lines)
         /\ \A i \in 1..Audit!Readable(k) : Audit!ReadLine(lines[i], k) = "entry"
         /\ Audit!Readable(k) < Len(lines) => Audit!ReadLine(lines[Audit!Readable(k) + 1], k) # "entry"
<1> DEFINE good(n) == \A i \in 1..n : Audit!ReadLine(lines[i], k) = "entry"
           S == {n \in 0..Len(lines) : good(n)}
           T == {n + 1 : n \in S}
<1>1. Len(lines) \in Nat
  OBVIOUS
<1>2. 0 \in S
  BY <1>1
<1>3. \E x \in S : \A y \in S : x >= y
  <2>1. T \in SUBSET (1..Len(lines) + 1) /\ T # {} /\ Len(lines) + 1 \in Nat
    BY <1>1, <1>2
  <2> HIDE DEF T, S
  <2>2. PICK z \in T : \A y \in T : y <= z
    BY <2>1, GreatestExists
  <2> USE DEF T
  <2>3. PICK x \in S : z = x + 1
    BY <2>2
  <2>4. \A y \in S : y + 1 <= x + 1
    BY <2>2, <2>3
  <2>5. S \subseteq Nat
    BY <1>1 DEF S
  <2>6. QED
    BY <2>4, <2>5
<1>4. Audit!Readable(k) = Audit!Max(S)
  BY DEF Audit!Readable
<1> HIDE DEF S
<1>5. Audit!Readable(k) \in S /\ \A y \in S : Audit!Readable(k) >= y
  BY <1>3, <1>4 DEF Audit!Max
<1> DEFINE r == Audit!Readable(k)
<1>6. r \in 0..Len(lines) /\ good(r)
  BY <1>5 DEF S
<1> HIDE DEF r
<1>7. ASSUME r < Len(lines), Audit!ReadLine(lines[r + 1], k) = "entry" PROVE FALSE
  <2>1. r + 1 \in 0..Len(lines)
    BY <1>1, <1>6, <1>7
  <2>2. good(r + 1)
    <3>1. SUFFICES ASSUME NEW i \in 1..r + 1 PROVE Audit!ReadLine(lines[i], k) = "entry"
      OBVIOUS
    <3>2. i = r + 1 \/ i \in 1..r
      BY <1>1, <1>6
    <3>3. QED
      BY <1>6, <1>7, <3>2
  <2>3. r + 1 \in S
    BY <2>1, <2>2 DEF S
  <2>4. r >= r + 1
    BY <1>5, <2>3 DEF r
  <2>5. QED
    BY <1>1, <1>6, <2>4
<1>8. QED
  BY <1>6, <1>7 DEF r

(* The lines an instance that is up shows: the first n, the newest of them.    *)
Shows(n) ==
  /\ Len(recent) <= n /\ Len(recent) <= WindowSize
  /\ Len(recent) = n \/ Len(recent) = WindowSize
  /\ \A i \in 1..Len(recent) : recent[i] = lines[n - Len(recent) + i][1].entry

TrailTypes ==
  /\ lines \in Seq(TrailLine) /\ ended \in BOOLEAN /\ (lines = <<>> => ended)
  /\ \A i \in 1..Len(lines) : lines[i] # <<>>
  /\ recent \in Seq(TrailEntry) /\ appended \in Seq(TrailEntry)
  /\ pieces \in Nat /\ clock \in Nat /\ sealKey \in SealKeys \cup {NoKey}

\* The file an instance is up on is one it may read to the end.
TrailMatches ==
  /\ header = "absent" => lines = <<>>
  /\ opened = "up" => header \in Projects
  /\ Audit!NeverMisread

\* Every entry answered for was written, and the later the further on.
TrailWritten ==
  /\ \A i \in 1..Len(appended) : \E m \in 1..Len(lines) : \E j \in 1..Len(lines[m]) :
       lines[m][j].entry = appended[i]
  /\ \A i \in 1..Len(appended) : appended[i].id <= pieces
  /\ \A i, j \in 1..Len(appended) : i < j => appended[i].id < appended[j].id

\* Uncut, a trail's lines are numbered, and whoever is up shows all it answered for.
TrailUncut ==
  Audit!Whole =>
    /\ pieces = Len(lines)
    /\ \A i \in 1..Len(lines) : lines[i][1].entry.id = i
    /\ opened = "up" =>
         \/ Shows(Len(lines))
         \/ /\ ~ended /\ Len(lines) >= 1 /\ Shows(Len(lines) - 1)
            /\ \A i \in 1..Len(appended) : appended[i].id # Len(lines)
TrailInv == TrailTypes /\ TrailMatches /\ TrailWritten /\ TrailUncut

LEMMA TrailInvInit ==
  ASSUME Audit!TrailAssumption, Audit!Init
  PROVE  TrailInv
<1>1. header = "absent" /\ lines = <<>> /\ ended = TRUE /\ sealKey = NoKey /\ opened = "down"
      /\ recent = <<>> /\ clock = 0 /\ pieces = 0 /\ appended = <<>>
  BY DEF Audit!Init
<1>2. Len(lines) = 0 /\ Len(appended) = 0 /\ 1..0 = {}
  BY <1>1
<1>3. TrailTypes
  BY <1>1, <1>2 DEF TrailTypes, TrailLine
<1>4. TrailMatches
  BY <1>1, <1>2 DEF TrailMatches, Audit!NeverMisread
<1>5. TrailWritten /\ TrailUncut
  BY <1>1, <1>2 DEF TrailWritten, TrailUncut
<1>6. QED
  BY <1>3, <1>4, <1>5 DEF TrailInv

\* A step of the trail that leaves the file and what was shown of it alone.
LEMMA TrailRests ==
  ASSUME TrailInv, UNCHANGED <<lines, ended, recent, pieces, appended, sealKey>>,
         clock' \in Nat, header' = header \/ (opened' # "up" /\ header = "absent" /\ header' # "up"),
         opened' = opened \/ opened' # "up"
  PROVE  TrailInv'
<1>1. lines' = lines /\ ended' = ended /\ recent' = recent /\ pieces' = pieces /\ appended' = appended /\ sealKey' = sealKey
  OBVIOUS
<1>2. TrailTypes'
  BY <1>1 DEF TrailInv, TrailTypes
<1>3. TrailMatches'
  BY <1>1 DEF TrailInv, TrailMatches, Audit!NeverMisread
<1>4. TrailWritten'
  BY <1>1 DEF TrailInv, TrailWritten
<1>5. TrailUncut'
  BY <1>1 DEF TrailInv, TrailUncut, Shows, Audit!Whole
<1>6. QED
  BY <1>2, <1>3, <1>4, <1>5 DEF TrailInv

\* What a line holds first.
LEMMA LineTypes ==
  ASSUME TrailInv, NEW m \in 1..Len(lines)
  PROVE  lines[m] \in TrailLine /\ Len(lines[m]) \in Nat /\ Len(lines[m]) >= 1 /\ lines[m][1] \in TrailPiece
<1>1. lines[m] \in TrailLine /\ lines[m] # <<>>
  BY DEF TrailInv, TrailTypes
<1>2. Len(lines[m]) \in Nat /\ Len(lines[m]) >= 1
  <2> HIDE DEF TrailPiece
  <2>1. QED
    BY <1>1 DEF TrailLine
<1>3. lines[m][1] \in TrailPiece
  <2> HIDE DEF TrailPiece
  <2>1. QED
    BY <1>1, <1>2 DEF TrailLine
<1>4. QED
  BY <1>1, <1>2, <1>3

(* A piece written: the rest of the file is as it was, and a file that is       *)
(* uncut now was uncut, had its newline, and has one line more.                *)
LEMMA PieceAdded ==
  ASSUME TrailInv, NEW p \in TrailPiece, lines' = Audit!Written(p), ended' \in BOOLEAN
  PROVE  /\ lines' \in Seq(TrailLine) /\ lines' # <<>>
         /\ \A i \in 1..Len(lines') : lines'[i] # <<>>
         /\ \A m \in 1..Len(lines) : \A j \in 1..Len(lines[m]) :
               m \in 1..Len(lines') /\ j \in 1..Len(lines'[m]) /\ lines'[m][j] = lines[m][j]
         /\ \E m \in 1..Len(lines') : \E j \in 1..Len(lines'[m]) : lines'[m][j] = p
         /\ Audit!Whole' => /\ Audit!Whole /\ ended /\ p.whole /\ Len(lines') = Len(lines) + 1
                            /\ lines'[Len(lines) + 1] = <<p>>
                            /\ \A i \in 1..Len(lines) : lines'[i] = lines[i]
         /\ \A i \in 1..Len(lines') : Len(lines'[i]) = 1 =>
               (i \in 1..Len(lines) /\ lines'[i] = lines[i]) \/ (i = Len(lines) + 1 /\ lines'[i] = <<p>>)
<1>1. /\ lines \in Seq(TrailLine) /\ Len(lines) \in Nat /\ (lines = <<>> => ended) /\ ended \in BOOLEAN
      /\ \A i \in 1..Len(lines) : lines[i] # <<>>
  <2> HIDE DEF TrailLine
  <2>1. QED
    BY DEF TrailInv, TrailTypes
<1>2. \A m \in 1..Len(lines) : lines[m] \in Seq(TrailPiece) /\ Len(lines[m]) \in Nat /\ Len(lines[m]) >= 1
  BY LineTypes DEF TrailLine
<1>3. /\ lines' \in Seq(TrailLine)
      /\ ended => /\ Len(lines') = Len(lines) + 1
                  /\ \A i \in 1..Len(lines) : lines'[i] = lines[i]
                  /\ lines'[Len(lines) + 1] = <<p>>
      /\ ~ended => /\ Len(lines') = Len(lines) /\ Len(lines) \in 1..Len(lines)
                   /\ \A i \in 1..Len(lines) : i # Len(lines) => lines'[i] = lines[i]
                   /\ lines'[Len(lines)] = Append(lines[Len(lines)], p)
  BY <1>1, WrittenIs
<1>4. Len(<<p>>) = 1 /\ <<p>>[1] = p /\ <<p>> # <<>>
  OBVIOUS
<1>5. CASE ended
  <2>1. /\ Len(lines') = Len(lines) + 1 /\ lines'[Len(lines) + 1] = <<p>>
        /\ \A i \in 1..Len(lines) : lines'[i] = lines[i]
    BY <1>3, <1>5
  <2>2. \A i \in 1..Len(lines') : i \in 1..Len(lines) \/ i = Len(lines) + 1
    BY <1>1, <2>1
  <2>3. \A m \in 1..Len(lines) : m \in 1..Len(lines')
    BY <1>1, <2>1
  <2>4. Len(lines) + 1 \in 1..Len(lines')
    BY <1>1, <2>1
  <2> HIDE DEF TrailLine, TrailPiece
  <2>5. \A i \in 1..Len(lines') : lines'[i] # <<>>
    BY <1>1, <1>4, <2>1, <2>2
  <2>6. \E m \in 1..Len(lines') : \E j \in 1..Len(lines'[m]) : lines'[m][j] = p
    <3>1. 1 \in 1..Len(lines'[Len(lines) + 1]) /\ lines'[Len(lines) + 1][1] = p
      BY <1>4, <2>1
    <3>2. QED
      BY <2>4, <3>1
  <2>7. \A i \in 1..Len(lines') : (i \in 1..Len(lines) /\ lines'[i] = lines[i]) \/ (i = Len(lines) + 1 /\ lines'[i] = <<p>>)
    BY <2>1, <2>2
  <2>8. ASSUME Audit!Whole' PROVE Audit!Whole /\ p.whole
    <3>1. DOMAIN lines = 1..Len(lines) /\ DOMAIN lines' = 1..Len(lines')
      BY <1>1, <1>3
    <3>2. \A i \in 1..Len(lines') : Len(lines'[i]) = 1 /\ lines'[i][1].whole
      BY <2>8, <3>1 DEF Audit!Whole
    <3>3. \A i \in 1..Len(lines) : Len(lines[i]) = 1 /\ lines[i][1].whole
      BY <2>1, <2>3, <3>2
    <3>4. p.whole
      BY <1>4, <2>1, <2>4, <3>2
    <3>5. QED
      BY <3>1, <3>3, <3>4 DEF Audit!Whole
  <2>9. lines' # <<>>
    BY <1>1, <1>3, <2>1
  <2>10. \A m \in 1..Len(lines) : \A j \in 1..Len(lines[m]) :
            m \in 1..Len(lines') /\ j \in 1..Len(lines'[m]) /\ lines'[m][j] = lines[m][j]
    BY <2>1, <2>3
  <2>11. QED
    BY <1>3, <1>5, <2>1, <2>5, <2>6, <2>7, <2>8, <2>9, <2>10
<1>6. CASE ~ended
  <2> DEFINE n == Len(lines)
  <2>1. /\ Len(lines') = n /\ n \in 1..n /\ lines'[n] = Append(lines[n], p)
        /\ \A i \in 1..n : i # n => lines'[i] = lines[i]
    BY <1>3, <1>6
  <2>2. /\ Len(lines'[n]) = Len(lines[n]) + 1 /\ lines'[n][Len(lines[n]) + 1] = p
        /\ \A j \in 1..Len(lines[n]) : lines'[n][j] = lines[n][j]
        /\ lines[n] \in Seq(TrailPiece) /\ Len(lines[n]) \in Nat /\ Len(lines[n]) >= 1
    <3>1. lines[n] \in Seq(TrailPiece) /\ Len(lines[n]) \in Nat /\ Len(lines[n]) >= 1
      BY <1>2, <2>1
    <3> HIDE DEF TrailPiece, n
    <3>2. QED
      BY <2>1, <3>1
  <2> HIDE DEF n, TrailPiece, TrailLine
  <2>3. \A i \in 1..Len(lines') : lines'[i] # <<>>
    <3>1. lines'[n] # <<>>
      BY <2>1, <2>2
    <3>2. QED
      BY <1>1, <2>1, <3>1 DEF n
  <2>4. \A m \in 1..n : \A j \in 1..Len(lines[m]) : j \in 1..Len(lines'[m]) /\ lines'[m][j] = lines[m][j]
    BY <2>1, <2>2
  <2>5. \E m \in 1..Len(lines') : \E j \in 1..Len(lines'[m]) : lines'[m][j] = p
    <3>1. Len(lines[n]) + 1 \in 1..Len(lines'[n])
      BY <2>2
    <3>2. QED
      BY <2>1, <2>2, <3>1
  <2>6. ~Audit!Whole'
    <3>1. n \in DOMAIN lines' /\ Len(lines'[n]) # 1
      BY <1>3, <2>1, <2>2
    <3>2. QED
      BY <3>1 DEF Audit!Whole
  <2>7. \A i \in 1..Len(lines') : Len(lines'[i]) = 1 => i \in 1..n /\ lines'[i] = lines[i]
    BY <2>1, <2>2
  <2>8. lines' # <<>>
    BY <1>3, <2>1
  <2>9. QED
    BY <1>3, <2>1, <2>3, <2>4, <2>5, <2>6, <2>7, <2>8 DEF n
<1>7. QED
  BY <1>1, <1>5, <1>6

\* The parts of the invariant every write keeps, whatever becomes of its answer.
LEMMA WriteKeepsFile ==
  ASSUME Audit!TrailAssumption, TrailInv, NEW p \in TrailPiece, lines' = Audit!Written(p), ended' \in BOOLEAN,
         p.entry.id = pieces + 1, pieces' = pieces + 1, p.under = sealKey,
         opened = "up", header' = header, sealKey' = sealKey, clock' = clock,
         recent' \in Seq(TrailEntry),
         appended' = appended \/ appended' = Append(appended, p.entry)
  PROVE  /\ TrailTypes' /\ TrailMatches' /\ TrailWritten'
         /\ Audit!Whole' => pieces' = Len(lines') /\ \A i \in 1..Len(lines') : lines'[i][1].entry.id = i
<1>1. /\ lines' \in Seq(TrailLine) /\ lines' # <<>>
      /\ \A i \in 1..Len(lines') : lines'[i] # <<>>
      /\ \A m \in 1..Len(lines) : \A j \in 1..Len(lines[m]) :
            m \in 1..Len(lines') /\ j \in 1..Len(lines'[m]) /\ lines'[m][j] = lines[m][j]
      /\ \E m \in 1..Len(lines') : \E j \in 1..Len(lines'[m]) : lines'[m][j] = p
      /\ \A i \in 1..Len(lines') : Len(lines'[i]) = 1 =>
            (i \in 1..Len(lines) /\ lines'[i] = lines[i]) \/ (i = Len(lines) + 1 /\ lines'[i] = <<p>>)
  BY PieceAdded
<1>2. Audit!Whole' => /\ Audit!Whole /\ ended /\ p.whole /\ Len(lines') = Len(lines) + 1
                      /\ lines'[Len(lines) + 1] = <<p>>
                      /\ \A i \in 1..Len(lines) : lines'[i] = lines[i]
  BY PieceAdded
<1>3. p.entry \in TrailEntry /\ pieces \in Nat /\ appended \in Seq(TrailEntry) /\ Len(lines) \in Nat
  BY DEF TrailInv, TrailTypes, TrailPiece
<1>4. appended' \in Seq(TrailEntry)
  <2> HIDE DEF TrailEntry
  <2>1. QED
    BY <1>3
<1>5. TrailTypes'
  <2> HIDE DEF TrailEntry, TrailLine
  <2>1. TrailEntry' = TrailEntry /\ TrailLine' = TrailLine
    BY DEF TrailEntry, TrailLine, TrailPiece
  <2>2. QED
    BY <1>1, <1>3, <1>4 DEF TrailInv, TrailTypes
<1>6. TrailMatches'
  <2>1. header \in Projects /\ header # "absent" /\ header' = header
    BY DEF TrailInv, TrailMatches, Audit!TrailAssumption
  <2>2. ASSUME NEW i \in DOMAIN lines', \A j \in 1..i : Len(lines'[j]) = 1 /\ lines'[j][1].whole
        PROVE  lines'[i][1].under \in {NoKey, sealKey'}
    <3>1. i \in 1..Len(lines') /\ i \in 1..i
      BY <1>1
    <3>2. \A j \in 1..i : j \in 1..Len(lines')
      BY <1>1, <3>1
    <3>3. CASE i = Len(lines) + 1 /\ lines'[i] = <<p>>
      BY <3>3
    <3>4. CASE i \in 1..Len(lines) /\ lines'[i] = lines[i]
      <4>1. \A j \in 1..i : j \in 1..Len(lines) /\ lines'[j] = lines[j]
        BY <1>1, <1>3, <2>2, <3>2, <3>4
      <4>2. i \in DOMAIN lines
        BY <3>4 DEF TrailInv, TrailTypes
      <4>3. \A j \in 1..i : Len(lines[j]) = 1 /\ lines[j][1].whole
        BY <2>2, <4>1
      <4>4. lines[i][1].under \in {NoKey, sealKey}
        BY <4>2, <4>3 DEF TrailInv, TrailMatches, Audit!NeverMisread
      <4>5. QED
        BY <3>4, <4>4
    <3>5. QED
      BY <1>1, <2>2, <3>1, <3>3, <3>4
  <2>3. QED
    BY <2>1, <2>2 DEF TrailMatches, Audit!NeverMisread
<1>7. TrailWritten'
  <2>1. \A i \in 1..Len(appended) : \E m \in 1..Len(lines') : \E j \in 1..Len(lines'[m]) :
           lines'[m][j].entry = appended[i]
    <3>1. SUFFICES ASSUME NEW i \in 1..Len(appended)
                   PROVE  \E m \in 1..Len(lines') : \E j \in 1..Len(lines'[m]) : lines'[m][j].entry = appended[i]
      OBVIOUS
    <3>a. PICK m \in 1..Len(lines) : \E j \in 1..Len(lines[m]) : lines[m][j].entry = appended[i]
      BY DEF TrailInv, TrailWritten
    <3>2. PICK j \in 1..Len(lines[m]) : lines[m][j].entry = appended[i]
      BY <3>a
    <3>3. m \in 1..Len(lines') /\ j \in 1..Len(lines'[m]) /\ lines'[m][j] = lines[m][j]
      BY <1>1, <3>2
    <3>4. QED
      BY <3>2, <3>3
  <2>2. /\ \A i \in 1..Len(appended) : appended[i].id <= pieces /\ appended[i].id \in Nat
        /\ \A i, j \in 1..Len(appended) : i < j => appended[i].id < appended[j].id
    <3>1. \A i \in 1..Len(appended) : appended[i] \in TrailEntry
      <4> HIDE DEF TrailEntry
      <4>1. QED
        BY <1>3
    <3>2. \A i \in 1..Len(appended) : appended[i].id \in Nat
      BY <3>1 DEF TrailEntry
    <3>3. QED
      BY <3>2 DEF TrailInv, TrailWritten
  <2>3. \E m \in 1..Len(lines') : \E j \in 1..Len(lines'[m]) : lines'[m][j].entry = p.entry
    BY <1>1
  <2>4. CASE appended' = appended
    <3>1. /\ \A i \in 1..Len(appended) : appended[i].id <= pieces'
          /\ \A i, j \in 1..Len(appended) : i < j => appended[i].id < appended[j].id
      BY <1>3, <2>2
    <3>2. QED
      BY <2>1, <2>4, <3>1 DEF TrailWritten
  <2>5. CASE appended' = Append(appended, p.entry)
    <3> DEFINE n == Len(appended)
    <3>1. /\ Len(appended') = n + 1 /\ n \in Nat /\ appended'[n + 1] = p.entry
          /\ \A i \in 1..n : appended'[i] = appended[i]
      <4> HIDE DEF TrailEntry
      <4>1. QED
        BY <1>3, <2>5
    <3>2. \A i \in 1..Len(appended') : i \in 1..n \/ i = n + 1
      BY <3>1
    <3>3. \A i \in 1..Len(appended') : \E m \in 1..Len(lines') : \E j \in 1..Len(lines'[m]) :
             lines'[m][j].entry = appended'[i]
      <4> SUFFICES ASSUME NEW i \in 1..Len(appended')
          PROVE  \E m \in 1..Len(lines') : \E j \in 1..Len(lines'[m]) : lines'[m][j].entry = appended'[i]
        OBVIOUS
      <4>1. CASE i \in 1..n
        BY <2>1, <3>1, <4>1
      <4>2. CASE i = n + 1
        BY <2>3, <3>1, <4>2
      <4>3. QED
        BY <3>2, <4>1, <4>2
    <3>4. \A i \in 1..Len(appended') : appended'[i].id <= pieces'
      BY <1>3, <2>2, <3>1, <3>2
    <3>5. ASSUME NEW i \in 1..Len(appended'), NEW j \in 1..Len(appended'), i < j
          PROVE  appended'[i].id < appended'[j].id
      <4>1. i \in 1..n /\ appended'[i] = appended[i]
        BY <3>1, <3>5
      <4>2. CASE j \in 1..n
        BY <2>2, <3>1, <3>5, <4>1, <4>2
      <4>3. CASE j = n + 1
        BY <1>3, <2>2, <3>1, <4>1, <4>3
      <4>4. QED
        BY <3>2, <4>2, <4>3
    <3>6. QED
      BY <3>3, <3>4, <3>5 DEF TrailWritten
  <2>6. QED
    BY <2>4, <2>5
<1>8. ASSUME Audit!Whole' PROVE pieces' = Len(lines') /\ \A i \in 1..Len(lines') : lines'[i][1].entry.id = i
  <2>1. pieces = Len(lines) /\ \A i \in 1..Len(lines) : lines[i][1].entry.id = i
    BY <1>2, <1>8 DEF TrailInv, TrailUncut
  <2>2. /\ Len(lines') = Len(lines) + 1 /\ lines'[Len(lines) + 1] = <<p>>
        /\ \A i \in 1..Len(lines) : lines'[i] = lines[i]
    BY <1>2, <1>8
  <2>3. \A i \in 1..Len(lines') : i \in 1..Len(lines) \/ i = Len(lines) + 1
    BY <1>3, <2>2
  <2>4. <<p>>[1].entry.id = Len(lines) + 1
    BY <2>1
  <2>5. QED
    BY <2>1, <2>2, <2>3, <2>4
<1>9. QED
  BY <1>5, <1>6, <1>7, <1>8

LEMMA AppendKeepsTrail ==
  ASSUME Audit!TrailAssumption, TrailInv, NEW risk \in Risks, Audit!AppendEntry(risk)
  PROVE  TrailInv'
<1> DEFINE e == Audit!NewEntry(risk)
           p == Audit!Piece(e, sealKey, TRUE)
           longer == Append(recent, e)
<1>1. /\ opened = "up" /\ opened' = opened /\ header' = header /\ sealKey' = sealKey /\ clock' = clock
      /\ lines' = Audit!Written(p) /\ ended' = TRUE /\ pieces' = pieces + 1
      /\ recent' = Audit!Window(longer) /\ appended' = Append(appended, e)
  BY DEF Audit!AppendEntry
<1>2. e \in TrailEntry /\ p \in TrailPiece /\ p.entry = e /\ p.entry.id = pieces + 1 /\ p.under = sealKey
  BY DEF Audit!NewEntry, Audit!Piece, TrailEntry, TrailPiece, TrailInv, TrailTypes
<1>3. recent \in Seq(TrailEntry) /\ Len(recent) \in Nat /\ Len(lines) \in Nat /\ WindowSize \in Nat \ {0} /\ pieces \in Nat
  <2>1. recent \in Seq(TrailEntry) /\ lines \in Seq(TrailLine) /\ WindowSize \in Nat \ {0} /\ pieces \in Nat
    BY DEF TrailInv, TrailTypes, Audit!TrailAssumption
  <2> HIDE DEF TrailEntry, TrailLine
  <2>2. QED
    BY <2>1
<1> HIDE DEF e, p, TrailEntry
<1>4. /\ longer \in Seq(TrailEntry) /\ Len(longer) = Len(recent) + 1 /\ longer[Len(recent) + 1] = e
      /\ \A i \in 1..Len(recent) : longer[i] = recent[i]
  BY <1>2, <1>3
<1> HIDE DEF longer
<1>5. /\ recent' \in Seq(TrailEntry)
      /\ Len(recent') = IF Len(longer) > WindowSize THEN WindowSize ELSE Len(longer)
      /\ \A i \in 1..Len(recent') : recent'[i] = longer[Len(longer) - Len(recent') + i]
  BY <1>1, <1>3, <1>4, WindowIs
<1>6. /\ TrailTypes' /\ TrailMatches' /\ TrailWritten'
      /\ Audit!Whole' => pieces' = Len(lines') /\ \A i \in 1..Len(lines') : lines'[i][1].entry.id = i
  <2>1. ended' \in BOOLEAN /\ (appended' = appended \/ appended' = Append(appended, p.entry))
    BY <1>1, <1>2
  <2>2. QED
    BY <1>1, <1>2, <1>5, <2>1, WriteKeepsFile
<1>7. ASSUME Audit!Whole' PROVE Shows(Len(lines))'
  <2>1. /\ Audit!Whole /\ ended /\ Len(lines') = Len(lines) + 1
        /\ lines'[Len(lines) + 1] = <<p>>
        /\ \A i \in 1..Len(lines) : lines'[i] = lines[i]
    <3>1. ended' \in BOOLEAN
      BY <1>1
    <3>2. QED
      BY <1>1, <1>2, <1>7, <3>1, PieceAdded
  <2>2. Shows(Len(lines))
    BY <1>1, <2>1 DEF TrailInv, TrailUncut
  <2>3. /\ Len(recent) <= Len(lines) /\ Len(recent) <= WindowSize
        /\ Len(recent) = Len(lines) \/ Len(recent) = WindowSize
        /\ \A i \in 1..Len(recent) : recent[i] = lines[Len(lines) - Len(recent) + i][1].entry
    BY <2>2 DEF Shows
  <2>4. /\ Len(recent') <= Len(lines') /\ Len(recent') <= WindowSize
        /\ Len(recent') = Len(lines') \/ Len(recent') = WindowSize
    <3>1. CASE Len(longer) > WindowSize
      <4>1. Len(recent') = WindowSize
        BY <1>5, <3>1
      <4>2. QED
        BY <1>3, <1>4, <2>1, <2>3, <3>1, <4>1
    <3>2. CASE ~(Len(longer) > WindowSize)
      <4>1. Len(recent') = Len(recent) + 1
        BY <1>4, <1>5, <3>2
      <4>2. Len(recent) # WindowSize
        BY <1>3, <1>4, <3>2
      <4>3. QED
        BY <1>3, <1>4, <2>1, <2>3, <3>2, <4>1, <4>2
    <3>3. QED
      BY <3>1, <3>2
  <2>5. \A i \in 1..Len(recent') : recent'[i] = lines'[Len(lines') - Len(recent') + i][1].entry
    <3>1. SUFFICES ASSUME NEW i \in 1..Len(recent')
                   PROVE  recent'[i] = lines'[Len(lines') - Len(recent') + i][1].entry
      OBVIOUS
    <3> DEFINE k == Len(longer) - Len(recent') + i
    <3>2. k \in 1..Len(longer) /\ recent'[i] = longer[k] /\ Len(lines') - Len(recent') + i = Len(lines) - Len(recent) + k
      <4>1. recent'[i] = longer[k]
        BY <1>5
      <4>2. Len(recent') \in Nat /\ Len(recent') <= Len(longer) /\ Len(longer) \in Nat /\ i \in Nat
        BY <1>3, <1>4, <1>5
      <4>3. k \in 1..Len(longer)
        BY <4>2
      <4>4. Len(lines') - Len(recent') + i = Len(lines) - Len(recent) + k
        BY <1>3, <1>4, <2>1, <4>2
      <4>5. QED
        BY <4>1, <4>3, <4>4
    <3> HIDE DEF k
    <3>3. CASE k = Len(recent) + 1
      <4>1. recent'[i] = e /\ Len(lines') - Len(recent') + i = Len(lines) + 1
        BY <1>3, <1>4, <3>2, <3>3
      <4>2. <<p>>[1].entry = e
        BY <1>2
      <4>3. QED
        BY <2>1, <4>1, <4>2
    <3>4. CASE k # Len(recent) + 1
      <4>1. k \in 1..Len(recent) /\ Len(lines) - Len(recent) + k \in 1..Len(lines)
        BY <1>3, <1>4, <2>3, <3>2, <3>4
      <4>2. recent'[i] = recent[k]
        BY <1>4, <3>2, <4>1
      <4>3. recent[k] = lines[Len(lines) - Len(recent) + k][1].entry
        BY <2>3, <4>1
      <4>4. lines'[Len(lines) - Len(recent) + k] = lines[Len(lines) - Len(recent) + k]
        BY <2>1, <4>1
      <4>5. QED
        BY <3>2, <4>2, <4>3, <4>4
    <3>5. QED
      BY <3>3, <3>4
  <2>6. QED
    BY <2>4, <2>5 DEF Shows
<1>8. TrailUncut'
  BY <1>6, <1>7 DEF TrailUncut
<1>9. QED
  BY <1>6, <1>8 DEF TrailInv

LEMMA CutKeepsTrail ==
  ASSUME Audit!TrailAssumption, TrailInv, NEW risk \in Risks, NEW whole \in BOOLEAN,
         opened = "up", pieces' = pieces + 1, ended' \in BOOLEAN,
         lines' = Audit!Written(Audit!Piece(Audit!NewEntry(risk), sealKey, whole)),
         opened' = "down" \/ (opened' = "up" /\ ended' = FALSE),
         UNCHANGED <<header, sealKey, recent, clock, appended>>
  PROVE  TrailInv'
<1> DEFINE e == Audit!NewEntry(risk)
           p == Audit!Piece(e, sealKey, whole)
<1>1. e \in TrailEntry /\ p \in TrailPiece /\ p.entry = e /\ p.entry.id = pieces + 1 /\ p.under = sealKey
  BY DEF Audit!NewEntry, Audit!Piece, TrailEntry, TrailPiece, TrailInv, TrailTypes
<1>2. lines' = Audit!Written(p)
  OBVIOUS
<1> HIDE DEF e, p, TrailEntry
<1>3. recent \in Seq(TrailEntry) /\ Len(recent) \in Nat /\ Len(lines) \in Nat /\ pieces \in Nat
  <2>1. recent \in Seq(TrailEntry) /\ lines \in Seq(TrailLine) /\ pieces \in Nat
    BY DEF TrailInv, TrailTypes
  <2> HIDE DEF TrailLine
  <2>2. QED
    BY <2>1
<1>4. header' = header /\ sealKey' = sealKey /\ recent' = recent /\ clock' = clock /\ appended' = appended
  OBVIOUS
<1>5. /\ TrailTypes' /\ TrailMatches' /\ TrailWritten'
      /\ Audit!Whole' => pieces' = Len(lines') /\ \A i \in 1..Len(lines') : lines'[i][1].entry.id = i
  BY <1>1, <1>2, <1>3, <1>4, WriteKeepsFile
<1>6. ASSUME Audit!Whole', opened' = "up"
      PROVE  /\ ~ended' /\ Len(lines') >= 1 /\ Shows(Len(lines) - 1)'
             /\ \A i \in 1..Len(appended') : appended'[i].id # Len(lines')
  <2>1. /\ Audit!Whole /\ ended /\ Len(lines') = Len(lines) + 1
        /\ \A i \in 1..Len(lines) : lines'[i] = lines[i]
    BY <1>1, <1>2, <1>6, PieceAdded
  <2>2. Shows(Len(lines)) /\ pieces = Len(lines)
    BY <2>1 DEF TrailInv, TrailUncut
  <2>3. ~ended'
    BY <1>6
  <2>4. Len(lines') - 1 = Len(lines) /\ Len(lines') >= 1
    BY <1>3, <2>1
  <2>5. /\ Len(recent) <= Len(lines) /\ Len(recent) <= WindowSize
        /\ Len(recent) = Len(lines) \/ Len(recent) = WindowSize
        /\ \A i \in 1..Len(recent) : recent[i] = lines[Len(lines) - Len(recent) + i][1].entry
    BY <2>2 DEF Shows
  <2>6. \A i \in 1..Len(recent) : Len(lines) - Len(recent) + i \in 1..Len(lines)
    BY <1>3, <2>5
  <2>7. \A i \in 1..Len(recent') : recent'[i] = lines'[(Len(lines') - 1) - Len(recent') + i][1].entry
    BY <1>4, <2>1, <2>4, <2>5, <2>6
  <2>8. Shows(Len(lines) - 1)'
    BY <1>4, <2>4, <2>5, <2>7 DEF Shows
  <2>9. \A i \in 1..Len(appended) : appended[i].id <= Len(lines) /\ appended[i].id \in Nat
    <3>1. \A i \in 1..Len(appended) : appended[i] \in TrailEntry
      BY DEF TrailInv, TrailTypes
    <3>2. \A i \in 1..Len(appended) : appended[i].id \in Nat
      BY <3>1 DEF TrailEntry
    <3>3. QED
      BY <2>2, <3>2 DEF TrailInv, TrailWritten
  <2>10. QED
    BY <1>3, <1>4, <2>1, <2>3, <2>4, <2>8, <2>9
<1>7. TrailUncut'
  BY <1>5, <1>6 DEF TrailUncut
<1>8. QED
  BY <1>5, <1>7 DEF TrailInv

\* Opened again, a file shows what it reads; uncut, that is all of it.
LEMMA OpenKeepsTrail ==
  ASSUME Audit!TrailAssumption, TrailInv, NEW k \in SealKeys \cup {NoKey}, NEW project \in Projects,
         Audit!Open(k, project)
  PROVE  TrailInv'
<1>1. /\ lines' = lines /\ ended' = ended /\ clock' = clock /\ pieces' = pieces /\ appended' = appended
      /\ opened # "up"
  BY DEF Audit!Open
<1>2. /\ Audit!Whole' <=> Audit!Whole
      /\ Audit!Whole => pieces = Len(lines) /\ \A i \in 1..Len(lines) : lines[i][1].entry.id = i
  BY <1>1 DEF TrailInv, TrailUncut, Audit!Whole
<1>3. TrailWritten'
  BY <1>1 DEF TrailInv, TrailWritten
<1>4. lines \in Seq(TrailLine) /\ recent \in Seq(TrailEntry) /\ Len(lines) \in Nat /\ DOMAIN lines = 1..Len(lines)
  <2>1. lines \in Seq(TrailLine) /\ recent \in Seq(TrailEntry)
    BY DEF TrailInv, TrailTypes
  <2> HIDE DEF TrailLine
  <2>2. QED
    BY <2>1
<1>5. CASE header = "absent"
  <2>1. lines = <<>> /\ opened' = "up" /\ sealKey' = k /\ recent' = <<>> /\ header' = project
    BY <1>5 DEF Audit!Open, TrailInv, TrailMatches
  <2>2. Len(lines) = 0 /\ 1..0 = {}
    BY <2>1
  <2>3. TrailTypes'
    <3>1. recent' \in Seq(TrailEntry)
      BY <2>1
    <3>2. QED
      BY <1>1, <2>1, <3>1 DEF TrailInv, TrailTypes
  <2>4. TrailMatches'
    BY <1>1, <1>4, <2>1, <2>2 DEF TrailMatches, Audit!NeverMisread
  <2>5. Shows(Len(lines))'
    <3>1. Len(recent') = 0 /\ WindowSize \in Nat
      BY <2>1 DEF Audit!TrailAssumption
    <3>2. QED
      BY <1>1, <2>2, <3>1 DEF Shows
  <2>6. TrailUncut'
    BY <1>1, <1>2, <2>5 DEF TrailUncut
  <2>7. QED
    BY <1>3, <2>3, <2>4, <2>6 DEF TrailInv
<1>6. CASE header # "absent" /\ opened' # "up"
  <2>1. sealKey' = sealKey /\ recent' = recent /\ header' = header
    BY <1>6 DEF Audit!Open, Audit!memory
  <2>2. QED
    BY <1>1, <1>6, <2>1, TrailRests DEF TrailInv, TrailTypes
<1>7. CASE header # "absent" /\ opened' = "up"
  <2> DEFINE n == Audit!Readable(k)
             read == Audit!EntriesRead(k)
  <2>1. /\ Audit!Outcome(k, project) = "up" /\ sealKey' = k /\ recent' = Audit!Window(read) /\ header' = header
    BY <1>7 DEF Audit!Open
  <2>2. header \in Projects /\ ~(n < Len(lines) /\ Audit!ReadLine(lines[n + 1], k) = "wrongkey")
    <3>1. header \notin {"empty", "torn"}
      BY <2>1 DEF Audit!Outcome
    <3>2. header = project
      BY <2>1, <3>1 DEF Audit!Outcome
    <3>3. QED
      BY <2>1, <3>1, <3>2 DEF Audit!Outcome
  <2>3. /\ n \in 0..Len(lines) /\ \A i \in 1..n : Audit!ReadLine(lines[i], k) = "entry"
        /\ n < Len(lines) => Audit!ReadLine(lines[n + 1], k) # "entry"
    BY <1>4, ReadableIs
  <2> HIDE DEF n
  <2>4. \A line : Len(line) = 1 /\ line[1].whole =>
          /\ Audit!ReadLine(line, k) \in {"wrongkey", "entry"}
          /\ Audit!ReadLine(line, k) = "entry" => line[1].under \in {NoKey, k}
    BY DEF Audit!ReadLine
  <2>5. ASSUME NEW i \in DOMAIN lines, \A j \in 1..i : Len(lines[j]) = 1 /\ lines[j][1].whole
        PROVE  i <= n /\ lines[i][1].under \in {NoKey, k}
    <3>1. i \in 1..Len(lines) /\ i \in 1..i
      BY <1>4
    <3>2. i <= n
      <4>1. ASSUME n < i PROVE FALSE
        <5>1. n < Len(lines) /\ n + 1 \in 1..i
          BY <1>4, <2>3, <3>1, <4>1
        <5>2. Len(lines[n + 1]) = 1 /\ lines[n + 1][1].whole
          BY <2>5, <5>1
        <5>3. Audit!ReadLine(lines[n + 1], k) \in {"wrongkey", "entry"}
          BY <2>4, <5>2
        <5>4. QED
          BY <2>2, <2>3, <5>1, <5>3
      <4>2. QED
        BY <1>4, <2>3, <3>1, <4>1
    <3>3. i \in 1..n
      BY <1>4, <2>3, <3>1, <3>2
    <3>4. QED
      BY <2>3, <2>4, <2>5, <3>1, <3>2, <3>3
  <2>6. read = [i \in 1..n |-> lines[i][1].entry] /\ \A i \in 1..n : lines[i][1].entry \in TrailEntry
    <3>1. \A i \in 1..n : i \in 1..Len(lines)
      BY <1>4, <2>3
    <3>2. \A i \in 1..n : lines[i][1] \in TrailPiece
      BY <3>1, LineTypes
    <3>3. read = [i \in 1..n |-> lines[i][1].entry]
      BY DEF Audit!EntriesRead, n
    <3>4. QED
      BY <3>2, <3>3 DEF TrailPiece
  <2> HIDE DEF read
  <2>7. read \in Seq(TrailEntry) /\ Len(read) = n /\ \A i \in 1..n : read[i] = lines[i][1].entry
    <3> HIDE DEF TrailEntry
    <3>1. n \in Nat
      BY <1>4, <2>3
    <3>2. QED
      BY <2>6, <3>1
  <2>8. /\ recent' \in Seq(TrailEntry)
        /\ Len(recent') = IF n > WindowSize THEN WindowSize ELSE n
        /\ \A i \in 1..Len(recent') : recent'[i] = read[n - Len(recent') + i]
    <3> HIDE DEF TrailEntry
    <3>1. WindowSize \in Nat \ {0}
      BY DEF Audit!TrailAssumption
    <3>2. QED
      BY <2>1, <2>7, <3>1, WindowIs
  <2>9. TrailTypes'
    BY <1>1, <2>1, <2>8 DEF TrailInv, TrailTypes
  <2>10. TrailMatches'
    <3>1. \A i \in DOMAIN lines : (\A j \in 1..i : Len(lines[j]) = 1 /\ lines[j][1].whole)
                                     => lines[i][1].under \in {NoKey, k}
      BY <2>5
    <3>2. QED
      BY <1>1, <1>7, <2>1, <2>2, <3>1 DEF TrailMatches, Audit!NeverMisread
  <2>11. ASSUME Audit!Whole PROVE Shows(Len(lines))'
    <3>1. n = Len(lines)
      <4>1. CASE Len(lines) = 0
        BY <2>3, <4>1
      <4>2. CASE Len(lines) # 0
        <5>1. Len(lines) \in DOMAIN lines /\ \A j \in 1..Len(lines) : j \in DOMAIN lines
          BY <1>4, <4>2
        <5>2. Len(lines) <= n
          BY <2>5, <2>11, <5>1 DEF Audit!Whole
        <5>3. n \in 0..Len(lines)
          BY <2>3
        <5>4. Len(lines) \in Nat
          BY <1>4
        <5>5. QED
          BY ONLY <5>2, <5>3, <5>4
      <4>3. QED
        BY <4>1, <4>2
    <3>2. WindowSize \in Nat \ {0} /\ n \in Nat
      BY <1>4, <3>1 DEF Audit!TrailAssumption
    <3>3. /\ Len(recent') <= n /\ Len(recent') <= WindowSize /\ (Len(recent') = n \/ Len(recent') = WindowSize)
          /\ Len(recent') \in Nat
      BY <2>8, <3>2
    <3>4. \A i \in 1..Len(recent') : recent'[i] = lines[n - Len(recent') + i][1].entry
      <4>1. \A i \in 1..Len(recent') : n - Len(recent') + i \in 1..n
        BY <3>2, <3>3
      <4>2. QED
        BY <2>7, <2>8, <4>1
    <3>5. QED
      BY <1>1, <3>1, <3>3, <3>4 DEF Shows
  <2>12. TrailUncut'
    BY <1>1, <1>2, <2>11 DEF TrailUncut
  <2>13. QED
    BY <1>3, <2>9, <2>10, <2>12 DEF TrailInv
<1>8. QED
  BY <1>5, <1>6, <1>7

LEMMA TrailInvNext ==
  ASSUME Audit!TrailAssumption, TrailInv, [Audit!Next]_(Audit!vars)
  PROVE  TrailInv'
<1>1. ASSUME NEW k \in SealKeys \cup {NoKey}, NEW p \in Projects, Audit!Open(k, p) PROVE TrailInv'
  BY <1>1, OpenKeepsTrail
<1>2. ASSUME NEW left \in {"empty", "torn"}, Audit!DieCreating(left) PROVE TrailInv'
  <2>1. /\ UNCHANGED <<lines, ended, recent, pieces, appended, sealKey>> /\ clock' = clock
        /\ opened = "down" /\ opened' = opened /\ header = "absent" /\ header' = left
    BY <1>2 DEF Audit!DieCreating, Audit!memory
  <2>2. QED
    BY <2>1, TrailRests DEF TrailInv, TrailTypes
<1>3. ASSUME NEW r \in Risks, Audit!AppendEntry(r) PROVE TrailInv'
  BY <1>3, AppendKeepsTrail
<1>4. ASSUME NEW r \in Risks, NEW whole \in BOOLEAN, NEW dies \in BOOLEAN, Audit!CutShort(r, whole, dies) PROVE TrailInv'
  <2>1. /\ opened = "up" /\ pieces' = pieces + 1 /\ ended' = FALSE
        /\ lines' = Audit!Written(Audit!Piece(Audit!NewEntry(r), sealKey, whole))
        /\ opened' = "down" \/ opened' = "up"
        /\ UNCHANGED <<header, sealKey, recent, clock, appended>>
    BY <1>4 DEF Audit!CutShort, Audit!memory
  <2>2. QED
    BY <2>1, CutKeepsTrail
<1>5. ASSUME NEW r \in Risks, Audit!Unanswered(r) PROVE TrailInv'
  <2>1. /\ opened = "up" /\ pieces' = pieces + 1 /\ ended' = TRUE /\ opened' = "down"
        /\ lines' = Audit!Written(Audit!Piece(Audit!NewEntry(r), sealKey, TRUE))
        /\ UNCHANGED <<header, sealKey, recent, clock, appended>>
    BY <1>5 DEF Audit!Unanswered, Audit!memory
  <2>2. QED
    BY <2>1, CutKeepsTrail
<1>6. CASE Audit!Stop
  <2>1. /\ UNCHANGED <<lines, ended, recent, pieces, appended, sealKey, header>> /\ clock' = clock /\ opened' = "down"
    BY <1>6 DEF Audit!Stop, Audit!memory, Audit!disk
  <2>2. QED
    BY <2>1, TrailRests DEF TrailInv, TrailTypes
<1>7. CASE Audit!Tick
  <2>1. /\ UNCHANGED <<lines, ended, recent, pieces, appended, sealKey, header>> /\ clock' = clock + 1 /\ opened' = opened
    BY <1>7 DEF Audit!Tick, Audit!memory, Audit!disk
  <2>2. clock' \in Nat
    BY <2>1 DEF TrailInv, TrailTypes
  <2>3. QED
    BY <2>1, <2>2, TrailRests
<1>8. CASE UNCHANGED Audit!vars
  <2>1. /\ UNCHANGED <<lines, ended, recent, pieces, appended, sealKey, header>> /\ clock' = clock /\ opened' = opened
    BY <1>8 DEF Audit!vars
  <2>2. QED
    BY <2>1, TrailRests DEF TrailInv, TrailTypes
<1>9. QED
  BY <1>1, <1>2, <1>3, <1>4, <1>5, <1>6, <1>7, <1>8 DEF Audit!Next

LEMMA TrailInvHolds ==
  ASSUME Audit!TrailAssumption, TrailInv
  PROVE  Audit!LedgersHold
<1>1. lines \in Seq(TrailLine) /\ Len(lines) \in Nat /\ DOMAIN lines = 1..Len(lines)
      /\ DOMAIN appended = 1..Len(appended) /\ DOMAIN recent = 1..Len(recent)
      /\ Len(recent) \in Nat /\ WindowSize \in Nat /\ \A i \in 1..Len(appended) : appended[i].id \in Nat
  <2>1. lines \in Seq(TrailLine) /\ appended \in Seq(TrailEntry) /\ recent \in Seq(TrailEntry)
    BY DEF TrailInv, TrailTypes
  <2>2. \A i \in 1..Len(appended) : appended[i] \in TrailEntry
    <3> HIDE DEF TrailEntry
    <3>1. QED
      BY <2>1
  <2>3. \A i \in 1..Len(appended) : appended[i].id \in Nat
    BY <2>2 DEF TrailEntry
  <2> HIDE DEF TrailEntry, TrailLine
  <2>4. QED
    BY <2>1, <2>3 DEF Audit!TrailAssumption
<1>2. ASSUME Audit!Whole
      PROVE  /\ \A i \in DOMAIN appended : Audit!LineOf(appended[i]) # {}
             /\ \A i, j \in DOMAIN appended : i < j =>
                  \A m \in Audit!LineOf(appended[i]), n \in Audit!LineOf(appended[j]) : m < n
             /\ opened = "up" => \A i \in DOMAIN appended :
                  \/ appended[i] \in {recent[j] : j \in DOMAIN recent}
                  \/ appended[i].id <= pieces - WindowSize
  <2>1. /\ \A i \in 1..Len(lines) : Len(lines[i]) = 1
        /\ pieces = Len(lines) /\ \A i \in 1..Len(lines) : lines[i][1].entry.id = i
    BY <1>1, <1>2 DEF TrailInv, TrailUncut, Audit!Whole
  <2>2. \A i \in 1..Len(appended) : \E m \in 1..Len(lines) : lines[m][1].entry = appended[i]
    <3> TAKE i \in 1..Len(appended)
    <3>1. PICK m \in 1..Len(lines) : \E j \in 1..Len(lines[m]) : lines[m][j].entry = appended[i]
      BY DEF TrailInv, TrailWritten
    <3>2. PICK j \in 1..Len(lines[m]) : lines[m][j].entry = appended[i]
      BY <3>1
    <3>3. j = 1
      BY <2>1, <3>2
    <3>4. QED
      BY <3>2, <3>3
  <2>3. \A i \in DOMAIN appended : Audit!LineOf(appended[i]) # {}
    BY <1>1, <2>2 DEF Audit!LineOf
  <2>4. ASSUME NEW i \in DOMAIN appended, NEW m \in Audit!LineOf(appended[i])
        PROVE  m = appended[i].id
    <3>1. m \in 1..Len(lines) /\ lines[m][1].entry = appended[i]
      BY <1>1, <2>4 DEF Audit!LineOf
    <3>2. QED
      BY <2>1, <3>1
  <2>5. \A i, j \in DOMAIN appended : i < j => appended[i].id < appended[j].id
    BY <1>1 DEF TrailInv, TrailWritten
  <2>6. ASSUME opened = "up", NEW i \in DOMAIN appended
        PROVE  \/ appended[i] \in {recent[j] : j \in DOMAIN recent}
               \/ appended[i].id <= pieces - WindowSize
    <3>1. PICK m \in 1..Len(lines) : lines[m][1].entry = appended[i]
      BY <1>1, <2>2
    <3>2. m = appended[i].id
      BY <2>1, <3>1
    <3>3. ASSUME NEW n \in 0..Len(lines), Shows(n), m <= n
          PROVE  \/ appended[i] \in {recent[j] : j \in DOMAIN recent}
                 \/ appended[i].id <= pieces - WindowSize
      <4> DEFINE j == m - (n - Len(recent))
      <4>1. /\ Len(recent) <= n /\ (Len(recent) = n \/ Len(recent) = WindowSize)
            /\ \A q \in 1..Len(recent) : recent[q] = lines[n - Len(recent) + q][1].entry
        BY <3>3 DEF Shows
      <4>0. n \in Nat /\ m \in Nat /\ m <= n /\ Len(recent) \in Nat /\ WindowSize \in Nat
        BY <1>1, <3>1, <3>3
      <4>2. CASE j >= 1
        <5>1. j \in 1..Len(recent) /\ n - Len(recent) + j = m
          BY ONLY <4>0, <4>1, <4>2
        <5>2. recent[j] = appended[i]
          BY <3>1, <4>1, <5>1
        <5>3. QED
          BY <1>1, <5>1, <5>2
      <4>3. CASE ~(j >= 1)
        <5>1. Len(recent) # n
          BY ONLY <4>0, <4>3
        <5>2. m <= n - WindowSize
          BY ONLY <4>0, <4>1, <4>3, <5>1
        <5>3. QED
          BY <1>1, <2>1, <3>2, <3>3, <5>2
      <4>4. QED
        BY <4>2, <4>3
    <3>4. CASE Shows(Len(lines))
      BY <1>1, <3>1, <3>3, <3>4
    <3>5. CASE /\ Len(lines) >= 1 /\ Shows(Len(lines) - 1)
               /\ \A q \in 1..Len(appended) : appended[q].id # Len(lines)
      <4>1. m # Len(lines)
        BY <1>1, <3>2, <3>5
      <4>2. Len(lines) - 1 \in 0..Len(lines) /\ m <= Len(lines) - 1
        BY <1>1, <3>1, <3>5, <4>1
      <4>3. QED
        BY <3>3, <3>5, <4>2
    <3>6. QED
      BY <1>2, <2>6, <3>4, <3>5 DEF TrailInv, TrailUncut
  <2>7. QED
    BY <2>3, <2>4, <2>5, <2>6
<1>3. Audit!AppendedSurvive
  BY <1>2 DEF Audit!AppendedSurvive
<1>4. QED
  BY <1>3 DEF TrailInv, TrailMatches, Audit!LedgersHold

(* A trail in which no line was cut keeps every entry it answered for, in       *)
(* order, and shows the latest of them; the wrong key or project is refused and *)
(* never read short (store.rs open_with_key, read_existing, append): for any    *)
(* keys, projects and capacity. This is the trail's side of LedgersHold,        *)
(* ProposalsProofs has the spend ledger's.                                      *)
THEOREM TrailKeepsWhatItAnswered ==
  ASSUME Audit!TrailAssumption
  PROVE  Audit!Spec /\ [](part = "trail") => []LedgersHold
<1>1. Audit!Init => TrailInv
  BY TrailInvInit
<1>2. TrailInv /\ [Audit!Next]_(Audit!vars) => TrailInv'
  BY TrailInvNext
<1>3. TrailInv /\ part = "trail" => LedgersHold
  BY TrailInvHolds DEF LedgersHold
<1>4. QED
  BY <1>1, <1>2, <1>3, PTL DEF Audit!Spec
=============================================================================
