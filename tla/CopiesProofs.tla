---------------------------- MODULE CopiesProofs ----------------------------
(***************************************************************************)
(* Proofs about copies of the data that are kept apart, for every value of   *)
(* the constants: the CRDT states of branches (Crdt), the logs of replicas   *)
(* that exchange them, the read caches of Scribe's handles, and what a       *)
(* binding's session has of the server's stream (ReaderParts). Each section  *)
(* has what merging, updating or reading a copy does, the inductive          *)
(* invariant, and the theorems.                                              *)
(***************************************************************************)
EXTENDS Crdt, ReaderParts, Integers, SequencesExt, FiniteSets, TLAPS,
        FiniteSetTheorems, SequenceTheorems, WellFoundedInduction

-----------------------------------------------------------------------------
(* CRDT types                                                               *)

Tallies == [Branches -> Nat]
Counters == [positive : Tallies, negative : Tallies]

LEMMA MaxIsMerge ==
    ASSUME NEW f \in Tallies, NEW g \in Tallies, NEW h \in Tallies
    PROVE  /\ PerReplicaMax(f, g) \in Tallies
           /\ PerReplicaMax(f, g) = PerReplicaMax(g, f)
           /\ PerReplicaMax(f, PerReplicaMax(g, h)) = PerReplicaMax(PerReplicaMax(f, g), h)
           /\ PerReplicaMax(f, f) = f
  BY DEF Tallies, PerReplicaMax, Larger

(* Merging counters is commutative, associative and idempotent (the promise  *)
(* of Crdt::merge).                                                          *)
THEOREM CounterMerge ==
    ASSUME NEW a \in Counters, NEW b \in Counters, NEW c \in Counters
    PROVE  /\ MergeCounters(a, b) \in Counters
           /\ MergeCounters(a, b) = MergeCounters(b, a)
           /\ MergeCounters(a, MergeCounters(b, c)) = MergeCounters(MergeCounters(a, b), c)
           /\ MergeCounters(a, a) = a
<1>1. {a.positive, b.positive, c.positive, a.negative, b.negative, c.negative} \subseteq Tallies
  BY DEF Counters
<1>2. a = [positive |-> a.positive, negative |-> a.negative]
  BY DEF Counters
<1> QED
  BY <1>1, <1>2, MaxIsMerge DEF Counters, MergeCounters

Tags == Branches \X Nat
Sets == [adds : SUBSET (Elements \X Tags), removed : SUBSET Tags, next : Nat]

(* Merging observed-remove sets is commutative, associative and idempotent.  *)
THEOREM SetMerge ==
    ASSUME NEW a \in Sets, NEW b \in Sets, NEW c \in Sets
    PROVE  /\ MergeSets(a, b) \in Sets
           /\ MergeSets(a, b) = MergeSets(b, a)
           /\ MergeSets(a, MergeSets(b, c)) = MergeSets(MergeSets(a, b), c)
           /\ MergeSets(a, a) = a
<1>1. a = [adds |-> a.adds, removed |-> a.removed, next |-> a.next]
  BY DEF Sets
<1>2. {a.next, b.next, c.next} \subseteq Nat
  BY DEF Sets
<1>3. \A m, n, k \in Nat : /\ Larger(m, n) \in Nat
                           /\ Larger(m, n) = Larger(n, m)
                           /\ Larger(m, Larger(n, k)) = Larger(Larger(m, n), k)
                           /\ Larger(m, m) = m
  BY DEF Larger
<1>4. MergeSets(a, b) \in Sets
  BY <1>2, <1>3 DEF Sets, MergeSets
<1>5. \A X, Y, Z : /\ X \cup Y = Y \cup X
                   /\ X \cup (Y \cup Z) = (X \cup Y) \cup Z
                   /\ X \cup X = X
  OBVIOUS
<1>6. MergeSets(a, b) = MergeSets(b, a)
  BY <1>2, <1>3, <1>5 DEF MergeSets
<1>7. MergeSets(a, MergeSets(b, c)) = MergeSets(MergeSets(a, b), c)
  <2>1. Larger(a.next, Larger(b.next, c.next)) = Larger(Larger(a.next, b.next), c.next)
    BY <1>2, <1>3
  <2> QED
    BY <2>1, <1>5 DEF MergeSets
<1>8. MergeSets(a, a) = a
  <2>1. Larger(a.next, a.next) = a.next
    BY <1>2, <1>3
  <2> QED
    BY <2>1, <1>1, <1>5 DEF MergeSets
<1> QED
  BY <1>4, <1>6, <1>7, <1>8

Stamps == Nat \X Branches \X Nat
Written == [stamp : Stamps, value : Elements]

LEMMA StampsTotal ==
    ASSUME NEW s \in Stamps, NEW t \in Stamps, NEW u \in Stamps
    PROVE  /\ ~StampLess(s, s)
           /\ StampLess(s, t) \/ StampLess(t, s) \/ s = t
           /\ StampLess(s, t) => ~StampLess(t, s)
           /\ StampLess(s, t) /\ StampLess(t, u) => StampLess(s, u)
<1>1. /\ s[1] \in Nat /\ s[2] \in Nat /\ s[3] \in Nat
      /\ t[1] \in Nat /\ t[2] \in Nat /\ t[3] \in Nat
      /\ u[1] \in Nat /\ u[2] \in Nat /\ u[3] \in Nat
  BY BranchesAssumption DEF Stamps
<1>2. s = <<s[1], s[2], s[3]>> /\ t = <<t[1], t[2], t[3]>>
  BY DEF Stamps
<1>3. \A p, q : StampLess(p, q) <=>
        p[1] < q[1] \/ (p[1] = q[1] /\ (p[2] < q[2] \/ (p[2] = q[2] /\ p[3] < q[3])))
  BY DEF StampLess, IdLess
<1>4. ~StampLess(s, s) /\ (StampLess(s, t) => ~StampLess(t, s))
  BY <1>1, <1>3
<1>5. StampLess(s, t) \/ StampLess(t, s) \/ s = t
  BY <1>1, <1>2, <1>3
<1>6. StampLess(s, t) /\ StampLess(t, u) => StampLess(s, u)
  BY <1>1, <1>3
<1> QED
  BY <1>4, <1>5, <1>6

(* Merging registers that were written is idempotent and associative, and    *)
(* commutative as long as no stamp was given to two values (the invariant    *)
(* WriteStamp states).                                                       *)
THEOREM RegisterMerge ==
    ASSUME NEW a \in Written, NEW b \in Written, NEW c \in Written
    PROVE  /\ MergeRegisters(a, b) \in Written
           /\ (a.stamp = b.stamp => a = b) => MergeRegisters(a, b) = MergeRegisters(b, a)
           /\ MergeRegisters(a, MergeRegisters(b, c)) = MergeRegisters(MergeRegisters(a, b), c)
           /\ MergeRegisters(a, a) = a
<1>1. \A g \in Written : g.stamp \in Stamps /\ g.stamp # None /\ g = [stamp |-> g.stamp, value |-> g.value]
  BY DEF Written, Stamps, None
<1>2. \A g, h \in Written : MergeRegisters(g, h) = IF StampLess(g.stamp, h.stamp) THEN h ELSE g
  BY <1>1 DEF MergeRegisters, SetRegister
<1>3. \A g, h, k \in Written :
        /\ ~StampLess(g.stamp, g.stamp)
        /\ StampLess(g.stamp, h.stamp) \/ StampLess(h.stamp, g.stamp) \/ g.stamp = h.stamp
        /\ StampLess(g.stamp, h.stamp) => ~StampLess(h.stamp, g.stamp)
        /\ StampLess(g.stamp, h.stamp) /\ StampLess(h.stamp, k.stamp) => StampLess(g.stamp, k.stamp)
  BY <1>1, StampsTotal
<1> QED
  BY <1>2, <1>3

-----------------------------------------------------------------------------
(* What a branch logged, it shows.                                           *)

Args == Amounts \cup Elements \cup {None} \cup (Nat \X Branches)
Entries == [op : Operations \cup {"branch", "merge"}, kind : Kinds \cup {"none"}, arg : Args,
            branch : Branches, commit : Nat, time : Nat]

Shape ==
    /\ log \in Seq(Entries)
    /\ heads \in [Branches -> Nat]
    /\ path \in [Branches -> SUBSET DOMAIN log]
    /\ base \in [Branches -> Nat \cup {Absent}]
    /\ commit \in [Branches -> Nat]
    /\ state = [b \in Branches |-> state[b]]
    /\ seen = [b \in Branches |-> seen[b]]
    /\ restarts \in Nat

\* A branch's head and its fork point are on its path.
HeadOnPath == \A b \in Branches : heads[b] # ZERO => heads[b] \in path[b]
BaseOnPath == \A b \in Branches : Created(b) /\ base[b] # ZERO => base[b] \in path[b]

\* Two paths that meet in an entry are the same from there to the beginning.
PathsAgree ==
    \A s, t \in Branches : \A h \in path[s] \cap path[t] : \A n \in path[t] : n <= h => n \in path[s]

Inv == Shape /\ HeadOnPath /\ BaseOnPath /\ PathsAgree /\ LoggedIsShown

LEMMA AppendedEntry ==
    ASSUME NEW q \in Seq(Entries), NEW e \in Entries
    PROVE  /\ Append(q, e) \in Seq(Entries)
           /\ Len(q) \in Nat
           /\ DOMAIN q = 1 .. Len(q)
           /\ DOMAIN Append(q, e) = 1 .. Len(q) + 1
           /\ \A n \in DOMAIN q : Append(q, e)[n] = q[n]
           /\ Append(q, e)[Len(q) + 1] = e
  OBVIOUS

LEMMA InitInv == Init => Inv
<1> SUFFICES ASSUME Init PROVE Inv
  OBVIOUS
<1> USE DEF Init
<1>1. log \in Seq(Entries)
  BY DEF Init
<1>2. Shape
  BY <1>1 DEF Shape, ZERO, Main, Absent
<1>3. HeadOnPath /\ BaseOnPath /\ PathsAgree /\ LoggedIsShown
  BY DEF HeadOnPath, BaseOnPath, PathsAgree, LoggedIsShown, Created, ZERO, Main, Absent
<1> QED
  BY <1>2, <1>3 DEF Inv

-----------------------------------------------------------------------------
\* What an entry is, and what folding it into a view shows.

LEMMA EntryTyped ==
    ASSUME Shape, NEW b \in Branches, NEW op \in Operations \cup {"branch", "merge"},
           NEW kind \in Kinds \cup {"none"}, NEW arg \in Args, NEW time \in Nat
    PROVE  Entry(op, kind, arg, b, time) \in Entries
  BY DEF Shape, Entry, Entries

LEMMA RequestTyped ==
    ASSUME Shape, NEW b \in Branches, NEW r \in Requests(b)
    PROVE  r.op \in Operations /\ r.kind \in Kinds /\ r.arg \in Args /\ r.time \in Nat
<1>1. HandedOut \subseteq Nat \X Branches
  <2> SUFFICES ASSUME NEW n \in DOMAIN log PROVE <<log[n].commit, log[n].branch>> \in Nat \X Branches
    BY DEF HandedOut
  <2>1. log[n] \in Entries
    BY DEF Shape
  <2> QED
    BY <2>1 DEF Entries
<1>2. <<commit[b], b>> \in Nat \X Branches
  BY DEF Shape
<1>3. Times \subseteq Nat
  BY CrdtAssumption
<1>4. \/ r \in [op : {"increment"}, kind : {"counter"}, arg : Amounts, time : {0}]
      \/ r \in [op : {"set"}, kind : {"register"}, arg : Elements, time : Times]
      \/ r \in [op : {"add", "remove"}, kind : {"set"}, arg : Elements, time : {0}]
      \/ r \in [op : {"insert"}, kind : {"sequence"}, arg : {None, <<commit[b], b>>} \cup HandedOut, time : {0}]
      \/ r \in [op : {"take"}, kind : {"sequence"}, arg : HandedOut, time : {0}]
  BY Zenon DEF Requests
<1>5. \A arg \in Amounts \cup Elements \cup {None, <<commit[b], b>>} \cup HandedOut : arg \in Args
  BY <1>1, <1>2 DEF Args
<1>6. r.arg \in Args
  BY <1>4, <1>5
<1>7. r.time \in Times \cup {0}
  BY <1>4
<1>10. r.time \in Nat
  <2>1. CASE r.time \in Times
    BY <2>1, <1>3, Zenon
  <2>2. CASE r.time = 0
    BY <2>2
  <2> QED
    BY <1>7, <2>1, <2>2
<1>8. r.op \in Operations
  BY <1>4 DEF Operations
<1>9. r.kind \in Kinds
  BY <1>4 DEF Kinds
<1> QED
  BY <1>6, <1>8, <1>9, <1>10

LEMMA ShownAfter ==
    ASSUME NEW view, NEW e, NEW n, ~Bookkeeping(e.op), Fits(view.state, e)
    PROVE  /\ view.seen \subseteq Folded(view, e, n).seen
           /\ \E p \in Folded(view, e, n).seen : p.n = n
<1>1. Folded(view, e, n).seen = view.seen \cup {[n |-> n, observed |-> Observed(view.seen, e)]}
  BY DEF Folded
<1>2. [n |-> n, observed |-> Observed(view.seen, e)].n = n
  OBVIOUS
<1> QED
  BY <1>1, <1>2, Zenon

\* What every action that appends an entry to a branch's path keeps.
LEMMA AppendKeeps ==
    ASSUME Inv, NEW b \in Branches, NEW e \in Entries, NEW from \in Branches,
           log' = Append(log, e),
           heads' = [heads EXCEPT ![b] = Len(log) + 1],
           path' = [path EXCEPT ![b] = path[from] \cup {Len(log) + 1}]
    PROVE  /\ log' \in Seq(Entries)
           /\ heads' \in [Branches -> Nat]
           /\ path' \in [Branches -> SUBSET DOMAIN log']
           /\ HeadOnPath'
           /\ PathsAgree'
           /\ \A n \in DOMAIN log : Logged(n)' = Logged(n)
           /\ \A n : n = Len(log) + 1 => Logged(n)' = ~Bookkeeping(e.op)
           /\ DOMAIN log = 1 .. Len(log) /\ Len(log) \in Nat
<1> DEFINE new == Len(log) + 1
<1>1. /\ log' \in Seq(Entries) /\ Len(log) \in Nat
      /\ DOMAIN log = 1 .. Len(log) /\ DOMAIN log' = 1 .. new
      /\ \A n \in DOMAIN log : log'[n] = log[n]
      /\ log'[new] = e
  BY AppendedEntry DEF Inv, Shape
<1>2. heads' \in [Branches -> Nat]
  BY <1>1 DEF Inv, Shape
<1>3. path \in [Branches -> SUBSET (1 .. Len(log))]
  BY <1>1 DEF Inv, Shape
<1>4. \A c \in Branches : path'[c] = IF c = b THEN path[from] \cup {new} ELSE path[c]
  BY <1>3
<1>5. path' \in [Branches -> SUBSET DOMAIN log']
  BY <1>1, <1>3
<1>6. HeadOnPath'
  <2> SUFFICES ASSUME NEW c \in Branches, heads'[c] # ZERO PROVE heads'[c] \in path'[c]
    BY DEF HeadOnPath
  <2>1. CASE c = b
    BY <2>1, <1>4 DEF Inv, Shape
  <2>2. CASE c # b
    BY <2>2, <1>4 DEF Inv, Shape, HeadOnPath
  <2> QED
    BY <2>1, <2>2
<1>7. PathsAgree'
  <2> SUFFICES ASSUME NEW s \in Branches, NEW t \in Branches, NEW h \in path'[s] \cap path'[t],
                      NEW n \in path'[t], n <= h
               PROVE  n \in path'[s]
    BY DEF PathsAgree
  <2> DEFINE S == IF s = b THEN from ELSE s
             T == IF t = b THEN from ELSE t
  <2>1. S \in Branches /\ T \in Branches /\ path[S] \subseteq 1 .. Len(log) /\ path[T] \subseteq 1 .. Len(log)
    BY <1>3
  <2>2. path'[s] = IF s = b THEN path[S] \cup {new} ELSE path[S]
    BY <1>4
  <2>3. path'[t] = IF t = b THEN path[T] \cup {new} ELSE path[T]
    BY <1>4
  <2>4. CASE h = new
    <3>1. s = b /\ t = b
      BY <2>1, <2>2, <2>3, <2>4, <1>1
    <3> QED
      BY <3>1
  <2>5. CASE h # new
    <3>1. h \in path[S] \cap path[T] /\ h \in 1 .. Len(log)
      BY <2>1, <2>2, <2>3, <2>5
    <3>2. n \in path[T]
      BY <2>1, <2>3, <3>1, <1>1
    <3>3. n \in path[S]
      BY <2>1, <3>1, <3>2 DEF Inv, PathsAgree
    <3> QED
      BY <3>3, <2>2
  <2> QED
    BY <2>4, <2>5
<1>8. \A n \in DOMAIN log : Logged(n)' = Logged(n)
  BY <1>1 DEF Logged
<1>9. \A n : n = Len(log) + 1 => Logged(n)' = ~Bookkeeping(e.op)
  BY <1>1 DEF Logged
<1> QED
  BY <1>1, <1>2, <1>5, <1>6, <1>7, <1>8, <1>9

LEMMA ApplyKeepsInv ==
    ASSUME Inv, NEW b \in Branches, NEW r \in Requests(b), ApplyCrdt(b, r)
    PROVE  Inv'
<1> DEFINE e == Entry(r.op, r.kind, r.arg, b, r.time)
           view == [state |-> state[b], seen |-> seen[b]]
           after == Folded(view, e, Len(log) + 1)
<1>1. r.op \in Operations /\ e \in Entries
  BY RequestTyped, EntryTyped DEF Inv
<1>2. e.op = r.op /\ e.kind = r.kind /\ ~Bookkeeping(e.op)
  BY <1>1 DEF Entry, Bookkeeping, Operations
<1>3. Fits(view.state, e)
  BY <1>2 DEF ApplyCrdt, Fits
<1>4. /\ log' = Append(log, e)
      /\ heads' = [heads EXCEPT ![b] = Len(log) + 1]
      /\ path' = [path EXCEPT ![b] = path[b] \cup {Len(log) + 1}]
      /\ commit' = [commit EXCEPT ![b] = @ + 1]
      /\ state' = [state EXCEPT ![b] = after.state]
      /\ seen' = [seen EXCEPT ![b] = after.seen]
      /\ UNCHANGED <<base, restarts>>
  BY DEF ApplyCrdt, Appends, Shows
<1>5. /\ log' \in Seq(Entries) /\ heads' \in [Branches -> Nat] /\ path' \in [Branches -> SUBSET DOMAIN log']
      /\ HeadOnPath' /\ PathsAgree'
      /\ \A n \in DOMAIN log : Logged(n)' = Logged(n)
  BY <1>1, <1>4, AppendKeeps
<1>6. Shape'
  <2> HIDE DEF after
  <2>1. commit' \in [Branches -> Nat] /\ base' \in [Branches -> Nat \cup {Absent}] /\ restarts' \in Nat
    BY <1>4 DEF Inv, Shape
  <2>2. state' = [c \in Branches |-> state'[c]] /\ seen' = [c \in Branches |-> seen'[c]]
    BY <1>4 DEF Inv, Shape
  <2> QED
    BY <1>5, <2>1, <2>2 DEF Shape
<1>7. BaseOnPath'
  BY <1>4 DEF Inv, Shape, BaseOnPath, Created
<1>8. LoggedIsShown'
  <2>1. view.seen \subseteq after.seen /\ \E p \in after.seen : p.n = Len(log) + 1
    BY <1>2, <1>3, ShownAfter
  <2> SUFFICES ASSUME NEW c \in Branches, NEW n \in path'[c], Logged(n)' PROVE n \in Ops(c)'
    BY DEF LoggedIsShown
  <2>2. CASE n = Len(log) + 1 /\ c = b
    BY <2>1, <2>2, <1>4 DEF Ops, Inv, Shape
  <2>3. CASE n # Len(log) + 1 \/ c # b
    <3>1. n \in path[c]
      BY <2>3, <1>4 DEF Inv, Shape
    <3>2. n \in DOMAIN log
      BY <3>1 DEF Inv, Shape
    <3>3. PICK p \in seen[c] : p.n = n
      BY <3>1, <3>2, <1>5 DEF Inv, LoggedIsShown, Ops
    <3>4. seen[c] \subseteq seen'[c]
      BY <2>1, <1>4 DEF Inv, Shape
    <3> QED
      BY <3>3, <3>4 DEF Ops
  <2> QED
    BY <2>2, <2>3
<1> QED
  BY <1>5, <1>6, <1>7, <1>8 DEF Inv

LEMMA CreateKeepsInv ==
    ASSUME Inv, NEW b \in Branches, NEW from \in Branches, CreateBranch(b, from)
    PROVE  Inv'
<1> DEFINE e == [Entry("branch", "none", None, b, 0) EXCEPT !.commit = 0]
<1>1. e \in Entries /\ Bookkeeping(e.op)
  BY EntryTyped DEF Inv, Entry, Entries, Args, Bookkeeping
<1>2. /\ log' = Append(log, e)
      /\ heads' = [heads EXCEPT ![b] = Len(log) + 1]
      /\ path' = [path EXCEPT ![b] = path[from] \cup {Len(log) + 1}]
      /\ base' = [base EXCEPT ![b] = heads[from]]
      /\ commit' = [commit EXCEPT ![b] = 1]
      /\ state' = [state EXCEPT ![b] = state[from]]
      /\ seen' = [seen EXCEPT ![b] = seen[from]]
      /\ UNCHANGED restarts
  BY DEF CreateBranch, Shows
<1>3. /\ log' \in Seq(Entries) /\ heads' \in [Branches -> Nat] /\ path' \in [Branches -> SUBSET DOMAIN log']
      /\ HeadOnPath' /\ PathsAgree'
      /\ \A n \in DOMAIN log : Logged(n)' = Logged(n)
      /\ \A n : n = Len(log) + 1 => Logged(n)' = ~Bookkeeping(e.op)
  BY <1>1, <1>2, AppendKeeps
<1>4. Shape'
  BY <1>2, <1>3 DEF Inv, Shape
<1>5. BaseOnPath'
  <2> SUFFICES ASSUME NEW c \in Branches, Created(c)', base'[c] # ZERO PROVE base'[c] \in path'[c]
    BY DEF BaseOnPath
  <2>1. CASE c = b
    <3>1. base'[c] = heads[from]
      BY <2>1, <1>2 DEF Inv, Shape
    <3>2. heads[from] \in path[from]
      BY <3>1 DEF Inv, HeadOnPath
    <3> QED
      BY <2>1, <3>1, <3>2, <1>2 DEF Inv, Shape
  <2>2. CASE c # b
    BY <2>2, <1>2 DEF Inv, Shape, BaseOnPath, Created
  <2> QED
    BY <2>1, <2>2
<1>6. LoggedIsShown'
  <2> SUFFICES ASSUME NEW c \in Branches, NEW n \in path'[c], Logged(n)' PROVE n \in Ops(c)'
    BY DEF LoggedIsShown
  <2> DEFINE C == IF c = b THEN from ELSE c
  <2>1. C \in Branches /\ path'[c] \subseteq path[C] \cup {Len(log) + 1} /\ seen'[c] = seen[C]
    BY <1>2 DEF Inv, Shape
  <2>2. n # Len(log) + 1
    BY <1>1, <1>3
  <2>3. n \in path[C] /\ n \in DOMAIN log
    BY <2>1, <2>2 DEF Inv, Shape
  <2>4. n \in Ops(C)
    BY <2>1, <2>3, <1>3 DEF Inv, LoggedIsShown
  <2> QED
    BY <2>1, <2>4 DEF Ops
<1> QED
  BY <1>3, <1>4, <1>5, <1>6 DEF Inv

\* A merge either joins what the target shows with the source's, or finds the
\* target's path, down to the source's fork point, on the source's path too.
LEMMA MergeKeepsInv ==
    ASSUME Inv, NEW s \in Branches, NEW t \in Branches, Merge(s, t)
    PROVE  Inv'
<1> DEFINE e == Entry("merge", "none", None, t, 0)
           view == Converged(s, t)
<1>1. e \in Entries /\ Bookkeeping(e.op)
  BY EntryTyped DEF Inv, Entry, Args, Bookkeeping
<1>2. /\ log' = Append(log, e)
      /\ heads' = [heads EXCEPT ![t] = Len(log) + 1]
      /\ path' = [path EXCEPT ![t] = path[t] \cup {Len(log) + 1}]
      /\ commit' = [commit EXCEPT ![t] = @ + 1]
      /\ state' = [state EXCEPT ![t] = view.state]
      /\ seen' = [seen EXCEPT ![t] = view.seen]
      /\ UNCHANGED <<base, restarts>>
      /\ Created(s)
  BY DEF Merge, Appends, Shows, Mergeable
<1>3. /\ log' \in Seq(Entries) /\ heads' \in [Branches -> Nat] /\ path' \in [Branches -> SUBSET DOMAIN log']
      /\ HeadOnPath' /\ PathsAgree'
      /\ \A n \in DOMAIN log : Logged(n)' = Logged(n)
      /\ \A n : n = Len(log) + 1 => Logged(n)' = ~Bookkeeping(e.op)
  BY <1>1, <1>2, AppendKeeps
<1>4. \A n \in path[t] : Logged(n) => \E p \in view.seen : p.n = n
  <2> SUFFICES ASSUME NEW n \in path[t], Logged(n) PROVE \E p \in view.seen : p.n = n
    OBVIOUS
  <2>1. CASE Touched(History(path[t], base[s]))
    <3>1. view.seen = seen[t] \cup seen[s]
      BY <2>1 DEF Converged
    <3>2. n \in Ops(t)
      BY DEF Inv, LoggedIsShown
    <3> QED
      BY <3>1, <3>2 DEF Ops
  <2>2. CASE ~Touched(History(path[t], base[s]))
    <3>1. view.seen = seen[s]
      BY <2>2 DEF Converged
    <3>2. n \notin History(path[t], base[s])
      BY <2>2 DEF Touched
    <3>3. base[s] \in path[t] /\ n <= base[s]
      BY <3>2 DEF History, Inv, Shape
    <3>4. base[s] \in path[s]
      BY <3>3, <1>2 DEF Inv, Shape, BaseOnPath, ZERO
    <3>5. n \in path[s]
      BY <3>3, <3>4 DEF Inv, PathsAgree
    <3>6. n \in Ops(s)
      BY <3>5 DEF Inv, LoggedIsShown
    <3> QED
      BY <3>1, <3>6 DEF Ops
  <2> QED
    BY <2>1, <2>2
<1> HIDE DEF view
<1>5. Shape'
  <2>1. commit' \in [Branches -> Nat] /\ base' \in [Branches -> Nat \cup {Absent}] /\ restarts' \in Nat
    BY <1>2 DEF Inv, Shape
  <2>2. state' = [c \in Branches |-> state'[c]] /\ seen' = [c \in Branches |-> seen'[c]]
    BY <1>2 DEF Inv, Shape
  <2> QED
    BY <1>3, <2>1, <2>2 DEF Shape
<1>6. BaseOnPath'
  BY <1>2 DEF Inv, Shape, BaseOnPath, Created
<1>7. LoggedIsShown'
  <2> SUFFICES ASSUME NEW c \in Branches, NEW n \in path'[c], Logged(n)' PROVE n \in Ops(c)'
    BY DEF LoggedIsShown
  <2>1. n # Len(log) + 1
    BY <1>1, <1>3
  <2>2. n \in path[c] /\ n \in DOMAIN log
    BY <2>1, <1>2 DEF Inv, Shape
  <2>3. Logged(n)
    BY <2>2, <1>3
  <2>4. CASE c = t
    BY <2>2, <2>3, <2>4, <1>2, <1>4 DEF Ops, Inv, Shape
  <2>5. CASE c # t
    <3>1. seen'[c] = seen[c]
      BY <2>5, <1>2 DEF Inv, Shape
    <3>2. n \in Ops(c)
      BY <2>2, <2>3 DEF Inv, LoggedIsShown
    <3> QED
      BY <3>1, <3>2 DEF Ops
  <2> QED
    BY <2>4, <2>5
<1> QED
  BY <1>3, <1>5, <1>6, <1>7 DEF Inv

LEMMA StepKeepsInv == Inv /\ [Next]_vars => Inv' \/ restarts' # 0
<1> SUFFICES ASSUME Inv, [Next]_vars PROVE Inv' \/ restarts' # 0
  OBVIOUS
<1>1. CASE \E b \in Branches : Created(b) /\ \E r \in Requests(b) : ApplyCrdt(b, r)
  BY <1>1, ApplyKeepsInv
<1>2. CASE \E b, from \in Branches : CreateBranch(b, from)
  BY <1>2, CreateKeepsInv
<1>3. CASE \E s, t \in Branches : Merge(s, t)
  BY <1>3, MergeKeepsInv
<1>4. CASE Restart
  BY <1>4 DEF Restart, Inv, Shape
<1>5. CASE UNCHANGED vars
  BY <1>5 DEF vars, Inv, Shape, HeadOnPath, BaseOnPath, PathsAgree, LoggedIsShown, Created, Logged, Ops
<1> QED
  BY <1>1, <1>2, <1>3, <1>4, <1>5 DEF Next

\* A restart stays counted.
LEMMA RestartsCount == restarts \in Nat /\ [Next]_vars => restarts' \in Nat /\ (restarts # 0 => restarts' # 0)
<1> SUFFICES ASSUME restarts \in Nat, [Next]_vars
             PROVE  restarts' \in Nat /\ (restarts # 0 => restarts' # 0)
  OBVIOUS
<1>1. restarts' = restarts \/ restarts' = restarts + 1
  <2>1. ASSUME NEW b \in Branches, NEW r, ApplyCrdt(b, r) PROVE restarts' = restarts
    BY <2>1, Zenon DEF ApplyCrdt
  <2>2. ASSUME NEW b, NEW from, CreateBranch(b, from) PROVE restarts' = restarts
    BY <2>2, Zenon DEF CreateBranch
  <2>3. ASSUME NEW s, NEW t, Merge(s, t) PROVE restarts' = restarts
    BY <2>3, Zenon DEF Merge
  <2>4. Restart => restarts' = restarts + 1
    BY Zenon DEF Restart
  <2>5. UNCHANGED vars => restarts' = restarts
    BY DEF vars
  <2> QED
    BY <2>1, <2>2, <2>3, <2>4, <2>5, Zenon DEF Next
<1> QED
  BY <1>1

(* Until a restart, whatever merges install in its view, a branch shows      *)
(* every CRDT operation in its own history.                                  *)
THEOREM HistoryShown == Spec => [](restarts = 0 => LoggedIsShown)
<1> DEFINE Safe == restarts \in Nat /\ (restarts = 0 => Inv)
<1>1. Init => Safe
  BY InitInv DEF Init
<1>2. Safe /\ [Next]_vars => Safe'
  BY StepKeepsInv, RestartsCount
<1>3. Safe => (restarts = 0 => LoggedIsShown)
  BY DEF Inv
<1> QED
  BY <1>1, <1>2, <1>3, PTL DEF Spec

-----------------------------------------------------------------------------
(* Independent logs                                                         *)

(* A set of numbers that is not empty, and bounded, has a greatest. *)
LEMMA GreatestExists ==
  ASSUME NEW n \in Nat, NEW S \in SUBSET (1 .. n), S # {}
  PROVE  \E x \in S : \A y \in S : y <= x
<1> DEFINE T == {m \in Nat : n - m \in S}
<1>1. \A s \in S : n - s \in T
  OBVIOUS
<1>2. OpToRel(<, Nat) = {ss \in Nat \X Nat : ss[1] < ss[2]}
  BY DEF OpToRel
<1>3. PICK x \in T : \A y \in T : <<y, x>> \notin OpToRel(<, Nat)
  <2>1. T \in SUBSET Nat /\ T # {}
    BY <1>1
  <2>2. QED
    BY <2>1, NatLessThanWellFounded, WFMin
<1>4. ASSUME NEW y \in S PROVE y <= n - x
  <2>1. n - y \in T /\ <<n - y, x>> \in Nat \X Nat
    BY <1>1
  <2>2. ~(<<n - y, x>>[1] < <<n - y, x>>[2])
    BY <1>2, <1>3, <2>1
  <2>3. x \in Nat /\ y \in 1 .. n
    OBVIOUS
  <2>4. QED
    BY <2>2, <2>3
<1>5. QED
  BY <1>3, <1>4

(* Induction without a predicate for a parameter: a set of numbers that holds *)
(* 0 and every successor is all of them.                                     *)
LEMMA Upward ==
  ASSUME NEW Q \in SUBSET Nat, 0 \in Q, \A n \in Q : n + 1 \in Q
  PROVE  Q = Nat
<1>1. SUFFICES ASSUME Nat \ Q # {} PROVE FALSE
  OBVIOUS
<1>2. PICK n \in Nat \ Q : \A m \in Nat \ Q : <<m, n>> \notin OpToRel(<, Nat)
  <2>1. Nat \ Q \in SUBSET Nat
    OBVIOUS
  <2>2. QED
    BY <1>1, <2>1, NatLessThanWellFounded, WFMin, Zenon
<1>3. ASSUME NEW m \in Nat \ Q PROVE ~(m < n)
  BY <1>2, <1>3, Zenon DEF OpToRel
<1>4. n \in Nat /\ n \notin Q
  BY <1>2, Zenon
<1>5. n - 1 \in Nat /\ n - 1 < n /\ (n - 1) + 1 = n
  BY <1>4
<1>6. n - 1 \in Q
  BY <1>3, <1>5, Zenon
<1>7. QED
  BY <1>4, <1>5, <1>6

SyncOp == [op : {"Put", "Delete", "Crdt"}, key : SyncKeys, n : Nat]
SyncContent == [by : Replicas, at : Nat, op : SyncOp]
IsLog(a) == \E P : a \in Seq([prev : P, content : SyncContent])

LEMMA LogTypes ==
  ASSUME NEW a, IsLog(a)
  PROVE  /\ Len(a) \in Nat /\ DOMAIN a = 1..Len(a)
         /\ \A i \in 1..Len(a) : a[i] = [prev |-> a[i].prev, content |-> a[i].content] /\ a[i].content \in SyncContent
<1>1. PICK P : a \in Seq([prev : P, content : SyncContent])
  BY DEF IsLog
<1>2. Len(a) \in Nat /\ DOMAIN a = 1..Len(a)
  BY <1>1
<1>3. ASSUME NEW i \in 1..Len(a) PROVE a[i] \in [prev : P, content : SyncContent]
  <2> DEFINE D == [prev : P, content : SyncContent]
  <2>1. a \in Seq(D)
    BY <1>1
  <2> HIDE DEF D
  <2>2. a[i] \in D
    BY <2>1
  <2>3. QED
    BY <2>2 DEF D
<1>4. QED
  BY <1>2, <1>3

LEMMA LinkedIs ==
  ASSUME NEW a, IsLog(a), NEW c \in SyncContent
  PROVE  LET w == Copies!Linked(a, c)
         IN  /\ IsLog(w) /\ Len(w) = Len(a) + 1
             /\ \A i \in 1..Len(a) : w[i] = a[i]
             /\ w[Len(a) + 1] = [prev |-> Copies!HeadOf(a), content |-> c]
<1>1. PICK P : a \in Seq([prev : P, content : SyncContent])
  BY DEF IsLog
<1> DEFINE Q == P \cup {Copies!HeadOf(a)}
           e == [prev |-> Copies!HeadOf(a), content |-> c]
           E == [prev : Q, content : SyncContent]
<1>2. a \in Seq(E)
  <2> DEFINE D == [prev : P, content : SyncContent]
  <2>1. D \subseteq E /\ a \in Seq(D)
    BY <1>1
  <2> HIDE DEF E, D
  <2>2. QED
    BY <2>1
<1>3. e \in E
  OBVIOUS
<1>4. Copies!Linked(a, c) = Append(a, e)
  BY DEF Copies!Linked
<1>5. Append(a, e) \in Seq(E) /\ Len(Append(a, e)) = Len(a) + 1
      /\ (\A i \in 1..Len(a) : Append(a, e)[i] = a[i]) /\ Append(a, e)[Len(a) + 1] = e
  <2> HIDE DEF E, e
  <2>1. QED
    BY <1>2, <1>3
<1>6. IsLog(Append(a, e))
  BY <1>5 DEF IsLog
<1>7. QED
  BY <1>4, <1>5, <1>6

(* What a receiver ends with: its own log, then the places it lacked, each     *)
(* once and in their order, chained to one another and to its head.            *)
Chained(w) == \A i \in 1..Len(w) : w[i].prev = IF i = 1 THEN Copies!Zero ELSE Copies!Hash(w[i - 1])
Grown(a, b, places, w, f) ==
  /\ IsLog(w) /\ Chained(w) /\ Len(w) >= Len(b)
  /\ \A i \in 1..Len(b) : w[i] = b[i]
  /\ f \in [Len(b) + 1 .. Len(w) -> places]
  /\ \A i \in Len(b) + 1 .. Len(w) : w[i].content = a[f[i]].content
  /\ \A i, j \in Len(b) + 1 .. Len(w) : i < j => f[i] < f[j]
  /\ \A n \in places : \E i \in Len(b) + 1 .. Len(w) : f[i] = n

LEMMA LinkGrows ==
  ASSUME NEW a, IsLog(a), NEW b, IsLog(b), NEW places, NEW n \in 1..Len(a),
         places \subseteq 1..(n - 1), NEW w, NEW f, Grown(a, b, places, w, f)
  PROVE  \E g : Grown(a, b, places \cup {n}, Copies!Linked(w, a[n].content), g)
<1> DEFINE v == Copies!Linked(w, a[n].content)
           g == [i \in Len(b) + 1 .. Len(w) + 1 |-> IF i = Len(w) + 1 THEN n ELSE f[i]]
<1>1. a[n].content \in SyncContent /\ Len(b) \in Nat /\ Len(w) \in Nat /\ Len(w) >= Len(b) /\ n \in Nat
  <2>1. IsLog(w) /\ Len(w) >= Len(b)
    BY DEF Grown
  <2>2. Len(w) \in Nat /\ Len(b) \in Nat /\ Len(a) \in Nat
    BY <2>1, LogTypes
  <2>3. a[n].content \in SyncContent
    BY LogTypes
  <2>4. QED
    BY <2>1, <2>2, <2>3
<1>2. /\ IsLog(v) /\ Len(v) = Len(w) + 1
      /\ \A i \in 1..Len(w) : v[i] = w[i]
      /\ v[Len(w) + 1] = [prev |-> Copies!HeadOf(w), content |-> a[n].content]
  BY <1>1, LinkedIs DEF Grown
<1> HIDE DEF v
<1>3. Chained(v)
  <2>1. ASSUME NEW i \in 1..Len(v) PROVE v[i].prev = IF i = 1 THEN Copies!Zero ELSE Copies!Hash(v[i - 1])
    <3>1. CASE i = Len(w) + 1
      <4>1. v[i].prev = Copies!HeadOf(w) /\ (i # 1 => i - 1 \in 1..Len(w) /\ v[i - 1] = w[Len(w)])
        BY <1>1, <1>2, <3>1
      <4>2. w = <<>> <=> i = 1
        <5>1. IsLog(w)
          BY DEF Grown
        <5>2. PICK P : w \in Seq([prev : P, content : SyncContent])
          BY <5>1 DEF IsLog
        <5>3. QED
          BY <1>1, <3>1, <5>2
      <4>3. QED
        BY <4>1, <4>2 DEF Copies!HeadOf
    <3>2. CASE i # Len(w) + 1
      <4>1. i \in 1..Len(w) /\ v[i] = w[i] /\ (i # 1 => v[i - 1] = w[i - 1])
        BY <1>1, <1>2, <3>2
      <4>2. QED
        BY <4>1 DEF Grown, Chained
    <3>3. QED
      BY <3>1, <3>2
  <2>2. QED
    BY <2>1 DEF Chained
<1>4. f \in [Len(b) + 1 .. Len(w) -> places] /\ g \in [Len(b) + 1 .. Len(v) -> places \cup {n}]
  BY <1>1, <1>2 DEF Grown
<1>5. \A i \in Len(b) + 1 .. Len(v) : v[i].content = a[g[i]].content
  BY <1>1, <1>2 DEF Grown
<1>6. \A i, j \in Len(b) + 1 .. Len(v) : i < j => g[i] < g[j]
  <2>1. \A i \in Len(b) + 1 .. Len(w) : f[i] \in 1..(n - 1)
    BY <1>4
  <2>2. \A i, j \in Len(b) + 1 .. Len(w) : i < j => f[i] < f[j]
    BY DEF Grown
  <2>3. SUFFICES ASSUME NEW i \in Len(b) + 1 .. Len(w) + 1, NEW j \in Len(b) + 1 .. Len(w) + 1, i < j
        PROVE  g[i] < g[j]
    BY <1>2
  <2>4. i \in Len(b) + 1 .. Len(w) /\ g[i] = f[i]
    BY <1>1, <2>3
  <2>5. CASE j = Len(w) + 1
    <3>1. g[j] = n
      BY <2>5
    <3>2. QED
      BY <1>1, <2>1, <2>4, <3>1
  <2>6. CASE j # Len(w) + 1
    <3>1. j \in Len(b) + 1 .. Len(w) /\ g[j] = f[j]
      BY <1>1, <2>6
    <3>2. QED
      BY <2>2, <2>3, <2>4, <3>1
  <2>7. QED
    BY <2>5, <2>6
<1>7. \A m \in places \cup {n} : \E i \in Len(b) + 1 .. Len(v) : g[i] = m
  <2>1. Len(w) + 1 \in Len(b) + 1 .. Len(v) /\ g[Len(w) + 1] = n
    BY <1>1, <1>2
  <2>2. ASSUME NEW m \in places PROVE \E i \in Len(b) + 1 .. Len(v) : g[i] = m
    <3>1. PICK i \in Len(b) + 1 .. Len(w) : f[i] = m
      BY <2>2 DEF Grown
    <3>2. i \in Len(b) + 1 .. Len(v) /\ g[i] = m
      BY <1>1, <1>2, <3>1
    <3>3. QED
      BY <3>2
  <2>3. QED
    BY <2>1, <2>2
<1>8. Len(v) >= Len(b) /\ \A i \in 1..Len(b) : v[i] = b[i]
  BY <1>1, <1>2 DEF Grown
<1> HIDE DEF g
<1>9. QED
  BY <1>2, <1>3, <1>4, <1>5, <1>6, <1>7, <1>8 DEF Grown, v

\* The recursion that links them has a value at every length.
Linking(g, a, to_send, b, n) ==
  /\ g = [m \in 0..n |-> g[m]] /\ g[0] = b
  /\ \A m \in 1..n : g[m] = IF m \in to_send THEN Copies!Linked(g[m - 1], a[m].content) ELSE g[m - 1]

LinkedTo(a, b, to_send, n) ==
  \E g, f : /\ Linking(g, a, to_send, b, n)
            /\ Chained(b) => Grown(a, b, to_send \cap (1..n), g[n], f)

LEMMA LinkingGoesOn ==
  ASSUME NEW a, IsLog(a), NEW b, IsLog(b), NEW to_send \in SUBSET (1..Len(a)), NEW n \in 0..Len(a)
  PROVE  LinkedTo(a, b, to_send, n)
<1> DEFINE Good(m) == LinkedTo(a, b, to_send, m)
           Q == {m \in Nat : m <= Len(a) => Good(m)}
<1>1. Len(a) \in Nat /\ Len(b) \in Nat
  BY LogTypes
<1>2. Good(0)
  <2> DEFINE g == [m \in 0..0 |-> b]
             f == [i \in {} |-> 0]
  <2>1. Linking(g, a, to_send, b, 0) /\ g[0] = b
    BY DEF Linking
  <2>2. to_send \cap (1..0) = {} /\ Len(b) + 1 .. Len(b) = {}
    BY <1>1
  <2>3. ASSUME Chained(b) PROVE Grown(a, b, to_send \cap (1..0), b, f)
    BY <1>1, <2>2, <2>3 DEF Grown
  <2> HIDE DEF g, f
  <2>4. QED
    BY <2>1, <2>3 DEF LinkedTo
<1>3. ASSUME NEW m \in Nat, m + 1 <= Len(a), Good(m) PROVE Good(m + 1)
  <2>1. PICK g, f : Linking(g, a, to_send, b, m) /\ (Chained(b) => Grown(a, b, to_send \cap (1..m), g[m], f))
    BY <1>3, Zenon DEF LinkedTo
  <2> DEFINE next == IF m + 1 \in to_send THEN Copies!Linked(g[m], a[m + 1].content) ELSE g[m]
             h == [i \in 0..m + 1 |-> IF i = m + 1 THEN next ELSE g[i]]
  <2>2. h[m + 1] = next /\ \A i \in 0..m : h[i] = g[i]
    OBVIOUS
  <2>3. Linking(h, a, to_send, b, m + 1)
    <3>1. h = [i \in 0..m + 1 |-> h[i]] /\ h[0] = b
      BY <2>1, <2>2 DEF Linking
    <3>2. ASSUME NEW i \in 1..m + 1
          PROVE  h[i] = IF i \in to_send THEN Copies!Linked(h[i - 1], a[i].content) ELSE h[i - 1]
      <4>1. h[i - 1] = g[i - 1] /\ (i # m + 1 => i \in 1..m /\ h[i] = g[i])
        BY <2>2
      <4>2. CASE i = m + 1
        <5>1. h[i] = next /\ h[i - 1] = g[m]
          BY <2>2, <4>1, <4>2
        <5>2. QED
          BY <4>2, <5>1
      <4>3. CASE i # m + 1
        BY <2>1, <4>1, <4>3 DEF Linking
      <4>4. QED
        BY <4>2, <4>3
    <3>3. QED
      BY <3>1, <3>2 DEF Linking
  <2>4. ASSUME Chained(b) PROVE \E e : Grown(a, b, to_send \cap (1..m + 1), next, e)
    <3>1. Grown(a, b, to_send \cap (1..m), g[m], f)
      BY <2>1, <2>4
    <3>2. CASE m + 1 \in to_send
      <4>1. m + 1 \in 1..Len(a) /\ to_send \cap (1..m) \subseteq 1..((m + 1) - 1)
        BY <1>1, <1>3
      <4>2. (to_send \cap (1..m)) \cup {m + 1} = to_send \cap (1..m + 1)
        BY <1>3, <3>2
      <4>3. next = Copies!Linked(g[m], a[m + 1].content)
        BY <3>2
      <4>4. \E e : Grown(a, b, (to_send \cap (1..m)) \cup {m + 1}, Copies!Linked(g[m], a[m + 1].content), e)
        BY <3>1, <4>1, LinkGrows
      <4>5. QED
        BY <4>2, <4>3, <4>4
    <3>3. CASE m + 1 \notin to_send
      <4>1. to_send \cap (1..m + 1) = to_send \cap (1..m) /\ next = g[m]
        BY <1>3, <3>3
      <4>2. QED
        BY <3>1, <4>1
    <3>4. QED
      BY <3>2, <3>3
  <2> HIDE DEF next, h
  <2>5. QED
    BY <2>2, <2>3, <2>4 DEF LinkedTo
<1>4. Q = Nat
  <2>1. Q \in SUBSET Nat /\ 0 \in Q
    BY <1>2
  <2>2. ASSUME NEW m \in Q PROVE m + 1 \in Q
    <3>1. m \in Nat /\ (m <= Len(a) => Good(m))
      BY <2>2
    <3> HIDE DEF Good
    <3>2. m + 1 \in Nat /\ (m + 1 <= Len(a) => m <= Len(a))
      BY <1>1, <3>1
    <3>3. m + 1 <= Len(a) => Good(m + 1)
      BY <1>3, <3>1, <3>2
    <3>4. QED
      BY <3>2, <3>3
  <2> HIDE DEF Q
  <2>3. QED
    BY <2>1, <2>2, Upward
<1>5. n \in Nat /\ n <= Len(a)
  BY <1>1
<1> HIDE DEF Good
<1>6. Good(n)
  BY <1>4, <1>5
<1>7. QED
  BY <1>6 DEF Good

LEMMA RebasedGrows ==
  ASSUME NEW a, IsLog(a), NEW b, IsLog(b), Chained(b), NEW to_send \in SUBSET (1..Len(a))
  PROVE  \E f : Grown(a, b, to_send, Copies!Rebased(a, to_send, b), f)
<1> DEFINE n == Len(a)
           Raw(h) == [m \in 0..n |-> IF m = 0 THEN b
                                     ELSE IF m \in to_send THEN Copies!Linked(h[m - 1], a[m].content)
                                     ELSE h[m - 1]]
<1>1. n \in Nat /\ n \in 0..Len(a) /\ to_send \cap (1..n) = to_send
  <2>1. Len(a) \in Nat
    BY LogTypes
  <2>2. Len(a) \in 0..Len(a)
    BY <2>1
  <2>3. to_send \cap (1..Len(a)) = to_send
    OBVIOUS
  <2>4. QED
    BY <2>1, <2>2, <2>3
<1>2. PICK g, f : Linking(g, a, to_send, b, n) /\ Grown(a, b, to_send, g[n], f)
  <2>1. PICK g, f : Linking(g, a, to_send, b, n) /\ Grown(a, b, to_send \cap (1..n), g[n], f)
    <3> HIDE DEF n
    <3>1. QED
      BY <1>1, LinkingGoesOn, Zenon DEF LinkedTo
  <2>2. QED
    BY <1>1, <2>1
<1>3. g = Raw(g)
  <2>1. g = [m \in 0..n |-> g[m]] /\ g[0] = b /\ \A m \in 1..n : g[m] = IF m \in to_send THEN Copies!Linked(g[m - 1], a[m].content) ELSE g[m - 1]
    BY <1>2 DEF Linking
  <2>2. \A m \in 0..n : g[m] = Raw(g)[m]
    BY <1>1, <2>1
  <2>3. QED
    BY <2>1, <2>2
<1>4. ASSUME NEW h, h = Raw(h) PROVE h[n] = g[n]
  <2> DEFINE Q == {m \in Nat : m <= n => h[m] = g[m]}
  <2>1. \A m \in 0..n : h[m] = IF m = 0 THEN b
                              ELSE IF m \in to_send THEN Copies!Linked(h[m - 1], a[m].content)
                              ELSE h[m - 1]
    BY <1>4
  <2>2. g[0] = b /\ \A m \in 1..n : g[m] = IF m \in to_send THEN Copies!Linked(g[m - 1], a[m].content) ELSE g[m - 1]
    BY <1>2 DEF Linking
  <2>3. Q \in SUBSET Nat /\ 0 \in Q
    BY <1>1, <2>1, <2>2
  <2>4. ASSUME NEW m \in Q PROVE m + 1 \in Q
    <3>1. m \in Nat /\ (m <= n => h[m] = g[m])
      OBVIOUS
    <3>2. ASSUME m + 1 <= n PROVE h[m + 1] = g[m + 1]
      <4>1. m + 1 \in 0..n /\ m + 1 \in 1..n /\ (m + 1) - 1 = m /\ m + 1 # 0
        BY <1>1, <3>1, <3>2
      <4>2. h[m] = g[m]
        BY <1>1, <3>1, <3>2
      <4>3. QED
        BY <2>1, <2>2, <4>1, <4>2
    <3>3. m + 1 \in Nat
      BY <3>1
    <3>4. QED
      BY <3>2, <3>3
  <2> HIDE DEF Q
  <2>5. Q = Nat
    BY <2>3, <2>4, Upward
  <2>6. QED
    BY <1>1, <2>5 DEF Q
<1> HIDE DEF Raw
<1>5. (CHOOSE h : h = Raw(h))[n] = g[n]
  BY <1>3, <1>4
<1>6. Copies!Rebased(a, to_send, b) = g[n]
  BY <1>5 DEF Copies!Rebased, Raw
<1>7. QED
  BY <1>2, <1>6

(* Two logs agree when each assignment of a key comes, in the one, after all    *)
(* that came before it in the other.                                           *)
SameKey(e, f) == Copies!Assigns(e) /\ Copies!Assigns(f) /\ e.content.op.key = f.content.op.key
Agree(a, b) ==
  \A i, j \in 1..Len(a), n \in 1..Len(b) :
    i < j /\ SameKey(a[i], a[j]) /\ a[j].content = b[n].content =>
      \E m \in 1..Len(b) : m < n /\ b[m].content = a[i].content
Unrepeated(a) == \A i, j \in 1..Len(a) : a[i].content = a[j].content => i = j

LEMMA AgreesWithItself == ASSUME NEW a, Unrepeated(a) PROVE Agree(a, a)
  BY DEF Agree, Unrepeated

\* A receiver whose plan had no conflict still agrees with whoever both agreed with.
LEMMA GrownAgrees ==
  ASSUME NEW a, IsLog(a), NEW b, IsLog(b), NEW c, IsLog(c), NEW w, NEW f,
         Grown(a, b, Copies!Lacking(a, b), w, f), Copies!Plan(a, b).conflicts = {},
         Agree(a, b), Agree(a, c), Agree(b, c), Agree(c, a), Agree(c, b)
  PROVE  Agree(w, c) /\ Agree(c, w)
<1> DEFINE old == 1..Len(b)
           new == Len(b) + 1 .. Len(w)
<1>1. IsLog(w) /\ Len(w) >= Len(b) /\ \A i \in old : w[i] = b[i]
  BY DEF Grown
<1>2. Len(a) \in Nat /\ Len(b) \in Nat /\ Len(w) \in Nat
  BY <1>1, LogTypes
<1>3. \A i \in 1..Len(w) : i \in old \/ i \in new
  BY <1>1, <1>2
<1>4. \A i \in new : f[i] \in 1..Len(a) /\ a[f[i]].content = w[i].content /\ \A n \in old : b[n].content # w[i].content
  BY DEF Grown, Copies!Lacking, Copies!Digest
<1>5. \A i, j \in new : i < j => f[i] < f[j]
  BY DEF Grown
<1>6. \A n \in 1..Len(a) : (\A i \in old : b[i].content # a[n].content) => \E i \in new : f[i] = n
  BY DEF Grown, Copies!Lacking, Copies!Digest
<1>7. ASSUME NEW i \in old, NEW j \in new, SameKey(b[i], w[j])
      PROVE  \E m \in 1..Len(a) : a[m].content = b[i].content
  <2>1. SUFFICES ASSUME \A m \in 1..Len(a) : a[m].content # b[i].content PROVE FALSE
    OBVIOUS
  <2>2. i \in Copies!Lacking(b, a)
    BY <2>1 DEF Copies!Lacking, Copies!Digest
  <2>3. f[j] \in Copies!Lacking(a, b)
    BY DEF Grown
  <2>4. Copies!Assigns(b[i]) /\ Copies!Assigns(a[f[j]]) /\ a[f[j]].content.op.key = b[i].content.op.key
    BY <1>4, <1>7 DEF SameKey, Copies!Assigns
  <2>5. b[i].content.op.key \in Copies!AssignedKeys(b, Copies!Lacking(b, a))
    BY <2>2, <2>4 DEF Copies!AssignedKeys
  <2>6. b[i].content.op.key \in Copies!AssignedKeys(a, Copies!Lacking(a, b))
    BY <2>3, <2>4 DEF Copies!AssignedKeys
  <2>7. QED
    BY <2>5, <2>6 DEF Copies!Plan
<1> HIDE DEF old, new
<1>8. ASSUME NEW i \in 1..Len(w), NEW j \in 1..Len(w), NEW n \in 1..Len(c),
             i < j, SameKey(w[i], w[j]), w[j].content = c[n].content
      PROVE  \E m \in 1..Len(c) : m < n /\ c[m].content = w[i].content
  <2>1. CASE j \in old
    <3>1. i \in old /\ i \in 1..Len(b) /\ j \in 1..Len(b)
      BY <1>2, <1>8, <2>1 DEF old
    <3>2. w[i] = b[i] /\ w[j] = b[j]
      BY <1>1, <2>1, <3>1
    <3>3. QED
      BY <1>8, <3>1, <3>2 DEF Agree
  <2>2. CASE j \in new /\ i \in new
    <3>1. f[i] \in 1..Len(a) /\ f[j] \in 1..Len(a) /\ f[i] < f[j]
      BY <1>4, <1>5, <1>8, <2>2
    <3>2. a[f[i]].content = w[i].content /\ a[f[j]].content = w[j].content
      BY <1>4, <2>2
    <3>3. SameKey(a[f[i]], a[f[j]])
      BY <1>8, <3>2 DEF SameKey, Copies!Assigns
    <3>4. a[f[j]].content = c[n].content
      BY <1>8, <3>2
    <3>5. \E m \in 1..Len(c) : m < n /\ c[m].content = a[f[i]].content
      <4>1. Agree(a, c) /\ n \in 1..Len(c)
        BY <1>8
      <4>2. QED
        BY ONLY <3>1, <3>3, <3>4, <4>1 DEF Agree
    <3>6. QED
      BY <3>2, <3>5
  <2>3. CASE j \in new /\ i \in old
    <3>1. w[i] = b[i] /\ i \in 1..Len(b)
      BY <1>1, <2>3 DEF old
    <3>2. PICK k \in 1..Len(a) : a[k].content = b[i].content
      BY <1>7, <1>8, <2>3, <3>1
    <3>3. f[j] \in 1..Len(a) /\ a[f[j]].content = w[j].content /\ \A m \in old : b[m].content # w[j].content
      BY <1>4, <2>3
    <3>4. SameKey(a[k], a[f[j]]) /\ SameKey(a[f[j]], a[k])
      BY <1>8, <3>1, <3>2, <3>3 DEF SameKey, Copies!Assigns
    <3>5. ~(f[j] < k)
      <4>1. ASSUME f[j] < k PROVE FALSE
        <5>1. \E m \in 1..Len(b) : m < i /\ b[m].content = a[f[j]].content
          <6>1. Agree(a, b) /\ i \in 1..Len(b) /\ k \in 1..Len(a) /\ f[j] \in 1..Len(a) /\ a[k].content = b[i].content
            BY <3>1, <3>2, <3>3
          <6>2. QED
            BY ONLY <6>1, <3>4, <4>1 DEF Agree
        <5>2. QED
          BY <3>3, <5>1 DEF old
      <4>2. QED
        BY <4>1
    <3>6. k # f[j]
      BY <2>3, <3>2, <3>3
    <3>7. k < f[j]
      BY <3>2, <3>3, <3>5, <3>6
    <3>8. a[f[j]].content = c[n].content
      BY <1>8, <3>3
    <3>9. \E m \in 1..Len(c) : m < n /\ c[m].content = a[k].content
      <4>1. Agree(a, c) /\ n \in 1..Len(c) /\ k \in 1..Len(a) /\ f[j] \in 1..Len(a)
        BY <1>8, <3>2, <3>3
      <4>2. QED
        BY ONLY <4>1, <3>4, <3>7, <3>8 DEF Agree
    <3>10. QED
      BY <3>1, <3>2, <3>9
  <2>4. QED
    BY <1>3, <2>1, <2>2, <2>3
<1>9. ASSUME NEW i \in 1..Len(c), NEW j \in 1..Len(c), NEW n \in 1..Len(w),
             i < j, SameKey(c[i], c[j]), c[j].content = w[n].content
      PROVE  \E m \in 1..Len(w) : m < n /\ w[m].content = c[i].content
  <2>1. CASE n \in old
    <3>1. n \in 1..Len(b) /\ w[n] = b[n]
      BY <1>1, <2>1 DEF old
    <3>a. c[j].content = b[n].content
      BY <1>9, <3>1
    <3>2. PICK m \in 1..Len(b) : m < n /\ b[m].content = c[i].content
      <4>1. Agree(c, b) /\ i \in 1..Len(c) /\ j \in 1..Len(c) /\ i < j /\ SameKey(c[i], c[j])
        BY <1>9
      <4>2. QED
        BY ONLY <4>1, <3>1, <3>a DEF Agree
    <3>3. m \in 1..Len(w) /\ w[m] = b[m]
      BY <1>1, <1>2, <3>2 DEF old
    <3>4. QED
      BY <3>2, <3>3
  <2>2. CASE n \in new
    <3>1. f[n] \in 1..Len(a) /\ a[f[n]].content = w[n].content
      BY <1>4, <2>2
    <3>a. c[j].content = a[f[n]].content
      BY <1>9, <3>1
    <3>2. PICK k \in 1..Len(a) : k < f[n] /\ a[k].content = c[i].content
      <4>1. Agree(c, a) /\ i \in 1..Len(c) /\ j \in 1..Len(c) /\ i < j /\ SameKey(c[i], c[j])
        BY <1>9
      <4>2. QED
        BY ONLY <4>1, <3>1, <3>a DEF Agree
    <3>3. CASE \E m \in old : b[m].content = a[k].content
      <4>1. PICK m \in old : b[m].content = a[k].content
        BY <3>3
      <4>2. m \in 1..Len(w) /\ w[m] = b[m] /\ m < n
        BY <1>1, <1>2, <2>2 DEF old, new
      <4>3. QED
        BY <3>2, <4>1, <4>2
    <3>4. CASE \A m \in old : b[m].content # a[k].content
      <4>1. PICK m \in new : f[m] = k
        BY <1>6, <3>4
      <4>2. w[m].content = a[k].content /\ m \in 1..Len(w)
        BY <1>2, <1>4, <4>1 DEF new
      <4>3. m < n
        <5>1. m # n /\ ~(n < m)
          <6>1. f[m] \in 1..Len(a) /\ f[n] \in 1..Len(a) /\ f[m] < f[n]
            BY <3>1, <3>2, <4>1
          <6>2. QED
            BY <1>5, <2>2, <6>1
        <5>2. QED
          BY <1>2, <4>2, <5>1
      <4>4. QED
        BY <3>2, <4>2, <4>3
    <3>5. QED
      BY <3>3, <3>4
  <2>3. QED
    BY <1>3, <2>1, <2>2
<1>10. QED
  BY <1>8, <1>9 DEF Agree

(* A replica's own write is in nobody's log, so whoever agreed with it still    *)
(* does.                                                                       *)
LEMMA WrittenAgrees ==
  ASSUME NEW a, IsLog(a), NEW b, IsLog(b), NEW c \in SyncContent, c \notin Copies!Digest(b),
         Agree(a, b), Agree(b, a)
  PROVE  Agree(Copies!Linked(a, c), b) /\ Agree(b, Copies!Linked(a, c))
<1> DEFINE w == Copies!Linked(a, c)
<1>1. /\ IsLog(w) /\ Len(w) = Len(a) + 1
      /\ \A i \in 1..Len(a) : w[i] = a[i]
      /\ w[Len(a) + 1].content = c
  <2>1. /\ IsLog(w) /\ Len(w) = Len(a) + 1
        /\ \A i \in 1..Len(a) : w[i] = a[i]
        /\ w[Len(a) + 1] = [prev |-> Copies!HeadOf(a), content |-> c]
    BY LinkedIs
  <2> HIDE DEF w
  <2>2. QED
    BY <2>1
<1> HIDE DEF w
<1>2. Len(a) \in Nat /\ Len(b) \in Nat
  BY LogTypes
<1>3. \A n \in 1..Len(b) : b[n].content # c
  BY DEF Copies!Digest
<1>4. Agree(w, b)
  <2>1. SUFFICES ASSUME NEW i \in 1..Len(w), NEW j \in 1..Len(w), NEW n \in 1..Len(b),
                        i < j, SameKey(w[i], w[j]), w[j].content = b[n].content
                 PROVE  \E m \in 1..Len(b) : m < n /\ b[m].content = w[i].content
    BY DEF Agree
  <2>2. j # Len(a) + 1
    BY <1>1, <1>3, <2>1
  <2>3. i \in 1..Len(a) /\ j \in 1..Len(a) /\ w[i] = a[i] /\ w[j] = a[j]
    BY <1>1, <1>2, <2>1, <2>2
  <2>4. Agree(a, b) /\ n \in 1..Len(b)
    OBVIOUS
  <2>5. QED
    BY ONLY <2>1, <2>3, <2>4 DEF Agree
<1>5. Agree(b, w)
  <2>1. SUFFICES ASSUME NEW i \in 1..Len(b), NEW j \in 1..Len(b), NEW n \in 1..Len(w),
                        i < j, SameKey(b[i], b[j]), b[j].content = w[n].content
                 PROVE  \E m \in 1..Len(w) : m < n /\ w[m].content = b[i].content
    BY DEF Agree
  <2>2. n # Len(a) + 1
    BY <1>1, <1>3, <2>1
  <2>3. n \in 1..Len(a) /\ w[n] = a[n]
    BY <1>1, <1>2, <2>2
  <2>4. Agree(b, a) /\ i \in 1..Len(b) /\ j \in 1..Len(b)
    OBVIOUS
  <2>5. \E m \in 1..Len(a) : m < n /\ a[m].content = b[i].content
    BY ONLY <2>1, <2>3, <2>4 DEF Agree
  <2>6. QED
    BY <1>1, <1>2, <2>5
<1>6. QED
  BY <1>4, <1>5 DEF w

LEMMA GrownIsUnrepeated ==
  ASSUME NEW a, IsLog(a), NEW b, IsLog(b), NEW w, NEW f,
         Grown(a, b, Copies!Lacking(a, b), w, f), Unrepeated(a), Unrepeated(b)
  PROVE  /\ Unrepeated(w)
         /\ Copies!Digest(w) = Copies!Digest(a) \cup Copies!Digest(b)
<1> DEFINE old == 1..Len(b)
           new == Len(b) + 1 .. Len(w)
<1>1. IsLog(w) /\ Len(w) >= Len(b) /\ \A i \in old : w[i] = b[i]
  BY DEF Grown
<1>2. Len(a) \in Nat /\ Len(b) \in Nat /\ Len(w) \in Nat
  BY <1>1, LogTypes
<1>3. \A i \in 1..Len(w) : i \in old \/ i \in new
  BY <1>1, <1>2
<1>4. \A i \in new : f[i] \in 1..Len(a) /\ a[f[i]].content = w[i].content /\ \A n \in old : b[n].content # w[i].content
  BY DEF Grown, Copies!Lacking, Copies!Digest
<1>5. \A i, j \in new : i < j => f[i] < f[j]
  BY DEF Grown
<1>6. \A n \in 1..Len(a) : (\A i \in old : b[i].content # a[n].content) => \E i \in new : f[i] = n
  BY DEF Grown, Copies!Lacking, Copies!Digest
<1>7. old \subseteq 1..Len(w) /\ new \subseteq 1..Len(w)
  BY <1>1, <1>2
<1>8. Unrepeated(w)
  <2>1. SUFFICES ASSUME NEW i \in 1..Len(w), NEW j \in 1..Len(w), w[i].content = w[j].content
                 PROVE  i = j
    BY DEF Unrepeated
  <2> HIDE DEF old, new
  <2>2. CASE i \in new /\ j \in new
    <3>1. f[i] = f[j]
      BY <1>4, <2>1, <2>2 DEF Unrepeated
    <3>2. i \in Nat /\ j \in Nat /\ f[i] \in Nat
      BY <1>2, <1>4, <2>2
    <3>3. ~(f[i] < f[j]) /\ ~(f[j] < f[i])
      BY <3>1, <3>2
    <3>4. ~(i < j) /\ ~(j < i)
      BY <1>5, <2>2, <3>3
    <3>5. QED
      BY <3>2, <3>4
  <2>3. CASE i \in old /\ j \in old
    <3>1. b[i].content = b[j].content
      BY <1>1, <2>1, <2>3
    <3>2. QED
      BY <2>3, <3>1 DEF Unrepeated, old
  <2>4. ~(i \in old /\ j \in new) /\ ~(j \in old /\ i \in new)
    BY <1>1, <1>4, <2>1
  <2>5. QED
    BY <1>3, <2>2, <2>3, <2>4
<1>9. Copies!Digest(w) = Copies!Digest(a) \cup Copies!Digest(b)
  <2> HIDE DEF new
  <2>1. ASSUME NEW c \in Copies!Digest(w) PROVE c \in Copies!Digest(a) \cup Copies!Digest(b)
    <3>1. PICK i \in 1..Len(w) : w[i].content = c
      BY <2>1 DEF Copies!Digest
    <3>2. CASE i \in old
      BY <1>1, <3>1, <3>2 DEF Copies!Digest
    <3>3. CASE i \in new
      BY <1>4, <3>1, <3>3 DEF Copies!Digest
    <3>4. QED
      BY <1>3, <3>1, <3>2, <3>3
  <2>2. ASSUME NEW c \in Copies!Digest(b) PROVE c \in Copies!Digest(w)
    <3>1. PICK i \in old : b[i].content = c
      BY <2>2 DEF Copies!Digest
    <3>2. i \in 1..Len(w) /\ w[i].content = c
      BY <1>1, <1>7, <3>1
    <3>3. QED
      BY <3>2 DEF Copies!Digest
  <2>3. ASSUME NEW c \in Copies!Digest(a), c \notin Copies!Digest(b) PROVE c \in Copies!Digest(w)
    <3>1. PICK n \in 1..Len(a) : a[n].content = c
      BY <2>3 DEF Copies!Digest
    <3>2. PICK i \in new : f[i] = n
      BY <1>6, <2>3, <3>1 DEF Copies!Digest
    <3>3. i \in 1..Len(w) /\ w[i].content = c
      BY <1>4, <1>7, <3>1, <3>2
    <3>4. QED
      BY <3>3 DEF Copies!Digest
  <2>4. QED
    BY <2>1, <2>2, <2>3
<1>10. QED
  BY <1>8, <1>9

(* Every log is one chain that holds no entry twice, every entry is in its     *)
(* writer's log, and any two logs agree on the order of a key's assignments.   *)
SyncTypes ==
  /\ writes \in Nat /\ logs = [r \in Replicas |-> logs[r]]
  /\ \A r \in Replicas : IsLog(logs[r])
SyncWhole ==
  \A r \in Replicas :
    /\ Chained(logs[r]) /\ Unrepeated(logs[r])
    /\ \A c \in Copies!Digest(logs[r]) : c.at < writes /\ c \in Copies!Digest(logs[c.by])
SyncAgree == \A r, s \in Replicas : Agree(logs[r], logs[s])
SyncInv == SyncTypes /\ SyncWhole /\ SyncAgree

LEMMA SyncInvInit ==
  ASSUME Copies!Init
  PROVE  SyncInv
<1>1. writes = 0 /\ logs = [r \in Replicas |-> <<>>]
  BY DEF Copies!Init
<1>2. \A r \in Replicas : logs[r] = <<>>
  BY <1>1
<1>3. IsLog(<<>>)
  <2>1. <<>> \in Seq([prev : {}, content : SyncContent])
    OBVIOUS
  <2>2. QED
    BY <2>1 DEF IsLog
<1>4. 1..Len(<<>>) = {}
  OBVIOUS
<1>5. Copies!Digest(<<>>) = {} /\ Chained(<<>>) /\ Unrepeated(<<>>) /\ Agree(<<>>, <<>>)
  BY <1>4 DEF Copies!Digest, Chained, Unrepeated, Agree
<1>6. SyncTypes
  BY <1>1, <1>2, <1>3 DEF SyncTypes
<1>7. SyncWhole /\ SyncAgree
  BY <1>2, <1>5 DEF SyncWhole, SyncAgree
<1>8. QED
  BY <1>6, <1>7 DEF SyncInv

LEMMA CopyWriteKeepsInv ==
  ASSUME SyncInv, NEW r \in Replicas, NEW op \in Copies!Ops(writes), Copies!Write(r, op)
  PROVE  SyncInv'
<1> DEFINE a == logs[r]
           c == [by |-> r, at |-> writes, op |-> op]
           w == Copies!Linked(a, c)
<1>1. writes \in Nat /\ IsLog(a) /\ Chained(a) /\ Unrepeated(a)
  BY DEF SyncInv, SyncTypes, SyncWhole
<1>2. writes' = writes + 1 /\ logs' = [logs EXCEPT ![r] = w]
  BY DEF Copies!Write
<1>3. logs' = [s \in Replicas |-> logs'[s]] /\ logs'[r] = w /\ \A s \in Replicas \ {r} : logs'[s] = logs[s]
  BY <1>2 DEF SyncInv, SyncTypes
<1>4. c \in SyncContent
  BY <1>1 DEF SyncContent, SyncOp, Copies!Ops, Copies!Put, Copies!Delete, Copies!Add
<1>5. \A s \in Replicas : \A d \in Copies!Digest(logs[s]) : d.at < writes /\ d # c
  <2>1. SUFFICES ASSUME NEW s \in Replicas, NEW d \in Copies!Digest(logs[s]) PROVE d.at < writes /\ d # c
    OBVIOUS
  <2>2. d.at < writes
    BY DEF SyncInv, SyncWhole
  <2>3. d.at \in Nat
    <3>1. PICK i \in 1..Len(logs[s]) : d = logs[s][i].content
      BY DEF Copies!Digest
    <3>2. d \in SyncContent
      BY <3>1, LogTypes DEF SyncInv, SyncTypes
    <3>3. QED
      BY <3>2 DEF SyncContent
  <2>4. QED
    BY <1>1, <2>2, <2>3
<1>6. /\ IsLog(w) /\ Len(w) = Len(a) + 1
      /\ \A i \in 1..Len(a) : w[i] = a[i]
      /\ w[Len(a) + 1] = [prev |-> Copies!HeadOf(a), content |-> c]
  <2> HIDE DEF a, c
  <2>1. QED
    BY <1>1, <1>4, LinkedIs
<1>7. Len(a) \in Nat /\ (a = <<>> <=> Len(a) = 0)
  <2>1. Len(a) \in Nat
    BY <1>1, LogTypes
  <2>2. PICK P : a \in Seq([prev : P, content : SyncContent])
    BY <1>1 DEF IsLog
  <2> HIDE DEF a
  <2>3. QED
    BY <2>1, <2>2
<1> HIDE DEF a, c, w
<1>8. Chained(w)
  <2>1. ASSUME NEW i \in 1..Len(w) PROVE w[i].prev = IF i = 1 THEN Copies!Zero ELSE Copies!Hash(w[i - 1])
    <3>1. CASE i = Len(a) + 1
      <4>1. w[i].prev = Copies!HeadOf(a) /\ (i # 1 => w[i - 1] = a[Len(a)])
        BY <1>6, <1>7, <3>1
      <4>2. a = <<>> <=> i = 1
        BY <1>7, <3>1
      <4>3. QED
        BY <3>1, <4>1, <4>2 DEF Copies!HeadOf
    <3>2. CASE i # Len(a) + 1
      <4>1. i \in 1..Len(a) /\ w[i] = a[i] /\ (i # 1 => w[i - 1] = a[i - 1])
        BY <1>6, <1>7, <3>2
      <4>2. QED
        BY <1>1, <4>1 DEF Chained
    <3>3. QED
      BY <3>1, <3>2
  <2>2. QED
    BY <2>1 DEF Chained
<1>9. Copies!Digest(w) = Copies!Digest(a) \cup {c}
  <2>1. \A d \in Copies!Digest(w) : d \in Copies!Digest(a) \cup {c}
    <3>1. SUFFICES ASSUME NEW i \in 1..Len(w) PROVE w[i].content \in Copies!Digest(a) \cup {c}
      BY DEF Copies!Digest
    <3>2. CASE i = Len(a) + 1
      BY <1>6, <3>2
    <3>3. CASE i # Len(a) + 1
      <4>1. i \in 1..Len(a)
        BY <1>6, <1>7, <3>3
      <4>2. QED
        BY <1>6, <4>1 DEF Copies!Digest
    <3>4. QED
      BY <3>2, <3>3
  <2>2. \A d \in Copies!Digest(a) : d \in Copies!Digest(w)
    <3>1. SUFFICES ASSUME NEW i \in 1..Len(a) PROVE a[i].content \in Copies!Digest(w)
      BY DEF Copies!Digest
    <3>2. i \in 1..Len(w) /\ w[i] = a[i]
      BY <1>6, <1>7
    <3>3. QED
      BY <3>2 DEF Copies!Digest
  <2>3. c \in Copies!Digest(w)
    <3>1. Len(a) + 1 \in 1..Len(w) /\ w[Len(a) + 1].content = c
      BY <1>6, <1>7
    <3>2. QED
      BY <3>1 DEF Copies!Digest
  <2>4. QED
    BY <2>1, <2>2, <2>3
<1>10. Unrepeated(w)
  <2>1. SUFFICES ASSUME NEW i \in 1..Len(w), NEW j \in 1..Len(w), w[i].content = w[j].content
                 PROVE  i = j
    BY DEF Unrepeated
  <2>2. \A k \in 1..Len(a) : w[k].content # c
    BY <1>5, <1>6 DEF Copies!Digest, a
  <2>3. \A k \in 1..Len(w) : k # Len(a) + 1 => k \in 1..Len(a)
    BY <1>6, <1>7
  <2>4. CASE i \in 1..Len(a) /\ j \in 1..Len(a)
    BY <1>1, <1>6, <2>1, <2>4 DEF Unrepeated
  <2>5. CASE i = Len(a) + 1 \/ j = Len(a) + 1
    BY <1>6, <2>1, <2>2, <2>3, <2>5
  <2>6. QED
    BY <2>3, <2>4, <2>5
<1>11. SyncTypes'
  <2>1. \A s \in Replicas : IsLog(logs'[s])
    BY <1>3, <1>6 DEF SyncInv, SyncTypes
  <2>2. writes' \in Nat
    BY <1>1, <1>2
  <2>3. QED
    BY <1>3, <2>1, <2>2 DEF SyncTypes, IsLog
<1>12. \A s \in Replicas : Copies!Digest(logs[s]) \subseteq Copies!Digest(logs'[s])
  BY <1>3, <1>9 DEF a
<1>13. ASSUME NEW s \in Replicas
       PROVE  /\ Chained(logs'[s]) /\ Unrepeated(logs'[s])
              /\ \A d \in Copies!Digest(logs'[s]) : d.at < writes' /\ d \in Copies!Digest(logs'[d.by])
  <2>1. Chained(logs'[s]) /\ Unrepeated(logs'[s])
    BY <1>3, <1>8, <1>10 DEF SyncInv, SyncWhole
  <2>2. ASSUME NEW d \in Copies!Digest(logs[s]) PROVE d.at < writes' /\ d \in Copies!Digest(logs'[d.by])
    <3>1. d.at < writes /\ d \in Copies!Digest(logs[d.by])
      BY DEF SyncInv, SyncWhole
    <3>2. d.by \in Replicas /\ d.at \in Nat
      <4>1. PICK i \in 1..Len(logs[s]) : d = logs[s][i].content
        BY DEF Copies!Digest
      <4>2. d \in SyncContent
        BY <4>1, LogTypes DEF SyncInv, SyncTypes
      <4>3. QED
        BY <4>2 DEF SyncContent
    <3>3. QED
      BY <1>1, <1>2, <1>12, <3>1, <3>2
  <2>3. c.at < writes' /\ c \in Copies!Digest(logs'[c.by])
    BY <1>1, <1>2, <1>3, <1>9 DEF c
  <2>4. Copies!Digest(logs'[s]) \subseteq Copies!Digest(logs[s]) \cup {c}
    BY <1>3, <1>9 DEF a
  <2>5. QED
    BY <2>1, <2>2, <2>3, <2>4
<1>14. ASSUME NEW s \in Replicas, NEW t \in Replicas PROVE Agree(logs'[s], logs'[t])
  <2>1. ASSUME NEW u \in Replicas \ {r} PROVE Agree(w, logs[u]) /\ Agree(logs[u], w)
    <3>1. Agree(a, logs[u]) /\ Agree(logs[u], a) /\ IsLog(logs[u]) /\ c \notin Copies!Digest(logs[u])
      BY <1>5 DEF SyncInv, SyncAgree, SyncTypes, a
    <3>2. QED
      BY <1>1, <1>4, <3>1, WrittenAgrees DEF w
  <2>2. Agree(w, w)
    BY <1>10, AgreesWithItself
  <2>3. Agree(logs[s], logs[t])
    BY DEF SyncInv, SyncAgree
  <2>4. QED
    BY <1>3, <2>1, <2>2, <2>3
<1>15. SyncWhole' /\ SyncAgree'
  BY <1>13, <1>14 DEF SyncWhole, SyncAgree, Chained, Unrepeated, Agree, Copies!Digest, Copies!Hash,
                      Copies!Zero, SameKey, Copies!Assigns
<1>16. QED
  BY <1>11, <1>15 DEF SyncInv

LEMMA CopySendKeepsInv ==
  ASSUME SyncInv, NEW r \in Replicas, NEW s \in Replicas, r # s, Copies!Send(r, s)
  PROVE  SyncInv'
<1> DEFINE a == logs[r]
           b == logs[s]
           lacked == Copies!Lacking(a, b)
           w == Copies!Rebased(a, lacked, b)
<1>1. /\ Copies!Plan(a, b).conflicts = {} /\ Copies!Plan(a, b).to_send = lacked
      /\ logs' = [logs EXCEPT ![s] = w] /\ writes' = writes
  BY DEF Copies!Send, Copies!Plan
<1>2. logs' = [t \in Replicas |-> logs'[t]] /\ logs'[s] = w /\ \A t \in Replicas \ {s} : logs'[t] = logs[t]
  BY <1>1 DEF SyncInv, SyncTypes
<1>3. /\ IsLog(a) /\ IsLog(b) /\ Chained(b) /\ Unrepeated(a) /\ Unrepeated(b)
      /\ lacked \in SUBSET (1..Len(a))
  BY DEF SyncInv, SyncTypes, SyncWhole, Copies!Lacking
<1> HIDE DEF a, b
<1>4. PICK f : Grown(a, b, lacked, w, f)
  BY <1>3, RebasedGrows
<1>5. IsLog(w) /\ Chained(w)
  BY <1>4 DEF Grown
<1>6. Unrepeated(w) /\ Copies!Digest(w) = Copies!Digest(a) \cup Copies!Digest(b)
  <2> HIDE DEF w
  <2>1. QED
    BY <1>3, <1>4, GrownIsUnrepeated
<1> HIDE DEF w
<1>7. SyncTypes'
  <2>1. \A t \in Replicas : IsLog(logs'[t])
    BY <1>2, <1>5 DEF SyncInv, SyncTypes
  <2>2. QED
    BY <1>1, <1>2, <2>1 DEF SyncInv, SyncTypes, IsLog
<1>8. \A t \in Replicas : Copies!Digest(logs[t]) \subseteq Copies!Digest(logs'[t])
  BY <1>2, <1>6 DEF b
<1>9. ASSUME NEW t \in Replicas
      PROVE  /\ Chained(logs'[t]) /\ Unrepeated(logs'[t])
             /\ \A d \in Copies!Digest(logs'[t]) : d.at < writes' /\ d \in Copies!Digest(logs'[d.by])
  <2>1. Chained(logs'[t]) /\ Unrepeated(logs'[t])
    BY <1>2, <1>5, <1>6 DEF SyncInv, SyncWhole
  <2>2. \A u \in Replicas : \A d \in Copies!Digest(logs[u]) : d.at < writes' /\ d \in Copies!Digest(logs'[d.by])
    <3>1. SUFFICES ASSUME NEW u \in Replicas, NEW d \in Copies!Digest(logs[u])
                   PROVE  d.at < writes' /\ d \in Copies!Digest(logs'[d.by])
      OBVIOUS
    <3>2. d.at < writes /\ d \in Copies!Digest(logs[d.by])
      BY DEF SyncInv, SyncWhole
    <3>3. d.by \in Replicas
      <4>1. PICK i \in 1..Len(logs[u]) : d = logs[u][i].content
        BY DEF Copies!Digest
      <4>2. d \in SyncContent
        BY <4>1, LogTypes DEF SyncInv, SyncTypes
      <4>3. QED
        BY <4>2 DEF SyncContent
    <3>4. QED
      BY <1>1, <1>8, <3>2, <3>3
  <2>3. \A d \in Copies!Digest(logs'[t]) : \E u \in Replicas : d \in Copies!Digest(logs[u])
    BY <1>2, <1>6 DEF a, b
  <2>4. QED
    BY <2>1, <2>2, <2>3
<1>10. ASSUME NEW t \in Replicas, NEW u \in Replicas PROVE Agree(logs'[t], logs'[u])
  <2>1. ASSUME NEW v \in Replicas \ {s} PROVE Agree(w, logs[v]) /\ Agree(logs[v], w)
    <3>1. /\ Agree(a, b) /\ Agree(a, logs[v]) /\ Agree(b, logs[v]) /\ Agree(logs[v], a) /\ Agree(logs[v], b)
          /\ IsLog(logs[v])
      BY DEF SyncInv, SyncAgree, SyncTypes, a, b
    <3>2. QED
      BY <1>1, <1>3, <1>4, <3>1, GrownAgrees
  <2>2. Agree(w, w)
    BY <1>6, AgreesWithItself
  <2>3. Agree(logs[t], logs[u])
    BY DEF SyncInv, SyncAgree
  <2>4. QED
    BY <1>2, <2>1, <2>2, <2>3
<1>11. SyncWhole' /\ SyncAgree'
  BY <1>9, <1>10 DEF SyncWhole, SyncAgree, Chained, Unrepeated, Agree, Copies!Digest, Copies!Hash,
                     Copies!Zero, SameKey, Copies!Assigns
<1>12. QED
  BY <1>7, <1>11 DEF SyncInv

LEMMA SyncInvNext ==
  ASSUME SyncInv, [Copies!Next]_(Copies!vars)
  PROVE  SyncInv'
<1>1. CASE Copies!Next
  <2>1. CASE \E r \in Replicas : \E op \in Copies!Ops(writes) : Copies!Write(r, op)
    BY <2>1, CopyWriteKeepsInv
  <2>2. CASE \E r, s \in Replicas : r # s /\ Copies!Send(r, s)
    BY <2>2, CopySendKeepsInv
  <2>3. QED
    BY <1>1, <2>1, <2>2 DEF Copies!Next
<1>2. CASE UNCHANGED Copies!vars
  <2>1. logs' = logs /\ writes' = writes
    BY <1>2 DEF Copies!vars
  <2>2. SyncTypes'
    BY <2>1 DEF SyncInv, SyncTypes, IsLog
  <2>3. SyncWhole'
    BY <2>1 DEF SyncInv, SyncWhole, Chained, Unrepeated, Copies!Digest, Copies!Hash, Copies!Zero
  <2>4. SyncAgree'
    BY <2>1 DEF SyncInv, SyncAgree, Agree, SameKey, Copies!Assigns
  <2>5. QED
    BY <2>2, <2>3, <2>4 DEF SyncInv
<1>3. QED
  BY <1>1, <1>2

LEMMA LastOfIs ==
  ASSUME NEW n \in Nat, NEW S \in SUBSET (1..n), S # {}
  PROVE  Copies!LastOf(S) \in S /\ \A j \in S : j <= Copies!LastOf(S)
<1>1. \E i \in S : \A j \in S : j <= i
  BY GreatestExists
<1>2. QED
  BY <1>1 DEF Copies!LastOf

LEMMA SameEntriesSameValue ==
  ASSUME NEW a, IsLog(a), NEW b, IsLog(b), Unrepeated(b), Agree(a, b),
         Copies!Digest(a) = Copies!Digest(b), NEW k
  PROVE  Copies!ValueOf(a, k) = Copies!ValueOf(b, k)
<1> DEFINE A == Copies!Assignments(a, k)
           B == Copies!Assignments(b, k)
<1>1. Len(a) \in Nat /\ Len(b) \in Nat
  BY LogTypes
<1>2. A \in SUBSET (1..Len(a)) /\ B \in SUBSET (1..Len(b))
  BY DEF Copies!Assignments, Copies!OpsOn
<1>3. \A i \in 1..Len(a) : \E n \in 1..Len(b) : a[i].content = b[n].content
  <2>1. \A i \in 1..Len(a) : a[i].content \in Copies!Digest(b)
    <3>1. \A i \in 1..Len(a) : a[i].content \in Copies!Digest(a)
      BY DEF Copies!Digest
    <3>2. QED
      BY <3>1
  <2>2. QED
    BY <2>1 DEF Copies!Digest
<1>4. \A n \in 1..Len(b) : \E i \in 1..Len(a) : a[i].content = b[n].content
  <2>1. \A n \in 1..Len(b) : b[n].content \in Copies!Digest(a)
    <3>1. \A n \in 1..Len(b) : b[n].content \in Copies!Digest(b)
      BY DEF Copies!Digest
    <3>2. QED
      BY <3>1
  <2>2. QED
    BY <2>1 DEF Copies!Digest
<1>5. \A i \in 1..Len(a), n \in 1..Len(b) : a[i].content = b[n].content => (i \in A <=> n \in B)
  BY DEF Copies!Assignments, Copies!OpsOn, Copies!Assigns
<1>6. \A i, j \in A : SameKey(a[i], a[j])
  BY DEF Copies!Assignments, Copies!OpsOn, SameKey
<1> HIDE DEF A, B
<1>7. A = {} <=> B = {}
  <2>1. ASSUME NEW i \in A PROVE B # {}
    BY <1>2, <1>3, <1>5
  <2>2. ASSUME NEW n \in B PROVE A # {}
    BY <1>2, <1>4, <1>5
  <2>3. QED
    BY <2>1, <2>2
<1>8. CASE A = {}
  BY <1>7, <1>8 DEF Copies!ValueOf, A, B
<1>9. CASE A # {}
  <2> DEFINE i == Copies!LastOf(A)
             n == Copies!LastOf(B)
  <2>1. i \in A /\ n \in B /\ (\A j \in A : j <= i) /\ \A m \in B : m <= n
    BY <1>1, <1>2, <1>7, <1>9, LastOfIs
  <2>2. Copies!ValueOf(a, k) = a[i].content.op /\ Copies!ValueOf(b, k) = b[n].content.op
    BY <1>7, <1>9 DEF Copies!ValueOf, A, B
  <2> HIDE DEF i, n
  <2>3. i \in 1..Len(a) /\ n \in 1..Len(b)
    BY <1>2, <2>1
  <2>4. PICK j \in 1..Len(a) : a[j].content = b[n].content
    BY <1>4, <2>3
  <2>5. PICK m \in 1..Len(b) : a[i].content = b[m].content
    BY <1>3, <2>3
  <2>6. j \in A /\ m \in B
    BY <1>5, <2>1, <2>3, <2>4, <2>5
  <2>7. j <= i /\ m <= n
    BY <2>1, <2>6
  <2>8. ASSUME j < i PROVE FALSE
    <3>1. SameKey(a[j], a[i]) /\ Agree(a, b)
      BY <1>6, <2>1, <2>6
    <3>2. PICK q \in 1..Len(b) : q < m /\ b[q].content = a[j].content
      <4>1. i \in 1..Len(a) /\ j \in 1..Len(a) /\ m \in 1..Len(b)
        BY <2>3
      <4>2. QED
        BY ONLY <3>1, <4>1, <2>8, <2>5 DEF Agree
    <3>3. q = n
      BY <2>3, <2>4, <3>2 DEF Unrepeated
    <3>4. QED
      BY <1>1, <2>3, <2>7, <3>2, <3>3
  <2>9. i = j
    BY <1>1, <2>3, <2>7, <2>8
  <2>10. QED
    BY <2>2, <2>4, <2>9
<1>10. QED
  BY <1>8, <1>9

\* The instance's cardinality is the library's.
LEMMA CountedAlike == \A S : Copies!Cardinality(S) = Cardinality(S)
  BY Zenon DEF Copies!Cardinality, Cardinality

LEMMA SameEntriesSameCount ==
  ASSUME NEW a, IsLog(a), NEW b, IsLog(b), Unrepeated(a), Unrepeated(b),
         Copies!Digest(a) = Copies!Digest(b), NEW k
  PROVE  Copies!CountOf(a, k) = Copies!CountOf(b, k)
<1> DEFINE A == Copies!OpsOn(a, k) \ Copies!Assignments(a, k)
           B == Copies!OpsOn(b, k) \ Copies!Assignments(b, k)
           f == [i \in A |-> CHOOSE n \in 1..Len(b) : a[i].content = b[n].content]
<1>1. Len(a) \in Nat /\ Len(b) \in Nat
  BY LogTypes
<1>2. A \in SUBSET (1..Len(a)) /\ B \in SUBSET (1..Len(b))
  BY DEF Copies!OpsOn
<1>3. \A i \in 1..Len(a) : \E n \in 1..Len(b) : a[i].content = b[n].content
  <2>1. \A i \in 1..Len(a) : a[i].content \in Copies!Digest(b)
    <3>1. \A i \in 1..Len(a) : a[i].content \in Copies!Digest(a)
      BY DEF Copies!Digest
    <3>2. QED
      BY <3>1
  <2>2. QED
    BY <2>1 DEF Copies!Digest
<1>4. \A n \in 1..Len(b) : \E i \in 1..Len(a) : a[i].content = b[n].content
  <2>1. \A n \in 1..Len(b) : b[n].content \in Copies!Digest(a)
    <3>1. \A n \in 1..Len(b) : b[n].content \in Copies!Digest(b)
      BY DEF Copies!Digest
    <3>2. QED
      BY <3>1
  <2>2. QED
    BY <2>1 DEF Copies!Digest
<1>5. \A i \in 1..Len(a), n \in 1..Len(b) : a[i].content = b[n].content => (i \in A <=> n \in B)
  BY DEF Copies!Assignments, Copies!OpsOn, Copies!Assigns
<1> HIDE DEF A, B
<1>6. \A i \in A : f[i] \in 1..Len(b) /\ a[i].content = b[f[i]].content
  BY <1>2, <1>3
<1>7. DOMAIN f = A /\ f = [i \in A |-> f[i]]
  OBVIOUS
<1> HIDE DEF f
<1>8. \A i \in A : f[i] \in B
  BY <1>2, <1>5, <1>6
<1>9. \A i, j \in A : f[i] = f[j] => i = j
  BY <1>2, <1>6 DEF Unrepeated
<1>10. \A n \in B : \E i \in A : f[i] = n
  <2>1. SUFFICES ASSUME NEW n \in B PROVE \E i \in A : f[i] = n
    OBVIOUS
  <2>2. PICK i \in 1..Len(a) : a[i].content = b[n].content
    BY <1>2, <1>4
  <2>3. i \in A
    BY <1>2, <1>5, <2>2
  <2>4. f[i] = n
    BY <1>2, <1>6, <2>2, <2>3 DEF Unrepeated
  <2>5. QED
    BY <2>3, <2>4
<1>11. f \in Bijection(A, B)
  <2>1. f \in [A -> B]
    BY <1>7, <1>8
  <2>2. f \in Injection(A, B)
    BY <1>9, <2>1 DEF Injection, IsInjective
  <2>3. f \in Surjection(A, B)
    BY <1>10, <2>1 DEF Surjection
  <2>4. QED
    BY <2>2, <2>3 DEF Bijection
<1>12. IsFiniteSet(A)
  <2>1. IsFiniteSet(1..Len(a))
    BY <1>1, FS_Interval
  <2>2. QED
    BY <1>2, <2>1, FS_Subset
<1>13. Cardinality(A) = Cardinality(B)
  <2>1. ExistsBijection(A, B)
    BY <1>11 DEF ExistsBijection
  <2>2. QED
    BY <1>12, <2>1, FS_Bijection
<1>14. QED
  BY <1>13, CountedAlike DEF Copies!CountOf, A, B

LEMMA AsManyAsItsLength ==
  ASSUME NEW a, IsLog(a), Unrepeated(a)
  PROVE  Cardinality(Copies!Digest(a)) = Len(a)
<1> DEFINE f == [i \in 1..Len(a) |-> a[i].content]
           D == Copies!Digest(a)
<1>1. Len(a) \in Nat
  BY LogTypes
<1>2. \A i \in 1..Len(a) : f[i] = a[i].content /\ f[i] \in D
  BY DEF Copies!Digest
<1>3. \A d \in D : \E i \in 1..Len(a) : f[i] = d
  BY DEF Copies!Digest
<1>4. \A i, j \in 1..Len(a) : f[i] = f[j] => i = j
  BY <1>2 DEF Unrepeated
<1>5. f \in [1..Len(a) -> D]
  BY <1>2
<1> HIDE DEF f, D
<1>6. f \in Bijection(1..Len(a), D)
  <2>1. f \in Injection(1..Len(a), D)
    BY <1>4, <1>5 DEF Injection, IsInjective
  <2>2. f \in Surjection(1..Len(a), D)
    BY <1>3, <1>5 DEF Surjection
  <2>3. QED
    BY <2>1, <2>2 DEF Bijection
<1>7. IsFiniteSet(1..Len(a)) /\ Cardinality(1..Len(a)) = Len(a)
  <2>1. IsFiniteSet(1..Len(a))
    BY <1>1, FS_Interval
  <2>2. Cardinality(1..Len(a)) = IF 1 > Len(a) THEN 0 ELSE Len(a) - 1 + 1
    BY <1>1, FS_Interval
  <2>3. QED
    BY <1>1, <2>1, <2>2
<1>8. Cardinality(D) = Cardinality(1..Len(a))
  <2>1. ExistsBijection(1..Len(a), D)
    BY <1>6 DEF ExistsBijection
  <2>2. QED
    BY <1>7, <2>1, FS_Bijection
<1>9. QED
  BY <1>7, <1>8 DEF D

LEMMA SyncInvConverges ==
  ASSUME SyncInv
  PROVE  Copies!ReplicasConverge
<1>1. ASSUME NEW r \in Replicas, NEW s \in Replicas, Copies!Digest(logs[r]) = Copies!Digest(logs[s])
      PROVE  /\ Copies!State(logs[r]) = Copies!State(logs[s])
             /\ Copies!Plan(logs[r], logs[s]) = [to_send |-> {}, conflicts |-> {}]
  <2>1. /\ IsLog(logs[r]) /\ IsLog(logs[s]) /\ Unrepeated(logs[r]) /\ Unrepeated(logs[s])
        /\ Agree(logs[r], logs[s])
    BY DEF SyncInv, SyncTypes, SyncWhole, SyncAgree
  <2>2. \A k \in SyncKeys : Copies!ValueOf(logs[r], k) = Copies!ValueOf(logs[s], k)
    BY <1>1, <2>1, SameEntriesSameValue
  <2>3. \A k \in SyncKeys : Copies!CountOf(logs[r], k) = Copies!CountOf(logs[s], k)
    BY <1>1, <2>1, SameEntriesSameCount
  <2>4. Copies!Lacking(logs[r], logs[s]) = {}
    <3>1. \A i \in 1..Len(logs[r]) : logs[r][i].content \in Copies!Digest(logs[r])
      BY DEF Copies!Digest
    <3>2. QED
      BY <1>1, <3>1 DEF Copies!Lacking
  <2>5. Copies!AssignedKeys(logs[r], {}) = {}
    BY DEF Copies!AssignedKeys
  <2>6. Copies!Plan(logs[r], logs[s]) = [to_send |-> {}, conflicts |-> {}]
    BY <2>4, <2>5 DEF Copies!Plan
  <2>7. QED
    BY <2>2, <2>3, <2>6 DEF Copies!State
<1>2. Copies!SameEntriesSameState
  BY <1>1 DEF Copies!SameEntriesSameState
<1>3. ASSUME NEW r \in Replicas
      PROVE  /\ \A i \in 1..Len(logs[r]) :
                  logs[r][i].prev = IF i = 1 THEN Copies!Zero ELSE Copies!Hash(logs[r][i - 1])
             /\ Cardinality(Copies!Digest(logs[r])) = Len(logs[r])
             /\ \A c \in Copies!Digest(logs[r]) : c \in Copies!Digest(logs[c.by])
  <2>1. IsLog(logs[r]) /\ Chained(logs[r]) /\ Unrepeated(logs[r])
    BY DEF SyncInv, SyncTypes, SyncWhole
  <2>2. \A c \in Copies!Digest(logs[r]) : c \in Copies!Digest(logs[c.by])
    BY DEF SyncInv, SyncWhole
  <2>3. Cardinality(Copies!Digest(logs[r])) = Len(logs[r])
    BY <2>1, AsManyAsItsLength
  <2>4. QED
    BY <2>1, <2>2, <2>3 DEF Chained
<1>4. Copies!ChainsStayWhole
  <2>1. \A r \in Replicas : Copies!Cardinality(Copies!Digest(logs[r])) = Len(logs[r])
    BY <1>3, CountedAlike
  <2>2. QED
    BY <1>3, <2>1 DEF Copies!ChainsStayWhole
<1>5. QED
  BY <1>2, <1>4 DEF Copies!ReplicasConverge

(* However entries travel between replicas, those that hold the same ones say   *)
(* the same and have nothing to send, and every log stays one chain without a   *)
(* repeated or a forged entry (sync.rs:8-36, 180-201): for any replicas, keys   *)
(* and number of writes.                                                       *)
THEOREM CopiesConverge ==
  ASSUME Copies!SyncAssumption
  PROVE  Copies!Spec => []ReplicasConverge
<1>1. Copies!Init => SyncInv
  BY SyncInvInit
<1>2. SyncInv /\ [Copies!Next]_(Copies!vars) => SyncInv'
  BY SyncInvNext
<1>3. SyncInv => ReplicasConverge
  BY SyncInvConverges DEF ReplicasConverge
<1>4. QED
  BY <1>1, <1>2, <1>3, PTL DEF Copies!Spec

-----------------------------------------------------------------------------
(* Scribe's clients                                                         *)

ClientRequests ==
    {Clients!GetOf(k) : k \in ClientKeys} \cup {Clients!PutOf(k) : k \in ClientKeys} \cup {Clients!Sweep}
WireRequests == [id : Int, branch : Clients!Branches, body : ClientRequests]
WireReplies == [id : Int, value : Int]
Connections == [next : Int, wire : Seq(WireRequests), back : Seq(WireReplies)]
TaskRecords ==
    [pc : Clients!Stages, h : Clients!Handles, reqs : Seq(ClientRequests),
     conn : Connections, got : Seq(Int), raced : BOOLEAN]
CacheEntries == [value : Nat, at : Int, sequence : Nat, raced : BOOLEAN]
CacheRecords ==
    [entries : UNION {[held -> CacheEntries] : held \in SUBSET ClientKeys}, sequence : Nat]

ClientTypes ==
    /\ stored \in [Clients!Branches -> [ClientKeys -> Nat]]
    /\ wrote \in Seq(Clients!Branches \X (ClientKeys \cup {"*"}))
    /\ caches \in [Clients!Handles -> CacheRecords]
    /\ tasks \in [ClientTasks -> TaskRecords]
    /\ idle \in Seq(Connections)
    /\ orphans \subseteq Seq(WireRequests) \ {<<>>}
    /\ acked \in [Clients!Handles -> [ClientKeys -> Nat]]
    /\ hour \in Int

\* What the log of writes may say of a value of key k of branch b: nothing, when
\* none was ever written, or that it is a write of that key, or of all keys.
Bears(ledger, b, k, v) == v = 0 \/ (v \in 1..Len(ledger) /\ ledger[v] \in {<<b, k>>, <<b, "*">>})

\* A row is its last write, of its own key and branch.
StoreOk(rows, ledger) ==
    \A b \in Clients!Branches, k \in ClientKeys :
        /\ Bears(ledger, b, k, rows[b][k])
        /\ \A n \in 1..Len(ledger) : ledger[n] \in {<<b, k>>, <<b, "*">>} => n <= rows[b][k]

\* What a handle was told had landed is no later than what is there.
AcksOk(rows, acks) ==
    \A h \in Clients!Handles, k \in ClientKeys : acks[h][k] <= rows[ClientBranch[h]][k]

\* What a server may answer to the i-th request of a call: a refusal; to a get, a
\* value the key had since the call began, if no write of the same cache overlaps
\* it; to a write, its own number.
Tells(ledger, acks, task, i, v) ==
    \/ v = -1
    \/ \E k \in ClientKeys :
        /\ task.reqs[i] = Clients!GetOf(k) /\ Bears(ledger, ClientBranch[task.h], k, v)
        /\ task.raced \/ v >= acks[task.h][k]
    \/ /\ task.reqs[i].op # "get" /\ v \in 1..Len(ledger)
       /\ ledger[v] = <<ClientBranch[task.h], task.reqs[i].key>>

\* A call is a get, a change to all keys, or puts.
IsGet(reqs, k) == reqs = <<Clients!GetOf(k)>>
ArePuts(reqs) == reqs # <<>> /\ \A i \in 1..Len(reqs) : \E k \in ClientKeys : reqs[i] = Clients!PutOf(k)
Called(reqs) == (\E k \in ClientKeys : IsGet(reqs, k)) \/ reqs = <<Clients!Sweep>> \/ ArePuts(reqs)

\* The replies a call was given or has coming answer its first requests, in order,
\* and what is still with the server are the others.
Exchanged(ledger, acks, task) ==
    /\ Len(task.got) + Len(task.conn.back) + Len(task.conn.wire) = Len(task.reqs)
    /\ \A i \in 1..Len(task.conn.wire) :
        /\ task.conn.wire[i].branch = ClientBranch[task.h]
        /\ task.conn.wire[i].body = task.reqs[Len(task.got) + Len(task.conn.back) + i]
    /\ \A i \in 1..Len(task.got) : Tells(ledger, acks, task, i, task.got[i])
    /\ \A i \in 1..Len(task.conn.back) :
        Tells(ledger, acks, task, Len(task.got) + i, task.conn.back[i].value)

TaskOk(ledger, acks, task) ==
    /\ task.pc # "rest" => Called(task.reqs)
    /\ task.pc \in {"acquire", "open", "retry"} => task.got = <<>>
    /\ task.pc = "await" => Exchanged(ledger, acks, task)
    /\ task.pc = "settle" =>
        /\ Len(task.got) = Len(task.reqs)
        /\ \A i \in 1..Len(task.got) : Tells(ledger, acks, task, i, task.got[i])

\* Of a get and a write of its key through one cache, under way together, the get
\* is marked;
RacesMarked(calls) ==
    \A t, u \in ClientTasks, k \in ClientKeys :
        /\ calls[t].pc # "rest" /\ calls[u].pc # "rest" /\ calls[t].h = calls[u].h
        /\ IsGet(calls[t].reqs, k) /\ k \in Clients!Writes(calls[u].reqs)
        => calls[t].raced
\* and while a write is under way its cache holds nothing of its keys but what a
\* marked get stored.
Evicted(calls, held) ==
    \A t \in ClientTasks : calls[t].pc # "rest" =>
        \A k \in Clients!Writes(calls[t].reqs) \cap DOMAIN held[calls[t].h].entries :
            held[calls[t].h].entries[k].raced

CacheOk(ledger, acks, h, cache) ==
    /\ Cardinality(DOMAIN cache.entries) <= CacheSize[h]
    /\ \A k \in DOMAIN cache.entries :
        /\ Bears(ledger, ClientBranch[h], k, cache.entries[k].value)
        /\ cache.entries[k].raced \/ cache.entries[k].value >= acks[h][k]

PoolOk(conns) ==
    /\ Len(conns) <= ClientPool
    /\ \A i \in 1..Len(conns) : conns[i].wire = <<>> /\ conns[i].back = <<>>

ClientInv ==
    /\ ClientTypes
    /\ StoreOk(stored, wrote) /\ AcksOk(stored, acked)
    /\ \A t \in ClientTasks : TaskOk(wrote, acked, tasks[t])
    /\ \A h \in Clients!Handles : CacheOk(wrote, acked, h, caches[h])
    /\ RacesMarked(tasks) /\ Evicted(tasks, caches) /\ PoolOk(idle)

-----------------------------------------------------------------------------
(* What a call writes, and what is left of a cache                          *)

LEMMA ClientCounts == \A S : Clients!Cardinality(S) = Cardinality(S) /\ (Clients!IsFiniteSet(S) <=> IsFiniteSet(S))
  BY DEF Clients!Cardinality, Cardinality, Clients!IsFiniteSet, IsFiniteSet

LEMMA RequestsDiffer ==
  ASSUME Clients!ScribeAssumption, NEW k \in ClientKeys, NEW l \in ClientKeys
  PROVE  /\ Clients!GetOf(k) # Clients!PutOf(l) /\ Clients!GetOf(k) # Clients!Sweep /\ Clients!PutOf(k) # Clients!Sweep
         /\ Clients!GetOf(k) = Clients!GetOf(l) => k = l
         /\ Clients!PutOf(k) = Clients!PutOf(l) => k = l
  BY DEF Clients!GetOf, Clients!PutOf, Clients!Sweep, Clients!ScribeAssumption

LEMMA GetWrites ==
  ASSUME Clients!ScribeAssumption, NEW k \in ClientKeys, NEW reqs, IsGet(reqs, k)
  PROVE  /\ Clients!Writes(reqs) = {} /\ Clients!ToSet(reqs) = {Clients!GetOf(k)}
         /\ reqs # <<>> /\ Len(reqs) = 1 /\ reqs[1] = Clients!GetOf(k) /\ reqs \in Seq(ClientRequests)
<1>1. Clients!ToSet(reqs) = {Clients!GetOf(k)} /\ reqs # <<>> /\ Len(reqs) = 1 /\ reqs[1] = Clients!GetOf(k)
  BY DEF IsGet, Clients!ToSet
<1>2. Clients!Sweep \notin Clients!ToSet(reqs) /\ Clients!GetOf(k).op # "put"
  BY <1>1, RequestsDiffer DEF Clients!GetOf
<1>3. reqs \in Seq(ClientRequests)
  BY DEF IsGet, ClientRequests
<1> QED
  BY <1>1, <1>2, <1>3 DEF Clients!Writes

LEMMA SweepWrites ==
  ASSUME Clients!ScribeAssumption
  PROVE  /\ Clients!Writes(<<Clients!Sweep>>) = ClientKeys
         /\ <<Clients!Sweep>> \in Seq(ClientRequests) /\ <<Clients!Sweep>> # <<>>
         /\ \A k \in ClientKeys : ~IsGet(<<Clients!Sweep>>, k) /\ Clients!GetOf(k) \notin Clients!ToSet(<<Clients!Sweep>>)
<1>1. Clients!ToSet(<<Clients!Sweep>>) = {Clients!Sweep} /\ <<Clients!Sweep>>[1] = Clients!Sweep
  BY DEF Clients!ToSet
<1>2. <<Clients!Sweep>> \in Seq(ClientRequests)
  BY DEF ClientRequests
<1>3. ASSUME NEW k \in ClientKeys PROVE <<Clients!GetOf(k)>>[1] # <<Clients!Sweep>>[1]
  BY <1>1, RequestsDiffer
<1> QED
  BY <1>1, <1>2, <1>3, RequestsDiffer DEF Clients!Writes, IsGet

LEMMA PutWrites ==
  ASSUME Clients!ScribeAssumption, NEW reqs \in Seq(ClientRequests), ArePuts(reqs)
  PROVE  /\ Clients!Writes(reqs) = {reqs[i].key : i \in 1..Len(reqs)} /\ Clients!Writes(reqs) \subseteq ClientKeys
         /\ \A k \in ClientKeys : ~IsGet(reqs, k) /\ Clients!GetOf(k) \notin Clients!ToSet(reqs)
         /\ reqs[1] # Clients!Sweep /\ reqs[1].op # "get" /\ reqs # <<Clients!Sweep>> /\ Len(reqs) > 0
<1>1. \A i \in 1..Len(reqs) : reqs[i].op = "put" /\ reqs[i].key \in ClientKeys /\ reqs[i] = Clients!PutOf(reqs[i].key)
  <2> SUFFICES ASSUME NEW i \in 1..Len(reqs)
      PROVE  reqs[i].op = "put" /\ reqs[i].key \in ClientKeys /\ reqs[i] = Clients!PutOf(reqs[i].key)
    OBVIOUS
  <2>1. PICK k \in ClientKeys : reqs[i] = Clients!PutOf(k)
    BY DEF ArePuts
  <2>2. Clients!PutOf(k).op = "put" /\ Clients!PutOf(k).key = k
    BY DEF Clients!PutOf
  <2> QED
    BY <2>1, <2>2
<1>2. Len(reqs) > 0
  BY DEF ArePuts
<1>3. Clients!Sweep \notin Clients!ToSet(reqs) /\ \A k \in ClientKeys : Clients!GetOf(k) \notin Clients!ToSet(reqs)
  BY <1>1, RequestsDiffer DEF Clients!ToSet
<1>4. Clients!Writes(reqs) = {reqs[i].key : i \in 1..Len(reqs)}
  BY <1>1, <1>3 DEF Clients!Writes, Clients!ToSet
<1>5. \A k \in ClientKeys : ~IsGet(reqs, k)
  BY <1>3, GetWrites
<1>6. reqs[1] # Clients!Sweep /\ reqs[1].op # "get" /\ reqs # <<Clients!Sweep>>
  BY <1>1, <1>2, RequestsDiffer
<1> QED
  BY <1>1, <1>2, <1>3, <1>4, <1>5, <1>6

LEMMA WritesAreKeys ==
  ASSUME Clients!ScribeAssumption, NEW reqs \in Seq(ClientRequests), Called(reqs)
  PROVE  Clients!Writes(reqs) \subseteq ClientKeys /\ reqs # <<>> /\ Len(reqs) > 0
<1>1. CASE \E k \in ClientKeys : IsGet(reqs, k)
  BY <1>1, GetWrites
<1>2. CASE reqs = <<Clients!Sweep>>
  BY <1>2, SweepWrites
<1>3. CASE ArePuts(reqs)
  <2>1. Clients!Writes(reqs) \subseteq ClientKeys /\ Len(reqs) > 0
    BY <1>3, PutWrites
  <2> QED
    BY <1>3, <2>1 DEF ArePuts
<1> QED
  BY <1>1, <1>2, <1>3 DEF Called

LEMMA CacheShape ==
  ASSUME NEW cache \in CacheRecords
  PROVE  /\ DOMAIN cache.entries \subseteq ClientKeys
         /\ \A k \in DOMAIN cache.entries : cache.entries[k] \in CacheEntries
         /\ cache.sequence \in Nat
  BY DEF CacheRecords

\* A cache without some of its entries.
LEMMA WithoutIs ==
  ASSUME NEW cache \in CacheRecords, NEW gone
  PROVE  LET left == Clients!Without(cache, gone)
         IN  /\ left \in CacheRecords /\ left.sequence = cache.sequence
             /\ DOMAIN left.entries = DOMAIN cache.entries \ gone
             /\ \A k \in DOMAIN left.entries : left.entries[k] = cache.entries[k]
<1> DEFINE kept == [k \in DOMAIN cache.entries \ gone |-> cache.entries[k]]
<1>1. Clients!Without(cache, gone) = [cache EXCEPT !.entries = kept]
  BY DEF Clients!Without, Clients!Restrict
<1>2. kept \in [DOMAIN cache.entries \ gone -> CacheEntries] /\ DOMAIN cache.entries \ gone \in SUBSET ClientKeys
  BY CacheShape
<1>3. kept \in UNION {[held -> CacheEntries] : held \in SUBSET ClientKeys}
  BY <1>2
<1> HIDE DEF kept
<1>4. [cache EXCEPT !.entries = kept] \in CacheRecords /\ [cache EXCEPT !.entries = kept].entries = kept
      /\ [cache EXCEPT !.entries = kept].sequence = cache.sequence
  BY <1>3 DEF CacheRecords
<1> QED
  BY <1>1, <1>4 DEF kept

LEMMA WithoutIsOk ==
  ASSUME Clients!ScribeAssumption, NEW cache \in CacheRecords, NEW gone, NEW ledger, NEW acks, NEW h \in Clients!Handles,
         CacheOk(ledger, acks, h, cache)
  PROVE  CacheOk(ledger, acks, h, Clients!Without(cache, gone))
<1> DEFINE left == Clients!Without(cache, gone)
<1>1. /\ DOMAIN left.entries = DOMAIN cache.entries \ gone
      /\ \A k \in DOMAIN left.entries : left.entries[k] = cache.entries[k]
  BY WithoutIs
<1> HIDE DEF left
<1>2. IsFiniteSet(ClientKeys) /\ CacheSize[h] \in Nat
  BY ClientCounts DEF Clients!ScribeAssumption
<1>3. IsFiniteSet(DOMAIN cache.entries)
  BY <1>2, CacheShape, FS_Subset
<1>4. /\ Cardinality(DOMAIN left.entries) <= Cardinality(DOMAIN cache.entries)
      /\ Cardinality(DOMAIN left.entries) \in Nat /\ Cardinality(DOMAIN cache.entries) \in Nat
  BY <1>1, <1>3, FS_Subset, FS_CardinalityType
<1> QED
  BY <1>1, <1>2, <1>4 DEF CacheOk, left

LEMMA OldestIsHeld ==
  ASSUME NEW cache \in CacheRecords, DOMAIN cache.entries # {}
  PROVE  Clients!Oldest(cache) \in DOMAIN cache.entries
<1> DEFINE steps == {cache.entries[k].sequence : k \in DOMAIN cache.entries}
<1>1. steps # {} /\ steps \in SUBSET Nat
  BY CacheShape DEF CacheEntries
<1> HIDE DEF steps
<1>2. PICK least \in steps : \A n \in steps : <<n, least>> \notin OpToRel(<, Nat)
  BY <1>1, NatLessThanWellFounded, WFMin
<1>3. \A n \in steps : least <= n
  <2>1. OpToRel(<, Nat) = {p \in Nat \X Nat : p[1] < p[2]}
    BY DEF OpToRel
  <2> SUFFICES ASSUME NEW n \in steps PROVE ~(n < least)
    BY <1>1
  <2>2. n \in Nat /\ least \in Nat
    BY <1>1
  <2>3. <<n, least>> \in Nat \X Nat /\ <<n, least>>[1] = n /\ <<n, least>>[2] = least
    BY <2>2
  <2> QED
    BY <1>2, <2>1, <2>3
<1>4. \E k \in DOMAIN cache.entries : \A l \in DOMAIN cache.entries : cache.entries[k].sequence <= cache.entries[l].sequence
  BY <1>1, <1>3 DEF steps
<1> QED
  BY <1>4 DEF Clients!Oldest

\* A put into a cache keeps what it held of other keys, and stays within its size.
LEMMA CachePutIsOk ==
  ASSUME Clients!ScribeAssumption, ClientTypes, NEW h \in Clients!Handles, NEW k \in ClientKeys,
         NEW value \in Nat, NEW raced \in BOOLEAN,
         CacheOk(wrote, acked, h, caches[h]),
         Bears(wrote, ClientBranch[h], k, value), raced \/ value >= acked[h][k]
  PROVE  LET new == Clients!CachePut(h, k, value, raced)
         IN  /\ new \in CacheRecords /\ CacheOk(wrote, acked, h, new)
             /\ \A l \in DOMAIN new.entries :
                  \/ l \in DOMAIN caches[h].entries /\ new.entries[l] = caches[h].entries[l]
                  \/ l = k /\ new.entries[l].raced = raced
<1> DEFINE old == caches[h]
           full == Clients!Cardinality(DOMAIN old.entries) >= CacheSize[h] /\ k \notin DOMAIN old.entries
           room == IF full THEN Clients!Without(old, {Clients!Oldest(old)}) ELSE old
           entry == [value |-> value, at |-> hour, sequence |-> room.sequence + 1, raced |-> raced]
           all == [l \in DOMAIN room.entries \cup {k} |-> IF l = k THEN entry ELSE room.entries[l]]
           new == [entries |-> all, sequence |-> room.sequence + 1]
<1>1. old \in CacheRecords /\ hour \in Int
  BY DEF ClientTypes
<1>2. CASE ~Clients!Enabled(h)
  BY <1>1, <1>2 DEF Clients!CachePut
<1>3. CASE Clients!Enabled(h)
  <2>1. Clients!CachePut(h, k, value, raced) = new
    BY <1>3 DEF Clients!CachePut
  <2>2. CacheSize[h] \in Nat /\ CacheSize[h] > 0 /\ IsFiniteSet(ClientKeys)
    BY <1>3, ClientCounts DEF Clients!Enabled, Clients!ScribeAssumption
  <2>3. IsFiniteSet(DOMAIN old.entries) /\ Cardinality(DOMAIN old.entries) \in Nat
        /\ Cardinality(DOMAIN old.entries) <= CacheSize[h]
    BY <1>1, <2>2, CacheShape, FS_Subset, FS_CardinalityType DEF CacheOk
  <2>4. /\ room \in CacheRecords /\ CacheOk(wrote, acked, h, room)
        /\ \A l \in DOMAIN room.entries : l \in DOMAIN old.entries /\ room.entries[l] = old.entries[l]
        /\ IsFiniteSet(DOMAIN room.entries) /\ Cardinality(DOMAIN room.entries \cup {k}) <= CacheSize[h]
    <3>1. CASE full
      <4> DEFINE first == Clients!Oldest(old)
      <4>1. Cardinality(DOMAIN old.entries) > 0
        BY <2>2, <2>3, <3>1, ClientCounts
      <4>2. first \in DOMAIN old.entries
        BY <1>1, <4>1, FS_EmptySet, OldestIsHeld
      <4>3. room = Clients!Without(old, {first})
        BY <3>1
      <4> HIDE DEF first, room
      <4>4. DOMAIN room.entries = DOMAIN old.entries \ {first}
        BY <1>1, <4>3, WithoutIs
      <4>5. Cardinality(DOMAIN room.entries) = Cardinality(DOMAIN old.entries) - 1 /\ IsFiniteSet(DOMAIN room.entries)
        <5>1. Cardinality(DOMAIN old.entries \ {first}) = Cardinality(DOMAIN old.entries) - 1
          BY <2>3, <4>2, FS_RemoveElement
        <5>2. IsFiniteSet(DOMAIN old.entries \ {first})
          BY <2>3, FS_RemoveElement
        <5> QED
          BY <4>4, <5>1, <5>2
      <4>6. k \notin DOMAIN room.entries
        BY <3>1, <4>4
      <4>7. Cardinality(DOMAIN room.entries \cup {k}) = Cardinality(DOMAIN room.entries) + 1
        BY <4>5, <4>6, FS_AddElement
      <4>8. room \in CacheRecords /\ CacheOk(wrote, acked, h, room)
            /\ \A l \in DOMAIN room.entries : l \in DOMAIN old.entries /\ room.entries[l] = old.entries[l]
        BY <1>1, <4>3, WithoutIs, WithoutIsOk
      <4> QED
        BY <2>2, <2>3, <4>5, <4>7, <4>8
    <3>2. CASE ~full
      <4>1. room = old
        BY <3>2
      <4>2. CASE k \in DOMAIN old.entries
        <5>1. DOMAIN old.entries \cup {k} = DOMAIN old.entries
          BY <4>2
        <5> QED
          BY <1>1, <2>3, <4>1, <5>1
      <4>3. CASE k \notin DOMAIN old.entries
        <5>1. Cardinality(DOMAIN old.entries \cup {k}) = Cardinality(DOMAIN old.entries) + 1
          BY <2>3, <4>3, FS_AddElement
        <5>2. Cardinality(DOMAIN old.entries) < CacheSize[h]
          BY <2>2, <2>3, <3>2, <4>3, ClientCounts
        <5>3. Cardinality(DOMAIN old.entries \cup {k}) <= CacheSize[h]
          BY <2>2, <2>3, <5>1, <5>2
        <5> QED
          BY <1>1, <2>3, <4>1, <5>3
      <4> QED
        BY <4>2, <4>3
    <3> QED
      BY <3>1, <3>2
  <2> HIDE DEF room
  <2>5. DOMAIN room.entries \subseteq ClientKeys /\ (\A l \in DOMAIN room.entries : room.entries[l] \in CacheEntries)
        /\ room.sequence \in Nat
    BY <2>4, CacheShape
  <2>6. entry \in CacheEntries
    BY <1>1, <2>5 DEF CacheEntries
  <2>7. all \in [DOMAIN room.entries \cup {k} -> CacheEntries] /\ DOMAIN room.entries \cup {k} \in SUBSET ClientKeys
    BY <2>5, <2>6
  <2>8. all \in UNION {[held -> CacheEntries] : held \in SUBSET ClientKeys}
    BY <2>7
  <2>9. new \in CacheRecords
    BY <2>5, <2>8 DEF CacheRecords
  <2>10. DOMAIN all = DOMAIN room.entries \cup {k} /\ all[k] = entry /\ \A l \in DOMAIN room.entries : l # k => all[l] = room.entries[l]
    OBVIOUS
  <2>11. entry.value = value /\ entry.raced = raced
    OBVIOUS
  <2> HIDE DEF all, entry
  <2>12. new.entries = all
    OBVIOUS
  <2>13. CacheOk(wrote, acked, h, new)
    <3>1. Cardinality(DOMAIN new.entries) <= CacheSize[h]
      BY <2>4, <2>10, <2>12
    <3>2. ASSUME NEW l \in DOMAIN new.entries
          PROVE  /\ Bears(wrote, ClientBranch[h], l, new.entries[l].value)
                 /\ new.entries[l].raced \/ new.entries[l].value >= acked[h][l]
      <4>1. CASE l = k
        BY <2>10, <2>11, <2>12, <4>1
      <4>2. CASE l # k
        <5>1. l \in DOMAIN room.entries /\ new.entries[l] = room.entries[l]
          BY <2>10, <2>12, <3>2, <4>2
        <5> QED
          BY <2>4, <5>1 DEF CacheOk
      <4> QED
        BY <4>1, <4>2
    <3> QED
      BY <3>1, <3>2 DEF CacheOk
  <2> HIDE DEF new
  <2>14. ASSUME NEW l \in DOMAIN new.entries
         PROVE  \/ l \in DOMAIN old.entries /\ new.entries[l] = old.entries[l]
                \/ l = k /\ new.entries[l].raced = raced
    BY <2>4, <2>10, <2>11, <2>12
  <2> QED
    BY <2>1, <2>9, <2>13, <2>14
<1> QED
  BY <1>2, <1>3

-----------------------------------------------------------------------------
(* What the server does, and what was told before                           *)

\* A log that goes on.
Onward(ledger, next) == Len(ledger) <= Len(next) /\ \A n \in 1..Len(ledger) : next[n] = ledger[n]

LEMMA BearsStill ==
  ASSUME NEW ledger, NEW next, Len(ledger) \in Nat, Len(next) \in Nat, Onward(ledger, next), NEW b, NEW k, NEW v, Bears(ledger, b, k, v)
  PROVE  Bears(next, b, k, v)
  BY DEF Onward, Bears

LEMMA TellsStill ==
  ASSUME NEW ledger, NEW next, Len(ledger) \in Nat, Len(next) \in Nat, Onward(ledger, next), NEW acks, NEW task, NEW i, NEW v,
         Tells(ledger, acks, task, i, v)
  PROVE  Tells(next, acks, task, i, v)
<1>1. CASE v = -1
  BY <1>1 DEF Tells
<1>2. CASE \E k \in ClientKeys : /\ task.reqs[i] = Clients!GetOf(k) /\ Bears(ledger, ClientBranch[task.h], k, v)
                                 /\ task.raced \/ v >= acks[task.h][k]
  BY <1>2, BearsStill DEF Tells
<1>3. CASE /\ task.reqs[i].op # "get" /\ v \in 1..Len(ledger)
           /\ ledger[v] = <<ClientBranch[task.h], task.reqs[i].key>>
  <2>1. v \in 1..Len(next) /\ next[v] = ledger[v]
    BY <1>3 DEF Onward
  <2> QED
    BY <1>3, <2>1 DEF Tells
<1> QED
  BY <1>1, <1>2, <1>3 DEF Tells

LEMMA TaskStill ==
  ASSUME NEW ledger, NEW next, Len(ledger) \in Nat, Len(next) \in Nat, Onward(ledger, next), NEW acks, NEW task, TaskOk(ledger, acks, task)
  PROVE  TaskOk(next, acks, task)
<1>1. \A i, v : Tells(ledger, acks, task, i, v) => Tells(next, acks, task, i, v)
  BY TellsStill
<1> QED
  BY <1>1 DEF TaskOk, Exchanged

LEMMA CacheStill ==
  ASSUME NEW ledger, NEW next, Len(ledger) \in Nat, Len(next) \in Nat, Onward(ledger, next), NEW acks, NEW h, NEW cache, CacheOk(ledger, acks, h, cache)
  PROVE  CacheOk(next, acks, h, cache)
  BY BearsStill DEF CacheOk

LEMMA ServedKeeps ==
  ASSUME Clients!ScribeAssumption, ClientTypes, StoreOk(stored, wrote), AcksOk(stored, acked),
         NEW req \in WireRequests, Clients!Served(req)
  PROVE  /\ wrote' \in Seq(Clients!Branches \X (ClientKeys \cup {"*"}))
         /\ stored' \in [Clients!Branches -> [ClientKeys -> Nat]]
         /\ StoreOk(stored', wrote') /\ AcksOk(stored', acked) /\ Onward(wrote, wrote')
         /\ req.body.op # "get" => wrote' = Append(wrote, <<req.branch, req.body.key>>)
<1> DEFINE n == Len(wrote) + 1
           b == req.branch
           touched == Clients!Touched(req)
           write == <<b, req.body.key>>
<1>1. /\ b \in Clients!Branches /\ wrote \in Seq(Clients!Branches \X (ClientKeys \cup {"*"}))
      /\ stored \in [Clients!Branches -> [ClientKeys -> Nat]] /\ n \in Nat \ {0} /\ Len(wrote) \in Nat
      /\ acked \in [Clients!Handles -> [ClientKeys -> Nat]]
  BY DEF ClientTypes, WireRequests
<1>2. /\ stored' = [stored EXCEPT ![b] = [k \in ClientKeys |-> IF k \in touched THEN n ELSE stored[b][k]]]
      /\ wrote' = IF touched = {} THEN wrote ELSE Append(wrote, write)
  BY DEF Clients!Served
<1>3. \/ req.body.op = "get" /\ touched = {}
      \/ /\ req.body.op # "get" /\ touched # {} /\ touched \subseteq ClientKeys
         /\ req.body.key \in ClientKeys \cup {"*"}
         /\ \A k \in ClientKeys : write \in {<<b, k>>, <<b, "*">>} <=> k \in touched
  <2>1. req.body \in ClientRequests
    BY DEF WireRequests
  <2>2. CASE \E k \in ClientKeys : req.body = Clients!GetOf(k)
    <3>1. PICK k \in ClientKeys : req.body = Clients!GetOf(k)
      BY <2>2
    <3>2. Clients!GetOf(k).op = "get"
      BY DEF Clients!GetOf
    <3> QED
      BY <3>1, <3>2, RequestsDiffer DEF Clients!Touched
  <2>3. CASE \E k \in ClientKeys : req.body = Clients!PutOf(k)
    <3>1. PICK k \in ClientKeys : req.body = Clients!PutOf(k)
      BY <2>3
    <3>2. Clients!PutOf(k).op = "put" /\ Clients!PutOf(k).key = k
      BY DEF Clients!PutOf
    <3>3. touched = {k} /\ write = <<b, k>> /\ "*" # k
      BY <3>1, <3>2, RequestsDiffer DEF Clients!Touched, Clients!ScribeAssumption
    <3> QED
      BY <3>1, <3>2, <3>3
  <2>4. CASE req.body = Clients!Sweep
    <3>1. Clients!Sweep.op = "all" /\ Clients!Sweep.key = "*"
      BY DEF Clients!Sweep
    <3> QED
      BY <2>4, <3>1 DEF Clients!Touched, Clients!ScribeAssumption
  <2> QED
    BY <2>1, <2>2, <2>3, <2>4 DEF ClientRequests
<1> HIDE DEF touched
<1>4. CASE touched = {}
  <2>1. stored' = stored
    BY <1>1, <1>2, <1>4
  <2>2. wrote' = wrote /\ req.body.op = "get"
    BY <1>2, <1>3, <1>4
  <2>3. Onward(wrote, wrote)
    BY <1>1 DEF Onward
  <2> QED
    BY <1>1, <2>1, <2>2, <2>3
<1>5. CASE touched # {}
  <2>1. wrote' = Append(wrote, write)
    BY <1>2, <1>5
  <2>2. write \in Clients!Branches \X (ClientKeys \cup {"*"})
    BY <1>1, <1>3, <1>5
  <2> HIDE DEF write
  <2>3. /\ wrote' \in Seq(Clients!Branches \X (ClientKeys \cup {"*"})) /\ Len(wrote') = n
        /\ wrote'[n] = write /\ \A m \in 1..Len(wrote) : wrote'[m] = wrote[m]
    BY <1>1, <2>1, <2>2
  <2>4. Onward(wrote, wrote')
    BY <1>1, <2>3 DEF Onward
  <2>5. /\ stored' \in [Clients!Branches -> [ClientKeys -> Nat]]
        /\ \A c \in Clients!Branches, k \in ClientKeys :
              stored'[c][k] = IF c = b /\ k \in touched THEN n ELSE stored[c][k]
    BY <1>1, <1>2
  <2>6. ASSUME NEW c \in Clients!Branches, NEW k \in ClientKeys
        PROVE  /\ Bears(wrote', c, k, stored'[c][k])
               /\ \A m \in 1..Len(wrote') : wrote'[m] \in {<<c, k>>, <<c, "*">>} => m <= stored'[c][k]
               /\ stored[c][k] <= stored'[c][k]
    <3>1. Bears(wrote, c, k, stored[c][k]) /\ stored[c][k] \in Nat /\ stored[c][k] < n
          /\ \A m \in 1..Len(wrote) : wrote[m] \in {<<c, k>>, <<c, "*">>} => m <= stored[c][k]
      BY <1>1 DEF StoreOk, Bears
    <3>2. CASE c = b /\ k \in touched
      <4>1. stored'[c][k] = n /\ write \in {<<c, k>>, <<c, "*">>}
        BY <1>3, <1>5, <2>5, <3>2
      <4> QED
        BY <1>1, <2>3, <3>1, <4>1 DEF Bears
    <3>3. CASE ~(c = b /\ k \in touched)
      <4>1. stored'[c][k] = stored[c][k]
        BY <2>5, <3>3
      <4>2. write \notin {<<c, k>>, <<c, "*">>}
        BY <1>3, <1>5, <3>3 DEF write
      <4>3. ASSUME NEW m \in 1..Len(wrote'), wrote'[m] \in {<<c, k>>, <<c, "*">>}
            PROVE  m <= stored'[c][k]
        <5>1. m # n
          BY <2>3, <4>2, <4>3
        <5>2. m \in 1..Len(wrote)
          BY <1>1, <2>3, <5>1
        <5> QED
          BY <2>3, <3>1, <4>1, <4>3, <5>2
      <4> QED
        BY <1>1, <2>3, <2>4, <3>1, <4>1, <4>3, BearsStill
    <3> QED
      BY <3>2, <3>3
  <2>7. StoreOk(stored', wrote')
    BY <2>6 DEF StoreOk
  <2>8. AcksOk(stored', acked)
    <3> SUFFICES ASSUME NEW h \in Clients!Handles, NEW k \in ClientKeys PROVE acked[h][k] <= stored'[ClientBranch[h]][k]
      BY DEF AcksOk
    <3>1. ClientBranch[h] \in Clients!Branches
      BY DEF Clients!Branches
    <3>2. acked[h][k] <= stored[ClientBranch[h]][k] /\ stored[ClientBranch[h]][k] <= stored'[ClientBranch[h]][k]
      BY <2>6, <3>1 DEF AcksOk
    <3>3. acked[h][k] \in Nat /\ stored[ClientBranch[h]][k] \in Nat /\ stored'[ClientBranch[h]][k] \in Nat
      BY <1>1, <2>5, <3>1
    <3> QED
      BY <3>2, <3>3
  <2> QED
    BY <2>1, <2>3, <2>4, <2>5, <2>7, <2>8 DEF write
<1> QED
  BY <1>4, <1>5

-----------------------------------------------------------------------------
(* One task's step                                                          *)

SameCall(task, old) == task.h = old.h /\ task.reqs = old.reqs /\ task.raced = old.raced

LEMMA TellsAlike ==
  ASSUME NEW ledger, NEW acks, NEW task, NEW old, SameCall(task, old), NEW i, NEW v, Tells(ledger, acks, old, i, v)
  PROVE  Tells(ledger, acks, task, i, v)
  BY DEF SameCall, Tells

\* A step of a call, or its end, marks what was marked.
LEMMA StepKeepsMarks ==
  ASSUME Clients!ScribeAssumption, NEW calls \in [ClientTasks -> TaskRecords], NEW held, RacesMarked(calls), Evicted(calls, held),
         NEW t \in ClientTasks, NEW task \in TaskRecords,
         task.pc = "rest" \/ (calls[t].pc # "rest" /\ SameCall(task, calls[t]))
  PROVE  LET next == [calls EXCEPT ![t] = task]
         IN  RacesMarked(next) /\ Evicted(next, held)
<1> DEFINE next == [calls EXCEPT ![t] = task]
<1>1. next \in [ClientTasks -> TaskRecords] /\ \A u \in ClientTasks : next[u] = IF u = t THEN task ELSE calls[u]
  OBVIOUS
<1> HIDE DEF next
<1>2. \A u \in ClientTasks : next[u].pc # "rest" => calls[u].pc # "rest" /\ SameCall(next[u], calls[u])
  BY <1>1 DEF SameCall
<1>3. RacesMarked(next)
  <2> SUFFICES ASSUME NEW u \in ClientTasks, NEW w \in ClientTasks, NEW k \in ClientKeys,
                      next[u].pc # "rest", next[w].pc # "rest", next[u].h = next[w].h,
                      IsGet(next[u].reqs, k), k \in Clients!Writes(next[w].reqs)
               PROVE  next[u].raced
    BY DEF RacesMarked
  <2> QED
    BY <1>2 DEF RacesMarked, SameCall
<1>4. Evicted(next, held)
  BY <1>2 DEF Evicted, SameCall
<1> QED
  BY <1>3, <1>4 DEF next

LEMMA RestingIs == Clients!ScribeAssumption => Clients!Resting \in TaskRecords /\ Clients!Resting.pc = "rest"
<1> SUFFICES ASSUME Clients!ScribeAssumption PROVE Clients!Resting \in TaskRecords /\ Clients!Resting.pc = "rest"
  OBVIOUS
<1>1. (CHOOSE h \in Clients!Handles : TRUE) \in Clients!Handles
  BY DEF Clients!ScribeAssumption
<1>2. Clients!NoConn \in Connections
  BY DEF Clients!NoConn, Connections
<1> QED
  BY <1>1, <1>2 DEF Clients!Resting, TaskRecords, Clients!Stages

LEMMA RestingIsOk ==
  ASSUME Clients!ScribeAssumption, NEW ledger, NEW acks
  PROVE  TaskOk(ledger, acks, Clients!Resting)
  BY RestingIs DEF TaskOk

\* What is left to show of an action that changes one task, and perhaps the pool.
LEMMA CallStepKeepsInv ==
  ASSUME Clients!ScribeAssumption, ClientInv, NEW t \in ClientTasks, NEW task \in TaskRecords,
         task.pc = "rest" \/ (tasks[t].pc # "rest" /\ SameCall(task, tasks[t])),
         TaskOk(wrote, acked, task), tasks' = Clients!Becomes(t, task),
         idle' \in Seq(Connections), PoolOk(idle'), orphans' \subseteq Seq(WireRequests) \ {<<>>},
         UNCHANGED <<stored, wrote, caches, hour, acked>>
  PROVE  ClientInv'
<1>1. tasks \in [ClientTasks -> TaskRecords]
  BY DEF ClientInv, ClientTypes
<1>2. tasks' = [tasks EXCEPT ![t] = task]
  BY DEF Clients!Becomes
<1>3. tasks' \in [ClientTasks -> TaskRecords] /\ \A u \in ClientTasks : tasks'[u] = IF u = t THEN task ELSE tasks[u]
  BY <1>1, <1>2
<1>4. RacesMarked(tasks') /\ Evicted(tasks', caches)
  <2>1. RacesMarked(tasks) /\ Evicted(tasks, caches)
    BY DEF ClientInv
  <2>2. RacesMarked([tasks EXCEPT ![t] = task]) /\ Evicted([tasks EXCEPT ![t] = task], caches)
    BY <1>1, <2>1, StepKeepsMarks
  <2> QED
    BY <1>2, <2>2
<1>5. \A u \in ClientTasks : TaskOk(wrote, acked, tasks'[u])
  BY <1>3 DEF ClientInv
<1>6. ClientTypes'
  BY <1>3 DEF ClientInv, ClientTypes
<1> QED
  BY <1>4, <1>5, <1>6 DEF ClientInv

-----------------------------------------------------------------------------
(* Calls begin                                                              *)

LEMMA RacedIsOk ==
  ASSUME NEW ledger, NEW acks, NEW task \in TaskRecords, TaskOk(ledger, acks, task)
  PROVE  LET raced == [task EXCEPT !.raced = TRUE]
         IN  raced \in TaskRecords /\ TaskOk(ledger, acks, raced)
<1> DEFINE raced == [task EXCEPT !.raced = TRUE]
<1>1. /\ raced \in TaskRecords /\ raced.raced
      /\ raced.pc = task.pc /\ raced.h = task.h /\ raced.reqs = task.reqs /\ raced.conn = task.conn /\ raced.got = task.got
  BY DEF TaskRecords
<1> HIDE DEF raced
<1>2. \A i, v : Tells(ledger, acks, task, i, v) => Tells(ledger, acks, raced, i, v)
  BY <1>1 DEF Tells
<1>3. Exchanged(ledger, acks, task) => Exchanged(ledger, acks, raced)
  BY <1>1, <1>2 DEF Exchanged
<1>4. TaskOk(ledger, acks, raced)
  BY <1>1, <1>2, <1>3 DEF TaskOk
<1> QED
  BY <1>1, <1>4 DEF raced

\* Caches that hold what they held, or less.
LeftOf(held) ==
    /\ held \in [Clients!Handles -> CacheRecords]
    /\ \A g \in Clients!Handles :
        /\ CacheOk(wrote, acked, g, held[g])
        /\ \A k \in DOMAIN held[g].entries :
              k \in DOMAIN caches[g].entries /\ held[g].entries[k] = caches[g].entries[k]

LEMMA StartedKeepsInv ==
  ASSUME Clients!ScribeAssumption, ClientInv, NEW t \in ClientTasks, ~Clients!Busy(t), NEW h \in Clients!Handles,
         NEW reqs \in Seq(ClientRequests), Called(reqs), NEW raced \in BOOLEAN,
         \A k \in ClientKeys : IsGet(reqs, k) /\ Clients!Overlapping(h, k) => raced,
         tasks' = Clients!Started(t, h, reqs, raced),
         LeftOf(caches'),
         DOMAIN caches'[h].entries \cap Clients!Writes(reqs) = {},
         UNCHANGED <<stored, wrote, idle, orphans, hour, acked>>
  PROVE  ClientInv'
<1> DEFINE new == [Clients!Resting EXCEPT !.pc = "acquire", !.h = h, !.reqs = reqs, !.raced = raced]
           Meets(u) == tasks[u].h = h /\ \E k \in Clients!Writes(reqs) : Clients!GetOf(k) \in Clients!ToSet(tasks[u].reqs)
           marked == [u \in ClientTasks |-> IF Meets(u) THEN [tasks[u] EXCEPT !.raced = TRUE] ELSE tasks[u]]
<1>1. tasks \in [ClientTasks -> TaskRecords]
  BY DEF ClientInv, ClientTypes
<1>2. /\ new \in TaskRecords /\ new.pc = "acquire" /\ new.h = h /\ new.reqs = reqs /\ new.raced = raced
      /\ new.got = <<>>
  <2>1. Clients!Resting \in TaskRecords /\ Clients!Resting.got = <<>> /\ "acquire" \in Clients!Stages
    BY RestingIs DEF Clients!Resting, Clients!Stages
  <2> QED
    BY <2>1 DEF TaskRecords
<1>3. tasks' = [marked EXCEPT ![t] = new]
  BY DEF Clients!Started
<1>4. ASSUME NEW u \in ClientTasks
      PROVE  /\ marked[u] \in TaskRecords /\ TaskOk(wrote, acked, marked[u])
             /\ marked[u].pc = tasks[u].pc /\ marked[u].h = tasks[u].h /\ marked[u].reqs = tasks[u].reqs
             /\ tasks[u].raced => marked[u].raced
             /\ Meets(u) => marked[u].raced
  <2>1. tasks[u] \in TaskRecords /\ TaskOk(wrote, acked, tasks[u])
    BY <1>1 DEF ClientInv
  <2>2. CASE Meets(u)
    <3>1. marked[u] = [tasks[u] EXCEPT !.raced = TRUE]
      BY <2>2
    <3> HIDE DEF marked, Meets
    <3>2. marked[u] \in TaskRecords /\ TaskOk(wrote, acked, marked[u])
      BY <2>1, <3>1, RacedIsOk
    <3>3. /\ marked[u].pc = tasks[u].pc /\ marked[u].h = tasks[u].h /\ marked[u].reqs = tasks[u].reqs
          /\ marked[u].raced
      BY <2>1, <3>1 DEF TaskRecords
    <3> QED
      BY <3>2, <3>3
  <2>3. CASE ~Meets(u)
    BY <2>1, <2>3
  <2> QED
    BY <2>2, <2>3
<1>5. marked \in [ClientTasks -> TaskRecords]
  BY <1>4
<1> HIDE DEF new, marked
<1>6. \A u \in ClientTasks : tasks'[u] = IF u = t THEN new ELSE marked[u]
  BY <1>3, <1>5
<1>7. tasks' \in [ClientTasks -> TaskRecords]
  BY <1>2, <1>3, <1>5
<1>8. \A u \in ClientTasks : TaskOk(wrote, acked, tasks'[u])
  <2>1. TaskOk(wrote, acked, new)
    BY <1>2 DEF TaskOk
  <2> QED
    BY <1>4, <1>6, <2>1
<1>9. RacesMarked(tasks')
  <2> SUFFICES ASSUME NEW u \in ClientTasks, NEW w \in ClientTasks, NEW k \in ClientKeys,
                      tasks'[u].pc # "rest", tasks'[w].pc # "rest", tasks'[u].h = tasks'[w].h,
                      IsGet(tasks'[u].reqs, k), k \in Clients!Writes(tasks'[w].reqs)
               PROVE  tasks'[u].raced
    BY DEF RacesMarked
  <2>1. CASE u = t /\ w = t
    BY <2>1, GetWrites
  <2>2. CASE u = t /\ w # t
    <3>1. tasks[w].pc # "rest" /\ tasks[w].h = h /\ k \in Clients!Writes(tasks[w].reqs)
      BY <1>2, <1>4, <1>6, <2>2
    <3>2. Clients!Overlapping(h, k)
      BY <3>1 DEF Clients!Overlapping, Clients!Busy
    <3> QED
      BY <1>2, <1>6, <2>2, <3>2
  <2>3. CASE u # t /\ w = t
    <3>1. tasks[u].h = h /\ k \in Clients!Writes(reqs) /\ IsGet(tasks[u].reqs, k)
      BY <1>2, <1>4, <1>6, <2>3
    <3>2. Clients!GetOf(k) \in Clients!ToSet(tasks[u].reqs)
      BY <3>1, GetWrites
    <3>3. Meets(u)
      BY <3>1, <3>2
    <3> QED
      BY <1>4, <1>6, <2>3, <3>3
  <2>4. CASE u # t /\ w # t
    <3>1. /\ tasks[u].pc # "rest" /\ tasks[w].pc # "rest" /\ tasks[u].h = tasks[w].h
          /\ IsGet(tasks[u].reqs, k) /\ k \in Clients!Writes(tasks[w].reqs)
      BY <1>4, <1>6, <2>4
    <3>2. tasks[u].raced
      BY <3>1 DEF ClientInv, RacesMarked
    <3> QED
      BY <1>4, <1>6, <2>4, <3>2
  <2> QED
    BY <2>1, <2>2, <2>3, <2>4
<1>10. Evicted(tasks', caches')
  <2> SUFFICES ASSUME NEW u \in ClientTasks, tasks'[u].pc # "rest",
                      NEW k \in Clients!Writes(tasks'[u].reqs) \cap DOMAIN caches'[tasks'[u].h].entries
               PROVE  caches'[tasks'[u].h].entries[k].raced
    BY DEF Evicted
  <2>1. CASE u = t
    BY <1>2, <1>6, <2>1
  <2>2. CASE u # t
    <3>1. /\ tasks[u].pc # "rest" /\ tasks'[u].h = tasks[u].h /\ tasks'[u].reqs = tasks[u].reqs
          /\ tasks[u].h \in Clients!Handles
      BY <1>1, <1>4, <1>6, <2>2 DEF TaskRecords
    <3>2. k \in DOMAIN caches[tasks[u].h].entries /\ caches'[tasks[u].h].entries[k] = caches[tasks[u].h].entries[k]
      BY <3>1 DEF LeftOf
    <3>3. caches[tasks[u].h].entries[k].raced
      BY <3>1, <3>2 DEF ClientInv, Evicted
    <3> QED
      BY <3>1, <3>2, <3>3
  <2> QED
    BY <2>1, <2>2
<1>11. ClientTypes'
  BY <1>7 DEF ClientInv, ClientTypes, LeftOf
<1> QED
  BY <1>8, <1>9, <1>10, <1>11 DEF ClientInv, LeftOf

\* One handle's cache lost some of its entries.
LEMMA Shrunk ==
  ASSUME Clients!ScribeAssumption, ClientInv, NEW h \in Clients!Handles, NEW gone, NEW held,
         held = [caches EXCEPT ![h] = Clients!Without(caches[h], gone)]
  PROVE  LeftOf(held) /\ DOMAIN held[h].entries \cap gone = {}
<1> DEFINE left == Clients!Without(caches[h], gone)
<1>1. caches \in [Clients!Handles -> CacheRecords] /\ \A g \in Clients!Handles : CacheOk(wrote, acked, g, caches[g])
  BY DEF ClientInv, ClientTypes
<1>2. /\ left \in CacheRecords /\ DOMAIN left.entries = DOMAIN caches[h].entries \ gone
      /\ \A k \in DOMAIN left.entries : left.entries[k] = caches[h].entries[k]
      /\ CacheOk(wrote, acked, h, left)
  BY <1>1, WithoutIs, WithoutIsOk
<1> HIDE DEF left
<1>3. held \in [Clients!Handles -> CacheRecords] /\ \A g \in Clients!Handles : held[g] = IF g = h THEN left ELSE caches[g]
  BY <1>1, <1>2 DEF left
<1> QED
  BY <1>1, <1>2, <1>3 DEF LeftOf

LEMMA GetKeepsInv ==
  ASSUME Clients!ScribeAssumption, ClientInv, NEW t \in ClientTasks, NEW h \in Clients!Handles, NEW k \in ClientKeys,
         Clients!Get(t, h, k)
  PROVE  ClientInv'
<1>1. ~Clients!Busy(t) /\ UNCHANGED <<stored, wrote, idle, orphans, hour, acked>>
  BY DEF Clients!Get, Clients!Calls, Clients!Unserved
<1>2. CASE Clients!Fresh(h, k)
  <2>1. caches' = [caches EXCEPT ![h] = caches[h]] /\ tasks' = tasks
    BY <1>2 DEF Clients!Get, Clients!LookedUp
  <2>2. caches' = caches
    BY <2>1 DEF ClientInv, ClientTypes
  <2> QED
    BY <1>1, <2>1, <2>2 DEF ClientInv, ClientTypes
<1>3. CASE ~Clients!Fresh(h, k)
  <2> DEFINE reqs == <<Clients!GetOf(k)>>
  <2>1. /\ caches' = [caches EXCEPT ![h] = Clients!Without(caches[h], {k})]
        /\ tasks' = Clients!Started(t, h, reqs, Clients!Overlapping(h, k))
    BY <1>3 DEF Clients!Get, Clients!LookedUp
  <2>2. IsGet(reqs, k) /\ reqs \in Seq(ClientRequests) /\ Called(reqs) /\ Clients!Writes(reqs) = {}
    <3>1. IsGet(reqs, k)
      BY DEF IsGet
    <3> QED
      BY <3>1, GetWrites DEF Called
  <2>3. \A l \in ClientKeys : IsGet(reqs, l) /\ Clients!Overlapping(h, l) => Clients!Overlapping(h, k)
    <3> SUFFICES ASSUME NEW l \in ClientKeys, IsGet(reqs, l) PROVE l = k
      OBVIOUS
    <3>1. reqs[1] = Clients!GetOf(l) /\ reqs[1] = Clients!GetOf(k)
      BY <2>2, GetWrites
    <3> QED
      BY <3>1, RequestsDiffer
  <2> HIDE DEF reqs
  <2>4. Clients!Overlapping(h, k) \in BOOLEAN
    BY DEF Clients!Overlapping
  <2> QED
    <3>1. LeftOf(caches')
      BY <2>1, Shrunk
    <3> QED
      BY <1>1, <2>1, <2>2, <2>3, <2>4, <3>1, StartedKeepsInv
<1> QED
  BY <1>2, <1>3

LEMMA PutKeepsInv ==
  ASSUME Clients!ScribeAssumption, ClientInv, NEW t \in ClientTasks, NEW h \in Clients!Handles, NEW keys \in Seq(ClientKeys),
         Clients!Put(t, h, keys)
  PROVE  ClientInv'
<1> DEFINE reqs == [i \in 1..Len(keys) |-> Clients!PutOf(keys[i])]
<1>1. ~Clients!Busy(t) /\ keys # <<>> /\ UNCHANGED <<stored, wrote, idle, orphans, hour, acked>>
  BY DEF Clients!Put, Clients!Calls, Clients!Unserved
<1>2. /\ caches' = [caches EXCEPT ![h] = Clients!Without(caches[h], Clients!ToSet(keys))]
      /\ tasks' = Clients!Started(t, h, reqs, FALSE)
  BY DEF Clients!Put, Clients!Invalidated
<1>3. reqs \in Seq(ClientRequests) /\ Len(reqs) = Len(keys)
  BY DEF ClientRequests
<1>4. ArePuts(reqs)
  BY <1>1, <1>3 DEF ArePuts
<1>5. Clients!Writes(reqs) \subseteq Clients!ToSet(keys)
  <2>1. \A i \in 1..Len(keys) : reqs[i].key = keys[i]
    BY DEF Clients!PutOf
  <2>2. Clients!Writes(reqs) = {reqs[i].key : i \in 1..Len(reqs)}
    BY <1>3, <1>4, PutWrites
  <2> QED
    BY <1>3, <2>1, <2>2 DEF Clients!ToSet
<1>6. \A k \in ClientKeys : ~IsGet(reqs, k)
  BY <1>3, <1>4, PutWrites
<1>7. Called(reqs)
  BY <1>4 DEF Called
<1> HIDE DEF reqs
<1>8. LeftOf(caches') /\ DOMAIN caches'[h].entries \cap Clients!ToSet(keys) = {}
  BY <1>2, Shrunk
<1> QED
  BY <1>1, <1>2, <1>3, <1>5, <1>6, <1>7, <1>8, StartedKeepsInv

LEMMA ChangeKeepsInv ==
  ASSUME Clients!ScribeAssumption, ClientInv, NEW t \in ClientTasks, NEW h \in Clients!Handles, Clients!Change(t, h)
  PROVE  ClientInv'
<1> DEFINE reqs == <<Clients!Sweep>>
<1>1. ~Clients!Busy(t) /\ UNCHANGED <<stored, wrote, idle, orphans, hour, acked>>
  BY DEF Clients!Change, Clients!Calls, Clients!Unserved
<1>2. /\ caches' = [caches EXCEPT ![h] = Clients!Without(caches[h], ClientKeys)]
      /\ tasks' = Clients!Started(t, h, reqs, FALSE)
  BY DEF Clients!Change, Clients!Invalidated
<1>3. /\ Called(reqs) /\ reqs \in Seq(ClientRequests) /\ Clients!Writes(reqs) = ClientKeys
      /\ \A k \in ClientKeys : ~IsGet(reqs, k)
  BY SweepWrites DEF Called
<1> HIDE DEF reqs
<1>4. LeftOf(caches') /\ DOMAIN caches'[h].entries \cap ClientKeys = {}
  BY <1>2, Shrunk
<1> QED
  BY <1>1, <1>2, <1>3, <1>4, StartedKeepsInv

-----------------------------------------------------------------------------
(* Calls go on and end                                                      *)

LEMMA TaskIs ==
  ASSUME ClientInv, NEW t \in ClientTasks
  PROVE  /\ tasks[t] \in TaskRecords /\ TaskOk(wrote, acked, tasks[t])
         /\ tasks[t].h \in Clients!Handles /\ ClientBranch[tasks[t].h] \in Clients!Branches
         /\ tasks[t].reqs \in Seq(ClientRequests) /\ tasks[t].got \in Seq(Int)
         /\ tasks[t].conn.wire \in Seq(WireRequests) /\ tasks[t].conn.back \in Seq(WireReplies)
         /\ tasks[t].conn \in Connections /\ tasks[t].conn.next \in Int
<1>1. tasks[t] \in TaskRecords /\ TaskOk(wrote, acked, tasks[t])
  BY DEF ClientInv, ClientTypes
<1>2. tasks[t].h \in Clients!Handles /\ tasks[t].conn \in Connections /\ tasks[t].reqs \in Seq(ClientRequests)
      /\ tasks[t].got \in Seq(Int)
  BY <1>1 DEF TaskRecords
<1> QED
  BY <1>1, <1>2 DEF Connections, Clients!Branches

LEMMA SentIsOk ==
  ASSUME Clients!ScribeAssumption, ClientInv, NEW t \in ClientTasks, tasks[t].pc \in {"acquire", "open", "retry"},
         NEW conn \in Connections, conn.wire = <<>>, conn.back = <<>>
  PROVE  \E task \in TaskRecords :
            /\ Clients!Sent(t, conn) = Clients!Becomes(t, task)
            /\ SameCall(task, tasks[t]) /\ TaskOk(wrote, acked, task)
<1> DEFINE reqs == tasks[t].reqs
           wire == [i \in 1..Len(reqs) |-> [id |-> conn.next + i - 1, branch |-> ClientBranch[tasks[t].h], body |-> reqs[i]]]
           open == [conn EXCEPT !.wire = wire, !.next = conn.next + Len(reqs)]
           task == [tasks[t] EXCEPT !.pc = "await", !.conn = open]
<1>1. Clients!Sent(t, conn) = Clients!Becomes(t, task)
  BY DEF Clients!Sent
<1>2. conn.next \in Int /\ reqs \in Seq(ClientRequests) /\ ClientBranch[tasks[t].h] \in Clients!Branches
      /\ tasks[t] \in TaskRecords
  BY TaskIs DEF Connections
<1>3. wire \in Seq(WireRequests) /\ Len(wire) = Len(reqs)
      /\ \A i \in 1..Len(reqs) : wire[i].branch = ClientBranch[tasks[t].h] /\ wire[i].body = reqs[i]
  <2>1. \A i \in 1..Len(reqs) : wire[i] \in WireRequests
    BY <1>2 DEF WireRequests
  <2>2. wire \in Seq(WireRequests) /\ Len(wire) = Len(reqs)
    <3>1. Len(reqs) \in Nat
      BY <1>2
    <3>2. DOMAIN wire = 1..Len(reqs) /\ wire = [i \in 1..Len(reqs) |-> wire[i]]
      OBVIOUS
    <3> HIDE DEF wire, reqs
    <3>3. wire \in [1..Len(reqs) -> WireRequests]
      BY <2>1, <3>2
    <3> QED
      BY <3>1, <3>3
  <2>3. \A i \in 1..Len(reqs) : wire[i].branch = ClientBranch[tasks[t].h] /\ wire[i].body = reqs[i]
    OBVIOUS
  <2> QED
    BY <2>2, <2>3
<1> HIDE DEF wire
<1>4. open \in Connections /\ open.wire = wire /\ open.back = <<>>
  <2>1. conn.next + Len(reqs) \in Int
    BY <1>2
  <2> HIDE DEF reqs
  <2> QED
    BY <1>3, <2>1 DEF Connections
<1> HIDE DEF open
<1>5. /\ task \in TaskRecords /\ SameCall(task, tasks[t]) /\ task.pc = "await" /\ task.conn = open
      /\ task.got = tasks[t].got /\ task.reqs = reqs /\ task.h = tasks[t].h
  BY <1>2, <1>4 DEF TaskRecords, SameCall, Clients!Stages
<1>6. Called(reqs) /\ tasks[t].got = <<>>
  BY TaskIs DEF TaskOk
<1> HIDE DEF task
<1>7. Exchanged(wrote, acked, task)
  <2>1. /\ task.conn.wire = wire /\ Len(task.got) = 0 /\ Len(task.conn.back) = 0 /\ Len(reqs) \in Nat
    BY <1>2, <1>4, <1>5, <1>6
  <2> HIDE DEF reqs
  <2> QED
    BY <1>3, <1>5, <2>1 DEF Exchanged
<1>8. TaskOk(wrote, acked, task)
  BY <1>5, <1>6, <1>7 DEF TaskOk
<1> QED
  BY <1>1, <1>5, <1>8

LEMMA AcquireKeepsInv ==
  ASSUME Clients!ScribeAssumption, ClientInv, NEW t \in ClientTasks, Clients!Acquire(t)
  PROVE  ClientInv'
<1>1. tasks[t].pc = "acquire" /\ UNCHANGED <<stored, wrote, caches, orphans, hour, acked>>
  BY DEF Clients!Acquire, Clients!At, Clients!Outside, Clients!Unserved
<1>2. idle \in Seq(Connections) /\ PoolOk(idle) /\ orphans \subseteq Seq(WireRequests) \ {<<>>}
  BY DEF ClientInv, ClientTypes
<1>3. CASE idle = <<>>
  <2> DEFINE task == [tasks[t] EXCEPT !.pc = "open"]
  <2>1. tasks' = Clients!Becomes(t, task) /\ idle' = idle
    BY <1>3 DEF Clients!Acquire, Clients!To
  <2>2. task \in TaskRecords /\ SameCall(task, tasks[t]) /\ task.pc = "open" /\ task.got = tasks[t].got /\ task.reqs = tasks[t].reqs
    BY TaskIs DEF TaskRecords, SameCall, Clients!Stages
  <2> HIDE DEF task
  <2>3. TaskOk(wrote, acked, task)
    BY <1>1, <2>2, TaskIs DEF TaskOk
  <2> QED
    BY <1>1, <1>2, <2>1, <2>2, <2>3, CallStepKeepsInv
<1>4. CASE idle # <<>>
  <2>1. Head(idle) \in Connections /\ Head(idle) = idle[1] /\ Len(idle) > 0
    BY <1>2, <1>4
  <2>2. Head(idle).wire = <<>> /\ Head(idle).back = <<>>
    BY <1>2, <2>1 DEF PoolOk
  <2>3. PICK task \in TaskRecords :
            /\ Clients!Sent(t, Head(idle)) = Clients!Becomes(t, task)
            /\ SameCall(task, tasks[t]) /\ TaskOk(wrote, acked, task)
    BY <1>1, <2>1, <2>2, SentIsOk
  <2>4. tasks' = Clients!Becomes(t, task) /\ idle' = Tail(idle)
    BY <1>4, <2>3 DEF Clients!Acquire
  <2>5. Tail(idle) \in Seq(Connections) /\ Len(Tail(idle)) = Len(idle) - 1
        /\ \A i \in 1..Len(Tail(idle)) : Tail(idle)[i] = idle[i + 1] /\ i + 1 \in 1..Len(idle)
    BY <1>2, <1>4
  <2>6. ClientPool \in Nat
    BY DEF Clients!ScribeAssumption
  <2>7. PoolOk(Tail(idle))
    BY <1>2, <2>1, <2>5, <2>6 DEF PoolOk
  <2> QED
    BY <1>1, <1>2, <2>3, <2>4, <2>5, <2>7, CallStepKeepsInv
<1> QED
  BY <1>3, <1>4

\* A call that ends, however it does, leaves nothing to show but the pool.
LEMMA EndedKeepsInv ==
  ASSUME Clients!ScribeAssumption, ClientInv, NEW t \in ClientTasks, tasks' = Clients!Failed(t), idle' = idle,
         orphans' \subseteq Seq(WireRequests) \ {<<>>}, UNCHANGED <<stored, wrote, caches, hour, acked>>
  PROVE  ClientInv'
<1>1. idle' \in Seq(Connections) /\ PoolOk(idle')
  BY DEF ClientInv, ClientTypes
<1>2. tasks' = Clients!Becomes(t, Clients!Resting)
  BY DEF Clients!Failed
<1> QED
  BY <1>1, <1>2, RestingIs, RestingIsOk, CallStepKeepsInv

LEMMA OpenKeepsInv ==
  ASSUME Clients!ScribeAssumption, ClientInv, NEW t \in ClientTasks, Clients!Open(t)
  PROVE  ClientInv'
<1>1. tasks[t].pc \in {"open", "retry"} /\ UNCHANGED <<stored, wrote, caches, idle, orphans, hour, acked>>
  BY DEF Clients!Open, Clients!Unserved
<1>2. idle' \in Seq(Connections) /\ PoolOk(idle') /\ orphans' \subseteq Seq(WireRequests) \ {<<>>}
  BY <1>1 DEF ClientInv, ClientTypes
<1>3. CASE token = "good"
  <2> DEFINE conn == [Clients!NoConn EXCEPT !.next = 1]
  <2>1. conn \in Connections /\ conn.wire = <<>> /\ conn.back = <<>>
    <3>1. Clients!NoConn \in Connections /\ Clients!NoConn.wire = <<>> /\ Clients!NoConn.back = <<>>
      BY DEF Clients!NoConn, Connections
    <3> QED
      BY <3>1 DEF Connections
  <2>2. tasks' = Clients!Sent(t, conn)
    BY <1>3 DEF Clients!Open
  <2> HIDE DEF conn
  <2>3. PICK task \in TaskRecords :
            /\ Clients!Sent(t, conn) = Clients!Becomes(t, task)
            /\ SameCall(task, tasks[t]) /\ TaskOk(wrote, acked, task)
    BY <1>1, <2>1, SentIsOk
  <2> QED
    BY <1>1, <1>2, <2>2, <2>3, CallStepKeepsInv
<1>4. CASE token # "good" /\ Clients!At(t, "open") /\ ClientRefreshes
  <2> DEFINE task == [tasks[t] EXCEPT !.pc = "retry"]
  <2>1. tasks' = Clients!Becomes(t, task)
    BY <1>4 DEF Clients!Open, Clients!To
  <2>2. task \in TaskRecords /\ SameCall(task, tasks[t]) /\ task.pc = "retry" /\ task.got = tasks[t].got /\ task.reqs = tasks[t].reqs
    BY TaskIs DEF TaskRecords, SameCall, Clients!Stages
  <2> HIDE DEF task
  <2>3. TaskOk(wrote, acked, task)
    BY <1>1, <2>2, TaskIs DEF TaskOk
  <2> QED
    BY <1>1, <1>2, <2>1, <2>2, <2>3, CallStepKeepsInv
<1>5. CASE token # "good" /\ ~(Clients!At(t, "open") /\ ClientRefreshes)
  <2>1. tasks' = Clients!Failed(t)
    BY <1>5 DEF Clients!Open
  <2> QED
    BY <1>1, <1>2, <2>1, EndedKeepsInv
<1> QED
  BY <1>3, <1>4, <1>5

LEMMA LoseKeepsInv ==
  ASSUME Clients!ScribeAssumption, ClientInv, NEW t \in ClientTasks, Clients!Lose(t)
  PROVE  ClientInv'
<1>1. /\ tasks' = Clients!Failed(t) /\ UNCHANGED <<stored, wrote, caches, idle, hour, acked>>
      /\ orphans' = IF tasks[t].conn.wire = <<>> THEN orphans ELSE orphans \cup {tasks[t].conn.wire}
  BY DEF Clients!Lose
<1>2. orphans' \subseteq Seq(WireRequests) \ {<<>>}
  BY <1>1, TaskIs DEF ClientInv, ClientTypes
<1> QED
  BY <1>1, <1>2, EndedKeepsInv

LEMMA ReceiveKeepsInv ==
  ASSUME Clients!ScribeAssumption, ClientInv, NEW t \in ClientTasks, Clients!Receive(t)
  PROVE  ClientInv'
<1> DEFINE old == tasks[t]
           conn == tasks[t].conn
           back == tasks[t].conn.back
           reply == Head(back)
           all == Len(old.got) + 1 = Len(old.reqs)
           rest == [conn EXCEPT !.back = Tail(back)]
           task == [old EXCEPT !.conn = IF all THEN Clients!NoConn ELSE rest,
                               !.got = Append(old.got, reply.value),
                               !.pc = IF all THEN "settle" ELSE "await"]
<1>1. /\ old.pc = "await" /\ back # <<>> /\ UNCHANGED <<stored, wrote, caches, orphans, hour, acked>>
      /\ IF reply.id # Clients!Expected(t) THEN tasks' = Clients!Failed(t) /\ UNCHANGED idle
         ELSE /\ tasks' = Clients!Becomes(t, task)
              /\ idle' = IF all THEN Clients!Pooled(<<rest>>) ELSE idle
  BY DEF Clients!Receive, Clients!At, Clients!Outside, Clients!Unserved
<1>2. idle \in Seq(Connections) /\ PoolOk(idle) /\ orphans \subseteq Seq(WireRequests) \ {<<>>}
  BY DEF ClientInv, ClientTypes
<1>3. CASE reply.id # Clients!Expected(t)
  BY <1>1, <1>2, <1>3, EndedKeepsInv
<1>4. CASE reply.id = Clients!Expected(t)
  <2>1. /\ old \in TaskRecords /\ old.reqs \in Seq(ClientRequests) /\ old.got \in Seq(Int) /\ conn \in Connections
        /\ conn.wire \in Seq(WireRequests) /\ back \in Seq(WireReplies)
        /\ Called(old.reqs) /\ Exchanged(wrote, acked, old)
    BY <1>1, TaskIs DEF TaskOk
  <2>2. /\ reply = back[1] /\ reply.value \in Int /\ Len(back) >= 1 /\ Tail(back) \in Seq(WireReplies)
        /\ Len(Tail(back)) = Len(back) - 1 /\ \A i \in 1..Len(Tail(back)) : Tail(back)[i] = back[i + 1] /\ i + 1 \in 1..Len(back)
    <3>1. Len(back) >= 1 /\ Len(back) \in Nat /\ reply = back[1] /\ reply \in WireReplies
      BY <1>1, <2>1
    <3>2. reply.value \in Int
      BY <3>1 DEF WireReplies
    <3>3. /\ Tail(back) \in Seq(WireReplies) /\ Len(Tail(back)) = Len(back) - 1
          /\ \A i \in 1..Len(Tail(back)) : Tail(back)[i] = back[i + 1]
      BY <1>1, <2>1
    <3>4. \A i \in 1..Len(Tail(back)) : i + 1 \in 1..Len(back)
      BY <3>1, <3>3
    <3> QED
      BY <3>1, <3>2, <3>3, <3>4
  <2>3. rest \in Connections /\ rest.wire = conn.wire /\ rest.back = Tail(back)
    BY <2>1, <2>2 DEF Connections
  <2>4. Clients!NoConn \in Connections
    BY DEF Clients!NoConn, Connections
  <2>5. Tells(wrote, acked, old, Len(old.got) + 1, reply.value)
    BY <2>1, <2>2 DEF Exchanged
  <2> DEFINE got == Append(old.got, reply.value)
  <2>6. /\ got \in Seq(Int) /\ Len(got) = Len(old.got) + 1
        /\ \A i \in 1..Len(got) : Tells(wrote, acked, old, i, got[i])
    <3>1. /\ got \in Seq(Int) /\ Len(got) = Len(old.got) + 1 /\ got[Len(old.got) + 1] = reply.value
          /\ \A i \in 1..Len(old.got) : got[i] = old.got[i]
      BY <2>1, <2>2
    <3>2. \A i \in 1..Len(old.got) : Tells(wrote, acked, old, i, old.got[i])
      BY <2>1 DEF Exchanged
    <3> HIDE DEF got
    <3>3. ASSUME NEW i \in 1..Len(got) PROVE Tells(wrote, acked, old, i, got[i])
      <4>1. i \in 1..Len(old.got) \/ i = Len(old.got) + 1
        BY <2>1, <3>1
      <4> QED
        BY <2>5, <3>1, <3>2, <4>1
    <3> QED
      BY <3>1, <3>3
  <2> HIDE DEF got, rest, reply
  <2>7. /\ task \in TaskRecords /\ SameCall(task, old) /\ task.got = got /\ task.reqs = old.reqs /\ task.h = old.h
        /\ all => task.pc = "settle"
        /\ ~all => task.pc = "await" /\ task.conn = rest
    <3>1. task = [old EXCEPT !.conn = IF all THEN Clients!NoConn ELSE rest, !.got = got,
                             !.pc = IF all THEN "settle" ELSE "await"]
      BY DEF got
    <3>2. (IF all THEN Clients!NoConn ELSE rest) \in Connections /\ (IF all THEN "settle" ELSE "await") \in Clients!Stages
      BY <2>3, <2>4 DEF Clients!Stages
    <3> HIDE DEF task, all
    <3> QED
      BY <2>1, <2>6, <3>1, <3>2 DEF TaskRecords, SameCall
  <2> HIDE DEF task
  <2>8. \A i, v : Tells(wrote, acked, old, i, v) => Tells(wrote, acked, task, i, v)
    BY <2>7, TellsAlike
  <2>9. ASSUME ~all PROVE Exchanged(wrote, acked, task)
    <3>1. task.conn.wire = conn.wire /\ task.conn.back = Tail(back)
      BY <2>3, <2>7, <2>9
    <3>2. Len(task.got) + Len(task.conn.back) = Len(old.got) + Len(back)
      <4>1. Len(old.got) \in Nat /\ Len(back) \in Nat /\ Len(task.got) = Len(old.got) + 1 /\ Len(task.conn.back) = Len(back) - 1
        BY <2>1, <2>2, <2>6, <2>7, <3>1
      <4> HIDE DEF old, back
      <4> QED
        BY <4>1
    <3>3. ASSUME NEW i \in 1..Len(task.conn.back)
          PROVE  Tells(wrote, acked, task, Len(task.got) + i, task.conn.back[i].value)
      <4>1. i + 1 \in 1..Len(back) /\ task.conn.back[i] = back[i + 1] /\ i \in Nat
        BY <2>2, <3>1
      <4>2. Tells(wrote, acked, old, Len(old.got) + (i + 1), back[i + 1].value)
        BY <2>1, <4>1 DEF Exchanged
      <4>3. Len(task.got) + i = Len(old.got) + (i + 1)
        <5> DEFINE m == Len(old.got)
                   n == Len(task.got)
        <5>1. m \in Nat /\ n = m + 1 /\ i \in Nat
          BY <2>1, <2>6, <2>7, <4>1
        <5> HIDE DEF m, n
        <5>2. n + i = m + (i + 1)
          BY <5>1
        <5> QED
          BY <5>2 DEF m, n
      <4> QED
        BY <2>8, <4>1, <4>2, <4>3
    <3>4. /\ Len(old.got) + Len(back) + Len(conn.wire) = Len(old.reqs)
          /\ \A i \in 1..Len(conn.wire) :
                /\ conn.wire[i].branch = ClientBranch[old.h]
                /\ conn.wire[i].body = old.reqs[Len(old.got) + Len(back) + i]
      BY <2>1 DEF Exchanged
    <3> QED
      BY <2>6, <2>7, <2>8, <3>1, <3>2, <3>3, <3>4 DEF Exchanged
  <2>10. TaskOk(wrote, acked, task)
    <3>1. CASE all
      BY <2>1, <2>6, <2>7, <2>8, <3>1 DEF TaskOk
    <3>2. CASE ~all
      BY <2>1, <2>7, <2>9, <3>2 DEF TaskOk
    <3> QED
      BY <3>1, <3>2
  <2>11. idle' \in Seq(Connections) /\ PoolOk(idle')
    <3>1. CASE ~all \/ Len(idle) >= ClientPool
      <4>1. idle' = idle
        BY <1>1, <1>2, <1>4, <3>1 DEF Clients!Pooled, Clients!ScribeAssumption
      <4> QED
        BY <1>2, <4>1
    <3>2. CASE all /\ Len(idle) < ClientPool
      <4>1. idle' = idle \o <<rest>>
        BY <1>1, <1>4, <3>2 DEF Clients!Pooled
      <4>2. Len(back) = 1 /\ Len(conn.wire) = 0
        <5>1. Len(old.got) + Len(back) + Len(conn.wire) = Len(old.reqs) /\ Len(old.got) + 1 = Len(old.reqs)
          BY <2>1, <3>2 DEF Exchanged
        <5>2. Len(old.got) \in Nat /\ Len(back) \in Nat /\ Len(back) >= 1 /\ Len(conn.wire) \in Nat
          BY <2>1, <2>2
        <5> DEFINE g == Len(old.got)
                   n == Len(back)
                   w == Len(conn.wire)
                   r == Len(old.reqs)
        <5>3. g \in Nat /\ n \in Nat /\ w \in Nat /\ n >= 1 /\ g + n + w = r /\ g + 1 = r
          BY <5>1, <5>2
        <5> HIDE DEF g, n, w, r
        <5>4. n = 1 /\ w = 0
          BY <5>3
        <5> QED
          BY <5>4 DEF n, w
      <4>3. rest.wire = <<>> /\ rest.back = <<>>
        <5>1. Len(Tail(back)) = 0
          BY <2>2, <4>2
        <5> DEFINE tail == Tail(back)
        <5>2. tail \in Seq(WireReplies) /\ Len(tail) = 0
          BY <2>2, <5>1
        <5> HIDE DEF tail
        <5>4. tail = <<>>
          BY <5>2
        <5>3. conn.wire = <<>>
          BY <2>1, <4>2
        <5> QED
          BY <2>3, <5>3, <5>4 DEF tail
      <4>4. /\ idle \o <<rest>> \in Seq(Connections) /\ Len(idle \o <<rest>>) = Len(idle) + 1
            /\ \A i \in 1..Len(idle \o <<rest>>) : IF i = Len(idle) + 1 THEN (idle \o <<rest>>)[i] = rest
                                                 ELSE i \in 1..Len(idle) /\ (idle \o <<rest>>)[i] = idle[i]
        BY <1>2, <2>3
      <4>5. ClientPool \in Nat /\ Len(idle) + 1 <= ClientPool
        BY <1>2, <3>2 DEF Clients!ScribeAssumption
      <4> QED
        BY <1>2, <4>1, <4>3, <4>4, <4>5 DEF PoolOk
    <3>3. Len(idle) \in Nat /\ ClientPool \in Nat
      BY <1>2 DEF Clients!ScribeAssumption
    <3> QED
      BY <3>1, <3>2, <3>3
  <2>12. tasks' = Clients!Becomes(t, task)
    BY <1>1, <1>4
  <2> QED
    BY <1>1, <1>2, <2>7, <2>10, <2>11, <2>12, CallStepKeepsInv
<1> QED
  BY <1>3, <1>4

LEMMA LargerOfTwo ==
  ASSUME NEW p \in Nat, NEW q \in Nat
  PROVE  Clients!Max({p, q}) \in {p, q}
<1>1. \E x \in {p, q} : \A y \in {p, q} : x >= y
  BY SMT
<1> QED
  BY <1>1 DEF Clients!Max

\* What a call of a write was told, it made: of each of its keys the write it takes
\* for its own is one of the key, no later than what is there.
LEMMA LandedIs ==
  ASSUME Clients!ScribeAssumption, ClientInv, NEW t \in ClientTasks, tasks[t].pc = "settle",
         tasks[t].reqs[1].op # "get", -1 \notin Clients!ToSet(tasks[t].got),
         NEW k \in Clients!Writes(tasks[t].reqs)
  PROVE  /\ k \in ClientKeys /\ Clients!LandedAs(t, k) \in Nat
         /\ Clients!LandedAs(t, k) <= stored[ClientBranch[tasks[t].h]][k]
<1> DEFINE task == tasks[t]
           b == ClientBranch[tasks[t].h]
           mark == <<b, IF task.reqs[1] = Clients!Sweep THEN "*" ELSE k>>
<1>1. /\ task.reqs \in Seq(ClientRequests) /\ task.got \in Seq(Int) /\ b \in Clients!Branches /\ Called(task.reqs)
      /\ Len(task.got) = Len(task.reqs) /\ \A i \in 1..Len(task.got) : Tells(wrote, acked, task, i, task.got[i])
      /\ Len(task.reqs) > 0 /\ k \in ClientKeys
  BY TaskIs, WritesAreKeys DEF TaskOk
<1>2. \A k1 \in ClientKeys : ~IsGet(task.reqs, k1)
  <2> SUFFICES ASSUME NEW k1 \in ClientKeys, IsGet(task.reqs, k1) PROVE FALSE
    OBVIOUS
  <2>1. task.reqs[1] = Clients!GetOf(k1) /\ Clients!GetOf(k1).op = "get"
    BY GetWrites DEF Clients!GetOf
  <2> QED
    BY <2>1
<1>3. PICK i \in 1..Len(task.reqs) : task.reqs[i].op # "get" /\ <<b, task.reqs[i].key>> = mark
  <2>1. CASE task.reqs = <<Clients!Sweep>>
    <3>1. task.reqs[1] = Clients!Sweep /\ Clients!Sweep.key = "*" /\ 1 \in 1..Len(task.reqs)
      BY <1>1, <2>1 DEF Clients!Sweep
    <3> QED
      BY <3>1
  <2>2. CASE ArePuts(task.reqs)
    <3>1. task.reqs[1] # Clients!Sweep /\ Clients!Writes(task.reqs) = {task.reqs[i].key : i \in 1..Len(task.reqs)}
      BY <1>1, <2>2, PutWrites
    <3>2. PICK i \in 1..Len(task.reqs) : k = task.reqs[i].key
      BY <3>1
    <3>3. PICK l \in ClientKeys : task.reqs[i] = Clients!PutOf(l)
      BY <2>2 DEF ArePuts
    <3>4. task.reqs[i].op # "get"
      BY <3>3 DEF Clients!PutOf
    <3> QED
      BY <3>1, <3>2, <3>4
  <2> QED
    BY <1>1, <1>2, <2>1, <2>2 DEF Called
<1>4. Tells(wrote, acked, task, i, task.got[i]) /\ task.got[i] \in Clients!ToSet(task.got) /\ task.got[i] # -1
  BY <1>1, <1>3 DEF Clients!ToSet
<1>5. \A l \in ClientKeys : task.reqs[i] # Clients!GetOf(l)
  BY <1>3 DEF Clients!GetOf
<1>6. task.got[i] \in 1..Len(wrote) /\ wrote[task.got[i]] = mark
  BY <1>3, <1>4, <1>5 DEF Tells
<1> DEFINE landed == Clients!LandedAs(t, k)
<1>7. landed \in Clients!ToSet(task.got) /\ landed > 0 /\ wrote[landed] = mark
  <2>1. task.got[i] > 0
    BY <1>1, <1>6
  <2> HIDE DEF mark
  <2>2. \E n \in Clients!ToSet(task.got) : n > 0 /\ wrote[n] = mark
    BY <1>4, <1>6, <2>1
  <2> QED
    BY <2>2 DEF Clients!LandedAs, mark
<1> HIDE DEF landed
<1>8. landed \in 1..Len(wrote)
  <2>1. PICK j \in 1..Len(task.got) : landed = task.got[j]
    BY <1>1, <1>7 DEF Clients!ToSet
  <2>2. Tells(wrote, acked, task, j, landed)
    BY <1>1, <2>1
  <2> QED
    BY <1>7, <2>2 DEF Tells, Bears
<1>9. mark \in {<<b, k>>, <<b, "*">>}
  OBVIOUS
<1>10. Len(wrote) \in Nat /\ StoreOk(stored, wrote)
  BY DEF ClientInv, ClientTypes
<1> HIDE DEF mark
<1>11. landed <= stored[b][k] /\ landed \in Nat
  BY <1>1, <1>7, <1>8, <1>9, <1>10 DEF StoreOk
<1> QED
  BY <1>1, <1>11 DEF landed

\* A write that is acknowledged raises what its own cache's readers are owed: of
\* its keys the cache holds, and its gets will bring, nothing that is not marked.
LEMMA AckedKeepsInv ==
  ASSUME Clients!ScribeAssumption, ClientInv, NEW t \in ClientTasks, tasks[t].pc = "settle",
         tasks[t].reqs[1].op # "get", -1 \notin Clients!ToSet(tasks[t].got),
         tasks' = Clients!Failed(t),
         acked' = [acked EXCEPT ![tasks[t].h] = [l \in ClientKeys |->
                     IF l \in Clients!Writes(tasks[t].reqs)
                     THEN Clients!Max({acked[tasks[t].h][l], Clients!LandedAs(t, l)}) ELSE acked[tasks[t].h][l]]],
         UNCHANGED <<stored, wrote, caches, idle, orphans, hour>>
  PROVE  ClientInv'
<1> DEFINE h == tasks[t].h
           keys == Clients!Writes(tasks[t].reqs)
<1>1. /\ h \in Clients!Handles /\ acked \in [Clients!Handles -> [ClientKeys -> Nat]]
      /\ tasks \in [ClientTasks -> TaskRecords] /\ AcksOk(stored, acked)
  BY TaskIs DEF ClientInv, ClientTypes
<1>2. ASSUME NEW l \in keys
      PROVE  LET n == Clients!Max({acked[h][l], Clients!LandedAs(t, l)})
             IN  l \in ClientKeys /\ n \in Nat /\ n <= stored[ClientBranch[h]][l]
  <2>1. /\ l \in ClientKeys /\ Clients!LandedAs(t, l) \in Nat
        /\ Clients!LandedAs(t, l) <= stored[ClientBranch[h]][l]
    BY LandedIs
  <2>2. acked[h][l] \in Nat /\ acked[h][l] <= stored[ClientBranch[h]][l]
    BY <1>1, <2>1 DEF AcksOk
  <2> QED
    BY <2>1, <2>2, LargerOfTwo
<1>3. /\ acked' \in [Clients!Handles -> [ClientKeys -> Nat]]
      /\ \A g \in Clients!Handles, l \in ClientKeys :
            acked'[g][l] = IF g = h /\ l \in keys THEN Clients!Max({acked[h][l], Clients!LandedAs(t, l)}) ELSE acked[g][l]
  <2>1. ASSUME NEW l \in ClientKeys
        PROVE  (IF l \in keys THEN Clients!Max({acked[h][l], Clients!LandedAs(t, l)}) ELSE acked[h][l]) \in Nat
    BY <1>1, <1>2
  <2> DEFINE told == [l \in ClientKeys |->
                        IF l \in keys THEN Clients!Max({acked[h][l], Clients!LandedAs(t, l)}) ELSE acked[h][l]]
  <2>2. told \in [ClientKeys -> Nat]
    BY <2>1
  <2>3. \A l \in ClientKeys : told[l] = IF l \in keys THEN Clients!Max({acked[h][l], Clients!LandedAs(t, l)}) ELSE acked[h][l]
    OBVIOUS
  <2>4. acked' = [acked EXCEPT ![h] = told]
    OBVIOUS
  <2> HIDE DEF told, h, keys
  <2>5. acked' \in [Clients!Handles -> [ClientKeys -> Nat]] /\ \A g \in Clients!Handles : acked'[g] = IF g = h THEN told ELSE acked[g]
    BY <1>1, <2>2, <2>4
  <2> QED
    BY <2>3, <2>5
<1>4. AcksOk(stored, acked')
  <2> SUFFICES ASSUME NEW g \in Clients!Handles, NEW l \in ClientKeys PROVE acked'[g][l] <= stored[ClientBranch[g]][l]
    BY DEF AcksOk
  <2>1. CASE g = h /\ l \in keys
    BY <1>2, <1>3, <2>1
  <2>2. CASE ~(g = h /\ l \in keys)
    BY <1>1, <1>3, <2>2 DEF AcksOk
  <2> QED
    BY <2>1, <2>2
<1>5. tasks[t].pc # "rest"
  OBVIOUS
<1>6. ASSUME NEW g \in Clients!Handles PROVE CacheOk(wrote, acked', g, caches[g])
  <2>1. CacheOk(wrote, acked, g, caches[g]) /\ DOMAIN caches[g].entries \subseteq ClientKeys
    BY CacheShape DEF ClientInv, ClientTypes
  <2>2. ASSUME NEW k \in DOMAIN caches[g].entries
        PROVE  caches[g].entries[k].raced \/ caches[g].entries[k].value >= acked'[g][k]
    <3>1. CASE g = h /\ k \in keys
      BY <1>5, <2>2, <3>1 DEF ClientInv, Evicted
    <3>2. CASE ~(g = h /\ k \in keys)
      <4>1. acked'[g][k] = acked[g][k]
        BY <1>3, <2>1, <3>2
      <4> QED
        BY <2>1, <4>1 DEF CacheOk
    <3> QED
      BY <3>1, <3>2
  <2> QED
    BY <2>1, <2>2 DEF CacheOk
<1>7. ASSUME NEW u \in ClientTasks, u # t PROVE TaskOk(wrote, acked', tasks[u])
  <2>1. TaskOk(wrote, acked, tasks[u]) /\ tasks[u] \in TaskRecords /\ tasks[u].h \in Clients!Handles
        /\ tasks[u].reqs \in Seq(ClientRequests)
    BY TaskIs
  <2>2. CASE tasks[u].pc = "rest"
    BY <2>2 DEF TaskOk
  <2>3. CASE tasks[u].pc # "rest"
    <3>1. ASSUME NEW i \in 1..Len(tasks[u].reqs), NEW v, Tells(wrote, acked, tasks[u], i, v)
          PROVE  Tells(wrote, acked', tasks[u], i, v)
      <4>1. CASE v = -1 \/ (/\ tasks[u].reqs[i].op # "get" /\ v \in 1..Len(wrote)
                            /\ wrote[v] = <<ClientBranch[tasks[u].h], tasks[u].reqs[i].key>>)
        BY <4>1 DEF Tells
      <4>2. ASSUME NEW k \in ClientKeys, tasks[u].reqs[i] = Clients!GetOf(k), Bears(wrote, ClientBranch[tasks[u].h], k, v),
                   tasks[u].raced \/ v >= acked[tasks[u].h][k]
            PROVE  Tells(wrote, acked', tasks[u], i, v)
        <5>1. CASE tasks[u].h = h /\ k \in keys
          <6>1. IsGet(tasks[u].reqs, k)
            <7>1. Clients!GetOf(k) \in Clients!ToSet(tasks[u].reqs) /\ Called(tasks[u].reqs)
              BY <2>1, <2>3, <4>2 DEF Clients!ToSet, TaskOk
            <7>2. PICK l \in ClientKeys : IsGet(tasks[u].reqs, l)
              BY <2>1, <7>1, SweepWrites, PutWrites DEF Called
            <7>3. Clients!GetOf(k) = Clients!GetOf(l)
              BY <7>1, <7>2, GetWrites
            <7> QED
              BY <7>2, <7>3, RequestsDiffer
          <6>2. tasks[u].raced
            BY <1>5, <2>3, <5>1, <6>1 DEF ClientInv, RacesMarked
          <6> QED
            BY <4>2, <6>2 DEF Tells
        <5>2. CASE ~(tasks[u].h = h /\ k \in keys)
          <6>1. acked'[tasks[u].h][k] = acked[tasks[u].h][k]
            BY <1>3, <2>1, <5>2
          <6> QED
            BY <4>2, <6>1 DEF Tells
        <5> QED
          BY <5>1, <5>2
      <4> QED
        BY <3>1, <4>1, <4>2 DEF Tells
    <3>2. ASSUME tasks[u].pc = "await" PROVE Exchanged(wrote, acked', tasks[u])
      <4>1. Exchanged(wrote, acked, tasks[u])
        BY <2>1, <3>2 DEF TaskOk
      <4> DEFINE g == Len(tasks[u].got)
                 n == Len(tasks[u].conn.back)
                 w == Len(tasks[u].conn.wire)
                 r == Len(tasks[u].reqs)
      <4>2. g \in Nat /\ n \in Nat /\ w \in Nat /\ r \in Nat /\ g + n + w = r
        <5>1. g + n + w = r
          BY <4>1 DEF Exchanged
        <5>2. /\ tasks[u].got \in Seq(Int) /\ tasks[u].reqs \in Seq(ClientRequests)
              /\ tasks[u].conn.back \in Seq(WireReplies) /\ tasks[u].conn.wire \in Seq(WireRequests)
          BY TaskIs
        <5>3. g \in Nat
          BY <5>2
        <5>4. n \in Nat
          BY <5>2
        <5>5. w \in Nat
          BY <5>2
        <5>6. r \in Nat
          BY <5>2
        <5> QED
          BY <5>1, <5>3, <5>4, <5>5, <5>6
      <4> HIDE DEF g, n, w, r
      <4>3. (\A i \in 1..g : i \in 1..r) /\ (\A i \in 1..n : g + i \in 1..r)
        BY <4>2
      <4> QED
        BY <3>1, <4>1, <4>3 DEF Exchanged, g, n, w, r
    <3> QED
      BY <2>1, <3>1, <3>2 DEF TaskOk
  <2> QED
    BY <2>2, <2>3
<1>8. /\ tasks' \in [ClientTasks -> TaskRecords]
      /\ \A u \in ClientTasks : tasks'[u] = IF u = t THEN Clients!Resting ELSE tasks[u]
      /\ RacesMarked(tasks') /\ Evicted(tasks', caches)
  <2>1. tasks' = [tasks EXCEPT ![t] = Clients!Resting]
    BY DEF Clients!Failed, Clients!Becomes
  <2>2. RacesMarked(tasks) /\ Evicted(tasks, caches)
    BY DEF ClientInv
  <2>3. RacesMarked([tasks EXCEPT ![t] = Clients!Resting]) /\ Evicted([tasks EXCEPT ![t] = Clients!Resting], caches)
    BY <1>1, <2>2, RestingIs, StepKeepsMarks
  <2> QED
    BY <1>1, <2>1, <2>3, RestingIs
<1>9. \A u \in ClientTasks : TaskOk(wrote, acked', tasks'[u])
  BY <1>7, <1>8, RestingIsOk
<1>10. ClientTypes'
  BY <1>3, <1>8 DEF ClientInv, ClientTypes
<1> QED
  BY <1>4, <1>6, <1>8, <1>9, <1>10 DEF ClientInv

\* A get that is over puts what it was told into the cache.
LEMMA CachedKeepsInv ==
  ASSUME Clients!ScribeAssumption, ClientInv, NEW t \in ClientTasks, tasks[t].pc = "settle",
         tasks[t].reqs[1].op = "get", -1 \notin Clients!ToSet(tasks[t].got),
         tasks' = Clients!Failed(t),
         caches' = [caches EXCEPT ![tasks[t].h] =
                      Clients!CachePut(tasks[t].h, tasks[t].reqs[1].key, tasks[t].got[1], tasks[t].raced)],
         UNCHANGED <<stored, wrote, acked, idle, orphans, hour>>
  PROVE  ClientInv'
<1> DEFINE h == tasks[t].h
           raced == tasks[t].raced
           value == tasks[t].got[1]
<1>1. /\ h \in Clients!Handles /\ tasks \in [ClientTasks -> TaskRecords] /\ raced \in BOOLEAN
      /\ caches \in [Clients!Handles -> CacheRecords] /\ CacheOk(wrote, acked, h, caches[h])
      /\ tasks[t].reqs \in Seq(ClientRequests) /\ Called(tasks[t].reqs) /\ tasks[t].got \in Seq(Int)
      /\ Len(tasks[t].got) = Len(tasks[t].reqs) /\ \A i \in 1..Len(tasks[t].got) : Tells(wrote, acked, tasks[t], i, tasks[t].got[i])
  BY TaskIs DEF ClientInv, ClientTypes, TaskOk, TaskRecords
<1>2. PICK k \in ClientKeys : IsGet(tasks[t].reqs, k)
  <2>1. Clients!Sweep.op # "get" /\ <<Clients!Sweep>>[1] = Clients!Sweep
    BY DEF Clients!Sweep
  <2>2. ~ArePuts(tasks[t].reqs)
    BY <1>1, PutWrites
  <2> QED
    BY <1>1, <2>1, <2>2 DEF Called
<1>3. tasks[t].reqs[1] = Clients!GetOf(k) /\ tasks[t].reqs[1].key = k /\ Len(tasks[t].got) = 1
  BY <1>1, <1>2, GetWrites DEF Clients!GetOf
<1>4. Bears(wrote, ClientBranch[h], k, value) /\ (raced \/ value >= acked[h][k]) /\ value \in Nat
  <2>1. Tells(wrote, acked, tasks[t], 1, value) /\ value # -1
    BY <1>1, <1>3 DEF Clients!ToSet
  <2>2. \A l \in ClientKeys : tasks[t].reqs[1] = Clients!GetOf(l) => l = k
    BY <1>3, RequestsDiffer
  <2>3. Bears(wrote, ClientBranch[h], k, value) /\ (raced \/ value >= acked[h][k])
    BY <1>3, <2>1, <2>2 DEF Tells
  <2> QED
    BY <2>3 DEF Bears
<1> DEFINE new == Clients!CachePut(h, k, value, raced)
<1>5. ClientTypes
  BY DEF ClientInv
<1>6. /\ new \in CacheRecords /\ CacheOk(wrote, acked, h, new)
      /\ \A l \in DOMAIN new.entries :
            \/ l \in DOMAIN caches[h].entries /\ new.entries[l] = caches[h].entries[l]
            \/ l = k /\ new.entries[l].raced = raced
  BY <1>1, <1>4, <1>5, CachePutIsOk
<1>7. caches' = [caches EXCEPT ![h] = new]
  BY <1>3
<1> HIDE DEF new
<1>8. caches' \in [Clients!Handles -> CacheRecords] /\ \A g \in Clients!Handles : caches'[g] = IF g = h THEN new ELSE caches[g]
  <2> HIDE DEF h
  <2> QED
    BY <1>1, <1>6, <1>7
<1>9. \A g \in Clients!Handles : CacheOk(wrote, acked, g, caches'[g])
  BY <1>6, <1>8 DEF ClientInv
<1>10. Evicted(tasks, caches')
  <2> SUFFICES ASSUME NEW u \in ClientTasks, tasks[u].pc # "rest",
                      NEW l \in Clients!Writes(tasks[u].reqs) \cap DOMAIN caches'[tasks[u].h].entries
               PROVE  caches'[tasks[u].h].entries[l].raced
    BY DEF Evicted
  <2>1. tasks[u].h \in Clients!Handles
    BY TaskIs
  <2>2. CASE l \in DOMAIN caches[tasks[u].h].entries /\ caches'[tasks[u].h].entries[l] = caches[tasks[u].h].entries[l]
    BY <2>2 DEF ClientInv, Evicted
  <2>3. CASE ~(l \in DOMAIN caches[tasks[u].h].entries /\ caches'[tasks[u].h].entries[l] = caches[tasks[u].h].entries[l])
    <3>1. tasks[u].h = h /\ l = k /\ caches'[h].entries[l].raced = raced
      BY <1>6, <1>8, <2>1, <2>3
    <3>2. raced
      BY <1>2, <3>1 DEF ClientInv, RacesMarked
    <3> QED
      BY <3>1, <3>2
  <2> QED
    BY <2>2, <2>3
<1>11. tasks' = [tasks EXCEPT ![t] = Clients!Resting]
  BY DEF Clients!Failed, Clients!Becomes
<1>12. RacesMarked(tasks') /\ Evicted(tasks', caches')
  <2>1. RacesMarked(tasks)
    BY DEF ClientInv
  <2>2. RacesMarked([tasks EXCEPT ![t] = Clients!Resting]) /\ Evicted([tasks EXCEPT ![t] = Clients!Resting], caches')
    BY <1>1, <1>10, <2>1, RestingIs, StepKeepsMarks
  <2> QED
    BY <1>11, <2>2
<1>13. tasks' \in [ClientTasks -> TaskRecords] /\ \A u \in ClientTasks : TaskOk(wrote, acked, tasks'[u])
  BY <1>1, <1>11, RestingIs, RestingIsOk DEF ClientInv
<1>14. ClientTypes'
  BY <1>8, <1>13 DEF ClientInv, ClientTypes
<1> QED
  BY <1>9, <1>12, <1>13, <1>14 DEF ClientInv

LEMMA SettleKeepsInv ==
  ASSUME Clients!ScribeAssumption, ClientInv, NEW t \in ClientTasks, Clients!Settle(t)
  PROVE  ClientInv'
<1>1. /\ tasks[t].pc = "settle" /\ tasks' = Clients!Failed(t) /\ UNCHANGED <<stored, wrote, idle, orphans, hour>>
  BY DEF Clients!Settle, Clients!At, Clients!Outside, Clients!Unserved
<1>2. Clients!RefusedReply = -1
  BY DEF Clients!RefusedReply
<1>3. CASE -1 \in Clients!ToSet(tasks[t].got)
  <2>1. UNCHANGED <<caches, acked>>
    BY <1>2, <1>3 DEF Clients!Settle
  <2>2. orphans' \subseteq Seq(WireRequests) \ {<<>>}
    BY <1>1 DEF ClientInv, ClientTypes
  <2> QED
    BY <1>1, <2>1, <2>2, EndedKeepsInv
<1>4. CASE -1 \notin Clients!ToSet(tasks[t].got) /\ tasks[t].reqs[1].op = "get"
  <2>1. /\ UNCHANGED acked
        /\ caches' = [caches EXCEPT ![tasks[t].h] =
                        Clients!CachePut(tasks[t].h, tasks[t].reqs[1].key, tasks[t].got[1], tasks[t].raced)]
    BY <1>2, <1>4 DEF Clients!Settle
  <2> QED
    BY <1>1, <1>4, <2>1, CachedKeepsInv
<1>5. CASE -1 \notin Clients!ToSet(tasks[t].got) /\ tasks[t].reqs[1].op # "get"
  <2>1. /\ UNCHANGED caches
        /\ acked' = [acked EXCEPT ![tasks[t].h] = [l \in ClientKeys |->
                     IF l \in Clients!Writes(tasks[t].reqs)
                     THEN Clients!Max({acked[tasks[t].h][l], Clients!LandedAs(t, l)}) ELSE acked[tasks[t].h][l]]]
    BY <1>2, <1>5 DEF Clients!Settle
  <2> QED
    BY <1>1, <1>5, <2>1, AckedKeepsInv
<1> QED
  BY <1>3, <1>4, <1>5

-----------------------------------------------------------------------------
(* The other side                                                           *)

\* What stands when the server has done something: every call but one is as it was.
LEMMA OnwardKeepsInv ==
  ASSUME ClientInv, NEW t \in ClientTasks, NEW task \in TaskRecords, Clients!ScribeAssumption,
         tasks[t].pc # "rest" /\ SameCall(task, tasks[t]), TaskOk(wrote', acked, task),
         tasks' = Clients!Becomes(t, task),
         wrote' \in Seq(Clients!Branches \X (ClientKeys \cup {"*"})),
         stored' \in [Clients!Branches -> [ClientKeys -> Nat]],
         StoreOk(stored', wrote'), AcksOk(stored', acked), Onward(wrote, wrote'),
         UNCHANGED <<caches, idle, orphans, hour, acked>>
  PROVE  ClientInv'
<1>1. /\ tasks \in [ClientTasks -> TaskRecords] /\ Len(wrote) \in Nat /\ Len(wrote') \in Nat
      /\ RacesMarked(tasks) /\ Evicted(tasks, caches)
  BY DEF ClientInv, ClientTypes
<1>2. tasks' = [tasks EXCEPT ![t] = task]
  BY DEF Clients!Becomes
<1>3. tasks' \in [ClientTasks -> TaskRecords] /\ \A u \in ClientTasks : tasks'[u] = IF u = t THEN task ELSE tasks[u]
  BY <1>1, <1>2
<1>4. RacesMarked(tasks') /\ Evicted(tasks', caches)
  <2>1. RacesMarked([tasks EXCEPT ![t] = task]) /\ Evicted([tasks EXCEPT ![t] = task], caches)
    BY <1>1, StepKeepsMarks
  <2> QED
    BY <1>2, <2>1
<1>5. \A u \in ClientTasks : TaskOk(wrote', acked, tasks'[u])
  BY <1>1, <1>3, TaskStill DEF ClientInv
<1>6. \A h \in Clients!Handles : CacheOk(wrote', acked, h, caches[h])
  BY <1>1, CacheStill DEF ClientInv
<1>7. ClientTypes'
  BY <1>3 DEF ClientInv, ClientTypes
<1> QED
  BY <1>4, <1>5, <1>6, <1>7 DEF ClientInv

\* A reply to the first request that is still with the server.
LEMMA RepliedIs ==
  ASSUME Clients!ScribeAssumption, ClientInv, NEW t \in ClientTasks, tasks[t].pc = "await", tasks[t].conn.wire # <<>>,
         NEW value \in Int, NEW ledger, Len(ledger) \in Nat, Onward(wrote, ledger),
         \A i \in 1..Len(tasks[t].reqs) :
            Head(tasks[t].conn.wire).body = tasks[t].reqs[i] => Tells(ledger, acked, tasks[t], i, value),
         Clients!Reply(t, value)
  PROVE  \E task \in TaskRecords :
            tasks' = Clients!Becomes(t, task) /\ SameCall(task, tasks[t]) /\ TaskOk(ledger, acked, task)
<1> DEFINE old == tasks[t]
           conn == tasks[t].conn
           reply == [id |-> Head(conn.wire).id, value |-> value]
           back == Append(conn.back, reply)
           open == [conn EXCEPT !.wire = Tail(conn.wire), !.back = back]
           task == [old EXCEPT !.conn = open]
<1>1. tasks' = Clients!Becomes(t, task)
  BY DEF Clients!Reply
<1>2. /\ old \in TaskRecords /\ Called(old.reqs) /\ Exchanged(wrote, acked, old) /\ conn \in Connections
      /\ conn.wire \in Seq(WireRequests) /\ conn.back \in Seq(WireReplies) /\ old.got \in Seq(Int) /\ old.reqs \in Seq(ClientRequests)
  BY TaskIs DEF TaskOk
<1>3. Len(wrote) \in Nat
  BY DEF ClientInv, ClientTypes
<1>4. /\ Head(conn.wire) = conn.wire[1] /\ Head(conn.wire) \in WireRequests /\ Len(conn.wire) >= 1
      /\ Tail(conn.wire) \in Seq(WireRequests) /\ Len(Tail(conn.wire)) = Len(conn.wire) - 1
      /\ \A i \in 1..Len(Tail(conn.wire)) : Tail(conn.wire)[i] = conn.wire[i + 1]
  BY <1>2
<1>5. reply \in WireReplies
  BY <1>4 DEF WireRequests, WireReplies
<1>6. /\ back \in Seq(WireReplies) /\ Len(back) = Len(conn.back) + 1 /\ back[Len(conn.back) + 1].value = value
      /\ \A i \in 1..Len(conn.back) : back[i] = conn.back[i]
  <2>1. reply.value = value
    OBVIOUS
  <2> HIDE DEF reply
  <2>2. back \in Seq(WireReplies) /\ Len(back) = Len(conn.back) + 1 /\ back[Len(conn.back) + 1] = reply
        /\ \A i \in 1..Len(conn.back) : back[i] = conn.back[i]
    BY <1>2, <1>5
  <2> QED
    BY <2>1, <2>2
<1> HIDE DEF back
<1>7. open \in Connections /\ open.wire = Tail(conn.wire) /\ open.back = back
  BY <1>2, <1>4, <1>6 DEF Connections
<1> HIDE DEF open
<1>8. /\ task \in TaskRecords /\ SameCall(task, old) /\ task.pc = "await" /\ task.conn = open
      /\ task.got = old.got /\ task.reqs = old.reqs /\ task.h = old.h
  BY <1>2, <1>7 DEF TaskRecords, SameCall
<1> HIDE DEF task
<1> DEFINE g == Len(old.got)
           n == Len(conn.back)
           w == Len(conn.wire)
           r == Len(old.reqs)
<1>9. g \in Nat /\ n \in Nat /\ w \in Nat /\ r \in Nat /\ g + n + w = r /\ w >= 1
  <2>1. g + n + w = r
    BY <1>2 DEF Exchanged
  <2>2. g \in Nat
    BY <1>2
  <2>3. n \in Nat
    BY <1>2
  <2>4. w \in Nat
    BY <1>2
  <2>5. r \in Nat
    BY <1>2
  <2>6. w >= 1
    BY <1>4
  <2> QED
    BY <2>1, <2>2, <2>3, <2>4, <2>5, <2>6
<1>10. \A i, v : Tells(wrote, acked, old, i, v) \/ Tells(ledger, acked, old, i, v) => Tells(ledger, acked, task, i, v)
  BY <1>3, <1>8, TellsStill, TellsAlike
<1>11. /\ \A i \in 1..w : conn.wire[i].branch = ClientBranch[old.h] /\ conn.wire[i].body = old.reqs[g + n + i]
       /\ \A i \in 1..g : Tells(wrote, acked, old, i, old.got[i])
       /\ \A i \in 1..n : Tells(wrote, acked, old, g + i, conn.back[i].value)
  BY <1>2 DEF Exchanged
<1>12. /\ Len(task.got) = g /\ Len(task.conn.back) = n + 1 /\ Len(task.conn.wire) = w - 1 /\ Len(task.reqs) = r
       /\ task.got = old.got /\ task.conn.back = back /\ task.conn.wire = Tail(conn.wire) /\ task.reqs = old.reqs
  BY <1>4, <1>6, <1>7, <1>8
<1>13. /\ \A i \in 1..n : back[i] = conn.back[i]
       /\ back[n + 1].value = value
       /\ \A i \in 1..(w - 1) : Tail(conn.wire)[i] = conn.wire[i + 1]
  BY <1>4, <1>6
<1>14. Tells(ledger, acked, old, g + n + 1, value)
  <2>1. g + n + 1 \in 1..r /\ 1 \in 1..w
    <3> HIDE DEF g, n, w, r
    <3> QED
      BY <1>9
  <2>2. conn.wire[1].body = old.reqs[g + n + 1]
    BY <1>11, <2>1
  <2> QED
    BY <1>4, <2>1, <2>2
<1> HIDE DEF g, n, w, r
<1>15. ASSUME NEW i \in 1..(w - 1)
       PROVE  /\ task.conn.wire[i].branch = ClientBranch[task.h]
              /\ task.conn.wire[i].body = task.reqs[g + (n + 1) + i]
  <2>1. i + 1 \in 1..w /\ g + (n + 1) + i = g + n + (i + 1)
    BY <1>9
  <2> QED
    BY <1>8, <1>11, <1>12, <1>13, <2>1
<1>16. ASSUME NEW i \in 1..(n + 1) PROVE Tells(ledger, acked, task, g + i, task.conn.back[i].value)
  <2>1. CASE i = n + 1
    <3>1. g + i = g + n + 1
      BY <1>9, <2>1
    <3> QED
      BY <1>10, <1>12, <1>13, <1>14, <2>1, <3>1
  <2>2. CASE i # n + 1
    <3>1. i \in 1..n
      BY <1>9, <2>2
    <3> QED
      BY <1>10, <1>11, <1>12, <1>13, <3>1
  <2> QED
    BY <2>1, <2>2
<1>17. g + (n + 1) + (w - 1) = r
  BY <1>9
<1>18. Exchanged(ledger, acked, task)
  <2>1. \A i \in 1..g : Tells(ledger, acked, task, i, task.got[i])
    BY <1>10, <1>11, <1>12
  <2> QED
    BY <1>12, <1>15, <1>16, <1>17, <2>1 DEF Exchanged
<1>19. TaskOk(ledger, acked, task)
  BY <1>2, <1>8, <1>18 DEF TaskOk
<1> QED
  BY <1>1, <1>8, <1>19

LEMMA RefuseKeepsInv ==
  ASSUME Clients!ScribeAssumption, ClientInv, NEW t \in ClientTasks, Clients!Refuse(t)
  PROVE  ClientInv'
<1>1. /\ tasks[t].pc = "await" /\ tasks[t].conn.wire # <<>> /\ Clients!Reply(t, -1)
      /\ UNCHANGED <<stored, wrote, caches, idle, orphans, hour, acked>>
  BY DEF Clients!Refuse, Clients!At, Clients!RefusedReply
<1>2. Len(wrote) \in Nat /\ Onward(wrote, wrote)
  BY DEF ClientInv, ClientTypes, Onward
<1>3. \A i : Tells(wrote, acked, tasks[t], i, -1)
  BY DEF Tells
<1>4. PICK task \in TaskRecords : tasks' = Clients!Becomes(t, task) /\ SameCall(task, tasks[t]) /\ TaskOk(wrote, acked, task)
  BY <1>1, <1>2, <1>3, RepliedIs
<1>5. idle' \in Seq(Connections) /\ PoolOk(idle') /\ orphans' \subseteq Seq(WireRequests) \ {<<>>}
  BY <1>1 DEF ClientInv, ClientTypes
<1> QED
  BY <1>1, <1>4, <1>5, CallStepKeepsInv

LEMMA ServeKeepsInv ==
  ASSUME Clients!ScribeAssumption, ClientInv, NEW t \in ClientTasks, Clients!Serve(t)
  PROVE  ClientInv'
<1> DEFINE wire == tasks[t].conn.wire
           req == Head(wire)
           value == IF req.body.op = "get" THEN stored[req.branch][req.body.key] ELSE Len(wrote) + 1
           b == ClientBranch[tasks[t].h]
<1>1. /\ tasks[t].pc = "await" /\ wire # <<>> /\ Clients!Served(req) /\ Clients!Reply(t, value)
      /\ UNCHANGED <<caches, idle, orphans, hour, acked>>
  BY DEF Clients!Serve, Clients!At
<1>2. /\ wire \in Seq(WireRequests) /\ req \in WireRequests /\ req = wire[1] /\ Len(wire) >= 1
      /\ tasks[t].h \in Clients!Handles /\ tasks[t].reqs \in Seq(ClientRequests)
  <2>1. /\ wire \in Seq(WireRequests)
        /\ tasks[t].h \in Clients!Handles /\ tasks[t].reqs \in Seq(ClientRequests)
    BY TaskIs
  <2>2. wire # <<>>
    BY <1>1
  <2> HIDE DEF wire
  <2>3. req \in WireRequests /\ req = wire[1] /\ Len(wire) >= 1
    BY <2>1, <2>2
  <2> QED
    BY <2>1, <2>3
<1>3. req.branch = b
  <2>1. Exchanged(wrote, acked, tasks[t])
    BY <1>1, TaskIs DEF TaskOk
  <2>2. \A i \in 1..Len(wire) : wire[i].branch = b
    BY <2>1 DEF Exchanged
  <2>3. 1 \in 1..Len(wire) /\ req = wire[1]
    BY <1>2
  <2> QED
    BY <2>2, <2>3
<1>4. /\ ClientTypes /\ StoreOk(stored, wrote) /\ AcksOk(stored, acked)
      /\ stored \in [Clients!Branches -> [ClientKeys -> Nat]] /\ Len(wrote) \in Nat
  BY DEF ClientInv, ClientTypes
<1>5. /\ wrote' \in Seq(Clients!Branches \X (ClientKeys \cup {"*"}))
      /\ stored' \in [Clients!Branches -> [ClientKeys -> Nat]]
      /\ StoreOk(stored', wrote') /\ AcksOk(stored', acked) /\ Onward(wrote, wrote')
      /\ req.body.op # "get" => wrote' = Append(wrote, <<req.branch, req.body.key>>)
  BY <1>1, <1>2, <1>4, ServedKeeps
<1>6. Len(wrote') \in Nat /\ req.body \in ClientRequests /\ b \in Clients!Branches
  BY <1>2, <1>5, TaskIs DEF WireRequests
<1>7. /\ value \in Int
      /\ \A i \in 1..Len(tasks[t].reqs) : req.body = tasks[t].reqs[i] => Tells(wrote', acked, tasks[t], i, value)
  <2>1. CASE req.body.op = "get"
    <3>1. PICK k \in ClientKeys : req.body = Clients!GetOf(k)
      BY <1>6, <2>1 DEF ClientRequests, Clients!PutOf, Clients!Sweep
    <3>2. value = stored[b][k]
      BY <1>3, <2>1, <3>1 DEF Clients!GetOf
    <3>3. Bears(wrote, b, k, value) /\ value >= acked[tasks[t].h][k] /\ value \in Nat
      BY <1>2, <1>4, <1>6, <3>2 DEF StoreOk, AcksOk
    <3>4. Bears(wrote', b, k, value)
      BY <1>4, <1>5, <1>6, <3>3, BearsStill
    <3> HIDE DEF value
    <3> QED
      BY <3>1, <3>3, <3>4 DEF Tells
  <2>2. CASE req.body.op # "get"
    <3>1. value = Len(wrote) + 1 /\ value \in Nat
      BY <1>4, <2>2
    <3>2. wrote' = Append(wrote, <<b, req.body.key>>)
      BY <1>3, <1>5, <2>2
    <3> DEFINE write == <<b, req.body.key>>
    <3> HIDE DEF write, value
    <3>3. wrote' = Append(wrote, write) /\ wrote \in Seq(Clients!Branches \X (ClientKeys \cup {"*"}))
      BY <3>2 DEF write, ClientInv, ClientTypes
    <3>4. value \in 1..Len(wrote') /\ wrote'[value] = write
      BY <1>4, <3>1, <3>3
    <3> QED
      BY <2>2, <3>1, <3>4 DEF Tells, write
  <2> QED
    BY <2>1, <2>2
<1> HIDE DEF value
<1>8. PICK task \in TaskRecords : tasks' = Clients!Becomes(t, task) /\ SameCall(task, tasks[t]) /\ TaskOk(wrote', acked, task)
  BY <1>1, <1>5, <1>6, <1>7, RepliedIs
<1> QED
  BY <1>1, <1>5, <1>8, OnwardKeepsInv

LEMMA ServeOrphanKeepsInv ==
  ASSUME Clients!ScribeAssumption, ClientInv, NEW wire, Clients!ServeOrphan(wire)
  PROVE  ClientInv'
<1>1. /\ wire \in orphans /\ Clients!Served(Head(wire)) /\ UNCHANGED <<caches, tasks, idle, hour, acked>>
      /\ orphans' = (orphans \ {wire}) \cup (IF Len(wire) = 1 THEN {} ELSE {Tail(wire)})
  BY DEF Clients!ServeOrphan
<1>2. wire \in Seq(WireRequests) /\ wire # <<>> /\ orphans \subseteq Seq(WireRequests) \ {<<>>}
  BY <1>1 DEF ClientInv, ClientTypes
<1>3. Head(wire) \in WireRequests
  BY <1>2
<1>4. Len(wire) = 1 \/ Tail(wire) \in Seq(WireRequests) \ {<<>>}
  <2>1. Tail(wire) \in Seq(WireRequests) /\ Len(Tail(wire)) = Len(wire) - 1 /\ Len(wire) \in Nat
    BY <1>2
  <2>2. Len(wire) # 1 => Len(Tail(wire)) # 0
    BY <2>1
  <2> QED
    BY <2>1, <2>2
<1>5. orphans' \subseteq Seq(WireRequests) \ {<<>>}
  BY <1>1, <1>2, <1>4
<1>6. ClientTypes /\ StoreOk(stored, wrote) /\ AcksOk(stored, acked) /\ Len(wrote) \in Nat
  BY DEF ClientInv, ClientTypes
<1>7. /\ wrote' \in Seq(Clients!Branches \X (ClientKeys \cup {"*"}))
      /\ stored' \in [Clients!Branches -> [ClientKeys -> Nat]]
      /\ StoreOk(stored', wrote') /\ AcksOk(stored', acked) /\ Onward(wrote, wrote')
  BY <1>1, <1>3, <1>6, ServedKeeps
<1>8. Len(wrote') \in Nat
  BY <1>7
<1>9. \A t \in ClientTasks : TaskOk(wrote', acked, tasks[t])
  BY <1>6, <1>7, <1>8, TaskStill DEF ClientInv
<1>10. \A h \in Clients!Handles : CacheOk(wrote', acked, h, caches[h])
  BY <1>6, <1>7, <1>8, CacheStill DEF ClientInv
<1>11. ClientTypes'
  BY <1>1, <1>5, <1>7 DEF ClientInv, ClientTypes
<1> QED
  BY <1>1, <1>7, <1>9, <1>10, <1>11 DEF ClientInv

-----------------------------------------------------------------------------
(* The theorem                                                              *)

LEMMA ClientInvInit == Clients!ScribeAssumption /\ Clients!Init => ClientInv
<1> SUFFICES ASSUME Clients!ScribeAssumption, Clients!Init PROVE ClientInv
  OBVIOUS
<1>1. /\ stored = [b \in Clients!Branches |-> [k \in ClientKeys |-> 0]] /\ wrote = <<>>
      /\ caches = [h \in Clients!Handles |-> Clients!NoCache] /\ tasks = [t \in ClientTasks |-> Clients!Resting]
      /\ idle = <<>> /\ orphans = {} /\ hour = 0 /\ acked = [h \in Clients!Handles |-> [k \in ClientKeys |-> 0]]
  BY DEF Clients!Init
<1>2. Clients!NoCache \in CacheRecords /\ DOMAIN Clients!NoCache.entries = {}
  <2>1. <<>> \in [{} -> CacheEntries] /\ {} \in SUBSET ClientKeys
    OBVIOUS
  <2> QED
    BY <2>1 DEF Clients!NoCache, CacheRecords
<1>3. ClientTypes
  BY <1>1, <1>2, RestingIs DEF ClientTypes
<1>4. StoreOk(stored, wrote) /\ AcksOk(stored, acked)
  <2>1. \A h \in Clients!Handles : ClientBranch[h] \in Clients!Branches
    BY DEF Clients!Branches
  <2> QED
    BY <1>1, <2>1 DEF StoreOk, AcksOk, Bears
<1>5. \A t \in ClientTasks : TaskOk(wrote, acked, tasks[t])
  BY <1>1, RestingIsOk
<1>6. \A h \in Clients!Handles : CacheOk(wrote, acked, h, caches[h])
  <2> SUFFICES ASSUME NEW h \in Clients!Handles PROVE CacheOk(wrote, acked, h, caches[h])
    OBVIOUS
  <2>1. caches[h] = Clients!NoCache /\ CacheSize[h] \in Nat /\ Cardinality({}) = 0
    BY <1>1, FS_EmptySet DEF Clients!ScribeAssumption
  <2> QED
    BY <1>2, <2>1 DEF CacheOk
<1>7. RacesMarked(tasks) /\ Evicted(tasks, caches)
  BY <1>1, RestingIs DEF RacesMarked, Evicted
<1>8. PoolOk(idle)
  BY <1>1 DEF PoolOk, Clients!ScribeAssumption
<1> QED
  BY <1>3, <1>4, <1>5, <1>6, <1>7, <1>8 DEF ClientInv

LEMMA ClientInvNext ==
  ASSUME Clients!ScribeAssumption, ClientInv, [Clients!Next]_(Clients!scribeVars)
  PROVE  ClientInv'
<1>1. ASSUME NEW t \in ClientTasks, NEW h \in Clients!Handles, NEW k \in ClientKeys, Clients!Get(t, h, k)
      PROVE  ClientInv'
  BY <1>1, GetKeepsInv
<1>2. ASSUME NEW t \in ClientTasks, NEW h \in Clients!Handles,
             NEW keys \in Clients!SetToSeqs(ClientKeys) \cup {<<k>> : k \in ClientKeys}, Clients!Put(t, h, keys)
      PROVE  ClientInv'
  <2>1. keys \in Seq(ClientKeys)
    <3>1. CASE keys \in Clients!SetToSeqs(ClientKeys)
      <4>1. Cardinality(ClientKeys) \in Nat
        BY ClientCounts, FS_CardinalityType DEF Clients!ScribeAssumption
      <4>2. keys \in [1..Cardinality(ClientKeys) -> ClientKeys]
        BY <3>1, ClientCounts DEF Clients!SetToSeqs
      <4> QED
        BY <4>1, <4>2
    <3>2. CASE keys \in {<<k>> : k \in ClientKeys}
      <4>1. PICK k \in ClientKeys : keys = <<k>>
        BY <3>2
      <4> QED
        BY <4>1
    <3> QED
      BY <3>1, <3>2
  <2> QED
    BY <1>2, <2>1, PutKeepsInv
<1>3. ASSUME NEW t \in ClientTasks, NEW h \in Clients!Handles, Clients!Change(t, h)
      PROVE  ClientInv'
  BY <1>3, ChangeKeepsInv
<1>4. ASSUME NEW t \in ClientTasks, Clients!Acquire(t) \/ Clients!Open(t) PROVE ClientInv'
  BY <1>4, AcquireKeepsInv, OpenKeepsInv
<1>5. ASSUME NEW t \in ClientTasks, Clients!Serve(t) \/ Clients!Refuse(t) PROVE ClientInv'
  BY <1>5, ServeKeepsInv, RefuseKeepsInv
<1>6. ASSUME NEW t \in ClientTasks, Clients!Receive(t) \/ Clients!Settle(t) \/ Clients!Lose(t) PROVE ClientInv'
  BY <1>6, ReceiveKeepsInv, SettleKeepsInv, LoseKeepsInv
<1>7. ASSUME NEW wire \in orphans, Clients!ServeOrphan(wire) PROVE ClientInv'
  BY <1>7, ServeOrphanKeepsInv
<1>8. CASE Clients!Tick
  BY <1>8 DEF Clients!Tick, ClientInv, ClientTypes
<1>9. CASE Clients!Expire
  BY <1>9 DEF Clients!Expire, ClientInv, ClientTypes
<1>10. CASE UNCHANGED Clients!scribeVars
  BY <1>10 DEF Clients!scribeVars, ClientInv, ClientTypes
<1> QED
  BY <1>1, <1>2, <1>3, <1>4, <1>5, <1>6, <1>7, <1>8, <1>9, <1>10 DEF Clients!Next

LEMMA ClientInvAnswers ==
  Clients!ScribeAssumption /\ ClientInv => Clients!OwnWritesSeen /\ Clients!EntriesAreTheirBranchs /\ Clients!PoolIsClean
<1> SUFFICES ASSUME Clients!ScribeAssumption, ClientInv
             PROVE  Clients!OwnWritesSeen /\ Clients!EntriesAreTheirBranchs /\ Clients!PoolIsClean
  OBVIOUS
<1>1. \A h \in Clients!Handles : CacheOk(wrote, acked, h, caches[h])
  BY DEF ClientInv
<1>2. Clients!OwnWritesSeen
  BY <1>1 DEF Clients!OwnWritesSeen, CacheOk
<1>3. Clients!EntriesAreTheirBranchs
  <2> SUFFICES ASSUME NEW h \in Clients!Handles, NEW k \in DOMAIN caches[h].entries, caches[h].entries[k].value > 0
               PROVE  LET n == caches[h].entries[k].value
                      IN  wrote[n][1] = ClientBranch[h] /\ wrote[n][2] \in {k, "*"}
    BY DEF Clients!EntriesAreTheirBranchs
  <2> DEFINE n == caches[h].entries[k].value
  <2>1. Bears(wrote, ClientBranch[h], k, n)
    BY <1>1 DEF CacheOk
  <2>2. wrote[n] \in {<<ClientBranch[h], k>>, <<ClientBranch[h], "*">>}
    BY <2>1 DEF Bears
  <2> QED
    BY <2>2
<1>4. Clients!PoolIsClean
  BY <1>1, ClientCounts DEF Clients!PoolIsClean, CacheOk, ClientInv, PoolOk
<1> QED
  BY <1>2, <1>3, <1>4

(* For any tasks, handles, keys, cache sizes and pool: after a write its cache *)
(* was told had landed a read gets nothing older from the cache, unless a get  *)
(* that overlapped the write stored it; what a cache holds is of its own branch*)
(* and key; and a pooled connection has no reply outstanding (client.rs,       *)
(* cache.rs, pool.rs).                                                         *)
THEOREM TheCacheKeepsItsPromises ==
    ASSUME Clients!ScribeAssumption
    PROVE  Clients!Spec /\ [](part = "scribe") => []ClientsAreAnswered
<1>1. ClientInv /\ part = "scribe" => ClientsAreAnswered
  BY ClientInvAnswers DEF ClientsAreAnswered
<1>2. Clients!Init => ClientInv
  BY ClientInvInit
<1>3. ClientInv /\ [Clients!Next]_(Clients!scribeVars) => ClientInv'
  BY ClientInvNext
<1> QED
  BY <1>1, <1>2, <1>3, PTL DEF Clients!Spec

-----------------------------------------------------------------------------
(* A binding's session                                                      *)

Outcomes ==
    {"none", "closed", "not encoded", "undecoded", "desynchronised", "null", "value", "gate",
     "breaker", "refused", "raw", "unexpected"}
SessionRequests == [id : Nat, op : {Spoken!Op[m] : m \in SessionMethods}, from : SessionCallers]
SessionBodies == {Spoken!Success[w] : w \in DOMAIN Spoken!Success} \cup {"PreconditionFailed", "Error", "Newer"}
SessionReplies == [id : Nat, body : SessionBodies, code : Spoken!Codes \cup {""}, length : {1, 2}]
StreamBytes == Nat \X Nat
Sockets ==
    [chunks : Seq(Seq(StreamBytes)), want : Nat, out : Seq(StreamBytes), failed : BOOLEAN, destroyed : BOOLEAN]

SessionTypes ==
    /\ asked \in [SessionCallers ->
                    [method : SessionMethods \cup {"none"}, pc : {"done", "waits", "sent"}, id : Nat, out : Outcomes]]
    /\ queue \in Seq(SessionCallers)
    /\ dialogue \in [pc : {"idle", "prefix", "body"}, next : Nat \ {0}]
    /\ sock \in Sockets /\ flight \in Seq(StreamBytes)
    /\ server \in [inbox : Seq(SessionRequests), frames : Seq(SessionReplies), closed : BOOLEAN, done : SUBSET Nat]

\* Callers stand in line once each while their calls are not over, and only the first
\* may have been sent; its request has the latest number.
InLine ==
    /\ \A i, j \in 1..Len(queue) : queue[i] = queue[j] => i = j
    /\ \A c \in SessionCallers : asked[c].pc = "done" <=> \A i \in 1..Len(queue) : queue[i] # c
    /\ \A i \in 1..Len(queue) :
        /\ asked[queue[i]].pc = IF i = 1 /\ dialogue.pc # "idle" THEN "sent" ELSE "waits"
        /\ asked[queue[i]].method \in SessionMethods
    /\ \A c \in SessionCallers : asked[c].id < dialogue.next

\* What a caller was told is so, and stays so.
Told(call, made) ==
    /\ call.pc # "done" => call.out = "none"
    /\ call.out = "value" => call.id \in made
    /\ call.out \in {"null", "gate", "breaker", "refused"} => call.id \notin made
    /\ call.out = "unexpected" => call.method = "promote"

\* The replies so far are to requests made.
Numbered ==
    /\ \A id \in server.done : id \in 1..dialogue.next - 1
    /\ \A n \in 1..Len(server.frames) :
        /\ server.frames[n].id < dialogue.next
        /\ server.frames[n].id = dialogue.next - 1 => n = Len(server.frames) /\ server.inbox = <<>>

\* The i-th byte of frame n to its j-th.
Slice(n, i, j) == [x \in 1..j - i + 1 |-> <<n, i + x - 1>>]

\* While an exchange is under way: its request is with the server, or lost with it,
Unanswered ==
    /\ dialogue.pc = "prefix" /\ sock.out = <<>> /\ Spoken!Buffered(sock) = <<>> /\ flight = <<>>
    /\ \A n \in 1..Len(server.frames) : server.frames[n].id # dialogue.next - 1
    /\ \/ server.inbox = <<>> /\ server.closed
       \/ /\ Len(server.inbox) = 1 /\ server.inbox[1].id = dialogue.next - 1
          /\ server.inbox[1].op = Spoken!Op[asked[queue[1]].method]
          /\ dialogue.next - 1 \notin server.done

\* or its answer is the last frame, which
Answers(reply, method, made) ==
    /\ reply.id \in {0, dialogue.next - 1}
    /\ reply.id = dialogue.next - 1 =>
        \/ reply.body = Spoken!Success[Spoken!ToWire[Spoken!Op[method]]] /\ made
        \/ reply.body = "PreconditionFailed" /\ method \in Spoken!Conditional /\ ~made
        \/ reply.body = "Error" /\ ~made
        \/ reply.body = "Newer"
\* is read up to somewhere: a bytes of it have arrived.
Read(n, a, whole) ==
    \/ dialogue.pc = "prefix" /\ sock.out = <<>> /\ Spoken!Buffered(sock) = Slice(n, 1, a) /\ a < 2
    \/ dialogue.pc = "prefix" /\ sock.out = Slice(n, 1, 2) /\ Spoken!Buffered(sock) = Slice(n, 3, a) /\ a >= 2
    \/ dialogue.pc = "body" /\ sock.out = <<>> /\ Spoken!Buffered(sock) = Slice(n, 3, a) /\ a >= 2 /\ a < whole
    \/ dialogue.pc = "body" /\ sock.out = Slice(n, 3, whole) /\ Spoken!Buffered(sock) = <<>> /\ a = whole
Answered ==
    /\ server.inbox = <<>> /\ server.frames # <<>>
    /\ LET n == Len(server.frames)
           whole == 2 + server.frames[n].length
       IN  /\ Answers(server.frames[n], asked[queue[1]].method, dialogue.next - 1 \in server.done)
           /\ \E a \in 0..whole :
                /\ Read(n, a, whole)
                /\ flight = IF sock.failed THEN <<>> ELSE Slice(n, a + 1, whole)

\* The session is idle with nothing to read, or awaits one answer.
Wanted ==
    IF dialogue.pc = "idle" \/ sock.out # <<>> \/ sock.failed THEN 0
    ELSE IF dialogue.pc = "prefix" THEN 2 ELSE server.frames[Len(server.frames)].length
Exchanging ==
    /\ sock.want = Wanted
    /\ sock.failed => sock.out = <<>> /\ server.closed
    /\ dialogue.pc = "idle" =>
        /\ sock.out = <<>> /\ Len(server.inbox) <= 1 /\ (server.inbox # <<>> => sock.failed)
        /\ ~Spoken!Dead(sock) => Spoken!Buffered(sock) = <<>> /\ flight = <<>>
    /\ dialogue.pc # "idle" =>
        /\ queue # <<>> /\ dialogue.next > 1
        /\ asked[queue[1]].id = dialogue.next - 1 /\ Spoken!Encodes(asked[queue[1]].method)
        /\ \A c \in SessionCallers : c # queue[1] => asked[c].id < dialogue.next - 1
        /\ Unanswered \/ Answered

SessionInv ==
    /\ SessionTypes /\ InLine /\ Numbered /\ Exchanging
    /\ \A c \in SessionCallers : Told(asked[c], server.done)

\* What FlattenSeq computes: its table holds the first i chunks, joined, at i.
Joined(s, t) == s \o t
Table(P, chunks, n) == P = [i \in 1..n |-> IF i = 1 THEN chunks[i] ELSE Joined(P[i - 1], chunks[i])]

LEMMA TableExists ==
  ASSUME NEW n \in Nat, NEW chunks
  PROVE  \E P : Table(P, chunks, n)
<1> DEFINE Q == {m \in Nat : \E P : Table(P, chunks, m)}
<1>1. 0 \in Q
  <2>1. Table([i \in 1..0 |-> 0], chunks, 0)
    BY DEF Table
  <2> QED
    BY <2>1
<1>2. ASSUME NEW m \in Q PROVE m + 1 \in Q
  <2>1. PICK P : Table(P, chunks, m)
    OBVIOUS
  <2> DEFINE last == IF m = 0 THEN chunks[1] ELSE Joined(P[m], chunks[m + 1])
             R == [i \in 1..m + 1 |-> IF i = m + 1 THEN last ELSE P[i]]
  <2>2. m \in Nat
    OBVIOUS
  <2>3. \A i \in 1..m : P[i] = IF i = 1 THEN chunks[i] ELSE Joined(P[i - 1], chunks[i])
    BY <2>1 DEF Table
  <2>4. R[m + 1] = last /\ \A i \in 1..m : R[i] = P[i]
    BY <2>2
  <2>5. R = [i \in 1..m + 1 |-> R[i]]
    OBVIOUS
  <2> HIDE DEF R
  <2>6. ASSUME NEW i \in 1..m + 1 PROVE R[i] = IF i = 1 THEN chunks[i] ELSE Joined(R[i - 1], chunks[i])
    <3>1. CASE i = m + 1 /\ m = 0
      BY <2>4, <3>1
    <3>2. CASE i = m + 1 /\ m # 0
      <4>1. m \in 1..m /\ i # 1 /\ i - 1 = m
        BY <2>2, <3>2
      <4>2. R[i - 1] = P[m]
        BY <2>4, <4>1
      <4> QED
        BY <2>4, <3>2, <4>1, <4>2
    <3>3. CASE i # m + 1
      <4>1. i \in 1..m /\ (i # 1 => i - 1 \in 1..m)
        BY <2>2, <3>3
      <4>2. R[i] = P[i] /\ (i # 1 => R[i - 1] = P[i - 1])
        BY <2>4, <4>1
      <4> QED
        BY <2>3, <4>1, <4>2
    <3> QED
      BY <3>1, <3>2, <3>3
  <2>7. R = [i \in 1..m + 1 |-> IF i = 1 THEN chunks[i] ELSE Joined(R[i - 1], chunks[i])]
    BY <2>5, <2>6
  <2> QED
    BY <2>2, <2>7 DEF Table
<1>3. Q \in SUBSET Nat
  OBVIOUS
<1> HIDE DEF Q
<1>4. Q = Nat
  BY <1>1, <1>2, <1>3, Upward
<1> QED
  BY <1>4 DEF Q

LEMMA FlattenTable ==
  ASSUME NEW S, NEW chunks \in Seq(Seq(S)), Len(chunks) # 0
  PROVE  \E P : /\ Table(P, chunks, Len(chunks)) /\ Spoken!FlattenSeq(chunks) = P[Len(chunks)]
                /\ \A i \in 1..Len(chunks) : P[i] \in Seq(S)
<1> DEFINE n == Len(chunks)
           P == CHOOSE flatten : Table(flatten, chunks, n)
<1>1. n \in Nat
  OBVIOUS
<1>2. Table(P, chunks, n)
  BY <1>1, TableExists
<1>3. Spoken!FlattenSeq(chunks) = P[Len(chunks)]
  BY <1>1 DEF Spoken!FlattenSeq, Table, Joined
<1> HIDE DEF P
<1>4. \A i \in 1..n : P[i] = IF i = 1 THEN chunks[i] ELSE Joined(P[i - 1], chunks[i])
  BY <1>2 DEF Table
<1> DEFINE Q == {m \in Nat : m \in 1..n => P[m] \in Seq(S)}
<1>5. 0 \in Q
  OBVIOUS
<1>6. ASSUME NEW m \in Q PROVE m + 1 \in Q
  <2>1. SUFFICES ASSUME m + 1 \in 1..n PROVE P[m + 1] \in Seq(S)
    OBVIOUS
  <2>2. chunks[m + 1] \in Seq(S)
    BY <2>1
  <2>3. CASE m = 0
    BY <1>4, <2>1, <2>2, <2>3
  <2>4. CASE m # 0
    <3>1. m \in 1..n
      BY <1>1, <2>1, <2>4
    <3>2. P[m] \in Seq(S)
      BY <3>1
    <3>3. P[m + 1] = Joined(P[m], chunks[m + 1])
      BY <1>4, <2>1, <2>4
    <3> QED
      BY <2>2, <3>2, <3>3, ConcatProperties DEF Joined
  <2> QED
    BY <2>3, <2>4
<1>7. Q \in SUBSET Nat
  OBVIOUS
<1> HIDE DEF Q
<1>8. Q = Nat
  BY <1>5, <1>6, <1>7, Upward
<1>9. \A i \in 1..n : P[i] \in Seq(S)
  BY <1>8 DEF Q
<1> QED
  BY <1>2, <1>3, <1>9

LEMMA FlattenIs ==
  ASSUME NEW S, NEW chunks \in Seq(Seq(S)), NEW chunk \in Seq(S)
  PROVE  /\ Spoken!FlattenSeq(chunks) \in Seq(S) /\ Spoken!FlattenSeq(<<>>) = <<>>
         /\ Spoken!FlattenSeq(<<chunk>>) = chunk
         /\ Spoken!FlattenSeq(Append(chunks, chunk)) = Spoken!FlattenSeq(chunks) \o chunk
<1> DEFINE n == Len(chunks)
           more == Append(chunks, chunk)
<1>1. n \in Nat /\ more \in Seq(Seq(S)) /\ Len(more) = n + 1 /\ more[n + 1] = chunk
      /\ \A i \in 1..n : more[i] = chunks[i]
  OBVIOUS
<1>2. Spoken!FlattenSeq(<<>>) = <<>>
  BY DEF Spoken!FlattenSeq
<1>3. Spoken!FlattenSeq(<<chunk>>) = chunk
  <2>1. <<chunk>> \in Seq(Seq(S)) /\ Len(<<chunk>>) = 1
    OBVIOUS
  <2> DEFINE one == <<chunk>>
  <2>2. one \in Seq(Seq(S)) /\ Len(one) = 1 /\ one[1] = chunk /\ Len(one) # 0
    BY <2>1
  <2> HIDE DEF one
  <2>3. PICK P : Table(P, one, Len(one)) /\ Spoken!FlattenSeq(one) = P[Len(one)]
    BY <2>2, FlattenTable
  <2>4. P[1] = one[1]
    BY <2>2, <2>3 DEF Table
  <2> QED
    BY <2>2, <2>3, <2>4 DEF one
<1> HIDE DEF more
<1>4. PICK R : /\ Table(R, more, n + 1) /\ Spoken!FlattenSeq(more) = R[n + 1]
               /\ \A i \in 1..n + 1 : R[i] \in Seq(S)
  <2>1. Len(more) # 0
    BY <1>1
  <2> QED
    BY <1>1, <2>1, FlattenTable
<1>5. \A i \in 1..n + 1 : R[i] = IF i = 1 THEN more[i] ELSE Joined(R[i - 1], more[i])
  BY <1>4 DEF Table
<1>6. CASE n = 0
  <2>1. chunks = <<>>
    BY <1>6
  <2>2. R[1] = chunk
    BY <1>1, <1>5, <1>6
  <2>3. <<>> \o chunk = chunk
    BY ConcatEmptySeq
  <2>4. Spoken!FlattenSeq(more) = chunk
    BY <1>4, <1>6, <2>2
  <2>5. Spoken!FlattenSeq(chunks) = <<>> /\ <<>> \in Seq(S)
    BY <1>2, <2>1
  <2> QED
    BY <1>2, <1>3, <2>3, <2>4, <2>5 DEF more
<1>7. CASE n # 0
  <2>1. PICK P : /\ Table(P, chunks, n) /\ Spoken!FlattenSeq(chunks) = P[n]
                 /\ \A i \in 1..n : P[i] \in Seq(S)
    BY <1>7, FlattenTable
  <2>2. \A i \in 1..n : P[i] = IF i = 1 THEN chunks[i] ELSE Joined(P[i - 1], chunks[i])
    BY <2>1 DEF Table
  <2> DEFINE Q == {m \in Nat : m \in 1..n => R[m] = P[m]}
  <2>3. 0 \in Q
    OBVIOUS
  <2>4. ASSUME NEW m \in Q PROVE m + 1 \in Q
    <3>1. SUFFICES ASSUME m + 1 \in 1..n PROVE R[m + 1] = P[m + 1]
      OBVIOUS
    <3>2. m + 1 \in 1..n + 1 /\ more[m + 1] = chunks[m + 1]
      BY <1>1, <3>1
    <3>3. CASE m = 0
      BY <1>5, <2>2, <3>1, <3>2, <3>3
    <3>4. CASE m # 0
      <4>1. m \in 1..n /\ (m + 1) - 1 = m /\ m + 1 # 1
        BY <1>1, <3>1, <3>4
      <4>2. R[m] = P[m]
        BY <4>1
      <4> QED
        BY <1>5, <2>2, <3>1, <3>2, <4>1, <4>2
    <3> QED
      BY <3>3, <3>4
  <2>5. Q \in SUBSET Nat
    OBVIOUS
  <2> HIDE DEF Q
  <2>6. Q = Nat
    BY <2>3, <2>4, <2>5, Upward
  <2>7. n \in 1..n /\ n + 1 \in 1..n + 1 /\ n + 1 # 1 /\ (n + 1) - 1 = n
    BY <1>1, <1>7
  <2>8. R[n] = P[n]
    BY <1>1, <2>6, <2>7 DEF Q
  <2>9. R[n + 1] = Joined(P[n], chunk)
    BY <1>1, <1>5, <2>7, <2>8
  <2> QED
    BY <1>2, <1>3, <1>4, <2>1, <2>7, <2>9 DEF Joined, more
<1> QED
  BY <1>1, <1>6, <1>7

\* ---------------------------------------------------------------- the stream
LEMMA SliceIs ==
  ASSUME NEW n \in Nat, NEW i \in Nat, NEW j \in Nat, i <= j + 1
  PROVE  /\ Slice(n, i, j) \in Seq(StreamBytes) /\ Len(Slice(n, i, j)) = j - i + 1
         /\ \A x \in 1..j - i + 1 : Slice(n, i, j)[x] = <<n, i + x - 1>>
<1>1. j - i + 1 \in Nat
  OBVIOUS
<1>2. \A x \in 1..j - i + 1 : <<n, i + x - 1>> \in StreamBytes
  BY DEF StreamBytes
<1> DEFINE m == j - i + 1
<1>3. m \in Nat
  BY <1>1
<1>4. Slice(n, i, j) = [x \in 1..m |-> <<n, i + x - 1>>]
  BY DEF Slice
<1> HIDE DEF m
<1>5. Slice(n, i, j) \in [1..m -> StreamBytes]
  BY <1>2, <1>4 DEF m
<1>6. Slice(n, i, j) \in Seq(StreamBytes) /\ Len(Slice(n, i, j)) = m
  BY <1>3, <1>5
<1> QED
  BY <1>4, <1>6 DEF m

\* A slice cut after byte k: the two parts, joined, are the whole.
Cut(n, i, k, j) ==
    /\ Slice(n, i, k) \o Slice(n, k + 1, j) = Slice(n, i, j)
    /\ SubSeq(Slice(n, i, j), 1, k - i + 1) = Slice(n, i, k)
    /\ SubSeq(Slice(n, i, j), k - i + 2, j - i + 1) = Slice(n, k + 1, j)

LEMMA SliceSplits ==
  ASSUME NEW n \in Nat, NEW i \in Nat, NEW k \in Nat, NEW j \in Nat, i <= k + 1, k <= j
  PROVE  Cut(n, i, k, j)
<1> DEFINE a == Slice(n, i, k)
           b == Slice(n, k + 1, j)
           c == Slice(n, i, j)
<1>1. /\ a \in Seq(StreamBytes) /\ Len(a) = k - i + 1 /\ \A x \in 1..k - i + 1 : a[x] = <<n, i + x - 1>>
  BY SliceIs
<1>2. /\ b \in Seq(StreamBytes) /\ Len(b) = j - k /\ \A x \in 1..j - k : b[x] = <<n, k + x>>
  <2>1. k + 1 \in Nat /\ k + 1 <= j + 1 /\ j - (k + 1) + 1 = j - k /\ \A x \in 1..j - k : (k + 1) + x - 1 = k + x
    OBVIOUS
  <2>2. /\ b \in Seq(StreamBytes) /\ Len(b) = j - (k + 1) + 1
        /\ \A x \in 1..j - (k + 1) + 1 : b[x] = <<n, (k + 1) + x - 1>>
    BY <2>1, SliceIs
  <2> HIDE DEF b
  <2> QED
    BY <2>1, <2>2
<1>3. /\ c \in Seq(StreamBytes) /\ Len(c) = j - i + 1 /\ \A x \in 1..j - i + 1 : c[x] = <<n, i + x - 1>>
  <2>1. i <= j + 1
    OBVIOUS
  <2> QED
    BY <2>1, SliceIs
<1> HIDE DEF a, b, c
<1>4. a \o b = c
  <2> DEFINE d == a \o b
  <2>1. /\ d \in Seq(StreamBytes) /\ Len(d) = Len(a) + Len(b)
        /\ \A x \in 1..Len(a) + Len(b) : d[x] = IF x <= Len(a) THEN a[x] ELSE b[x - Len(a)]
    BY <1>1, <1>2, ConcatProperties
  <2>2. ASSUME NEW x \in 1..j - i + 1 PROVE d[x] = c[x]
    <3>1. CASE x <= k - i + 1
      <4>1. x \in 1..k - i + 1 /\ x <= Len(a) /\ x \in 1..Len(a) + Len(b)
        BY <1>1, <1>2, <3>1
      <4>2. d[x] = a[x]
        BY <2>1, <4>1
      <4> QED
        BY <1>1, <1>3, <4>1, <4>2
    <3>2. CASE ~(x <= k - i + 1)
      <4>1. x - Len(a) \in 1..j - k /\ x - Len(a) = x - (k - i + 1)
        BY <1>1, <3>2
      <4>2. d[x] = <<n, k + (x - (k - i + 1))>>
        BY <1>1, <1>2, <2>1, <3>2, <4>1
      <4>3. k + (x - (k - i + 1)) = i + x - 1
        OBVIOUS
      <4> QED
        BY <1>3, <4>2, <4>3
    <3> QED
      BY <3>1, <3>2
  <2>3. Len(d) = j - i + 1
    BY <1>1, <1>2, <2>1
  <2> HIDE DEF d
  <2>4. d = c
    BY <1>3, <2>1, <2>2, <2>3, SeqEqual
  <2> QED
    BY <2>4 DEF d
<1>5. SubSeq(c, 1, k - i + 1) = a
  <2>1. k - i + 1 <= j - i + 1 /\ k - i + 1 \in Nat
    OBVIOUS
  <2>2. SubSeq(c, 1, k - i + 1) \in Seq(StreamBytes) /\ Len(SubSeq(c, 1, k - i + 1)) = k - i + 1
        /\ \A x \in 1..k - i + 1 : SubSeq(c, 1, k - i + 1)[x] = c[x]
    BY <1>3, <2>1
  <2>3. \A x \in 1..k - i + 1 : c[x] = a[x]
    BY <1>1, <1>3, <2>1
  <2> QED
    BY <1>1, <2>2, <2>3, SeqEqual
<1>6. SubSeq(c, k - i + 2, j - i + 1) = b
  <2> DEFINE d == SubSeq(c, k - i + 2, j - i + 1)
  <2>1. d \in Seq(StreamBytes) /\ Len(d) = j - k /\ \A x \in 1..j - k : d[x] = c[x + k - i + 1]
    <3>1. k - i + 2 \in Nat /\ k - i + 2 > 0 /\ j - i + 1 \in Nat /\ j - i + 1 <= Len(c)
          /\ (j - i + 1) - (k - i + 2) + 1 = j - k /\ j - k \in Nat
      BY <1>3
    <3>2. d = [x \in 1..j - k |-> c[(k - i + 2) + x - 1]]
      BY <3>1 DEF SubSeq
    <3>3. \A x \in 1..j - k : (k - i + 2) + x - 1 = x + k - i + 1 /\ (k - i + 2) + x - 1 \in 1..Len(c)
      BY <3>1
    <3>4. \A x \in 1..Len(c) : c[x] \in StreamBytes
      BY <1>3
    <3> QED
      BY <3>1, <3>2, <3>3, <3>4
  <2>2. ASSUME NEW x \in 1..j - k PROVE d[x] = b[x]
    <3>1. x + k - i + 1 \in 1..j - i + 1 /\ i + (x + k - i + 1) - 1 = k + x
      OBVIOUS
    <3> QED
      BY <1>2, <1>3, <2>1, <3>1
  <2> HIDE DEF d
  <2>3. d = b
    BY <1>2, <2>1, <2>2
  <2> QED
    BY <2>3 DEF d
<1> QED
  BY <1>4, <1>5, <1>6 DEF a, b, c, Cut

LEMMA SliceEmpty ==
  ASSUME NEW n \in Nat, NEW i \in Nat
  PROVE  Slice(n, i + 1, i) = <<>>
<1>1. Slice(n, i + 1, i) \in Seq(StreamBytes) /\ Len(Slice(n, i + 1, i)) = 0
  <2>1. i + 1 \in Nat /\ i + 1 <= i + 1 /\ i - (i + 1) + 1 = 0
    OBVIOUS
  <2> QED
    BY <2>1, SliceIs
<1> QED
  BY <1>1

LEMMA SliceFull ==
  ASSUME NEW n \in Nat, NEW i \in Nat, NEW j \in Nat, i <= j
  PROVE  Slice(n, i, j) # <<>> /\ Slice(n, i, j)[1] = <<n, i>>
<1>1. i <= j + 1 /\ j - i + 1 > 0 /\ 1 \in 1..j - i + 1 /\ i + 1 - 1 = i
  OBVIOUS
<1>2. /\ Slice(n, i, j) \in Seq(StreamBytes) /\ Len(Slice(n, i, j)) = j - i + 1
      /\ \A x \in 1..j - i + 1 : Slice(n, i, j)[x] = <<n, i + x - 1>>
  BY <1>1, SliceIs
<1>3. Slice(n, i, j)[1] = <<n, i + 1 - 1>>
  BY <1>1, <1>2
<1> QED
  BY <1>1, <1>2, <1>3

\* What a frame carries, and what a reader is given.
LEMMA FrameBytesIs ==
  ASSUME NEW n \in Nat, NEW length \in Nat
  PROVE  Spoken!FrameBytes(n, length) = Slice(n, 1, 2 + length)
<1> DEFINE w == 2 + length
<1>1. w \in Nat /\ w - 1 + 1 = w
  OBVIOUS
<1>2. Spoken!FrameBytes(n, length) = [i \in 1..w |-> <<n, i>>]
  BY DEF Spoken!FrameBytes, Spoken!PrefixLength
<1>3. Slice(n, 1, w) = [x \in 1..w - 1 + 1 |-> <<n, 1 + x - 1>>]
  BY DEF Slice
<1> HIDE DEF w
<1>4. \A x \in 1..w : 1 + x - 1 = x
  BY <1>1
<1>5. Slice(n, 1, w) = [x \in 1..w |-> <<n, x>>]
  BY <1>1, <1>3, <1>4
<1> QED
  BY <1>2, <1>5 DEF w

LEMMA RemainderIs ==
  ASSUME NEW chunks \in Seq(Seq(StreamBytes)), NEW want \in Nat
  PROVE  LET all == Spoken!FlattenSeq(chunks)
         IN  /\ Spoken!Remainder(chunks, want) \in Seq(Seq(StreamBytes))
             /\ Spoken!FlattenSeq(Spoken!Remainder(chunks, want)) = SubSeq(all, want + 1, Len(all))
<1> DEFINE all == Spoken!FlattenSeq(chunks)
           rest == SubSeq(all, want + 1, Len(all))
<1>1. <<>> \in Seq(StreamBytes)
  OBVIOUS
<1>2. all \in Seq(StreamBytes)
  BY <1>1, FlattenIs
<1> HIDE DEF all
<1>3. rest \in Seq(StreamBytes)
  BY <1>2
<1>4. Spoken!Remainder(chunks, want) = IF rest = <<>> THEN <<>> ELSE <<rest>>
  BY DEF Spoken!Remainder, all
<1> HIDE DEF rest
<1>5. Spoken!FlattenSeq(<<>>) = <<>> /\ Spoken!FlattenSeq(<<rest>>) = rest
  BY <1>3, FlattenIs
<1>6. <<>> \in Seq(Seq(StreamBytes)) /\ <<rest>> \in Seq(Seq(StreamBytes))
  BY <1>3
<1>7. Spoken!FlattenSeq(Spoken!Remainder(chunks, want)) = rest
  BY <1>4, <1>5
<1> QED
  BY <1>4, <1>6, <1>7 DEF all, rest

LEMMA BufferedIs ==
  ASSUME NEW s \in Sockets
  PROVE  Spoken!Buffered(s) = Spoken!FlattenSeq(s.chunks) /\ Spoken!Buffered(s) \in Seq(StreamBytes)
<1>1. s.chunks \in Seq(Seq(StreamBytes))
  BY DEF Sockets
<1>2. <<>> \in Seq(StreamBytes)
  OBVIOUS
<1>3. Spoken!FlattenSeq(s.chunks) \in Seq(StreamBytes)
  BY <1>1, <1>2, FlattenIs
<1> QED
  BY <1>3 DEF Spoken!Buffered

LEMMA ServedIs ==
  ASSUME NEW s \in Sockets
  PROVE  LET t == Spoken!Served(s)
             all == Spoken!Buffered(s)
         IN  /\ t \in Sockets /\ t.failed = s.failed /\ t.destroyed = s.destroyed
             /\ s.want = 0 \/ Len(all) < s.want => t = s
             /\ s.want # 0 /\ ~(Len(all) < s.want) =>
                  /\ t.out = SubSeq(all, 1, s.want) /\ t.want = 0
                  /\ Spoken!Buffered(t) = SubSeq(all, s.want + 1, Len(all))
<1> DEFINE t == Spoken!Served(s)
           all == Spoken!Buffered(s)
           rest == Spoken!Remainder(s.chunks, s.want)
           given == SubSeq(all, 1, s.want)
<1>1. /\ s.chunks \in Seq(Seq(StreamBytes)) /\ s.want \in Nat /\ s.out \in Seq(StreamBytes)
      /\ s.failed \in BOOLEAN /\ s.destroyed \in BOOLEAN
      /\ s = [chunks |-> s.chunks, want |-> s.want, out |-> s.out, failed |-> s.failed, destroyed |-> s.destroyed]
  BY DEF Sockets
<1>2. all = Spoken!FlattenSeq(s.chunks) /\ all \in Seq(StreamBytes)
  BY BufferedIs
<1>3. rest \in Seq(Seq(StreamBytes)) /\ Spoken!FlattenSeq(rest) = SubSeq(all, s.want + 1, Len(all))
  <2>1. LET every == Spoken!FlattenSeq(s.chunks)
        IN  /\ rest \in Seq(Seq(StreamBytes))
            /\ Spoken!FlattenSeq(rest) = SubSeq(every, s.want + 1, Len(every))
    BY <1>1, RemainderIs
  <2> HIDE DEF rest, all
  <2> QED
    BY <1>2, <2>1
<1>4. t = IF s.want = 0 \/ Len(all) < s.want THEN s
          ELSE [s EXCEPT !.out = given, !.chunks = rest, !.want = 0]
  BY DEF Spoken!Served, Spoken!NoWaiter
<1>5. CASE s.want = 0 \/ Len(all) < s.want
  <2>1. t = s
    BY <1>4, <1>5
  <2> HIDE DEF t, all, given, rest
  <2> QED
    BY <1>5, <2>1 DEF t, all
<1>6. CASE ~(s.want = 0 \/ Len(all) < s.want)
  <2>1. given \in Seq(StreamBytes)
    <3> HIDE DEF all
    <3>1. s.want \in Nat /\ s.want <= Len(all) /\ Len(all) \in Nat
      BY <1>1, <1>2, <1>6
    <3>2. \A i \in 1..s.want : i \in 1..Len(all)
      BY <3>1
    <3>3. \A i \in 1..s.want : all[i] \in StreamBytes
      BY <1>2, <3>2, ElementOfSeq
    <3> QED
      BY <1>2, <3>1, SubSeqProperties
  <2> HIDE DEF given, rest, all
  <2>2. t = [chunks |-> rest, want |-> 0, out |-> given, failed |-> s.failed, destroyed |-> s.destroyed]
    BY <1>1, <1>4, <1>6
  <2> HIDE DEF t
  <2>3. t \in Sockets
    BY <1>1, <1>3, <2>1, <2>2 DEF Sockets
  <2>4. Spoken!Buffered(t) = Spoken!FlattenSeq(rest)
    BY <2>2 DEF Spoken!Buffered
  <2>5. t.out = given /\ t.want = 0 /\ t.failed = s.failed /\ t.destroyed = s.destroyed
    BY <2>2
  <2>6. Spoken!Buffered(t) = SubSeq(all, s.want + 1, Len(all))
    BY <1>3, <2>4
  <2> QED
    BY <1>6, <2>3, <2>5, <2>6 DEF t, all, given
<1> QED
  BY <1>5, <1>6

\* What a method's answer is called, and what its caller is told.
LEMMA MethodsAnswered ==
  ASSUME Spoken!BindingAssumption, NEW m \in SessionMethods, Spoken!Encodes(m)
  PROVE  LET body == Spoken!Success[Spoken!ToWire[Spoken!Op[m]]]
         IN  /\ body \in DOMAIN Spoken!FromWire /\ body \in SessionBodies /\ body # "Newer"
             /\ Spoken!FromWire[body] # "preconditionFailed" /\ Spoken!FromWire[body] # "error"
             /\ Spoken!FromWire[body] # "raw"
             /\ Spoken!FromWire[body] = Spoken!Expects[m] \/ m = "promote"
             /\ Spoken!Op[m] \in Spoken!Conditional <=> m \in Spoken!Conditional
             /\ Spoken!Expects[m] \notin {"error", "preconditionFailed"}
<1>1. m \in {"get", "put", "delete", "putIf", "transaction", "query", "explain", "status", "describe",
             "propose", "show", "validate", "apply", "promote", "reject", "create", "createFrom", "merge", "discard"}
  BY DEF Spoken!BindingAssumption, Spoken!Op
<1>2. m # "describe" /\ m # "merge" /\ m # "createFrom"
  BY DEF Spoken!Encodes, Spoken!HasFields, Spoken!ParsesBranchId, Spoken!Op, Spoken!Requests, Spoken!ToWire
<1> USE DEF Spoken!Op, Spoken!ToWire, Spoken!Success, Spoken!FromWire, Spoken!Expects, Spoken!Conditional, SessionBodies
<1>3. CASE m = "get"
  BY <1>3
<1>4. CASE m = "put"
  BY <1>4
<1>5. CASE m = "delete"
  BY <1>5
<1>6. CASE m = "putIf"
  BY <1>6
<1>7. CASE m = "transaction"
  BY <1>7
<1>8. CASE m = "query"
  BY <1>8
<1>9. CASE m = "explain"
  BY <1>9
<1>10. CASE m = "status"
  BY <1>10
<1>11. CASE m = "propose"
  BY <1>11
<1>12. CASE m = "show"
  BY <1>12
<1>13. CASE m = "validate"
  BY <1>13
<1>14. CASE m = "apply"
  BY <1>14
<1>15. CASE m = "promote"
  BY <1>15
<1>16. CASE m = "reject"
  BY <1>16
<1>17. CASE m = "create"
  BY <1>17
<1>18. CASE m = "discard"
  BY <1>18
<1> QED
  BY <1>1, <1>2, <1>3, <1>4, <1>5, <1>6, <1>7, <1>8, <1>9, <1>10, <1>11, <1>12, <1>13, <1>14, <1>15,
     <1>16, <1>17, <1>18

LEMMA OutcomeIs ==
  ASSUME Spoken!BindingAssumption, NEW m \in SessionMethods, Spoken!Encodes(m), NEW reply \in SessionReplies,
         NEW did \in BOOLEAN,
         \/ reply.body = Spoken!Success[Spoken!ToWire[Spoken!Op[m]]] /\ did
         \/ reply.body = "PreconditionFailed" /\ m \in Spoken!Conditional /\ ~did
         \/ reply.body = "Error" /\ ~did
  PROVE  LET out == Spoken!Outcome(m, reply)
         IN  /\ out \in Outcomes
             /\ out = "value" => did
             /\ out \in {"null", "gate", "breaker", "refused"} => ~did
             /\ out = "unexpected" => m = "promote"
<1> DEFINE body == Spoken!Success[Spoken!ToWire[Spoken!Op[m]]]
           kind == Spoken!Kind(reply)
           code == reply.code
           wanted == Spoken!Expects[m]
           out == Spoken!Outcome(m, reply)
<1>1. /\ body \in DOMAIN Spoken!FromWire /\ Spoken!FromWire[body] # "preconditionFailed"
      /\ Spoken!FromWire[body] # "error" /\ Spoken!FromWire[body] # "raw"
      /\ Spoken!FromWire[body] = wanted \/ m = "promote"
      /\ wanted # "error" /\ wanted # "preconditionFailed"
  BY MethodsAnswered
<1>2. /\ Spoken!FromWire["PreconditionFailed"] = "preconditionFailed" /\ "PreconditionFailed" \in DOMAIN Spoken!FromWire
      /\ Spoken!FromWire["Error"] = "error" /\ "Error" \in DOMAIN Spoken!FromWire
  BY DEF Spoken!FromWire
<1>3. out = CASE m \in Spoken!Conditional /\ kind = "preconditionFailed" -> "null"
              [] kind = wanted -> "value"
              [] kind = "error" /\ code = "ConfirmationRequired" -> "gate"
              [] kind = "error" /\ code = "BreakerOpen" -> "breaker"
              [] kind = "error" /\ code \notin {"ConfirmationRequired", "BreakerOpen"} -> "refused"
              [] kind = "raw" -> "raw"
              [] OTHER -> "unexpected"
  BY DEF Spoken!Outcome
<1>4. kind = IF reply.body \in DOMAIN Spoken!FromWire THEN Spoken!FromWire[reply.body] ELSE "raw"
  BY DEF Spoken!Kind
<1>5. CASE reply.body = body /\ did
  <2>1. kind = Spoken!FromWire[body]
    BY <1>1, <1>4, <1>5, Zenon
  <2>2. kind # "preconditionFailed" /\ kind # "error" /\ kind # "raw" /\ (kind = wanted \/ m = "promote")
    BY <1>1, <2>1
  <2> HIDE DEF kind, out, code, wanted, body
  <2>3. out = IF kind = wanted THEN "value" ELSE "unexpected"
    BY <1>3, <2>2
  <2>4. out = "value" \/ (out = "unexpected" /\ m = "promote")
    BY <2>2, <2>3
  <2> QED
    BY <1>5, <2>4 DEF Outcomes, out
<1>6. CASE reply.body = "PreconditionFailed" /\ m \in Spoken!Conditional /\ ~did
  <2>1. kind = "preconditionFailed"
    BY <1>2, <1>4, <1>6, Zenon
  <2> HIDE DEF kind, out, code, wanted, body
  <2>2. out = "null"
    BY <1>1, <1>3, <1>6, <2>1
  <2> QED
    BY <1>6, <2>2 DEF Outcomes, out
<1>7. CASE reply.body = "Error" /\ ~did
  <2>1. kind = "error"
    BY <1>2, <1>4, <1>7, Zenon
  <2> HIDE DEF kind, out, code, wanted, body
  <2>2. out \in {"gate", "breaker", "refused"}
    <3>1. CASE code = "ConfirmationRequired"
      BY <1>1, <1>3, <2>1, <3>1
    <3>2. CASE code = "BreakerOpen"
      BY <1>1, <1>3, <2>1, <3>2
    <3>3. CASE code \notin {"ConfirmationRequired", "BreakerOpen"}
      BY <1>1, <1>3, <2>1, <3>3
    <3> QED
      BY <3>1, <3>2, <3>3
  <2> QED
    BY <1>7, <2>2 DEF Outcomes, out
<1> QED
  BY <1>5, <1>6, <1>7

\* What the parts of the state are.
LEMMA PartsTyped ==
  ASSUME SessionTypes
  PROVE  /\ server.inbox \in Seq(SessionRequests) /\ server.frames \in Seq(SessionReplies)
         /\ server.closed \in BOOLEAN /\ server.done \in SUBSET Nat
         /\ server = [inbox |-> server.inbox, frames |-> server.frames, closed |-> server.closed, done |-> server.done]
         /\ sock.chunks \in Seq(Seq(StreamBytes)) /\ sock.want \in Nat /\ sock.out \in Seq(StreamBytes)
         /\ sock.failed \in BOOLEAN /\ sock.destroyed \in BOOLEAN
         /\ sock = [chunks |-> sock.chunks, want |-> sock.want, out |-> sock.out, failed |-> sock.failed,
                    destroyed |-> sock.destroyed]
         /\ dialogue.pc \in {"idle", "prefix", "body"} /\ dialogue.next \in Nat /\ dialogue.next # 0
         /\ dialogue = [pc |-> dialogue.pc, next |-> dialogue.next]
         /\ queue \in Seq(SessionCallers) /\ flight \in Seq(StreamBytes)
<1>1. /\ server \in [inbox : Seq(SessionRequests), frames : Seq(SessionReplies), closed : BOOLEAN, done : SUBSET Nat]
      /\ sock \in Sockets /\ dialogue \in [pc : {"idle", "prefix", "body"}, next : Nat \ {0}]
      /\ queue \in Seq(SessionCallers) /\ flight \in Seq(StreamBytes)
  BY DEF SessionTypes
<1>2. /\ server.inbox \in Seq(SessionRequests) /\ server.frames \in Seq(SessionReplies)
      /\ server.closed \in BOOLEAN /\ server.done \in SUBSET Nat
      /\ server = [inbox |-> server.inbox, frames |-> server.frames, closed |-> server.closed, done |-> server.done]
  BY <1>1
<1>3. /\ sock.chunks \in Seq(Seq(StreamBytes)) /\ sock.want \in Nat /\ sock.out \in Seq(StreamBytes)
      /\ sock.failed \in BOOLEAN /\ sock.destroyed \in BOOLEAN
      /\ sock = [chunks |-> sock.chunks, want |-> sock.want, out |-> sock.out, failed |-> sock.failed,
                 destroyed |-> sock.destroyed]
  BY <1>1 DEF Sockets
<1>4. /\ dialogue.pc \in {"idle", "prefix", "body"} /\ dialogue.next \in Nat /\ dialogue.next # 0
      /\ dialogue = [pc |-> dialogue.pc, next |-> dialogue.next]
  BY <1>1
<1> QED
  BY <1>1, <1>2, <1>3, <1>4

\* Callers keep their place, and what they were told, while the session's calls stand.
LEMMA CallsStand ==
  ASSUME SessionInv, UNCHANGED <<asked, queue, dialogue>>, server'.done = server.done
  PROVE  InLine' /\ \A c \in SessionCallers : Told(asked[c], server.done)'
<1>1. InLine /\ \A c \in SessionCallers : Told(asked[c], server.done)
  BY DEF SessionInv
<1> QED
  BY <1>1 DEF InLine, Told

LEMMA AtMostOne ==
  ASSUME NEW S, NEW s \in Seq(S), s = <<>> \/ Len(s) = 1
  PROVE  Len(s) <= 1
<1>1. CASE s = <<>>
  BY <1>1
<1>2. CASE Len(s) = 1
  BY <1>2
<1> QED
  BY <1>1, <1>2

LEMMA OneWaits ==
  ASSUME NEW S, NEW s \in Seq(S), Len(s) = 1
  PROVE  Tail(s) = <<>> /\ Head(s) = s[1] /\ s[1] \in S /\ s # <<>>
<1>1. s # <<>> /\ s[1] \in S /\ Head(s) = s[1]
  OBVIOUS
<1>2. Tail(s) \in Seq(S) /\ Len(Tail(s)) = 0
  BY <1>1
<1> DEFINE t == Tail(s)
<1> HIDE DEF t
<1>3. t \in Seq(S) /\ Len(t) = 0
  BY <1>2 DEF t
<1>4. t = <<>>
  BY <1>3
<1> QED
  BY <1>1, <1>4 DEF t

\* While the server has something to serve, the exchange under way waits for it.
LEMMA ServingIs ==
  ASSUME SessionInv, Spoken!Serving
  PROVE  /\ dialogue.pc = "prefix" /\ ~sock.failed /\ sock.want = 2 /\ ~server.closed
         /\ sock.out = <<>> /\ Spoken!Buffered(sock) = <<>> /\ flight = <<>>
         /\ \A n \in 1..Len(server.frames) : server.frames[n].id # dialogue.next - 1
         /\ Len(server.inbox) = 1 /\ Tail(server.inbox) = <<>> /\ Spoken!Asked \in SessionRequests
         /\ Spoken!Asked.id = dialogue.next - 1 /\ Spoken!Asked.op = Spoken!Op[asked[queue[1]].method]
         /\ dialogue.next - 1 \notin server.done
         /\ queue # <<>> /\ 1 \in 1..Len(queue) /\ queue[1] \in SessionCallers /\ asked[queue[1]].method \in SessionMethods
         /\ Spoken!Encodes(asked[queue[1]].method)
<1>1. SessionTypes /\ Exchanging /\ InLine
  BY DEF SessionInv
<1>2. /\ server.inbox \in Seq(SessionRequests) /\ sock.failed \in BOOLEAN /\ queue \in Seq(SessionCallers)
      /\ dialogue.pc \in {"idle", "prefix", "body"}
  BY <1>1, PartsTyped
<1>3. ~server.closed /\ server.inbox # <<>>
  BY DEF Spoken!Serving
<1>4. ~sock.failed /\ dialogue.pc # "idle"
  BY <1>1, <1>3 DEF Exchanging
<1>5. Unanswered /\ queue # <<>> /\ Spoken!Encodes(asked[queue[1]].method) /\ sock.want = Wanted
  BY <1>1, <1>3, <1>4 DEF Exchanging, Answered
<1>6. /\ dialogue.pc = "prefix" /\ sock.out = <<>> /\ Spoken!Buffered(sock) = <<>> /\ flight = <<>>
      /\ \A n \in 1..Len(server.frames) : server.frames[n].id # dialogue.next - 1
      /\ Len(server.inbox) = 1 /\ server.inbox[1].id = dialogue.next - 1
      /\ server.inbox[1].op = Spoken!Op[asked[queue[1]].method]
      /\ dialogue.next - 1 \notin server.done
  BY <1>3, <1>5 DEF Unanswered
<1>7. Tail(server.inbox) = <<>> /\ Head(server.inbox) = server.inbox[1] /\ server.inbox[1] \in SessionRequests
  <2>1. server.inbox \in Seq(SessionRequests) /\ Len(server.inbox) = 1
    BY <1>2, <1>6
  <2> QED
    BY <2>1, OneWaits
<1>8. sock.want = 2
  BY <1>4, <1>5, <1>6 DEF Wanted
<1>9. 1 \in 1..Len(queue) /\ queue[1] \in SessionCallers
  BY <1>2, <1>5
<1>10. asked[queue[1]].method \in SessionMethods
  BY <1>1, <1>9 DEF InLine
<1> QED
  BY <1>3, <1>4, <1>5, <1>6, <1>7, <1>8, <1>9, <1>10 DEF Spoken!Asked

\* What is done for the request now under way changes nothing others were told.
LEMMA DoneGrows ==
  ASSUME SessionInv, dialogue.pc # "idle", UNCHANGED <<asked, queue, dialogue>>,
         \/ server'.done = server.done
         \/ server'.done = server.done \cup {dialogue.next - 1}
  PROVE  \A c \in SessionCallers : Told(asked[c], server.done)'
<1> DEFINE id == dialogue.next - 1
<1>1. SessionTypes /\ InLine /\ Exchanging /\ \A c \in SessionCallers : Told(asked[c], server.done)
  BY DEF SessionInv
<1>2. dialogue.next \in Nat /\ queue \in Seq(SessionCallers)
  BY <1>1, PartsTyped
<1>3. queue # <<>> /\ \A c \in SessionCallers : c # queue[1] => asked[c].id < id
  BY <1>1 DEF Exchanging
<1>4. 1 \in 1..Len(queue)
  BY <1>2, <1>3
<1>5. ASSUME NEW c \in SessionCallers PROVE Told(asked[c], server.done)'
  <2>1. Told(asked[c], server.done)
    BY <1>1
  <2>2. asked[c].out \in {"null", "gate", "breaker", "refused"} => asked[c].id # id
    <3>1. CASE c = queue[1]
      <4>1. asked[c].pc # "done"
        BY <1>1, <1>4, <3>1 DEF InLine
      <4> QED
        BY <2>1, <4>1 DEF Told
    <3>2. CASE c # queue[1]
      <4>1. asked[c].id < id
        BY <1>3, <3>2
      <4>2. asked[c].id \in Nat
        BY <1>1 DEF SessionTypes
      <4> QED
        BY <1>2, <4>1, <4>2
    <3> QED
      BY <3>1, <3>2
  <2> HIDE DEF id
  <2>3. \A x : x \in server'.done <=> x \in server.done \/ (x = id /\ server'.done # server.done)
    BY DEF id
  <2> QED
    BY <2>1, <2>2, <2>3 DEF Told
<1> QED
  BY <1>5

LEMMA RepliedKeeps ==
  ASSUME SessionInv, Spoken!Serving, NEW reply \in SessionReplies, NEW does \in BOOLEAN, NEW closes \in BOOLEAN,
         reply.id \in {0, Spoken!Asked.id},
         \/ reply.id = 0
         \/ reply.body = Spoken!Success[Spoken!ToWire[Spoken!Asked.op]] /\ does
         \/ reply.body = "PreconditionFailed" /\ asked[queue[1]].method \in Spoken!Conditional /\ ~does
         \/ reply.body = "Error" /\ ~does
         \/ reply.body = "Newer",
         Spoken!Replied(reply, does, closes)
  PROVE  SessionInv'
<1> DEFINE id == dialogue.next - 1
           frames == Append(server.frames, reply)
           whole == 2 + reply.length
<1>1. SessionTypes /\ InLine /\ Numbered /\ Exchanging /\ \A c \in SessionCallers : Told(asked[c], server.done)
  BY DEF SessionInv
<1>2. /\ dialogue.pc = "prefix" /\ ~sock.failed /\ sock.want = 2 /\ ~server.closed
      /\ queue # <<>> /\ 1 \in 1..Len(queue) /\ queue[1] \in SessionCallers /\ id \notin server.done
      /\ \A m \in 1..Len(server.frames) : server.frames[m].id # id
  BY ServingIs
<1>17. Tail(server.inbox) = <<>>
  BY ServingIs
<1>18. sock.out = <<>> /\ Spoken!Buffered(sock) = <<>>
  BY ServingIs
<1>19. flight = <<>>
  BY ServingIs
<1>20. Spoken!Asked.id = id /\ Spoken!Asked.op = Spoken!Op[asked[queue[1]].method]
  BY ServingIs
<1>3. /\ server.frames \in Seq(SessionReplies) /\ server.done \in SUBSET Nat /\ dialogue.next \in Nat
      /\ server = [inbox |-> server.inbox, frames |-> server.frames, closed |-> server.closed, done |-> server.done]
      /\ queue \in Seq(SessionCallers) /\ flight \in Seq(StreamBytes)
  BY <1>1, PartsTyped
<1>21. PICK n \in Nat : n = Len(server.frames) + 1
  BY <1>3
<1>22. PICK done : done = IF does THEN server.done \cup {id} ELSE server.done
  OBVIOUS
<1>4. dialogue.next > 1 /\ asked[queue[1]].id = id /\ Spoken!Encodes(asked[queue[1]].method)
      /\ \A c \in SessionCallers : c # queue[1] => asked[c].id < id
  BY <1>1, <1>2 DEF Exchanging
<1>5. reply.length \in Nat /\ reply.id \in Nat /\ reply.id \in {0, id} /\ reply.length \in {1, 2}
  <2>1. reply.id \in {0, id}
    BY <1>20
  <2>2. reply.id \in Nat /\ reply.length \in {1, 2}
    BY DEF SessionReplies
  <2> QED
    BY <2>1, <2>2
<1>6. UNCHANGED <<asked, queue, dialogue, sock, begun>>
  BY DEF Spoken!Replied
<1>7. server' = [inbox |-> <<>>, frames |-> frames, closed |-> closes, done |-> done]
  <2>1. server' = [server EXCEPT !.inbox = Tail(server.inbox), !.frames = frames, !.closed = closes, !.done = done]
    BY <1>17, <1>20, <1>22 DEF Spoken!Replied
  <2> HIDE DEF frames, id
  <2> QED
    BY <1>3, <1>17, <2>1
<1>8. flight' = Slice(n, 1, whole)
  <2>1. flight' = <<>> \o Spoken!FrameBytes(n, reply.length)
    BY <1>2, <1>19, <1>21 DEF Spoken!Replied
  <2>3. whole \in Nat /\ 1 <= whole + 1
    BY <1>5
  <2>2. Spoken!FrameBytes(n, reply.length) = Slice(n, 1, whole)
    BY <1>5, FrameBytesIs
  <2>4. Slice(n, 1, whole) \in Seq(StreamBytes)
    BY <2>3, SliceIs
  <2> QED
    BY <2>1, <2>2, <2>4, ConcatEmptySeq
<1>9. /\ frames \in Seq(SessionReplies) /\ Len(frames) = n /\ frames[n] = reply /\ n \in Nat /\ n # 0
      /\ \A m \in 1..n - 1 : frames[m] = server.frames[m]
      /\ n - 1 = Len(server.frames)
  BY <1>3, <1>21
<1>10. done \in SUBSET Nat /\ \A x \in done : x \in server.done \/ (x = id /\ does)
  BY <1>3, <1>4, <1>22
<1> HIDE DEF frames
<1>11. server'.inbox = <<>> /\ server'.frames = frames /\ server'.closed = closes /\ server'.done = done
  BY <1>7
<1>12. SessionTypes'
  <2>1. flight' \in Seq(StreamBytes)
    <3>1. whole \in Nat /\ 1 <= whole + 1
      BY <1>5
    <3> QED
      BY <1>8, <1>9, <3>1, SliceIs
  <2>2. <<>> \in Seq(SessionRequests)
    OBVIOUS
  <2> HIDE DEF whole
  <2>3. server' \in [inbox : Seq(SessionRequests), frames : Seq(SessionReplies), closed : BOOLEAN, done : SUBSET Nat]
    BY <1>7, <1>9, <1>10, <2>2
  <2> QED
    BY <1>1, <1>6, <2>1, <2>3 DEF SessionTypes
<1>13. InLine'
  BY <1>1, <1>6 DEF InLine
<1>14. Numbered'
  <2>1. \A x \in done : x \in 1..dialogue.next - 1
    BY <1>1, <1>3, <1>4, <1>10 DEF Numbered
  <2>2. ASSUME NEW m \in 1..n PROVE frames[m].id < dialogue.next /\ (frames[m].id = id => m = n)
    <3>1. CASE m = n
      BY <1>3, <1>4, <1>5, <1>9, <3>1
    <3>2. CASE m # n
      <4>1. m \in 1..Len(server.frames) /\ frames[m] = server.frames[m]
        BY <1>9, <3>2
      <4> QED
        BY <1>1, <1>2, <4>1 DEF Numbered
    <3> QED
      BY <3>1, <3>2
  <2> QED
    BY <1>6, <1>9, <1>11, <2>1, <2>2 DEF Numbered
<1>15. Exchanging'
  <2>1. Answers(reply, asked[queue[1]].method, id \in done)
    <3>1. does <=> id \in done
      BY <1>2, <1>22
    <3>3. reply.id = id =>
            \/ reply.body = Spoken!Success[Spoken!ToWire[Spoken!Op[asked[queue[1]].method]]] /\ does
            \/ reply.body = "PreconditionFailed" /\ asked[queue[1]].method \in Spoken!Conditional /\ ~does
            \/ reply.body = "Error" /\ ~does
            \/ reply.body = "Newer"
      <4>1. reply.id = id => reply.id # 0
        BY <1>3, <1>4
      <4> QED
        BY <1>20, <4>1, Zenon
    <3> HIDE DEF id
    <3> QED
      BY <1>5, <3>1, <3>3 DEF Answers, id
  <2>2. Read(n, 0, whole)
    <3>1. Slice(n, 0 + 1, 0) = <<>> /\ 0 + 1 = 1
      BY <1>9, SliceEmpty
    <3>2. Spoken!Buffered(sock) = Slice(n, 1, 0)
      BY <1>18, <3>1
    <3> QED
      BY <1>2, <1>18, <3>2 DEF Read
  <2>3. 0 \in 0..whole /\ Slice(n, 0 + 1, whole) = Slice(n, 1, whole)
    BY <1>5
  <2>4. Answered'
    <3>4. Answers(reply, asked[queue[1]].method, id \in done)'
      BY <1>6, <2>1 DEF Answers
    <3>5. Read(n, 0, whole)'
      BY <1>6, <2>2 DEF Read
    <3>1. Answers(reply, asked[queue[1]].method, id \in done)' /\ Read(n, 0, whole)'
      BY <3>4, <3>5
    <3>2. frames # <<>>
      BY <1>9
    <3> HIDE DEF whole
    <3>3. \E a \in 0..whole : Read(n, a, whole)' /\ flight' = IF sock'.failed THEN <<>> ELSE Slice(n, a + 1, whole)
      BY <1>2, <1>6, <1>8, <2>3, <3>1
    <3> QED
      BY <1>6, <1>9, <1>11, <3>1, <3>2, <3>3 DEF Answered, whole
  <2>5. Wanted' = 2
    BY <1>2, <1>6, <1>18 DEF Wanted
  <2> QED
    BY <1>2, <1>4, <1>6, <2>4, <2>5 DEF Exchanging
<1>16. \A c \in SessionCallers : Told(asked[c], server.done)'
  BY <1>2, <1>6, <1>11, <1>22, DoneGrows
<1> QED
  BY <1>12, <1>13, <1>14, <1>15, <1>16 DEF SessionInv

LEMMA GrantKeeps ==
  ASSUME Spoken!BindingAssumption, SessionInv, Spoken!Grant PROVE SessionInv'
<1> DEFINE asking == Spoken!Asked
           method == asked[queue[1]].method
           body == Spoken!Success[Spoken!ToWire[asking.op]]
           reply == Spoken!Reply(asking.id, body, "", 2)
<1>1. Spoken!Serving /\ Spoken!Replied(reply, TRUE, FALSE)
  BY DEF Spoken!Grant
<1>2. asking \in SessionRequests /\ asking.op = Spoken!Op[method] /\ method \in SessionMethods /\ Spoken!Encodes(method)
  BY <1>1, ServingIs
<1>3. body \in SessionBodies
  BY <1>2, MethodsAnswered
<1>4. asking.id \in Nat
  BY <1>2 DEF SessionRequests
<1>5. reply.id = asking.id /\ reply.body = body
  BY DEF Spoken!Reply
<1> HIDE DEF asking, body
<1>6. reply \in SessionReplies
  BY <1>3, <1>4 DEF Spoken!Reply, SessionReplies
<1> HIDE DEF reply
<1> QED
  BY <1>1, <1>5, <1>6, RepliedKeeps, Zenon DEF asking, body

LEMMA UnmetKeeps ==
  ASSUME Spoken!BindingAssumption, SessionInv, Spoken!Unmet PROVE SessionInv'
<1> DEFINE asking == Spoken!Asked
           method == asked[queue[1]].method
           reply == Spoken!Reply(asking.id, "PreconditionFailed", "", 1)
<1>1. Spoken!Serving /\ Spoken!Replied(reply, FALSE, FALSE) /\ asking.op \in Spoken!Conditional
  BY DEF Spoken!Unmet
<1>2. asking \in SessionRequests /\ asking.op = Spoken!Op[method] /\ method \in SessionMethods /\ Spoken!Encodes(method)
  BY <1>1, ServingIs
<1>3. method \in Spoken!Conditional
  BY <1>1, <1>2, MethodsAnswered
<1>4. asking.id \in Nat
  BY <1>2 DEF SessionRequests
<1>5. reply.id = asking.id /\ reply.body = "PreconditionFailed"
  BY DEF Spoken!Reply
<1> HIDE DEF asking
<1>6. reply \in SessionReplies
  BY <1>4 DEF Spoken!Reply, SessionReplies, SessionBodies
<1> HIDE DEF reply
<1> QED
  BY <1>1, <1>3, <1>5, <1>6, RepliedKeeps, Zenon DEF asking

LEMMA RefuseKeeps ==
  ASSUME SessionInv, NEW code \in Spoken!Codes, Spoken!Refuse(code) PROVE SessionInv'
<1> DEFINE asking == Spoken!Asked
           reply == Spoken!Reply(asking.id, "Error", code, 1)
<1>1. Spoken!Serving /\ Spoken!Replied(reply, FALSE, code = "Unauthorized") /\ (code = "Unauthorized") \in BOOLEAN
  BY DEF Spoken!Refuse
<1>2. asking \in SessionRequests
  BY <1>1, ServingIs
<1>3. asking.id \in Nat
  BY <1>2 DEF SessionRequests
<1>4. reply.id = asking.id /\ reply.body = "Error"
  BY DEF Spoken!Reply
<1> HIDE DEF asking
<1>5. reply \in SessionReplies
  BY <1>3 DEF Spoken!Reply, SessionReplies, SessionBodies
<1> HIDE DEF reply
<1> QED
  BY <1>1, <1>4, <1>5, RepliedKeeps, Zenon DEF asking

LEMMA UnreadableKeeps ==
  ASSUME SessionInv, Spoken!Unreadable PROVE SessionInv'
<1> DEFINE reply == Spoken!Reply(0, "Error", "Rejected", 1)
<1>1. Spoken!Serving /\ Spoken!Replied(reply, FALSE, FALSE)
  BY DEF Spoken!Unreadable
<1>2. reply.id = 0 /\ reply \in SessionReplies
  BY DEF Spoken!Reply, SessionReplies, SessionBodies, Spoken!Codes
<1> HIDE DEF reply
<1> QED
  BY <1>1, <1>2, RepliedKeeps, Zenon

LEMMA NewerKeeps ==
  ASSUME SessionInv, Spoken!Newer PROVE SessionInv'
<1> DEFINE asking == Spoken!Asked
           reply == Spoken!Reply(asking.id, "Newer", "", 1)
<1>1. Spoken!Serving /\ Spoken!Replied(reply, TRUE, FALSE)
  BY DEF Spoken!Newer
<1>2. asking \in SessionRequests
  BY <1>1, ServingIs
<1>3. asking.id \in Nat
  BY <1>2 DEF SessionRequests
<1>4. reply.id = asking.id /\ reply.body = "Newer"
  BY DEF Spoken!Reply
<1> HIDE DEF asking
<1>5. reply \in SessionReplies
  BY <1>3 DEF Spoken!Reply, SessionReplies, SessionBodies
<1> HIDE DEF reply
<1> QED
  BY <1>1, <1>4, <1>5, RepliedKeeps, Zenon DEF asking

LEMMA StopKeeps ==
  ASSUME SessionInv, NEW does \in BOOLEAN, Spoken!Stop(does) PROVE SessionInv'
<1> DEFINE id == dialogue.next - 1
           done == IF does THEN server.done \cup {id} ELSE server.done
<1>1. SessionTypes /\ InLine /\ Numbered /\ Exchanging /\ \A c \in SessionCallers : Told(asked[c], server.done)
  BY DEF SessionInv
<1>2. Spoken!Serving /\ UNCHANGED <<asked, queue, dialogue, sock, flight>>
  BY DEF Spoken!Stop
<1>3. /\ dialogue.pc = "prefix" /\ ~sock.failed /\ sock.want = 2 /\ queue # <<>> /\ id \notin server.done
      /\ \A m \in 1..Len(server.frames) : server.frames[m].id # id
  BY <1>2, ServingIs
<1>4. Tail(server.inbox) = <<>>
  BY <1>2, ServingIs
<1>5. sock.out = <<>> /\ Spoken!Buffered(sock) = <<>>
  BY <1>2, ServingIs
<1>6. flight = <<>>
  BY <1>2, ServingIs
<1>7. Spoken!Asked.id = id
  BY <1>2, ServingIs
<1>8. /\ server.frames \in Seq(SessionReplies) /\ server.done \in SUBSET Nat /\ dialogue.next \in Nat
      /\ server = [inbox |-> server.inbox, frames |-> server.frames, closed |-> server.closed, done |-> server.done]
  BY <1>1, PartsTyped
<1>9. dialogue.next > 1 /\ asked[queue[1]].id = id /\ Spoken!Encodes(asked[queue[1]].method)
      /\ \A c \in SessionCallers : c # queue[1] => asked[c].id < id
  BY <1>1, <1>3 DEF Exchanging
<1>10. server' = [inbox |-> <<>>, frames |-> server.frames, closed |-> TRUE, done |-> done]
  <2>1. server' = [server EXCEPT !.inbox = Tail(server.inbox), !.closed = TRUE, !.done = done]
    BY <1>7 DEF Spoken!Stop
  <2> HIDE DEF done
  <2> QED
    BY <1>4, <1>8, <2>1
<1>11. done \in SUBSET Nat /\ \A x \in done : x \in server.done \/ x = id
  BY <1>8, <1>9
<1>12. server'.done = server.done \/ server'.done = server.done \cup {id}
  BY <1>10
<1>13. server'.inbox = <<>> /\ server'.frames = server.frames /\ server'.closed = TRUE /\ server'.done = done
  BY <1>10
<1> HIDE DEF done
<1>14. SessionTypes'
  <2>1. <<>> \in Seq(SessionRequests)
    OBVIOUS
  <2>2. server' \in [inbox : Seq(SessionRequests), frames : Seq(SessionReplies), closed : BOOLEAN, done : SUBSET Nat]
    BY <1>8, <1>10, <1>11, <2>1
  <2> QED
    BY <1>1, <1>2, <2>2 DEF SessionTypes
<1>15. InLine'
  BY <1>1, <1>2 DEF InLine
<1>16. Numbered'
  <2>1. \A x \in done : x \in 1..dialogue.next - 1
    BY <1>1, <1>8, <1>9, <1>11 DEF Numbered
  <2>2. server'.done = done
    BY <1>13
  <2> QED
    BY <1>1, <1>2, <1>3, <1>13, <2>1, <2>2 DEF Numbered
<1>17. Exchanging'
  <2>1. Unanswered'
    BY <1>2, <1>3, <1>5, <1>6, <1>13 DEF Unanswered
  <2>2. Wanted' = 2
    BY <1>2, <1>3, <1>5 DEF Wanted
  <2> QED
    BY <1>2, <1>3, <1>9, <2>1, <2>2 DEF Exchanging
<1>18. \A c \in SessionCallers : Told(asked[c], server.done)'
  BY <1>2, <1>3, <1>12, DoneGrows
<1> QED
  BY <1>14, <1>15, <1>16, <1>17, <1>18 DEF SessionInv

\* A reader that is served part of a frame's bytes, from the i-th to the j-th.
LEMMA ServedSlice ==
  ASSUME NEW s \in Sockets, NEW n \in Nat, NEW i \in Nat, NEW j \in Nat, i <= j + 1,
         Spoken!Buffered(s) = Slice(n, i, j), s.want # 0
  PROVE  LET t == Spoken!Served(s)
         IN  /\ t \in Sockets /\ t.failed = s.failed /\ t.destroyed = s.destroyed
             /\ j - i + 1 < s.want => t = s
             /\ ~(j - i + 1 < s.want) =>
                  /\ t.out = Slice(n, i, i + s.want - 1) /\ t.want = 0
                  /\ Spoken!Buffered(t) = Slice(n, i + s.want, j)
<1> DEFINE t == Spoken!Served(s)
           all == Spoken!Buffered(s)
<1>1. /\ t \in Sockets /\ t.failed = s.failed /\ t.destroyed = s.destroyed
      /\ s.want = 0 \/ Len(all) < s.want => t = s
      /\ s.want # 0 /\ ~(Len(all) < s.want) =>
            /\ t.out = SubSeq(all, 1, s.want) /\ t.want = 0
            /\ Spoken!Buffered(t) = SubSeq(all, s.want + 1, Len(all))
  BY ServedIs
<1>2. Len(all) = j - i + 1
  <2>1. Len(Slice(n, i, j)) = j - i + 1
    BY SliceIs
  <2> QED
    BY <2>1
<1>3. s.want \in Nat
  BY DEF Sockets
<1>4. ASSUME ~(j - i + 1 < s.want)
      PROVE  /\ SubSeq(all, 1, s.want) = Slice(n, i, i + s.want - 1)
             /\ SubSeq(all, s.want + 1, Len(all)) = Slice(n, i + s.want, j)
  <2>5. i + s.want - 1 \in Nat
    BY <1>3, <1>4
  <2>6. PICK k \in Nat : k = i + s.want - 1
    BY <2>5
  <2>1. /\ k \in Nat /\ i <= k + 1 /\ k <= j /\ k - i + 1 = s.want /\ k + 1 = i + s.want
        /\ k - i + 2 = s.want + 1
    BY <1>3, <1>4, <2>6
  <2>2. /\ Slice(n, i, k) \o Slice(n, k + 1, j) = Slice(n, i, j)
        /\ SubSeq(Slice(n, i, j), 1, k - i + 1) = Slice(n, i, k)
        /\ SubSeq(Slice(n, i, j), k - i + 2, j - i + 1) = Slice(n, k + 1, j)
    <3>1. Cut(n, i, k, j)
      BY <2>1, SliceSplits
    <3> QED
      BY <3>1 DEF Cut
  <2> HIDE DEF all
  <2>3. all = Slice(n, i, j)
    BY DEF all
  <2>4. SubSeq(all, 1, s.want) = Slice(n, i, k) /\ SubSeq(all, s.want + 1, Len(all)) = Slice(n, i + s.want, j)
    BY <1>2, <2>1, <2>2, <2>3
  <2> QED
    BY <2>4, <2>6
<1> HIDE DEF t, all
<1>5. CASE j - i + 1 < s.want
  <2>1. t = s
    BY <1>1, <1>2, <1>5
  <2> QED
    BY <1>1, <1>5, <2>1 DEF t
<1>6. CASE ~(j - i + 1 < s.want)
  <2>1. ~(Len(all) < s.want)
    BY <1>2, <1>6
  <2>2. t.out = SubSeq(all, 1, s.want) /\ t.want = 0 /\ Spoken!Buffered(t) = SubSeq(all, s.want + 1, Len(all))
    BY <1>1, <2>1
  <2>3. t.out = Slice(n, i, i + s.want - 1) /\ Spoken!Buffered(t) = Slice(n, i + s.want, j)
    BY <1>4, <1>6, <2>2
  <2> QED
    BY <1>1, <1>6, <2>2, <2>3 DEF t
<1> QED
  BY <1>5, <1>6

\* The reader of a prefix,
LEMMA PrefixServed ==
  ASSUME NEW s \in Sockets, NEW n \in Nat, NEW a \in Nat,
         Spoken!Buffered(s) = Slice(n, 1, a), s.want = 2, s.out = <<>>
  PROVE  LET t == Spoken!Served(s)
         IN  /\ t \in Sockets /\ t.failed = s.failed /\ t.destroyed = s.destroyed
             /\ \/ a < 2 /\ t.out = <<>> /\ t.want = 2 /\ Spoken!Buffered(t) = Slice(n, 1, a)
                \/ a >= 2 /\ t.out = Slice(n, 1, 2) /\ t.want = 0 /\ Spoken!Buffered(t) = Slice(n, 3, a)
<1> DEFINE t == Spoken!Served(s)
<1>1. 1 <= a + 1 /\ s.want # 0 /\ a - 1 + 1 = a /\ 1 + s.want - 1 = 2 /\ 1 + s.want = 3
  OBVIOUS
<1>2. /\ t \in Sockets /\ t.failed = s.failed /\ t.destroyed = s.destroyed
      /\ a - 1 + 1 < s.want => t = s
      /\ ~(a - 1 + 1 < s.want) =>
            /\ t.out = Slice(n, 1, 1 + s.want - 1) /\ t.want = 0
            /\ Spoken!Buffered(t) = Slice(n, 1 + s.want, a)
  BY <1>1, ServedSlice
<1> HIDE DEF t
<1>3. CASE a < 2
  <2>1. t = s
    BY <1>1, <1>2, <1>3
  <2> QED
    BY <1>2, <1>3, <2>1 DEF t
<1>4. CASE ~(a < 2)
  <2>1. t.out = Slice(n, 1, 2) /\ t.want = 0 /\ Spoken!Buffered(t) = Slice(n, 3, a) /\ a >= 2
    BY <1>1, <1>2, <1>4
  <2> QED
    BY <1>2, <2>1 DEF t
<1> QED
  BY <1>3, <1>4

\* and the reader of a body.
LEMMA BodyServed ==
  ASSUME NEW s \in Sockets, NEW n \in Nat, NEW whole \in Nat, NEW a \in 2..whole, whole > 2,
         Spoken!Buffered(s) = Slice(n, 3, a), s.want = whole - 2, s.out = <<>>
  PROVE  LET t == Spoken!Served(s)
         IN  /\ t \in Sockets /\ t.failed = s.failed /\ t.destroyed = s.destroyed
             /\ \/ /\ a < whole /\ t.out = <<>> /\ t.want = whole - 2
                   /\ Spoken!Buffered(t) = Slice(n, 3, a)
                \/ a = whole /\ t.out = Slice(n, 3, whole) /\ t.want = 0 /\ Spoken!Buffered(t) = <<>>
<1> DEFINE t == Spoken!Served(s)
<1>1. /\ 3 <= a + 1 /\ s.want # 0 /\ a - 3 + 1 = a - 2 /\ 3 + s.want - 1 = whole /\ 3 + s.want = whole + 1
      /\ a \in Nat
  OBVIOUS
<1>2. /\ t \in Sockets /\ t.failed = s.failed /\ t.destroyed = s.destroyed
      /\ a - 3 + 1 < s.want => t = s
      /\ ~(a - 3 + 1 < s.want) =>
            /\ t.out = Slice(n, 3, 3 + s.want - 1) /\ t.want = 0
            /\ Spoken!Buffered(t) = Slice(n, 3 + s.want, a)
  BY <1>1, ServedSlice
<1> HIDE DEF t
<1>3. CASE a < whole
  <2>1. t = s
    BY <1>1, <1>2, <1>3
  <2> QED
    BY <1>2, <1>3, <2>1 DEF t
<1>4. CASE ~(a < whole)
  <2>1. a = whole /\ t.out = Slice(n, 3, whole) /\ t.want = 0 /\ Spoken!Buffered(t) = Slice(n, whole + 1, whole)
    BY <1>1, <1>2, <1>4
  <2>2. Slice(n, whole + 1, whole) = <<>>
    BY SliceEmpty
  <2> QED
    BY <1>2, <2>1, <2>2 DEF t
<1> QED
  BY <1>3, <1>4

\* A socket that fails keeps what arrived, and nobody waits on it.
LEMMA FailKeeps ==
  ASSUME SessionInv, Spoken!Settled, sock' = Spoken!Failing(sock), flight' = <<>>,
         server' = [server EXCEPT !.closed = TRUE], UNCHANGED <<asked, queue, dialogue>>
  PROVE  SessionInv'
<1>1. SessionTypes /\ InLine /\ Numbered /\ Exchanging
  BY DEF SessionInv
<1>2. sock' = [chunks |-> sock.chunks, want |-> 0, out |-> sock.out, failed |-> TRUE, destroyed |-> sock.destroyed]
  <2>1. sock = [chunks |-> sock.chunks, want |-> sock.want, out |-> sock.out, failed |-> sock.failed,
                destroyed |-> sock.destroyed]
    BY <1>1, PartsTyped
  <2>2. sock' = [sock EXCEPT !.failed = TRUE, !.want = 0]
    BY DEF Spoken!Failing, Spoken!NoWaiter
  <2> QED
    BY <2>1, <2>2
<1>3. sock'.want = 0 /\ sock'.out = sock.out /\ sock'.failed = TRUE /\ sock'.chunks = sock.chunks
  BY <1>2
<1>4. Spoken!Buffered(sock') = Spoken!Buffered(sock)
  BY <1>3 DEF Spoken!Buffered
<1>5. server' = [inbox |-> server.inbox, frames |-> server.frames, closed |-> TRUE, done |-> server.done]
  BY <1>1, PartsTyped
<1>6. server'.inbox = server.inbox /\ server'.frames = server.frames /\ server'.closed = TRUE /\ server'.done = server.done
  BY <1>5
<1>7. sock.out = <<>>
  BY DEF Spoken!Settled
<1>8. SessionTypes'
  <2>1. sock' \in Sockets
    BY <1>1, <1>2, PartsTyped DEF Sockets
  <2>2. server' \in [inbox : Seq(SessionRequests), frames : Seq(SessionReplies), closed : BOOLEAN, done : SUBSET Nat]
    BY <1>1, <1>5, PartsTyped
  <2>3. flight' \in Seq(StreamBytes)
    OBVIOUS
  <2> QED
    BY <1>1, <2>1, <2>2, <2>3 DEF SessionTypes
<1>9. InLine' /\ \A c \in SessionCallers : Told(asked[c], server.done)'
  BY <1>6, CallsStand
<1>10. Numbered'
  BY <1>1, <1>6 DEF Numbered
<1>11. Exchanging'
  <2>1. Wanted' = 0
    BY <1>3 DEF Wanted
  <2>2. Spoken!Dead(sock')
    BY <1>3 DEF Spoken!Dead
  <2>3. CASE dialogue.pc = "idle"
    BY <1>1, <1>3, <1>6, <1>7, <2>1, <2>2, <2>3 DEF Exchanging
  <2>4. CASE dialogue.pc # "idle"
    <3>1. Unanswered \/ Answered
      BY <1>1, <2>4 DEF Exchanging
    <3>2. ASSUME Unanswered PROVE Unanswered'
      <4>1. Spoken!Buffered(sock') = <<>>
        BY <1>4, <3>2 DEF Unanswered
      <4> QED
        BY <1>3, <1>6, <3>2, <4>1 DEF Unanswered
    <3>3. ASSUME Answered PROVE Answered'
      <4> DEFINE frames == server.frames
      <4>1. PICK n : n = Len(server.frames)
        OBVIOUS
      <4>2. PICK whole : whole = 2 + server.frames[n].length
        OBVIOUS
      <4>3. /\ server.inbox = <<>> /\ server.frames # <<>>
            /\ Answers(server.frames[n], asked[queue[1]].method, dialogue.next - 1 \in server.done)
            /\ \E a \in 0..whole : Read(n, a, whole)
        BY <3>3, <4>1, <4>2 DEF Answered
      <4>4. PICK a \in 0..whole : Read(n, a, whole)
        BY <4>3
      <4>5. Read(n, a, whole)'
        BY <1>3, <1>4, <4>4 DEF Read
      <4>6. Answers(server.frames[n], asked[queue[1]].method, dialogue.next - 1 \in server.done)'
        BY <1>6, <4>3 DEF Answers
      <4>7. n = Len(server'.frames) /\ whole = 2 + server'.frames[n].length
        BY <1>6, <4>1, <4>2
      <4>8. \E b \in 0..whole : Read(n, b, whole)' /\ flight' = IF sock'.failed THEN <<>> ELSE Slice(n, b + 1, whole)
        BY <1>3, <4>5
      <4> QED
        BY <1>6, <4>3, <4>6, <4>7, <4>8 DEF Answered
    <3> QED
      BY <1>1, <1>3, <1>6, <1>7, <2>1, <2>4, <3>1, <3>2, <3>3 DEF Exchanging
  <2> QED
    BY <2>3, <2>4
<1> QED
  BY <1>8, <1>9, <1>10, <1>11 DEF SessionInv

LEMMA ClosedKeeps ==
  ASSUME SessionInv, Spoken!Closed \/ Spoken!Break PROVE SessionInv'
<1>1. /\ Spoken!Settled /\ sock' = Spoken!Failing(sock) /\ flight' = <<>>
      /\ server' = [server EXCEPT !.closed = TRUE] /\ UNCHANGED <<asked, queue, dialogue>>
  BY DEF Spoken!Closed, Spoken!Break
<1> QED
  BY <1>1, FailKeeps

LEMMA CloseKeeps ==
  ASSUME SessionInv, Spoken!Close PROVE SessionInv'
<1>1. SessionTypes /\ InLine /\ Numbered /\ Exchanging
  BY DEF SessionInv
<1>2. /\ sock.out = <<>> /\ sock' = [sock EXCEPT !.destroyed = TRUE]
      /\ UNCHANGED <<asked, queue, dialogue, flight, server>>
  BY DEF Spoken!Close, Spoken!Settled
<1>3. sock' = [chunks |-> sock.chunks, want |-> sock.want, out |-> sock.out, failed |-> sock.failed, destroyed |-> TRUE]
  BY <1>1, <1>2, PartsTyped
<1>4. /\ sock'.want = sock.want /\ sock'.out = sock.out /\ sock'.failed = sock.failed
      /\ sock'.chunks = sock.chunks /\ sock'.destroyed = TRUE
  BY <1>3
<1>5. Spoken!Buffered(sock') = Spoken!Buffered(sock)
  BY <1>4 DEF Spoken!Buffered
<1>6. SessionTypes'
  <2>1. sock' \in Sockets
    BY <1>1, <1>3, PartsTyped DEF Sockets
  <2> QED
    BY <1>1, <1>2, <2>1 DEF SessionTypes
<1>7. InLine' /\ \A c \in SessionCallers : Told(asked[c], server.done)'
  BY <1>2, CallsStand
<1>8. Numbered'
  BY <1>1, <1>2 DEF Numbered
<1>9. Exchanging'
  <2>1. Wanted' = Wanted
    BY <1>2, <1>4 DEF Wanted
  <2>2. Spoken!Dead(sock')
    BY <1>4 DEF Spoken!Dead
  <2>3. CASE dialogue.pc = "idle"
    BY <1>1, <1>2, <1>4, <2>1, <2>2, <2>3 DEF Exchanging
  <2>4. CASE dialogue.pc # "idle"
    <3>1. Unanswered \/ Answered
      BY <1>1, <2>4 DEF Exchanging
    <3>2. ASSUME Unanswered PROVE Unanswered'
      BY <1>2, <1>4, <1>5, <3>2 DEF Unanswered
    <3>3. ASSUME Answered PROVE Answered'
      <4>1. \A n, a, whole : Read(n, a, whole) = Read(n, a, whole)'
        BY <1>2, <1>4, <1>5 DEF Read
      <4> QED
        BY <1>2, <1>4, <3>3, <4>1 DEF Answered, Answers
    <3> QED
      BY <1>1, <1>2, <1>4, <2>1, <2>4, <3>1, <3>2, <3>3 DEF Exchanging
  <2> QED
    BY <2>3, <2>4
<1> QED
  BY <1>6, <1>7, <1>8, <1>9 DEF SessionInv

\* Where an exchange stands whose answer is on its way, without the states' names.
LEMMA AnsweredIs ==
  ASSUME SessionTypes, Answered
  PROVE  \E n \in Nat, whole \in {3, 4} :
           \E a \in 0..whole :
             /\ n = Len(server.frames) /\ n \in 1..Len(server.frames) /\ whole = 2 + server.frames[n].length
             /\ server.frames[n] \in SessionReplies /\ server.inbox = <<>> /\ server.frames # <<>>
             /\ Answers(server.frames[n], asked[queue[1]].method, dialogue.next - 1 \in server.done)
             /\ Read(n, a, whole) /\ flight = IF sock.failed THEN <<>> ELSE Slice(n, a + 1, whole)
<1>1. server.frames \in Seq(SessionReplies)
  BY PartsTyped
<1>2. server.frames # <<>> /\ server.inbox = <<>>
  BY DEF Answered
<1>3. PICK n : n = Len(server.frames)
  OBVIOUS
<1>4. n \in Nat /\ n \in 1..Len(server.frames)
  BY <1>1, <1>2, <1>3
<1>5. server.frames[n] \in SessionReplies
  BY <1>1, <1>4
<1>6. server.frames[n].length \in {1, 2}
  BY <1>5 DEF SessionReplies
<1>7. PICK whole \in {3, 4} : whole = 2 + server.frames[n].length
  BY <1>6
<1>8. /\ Answers(server.frames[n], asked[queue[1]].method, dialogue.next - 1 \in server.done)
      /\ \E a \in 0..whole : Read(n, a, whole) /\ flight = IF sock.failed THEN <<>> ELSE Slice(n, a + 1, whole)
  BY <1>3, <1>7 DEF Answered
<1> QED
  BY <1>2, <1>3, <1>4, <1>5, <1>7, <1>8

LEMMA DataKeeps ==
  ASSUME SessionInv, NEW x \in 1..Len(flight), Spoken!Data(x) PROVE SessionInv'
<1>1. SessionTypes /\ InLine /\ Numbered /\ Exchanging
  BY DEF SessionInv
<1>2. /\ sock.out = <<>> /\ ~sock.failed /\ ~Spoken!Dead(sock)
      /\ flight' = SubSeq(flight, x + 1, Len(flight)) /\ UNCHANGED <<asked, queue, dialogue, server>>
      /\ sock' = Spoken!Served([sock EXCEPT !.chunks = Append(sock.chunks, SubSeq(flight, 1, x))])
  BY DEF Spoken!Data, Spoken!Settled, Spoken!Dead
<1>3. flight \in Seq(StreamBytes) /\ flight # <<>> /\ dialogue.pc \in {"idle", "prefix", "body"}
      /\ sock.chunks \in Seq(Seq(StreamBytes))
  BY <1>1, PartsTyped
<1>4. dialogue.pc # "idle" /\ Answered /\ sock.want = Wanted
  BY <1>1, <1>2, <1>3 DEF Exchanging, Unanswered
<1>5. PICK n \in Nat, whole \in {3, 4} :
        \E a \in 0..whole :
          /\ n = Len(server.frames) /\ n \in 1..Len(server.frames) /\ whole = 2 + server.frames[n].length
          /\ server.frames[n] \in SessionReplies /\ server.inbox = <<>> /\ server.frames # <<>>
          /\ Answers(server.frames[n], asked[queue[1]].method, dialogue.next - 1 \in server.done)
          /\ Read(n, a, whole) /\ flight = IF sock.failed THEN <<>> ELSE Slice(n, a + 1, whole)
  BY <1>1, <1>4, AnsweredIs
<1>6. PICK a \in 0..whole :
          /\ n = Len(server.frames) /\ n \in 1..Len(server.frames) /\ whole = 2 + server.frames[n].length
          /\ server.frames[n] \in SessionReplies /\ server.inbox = <<>> /\ server.frames # <<>>
          /\ Answers(server.frames[n], asked[queue[1]].method, dialogue.next - 1 \in server.done)
          /\ Read(n, a, whole) /\ flight = IF sock.failed THEN <<>> ELSE Slice(n, a + 1, whole)
  BY <1>5
<1>7. flight = Slice(n, a + 1, whole) /\ Len(flight) = whole - a
  <2>1. flight = Slice(n, a + 1, whole)
    BY <1>2, <1>6
  <2>2. a + 1 \in Nat /\ whole \in Nat /\ a + 1 <= whole + 1 /\ whole - (a + 1) + 1 = whole - a
    OBVIOUS
  <2>3. Len(Slice(n, a + 1, whole)) = whole - (a + 1) + 1
    BY <2>2, SliceIs
  <2> QED
    BY <2>1, <2>2, <2>3
<1>8. PICK b \in 0..whole : b = a + x /\ b > a
  BY <1>7
\* What arrives, and what is still on its way.
<1>9. SubSeq(flight, 1, x) = Slice(n, a + 1, b) /\ flight' = Slice(n, b + 1, whole)
  <2>1. /\ a + 1 \in Nat /\ b \in Nat /\ whole \in Nat /\ a + 1 <= b + 1 /\ b <= whole
        /\ b - (a + 1) + 1 = x /\ b - (a + 1) + 2 = x + 1 /\ whole - (a + 1) + 1 = whole - a
    BY <1>8
  <2>2. Cut(n, a + 1, b, whole)
    BY <2>1, SliceSplits
  <2>3. /\ SubSeq(Slice(n, a + 1, whole), 1, b - (a + 1) + 1) = Slice(n, a + 1, b)
        /\ SubSeq(Slice(n, a + 1, whole), b - (a + 1) + 2, whole - (a + 1) + 1) = Slice(n, b + 1, whole)
    BY <2>2 DEF Cut
  <2> QED
    BY <1>2, <1>7, <2>1, <2>3
<1> DEFINE chunk == SubSeq(flight, 1, x)
           more == Append(sock.chunks, chunk)
           s == [sock EXCEPT !.chunks = more]
<1>10. chunk \in Seq(StreamBytes)
  <2>1. a + 1 \in Nat /\ b \in Nat /\ a + 1 <= b + 1
    BY <1>8
  <2>2. Slice(n, a + 1, b) \in Seq(StreamBytes)
    BY <2>1, SliceIs
  <2> QED
    BY <1>9, <2>2
<1> HIDE DEF chunk
<1>11. s \in Sockets /\ s.want = sock.want /\ s.out = <<>> /\ s.failed = sock.failed
       /\ s.chunks = Append(sock.chunks, chunk)
  <2>1. more \in Seq(Seq(StreamBytes))
    BY <1>3, <1>10
  <2> HIDE DEF more
  <2>2. s = [chunks |-> more, want |-> sock.want, out |-> sock.out, failed |-> sock.failed,
             destroyed |-> sock.destroyed]
    <3>1. sock = [chunks |-> sock.chunks, want |-> sock.want, out |-> sock.out, failed |-> sock.failed,
                  destroyed |-> sock.destroyed]
      BY <1>1, PartsTyped
    <3> QED
      BY <3>1
  <2> HIDE DEF s
  <2>3. s \in Sockets /\ s.want = sock.want /\ s.out = sock.out /\ s.failed = sock.failed /\ s.chunks = more
    BY <1>1, <2>1, <2>2, PartsTyped DEF Sockets
  <2> QED
    BY <1>2, <2>3 DEF more
<1>12. sock' = Spoken!Served(s)
  BY <1>2 DEF chunk
<1>13. Spoken!Buffered(s) = Spoken!Buffered(sock) \o Slice(n, a + 1, b)
  <2>1. Spoken!FlattenSeq(Append(sock.chunks, chunk)) = Spoken!FlattenSeq(sock.chunks) \o chunk
    BY <1>3, <1>10, FlattenIs
  <2>2. chunk = Slice(n, a + 1, b)
    BY <1>9 DEF chunk
  <2> HIDE DEF s
  <2> QED
    BY <1>11, <2>1, <2>2 DEF Spoken!Buffered
<1> HIDE DEF s
\* The reader has what it needs of it, or waits on.
<1>14. sock' \in Sockets /\ sock'.failed = sock.failed /\ sock'.want = Wanted' /\ Read(n, b, whole)'
  <2>1. a \in Nat /\ b \in Nat /\ whole \in Nat /\ b <= whole /\ a <= b /\ 1 <= a + 1 /\ whole > 2
    BY <1>8
  <2>2. whole - 2 = server.frames[Len(server.frames)].length
    <3>1. server.frames[n].length \in {1, 2}
      BY <1>6 DEF SessionReplies
    <3>2. whole = 2 + server.frames[n].length /\ n = Len(server.frames)
      BY <1>6
    <3>3. PICK length : length = server.frames[n].length
      OBVIOUS
    <3>4. whole - 2 = length
      BY <3>1, <3>2, <3>3
    <3> QED
      BY <3>2, <3>3, <3>4
  <2>3. CASE dialogue.pc = "prefix"
    <3>1. Spoken!Buffered(sock) = Slice(n, 1, a) /\ s.want = 2
      <4>1. sock.out # Slice(n, 1, 2)
        <5>1. Slice(n, 1, 2) # <<>> /\ Slice(n, 1, 2)[1] = <<n, 1>>
          BY SliceFull
        <5>2. sock.out = <<>>
          BY <1>2
        <5> QED
          BY <5>1, <5>2
      <4> QED
        BY <1>2, <1>4, <1>6, <1>11, <2>3, <4>1 DEF Read, Wanted
    <3>2. Cut(n, 1, a, b)
      BY <2>1, SliceSplits
    <3>3. Spoken!Buffered(s) = Slice(n, 1, b)
      BY <1>13, <3>1, <3>2 DEF Cut
    <3>4. /\ sock' \in Sockets /\ sock'.failed = s.failed
          /\ \/ b < 2 /\ sock'.out = <<>> /\ sock'.want = 2 /\ Spoken!Buffered(sock') = Slice(n, 1, b)
             \/ b >= 2 /\ sock'.out = Slice(n, 1, 2) /\ sock'.want = 0 /\ Spoken!Buffered(sock') = Slice(n, 3, b)
      BY <1>11, <1>12, <2>1, <3>1, <3>3, PrefixServed
    <3>5. Slice(n, 1, 2) # <<>>
      BY SliceFull
    <3>6. sock'.want = Wanted'
      BY <1>2, <1>11, <2>3, <3>4, <3>5 DEF Wanted
    <3>7. Read(n, b, whole)'
      BY <1>2, <2>3, <3>4 DEF Read
    <3> QED
      BY <1>11, <3>4, <3>6, <3>7
  <2>4. CASE dialogue.pc = "body"
    <3>1. Slice(n, 3, whole) # <<>>
      <4>1. 3 \in Nat /\ 3 <= whole
        BY <2>1
      <4> QED
        BY <2>1, <4>1, SliceFull
    <3>2. Spoken!Buffered(sock) = Slice(n, 3, a) /\ a >= 2 /\ s.want = whole - 2
      BY <1>2, <1>4, <1>6, <1>11, <2>2, <2>4, <3>1 DEF Read, Wanted
    <3>3. Spoken!Buffered(s) = Slice(n, 3, b)
      <4>1. 3 \in Nat /\ 3 <= a + 1
        BY <2>1, <3>2
      <4>2. Cut(n, 3, a, b)
        BY <2>1, <4>1, SliceSplits
      <4> QED
        BY <1>13, <3>2, <4>2 DEF Cut
    <3>4. /\ sock' \in Sockets /\ sock'.failed = s.failed
          /\ \/ b < whole /\ sock'.out = <<>> /\ sock'.want = whole - 2 /\ Spoken!Buffered(sock') = Slice(n, 3, b)
             \/ b = whole /\ sock'.out = Slice(n, 3, whole) /\ sock'.want = 0 /\ Spoken!Buffered(sock') = <<>>
      <4>1. b \in 2..whole
        BY <2>1, <3>2
      <4>2. s \in Sockets /\ s.out = <<>> /\ s.want = whole - 2
        BY <1>11, <3>2
      <4>3. LET t == Spoken!Served(s)
            IN  /\ t \in Sockets /\ t.failed = s.failed /\ t.destroyed = s.destroyed
                /\ \/ /\ b < whole /\ t.out = <<>> /\ t.want = whole - 2
                      /\ Spoken!Buffered(t) = Slice(n, 3, b)
                   \/ b = whole /\ t.out = Slice(n, 3, whole) /\ t.want = 0 /\ Spoken!Buffered(t) = <<>>
        BY <2>1, <3>3, <4>1, <4>2, BodyServed
      <4> QED
        BY <1>12, <4>3, Zenon
    <3>5. sock'.want = Wanted'
      BY <1>2, <1>11, <2>2, <2>4, <3>1, <3>4 DEF Wanted
    <3>6. Read(n, b, whole)'
      BY <1>2, <2>1, <2>4, <3>2, <3>4 DEF Read
    <3> QED
      BY <1>11, <3>4, <3>5, <3>6
  <2> QED
    BY <1>3, <1>4, <2>3, <2>4
<1>15. SessionTypes'
  <2>1. flight' \in Seq(StreamBytes)
    <3>1. b + 1 \in Nat /\ whole \in Nat /\ b + 1 <= whole + 1
      BY <1>8
    <3> QED
      BY <1>9, <3>1, SliceIs
  <2> QED
    BY <1>1, <1>2, <1>14, <2>1 DEF SessionTypes
<1>16. InLine' /\ \A c \in SessionCallers : Told(asked[c], server.done)'
  BY <1>2, CallsStand
<1>17. Numbered'
  BY <1>1, <1>2 DEF Numbered
<1>18. Exchanging'
  <2>1. Answered'
    <3>1. Answers(server.frames[n], asked[queue[1]].method, dialogue.next - 1 \in server.done)'
      BY <1>2, <1>6 DEF Answers
    <3>2. \E d \in 0..whole : Read(n, d, whole)' /\ flight' = IF sock'.failed THEN <<>> ELSE Slice(n, d + 1, whole)
      BY <1>2, <1>9, <1>14
    <3> QED
      BY <1>2, <1>6, <3>1, <3>2 DEF Answered
  <2> QED
    BY <1>1, <1>2, <1>4, <1>14, <2>1 DEF Exchanging
<1> QED
  BY <1>15, <1>16, <1>17, <1>18 DEF SessionInv

AskedTypes ==
    [SessionCallers ->
       [method : SessionMethods \cup {"none"}, pc : {"done", "waits", "sent"}, id : Nat, out : Outcomes]]

\* The call at the head of the line ends.
LEMMA EndsIs ==
  ASSUME SessionTypes, InLine, queue # <<>>, NEW out \in Outcomes, Spoken!Ends(Head(queue), out),
         dialogue'.pc = "idle", dialogue'.next \in Nat, dialogue.next <= dialogue'.next
  PROVE  /\ asked' \in AskedTypes /\ queue' \in Seq(SessionCallers) /\ InLine'
         /\ queue[1] \in SessionCallers
         /\ \A c \in SessionCallers : c # queue[1] => asked'[c] = asked[c]
         /\ LET call == asked[queue[1]]
            IN  asked'[queue[1]] = [method |-> call.method, pc |-> "done", id |-> call.id, out |-> out]
<1>1. queue \in Seq(SessionCallers) /\ asked \in AskedTypes /\ dialogue.next \in Nat
  BY PartsTyped DEF SessionTypes, AskedTypes
<1>2. Head(queue) = queue[1] /\ queue[1] \in SessionCallers /\ Len(queue) \in Nat /\ 1 \in 1..Len(queue)
  BY <1>1
<1> DEFINE first == queue[1]
           call == asked[first]
           ended == [method |-> call.method, pc |-> "done", id |-> call.id, out |-> out]
<1>3. /\ call \in [method : SessionMethods \cup {"none"}, pc : {"done", "waits", "sent"}, id : Nat, out : Outcomes]
  BY <1>1, <1>2 DEF AskedTypes
<1>4. asked' = [asked EXCEPT ![first] = ended] /\ queue' = Tail(queue)
  <2>1. asked' = [asked EXCEPT ![first] = [call EXCEPT !.pc = "done", !.out = out]] /\ queue' = Tail(queue)
    BY <1>2 DEF Spoken!Ends
  <2>2. [call EXCEPT !.pc = "done", !.out = out] = ended
    <3> HIDE DEF call
    <3>1. PICK m, p, x, o : call = [method |-> m, pc |-> p, id |-> x, out |-> o]
      BY <1>3
    <3>4. PICK half : half = [method |-> m, pc |-> "done", id |-> x, out |-> o]
      OBVIOUS
    <3>5. [call EXCEPT !.pc = "done"] = half
      BY <3>1, <3>4
    <3>6. [half EXCEPT !.out = out] = [method |-> m, pc |-> "done", id |-> x, out |-> out]
      BY <3>4
    <3>2. [call EXCEPT !.pc = "done", !.out = out] = [method |-> m, pc |-> "done", id |-> x, out |-> out]
      BY <3>5, <3>6, Zenon
    <3>3. call.method = m /\ call.id = x
      BY <3>1
    <3> QED
      BY <3>2, <3>3
  <2> QED
    BY <2>1, <2>2
<1>5. /\ ended \in [method : SessionMethods \cup {"none"}, pc : {"done", "waits", "sent"}, id : Nat, out : Outcomes]
      /\ ended.pc = "done" /\ ended.id = call.id
  <2>1. call.method \in SessionMethods \cup {"none"} /\ call.id \in Nat
    BY <1>3
  <2> HIDE DEF call
  <2>2. PICK m, x : m = call.method /\ x = call.id
    OBVIOUS
  <2>3. ended = [method |-> m, pc |-> "done", id |-> x, out |-> out]
    BY <2>2
  <2> HIDE DEF ended
  <2> QED
    BY <2>1, <2>2, <2>3
<1> HIDE DEF ended, first
<1>6. /\ asked' \in AskedTypes /\ asked'[first] = ended
      /\ \A c \in SessionCallers : c # first => asked'[c] = asked[c]
  BY <1>1, <1>2, <1>4, <1>5 DEF AskedTypes, first
<1>7. /\ queue' \in Seq(SessionCallers) /\ Len(queue') = Len(queue) - 1
      /\ \A i \in 1..Len(queue) - 1 : queue'[i] = queue[i + 1]
  BY <1>1, <1>4
<1>8. /\ \A i, j \in 1..Len(queue) : queue[i] = queue[j] => i = j
      /\ \A c \in SessionCallers : asked[c].pc = "done" <=> \A i \in 1..Len(queue) : queue[i] # c
      /\ \A i \in 1..Len(queue) :
          /\ asked[queue[i]].pc = IF i = 1 /\ dialogue.pc # "idle" THEN "sent" ELSE "waits"
          /\ asked[queue[i]].method \in SessionMethods
      /\ \A c \in SessionCallers : asked[c].id < dialogue.next
  BY DEF InLine
<1>9. InLine'
  <2>1. ASSUME NEW i \in 1..Len(queue) - 1
        PROVE  /\ i + 1 \in 1..Len(queue) /\ queue'[i] = queue[i + 1] /\ queue'[i] # first
               /\ queue[i + 1] \in SessionCallers /\ asked'[queue'[i]] = asked[queue[i + 1]]
    <3>1. i + 1 \in 1..Len(queue) /\ queue'[i] = queue[i + 1] /\ i + 1 # 1
      BY <1>2, <1>7
    <3>2. queue[i + 1] # queue[1]
      BY <1>2, <1>8, <3>1
    <3>3. queue[i + 1] \in SessionCallers
      BY <1>1, <3>1
    <3> QED
      BY <1>6, <3>1, <3>2, <3>3 DEF first
  <2>2. ASSUME NEW i \in 1..Len(queue) - 1, NEW j \in 1..Len(queue) - 1, queue'[i] = queue'[j] PROVE i = j
    <3>1. i + 1 = j + 1
      BY <1>8, <2>1, <2>2
    <3> QED
      BY <3>1
  <2>3. ASSUME NEW c \in SessionCallers
        PROVE  asked'[c].pc = "done" <=> \A i \in 1..Len(queue) - 1 : queue'[i] # c
    <3>1. CASE c = first
      BY <1>5, <1>6, <2>1, <3>1
    <3>2. CASE c # first
      <4>1. asked'[c] = asked[c]
        BY <1>6, <3>2
      <4>2. (\A i \in 1..Len(queue) : queue[i] # c) <=> (\A i \in 1..Len(queue) - 1 : queue'[i] # c)
        <5>1. ASSUME \A i \in 1..Len(queue) : queue[i] # c PROVE \A i \in 1..Len(queue) - 1 : queue'[i] # c
          BY <2>1, <5>1
        <5>2. ASSUME \A i \in 1..Len(queue) - 1 : queue'[i] # c, NEW i \in 1..Len(queue) PROVE queue[i] # c
          <6>1. CASE i = 1
            BY <3>2, <6>1 DEF first
          <6>2. CASE i # 1
            <7>1. i - 1 \in 1..Len(queue) - 1 /\ (i - 1) + 1 = i
              BY <1>2, <6>2
            <7>2. queue'[i - 1] = queue[i]
              BY <1>7, <7>1
            <7> QED
              BY <5>2, <7>1, <7>2
          <6> QED
            BY <6>1, <6>2
        <5> QED
          BY <5>1, <5>2
      <4> QED
        BY <1>8, <4>1, <4>2
    <3> QED
      BY <3>1, <3>2
  <2>4. ASSUME NEW i \in 1..Len(queue) - 1
        PROVE  asked'[queue'[i]].pc = "waits" /\ asked'[queue'[i]].method \in SessionMethods
    <3>1. i + 1 \in 1..Len(queue) /\ i + 1 # 1 /\ asked'[queue'[i]] = asked[queue[i + 1]]
      BY <1>2, <2>1
    <3> QED
      BY <1>8, <3>1
  <2>5. ASSUME NEW c \in SessionCallers PROVE asked'[c].id < dialogue'.next
    <3>1. asked[c].id \in Nat /\ asked[c].id < dialogue.next
      BY <1>1, <1>8 DEF AskedTypes
    <3>2. asked'[c].id = asked[c].id
      BY <1>5, <1>6
    <3> QED
      BY <1>1, <3>1, <3>2
  <2> QED
    BY <1>7, <2>2, <2>3, <2>4, <2>5 DEF InLine
<1> QED
  BY <1>2, <1>6, <1>7, <1>9 DEF first, call, ended

LEMMA AbandonKeeps ==
  ASSUME SessionInv, Spoken!Abandon PROVE SessionInv'
<1>1. SessionTypes /\ InLine /\ Numbered /\ Exchanging /\ \A c \in SessionCallers : Told(asked[c], server.done)
  BY DEF SessionInv
<1>2. /\ dialogue.pc # "idle" /\ sock.failed /\ sock.out = <<>> /\ dialogue' = [dialogue EXCEPT !.pc = "idle"]
      /\ Spoken!Ends(Head(queue), "closed") /\ UNCHANGED <<sock, flight, server>>
  BY DEF Spoken!Abandon, Spoken!Running, Spoken!Idle
<1>3. queue # <<>> /\ (Unanswered \/ Answered) /\ sock.want = Wanted /\ server.closed
  BY <1>1, <1>2 DEF Exchanging
<1>4. dialogue' = [pc |-> "idle", next |-> dialogue.next] /\ dialogue.next \in Nat /\ dialogue.next # 0
  BY <1>1, <1>2, PartsTyped
<1>5. dialogue'.pc = "idle" /\ dialogue'.next = dialogue.next /\ dialogue.next <= dialogue'.next
  BY <1>4
<1>6. /\ asked' \in AskedTypes /\ queue' \in Seq(SessionCallers) /\ InLine' /\ queue[1] \in SessionCallers
      /\ \A c \in SessionCallers : c # queue[1] => asked'[c] = asked[c]
      /\ LET call == asked[queue[1]]
         IN  asked'[queue[1]] = [method |-> call.method, pc |-> "done", id |-> call.id, out |-> "closed"]
  <2>1. "closed" \in Outcomes
    BY DEF Outcomes
  <2> QED
    BY <1>1, <1>2, <1>3, <1>4, <1>5, <2>1, EndsIs
<1>7. SessionTypes'
  <2>1. dialogue' \in [pc : {"idle", "prefix", "body"}, next : Nat \ {0}]
    BY <1>4
  <2> QED
    BY <1>1, <1>2, <1>6, <2>1 DEF SessionTypes, AskedTypes
<1>8. Numbered'
  BY <1>1, <1>2, <1>5 DEF Numbered
<1>9. Exchanging'
  <2>1. Wanted' = 0 /\ Wanted = 0
    BY <1>2, <1>5 DEF Wanted
  <2>2. Len(server.inbox) <= 1
    <3>1. CASE Unanswered
      <4>1. server.inbox = <<>> \/ Len(server.inbox) = 1
        BY <3>1 DEF Unanswered
      <4>2. server.inbox \in Seq(SessionRequests)
        BY <1>1, PartsTyped
      <4> QED
        BY <4>1, <4>2, AtMostOne
    <3>2. CASE Answered
      <4>1. server.inbox = <<>>
        BY <3>2 DEF Answered
      <4> QED
        BY <4>1
    <3> QED
      BY <1>3, <3>1, <3>2
  <2>3. Spoken!Dead(sock)
    BY <1>2 DEF Spoken!Dead
  <2>4. sock'.want = 0 /\ sock'.failed /\ sock'.out = <<>> /\ server'.closed /\ Len(server'.inbox) <= 1 /\ Spoken!Dead(sock')
    BY <1>2, <1>3, <2>1, <2>2, <2>3
  <2> QED
    BY <1>5, <2>1, <2>4 DEF Exchanging
<1>10. ASSUME NEW c \in SessionCallers PROVE Told(asked[c], server.done)'
  <2>1. CASE c = queue[1]
    BY <1>6, <2>1 DEF Told
  <2>2. CASE c # queue[1]
    BY <1>1, <1>2, <1>6, <2>2 DEF Told
  <2> QED
    BY <2>1, <2>2
<1> QED
  BY <1>1, <1>6, <1>7, <1>8, <1>9, <1>10 DEF SessionInv

LEMMA CallKeeps ==
  ASSUME SessionInv, NEW c \in SessionCallers, NEW method \in SessionMethods, Spoken!Call(c, method)
  PROVE  SessionInv'
<1>1. SessionTypes /\ InLine /\ Numbered /\ Exchanging /\ \A d \in SessionCallers : Told(asked[d], server.done)
  BY DEF SessionInv
<1> DEFINE call == [method |-> method, pc |-> "waits", id |-> 0, out |-> "none"]
<1>2. /\ asked[c].pc = "done" /\ asked' = [asked EXCEPT ![c] = call]
      /\ queue' = Append(queue, c) /\ UNCHANGED <<dialogue, sock, flight, server>>
  <2>1. [Spoken!NoCall EXCEPT !.method = method, !.pc = "waits"] = call
    <3>1. PICK half : half = [method |-> method, pc |-> "done", id |-> 0, out |-> "none"]
      OBVIOUS
    <3>2. [Spoken!NoCall EXCEPT !.method = method] = half
      BY <3>1 DEF Spoken!NoCall
    <3>3. [half EXCEPT !.pc = "waits"] = call
      BY <3>1
    <3> QED
      BY <3>2, <3>3, Zenon
  <2> QED
    BY <2>1 DEF Spoken!Call
<1>3. /\ queue \in Seq(SessionCallers) /\ asked \in AskedTypes /\ dialogue.next \in Nat /\ dialogue.next # 0
      /\ Len(queue) \in Nat
  BY <1>1, PartsTyped DEF SessionTypes, AskedTypes
<1>4. call \in [method : SessionMethods \cup {"none"}, pc : {"done", "waits", "sent"}, id : Nat, out : Outcomes]
  BY DEF Outcomes
<1>5. call.pc = "waits" /\ call.id = 0 /\ call.out = "none" /\ call.method = method
  OBVIOUS
<1> HIDE DEF call
<1>6. /\ asked' \in AskedTypes /\ asked'[c] = call
      /\ \A d \in SessionCallers : d # c => asked'[d] = asked[d]
  BY <1>2, <1>3, <1>4 DEF AskedTypes
<1>7. /\ queue' \in Seq(SessionCallers) /\ Len(queue') = Len(queue) + 1 /\ queue'[Len(queue) + 1] = c
      /\ \A i \in 1..Len(queue) : queue'[i] = queue[i]
  BY <1>2, <1>3
<1>8. ASSUME NEW i \in 1..Len(queue)
      PROVE  queue[i] \in SessionCallers /\ queue[i] # c /\ queue'[i] = queue[i] /\ asked'[queue'[i]] = asked[queue[i]]
  <2>1. queue[i] \in SessionCallers
    BY <1>3
  <2>2. queue[i] # c
    BY <1>1, <1>2 DEF InLine
  <2> QED
    BY <1>6, <1>7, <2>1, <2>2
<1>9. SessionTypes'
  BY <1>1, <1>2, <1>6, <1>7 DEF SessionTypes, AskedTypes
<1>10. dialogue.pc # "idle" => Len(queue) # 0 /\ queue # <<>> /\ 1 \in 1..Len(queue)
  BY <1>1, <1>3 DEF Exchanging
<1>11. InLine'
  <2> DEFINE n == Len(queue)
  <2>1. n \in Nat /\ \A i \in 1..n + 1 : i = n + 1 \/ i \in 1..n
    BY <1>3
  <2>2. Len(queue') = n + 1 /\ queue'[n + 1] = c /\ \A i \in 1..n : queue'[i] = queue[i] /\ queue'[i] # c
    BY <1>7, <1>8
  <2>3. \A i, j \in 1..n : queue[i] = queue[j] => i = j
    BY <1>1 DEF InLine
  <2>4. \A i \in 1..n : /\ asked'[queue'[i]].pc = IF i = 1 /\ dialogue.pc # "idle" THEN "sent" ELSE "waits"
                        /\ asked'[queue'[i]].method \in SessionMethods
    BY <1>1, <1>8 DEF InLine
  <2>5. n = 0 => dialogue.pc = "idle"
    BY <1>10
  <2>6. \A d \in SessionCallers : asked[d].pc = "done" <=> \A i \in 1..n : queue[i] # d
    BY <1>1 DEF InLine
  <2> HIDE DEF n
  <2>7. \A i, j \in 1..n + 1 : queue'[i] = queue'[j] => i = j
    BY <2>1, <2>2, <2>3
  <2>8. \A d \in SessionCallers : asked'[d].pc = "done" <=> \A i \in 1..n + 1 : queue'[i] # d
    <3>1. ASSUME NEW d \in SessionCallers
          PROVE  asked'[d].pc = "done" <=> \A i \in 1..n + 1 : queue'[i] # d
      <4>1. n + 1 \in 1..n + 1 /\ \A i \in 1..n : i \in 1..n + 1
        BY <2>1
      <4>2. CASE d = c
        BY <1>5, <1>6, <2>2, <4>1, <4>2
      <4>3. CASE d # c
        <5>1. asked'[d] = asked[d]
          BY <1>6, <4>3
        <5>2. (\A i \in 1..n + 1 : queue'[i] # d) <=> (\A i \in 1..n : queue[i] # d)
          BY <2>1, <2>2, <4>1, <4>3
        <5> QED
          BY <2>6, <5>1, <5>2
      <4> QED
        BY <4>2, <4>3
    <3> QED
      BY <3>1
  <2>9. \A i \in 1..n + 1 : /\ asked'[queue'[i]].pc = IF i = 1 /\ dialogue.pc # "idle" THEN "sent" ELSE "waits"
                            /\ asked'[queue'[i]].method \in SessionMethods
    <3>1. ASSUME NEW i \in 1..n + 1
          PROVE  /\ asked'[queue'[i]].pc = IF i = 1 /\ dialogue.pc # "idle" THEN "sent" ELSE "waits"
                 /\ asked'[queue'[i]].method \in SessionMethods
      <4>1. CASE i \in 1..n
        BY <2>4, <4>1
      <4>2. CASE i = n + 1
        <5>1. asked'[queue'[i]] = call
          BY <1>6, <2>2, <4>2
        <5>2. ~(i = 1 /\ dialogue.pc # "idle")
          BY <2>1, <2>5, <4>2
        <5> QED
          BY <1>5, <5>1, <5>2
      <4> QED
        BY <2>1, <4>1, <4>2
    <3> QED
      BY <3>1
  <2>10. ASSUME NEW d \in SessionCallers PROVE asked'[d].id < dialogue'.next
    <3>1. CASE d = c
      BY <1>2, <1>3, <1>5, <1>6, <3>1
    <3>2. CASE d # c
      BY <1>1, <1>2, <1>6, <3>2 DEF InLine
    <3> QED
      BY <3>1, <3>2
  <2> QED
    BY <1>2, <2>2, <2>7, <2>8, <2>9, <2>10 DEF InLine
<1>12. Numbered'
  BY <1>1, <1>2 DEF Numbered
<1>13. Exchanging'
  <2>1. Wanted' = Wanted
    BY <1>2 DEF Wanted
  <2>2. CASE dialogue.pc = "idle"
    <3>1. Spoken!Dead(sock') = Spoken!Dead(sock) /\ Spoken!Buffered(sock') = Spoken!Buffered(sock)
      BY <1>2
    <3> QED
      BY <1>1, <1>2, <2>1, <2>2, <3>1 DEF Exchanging
  <2>3. CASE dialogue.pc # "idle"
    <3>1. /\ queue'[1] = queue[1] /\ asked'[queue[1]] = asked[queue[1]] /\ queue' # <<>> /\ queue[1] # c
          /\ queue[1] \in SessionCallers
      <4>1. queue' # <<>>
        BY <1>3, <1>7
      <4> QED
        BY <1>8, <1>10, <2>3, <4>1
    <3>2. /\ asked[queue[1]].id = dialogue.next - 1 /\ Spoken!Encodes(asked[queue[1]].method) /\ dialogue.next > 1
          /\ \A d \in SessionCallers : d # queue[1] => asked[d].id < dialogue.next - 1
          /\ Unanswered \/ Answered
      BY <1>1, <2>3 DEF Exchanging
    <3>3. Unanswered => Unanswered'
      BY <1>2, <3>1 DEF Unanswered
    <3>4. Answered => Answered'
      <4>1. \A n, a, whole : Read(n, a, whole) => Read(n, a, whole)'
        BY <1>2 DEF Read
      <4> QED
        BY <1>2, <3>1, <4>1 DEF Answered, Answers
    <3>5. ASSUME NEW d \in SessionCallers, d # queue[1] PROVE asked'[d].id < dialogue.next - 1
      <4>1. CASE d = c
        BY <1>3, <1>5, <1>6, <3>2, <4>1
      <4>2. CASE d # c
        BY <1>6, <3>2, <3>5, <4>2
      <4> QED
        BY <4>1, <4>2
    <3>6. /\ sock'.want = Wanted' /\ (sock'.failed => sock'.out = <<>> /\ server'.closed)
      BY <1>1, <1>2, <2>1 DEF Exchanging
    <3> QED
      BY <1>2, <2>3, <3>1, <3>2, <3>3, <3>4, <3>5, <3>6 DEF Exchanging
  <2> QED
    BY <2>2, <2>3
<1>14. ASSUME NEW d \in SessionCallers PROVE Told(asked[d], server.done)'
  <2>1. CASE d = c
    BY <1>5, <1>6, <2>1 DEF Told
  <2>2. CASE d # c
    BY <1>1, <1>2, <1>6, <2>2 DEF Told
  <2> QED
    BY <2>1, <2>2
<1> QED
  BY <1>9, <1>11, <1>12, <1>13, <1>14 DEF SessionInv

\* A call the core refuses, or that finds the socket dead, ends alone;
FailsAlone(out) ==
    /\ out \in {"closed", "not encoded"}
    /\ queue # <<>> /\ dialogue.pc = "idle" /\ dialogue' = [pc |-> "idle", next |-> dialogue.next + 1]
    /\ Spoken!Ends(Head(queue), out) /\ UNCHANGED <<sock, flight, server>>

LEMMA FailsAloneKeeps ==
  ASSUME SessionInv, NEW out \in Outcomes, FailsAlone(out)
  PROVE  SessionInv'
<1>9. queue # <<>> /\ dialogue.pc = "idle" /\ dialogue' = [pc |-> "idle", next |-> dialogue.next + 1]
  BY DEF FailsAlone
<1>10. Spoken!Ends(Head(queue), out)
  BY DEF FailsAlone
<1>11. sock' = sock /\ flight' = flight /\ server' = server
  BY DEF FailsAlone
<1>1. SessionTypes /\ InLine /\ Numbered /\ Exchanging /\ \A d \in SessionCallers : Told(asked[d], server.done)
  BY DEF SessionInv
<1>2. dialogue.next \in Nat
  BY <1>1, PartsTyped
<1>3. dialogue'.pc = "idle" /\ dialogue'.next = dialogue.next + 1 /\ dialogue'.next \in Nat /\ dialogue.next <= dialogue'.next
  BY <1>2, <1>9
<1>4. /\ asked' \in AskedTypes /\ queue' \in Seq(SessionCallers) /\ InLine' /\ queue[1] \in SessionCallers
      /\ \A c \in SessionCallers : c # queue[1] => asked'[c] = asked[c]
      /\ LET call == asked[queue[1]]
         IN  asked'[queue[1]] = [method |-> call.method, pc |-> "done", id |-> call.id, out |-> out]
  BY <1>1, <1>3, <1>9, <1>10, EndsIs
<1>5. SessionTypes'
  <2>1. dialogue' \in [pc : {"idle", "prefix", "body"}, next : Nat \ {0}]
    BY <1>2, <1>9
  <2> QED
    BY <1>1, <1>4, <1>11, <2>1 DEF SessionTypes, AskedTypes
<1>6. Numbered'
  <2>1. \A id \in server.done : id \in 1..dialogue.next
    BY <1>1, <1>2 DEF Numbered
  <2>2. server.frames \in Seq(SessionReplies)
    BY <1>1, PartsTyped
  <2>3. ASSUME NEW n \in 1..Len(server.frames) PROVE server.frames[n].id < dialogue.next + 1 /\ server.frames[n].id # dialogue.next
    <3>1. server.frames[n] \in SessionReplies
      BY <2>2
    <3>2. server.frames[n].id \in Nat
      BY <3>1 DEF SessionReplies
    <3>3. server.frames[n].id < dialogue.next
      BY <1>1 DEF Numbered
    <3>4. PICK id \in Nat : id = server.frames[n].id
      BY <3>2
    <3> QED
      BY <1>2, <3>3, <3>4
  <2>4. dialogue'.next - 1 = dialogue.next /\ dialogue'.next = dialogue.next + 1
    BY <1>2, <1>3
  <2> QED
    BY <1>11, <2>1, <2>3, <2>4 DEF Numbered
<1>7. Exchanging'
  <2>1. Wanted' = 0 /\ Wanted = 0
    BY <1>3, <1>9 DEF Wanted
  <2>2. Spoken!Dead(sock') = Spoken!Dead(sock) /\ Spoken!Buffered(sock') = Spoken!Buffered(sock)
    BY <1>11
  <2> QED
    BY <1>1, <1>3, <1>9, <1>11, <2>1, <2>2 DEF Exchanging
<1>8. ASSUME NEW c \in SessionCallers PROVE Told(asked[c], server.done)'
  <2>1. CASE c = queue[1]
    <3>1. /\ out # "value" /\ out # "unexpected"
          /\ out # "null" /\ out # "gate" /\ out # "breaker" /\ out # "refused"
      BY DEF FailsAlone
    <3> QED
      <4>1. asked'[c].pc = "done" /\ asked'[c].out = out
        BY <1>4, <2>1
      <4> QED
        BY <3>1, <4>1, Zenon DEF Told
  <2>2. CASE c # queue[1]
    BY <1>1, <1>4, <1>11, <2>2 DEF Told
  <2> QED
    BY <2>1, <2>2
<1> QED
  BY <1>4, <1>5, <1>6, <1>7, <1>8 DEF SessionInv

\* any other is sent, and its exchange is under way.
LEMMA SentKeeps ==
  ASSUME SessionInv, queue # <<>>, dialogue.pc = "idle", ~Spoken!Dead(sock), Spoken!Encodes(asked[queue[1]].method),
         dialogue' = [pc |-> "prefix", next |-> dialogue.next + 1],
         asked' = [asked EXCEPT ![queue[1]] = [asked[queue[1]] EXCEPT !.id = dialogue.next, !.pc = "sent"]],
         NEW request, request = [id |-> dialogue.next, op |-> Spoken!Op[asked[queue[1]].method], from |-> queue[1]],
         NEW inbox, inbox = IF server.closed THEN <<>> ELSE <<request>>,
         server' = [inbox |-> inbox, frames |-> server.frames, closed |-> server.closed, done |-> server.done],
         sock' = Spoken!ReadBytes(sock, 2), UNCHANGED <<queue, flight>>
  PROVE  SessionInv'
<1>1. SessionTypes /\ InLine /\ Numbered /\ Exchanging /\ \A d \in SessionCallers : Told(asked[d], server.done)
  BY DEF SessionInv
<1>2. /\ queue \in Seq(SessionCallers) /\ asked \in AskedTypes /\ dialogue.next \in Nat /\ dialogue.next # 0
  BY <1>1, PartsTyped DEF SessionTypes, AskedTypes
<1>3. 1 \in 1..Len(queue) /\ queue[1] \in SessionCallers
  BY <1>2
<1> DEFINE first == queue[1]
<1>4. PICK old : old = asked[first]
  OBVIOUS
<1>5. PICK call : call = [method |-> old.method, pc |-> "sent", id |-> dialogue.next, out |-> old.out]
  OBVIOUS
<1>6. old \in [method : SessionMethods \cup {"none"}, pc : {"done", "waits", "sent"}, id : Nat, out : Outcomes]
  BY <1>2, <1>3, <1>4 DEF AskedTypes
<1>7. old.pc = "waits" /\ old.method \in SessionMethods /\ old.out = "none"
  <2>1. old.pc = "waits" /\ old.method \in SessionMethods
    BY <1>1, <1>3, <1>4 DEF InLine
  <2> QED
    BY <1>1, <1>3, <1>4, <2>1 DEF Told
<1>8. asked' = [asked EXCEPT ![first] = call]
  <2>1. PICK m, p, x, o : old = [method |-> m, pc |-> p, id |-> x, out |-> o]
    BY <1>6
  <2>2. PICK half : half = [method |-> m, pc |-> p, id |-> dialogue.next, out |-> o]
    OBVIOUS
  <2>3. [old EXCEPT !.id = dialogue.next] = half
    BY <2>1, <2>2
  <2>4. [half EXCEPT !.pc = "sent"] = [method |-> m, pc |-> "sent", id |-> dialogue.next, out |-> o]
    BY <2>2
  <2>5. [old EXCEPT !.id = dialogue.next, !.pc = "sent"] = [method |-> m, pc |-> "sent", id |-> dialogue.next, out |-> o]
    BY <2>3, <2>4, Zenon
  <2>6. old.method = m /\ old.out = o
    BY <2>1
  <2>7. [old EXCEPT !.id = dialogue.next, !.pc = "sent"] = call
    BY <1>5, <2>5, <2>6
  <2> QED
    BY <1>4, <2>7
<1>9. call \in [method : SessionMethods \cup {"none"}, pc : {"done", "waits", "sent"}, id : Nat, out : Outcomes]
      /\ call.pc = "sent" /\ call.id = dialogue.next /\ call.out = "none" /\ call.method = old.method
  <2>1. PICK m \in SessionMethods, o \in Outcomes : m = old.method /\ o = old.out
    BY <1>6, <1>7
  <2>2. call = [method |-> m, pc |-> "sent", id |-> dialogue.next, out |-> o]
    BY <1>5, <2>1
  <2> QED
    BY <1>2, <1>7, <2>1, <2>2
<1> HIDE DEF first
<1>10. /\ asked' \in AskedTypes /\ asked'[first] = call
       /\ \A d \in SessionCallers : d # first => asked'[d] = asked[d]
  BY <1>2, <1>3, <1>8, <1>9 DEF AskedTypes, first
<1>11. dialogue'.pc = "prefix" /\ dialogue'.next = dialogue.next + 1 /\ dialogue'.next - 1 = dialogue.next
  BY <1>2
<1>12. /\ ~sock.failed /\ sock.out = <<>> /\ flight = <<>> /\ Spoken!Buffered(sock) = <<>>
       /\ server.inbox = <<>>
  <2>1. ~sock.failed
    BY DEF Spoken!Dead
  <2> QED
    BY <1>1, <2>1 DEF Exchanging
<1>13. sock' = [chunks |-> sock.chunks, want |-> 2, out |-> sock.out, failed |-> sock.failed, destroyed |-> sock.destroyed]
  <2>1. sock \in Sockets
    BY <1>1 DEF SessionTypes
  <2>2. PICK s : s = [sock EXCEPT !.want = 2]
    OBVIOUS
  <2>3. s = [chunks |-> sock.chunks, want |-> 2, out |-> sock.out, failed |-> sock.failed, destroyed |-> sock.destroyed]
    BY <1>1, <2>2, PartsTyped
  <2>4. s \in Sockets /\ s.want = 2 /\ s.chunks = sock.chunks
    BY <1>1, <2>3, PartsTyped DEF Sockets
  <2>5. Spoken!Buffered(s) = <<>>
    BY <1>12, <2>4 DEF Spoken!Buffered
  <2>6. Len(Spoken!Buffered(s)) < s.want
    <3>1. Len(Spoken!Buffered(s)) = 0
      BY <2>5
    <3> QED
      BY <2>4, <3>1
  <2>7. Spoken!Served(s) = s
    BY <2>4, <2>6, ServedIs
  <2> QED
    BY <2>2, <2>3, <2>7 DEF Spoken!ReadBytes
<1>14. sock'.want = 2 /\ sock'.out = <<>> /\ ~sock'.failed /\ Spoken!Buffered(sock') = <<>> /\ sock' \in Sockets
  <2>1. sock'.want = 2 /\ sock'.out = sock.out /\ sock'.failed = sock.failed /\ sock'.chunks = sock.chunks
    BY <1>13
  <2>2. Spoken!Buffered(sock') = Spoken!Buffered(sock)
    BY <2>1 DEF Spoken!Buffered
  <2>3. sock' \in Sockets
    BY <1>1, <1>13, PartsTyped DEF Sockets
  <2> QED
    BY <1>12, <2>1, <2>2, <2>3
<1>16. request \in SessionRequests /\ request.id = dialogue.next /\ request.op = Spoken!Op[old.method]
  <2>1. Spoken!Op[old.method] \in {Spoken!Op[m] : m \in SessionMethods}
    BY <1>7
  <2>2. PICK op \in {Spoken!Op[m] : m \in SessionMethods} : op = Spoken!Op[old.method]
    BY <2>1
  <2>3. request = [id |-> dialogue.next, op |-> op, from |-> queue[1]]
    BY <1>4, <2>2 DEF first
  <2> QED
    BY <1>2, <1>3, <2>2, <2>3 DEF SessionRequests
<1>19. /\ server'.inbox = inbox /\ server'.frames = server.frames /\ server'.closed = server.closed
       /\ server'.done = server.done
  OBVIOUS
<1>20. SessionTypes'
  <2>1. inbox \in Seq(SessionRequests)
    BY <1>16
  <2>4. server.frames \in Seq(SessionReplies) /\ server.closed \in BOOLEAN /\ server.done \in SUBSET Nat
    BY <1>1, PartsTyped
  <2>2. server' \in [inbox : Seq(SessionRequests), frames : Seq(SessionReplies), closed : BOOLEAN, done : SUBSET Nat]
    BY <2>1, <2>4
  <2>3. dialogue' \in [pc : {"idle", "prefix", "body"}, next : Nat \ {0}]
    BY <1>2
  <2> QED
    BY <1>1, <1>10, <1>14, <2>2, <2>3 DEF SessionTypes, AskedTypes
<1>21. InLine'
  <2>1. \A i, j \in 1..Len(queue) : queue[i] = queue[j] => i = j
    BY <1>1 DEF InLine
  <2>2. ASSUME NEW i \in 1..Len(queue)
        PROVE  /\ asked'[queue[i]].pc = IF i = 1 THEN "sent" ELSE "waits"
               /\ asked'[queue[i]].method \in SessionMethods
    <3>1. CASE i = 1
      BY <1>7, <1>9, <1>10, <3>1 DEF first
    <3>2. CASE i # 1
      <4>1. queue[i] # first /\ queue[i] \in SessionCallers
        BY <1>2, <1>3, <2>1, <3>2 DEF first
      <4>2. asked[queue[i]].pc = "waits" /\ asked[queue[i]].method \in SessionMethods
        BY <1>1, <3>2 DEF InLine
      <4> QED
        BY <1>10, <3>2, <4>1, <4>2
    <3> QED
      BY <3>1, <3>2
  <2>3. ASSUME NEW c \in SessionCallers
        PROVE  (asked'[c].pc = "done" <=> \A i \in 1..Len(queue) : queue[i] # c) /\ asked'[c].id < dialogue'.next
    <3>1. (asked[c].pc = "done" <=> \A i \in 1..Len(queue) : queue[i] # c) /\ asked[c].id < dialogue.next
      BY <1>1 DEF InLine
    <3>2. asked[c].id \in Nat
      BY <1>2 DEF AskedTypes
    <3>3. CASE c = first
      <4>1. asked'[c] = call /\ queue[1] = c
        BY <1>10, <3>3 DEF first
      <4>2. call.id < dialogue.next + 1
        BY <1>2, <1>9
      <4> QED
        BY <1>3, <1>9, <1>11, <4>1, <4>2
    <3>4. CASE c # first
      BY <1>2, <1>10, <1>11, <3>1, <3>2, <3>4
    <3> QED
      BY <3>3, <3>4
  <2> QED
    BY <1>11, <2>1, <2>2, <2>3 DEF InLine
\* No earlier frame answers it: its number is new.
<1>22. \A n \in 1..Len(server.frames) : server.frames[n].id < dialogue.next + 1 /\ server.frames[n].id # dialogue.next
  <2>1. server.frames \in Seq(SessionReplies)
    BY <1>1, PartsTyped
  <2>2. ASSUME NEW n \in 1..Len(server.frames)
        PROVE  server.frames[n].id < dialogue.next + 1 /\ server.frames[n].id # dialogue.next
    <3>1. server.frames[n] \in SessionReplies
      BY <2>1
    <3>2. server.frames[n].id \in Nat
      BY <3>1 DEF SessionReplies
    <3>3. server.frames[n].id < dialogue.next
      BY <1>1 DEF Numbered
    <3>4. PICK id \in Nat : id = server.frames[n].id
      BY <3>2
    <3> QED
      BY <1>2, <3>3, <3>4
  <2> QED
    BY <2>2
<1>23. \A id \in server.done : id \in 1..dialogue.next /\ id # dialogue.next
  BY <1>1, <1>2 DEF Numbered
<1>24. Numbered'
  BY <1>11, <1>19, <1>22, <1>23 DEF Numbered
<1>25. Exchanging'
  <2>1. Wanted' = 2
    BY <1>11, <1>14 DEF Wanted
  <2>2. asked'[queue[1]] = call /\ Spoken!Encodes(call.method)
    BY <1>4, <1>9, <1>10 DEF first
  <2>3. ASSUME NEW c \in SessionCallers, c # queue[1] PROVE asked'[c].id < dialogue'.next - 1
    BY <1>1, <1>10, <1>11, <2>3 DEF InLine, first
  <2>4. Unanswered'
    <3>1. \/ inbox = <<>> /\ server.closed
          \/ Len(inbox) = 1 /\ inbox[1] = request
      OBVIOUS
    <3>2. dialogue.next \notin server.done
      BY <1>23
    <3>3. Spoken!Op[asked'[queue[1]].method] = request.op /\ request.id = dialogue.next
      BY <1>9, <1>16, <2>2
    <3>4. \/ server'.inbox = <<>> /\ server'.closed
          \/ /\ Len(server'.inbox) = 1 /\ server'.inbox[1].id = dialogue'.next - 1
             /\ server'.inbox[1].op = Spoken!Op[asked'[queue'[1]].method]
             /\ dialogue'.next - 1 \notin server'.done
      BY <1>11, <1>19, <3>1, <3>2, <3>3
    <3>5. \A n \in 1..Len(server'.frames) : server'.frames[n].id # dialogue'.next - 1
      BY <1>11, <1>19, <1>22
    <3> QED
      BY <1>11, <1>12, <1>14, <3>4, <3>5 DEF Unanswered
  <2>5. dialogue'.next > 1 /\ dialogue'.pc # "idle"
    BY <1>2, <1>11
  <2> QED
    BY <1>9, <1>11, <1>14, <2>1, <2>2, <2>3, <2>4, <2>5 DEF Exchanging
<1>26. ASSUME NEW c \in SessionCallers PROVE Told(asked[c], server.done)'
  <2>1. CASE c = first
    BY <1>9, <1>10, <2>1 DEF Told
  <2>2. CASE c # first
    BY <1>1, <1>10, <1>19, <2>2 DEF Told
  <2> QED
    BY <2>1, <2>2
<1> QED
  BY <1>20, <1>21, <1>24, <1>25, <1>26 DEF SessionInv

LEMMA ExchangeKeeps ==
  ASSUME SessionInv, Spoken!Exchange PROVE SessionInv'
<1>1. SessionTypes
  BY DEF SessionInv
<1>2. queue # <<>> /\ dialogue.pc = "idle" /\ UNCHANGED flight
  BY DEF Spoken!Exchange, Spoken!Running
<1>3. /\ queue \in Seq(SessionCallers) /\ dialogue = [pc |-> dialogue.pc, next |-> dialogue.next]
  BY <1>1, PartsTyped
<1>4. Head(queue) = queue[1]
  BY <1>2, <1>3
<1>5. CASE ~Spoken!Encodes(asked[queue[1]].method) \/ Spoken!Dead(sock)
  <2>1. PICK out : out = IF Spoken!Encodes(asked[queue[1]].method) THEN "closed" ELSE "not encoded"
    OBVIOUS
  <2>4. dialogue' = [pc |-> "idle", next |-> dialogue.next + 1]
    <3>1. dialogue' = [dialogue EXCEPT !.next = dialogue.next + 1]
      BY <1>4, <1>5 DEF Spoken!Exchange
    <3> QED
      BY <1>2, <1>3, <3>1
  <2>2. /\ Spoken!Ends(Head(queue), out)
        /\ UNCHANGED <<sock, server>>
    BY <1>4, <1>5, <2>1 DEF Spoken!Exchange
  <2>3. out \in Outcomes /\ out \in {"closed", "not encoded"}
    BY <2>1 DEF Outcomes
  <2>5. FailsAlone(out)
    BY <1>2, <2>2, <2>3, <2>4 DEF FailsAlone
  <2> QED
    BY <2>3, <2>5, FailsAloneKeeps
<1>6. CASE ~(~Spoken!Encodes(asked[queue[1]].method) \/ Spoken!Dead(sock))
  <2>1. PICK request : request = [id |-> dialogue.next, op |-> Spoken!Op[asked[queue[1]].method], from |-> queue[1]]
    OBVIOUS
  <2>2. PICK inbox : inbox = IF server.closed THEN <<>> ELSE <<request>>
    OBVIOUS
  <2>3. /\ dialogue' = [[dialogue EXCEPT !.next = dialogue.next + 1] EXCEPT !.pc = "prefix"]
        /\ asked' = [asked EXCEPT ![queue[1]] = [asked[queue[1]] EXCEPT !.id = dialogue.next, !.pc = "sent"]]
        /\ server' = [server EXCEPT !.inbox = IF server.closed THEN server.inbox ELSE Append(server.inbox, request)]
        /\ sock' = Spoken!ReadBytes(sock, 2) /\ UNCHANGED queue
    BY <1>4, <1>6, <2>1 DEF Spoken!Exchange, Spoken!PrefixLength
  <2>4. dialogue' = [pc |-> "prefix", next |-> dialogue.next + 1]
    <3>1. PICK half : half = [pc |-> dialogue.pc, next |-> dialogue.next + 1]
      OBVIOUS
    <3>2. [dialogue EXCEPT !.next = dialogue.next + 1] = half
      BY <1>3, <3>1
    <3>3. [half EXCEPT !.pc = "prefix"] = [pc |-> "prefix", next |-> dialogue.next + 1]
      BY <3>1
    <3> QED
      BY <2>3, <3>2, <3>3
  <2>5. server' = [inbox |-> inbox, frames |-> server.frames, closed |-> server.closed, done |-> server.done]
    <3>1. server.inbox = <<>>
      BY <1>2, <1>6 DEF SessionInv, Exchanging, Spoken!Dead
    <3>2. Append(<<>>, request) = <<request>>
      OBVIOUS
    <3>3. (IF server.closed THEN server.inbox ELSE Append(server.inbox, request)) = inbox
      BY <2>2, <3>1, <3>2
    <3>4. server' = [server EXCEPT !.inbox = inbox]
      BY <2>3, <3>3
    <3>5. server = [inbox |-> server.inbox, frames |-> server.frames, closed |-> server.closed, done |-> server.done]
      BY <1>1, PartsTyped
    <3> QED
      BY <3>4, <3>5
  <2> QED
    BY <1>2, <1>6, <2>1, <2>2, <2>3, <2>4, <2>5, SentKeeps
<1> QED
  BY <1>5, <1>6

\* An exchange whose reader has been given something has its answer, whole or a prefix of it.
LEMMA GivenIs ==
  ASSUME SessionInv, dialogue.pc # "idle", sock.out # <<>>
  PROVE  \E n \in Nat, whole \in {3, 4} :
           \E a \in 0..whole :
             /\ n = Len(server.frames) /\ n \in 1..Len(server.frames) /\ whole = 2 + server.frames[n].length
             /\ server.frames[n] \in SessionReplies /\ server.inbox = <<>> /\ server.frames # <<>>
             /\ Answers(server.frames[n], asked[queue[1]].method, dialogue.next - 1 \in server.done)
             /\ \/ /\ dialogue.pc = "prefix" /\ sock.out = Slice(n, 1, 2)
                   /\ Spoken!Buffered(sock) = Slice(n, 3, a) /\ a >= 2
                \/ /\ dialogue.pc = "body" /\ sock.out = Slice(n, 3, whole)
                   /\ Spoken!Buffered(sock) = <<>> /\ a = whole
             /\ sock.out[1] = <<n, IF dialogue.pc = "prefix" THEN 1 ELSE 3>>
             /\ flight = Slice(n, a + 1, whole) /\ ~sock.failed /\ sock.want = 0
<1>1. SessionTypes /\ Exchanging
  BY DEF SessionInv
<1>2. Answered /\ ~sock.failed /\ sock.want = 0
  BY <1>1 DEF Exchanging, Unanswered, Wanted
<1>3. PICK n \in Nat, whole \in {3, 4} :
        \E a \in 0..whole :
          /\ n = Len(server.frames) /\ n \in 1..Len(server.frames) /\ whole = 2 + server.frames[n].length
          /\ server.frames[n] \in SessionReplies /\ server.inbox = <<>> /\ server.frames # <<>>
          /\ Answers(server.frames[n], asked[queue[1]].method, dialogue.next - 1 \in server.done)
          /\ Read(n, a, whole) /\ flight = IF sock.failed THEN <<>> ELSE Slice(n, a + 1, whole)
  BY <1>1, <1>2, AnsweredIs
<1>4. PICK a \in 0..whole :
          /\ n = Len(server.frames) /\ n \in 1..Len(server.frames) /\ whole = 2 + server.frames[n].length
          /\ server.frames[n] \in SessionReplies /\ server.inbox = <<>> /\ server.frames # <<>>
          /\ Answers(server.frames[n], asked[queue[1]].method, dialogue.next - 1 \in server.done)
          /\ Read(n, a, whole) /\ flight = IF sock.failed THEN <<>> ELSE Slice(n, a + 1, whole)
  BY <1>3
<1>5. \/ /\ dialogue.pc = "prefix" /\ sock.out = Slice(n, 1, 2)
         /\ Spoken!Buffered(sock) = Slice(n, 3, a) /\ a >= 2
      \/ /\ dialogue.pc = "body" /\ sock.out = Slice(n, 3, whole)
         /\ Spoken!Buffered(sock) = <<>> /\ a = whole
  BY <1>4 DEF Read
<1>6. sock.out[1] = <<n, IF dialogue.pc = "prefix" THEN 1 ELSE 3>>
  <2>1. Slice(n, 1, 2)[1] = <<n, 1>>
    BY SliceFull
  <2>2. Slice(n, 3, whole)[1] = <<n, 3>>
    <3>1. 3 <= whole /\ 3 \in Nat /\ whole \in Nat
      OBVIOUS
    <3> QED
      BY <3>1, SliceFull
  <2> QED
    BY <1>5, <2>1, <2>2, Zenon
<1>7. flight = Slice(n, a + 1, whole)
  BY <1>2, <1>4
<1> QED
  BY <1>2, <1>4, <1>5, <1>6, <1>7, Zenon

LEMMA PrefixKeeps ==
  ASSUME SessionInv, Spoken!Resume, dialogue.pc = "prefix" PROVE SessionInv'
<1>1. SessionTypes /\ InLine /\ Numbered /\ Exchanging
  BY DEF SessionInv
<1>2. sock.out # <<>> /\ UNCHANGED <<flight, server, asked, queue>>
      /\ dialogue' = [dialogue EXCEPT !.pc = "body"]
      /\ sock' = Spoken!ReadBytes([sock EXCEPT !.out = <<>>], Spoken!BodyLength(sock.out))
  BY DEF Spoken!Resume
<1>3. PICK n \in Nat, whole \in {3, 4} :
        \E a \in 0..whole :
          /\ n = Len(server.frames) /\ n \in 1..Len(server.frames) /\ whole = 2 + server.frames[n].length
          /\ server.frames[n] \in SessionReplies /\ server.inbox = <<>> /\ server.frames # <<>>
          /\ Answers(server.frames[n], asked[queue[1]].method, dialogue.next - 1 \in server.done)
          /\ \/ /\ dialogue.pc = "prefix" /\ sock.out = Slice(n, 1, 2)
                /\ Spoken!Buffered(sock) = Slice(n, 3, a) /\ a >= 2
             \/ /\ dialogue.pc = "body" /\ sock.out = Slice(n, 3, whole)
                /\ Spoken!Buffered(sock) = <<>> /\ a = whole
          /\ sock.out[1] = <<n, IF dialogue.pc = "prefix" THEN 1 ELSE 3>>
          /\ flight = Slice(n, a + 1, whole) /\ ~sock.failed /\ sock.want = 0
  BY <1>2, GivenIs
<1>4. PICK a \in 0..whole :
          /\ n = Len(server.frames) /\ n \in 1..Len(server.frames) /\ whole = 2 + server.frames[n].length
          /\ server.frames[n] \in SessionReplies /\ server.inbox = <<>> /\ server.frames # <<>>
          /\ Answers(server.frames[n], asked[queue[1]].method, dialogue.next - 1 \in server.done)
          /\ Spoken!Buffered(sock) = Slice(n, 3, a) /\ a >= 2 /\ sock.out[1] = <<n, 1>>
          /\ flight = Slice(n, a + 1, whole) /\ ~sock.failed
  BY <1>3
<1>5. /\ dialogue' = [pc |-> "body", next |-> dialogue.next] /\ dialogue.next \in Nat /\ dialogue.next # 0
  BY <1>1, <1>2, PartsTyped
<1>6. dialogue'.pc = "body" /\ dialogue'.next = dialogue.next
  BY <1>5
<1>7. PICK length : length = server.frames[n].length
  OBVIOUS
<1>8. length \in {1, 2} /\ whole = 2 + length /\ length = whole - 2
  <2>1. length \in {1, 2}
    BY <1>4, <1>7 DEF SessionReplies
  <2> QED
    BY <1>4, <1>7, <2>1
<1>9. Spoken!BodyLength(sock.out) = length
  <2>1. sock.out[1][1] = n
    BY <1>4
  <2> QED
    BY <1>7, <2>1 DEF Spoken!BodyLength
<1>10. PICK s : s = [chunks |-> sock.chunks, want |-> length, out |-> <<>>, failed |-> sock.failed, destroyed |-> sock.destroyed]
  OBVIOUS
<1>11. sock' = Spoken!Served(s)
  <2>1. PICK half : half = [chunks |-> sock.chunks, want |-> sock.want, out |-> <<>>, failed |-> sock.failed, destroyed |-> sock.destroyed]
    OBVIOUS
  <2>2. [sock EXCEPT !.out = <<>>] = half
    <3>1. sock = [chunks |-> sock.chunks, want |-> sock.want, out |-> sock.out, failed |-> sock.failed,
                  destroyed |-> sock.destroyed]
      BY <1>1, PartsTyped
    <3> QED
      BY <2>1, <3>1
  <2>3. [half EXCEPT !.want = length] = s
    BY <1>10, <2>1
  <2> QED
    BY <1>2, <1>9, <2>2, <2>3 DEF Spoken!ReadBytes
<1>12. s \in Sockets /\ s.out = <<>> /\ s.want = whole - 2 /\ s.failed = sock.failed /\ s.chunks = sock.chunks
  <2>1. <<>> \in Seq(StreamBytes) /\ length \in Nat
    BY <1>8
  <2>2. s.out = <<>> /\ s.want = length /\ s.failed = sock.failed /\ s.chunks = sock.chunks
    BY <1>10
  <2>3. s \in Sockets
    BY <1>1, <1>10, <2>1, PartsTyped DEF Sockets
  <2> QED
    BY <1>8, <2>2, <2>3
<1>13. Spoken!Buffered(s) = Slice(n, 3, a)
  BY <1>4, <1>12 DEF Spoken!Buffered
<1>14. whole \in Nat /\ whole > 2 /\ a \in 2..whole
  BY <1>4
<1>15. LET t == Spoken!Served(s)
       IN  /\ t \in Sockets /\ t.failed = s.failed /\ t.destroyed = s.destroyed
           /\ \/ /\ a < whole /\ t.out = <<>> /\ t.want = whole - 2
                 /\ Spoken!Buffered(t) = Slice(n, 3, a)
              \/ a = whole /\ t.out = Slice(n, 3, whole) /\ t.want = 0 /\ Spoken!Buffered(t) = <<>>
  BY <1>12, <1>13, <1>14, BodyServed
<1>16. /\ sock' \in Sockets /\ sock'.failed = sock.failed
       /\ \/ a < whole /\ sock'.out = <<>> /\ sock'.want = length /\ Spoken!Buffered(sock') = Slice(n, 3, a)
          \/ a = whole /\ sock'.out = Slice(n, 3, whole) /\ sock'.want = 0 /\ Spoken!Buffered(sock') = <<>>
  BY <1>8, <1>11, <1>12, <1>15, Zenon
<1>17. SessionTypes'
  <2>1. dialogue' \in [pc : {"idle", "prefix", "body"}, next : Nat \ {0}]
    BY <1>5
  <2> QED
    BY <1>1, <1>2, <1>16, <2>1 DEF SessionTypes
<1>18. InLine'
  <2>1. dialogue'.pc # "idle" /\ dialogue.pc # "idle"
    BY <1>6
  <2> QED
    BY <1>1, <1>2, <1>6, <2>1 DEF InLine
<1>19. Numbered'
  BY <1>1, <1>2, <1>6 DEF Numbered
<1>20. Exchanging'
  <2>1. Slice(n, 3, whole) # <<>>
    <3>1. 3 \in Nat /\ 3 <= whole
      BY <1>14
    <3> QED
      BY <1>14, <3>1, SliceFull
  <2>2. Wanted' = IF sock'.out # <<>> THEN 0 ELSE length
    BY <1>2, <1>4, <1>6, <1>7, <1>16 DEF Wanted
  <2>3. sock'.want = Wanted'
    BY <1>16, <2>1, <2>2
  <2>4. Read(n, a, whole)'
    BY <1>6, <1>14, <1>16 DEF Read
  <2>5. Answered'
    <3>1. Answers(server.frames[n], asked[queue[1]].method, dialogue.next - 1 \in server.done)'
      BY <1>2, <1>4, <1>6 DEF Answers
    <3>2. \E d \in 0..whole : Read(n, d, whole)' /\ flight' = IF sock'.failed THEN <<>> ELSE Slice(n, d + 1, whole)
      BY <1>2, <1>4, <1>16, <2>4
    <3> QED
      BY <1>2, <1>4, <3>1, <3>2 DEF Answered
  <2>6. ~sock'.failed
    BY <1>4, <1>16
  <2> QED
    BY <1>1, <1>2, <1>6, <2>3, <2>5, <2>6 DEF Exchanging
<1>21. ASSUME NEW c \in SessionCallers PROVE Told(asked[c], server.done)'
  BY <1>2 DEF SessionInv, Told
<1> QED
  BY <1>17, <1>18, <1>19, <1>20, <1>21 DEF SessionInv

\* What may be told of a request: it was done, or was not, or the method is `promote`.
Tellable(out, method, did) ==
    /\ out = "value" => did
    /\ out \in {"null", "gate", "breaker", "refused"} => ~did
    /\ out = "unexpected" => method = "promote"

LEMMA TakenIs ==
  ASSUME SessionTypes
  PROVE  [[sock EXCEPT !.out = <<>>] EXCEPT !.destroyed = TRUE] =
           [chunks |-> sock.chunks, want |-> sock.want, out |-> <<>>, failed |-> sock.failed, destroyed |-> TRUE]
<1>1. sock = [chunks |-> sock.chunks, want |-> sock.want, out |-> sock.out, failed |-> sock.failed,
              destroyed |-> sock.destroyed]
  BY PartsTyped
<1>2. PICK nothing, yes : nothing = <<>> /\ yes = TRUE
  OBVIOUS
<1>3. PICK taken : taken = [chunks |-> sock.chunks, want |-> sock.want, out |-> nothing, failed |-> sock.failed,
                            destroyed |-> sock.destroyed]
  OBVIOUS
<1>4. [sock EXCEPT !.out = nothing] = taken
  BY <1>1, <1>3
<1>5. [taken EXCEPT !.destroyed = yes] = [chunks |-> sock.chunks, want |-> sock.want, out |-> nothing,
                                          failed |-> sock.failed, destroyed |-> yes]
  BY <1>3
<1> QED
  BY <1>2, <1>4, <1>5, Zenon

LEMMA BodyKeeps ==
  ASSUME Spoken!BindingAssumption, SessionInv, Spoken!Resume, dialogue.pc = "body" PROVE SessionInv'
<1>1. SessionTypes /\ InLine /\ Numbered /\ Exchanging /\ \A c \in SessionCallers : Told(asked[c], server.done)
  BY DEF SessionInv
<1>2. sock.out # <<>> /\ UNCHANGED <<flight, server>> /\ dialogue' = [dialogue EXCEPT !.pc = "idle"]
  BY DEF Spoken!Resume, Spoken!Idle
<1>3. PICK n \in Nat, whole \in {3, 4} :
        \E a \in 0..whole :
          /\ n = Len(server.frames) /\ n \in 1..Len(server.frames) /\ whole = 2 + server.frames[n].length
          /\ server.frames[n] \in SessionReplies /\ server.inbox = <<>> /\ server.frames # <<>>
          /\ Answers(server.frames[n], asked[queue[1]].method, dialogue.next - 1 \in server.done)
          /\ \/ /\ dialogue.pc = "prefix" /\ sock.out = Slice(n, 1, 2)
                /\ Spoken!Buffered(sock) = Slice(n, 3, a) /\ a >= 2
             \/ /\ dialogue.pc = "body" /\ sock.out = Slice(n, 3, whole)
                /\ Spoken!Buffered(sock) = <<>> /\ a = whole
          /\ sock.out[1] = <<n, IF dialogue.pc = "prefix" THEN 1 ELSE 3>>
          /\ flight = Slice(n, a + 1, whole) /\ ~sock.failed /\ sock.want = 0
  BY <1>2, GivenIs
<1>4. /\ server.frames[n] \in SessionReplies /\ server.inbox = <<>>
      /\ Answers(server.frames[n], asked[queue[1]].method, dialogue.next - 1 \in server.done)
      /\ Spoken!Buffered(sock) = <<>> /\ sock.out[1] = <<n, 3>>
      /\ flight = Slice(n, whole + 1, whole) /\ ~sock.failed /\ sock.want = 0
  BY <1>3
<1>5. flight = <<>>
  <2>1. whole \in Nat
    OBVIOUS
  <2>2. Slice(n, whole + 1, whole) = <<>>
    BY <2>1, SliceEmpty
  <2> QED
    BY <1>4, <2>2
<1>6. /\ queue # <<>> /\ asked[queue[1]].id = dialogue.next - 1 /\ Spoken!Encodes(asked[queue[1]].method)
  BY <1>1 DEF Exchanging
<1>7. /\ queue \in Seq(SessionCallers) /\ dialogue.next \in Nat /\ dialogue.next # 0
      /\ dialogue' = [pc |-> "idle", next |-> dialogue.next]
  BY <1>1, <1>2, PartsTyped
<1>8. dialogue'.pc = "idle" /\ dialogue'.next = dialogue.next /\ dialogue'.next \in Nat /\ dialogue.next <= dialogue'.next
  BY <1>7
<1>9. Head(queue) = queue[1] /\ 1 \in 1..Len(queue)
  BY <1>6, <1>7
<1>10. PICK method, reply : method = asked[queue[1]].method /\ reply = server.frames[n]
  OBVIOUS
<1>24. PICK did \in BOOLEAN : did <=> dialogue.next - 1 \in server.done
  <2>1. CASE dialogue.next - 1 \in server.done
    BY <2>1
  <2>2. CASE dialogue.next - 1 \notin server.done
    BY <2>2
  <2> QED
    BY <2>1, <2>2
<1>11. method \in SessionMethods /\ Spoken!Encodes(method) /\ reply \in SessionReplies /\ Answers(reply, method, did)
  <2>1. method \in SessionMethods
    BY <1>1, <1>9, <1>10 DEF InLine
  <2>2. Answers(reply, method, did)
    BY <1>4, <1>10, <1>24 DEF Answers
  <2> QED
    BY <1>4, <1>6, <1>10, <2>1, <2>2
<1>12. \/ /\ ~Spoken!Decodes(reply) /\ Spoken!Ends(Head(queue), "undecoded")
          /\ sock' = [sock EXCEPT !.out = <<>>]
       \/ /\ Spoken!Decodes(reply) /\ reply.id = dialogue.next - 1
          /\ Spoken!Ends(Head(queue), Spoken!Outcome(method, reply)) /\ sock' = [sock EXCEPT !.out = <<>>]
       \/ /\ Spoken!Ends(Head(queue), "desynchronised")
          /\ sock' = [[sock EXCEPT !.out = <<>>] EXCEPT !.destroyed = TRUE]
  <2>1. sock.out[1][1] = n
    BY <1>4
  <2>2. server.frames[sock.out[1][1]] = reply /\ asked[Head(queue)].method = method
    BY <1>9, <1>10, <2>1
  <2> QED
    BY <2>2 DEF Spoken!Resume
<1>13. \E out \in Outcomes : Spoken!Ends(Head(queue), out) /\ Tellable(out, method, did)
  <2>1. CASE Spoken!Ends(Head(queue), "undecoded")
    BY <2>1 DEF Outcomes, Tellable
  <2>2. CASE Spoken!Ends(Head(queue), "desynchronised")
    BY <2>2 DEF Outcomes, Tellable
  <2>3. CASE Spoken!Decodes(reply) /\ reply.id = dialogue.next - 1 /\ Spoken!Ends(Head(queue), Spoken!Outcome(method, reply))
    <3>1. \/ reply.body = Spoken!Success[Spoken!ToWire[Spoken!Op[method]]] /\ did
          \/ reply.body = "PreconditionFailed" /\ method \in Spoken!Conditional /\ ~did
          \/ reply.body = "Error" /\ ~did
      BY <1>11, <2>3 DEF Answers, Spoken!Decodes
    <3>2. PICK out : out = Spoken!Outcome(method, reply)
      OBVIOUS
    <3>3. LET told == Spoken!Outcome(method, reply)
          IN  /\ told \in Outcomes
              /\ told = "value" => did
              /\ told \in {"null", "gate", "breaker", "refused"} => ~did
              /\ told = "unexpected" => method = "promote"
      BY <1>11, <3>1, OutcomeIs
    <3>4. out \in Outcomes /\ Tellable(out, method, did)
      BY <3>2, <3>3, Zenon DEF Tellable
    <3>5. Spoken!Ends(Head(queue), out)
      BY <2>3, <3>2
    <3> QED
      BY <3>4, <3>5
  <2> QED
    BY <1>12, <2>1, <2>2, <2>3
<1>14. PICK out \in Outcomes : Spoken!Ends(Head(queue), out) /\ Tellable(out, method, did)
  BY <1>13
<1>15. /\ asked' \in AskedTypes /\ queue' \in Seq(SessionCallers) /\ InLine' /\ queue[1] \in SessionCallers
       /\ \A c \in SessionCallers : c # queue[1] => asked'[c] = asked[c]
       /\ LET call == asked[queue[1]]
          IN  asked'[queue[1]] = [method |-> call.method, pc |-> "done", id |-> call.id, out |-> out]
  BY <1>1, <1>6, <1>8, <1>14, EndsIs
<1>16. \E d \in BOOLEAN :
         sock' = [chunks |-> sock.chunks, want |-> sock.want, out |-> <<>>, failed |-> sock.failed, destroyed |-> d]
  <2>1. sock.destroyed \in BOOLEAN
        /\ sock = [chunks |-> sock.chunks, want |-> sock.want, out |-> sock.out, failed |-> sock.failed,
                   destroyed |-> sock.destroyed]
    BY <1>1, PartsTyped
  <2>2. PICK taken : taken = [chunks |-> sock.chunks, want |-> sock.want, out |-> <<>>, failed |-> sock.failed,
                              destroyed |-> sock.destroyed]
    OBVIOUS
  <2>3. [sock EXCEPT !.out = <<>>] = taken
    BY <2>1, <2>2
  <2>4. [[sock EXCEPT !.out = <<>>] EXCEPT !.destroyed = TRUE] =
          [chunks |-> sock.chunks, want |-> sock.want, out |-> <<>>, failed |-> sock.failed, destroyed |-> TRUE]
    BY <1>1, TakenIs
  <2>5. sock' = taken \/ sock' = [[sock EXCEPT !.out = <<>>] EXCEPT !.destroyed = TRUE]
    BY <1>12, <2>3
  <2> QED
    BY <2>1, <2>2, <2>4, <2>5
<1>17. PICK d \in BOOLEAN :
         sock' = [chunks |-> sock.chunks, want |-> sock.want, out |-> <<>>, failed |-> sock.failed, destroyed |-> d]
  BY <1>16
<1>18. sock'.out = <<>> /\ sock'.want = 0 /\ ~sock'.failed /\ sock'.chunks = sock.chunks
  BY <1>4, <1>17
<1>19. Spoken!Buffered(sock') = <<>>
  BY <1>4, <1>18 DEF Spoken!Buffered
<1>20. SessionTypes'
  <2>1. <<>> \in Seq(StreamBytes)
    OBVIOUS
  <2>2. sock' \in Sockets
    BY <1>1, <1>17, <2>1, PartsTyped DEF Sockets
  <2>3. dialogue' \in [pc : {"idle", "prefix", "body"}, next : Nat \ {0}]
    BY <1>7
  <2> QED
    BY <1>1, <1>2, <1>15, <2>2, <2>3 DEF SessionTypes, AskedTypes
<1>21. Numbered'
  BY <1>1, <1>2, <1>8 DEF Numbered
<1>22. Exchanging'
  <2>1. Wanted' = 0
    BY <1>8 DEF Wanted
  <2>2. server'.inbox = <<>> /\ flight' = <<>>
    BY <1>2, <1>4, <1>5
  <2>3. Len(server'.inbox) <= 1
    <3>1. server'.inbox \in Seq(SessionRequests)
      BY <1>1, <1>2, PartsTyped
    <3> QED
      BY <2>2, <3>1, AtMostOne
  <2> QED
    BY <1>8, <1>18, <1>19, <2>1, <2>2, <2>3 DEF Exchanging
<1>23. ASSUME NEW c \in SessionCallers PROVE Told(asked[c], server.done)'
  <2>1. CASE c = queue[1]
    <3>1. asked'[c].pc = "done" /\ asked'[c].out = out /\ asked'[c].method = method /\ asked'[c].id = dialogue.next - 1
      BY <1>6, <1>10, <1>15, <2>1
    <3>2. did <=> asked'[c].id \in server'.done
      BY <1>2, <1>24, <3>1
    <3> QED
      BY <1>14, <3>1, <3>2, Zenon DEF Told, Tellable
  <2>2. CASE c # queue[1]
    BY <1>1, <1>2, <1>15, <2>2 DEF Told
  <2> QED
    BY <2>1, <2>2
<1> QED
  BY <1>15, <1>20, <1>21, <1>22, <1>23 DEF SessionInv

LEMMA SessionStarts == Spoken!Init => SessionInv
<1> SUFFICES ASSUME Spoken!Init PROVE SessionInv
  OBVIOUS
<1>1. /\ asked = [c \in SessionCallers |-> Spoken!NoCall] /\ queue = <<>> /\ dialogue = [pc |-> "idle", next |-> 1]
      /\ sock = [chunks |-> <<>>, want |-> 0, out |-> <<>>, failed |-> FALSE, destroyed |-> FALSE]
      /\ flight = <<>> /\ server = [inbox |-> <<>>, frames |-> <<>>, closed |-> FALSE, done |-> {}]
  BY DEF Spoken!Init, Spoken!NoWaiter
<1>2. PICK none : none = [method |-> "none", pc |-> "done", id |-> 0, out |-> "none"]
  OBVIOUS
<1>3. asked = [c \in SessionCallers |-> none]
  BY <1>1, <1>2 DEF Spoken!NoCall
<1>4. /\ none \in [method : SessionMethods \cup {"none"}, pc : {"done", "waits", "sent"}, id : Nat, out : Outcomes]
      /\ none.pc = "done" /\ none.id = 0 /\ none.out = "none"
  BY <1>2 DEF Outcomes
<1>5. asked \in AskedTypes /\ \A c \in SessionCallers : asked[c] = none
  BY <1>3, <1>4 DEF AskedTypes
<1>6. dialogue.pc = "idle" /\ dialogue.next = 1 /\ dialogue \in [pc : {"idle", "prefix", "body"}, next : Nat \ {0}]
  BY <1>1
<1>7. sock \in Sockets
  <2>1. <<>> \in Seq(Seq(StreamBytes)) /\ <<>> \in Seq(StreamBytes)
    OBVIOUS
  <2> QED
    BY <1>1, <2>1 DEF Sockets
<1>8. sock.out = <<>> /\ sock.want = 0 /\ ~sock.failed /\ sock.chunks = <<>>
  BY <1>1
<1>9. server.inbox = <<>> /\ server.frames = <<>> /\ server.done = {} /\ server \in [inbox : Seq(SessionRequests), frames : Seq(SessionReplies), closed : BOOLEAN, done : SUBSET Nat]
  <2>1. <<>> \in Seq(SessionRequests) /\ <<>> \in Seq(SessionReplies)
    OBVIOUS
  <2> QED
    BY <1>1, <2>1
<1>10. queue \in Seq(SessionCallers) /\ Len(queue) = 0 /\ Len(server.frames) = 0 /\ Len(server.inbox) = 0
  BY <1>1, <1>9
<1>11. SessionTypes
  BY <1>1, <1>5, <1>6, <1>7, <1>9, <1>10 DEF SessionTypes, AskedTypes
<1>12. InLine
  BY <1>4, <1>5, <1>6, <1>10 DEF InLine
<1>13. Numbered
  BY <1>9, <1>10 DEF Numbered
<1>14. Exchanging
  <2>1. Spoken!Buffered(sock) = <<>>
    <3>1. <<>> \in Seq(Seq(StreamBytes)) /\ <<>> \in Seq(StreamBytes)
      OBVIOUS
    <3>2. Spoken!FlattenSeq(<<>>) = <<>>
      BY <3>1, FlattenIs
    <3> QED
      BY <1>8, <3>2 DEF Spoken!Buffered
  <2>2. Wanted = 0
    BY <1>6 DEF Wanted
  <2> QED
    BY <1>1, <1>6, <1>8, <1>9, <1>10, <2>1, <2>2 DEF Exchanging
<1>15. \A c \in SessionCallers : Told(asked[c], server.done)
  BY <1>4, <1>5 DEF Told
<1> QED
  BY <1>11, <1>12, <1>13, <1>14, <1>15 DEF SessionInv

LEMMA SessionKept ==
  ASSUME Spoken!BindingAssumption, SessionInv, [Spoken!Next]_(Spoken!bindingVars) PROVE SessionInv'
<1>1. CASE UNCHANGED Spoken!bindingVars
  <2>1. UNCHANGED <<asked, queue, dialogue, sock, flight, server>>
    BY <1>1 DEF Spoken!bindingVars
  <2>2. SessionTypes' /\ InLine' /\ Numbered' /\ \A c \in SessionCallers : Told(asked[c], server.done)'
    <3>1. SessionTypes'
      BY <2>1 DEF SessionInv, SessionTypes
    <3>2. InLine'
      BY <2>1 DEF SessionInv, InLine
    <3>3. Numbered'
      BY <2>1 DEF SessionInv, Numbered
    <3>4. \A c \in SessionCallers : Told(asked[c], server.done)'
      BY <2>1 DEF SessionInv, Told
    <3> QED
      BY <3>1, <3>2, <3>3, <3>4
  <2>3. Wanted' = Wanted /\ Unanswered' = Unanswered
    BY <2>1 DEF Wanted, Unanswered
  <2>4. Answered => Answered'
    <3>1. \A n, a, whole : Read(n, a, whole) => Read(n, a, whole)'
      BY <2>1 DEF Read
    <3> QED
      BY <2>1, <3>1 DEF Answered, Answers
  <2>5. Exchanging'
    BY <2>1, <2>3, <2>4 DEF SessionInv, Exchanging
  <2> QED
    BY <2>2, <2>5 DEF SessionInv
<1>2. CASE \E c \in SessionCallers, method \in SessionMethods : Spoken!Call(c, method)
  BY <1>2, CallKeeps
<1>3. CASE Spoken!Exchange
  BY <1>3, ExchangeKeeps
<1>4. CASE Spoken!Resume
  <2>1. dialogue.pc = "prefix" \/ dialogue.pc = "body"
    BY <1>4 DEF Spoken!Resume
  <2> QED
    BY <1>4, <2>1, PrefixKeeps, BodyKeeps
<1>5. CASE Spoken!Abandon
  BY <1>5, AbandonKeeps
<1>6. CASE \E n \in 1..Len(flight) : Spoken!Data(n)
  BY <1>6, DataKeeps
<1>7. CASE Spoken!Closed \/ Spoken!Break
  BY <1>7, ClosedKeeps
<1>8. CASE Spoken!Close
  BY <1>8, CloseKeeps
<1>9. CASE Spoken!Grant
  BY <1>9, GrantKeeps
<1>10. CASE Spoken!Unmet
  BY <1>10, UnmetKeeps
<1>11. CASE Spoken!Unreadable
  BY <1>11, UnreadableKeeps
<1>12. CASE Spoken!Newer
  BY <1>12, NewerKeeps
<1>13. CASE \E code \in Spoken!Codes : Spoken!Refuse(code)
  BY <1>13, RefuseKeeps
<1>14. CASE \E does \in BOOLEAN : Spoken!Stop(does)
  BY <1>14, StopKeeps
<1> QED
  BY <1>1, <1>2, <1>3, <1>4, <1>5, <1>6, <1>7, <1>8, <1>9, <1>10, <1>11, <1>12, <1>13, <1>14 DEF Spoken!Next

LEMMA SessionReads == SessionInv => Spoken!FramesReadWhole
<1> SUFFICES ASSUME SessionInv, sock.out # <<>>
             PROVE  IF dialogue.pc = "prefix" THEN Spoken!IsPrefix2(sock.out) ELSE Spoken!IsBody(sock.out)
  BY DEF Spoken!FramesReadWhole
<1>1. dialogue.pc # "idle"
  BY DEF SessionInv, Exchanging
<1>2. PICK n \in Nat, whole \in {3, 4} :
        \E a \in 0..whole :
          /\ n = Len(server.frames) /\ n \in 1..Len(server.frames) /\ whole = 2 + server.frames[n].length
          /\ server.frames[n] \in SessionReplies /\ server.inbox = <<>> /\ server.frames # <<>>
          /\ Answers(server.frames[n], asked[queue[1]].method, dialogue.next - 1 \in server.done)
          /\ \/ /\ dialogue.pc = "prefix" /\ sock.out = Slice(n, 1, 2)
                /\ Spoken!Buffered(sock) = Slice(n, 3, a) /\ a >= 2
             \/ /\ dialogue.pc = "body" /\ sock.out = Slice(n, 3, whole)
                /\ Spoken!Buffered(sock) = <<>> /\ a = whole
          /\ sock.out[1] = <<n, IF dialogue.pc = "prefix" THEN 1 ELSE 3>>
          /\ flight = Slice(n, a + 1, whole) /\ ~sock.failed /\ sock.want = 0
  BY <1>1, GivenIs
<1>3. sock.out[1][1] = n
  BY <1>2
<1>4. CASE dialogue.pc = "prefix"
  <2>1. sock.out = Slice(n, 1, 2)
    BY <1>2, <1>4
  <2>2. Slice(n, 1, 2) = << <<n, 1>>, <<n, 2>> >>
    <3>1. Slice(n, 1, 2) = [x \in 1..2 |-> <<n, x>>]
      BY DEF Slice
    <3> QED
      BY <3>1
  <2>3. sock.out = << <<sock.out[1][1], 1>>, <<sock.out[1][1], 2>> >>
    BY <1>3, <2>1, <2>2, Zenon
  <2> QED
    BY <1>4, <2>3 DEF Spoken!IsPrefix2
<1>5. CASE dialogue.pc # "prefix"
  <2>1. sock.out = Slice(n, 3, whole) /\ whole = 2 + server.frames[n].length /\ server.frames[n] \in SessionReplies
    BY <1>2, <1>5
  <2>2. PICK length : length = server.frames[n].length
    OBVIOUS
  <2>3. length \in {1, 2} /\ whole = 2 + length
    BY <2>1, <2>2 DEF SessionReplies
  <2>4. whole \in Nat /\ 2 <= whole /\ length \in Nat
    BY <2>3
  <2>5. Spoken!FrameBytes(n, length) = Slice(n, 1, whole)
    BY <2>3, <2>4, FrameBytesIs
  <2>6. Cut(n, 1, 2, whole)
    <3>1. PICK i \in Nat, k \in Nat : i = 1 /\ k = 2
      OBVIOUS
    <3>2. i <= k + 1 /\ k <= whole
      BY <2>4, <3>1
    <3>3. Cut(n, i, k, whole)
      BY <2>4, <3>2, SliceSplits
    <3> QED
      BY <3>1, <3>3
  <2>7. SubSeq(Slice(n, 1, whole), 3, whole) = Slice(n, 3, whole)
    BY <2>4, <2>6 DEF Cut
  <2>8. sock.out = SubSeq(Spoken!FrameBytes(n, length), 2 + 1, 2 + length)
    BY <2>1, <2>3, <2>5, <2>7
  <2> QED
    BY <1>3, <1>5, <2>2, <2>8 DEF Spoken!IsBody, Spoken!PrefixLength
<1> QED
  BY <1>4, <1>5

LEMMA SessionTells == SessionInv => Spoken!ToldTheTruth
BY DEF SessionInv, Told, Spoken!ToldTheTruth

LEMMA SessionAsksOne == SessionInv => Spoken!OneAtATime
<1> SUFFICES ASSUME SessionInv PROVE Spoken!OneAtATime
  OBVIOUS
<1>1. SessionTypes /\ InLine /\ Exchanging
  BY DEF SessionInv
<1>2. queue \in Seq(SessionCallers)
  BY <1>1, PartsTyped
<1> DEFINE waiting == {c \in SessionCallers : asked[c].pc = "sent"}
<1>3. waiting \subseteq {queue[1]}
  <2>1. ASSUME NEW c \in SessionCallers, asked[c].pc = "sent" PROVE c = queue[1]
    <3>1. PICK i \in 1..Len(queue) : queue[i] = c
      BY <1>1, <2>1 DEF InLine
    <3>2. i = 1
      BY <1>1, <2>1, <3>1 DEF InLine
    <3> QED
      BY <3>1, <3>2
  <2> QED
    BY <2>1
<1>4. Cardinality(waiting) <= 1
  <2> HIDE DEF waiting
  <2>1. IsFiniteSet({queue[1]}) /\ Cardinality({queue[1]}) = 1
    BY FS_Singleton
  <2>2. Cardinality(waiting) <= Cardinality({queue[1]})
    BY <1>3, <2>1, FS_Subset
  <2> QED
    BY <2>1, <2>2
<1>5. Len(server.inbox) <= 1
  <2>1. CASE dialogue.pc = "idle"
    BY <1>1, <2>1 DEF Exchanging
  <2>2. CASE dialogue.pc # "idle"
    <3>1. Unanswered \/ Answered
      BY <1>1, <2>2 DEF Exchanging
    <3>2. server.inbox = <<>> \/ Len(server.inbox) = 1
      BY <3>1 DEF Unanswered, Answered
    <3>3. server.inbox \in Seq(SessionRequests)
      BY <1>1, PartsTyped
    <3> QED
      BY <3>2, <3>3, AtMostOne
  <2> QED
    BY <2>1, <2>2
<1>6. sock.failed => sock.want = 0
  BY <1>1 DEF Exchanging, Wanted
<1> QED
  <2>1. Spoken!Cardinality(waiting) = Cardinality(waiting)
    BY DEF Spoken!Cardinality, Cardinality
  <2>2. Spoken!Cardinality(waiting) <= 1
    BY <1>4, <2>1, Zenon
  <2> QED
    BY <1>5, <1>6, <2>2, Zenon DEF Spoken!OneAtATime, Spoken!NoWaiter

LEMMA SessionDropsNone == SessionInv => Spoken!NoAnswerDropped
<1> SUFFICES ASSUME SessionInv, dialogue.pc # "idle", sock.failed,
                    NEW n \in 1..Len(server.frames), server.frames[n].id = dialogue.next - 1
             PROVE  <<n, 2 + server.frames[n].length>> \notin Spoken!ToSet(Spoken!Buffered(sock) \o sock.out)
  BY DEF Spoken!NoAnswerDropped, Spoken!Running, Spoken!PrefixLength
<1>1. SessionTypes /\ Exchanging /\ Numbered
  BY DEF SessionInv
<1>2. sock.out = <<>> /\ Answered
  BY <1>1 DEF Exchanging, Unanswered
<1>3. n = Len(server.frames)
  BY <1>1 DEF Numbered
<1>4. PICK m \in Nat, whole \in {3, 4} :
        \E a \in 0..whole :
          /\ m = Len(server.frames) /\ m \in 1..Len(server.frames) /\ whole = 2 + server.frames[m].length
          /\ server.frames[m] \in SessionReplies /\ server.inbox = <<>> /\ server.frames # <<>>
          /\ Answers(server.frames[m], asked[queue[1]].method, dialogue.next - 1 \in server.done)
          /\ Read(m, a, whole) /\ flight = IF sock.failed THEN <<>> ELSE Slice(m, a + 1, whole)
  BY <1>1, <1>2, AnsweredIs
<1>5. PICK a \in 0..whole : Read(m, a, whole)
  BY <1>4
<1>6. m = n /\ whole = 2 + server.frames[n].length
  BY <1>3, <1>4
<1>7. Slice(m, 1, 2) # <<>> /\ Slice(m, 3, whole) # <<>>
  <2>1. 3 \in Nat /\ whole \in Nat /\ 3 <= whole
    OBVIOUS
  <2>2. Slice(m, 3, whole) # <<>>
    BY <2>1, SliceFull
  <2>3. Slice(m, 1, 2) # <<>>
    BY SliceFull
  <2> QED
    BY <2>2, <2>3
<1>8. PICK i \in {1, 3} : Spoken!Buffered(sock) = Slice(m, i, a) /\ a < whole /\ i <= a + 1
  BY <1>2, <1>5, <1>7 DEF Read
<1>9. a \in Nat /\ i \in Nat /\ whole \in Nat
  OBVIOUS
<1>10. /\ Slice(m, i, a) \in Seq(StreamBytes) /\ Len(Slice(m, i, a)) = a - i + 1
       /\ \A x \in 1..a - i + 1 : Slice(m, i, a)[x] = <<m, i + x - 1>>
  BY <1>8, <1>9, SliceIs
<1>11. Spoken!Buffered(sock) \o sock.out = Slice(m, i, a)
  BY <1>2, <1>8, <1>10, ConcatEmptySeq
<1>12. ASSUME <<n, whole>> \in Spoken!ToSet(Slice(m, i, a)) PROVE FALSE
  <2>1. PICK x \in 1..a - i + 1 : <<n, whole>> = Slice(m, i, a)[x]
    BY <1>10, <1>12 DEF Spoken!ToSet
  <2>2. <<n, whole>> = <<m, i + x - 1>>
    BY <1>10, <2>1
  <2>3. whole = i + x - 1
    BY <2>2
  <2> QED
    BY <1>8, <1>9, <2>3
<1> QED
  BY <1>6, <1>11, <1>12, Zenon

(* For any callers and methods: a binding's callers are told what became of  *)
(* their own requests, every reader of the stream is given whole prefixes and*)
(* bodies, one request at a time is unanswered, and an answer that arrived is*)
(* not lost, however the bytes come and wherever the connection ends         *)
(* (session.ts, node-socket.ts).                                             *)
THEOREM TheSessionTellsTheTruth ==
    ASSUME Spoken!BindingAssumption
    PROVE  Spoken!Spec /\ [](part = "binding") => []ClientsAreAnswered
<1>1. Spoken!Init => SessionInv
  BY SessionStarts
<1>2. SessionInv /\ [Spoken!Next]_(Spoken!bindingVars) => SessionInv'
  BY SessionKept
<1>3. SessionInv /\ part = "binding" => ClientsAreAnswered
  BY SessionReads, SessionTells, SessionAsksOne, SessionDropsNone DEF ClientsAreAnswered
<1> QED
  BY <1>1, <1>2, <1>3, PTL DEF Spoken!Spec
=============================================================================
