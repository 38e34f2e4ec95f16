------------------------------- MODULE History -------------------------------
(* What is asked of a log that keeps everything: a branch as it was, what      *)
(* changed between two points, the changes a consumer follows, where a column  *)
(* was declared, who wrote what, whose bytes are whose, and the proof that an  *)
(* entry is under a root (theta-storage log.rs, temporal.rs, provenance.rs,    *)
(* attribution.rs, attribution_bytes.rs, inclusion.rs; thetad engine.rs).      *)
(* An entry's hash is its place in `entries`; 0 is the zero hash. How a        *)
(* project with branches comes back from its log is DurableStore's.            *)
EXTENDS View

CONSTANTS Main, Branches,
          Acts,         \* what an entry may be: an operation, what the clock shows, by whom
          FirstAct,     \* the entry a new database begins with
          ForkAct,
          Limits,       \* how many entries a consumer asks for
          MaxEntries, MaxForks, MaxLives

MainIsABranch == Main \in Branches

VARIABLES
  entries,    \* every entry ever appended
  from,       \* the first the process holds in memory
  heads,      \* branch -> the entry its log ends with, or 0
  open,       \* the branches registered
  next,       \* branch -> its next commit
  views,      \* branch -> its live view
  past,       \* main's rows after each of its entries
  consumer,   \* a follower of main: its cursor and the rows it rebuilt
  anchored,   \* the head of main last given to somebody else, or 0
  lives
vars == <<entries, from, heads, open, next, views, past, consumer, anchored, lives>>

Times == {act.at : act \in Acts}
NoConsumer == [on |-> FALSE, after |-> 0, rows |-> <<>>]

\* ------------------------------------------------------------------ the log
(* history: from a branch's head back to the zero hash, oldest first.          *)
Chain(b) ==
  LET To[i \in 0..Len(entries)] ==
        IF i = 0 THEN <<>> ELSE Append(To[entries[i].prev], i)
  IN  To[heads[b]]
(* The walk fails at an entry the process does not hold.                       *)
Whole(b) == \A i \in ToSet(Chain(b)) : i >= from
EntriesOf(chain) == [k \in 1..Len(chain) |-> entries[chain[k]]]
LastOf(s, none) == IF s = <<>> THEN none ELSE s[Len(s)]

\* ----------------------------------------------------------- temporal reads
Commits(chain) == [k \in 1..Len(chain) |-> entries[chain[k]].commit]
UpBeforeCommit(chain, c) == SelectSeq(chain, LAMBDA i : entries[i].commit < c)   \* mutant
UpToCommit(chain, c) == SelectSeq(chain, LAMBDA i : entries[i].commit <= c)
Horizon(b) == IF Whole(b) /\ Chain(b) # <<>> THEN Commits(Chain(b))[1] ELSE 0

Refused == [ok |-> FALSE, commit |-> 0, head |-> 0]
SnapshotAt(b, target) ==
  LET included == UpToCommit(Chain(b), target)
  IN  IF target < Horizon(b) THEN Refused
      ELSE [ok |-> TRUE, commit |-> LastOf(Commits(included), 0), head |-> LastOf(included, 0)]
ViewAt(b, target) == Replay(EntriesOf(UpToCommit(Chain(b), target)))

NowCommit(b) == LastOf(Commits(Chain(b)), 0)
(* The last commit at or before a time, which clocks make advisory.            *)
Before(b, at) == {entries[i].commit : i \in {j \in ToSet(Chain(b)) : entries[j].at <= at}}
AsOfTime(b, at) == IF Before(b, at) = {} THEN Refused ELSE SnapshotAt(b, Max(Before(b, at)))

(* diff: the rows added, changed and removed.                                  *)
Diff(before, after) ==
  LET keys == DOMAIN before \cup DOMAIN after
      Is(k) == IF k \notin DOMAIN before THEN "added"
               ELSE IF k \notin DOMAIN after THEN "removed" ELSE "changed"
  IN  {[key |-> k, is |-> Is(k)] : k \in
        {x \in keys : At(before, x) # At(after, x) \/ Is(x) # "changed"}}

(* since: up to `limit` entries past the cursor, folded into one difference.   *)
Window(b, after, limit) ==
  UpTo(SelectSeq(Chain(b), LAMBDA i : entries[i].commit > after), limit)
Since(b, after, limit) ==
  LET reached == LastOf(Commits(Window(b, after, limit)), after)
      gap == after + 1 < Horizon(b)
      was == ViewAt(b, after).keys
      is == ViewAt(b, reached).keys
  IN  [gap |-> gap, after |-> IF gap THEN after ELSE reached,
       changes |-> IF gap THEN {} ELSE Diff(was, is), rows |-> is]

\* --------------------------------------------------------------- provenance
(* The subjects a change is the history of, and whether it creates one.        *)
SubjectsOf(change) ==
  LET t == change.table
  IN  CASE change.kind = "AddTable" ->
             {<<t>>} \cup {<<t, c>> : c \in DOMAIN change.def.fields}
        [] change.kind \in {"DropTable", "AddIndex", "DropIndex"} -> {<<t>>}
        [] change.kind = "RenameColumn" -> {<<t, change.column>>, <<t, change.to>>}
        [] OTHER -> {<<t, change.column>>}
Creates(change, subject) ==
  \/ change.kind = "AddTable"
  \/ change.kind = "AddColumn" /\ Len(subject) = 2
  \/ change.kind = "RenameColumn" /\ subject[2] = change.to

SchemaOf(i) == {op.change : op \in {o \in ToSet(entries[i].ops) : o.op = "Schema"}}
NoRecord == [created |-> <<>>, since |-> <<>>]
Recorded(records, i) ==
  LET Add(change, s) ==
        LET old == IF s \in DOMAIN records THEN records[s] ELSE NoRecord
        IN  IF Creates(change, s) /\ old = NoRecord
            THEN [old EXCEPT !.created = <<i>>] ELSE [old EXCEPT !.since = Append(@, i)]
  IN  IF SchemaOf(i) = {} THEN records
      ELSE LET change == CHOOSE c \in SchemaOf(i) : TRUE
           IN  [s \in SubjectsOf(change) |-> Add(change, s)] @@ records
Provenance(chain) == FoldLeft(Recorded, <<>>, chain)

Declares == {"AddTable", "AddColumn", "ty"}
DeclaredAt(record) ==
  LET by == SelectSeq(record.created \o record.since,
                      LAMBDA i : \E c \in SchemaOf(i) : c.kind \in Declares)
  IN  LastOf(by, 0)

\* -------------------------------------------------------------- attribution
(* Every entry of the registered branches, each once, by commit and branch.    *)
AllEntries ==
  LET held == UNION {ToSet(Chain(b)) : b \in {x \in open : Whole(x)}}
      Earlier(i, j) == \/ entries[i].commit < entries[j].commit
                       \/ entries[i].commit = entries[j].commit
                          /\ entries[i].branch < entries[j].branch
  IN  SetToSortSeq(held, Earlier)
EntriesFor(who) == SelectSeq(AllEntries, LAMBDA i : entries[i].author = who)
Activity(who) ==
  [entries |-> Len(EntriesFor(who)),
   first |-> IF EntriesFor(who) = <<>> THEN -1 ELSE entries[EntriesFor(who)[1]].commit,
   last |-> LastOf(Commits(EntriesFor(who)), -1)]
Sessions == {entries[i].author : i \in ToSet(AllEntries)}

(* A row is one encoding of one key; the branches that hold it share it.       *)
HoldersOfKey(vs, row) == {b \in DOMAIN vs : row[1] \in DOMAIN vs[b].keys}   \* mutant: by key
HoldersOf(vs, row) ==
  {b \in DOMAIN vs : row[1] \in DOMAIN vs[b].keys /\ vs[b].keys[row[1]] = row[2]}
RowsOf(v) == {<<k, v.keys[k]>> : k \in DOMAIN v.keys}
ExclusiveRows(vs, b) == Cardinality({row \in RowsOf(vs[b]) : HoldersOf(vs, row) = {b}})
SharedRows(vs) ==
  Cardinality({row \in UNION {RowsOf(vs[b]) : b \in DOMAIN vs} :
                 Cardinality(HoldersOf(vs, row)) > 1})
TotalRows(vs) == SharedRows(vs) + MapThenSumSet(LAMBDA b : ExclusiveRows(vs, b), DOMAIN vs)

\* ---------------------------------------------------------------- inclusion
NoProof == [entry |-> 0, path |-> <<>>, root |-> 0]
Prove(chain, i) ==
  LET at == {k \in 1..Len(chain) : chain[k] = i}
  IN  IF at = {} THEN NoProof
      ELSE [entry |-> i, path |-> SubSeq(chain, Max(at) + 1, Len(chain)),
            root |-> chain[Len(chain)]]
Verifies(proof, trusted) ==
  LET links == <<proof.entry>> \o proof.path
  IN  /\ proof.root = trusted
      /\ \A k \in 2..Len(links) : entries[links[k]].prev = links[k - 1]
      /\ links[Len(links)] = trusted
(* Under the newest anchored head: the chain as it ended there.                *)
UnderAnchor(b) ==
  LET at == {k \in 1..Len(Chain(b)) : Chain(b)[k] = anchored}
  IN  IF at = {} THEN <<>> ELSE SubSeq(Chain(b), 1, Max(at))

\* ------------------------------------------------------------------ actions
Entry(b, act, commit, prev) ==
  [branch |-> b, commit |-> commit, at |-> act.at, ops |-> act.ops, author |-> act.who,
   prev |-> prev]

Write(b, act) ==
  LET entry == Entry(b, act, next[b], heads[b])
  IN  /\ b \in open /\ Len(entries) < MaxEntries
      /\ entries' = Append(entries, entry)
      /\ heads' = [heads EXCEPT ![b] = Len(entries')]
      /\ next' = [next EXCEPT ![b] = @ + 1]
      /\ views' = [views EXCEPT ![b] = Apply(@, entry)]
      /\ past' = IF b = Main THEN Append(past, views'[b].keys) ELSE past
      /\ UNCHANGED <<from, open, consumer, anchored, lives>>

(* create_branch: its first entry is its own and follows the parent's head;    *)
(* the branch numbers its commits from 0.                                      *)
Fork(parent, b) ==
  LET entry == Entry(b, ForkAct, 0, heads[parent])
  IN  /\ parent \in open /\ b \notin open /\ next[b] = 0
      /\ Len(entries) < MaxEntries
      /\ Cardinality({x \in Branches : next[x] > 0}) <= MaxForks
      /\ entries' = Append(entries, entry)
      /\ heads' = [heads EXCEPT ![b] = Len(entries')]
      /\ open' = open \cup {b}
      /\ next' = [next EXCEPT ![b] = 1]
      /\ views' = (b :> Apply(views[parent], entry)) @@ views
      /\ UNCHANGED <<from, past, consumer, anchored, lives>>

(* A discard drops the pointer and the view; the entries stay.                 *)
Discard(b) ==
  /\ b \in open \ {Main}
  /\ open' = open \ {b}
  /\ views' = Drop(views, {b})
  /\ UNCHANGED <<entries, from, heads, next, past, consumer, anchored, lives>>

(* A consumer takes a snapshot of main and then its changes; a gap sends it    *)
(* back to a snapshot.                                                         *)
Seed ==
  /\ Whole(Main) /\ ~consumer.on
  /\ consumer' = [on |-> TRUE, after |-> SnapshotAt(Main, NowCommit(Main)).commit,
                  rows |-> ViewAt(Main, NowCommit(Main)).keys]
  /\ UNCHANGED <<entries, from, heads, open, next, views, past, anchored, lives>>

Taken(rows, feed) ==
  LET Of1(is) == {c.key : c \in {x \in feed.changes : x.is = is}}
  IN  [k \in Of1("added") \cup Of1("changed") |-> feed.rows[k]]
        @@ Drop(rows, Of1("removed"))
Follow(limit) ==
  LET feed == Since(Main, consumer.after, limit)
  IN  /\ Whole(Main) /\ consumer.on
      /\ consumer' = IF feed.gap THEN NoConsumer
                     ELSE [consumer EXCEPT !.after = feed.after, !.rows = Taken(@, feed)]
      /\ UNCHANGED <<entries, from, heads, open, next, views, past, anchored, lives>>

Anchor ==
  /\ heads[Main] # anchored
  /\ anchored' = heads[Main]
  /\ UNCHANGED <<entries, from, heads, open, next, views, past, consumer, lives>>

(* A restart holds the entries from the checkpoint on, and numbers the next    *)
(* commit after how many heads it learned from them, one at most. Bound: while *)
(* main is the only branch.                                                    *)
Restart(k) ==
  /\ lives < MaxLives /\ \A b \in Branches \ {Main} : next[b] = 0
  /\ from' = k
  /\ heads' = [heads EXCEPT ![Main] = IF k <= Len(entries) THEN @ ELSE 0]
  /\ next' = [next EXCEPT ![Main] = IF k <= Len(entries) THEN 1 ELSE 0]
  /\ views' = (Main :> Replay(entries))
  /\ lives' = lives + 1
  /\ UNCHANGED <<entries, open, past, consumer, anchored>>

Init ==
  /\ entries = <<Entry(Main, FirstAct, 0, 0)>>
  /\ from = 1
  /\ heads = [b \in Branches |-> IF b = Main THEN 1 ELSE 0]
  /\ open = {Main}
  /\ next = [b \in Branches |-> IF b = Main THEN 1 ELSE 0]
  /\ views = (Main :> Replay(entries))
  /\ past = << <<>> >>
  /\ consumer = NoConsumer
  /\ anchored = 0
  /\ lives = 0

Next ==
  \/ \E b \in Branches, act \in Acts : Write(b, act)
  \/ \E p, b \in Branches : Fork(p, b)
  \/ \E b \in Branches : Discard(b)
  \/ Seed
  \/ \E limit \in Limits : Follow(limit)
  \/ Anchor
  \/ \E k \in 1..MaxEntries + 1 : k <= Len(entries) + 1 /\ Restart(k)
Spec == Init /\ [][Next]_vars

\* ---------------------------------------------------------------- properties
TypeOK ==
  /\ from \in 1..Len(entries) + 1 /\ lives \in 0..MaxLives
  /\ heads \in [Branches -> 0..Len(entries)]
  /\ Main \in open /\ DOMAIN views = open
  /\ \A i \in 1..Len(entries) : entries[i].prev \in 0..i - 1

(* Main read at a commit, whenever it is asked, is main as it was then; read   *)
(* now, it is the live view; and a later time never answers with an earlier    *)
(* commit (temporal.rs:95-140). Of an instance that never restarted.           *)
ThePastStands ==
  lives = 0 =>
    /\ \A c \in 0..NowCommit(Main) :
         SnapshotAt(Main, c).ok /\ ViewAt(Main, c).keys = past[c + 1]
    /\ ViewAt(Main, NowCommit(Main)).keys = views[Main].keys
    /\ \A s, t \in Times :
         s <= t /\ AsOfTime(Main, s).ok =>
           AsOfTime(Main, t).ok /\ AsOfTime(Main, s).commit <= AsOfTime(Main, t).commit

(* A consumer that began from a snapshot and took every change it was given    *)
(* holds the rows as they were at its cursor, however many entries each answer *)
(* spanned (temporal.rs:231-250).                                              *)
FollowerAgrees == consumer.on /\ lives = 0 => consumer.rows = past[consumer.after + 1]

(* The entry a column names as its declaration gave it the type it has, through*)
(* drops, new tables and changes of type (provenance.rs:116-138). A renamed    *)
(* column names its old one's, or none.                                        *)
Renamed(t, c) ==
  \E i \in ToSet(Chain(Main)) : \E x \in SchemaOf(i) :
    x.kind = "RenameColumn" /\ x.table = t /\ c \in {x.column, x.to}
GivesType(x, c, ty) ==
  CASE x.kind = "AddTable"  -> c \in DOMAIN x.def.fields /\ x.def.fields[c].ty = ty
    [] x.kind = "AddColumn" -> x.column = c /\ x.to.ty = ty
    [] x.kind = "ty"        -> x.column = c /\ x.to = ty
    [] OTHER -> FALSE
DeclaredWhereItWas ==
  lives = 0 =>
    LET records == Provenance(Chain(Main))
        schema == views[Main].schema
    IN  \A t \in DOMAIN schema : \A c \in DOMAIN schema[t].fields :
          Renamed(t, c) \/
            /\ <<t, c>> \in DOMAIN records
            /\ \E x \in SchemaOf(DeclaredAt(records[<<t, c>>])) :
                 x.table = t /\ GivesType(x, c, schema[t].fields[c].ty)

(* The project's entries, shared ancestors included, are each somebody's once: *)
(* what everybody did adds up to what was done (engine.rs:2003-2030).          *)
EachEntryOnce ==
  /\ \A b \in open : Whole(b) => ToSet(Chain(b)) \subseteq ToSet(AllEntries)
  /\ \A k \in 2..Len(AllEntries) :
       entries[AllEntries[k - 1]].commit <= entries[AllEntries[k]].commit
  /\ MapThenSumSet(LAMBDA a : Activity(a).entries, Sessions)
       = Cardinality(UNION {ToSet(Chain(b)) : b \in {x \in open : Whole(x)}})

(* Discarding a branch gives back exactly the rows it was said to hold alone   *)
(* (attribution_bytes.rs:76-86).                                               *)
DiscardFrees ==
  \A b \in Branches \ {Main} :
    Discard(b) => TotalRows(views') = TotalRows(views) - ExclusiveRows(views, b)
DiscardRecovers == [][DiscardFrees]_vars

(* Whatever main has grown into since, an entry is proved under the anchored   *)
(* root exactly when it was written before the anchor, and the proof verifies  *)
(* against that root and no other (inclusion.rs:105-155, engine.rs:1926-1950). *)
AnchoredProofsStand ==
  anchored # 0 /\ lives = 0 =>
    \A i \in 1..Len(entries) :
      LET proof == Prove(UnderAnchor(Main), i)
      IN  /\ (proof # NoProof) <=> (i \in ToSet(Chain(Main)) /\ i <= anchored)
          /\ proof # NoProof => \A root \in 1..Len(entries) : Verifies(proof, root) <=> root = anchored
=============================================================================
