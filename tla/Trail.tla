------------------------------- MODULE Trail -------------------------------
(* The audit trail on disk (theta-safety store.rs): a header and one line for  *)
(* each entry, appended and synced, sealed under a key or not, and read back   *)
(* up to the first line that is not an entry. The engine logs an append that   *)
(* failed and carries on (engine.rs record_audit), so a line that was cut      *)
(* short, by an error or by the process ending, stays in the file.             *)
EXTENDS Integers, SequencesExt, FiniteSetsExt

CONSTANTS
  Risks,          \* a set of numbers; RiskLevel is ordered
  Keys, NoKey,    \* the keys a log may be opened with, or none
  Projects,       \* the projects an instance may serve
  Capacity,       \* RECENT_CAPACITY
  Tears,          \* whether an append may be cut short
  MaxEntries, MaxOpens, MaxClock  \* bounds
TrailAssumption ==
  /\ Risks \subseteq Nat /\ NoKey \notin Keys /\ Projects \cap {"absent", "empty", "torn"} = {}
  /\ Capacity \in Nat \ {0} /\ {MaxEntries, MaxOpens, MaxClock} \subseteq Nat
  /\ Tears \in BOOLEAN

VARIABLES
  header,   \* the first line: "absent", "empty", "torn" or a project
  lines,    \* the other lines, each the pieces written onto it
  ended,    \* whether the last line has its newline
  key,      \* the key of the instance that is up
  state,    \* "down", "up", or the error its open ended in
  recent, total,
  clock, opens,
  pieces,   \* how many were ever written
  appended  \* the entries whose append returned Ok, in order
vars == <<header, lines, ended, key, state, recent, total, clock, opens, pieces, appended>>
disk == <<header, lines, ended>>
memory == <<key, recent, total>>

NewEntry(risk) == [id |-> pieces + 1, risk |-> risk, at |-> clock]
Piece(entry, under, whole) == [entry |-> entry, under |-> under, whole |-> whole]

Init ==
  /\ header = "absent" /\ lines = <<>> /\ ended = TRUE
  /\ key = NoKey /\ state = "down" /\ recent = <<>> /\ total = 0
  /\ clock = 0 /\ opens = 0 /\ pieces = 0 /\ appended = <<>>

\* -------------------------------------------------------------------- open
(* read_line: one whole piece and nothing else; sealed, it opens under the key *)
(* that sealed it, and a plain one under any.                                  *)
ReadLineUnder(line, k) ==          \* mutant: a line of another key ends the trail quietly
  IF Len(line) # 1 \/ ~line[1].whole \/ line[1].under \notin {NoKey, k} THEN "unreadable" ELSE "entry"
ReadLine(line, k) ==
  IF Len(line) # 1 \/ ~line[1].whole THEN "unreadable"
  ELSE IF line[1].under \notin {NoKey, k} THEN "wrongkey"
  ELSE "entry"

(* How many lines are read before the first that is not an entry.              *)
Readable(k) ==
  Max({n \in 0..Len(lines) : \A i \in 1..n : ReadLine(lines[i], k) = "entry"})
WindowOfAll(entries) == entries   \* mutant: the window never moves
Window(entries) ==
  IF Len(entries) > Capacity THEN SubSeq(entries, Len(entries) - Capacity + 1, Len(entries))
  ELSE entries
EntriesRead(k) == [i \in 1..Readable(k) |-> lines[i][1].entry]

(* read_existing: what opening the file that is there comes to.                *)
Outcome(k, project) ==
  IF header \in {"empty", "torn"} THEN "malformed"
  ELSE IF header # project THEN "wrongproject"
  ELSE IF Readable(k) < Len(lines) /\ ReadLine(lines[Readable(k) + 1], k) = "wrongkey"
       THEN "wrongkey"
  ELSE "up"

(* open_with_key: a file that is not there is created with its header.         *)
Open(k, project) ==
  /\ state # "up"
  /\ opens < MaxOpens
  /\ opens' = opens + 1
  /\ IF header = "absent"
     THEN /\ state' = "up" /\ key' = k /\ recent' = <<>> /\ total' = 0
          /\ header' = project
     ELSE /\ state' = Outcome(k, project)
          /\ IF Outcome(k, project) = "up"
             THEN /\ key' = k /\ recent' = Window(EntriesRead(k)) /\ total' = Readable(k)
             ELSE UNCHANGED memory
          /\ UNCHANGED header
  /\ UNCHANGED <<lines, ended, clock, pieces, appended>>

(* The process ends between creating the file and syncing its header.          *)
DieCreating(left) ==
  /\ state = "down" /\ header = "absent" /\ Tears
  /\ opens < MaxOpens
  /\ opens' = opens + 1
  /\ header' = left
  /\ UNCHANGED <<lines, ended, memory, state, clock, pieces, appended>>

\* ------------------------------------------------------------------ append
(* What a write adds: a piece onto the line that has no end yet, or a new one. *)
Written(piece) ==
  IF ended THEN Append(lines, <<piece>>)
  ELSE [lines EXCEPT ![Len(lines)] = Append(@, piece)]

AppendEntry(risk) ==
  /\ state = "up"
  /\ pieces < MaxEntries
  /\ pieces' = pieces + 1
  /\ lines' = Written(Piece(NewEntry(risk), key, TRUE))
  /\ ended' = TRUE
  /\ recent' = Window(Append(recent, NewEntry(risk)))
  /\ total' = total + 1
  /\ appended' = Append(appended, NewEntry(risk))
  /\ UNCHANGED <<header, key, state, clock, opens>>

(* A write that is cut short, before its newline: an error the engine only     *)
(* logs, or the end of the process.                                            *)
CutShort(risk, whole, dies) ==
  /\ state = "up" /\ Tears
  /\ pieces < MaxEntries
  /\ pieces' = pieces + 1
  /\ lines' = Written(Piece(NewEntry(risk), key, whole))
  /\ ended' = FALSE
  /\ state' = IF dies THEN "down" ELSE "up"
  /\ UNCHANGED <<header, memory, clock, opens, appended>>

(* A write that was whole and never answered for: the process ended before, or *)
(* during, the sync.                                                           *)
Unanswered(risk) ==
  /\ state = "up"
  /\ pieces < MaxEntries
  /\ pieces' = pieces + 1
  /\ lines' = Written(Piece(NewEntry(risk), key, TRUE))
  /\ ended' = TRUE
  /\ state' = "down"
  /\ UNCHANGED <<header, memory, clock, opens, appended>>

Stop == state = "up" /\ state' = "down"
        /\ UNCHANGED <<disk, memory, clock, opens, pieces, appended>>
Tick == clock < MaxClock /\ clock' = clock + 1
        /\ UNCHANGED <<disk, memory, state, opens, pieces, appended>>

Next ==
  \/ \E k \in Keys \cup {NoKey}, p \in Projects : Open(k, p)
  \/ \E left \in {"empty", "torn"} : DieCreating(left)
  \/ \E r \in Risks : AppendEntry(r)
  \/ \E r \in Risks, whole \in BOOLEAN, dies \in BOOLEAN : CutShort(r, whole, dies)
  \/ \E r \in Risks : Unanswered(r)
  \/ Stop
  \/ Tick
Spec == Init /\ [][Next]_vars

\* ------------------------------------------------------------------ review
(* review: the riskiest first, and of those the newest.                        *)
Outranks(a, b) == a.risk > b.risk \/ (a.risk = b.risk /\ a.at > b.at)
Review(floor, limit) ==
  LET found == SortSeq(SelectSeq(recent, LAMBDA e : e.risk >= floor), Outranks)
  IN  SubSeq(found, 1, Min({limit, Len(found)}))

(* read_all: every plain line up to the first that is not an entry; a sealed   *)
(* one is not.                                                                 *)
ReadAll ==
  LET n == Max({m \in 0..Len(lines) :
                  \A i \in 1..m : ReadLine(lines[i], NoKey) = "entry"})
  IN  [i \in 1..n |-> lines[i][1].entry]

\* -------------------------------------------------------------- properties
TypeOK ==
  /\ header \in {"absent", "empty", "torn"} \cup Projects
  /\ state \in {"down", "up", "malformed", "wrongproject", "wrongkey"}
  /\ key \in Keys \cup {NoKey}
  /\ Len(recent) <= Capacity /\ Len(recent) <= total
  /\ pieces = MapThenSumSet(LAMBDA i : Len(lines[i]), DOMAIN lines)
  /\ \A i \in DOMAIN lines : lines[i] # <<>>
  /\ ended \in BOOLEAN /\ (lines = <<>> => ended)

(* While no line was cut short, every entry that was ever answered for is on a *)
(* line of its own, in the order they were answered, and an instance that is   *)
(* up shows the latest of them, its own and those of lives before it.          *)
Whole == \A i \in DOMAIN lines : Len(lines[i]) = 1 /\ lines[i][1].whole
LineOf(entry) == {i \in DOMAIN lines : lines[i][1].entry = entry}
AppendedSurvive ==
  Whole =>
    /\ \A i \in DOMAIN appended : LineOf(appended[i]) # {}
    /\ \A i, j \in DOMAIN appended : i < j =>
         \A m \in LineOf(appended[i]), n \in LineOf(appended[j]) : m < n
    /\ state = "up" => \A i \in DOMAIN appended :
         appended[i] \in {recent[j] : j \in DOMAIN recent} \/ appended[i].id <= pieces - Capacity

(* An open under the wrong key, or for another project, is refused and never   *)
(* answered with a shorter trail.                                              *)
NeverMisread ==
  state = "up" =>
    /\ header \in Projects
    /\ \A i \in DOMAIN lines :
         (\A j \in 1..i : Len(lines[j]) = 1 /\ lines[j][1].whole)
           => lines[i][1].under \in {NoKey, key}

\* What the file promises of what was appended to it.
LedgersHold == AppendedSurvive /\ NeverMisread

(* A review leaves out nothing at or above its floor that outranks what it     *)
(* lists, and lists the riskiest first.                                        *)
ReviewsTheRiskiest ==
  \A floor \in Risks, limit \in 0..Capacity :
    LET r == Review(floor, limit)
        In == {r[i] : i \in DOMAIN r}
        Left == {e \in {recent[i] : i \in DOMAIN recent} : e.risk >= floor} \ In
    IN  /\ \A i, j \in DOMAIN r : i < j => ~Outranks(r[j], r[i])
        /\ \A e \in Left, f \in In : ~Outranks(e, f)
        /\ Left # {} => Len(r) = limit
=============================================================================
