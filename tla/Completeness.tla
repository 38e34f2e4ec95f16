----------------------------- MODULE Completeness -----------------------------
(* The authenticated ordered map over a branch's keys, and the proof that a    *)
(* range of it, or a key's absence, was answered in full (theta-storage        *)
(* completeness.rs; view.rs ordered_map; thetad engine.rs). Keys and values    *)
(* are numbers; a hash is the term it is the hash of.                          *)
EXTENDS Integers, SequencesExt

CONSTANTS Keys, Values

KeysAreOrdered == Keys \subseteq Nat /\ Values \subseteq Nat

VARIABLES rows     \* the branch's live keys and what they hold
vars == <<rows>>

Zero == <<"zero">>
Leaf(key, value) == <<"leaf", key, value>>
Node(left, right) == <<"node", left, right>>

\* ------------------------------------------------------------------- the map
Entries(m) == LET keys == SetToSortSeq(DOMAIN m, <)
              IN  [i \in 1..Len(keys) |-> [key |-> keys[i], value |-> m[keys[i]]]]

(* A level over another: neighbours in pairs, an odd last one carried up.      *)
Halved(n) == (n + 1) \div 2
Over(level) ==
  [i \in 1..Halved(Len(level)) |->
     IF 2 * i <= Len(level) THEN Node(level[2 * i - 1], level[2 * i]) ELSE level[2 * i - 1]]
Leaves(m) == [i \in 1..Len(Entries(m)) |-> Leaf(Entries(m)[i].key, Entries(m)[i].value)]
Levels(m) ==
  LET Grown(levels, n) ==
        LET top == levels[Len(levels)]
        IN  IF Len(top) <= 1 THEN levels ELSE Append(levels, Over(top))
  IN  FoldLeft(Grown, <<Leaves(m)>>, SetToSeq(DOMAIN m))
Root(m) == IF DOMAIN m = {} THEN Zero ELSE Levels(m)[Len(Levels(m))][1]

\* Indices count from 0, as the code's do.
Sibling(i) == IF i % 2 = 0 THEN i + 1 ELSE i - 1
Path(m, index) ==
  LET Climb(at, level) ==
        [index |-> at.index \div 2,
         path |-> IF Sibling(at.index) < Len(level)
                  THEN Append(at.path, level[Sibling(at.index) + 1]) ELSE at.path]
  IN  FoldLeft(Climb, [index |-> index, path |-> <<>>],
               SelectSeq(Levels(m), LAMBDA level : Len(level) > 1)).path
Proven(m, index) == [index |-> index, entry |-> Entries(m)[index + 1], path |-> Path(m, index)]
At0(m, index) == IF index \in 0..Cardinality(DOMAIN m) - 1 THEN <<Proven(m, index)>> ELSE <<>>

\* ------------------------------------------------------------------- proving
NoKey == -1
ProveRange(m, start, end) ==
  LET first == Cardinality({k \in DOMAIN m : k < start})
      last == Cardinality({k \in DOMAIN m : k < end})
  IN  [start |-> start, end |-> end, absent |-> NoKey, total |-> Cardinality(DOMAIN m),
       matched |-> IF last <= first THEN <<>>
                   ELSE [n \in 1..last - first |-> Proven(m, first + n - 1)],
       left |-> At0(m, first - 1), right |-> At0(m, last)]
ProveAbsent(m, key) == [ProveRange(m, key, key) EXCEPT !.absent = key]

\* ----------------------------------------------------------------- verifying
(* The root a path leads to, its shape fixed by the index and the total.       *)
Reconstruct(proven, total) ==
  LET Up(at) ==
        LET paired == Sibling(at.index) < at.width
            next == [at EXCEPT !.index = @ \div 2, !.width = Halved(@)]
        IN  IF ~paired THEN next
            ELSE IF at.path = <<>> THEN [next EXCEPT !.short = TRUE]
            ELSE [next EXCEPT !.path = Tail(@),
                              !.hash = IF at.index % 2 = 0 THEN Node(@, Head(at.path))
                                       ELSE Node(Head(at.path), @)]
      Climb(at, n) == IF at.short \/ at.width <= 1 THEN at ELSE Up(at)
      top == FoldLeft(Climb,
                      [index |-> proven.index, width |-> total, path |-> proven.path,
                       short |-> FALSE, hash |-> Leaf(proven.entry.key, proven.entry.value)],
                      [n \in 1..total |-> n])
  IN  IF top.short \/ top.path # <<>> THEN Zero ELSE top.hash

Carried(proof) == proof.left \o proof.matched \o proof.right
FollowsInOrder(a, b) == a.entry.key < b.entry.key   \* mutant: neighbours or not
Follows(a, b) == a.entry.key < b.entry.key /\ b.index = a.index + 1
BoundedBelow(proof) ==
  IF proof.left # <<>> THEN proof.left[1].entry.key < proof.start
  ELSE proof.matched = <<>> \/ proof.matched[1].index = 0
BoundedAbove(proof) ==
  LET last == proof.left \o proof.matched
  IN  IF proof.right # <<>> THEN proof.right[1].entry.key >= proof.end
      ELSE last = <<>> \/ last[Len(last)].index + 1 = proof.total
VerifyRange(proof, root) ==
  LET all == Carried(proof)
  IN  /\ \A i \in 1..Len(all) : Reconstruct(all[i], proof.total) = root
      /\ \A i \in 2..Len(all) : Follows(all[i - 1], all[i])
      /\ proof.absent # NoKey => \A i \in 1..Len(all) : all[i].entry.key # proof.absent
      /\ \A i \in 1..Len(proof.matched) :
           proof.matched[i].entry.key \in proof.start..proof.end - 1
      /\ BoundedBelow(proof) /\ BoundedAbove(proof)

\* -------------------------------------------------------------------- actions
Hold(key, value) == rows' = (key :> value) @@ rows
Drop(key) == key \in DOMAIN rows /\ rows' = Restrict(rows, DOMAIN rows \ {key})

Init == rows = <<>>
Next ==
  \/ \E key \in Keys, value \in Values : Hold(key, value)
  \/ \E key \in Keys : Drop(key)
Spec == Init /\ [][Next]_vars

\* ----------------------------------------------------------------- properties
Bounds == Keys \cup {Max(Keys) + 1}
Indices == 0..Cardinality(DOMAIN rows) - 1

(* Every proof the map gives of a range, or of a key it does not hold,         *)
(* verifies against its own root, and lists the range.                         *)
HonestProofsVerify ==
  \A start, end \in Bounds : start <= end =>
    LET proof == ProveRange(rows, start, end)
    IN  /\ VerifyRange(proof, Root(rows))
        /\ {proof.matched[i].entry.key : i \in 1..Len(proof.matched)}
             = {k \in DOMAIN rows : start <= k /\ k < end}
        /\ (start \notin DOMAIN rows) <=> VerifyRange(ProveAbsent(rows, start), Root(rows))

(* A proof put together from entries of the map verifies only if it lists      *)
(* every key of its range: one left out is missed by whatever neighbours and   *)
(* total are offered in its place (completeness.rs:331-439). A proof with      *)
(* neither a match nor a left neighbour is bounded by nothing below.           *)
NothingOmitted ==
  LET proven == [i \in Indices |-> Proven(rows, i)]
      root == Root(rows)
      MaybeOne == {<<>>} \cup {<<proven[i]>> : i \in Indices}
      Listed(matched) == {matched[n].entry.key : n \in 1..Len(matched)}
      Omits(start, end, matched) ==
        \E k \in DOMAIN rows \ Listed(matched) : start <= k /\ k < end
  IN  \A start, end \in Bounds : \A kept \in SUBSET Indices :
        LET matched == [n \in 1..Cardinality(kept) |-> proven[SetToSortSeq(kept, <)[n]]]
        IN  Omits(start, end, matched) =>
              \A left, right \in MaybeOne : \A total \in 0..Cardinality(DOMAIN rows) + 1 :
                matched \o left = <<>> \/
                ~VerifyRange([start |-> start, end |-> end, absent |-> NoKey, total |-> total,
                              matched |-> matched, left |-> left, right |-> right], root)

(* Two maps with one root hold the same rows.                                  *)
RootsTellMapsApart ==
  \A other \in UNION {[held -> Values] : held \in SUBSET Keys} :
    Root(other) = Root(rows) => other = rows
=============================================================================
