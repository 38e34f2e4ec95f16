--------------------------- MODULE ProposalsProofs ---------------------------
(***************************************************************************)
(* Proofs about Proposals, for every set of keys, changes and agents and    *)
(* every ceiling, window and cost:                                          *)
(*   - CeilingsAlwaysHold: reviews held and given stay within the ceilings, *)
(*     and the breaker's total is the rows of its window;                   *)
(*   - AnsweredStaysSpent: answering a review gives nothing back;           *)
(*   - UnconfirmedKeepsRows: what nobody confirmed removes no row;          *)
(*   - PromotionStaysInItsTable: a promotion moves the rows of its own      *)
(*     table only, if every change to a branch is to one table;             *)
(* and about the spend ledger (Ledgers), whose sums are Proposals' sums:    *)
(*   - TheLedgerHolds: what was spent is what was charged in the window, and*)
(*     work admitted alone fits under every ceiling.                        *)
(*                                                                          *)
(* The model's logs, effects and totals are folds.  The first half of the   *)
(* module gives each of them a table of its partial results, by induction   *)
(* on the length or the subset, and derives what the engine's code relies   *)
(* on: a longer log extends the view of a shorter one, a sum of costs is    *)
(* the sum over its parts.  The second half is the inductive invariant Inv  *)
(* and one lemma for each action; the last part follows a shadow branch and *)
(* its target from the fork to the promotion (Following).                   *)
(***************************************************************************)
EXTENDS Proposals, Ledgers, FiniteSetTheorems, SequenceTheorems, WellFoundedInduction, TLAPS

(* Induction without a predicate for a parameter: a set of numbers that holds *)
(* 0 and every successor is all of them, and a set of subsets that holds each *)
(* subset whose strict subsets it holds is all of them.                       *)
LEMMA LeastNatural ==
    ASSUME NEW T \in SUBSET Nat, T # {}
    PROVE  \E x \in T : \A y \in T : ~(y < x)
<1>1. PICK x \in T : \A y \in T : <<y, x>> \notin OpToRel(<, Nat)
    BY NatLessThanWellFounded, WFMin, Zenon
<1>2. ASSUME NEW y \in T, y < x PROVE <<y, x>> \in OpToRel(<, Nat)
    BY <1>2, Zenon DEF OpToRel
<1> QED
    BY <1>1, <1>2, Zenon

LEMMA Upward ==
    ASSUME NEW Q \in SUBSET Nat, 0 \in Q, \A n \in Q : n + 1 \in Q
    PROVE  Q = Nat
<1>1. SUFFICES ASSUME Nat \ Q # {} PROVE FALSE
    OBVIOUS
<1>2. PICK x \in Nat \ Q : \A y \in Nat \ Q : ~(y < x)
    BY <1>1, LeastNatural
<1>3. x # 0 /\ x - 1 \in Nat /\ x - 1 < x
    BY <1>2
<1> QED
    BY <1>2, <1>3

LEMMA SubsetsUpward ==
    ASSUME NEW S, IsFiniteSet(S), NEW Q \in SUBSET SUBSET S,
           \A T \in SUBSET S : (\A U \in SUBSET T : U # T => U \in Q) => T \in Q
    PROVE  Q = SUBSET S
<1>1. SUFFICES ASSUME (SUBSET S) \ Q # {} PROVE FALSE
    OBVIOUS
<1>2. IsWellFoundedOn(StrictSubsetOrdering(S), SUBSET S)
    BY FS_StrictSubsetOrderingWellFounded, FS_FiniteSubsetsOfFinite, Zenon
<1>3. PICK T \in (SUBSET S) \ Q : \A U \in (SUBSET S) \ Q : <<U, T>> \notin StrictSubsetOrdering(S)
  <2> DEFINE R == StrictSubsetOrdering(S)
             W == SUBSET S
             Bad == (SUBSET S) \ Q
  <2>1. Bad \subseteq W /\ Bad # {} /\ IsWellFoundedOn(R, W)
    BY <1>1, <1>2
  <2> HIDE DEF R, W, Bad
  <2>2. \E T \in Bad : \A U \in Bad : <<U, T>> \notin R
    BY <2>1, WFMin
  <2> QED
    BY <2>2 DEF R, Bad
<1>4. ASSUME NEW U \in SUBSET T, U # T PROVE U \in Q
    BY <1>3, <1>4 DEF StrictSubsetOrdering
<1> QED
    BY <1>3, <1>4

-----------------------------------------------------------------------------
(* Folds over a finite set.  MapThenSumSet and FoldLeft both choose the next   *)
(* element of what is left and recur on the rest; g tabulates the result for   *)
(* every subset.  There is such a table (FoldExists) and only one              *)
(* (FoldUnique), so the fold's own choice is that table.                       *)
Picks(pick, S) == \A s \in SUBSET S : s # {} => pick[s] \in s

IsFold(g, S, V, base, pick, step) ==
    /\ g \in [SUBSET S -> V]
    /\ \A s \in SUBSET S : g[s] = IF s = {} THEN base ELSE step[<<pick[s], g[s \ {pick[s]}]>>]

Follows(h, S, V, base, pick, step) ==
    /\ h[{}] = base
    /\ \A s \in SUBSET S :
          s # {} /\ h[s \ {pick[s]}] \in V => h[s] = step[<<pick[s], h[s \ {pick[s]}]>>]

LEMMA FoldExists ==
    ASSUME NEW S, IsFiniteSet(S), NEW V, NEW base, base \in V,
           NEW pick, Picks(pick, S), NEW step, step \in [S \X V -> V]
    PROVE  \E g : IsFold(g, S, V, base, pick, step)
<1> DEFINE D(n) == {s \in SUBSET S : Cardinality(s) <= n}
           Rule(g, s) == g[s] = IF s = {} THEN base ELSE step[<<pick[s], g[s \ {pick[s]}]>>]
           Q == {n \in Nat : \E g \in [D(n) -> V] : \A s \in D(n) : Rule(g, s)}
<1>1. \A s \in SUBSET S : Cardinality(s) \in Nat /\ (Cardinality(s) = 0 <=> s = {})
    BY FS_Subset, FS_CardinalityType, FS_EmptySet
<1>a. ASSUME NEW s \in SUBSET S, s # {}
      PROVE  s \ {pick[s]} \in SUBSET S /\ Cardinality(s \ {pick[s]}) = Cardinality(s) - 1
    BY <1>a, FS_Subset, FS_RemoveElement DEF Picks
<1>2. 0 \in Q
  <2>1. \A s \in D(0) : s = {}
    BY <1>1
  <2>2. [s \in D(0) |-> base] \in [D(0) -> V] /\ \A s \in D(0) : Rule([t \in D(0) |-> base], s)
    BY <2>1
  <2> QED
    BY <2>2
<1>3. ASSUME NEW n \in Q PROVE n + 1 \in Q
  <2>1. PICK g \in [D(n) -> V] : \A s \in D(n) : Rule(g, s)
    BY <1>3
  <2> DEFINE h == [s \in D(n + 1) |-> IF s = {} THEN base ELSE step[<<pick[s], g[s \ {pick[s]}]>>]]
  <2>2. \A s \in D(n + 1) : s # {} => s \ {pick[s]} \in D(n) /\ pick[s] \in S
    BY <1>1, <1>a DEF Picks
  <2>3. h \in [D(n + 1) -> V]
    BY <2>2
  <2>4. \A s \in D(n) : s \in D(n + 1) /\ h[s] = g[s]
    <3>1. n \in Nat /\ \A s \in D(n) : s \in D(n + 1)
      BY <1>1
    <3>2. \A s \in D(n) : Rule(g, s)
      BY <2>1
    <3>3. \A s \in D(n + 1) : h[s] = IF s = {} THEN base ELSE step[<<pick[s], g[s \ {pick[s]}]>>]
      OBVIOUS
    <3> HIDE DEF h, D
    <3> QED
      BY <3>1, <3>2, <3>3
  <2>5. \A s \in D(n + 1) : Rule(h, s)
    <3> SUFFICES ASSUME NEW s \in D(n + 1) PROVE Rule(h, s)
      OBVIOUS
    <3>1. h[s] = IF s = {} THEN base ELSE step[<<pick[s], g[s \ {pick[s]}]>>]
      OBVIOUS
    <3>2. s # {} => h[s \ {pick[s]}] = g[s \ {pick[s]}]
      BY <2>2, <2>4
    <3> QED
      BY <3>1, <3>2
  <2>6. n + 1 \in Nat
    BY <1>3
  <2> QED
    BY <2>3, <2>5, <2>6
<1>4. Q = Nat
  <2> HIDE DEF Q
  <2>1. Q \in SUBSET Nat
    BY DEF Q
  <2> QED
    BY <1>2, <1>3, <2>1, Upward
<1>5. Cardinality(S) \in Q
    BY <1>1, <1>4
<1>6. D(Cardinality(S)) = SUBSET S
    BY FS_Subset, FS_CardinalityType
<1> QED
    BY <1>5, <1>6 DEF IsFold

SameFold(h, g, S) == \A s \in SUBSET S : h[s] = g[s]

LEMMA FoldUnique ==
    ASSUME NEW S, IsFiniteSet(S), NEW V, NEW base, NEW pick, Picks(pick, S), NEW step,
           NEW g, IsFold(g, S, V, base, pick, step),
           NEW h, Follows(h, S, V, base, pick, step)
    PROVE  SameFold(h, g, S)
<1> DEFINE Q == {s \in SUBSET S : h[s] = g[s]}
<1>1. ASSUME NEW T \in SUBSET S, \A U \in SUBSET T : U # T => U \in Q
      PROVE  T \in Q
  <2>1. CASE T = {}
    BY <2>1 DEF IsFold, Follows
  <2>2. CASE T # {}
    <3>1. T \ {pick[T]} \in SUBSET T /\ T \ {pick[T]} # T
      BY <2>2 DEF Picks
    <3>2. h[T \ {pick[T]}] = g[T \ {pick[T]}] /\ g[T \ {pick[T]}] \in V
      BY <1>1, <3>1 DEF IsFold
    <3> QED
      BY <2>2, <3>2 DEF IsFold, Follows
  <2> QED
    BY <2>1, <2>2
<1>2. Q = SUBSET S
  <2> HIDE DEF Q
  <2>1. Q \in SUBSET SUBSET S
    BY DEF Q
  <2> QED
    BY <1>1, <2>1, SubsetsUpward
<1> QED
    BY <1>2 DEF SameFold

-----------------------------------------------------------------------------
(* FoldLeft over a sequence folds over its indices, greatest first: the table  *)
(* along the prefixes 1..n is all that matters (PrefixFold).                   *)
LEMMA MaxOfInterval ==
    ASSUME NEW n \in Nat, NEW s \in SUBSET (1..n), s # {}
    PROVE  Max(s) \in s /\ \A y \in s : Max(s) >= y
<1> DEFINE T == {n - x : x \in s}
<1>1. T \in SUBSET Nat /\ T # {}
  <2>1. \A x \in s : x \in Int /\ n - x \in Nat
    OBVIOUS
  <2> QED
    BY <2>1
<1>2. PICK t \in T : \A y \in T : ~(y < t)
    BY <1>1, LeastNatural
<1>3. PICK x \in s : t = n - x
    BY <1>2
<1>4. ASSUME NEW y \in s PROVE x >= y
  <2>1. n - y \in T /\ ~(n - y < n - x)
    BY <1>2, <1>3
  <2>2. x \in 1..n /\ y \in 1..n
    BY <1>3
  <2> HIDE DEF T
  <2> QED
    BY <2>1, <2>2
<1> QED
    BY <1>4 DEF Max

LEMMA MaxOfPrefix ==
    ASSUME NEW n \in Nat, NEW k \in 1..n
    PROVE  Max(1..k) = k /\ (1..k) \ {Max(1..k)} = 1..(k - 1)
<1>1. k \in Nat /\ (1..k) \in SUBSET (1..k) /\ 1..k # {}
    OBVIOUS
<1>2. Max(1..k) \in 1..k /\ \A y \in 1..k : Max(1..k) >= y
  <2> DEFINE s == 1..k
  <2> HIDE DEF s
  <2>1. s \in SUBSET (1..k) /\ s # {}
    BY <1>1 DEF s
  <2>2. Max(s) \in s /\ \A y \in s : Max(s) >= y
    BY <1>1, <2>1, MaxOfInterval
  <2> QED
    BY <2>2 DEF s
<1> QED
    BY <1>2

LEMMA UpTo ==
    ASSUME NEW n \in Nat, NEW Q, 0 \in Q, \A i \in 1..n : i - 1 \in Q => i \in Q
    PROVE  \A i \in 0..n : i \in Q
<1> DEFINE N == {i \in Nat : i <= n => i \in Q}
<1>1. 0 \in N
    OBVIOUS
<1>2. \A i \in N : i + 1 \in N
  <2> SUFFICES ASSUME NEW i \in N, i + 1 <= n PROVE i + 1 \in Q
    OBVIOUS
  <2>1. i + 1 \in 1..n /\ (i + 1) - 1 = i /\ i \in Q
    OBVIOUS
  <2> QED
    BY <2>1
<1>3. N \in SUBSET Nat
    OBVIOUS
<1> HIDE DEF N
<1>4. N = Nat
    BY <1>1, <1>2, <1>3, Upward
<1> QED
    BY <1>4 DEF N

LEMMA PrefixesAgree ==
    ASSUME NEW n \in Nat, NEW P, NEW R, P[0] = R[0],
           \A k \in 1..n : P[k - 1] = R[k - 1] => P[k] = R[k]
    PROVE  \A k \in 0..n : P[k] = R[k]
<1> DEFINE Q == {k \in Nat : k <= n => P[k] = R[k]}
<1>1. 0 \in Q
    OBVIOUS
<1>2. \A k \in Q : k + 1 \in Q
  <2> SUFFICES ASSUME NEW k \in Q, k + 1 <= n PROVE P[k + 1] = R[k + 1]
    OBVIOUS
  <2>1. k + 1 \in 1..n /\ (k + 1) - 1 = k /\ P[k] = R[k]
    OBVIOUS
  <2> QED
    BY <2>1
<1>3. Q = Nat
  <2> HIDE DEF Q
  <2>1. Q \in SUBSET Nat
    BY DEF Q
  <2> QED
    BY <1>1, <1>2, <2>1, Upward
<1> QED
    BY <1>3

PickMax(n) == [s \in SUBSET (1..n) |-> Max(s)]

PrefixesOf(P, g, n, V, base, step) ==
    /\ IsFold(g, 1..n, V, base, PickMax(n), step)
    /\ P \in [0..n -> V]
    /\ P[0] = base
    /\ \A k \in 1..n : P[k] = step[<<k, P[k - 1]>>]
    /\ \A h : Follows(h, 1..n, V, base, PickMax(n), step) => h[1..n] = P[n]

LEMMA FoldStep ==
    ASSUME NEW n, NEW V, NEW base, NEW step, NEW P, NEW g, PrefixesOf(P, g, n, V, base, step),
           NEW T \in SUBSET (1..n), T # {}, NEW top \in T, PickMax(n)[T] = top
    PROVE  g[T] = step[<<top, g[T \ {top}]>>] /\ g[T \ {top}] \in V
<1>1. g \in [SUBSET (1..n) -> V] /\ g[T] = step[<<top, g[T \ {top}]>>]
    BY DEF IsFold, PrefixesOf
<1>2. T \ {top} \in SUBSET (1..n)
    OBVIOUS
<1> QED
    BY <1>1, <1>2

LEMMA PrefixFold ==
    ASSUME NEW n \in Nat, NEW V, NEW base, base \in V, NEW step, step \in [(1..n) \X V -> V]
    PROVE  \E g, P : PrefixesOf(P, g, n, V, base, step)
<1> DEFINE S == 1..n
           pick == PickMax(n)
<1>1. IsFiniteSet(S) /\ step \in [S \X V -> V]
    BY FS_Interval
<1>2. Picks(pick, S)
    BY MaxOfInterval DEF Picks, PickMax
<1>3. PICK g : IsFold(g, S, V, base, pick, step)
  <2> HIDE DEF S, pick
  <2> QED
    BY <1>1, <1>2, FoldExists
<1> DEFINE P == [k \in 0..n |-> g[1..k]]
<1>4. P \in [0..n -> V] /\ P[0] = base
  <2>1. 1..0 = {} /\ {} \in SUBSET S /\ \A k \in 0..n : (1..k) \in SUBSET S
    OBVIOUS
  <2>2. g[{}] = base /\ \A k \in 0..n : g[1..k] \in V
    BY <1>3, <2>1 DEF IsFold
  <2> QED
    BY <2>1, <2>2
<1>5. ASSUME NEW k \in 1..n PROVE P[k] = step[<<k, P[k - 1]>>]
  <2>1. (1..k) \in SUBSET S /\ 1..k # {}
    OBVIOUS
  <2>2. pick[1..k] = k /\ (1..k) \ {pick[1..k]} = 1..(k - 1)
    BY <2>1, MaxOfPrefix DEF PickMax
  <2>3. g[1..k] = step[<<k, g[1..(k - 1)]>>]
    BY <1>3, <2>1, <2>2 DEF IsFold
  <2>4. k \in 0..n /\ k - 1 \in 0..n /\ P[k] = g[1..k] /\ P[k - 1] = g[1..(k - 1)]
    OBVIOUS
  <2> QED
    BY <2>3, <2>4
<1>6. ASSUME NEW h, Follows(h, S, V, base, pick, step) PROVE h[1..n] = P[n]
  <2>1. SameFold(h, g, S)
    <3> HIDE DEF S, pick
    <3> QED
      BY <1>1, <1>2, <1>3, <1>6, FoldUnique
  <2>2. S \in SUBSET S /\ P[n] = g[S]
    OBVIOUS
  <2> QED
    BY <2>1, <2>2 DEF SameFold
<1> HIDE DEF P
<1> QED
    BY <1>3, <1>4, <1>5, <1>6 DEF PrefixesOf

-----------------------------------------------------------------------------
(* Sums of costs: of a union, of a part, of a set whose members are renamed.   *)
Sum(R) == MapThenSumSet(LAMBDA r : r.cost, R)

PickAny(R) == [s \in SUBSET R |-> CHOOSE x \in s : TRUE]
AddCost(R) == [p \in R \X Nat |-> p[1].cost + p[2]]

IsSum(g, R) == IsFold(g, R, Nat, 0, PickAny(R), AddCost(R))

LEMMA SumExists ==
    ASSUME NEW R, IsFiniteSet(R), \A r \in R : r.cost \in Nat
    PROVE  /\ Picks(PickAny(R), R)
           /\ AddCost(R) \in [R \X Nat -> Nat]
           /\ \E g : IsSum(g, R)
<1>1. Picks(PickAny(R), R)
    BY DEF Picks, PickAny
<1>2. AddCost(R) \in [R \X Nat -> Nat]
    BY DEF AddCost
<1>3. 0 \in Nat
    OBVIOUS
<1> QED
    BY <1>1, <1>2, <1>3, FoldExists DEF IsSum

LEMMA SumIsFold ==
    ASSUME NEW R, IsFiniteSet(R), \A r \in R : r.cost \in Nat, NEW g, IsSum(g, R)
    PROVE  Sum(R) = g[R]
<1> DEFINE Raw(h) == [s \in SUBSET R |->
               IF s = {} THEN 0 ELSE (CHOOSE x \in s : TRUE).cost + h[s \ {CHOOSE x \in s : TRUE}]]
<1>1. Raw(g) = g
  <2>1. ASSUME NEW s \in SUBSET R, s # {}
        PROVE  g[s] = (CHOOSE x \in s : TRUE).cost + g[s \ {CHOOSE x \in s : TRUE}]
    BY <2>1 DEF IsSum, IsFold, PickAny, AddCost
  <2> QED
    BY <2>1 DEF IsSum, IsFold
<1>2. ASSUME NEW h, h = Raw(h) PROVE h = g
  <2>1. Follows(h, R, Nat, 0, PickAny(R), AddCost(R))
    BY <1>2 DEF Follows, PickAny, AddCost
  <2>2. Picks(PickAny(R), R) /\ IsFold(g, R, Nat, 0, PickAny(R), AddCost(R))
    BY SumExists DEF IsSum
  <2>3. SameFold(h, g, R)
    BY <2>1, <2>2, FoldUnique
  <2> QED
    BY <1>2, <2>3 DEF IsSum, IsFold, SameFold
<1>3. \A h : (h = Raw(h)) <=> h = g
    BY <1>1, <1>2
<1> QED
    BY <1>3 DEF Sum, MapThenSumSet, MapThenFoldSet

LEMMA SumOfPart ==
    ASSUME NEW R, IsFiniteSet(R), \A r \in R : r.cost \in Nat, NEW g, IsSum(g, R),
           NEW T \in SUBSET R
    PROVE  Sum(T) = g[T]
<1>1. IsFiniteSet(T)
    BY FS_Subset
<1>2. PICK k : IsSum(k, T)
    BY <1>1, SumExists
<1>3. Follows(g, T, Nat, 0, PickAny(T), AddCost(T))
    BY DEF IsSum, IsFold, Follows, PickAny, AddCost
<1>4. Picks(PickAny(T), T) /\ IsFold(k, T, Nat, 0, PickAny(T), AddCost(T))
    BY <1>1, <1>2, SumExists DEF IsSum
<1>5. SameFold(g, k, T)
    BY <1>1, <1>3, <1>4, FoldUnique
<1> QED
    BY <1>1, <1>2, <1>5, SumIsFold DEF SameFold

LEMMA SumUnfolds ==
    ASSUME NEW R, IsFiniteSet(R), \A r \in R : r.cost \in Nat
    PROVE  /\ Sum(R) \in Nat
           /\ Sum({}) = 0
           /\ R # {} => \E x \in R : Sum(R) = x.cost + Sum(R \ {x})
<1>1. PICK g : IsSum(g, R)
    BY SumExists
<1>2. Sum(R) = g[R] /\ Sum({}) = g[{}] /\ \A x \in R : Sum(R \ {x}) = g[R \ {x}]
  <2>1. R \in SUBSET R /\ {} \in SUBSET R /\ \A x \in R : R \ {x} \in SUBSET R
    OBVIOUS
  <2> QED
    BY <1>1, <2>1, SumOfPart
<1>3. g[R] \in Nat /\ g[{}] = 0
    BY <1>1 DEF IsSum, IsFold
<1>4. ASSUME R # {} PROVE \E x \in R : g[R] = x.cost + g[R \ {x}]
  <2> DEFINE x == PickAny(R)[R]
  <2>1. x \in R
    BY <1>4, SumExists DEF Picks
  <2>2. g[R] = AddCost(R)[<<x, g[R \ {x}]>>] /\ g[R \ {x}] \in Nat
    BY <1>1, <1>4 DEF IsSum, IsFold
  <2> HIDE DEF x
  <2>3. g[R] = x.cost + g[R \ {x}]
    BY <2>1, <2>2 DEF AddCost
  <2> QED
    BY <2>1, <2>3
<1> QED
    BY <1>2, <1>3, <1>4

Costed(R) == IsFiniteSet(R) /\ \A r \in R : r.cost \in Nat

LEMMA CostedParts ==
    ASSUME NEW R, Costed(R), NEW T \in SUBSET R
    PROVE  Costed(T) /\ Sum(T) \in Nat
    BY FS_Subset, SumUnfolds DEF Costed

LEMMA SumTakes ==
    ASSUME NEW R, Costed(R), NEW x \in R
    PROVE  Sum(R) = x.cost + Sum(R \ {x})
<1> DEFINE Q == {T \in SUBSET R : \A y \in T : Sum(T) = y.cost + Sum(T \ {y})}
<1>1. ASSUME NEW T \in SUBSET R, \A U \in SUBSET T : U # T => U \in Q,
             NEW y \in T
      PROVE  Sum(T) = y.cost + Sum(T \ {y})
  <2>1. PICK z \in T : Sum(T) = z.cost + Sum(T \ {z})
    BY CostedParts, SumUnfolds DEF Costed
  <2>2. CASE z = y
    BY <2>1, <2>2
  <2>3. CASE z # y
    <3>1. T \ {y} \in Q /\ T \ {z} \in Q /\ z \in T \ {y} /\ y \in T \ {z}
      BY <1>1, <2>3
    <3> DEFINE W == (T \ {y}) \ {z}
    <3>2. Sum(T \ {y}) = z.cost + Sum(W)
      BY <3>1
    <3>3. Sum(T \ {z}) = y.cost + Sum(W)
      <4>1. (T \ {z}) \ {y} = W
        OBVIOUS
      <4>2. Sum(T \ {z}) = y.cost + Sum((T \ {z}) \ {y})
        BY <3>1
      <4> QED
        BY <4>1, <4>2
    <3>4. Sum(W) \in Nat /\ y.cost \in Nat /\ z.cost \in Nat
      BY CostedParts DEF Costed
    <3> HIDE DEF W
    <3> QED
      BY <2>1, <3>2, <3>3, <3>4
  <2> QED
    BY <2>2, <2>3
<1>2. Q = SUBSET R
  <2>1. \A T \in SUBSET R : (\A U \in SUBSET T : U # T => U \in Q) => T \in Q
    BY <1>1
  <2>2. Q \in SUBSET SUBSET R /\ IsFiniteSet(R)
    BY DEF Costed
  <2> HIDE DEF Q
  <2> QED
    BY <2>1, <2>2, SubsetsUpward
<1> QED
  <2>1. R \in Q
    BY <1>2
  <2> QED
    BY <2>1

LEMMA SumUnion ==
    ASSUME NEW A, NEW B, Costed(A \cup B)
    PROVE  /\ Sum(A \cup B) <= Sum(A) + Sum(B)
           /\ A \cap B = {} => Sum(A \cup B) = Sum(A) + Sum(B)
<1> DEFINE R == A \cup B
           Q == {T \in SUBSET R : /\ Sum(A \cup T) <= Sum(A) + Sum(T)
                                  /\ A \cap T = {} => Sum(A \cup T) = Sum(A) + Sum(T)}
<1>1. ASSUME NEW T \in SUBSET R, \A U \in SUBSET T : U # T => U \in Q
      PROVE  T \in Q
  <2>1. CASE T = {}
    <3>1. A \cup T = A /\ Sum(A) \in Nat /\ Sum(T) = 0
      BY <2>1, CostedParts, SumUnfolds DEF Costed
    <3> QED
      BY <3>1
  <2>2. CASE T # {}
    <3>1. PICK x \in T : TRUE
      BY <2>2
    <3> DEFINE U == T \ {x}
    <3>2. U \in SUBSET T /\ U # T /\ U \in SUBSET R /\ A \cup T \in SUBSET R /\ A \cup U \in SUBSET R
      OBVIOUS
    <3>3. /\ Sum(A \cup U) <= Sum(A) + Sum(U)
          /\ A \cap U = {} => Sum(A \cup U) = Sum(A) + Sum(U)
      BY <1>1, <3>2
    <3>4. Sum(T) = x.cost + Sum(U)
      BY CostedParts, SumTakes
    <3>5. /\ Sum(A) \in Nat /\ Sum(U) \in Nat /\ Sum(A \cup U) \in Nat /\ x.cost \in Nat
          /\ Costed(A \cup T)
      BY <3>2, CostedParts DEF Costed
    <3>6. CASE x \in A
      <4>1. A \cup T = A \cup U /\ A \cap T # {}
        BY <3>6
      <4>2. Sum(A \cup T) = Sum(A \cup U)
        BY <4>1
      <4>3. Sum(A \cup T) <= Sum(A) + Sum(T)
        BY <3>3, <3>4, <3>5, <4>2
      <4> QED
        BY <4>1, <4>3
    <3>7. CASE x \notin A
      <4>1. (A \cup T) \ {x} = A \cup U /\ (A \cap T = {} => A \cap U = {})
        BY <3>7
      <4>2. Sum(A \cup T) = x.cost + Sum(A \cup U)
        BY <3>5, <4>1, SumTakes
      <4> QED
        BY <3>3, <3>4, <3>5, <4>1, <4>2
    <3> QED
      BY <3>6, <3>7
  <2> QED
    BY <2>1, <2>2
<1>2. Q = SUBSET R
  <2>2. Q \in SUBSET SUBSET R /\ IsFiniteSet(R)
    BY DEF Costed
  <2> HIDE DEF Q, R
  <2> QED
    BY <1>1, <2>2, SubsetsUpward
<1> QED
  <2>1. B \in Q
    BY <1>2
  <2> QED
    BY <2>1

LEMMA SumMonotone ==
    ASSUME NEW R, Costed(R), NEW T \in SUBSET R
    PROVE  Sum(T) <= Sum(R)
<1>1. T \cup (R \ T) = R /\ T \cap (R \ T) = {}
    OBVIOUS
<1>2. Sum(R) = Sum(T) + Sum(R \ T)
    BY <1>1, SumUnion
<1>3. Sum(T) \in Nat /\ Sum(R \ T) \in Nat
    BY CostedParts
<1> QED
    BY <1>2, <1>3

LEMMA SumOfOne ==
    ASSUME NEW x, x.cost \in Nat
    PROVE  Costed({x}) /\ Sum({x}) = x.cost
<1>1. Costed({x})
    BY FS_Singleton DEF Costed
<1>2. {x} \ {x} = {} /\ Sum({}) = 0
    BY <1>1, SumUnfolds DEF Costed
<1>3. Sum({x}) = x.cost + Sum({x} \ {x})
    BY <1>1, SumTakes
<1> QED
    BY <1>1, <1>2, <1>3

LEMMA SumOfImage ==
    ASSUME NEW R, Costed(R), NEW f, \A r \in R : f[r].cost = r.cost
    PROVE  Costed({f[r] : r \in R}) /\ Sum({f[r] : r \in R}) <= Sum(R)
<1> DEFINE I(T) == {f[r] : r \in T}
           Q == {T \in SUBSET R : Costed(I(T)) /\ Sum(I(T)) <= Sum(T)}
<1>1. ASSUME NEW T \in SUBSET R, \A U \in SUBSET T : U # T => U \in Q
      PROVE  T \in Q
  <2>1. CASE T = {}
    <3>1. I(T) = {} /\ Costed({}) /\ Sum({}) = 0
      BY <2>1, CostedParts, SumUnfolds DEF Costed
    <3> QED
      BY <2>1, <3>1
  <2>2. CASE T # {}
    <3>1. PICK x \in T : TRUE
      BY <2>2
    <3> DEFINE U == T \ {x}
    <3>2. Costed(I(U)) /\ Sum(I(U)) <= Sum(U)
      BY <1>1, U \in SUBSET T, U # T
    <3>3. I(T) = I(U) \cup {f[x]}
      OBVIOUS
    <3>4. x.cost \in Nat /\ f[x].cost = x.cost /\ Sum(T) = x.cost + Sum(U) /\ Sum(U) \in Nat
      BY CostedParts, SumTakes DEF Costed
    <3>5. Costed({f[x]}) /\ Sum({f[x]}) = x.cost /\ Sum(I(U)) \in Nat
      BY <3>2, <3>4, SumOfOne, CostedParts
    <3>6. Costed(I(T))
      <4>1. IsFiniteSet(I(U)) /\ IsFiniteSet({f[x]}) /\ \A y \in I(U) \cup {f[x]} : y.cost \in Nat
        BY <3>2, <3>5 DEF Costed
      <4> HIDE DEF I
      <4>2. IsFiniteSet(I(U) \cup {f[x]})
        BY <4>1, FS_AddElement, Zenon
      <4> QED
        BY <3>3, <4>1, <4>2 DEF Costed
    <3>7. Sum(I(T)) <= Sum(I(U)) + Sum({f[x]}) /\ Sum(I(T)) \in Nat
      BY <3>3, <3>6, SumUnion, CostedParts
    <3> HIDE DEF I
    <3> QED
      BY <3>2, <3>4, <3>5, <3>6, <3>7
  <2> QED
    BY <2>1, <2>2
<1>2. Q = SUBSET R
  <2>2. Q \in SUBSET SUBSET R /\ IsFiniteSet(R)
    BY DEF Costed
  <2> HIDE DEF Q
  <2> QED
    BY <1>1, <2>2, SubsetsUpward
<1> QED
  <2>1. R \in Q
    BY <1>2
  <2> QED
    BY <2>1

-----------------------------------------------------------------------------
(* The rows of the breaker's samples, and what evicting a prefix leaves.       *)
Sample == [at : 0..MaxTime, rows : Nat]

RowsAlong(P, s) ==
    /\ P \in [0..Len(s) -> Nat]
    /\ P[0] = 0
    /\ \A k \in 1..Len(s) : P[k] = P[k - 1] + s[k].rows

LEMMA RowsFold ==
    ASSUME NEW s \in Seq(Sample)
    PROVE  \E P : RowsAlong(P, s) /\ RowsOf(s) = P[Len(s)]
<1> DEFINE n == Len(s)
           step == [p \in (1..n) \X Nat |-> p[2] + s[p[1]].rows]
           Raw(h) == [T \in SUBSET (1..n) |-> IF T = {} THEN 0 ELSE h[T \ {Max(T)}] + s[Max(T)].rows]
<1>1. n \in Nat /\ DOMAIN s = 1..n /\ \A i \in 1..n : s[i] \in Sample /\ s[i].rows \in Nat
  <2>1. \A r \in Sample : r.rows \in Nat
    BY DEF Sample
  <2>2. n \in Nat /\ DOMAIN s = 1..n /\ \A i \in 1..n : s[i] \in Sample
    OBVIOUS
  <2> QED
    BY <2>1, <2>2
<1>2. 0 \in Nat /\ step \in [(1..n) \X Nat -> Nat]
    BY <1>1
<1>3. PICK g, P : PrefixesOf(P, g, n, Nat, 0, step)
  <2> HIDE DEF n, step
  <2>1. n \in Nat
    BY <1>1
  <2> QED
    BY <1>2, <2>1, PrefixFold
<1>4. \A T \in SUBSET (1..n) : T # {} => Max(T) \in T /\ Max(T) \in 1..n /\ PickMax(n)[T] = Max(T)
    BY <1>1, MaxOfInterval DEF PickMax
<1>5. g = Raw(g)
  <2>1. ASSUME NEW T \in SUBSET (1..n), T # {} PROVE g[T] = g[T \ {Max(T)}] + s[Max(T)].rows
    <3>1. g[T] = step[<<Max(T), g[T \ {Max(T)}]>>] /\ g[T \ {Max(T)}] \in Nat
      <4>1. Max(T) \in T /\ PickMax(n)[T] = Max(T)
        BY <1>4, <2>1
      <4> HIDE DEF n, step
      <4> QED
        BY <1>3, <2>1, <4>1, FoldStep
    <3>2. Max(T) \in 1..n
      BY <1>4, <2>1
    <3> QED
      BY <3>1, <3>2
  <2> QED
    BY <1>3, <2>1 DEF IsFold, PrefixesOf
<1>6. ASSUME NEW h, h = Raw(h) PROVE h[1..n] = P[n]
  <2>1. Follows(h, 1..n, Nat, 0, PickMax(n), step)
    BY <1>4, <1>6 DEF Follows
  <2> QED
    BY <1>3, <2>1 DEF PrefixesOf
<1>7. (CHOOSE h : h = Raw(h))[1..n] = P[n]
    BY <1>5, <1>6
<1>8. RowsOf(s) = P[n]
    BY <1>1, <1>7 DEF RowsOf, FoldLeft, MapThenFoldSet
<1>9. ASSUME NEW k \in 1..n PROVE P[k] = P[k - 1] + s[k].rows
  <2>1. k - 1 \in 0..n
    BY <1>1
  <2>2. P[k - 1] \in Nat /\ P[k] = step[<<k, P[k - 1]>>]
    BY <1>3, <2>1 DEF PrefixesOf
  <2> QED
    BY <2>2
<1> QED
    BY <1>3, <1>8, <1>9 DEF PrefixesOf, RowsAlong

LEMMA RowsAre ==
    ASSUME NEW s \in Seq(Sample), NEW R, RowsAlong(R, s)
    PROVE  RowsOf(s) = R[Len(s)] /\ RowsOf(s) \in Nat
<1>1. PICK P : RowsAlong(P, s) /\ RowsOf(s) = P[Len(s)]
    BY RowsFold
<1>2. Len(s) \in Nat /\ P[0] = R[0] /\ \A k \in 1..Len(s) : P[k - 1] = R[k - 1] => P[k] = R[k]
    BY <1>1 DEF RowsAlong
<1>3. \A k \in 0..Len(s) : P[k] = R[k]
  <2> DEFINE n == Len(s)
  <2>1. n \in Nat /\ P[0] = R[0] /\ \A k \in 1..n : P[k - 1] = R[k - 1] => P[k] = R[k]
    BY <1>2
  <2> HIDE DEF n
  <2>2. \A k \in 0..n : P[k] = R[k]
    BY <2>1, PrefixesAgree, SMTT(20)
  <2> QED
    BY <2>2 DEF n
<1>4. Len(s) \in 0..Len(s)
    OBVIOUS
<1> QED
    BY <1>1, <1>3, <1>4 DEF RowsAlong

LEMMA RowsOfNone == RowsOf(<<>>) = 0
<1>1. <<>> \in Seq(Sample) /\ Len(<<>>) = 0
    OBVIOUS
<1>2. PICK P : RowsAlong(P, <<>>) /\ RowsOf(<<>>) = P[Len(<<>>)]
    BY <1>1, RowsFold
<1> QED
    BY <1>1, <1>2 DEF RowsAlong

LEMMA RowsOfAppend ==
    ASSUME NEW s \in Seq(Sample), NEW x \in Sample
    PROVE  RowsOf(Append(s, x)) = RowsOf(s) + x.rows
<1> DEFINE t == Append(s, x)
           n == Len(s)
<1>1. n \in Nat /\ t \in Seq(Sample) /\ Len(t) = n + 1 /\ t[n + 1] = x /\ \A k \in 1..n : t[k] = s[k]
    OBVIOUS
<1>2. PICK P : RowsAlong(P, t) /\ RowsOf(t) = P[Len(t)]
    BY <1>1, RowsFold
<1> DEFINE R == [k \in 0..n |-> P[k]]
<1> HIDE DEF t
<1>3. RowsAlong(R, s)
  <2>1. \A k \in 0..n : k \in 0..Len(t)
    BY <1>1
  <2>2. R \in [0..n -> Nat] /\ R[0] = 0
    <3>1. P \in [0..Len(t) -> Nat] /\ P[0] = 0
      BY <1>2 DEF RowsAlong
    <3>2. 0 \in 0..n
      BY <1>1
    <3> HIDE DEF n
    <3> QED
      BY <2>1, <3>1, <3>2
  <2>3. ASSUME NEW k \in 1..n PROVE R[k] = R[k - 1] + s[k].rows
    <3>1. k \in 1..Len(t) /\ k \in 0..n /\ k - 1 \in 0..n
      BY <1>1
    <3>2. P[k] = P[k - 1] + t[k].rows
      BY <1>2, <3>1 DEF RowsAlong
    <3> QED
      BY <1>1, <3>1, <3>2
  <2> QED
    BY <2>2, <2>3 DEF RowsAlong
<1>4. RowsOf(s) = P[n]
  <2>1. RowsOf(s) = R[n] /\ n \in 0..n
    BY <1>1, <1>3, RowsAre
  <2> QED
    BY <2>1
<1>5. P[n + 1] = P[(n + 1) - 1] + x.rows
    BY <1>1, <1>2 DEF RowsAlong
<1>6. RowsOf(t) = RowsOf(s) + x.rows
    BY <1>1, <1>2, <1>4, <1>5
<1> QED
    BY <1>6 DEF t

LEMMA RowsOfParts ==
    ASSUME NEW s \in Seq(Sample), NEW n \in 0..Len(s)
    PROVE  /\ SubSeq(s, n + 1, Len(s)) \in Seq(Sample)
           /\ RowsOf(SubSeq(s, 1, n)) \in Nat
           /\ RowsOf(SubSeq(s, n + 1, Len(s))) \in Nat
           /\ RowsOf(s) = RowsOf(SubSeq(s, 1, n)) + RowsOf(SubSeq(s, n + 1, Len(s)))
<1> DEFINE front == SubSeq(s, 1, n)
           back == SubSeq(s, n + 1, Len(s))
           m == Len(s)
<1>1. /\ n \in Nat /\ m \in Nat /\ n <= m
      /\ front \in Seq(Sample) /\ Len(front) = n /\ \A k \in 1..n : front[k] = s[k]
      /\ back \in Seq(Sample) /\ Len(back) = m - n /\ \A k \in 1..(m - n) : back[k] = s[n + k]
    OBVIOUS
<1>2. PICK P : RowsAlong(P, s) /\ RowsOf(s) = P[m]
    BY RowsFold
<1>3. PICK Q : RowsAlong(Q, back) /\ RowsOf(back) = Q[Len(back)]
    BY <1>1, RowsFold
<1> DEFINE F == [k \in 0..n |-> P[k]]
<1> HIDE DEF front, back
<1>4. RowsAlong(F, front)
  <2>1. \A k \in 0..n : k \in 0..m
    BY <1>1
  <2>2. F \in [0..n -> Nat] /\ F[0] = 0
    <3>1. P \in [0..m -> Nat] /\ P[0] = 0
      BY <1>2 DEF RowsAlong
    <3>2. 0 \in 0..n
      BY <1>1
    <3> HIDE DEF m
    <3> QED
      BY <2>1, <3>1, <3>2
  <2>3. ASSUME NEW k \in 1..n PROVE F[k] = F[k - 1] + front[k].rows
    <3>1. k \in 1..m /\ k \in 0..n /\ k - 1 \in 0..n
      BY <1>1
    <3>2. P[k] = P[k - 1] + s[k].rows
      BY <1>2, <3>1 DEF RowsAlong
    <3> QED
      BY <1>1, <3>1, <3>2
  <2> QED
    BY <1>1, <2>2, <2>3 DEF RowsAlong
<1>5. RowsOf(front) = P[n] /\ P[n] \in Nat
  <2>1. RowsOf(front) = F[n] /\ RowsOf(front) \in Nat /\ n \in 0..n
    BY <1>1, <1>4, RowsAre
  <2> QED
    BY <2>1
<1> DEFINE D == [k \in 0..(m - n) |-> P[n + k] - P[n]]
<1>6. \A k \in 0..(m - n) : D[k] = Q[k]
  <2>1. D[0] = Q[0]
    BY <1>1, <1>3, <1>5 DEF RowsAlong
  <2>2. ASSUME NEW k \in 1..(m - n), D[k - 1] = Q[k - 1] PROVE D[k] = Q[k]
    <3>1. k \in 0..(m - n) /\ k - 1 \in 0..(m - n) /\ n + k \in 1..m /\ n + (k - 1) = (n + k) - 1
      BY <1>1
    <3>2. P[n + k] = P[(n + k) - 1] + s[n + k].rows
      BY <1>2, <3>1 DEF RowsAlong
    <3>3. Q[k] = Q[k - 1] + s[n + k].rows
      BY <1>1, <1>3 DEF RowsAlong
    <3>4. D[k] = P[n + k] - P[n] /\ D[k - 1] = P[(n + k) - 1] - P[n]
      BY <3>1
    <3>5. P[(n + k) - 1] \in Nat /\ s[n + k] \in Sample
      <4>1. (n + k) - 1 \in 0..m
        BY <1>1, <3>1
      <4>2. P[(n + k) - 1] \in Nat
        BY <1>2, <4>1 DEF RowsAlong
      <4>3. s[n + k] \in Sample
        BY <3>1
      <4> QED
        BY <4>2, <4>3
    <3>6. s[n + k].rows \in Nat
      BY <3>5 DEF Sample
    <3> QED
      BY <1>5, <2>2, <3>2, <3>3, <3>4, <3>5, <3>6
  <2> DEFINE d == m - n
  <2>3. d \in Nat
    BY <1>1
  <2> DEFINE Same == {k \in 0..d : D[k] = Q[k]}
  <2> HIDE DEF D
  <2>4. 0 \in Same /\ \A k \in 1..d : k - 1 \in Same => k \in Same
    <3>1. \A k \in 1..d : k \in 0..d /\ k - 1 \in 0..d
      BY <2>3
    <3>2. 0 \in 0..d
      BY <2>3
    <3> QED
      BY <2>1, <2>2, <3>1, <3>2
  <2> HIDE DEF d, Same
  <2>5. \A k \in 0..d : k \in Same
    BY <2>3, <2>4, UpTo
  <2> QED
    BY <2>5 DEF d, Same
<1>7. D[m - n] = P[m] - P[n] /\ m - n \in 0..(m - n)
    BY <1>1
<1>8. RowsOf(back) = P[m] - P[n] /\ RowsOf(back) \in Nat /\ P[m] \in Nat
  <2>1. D[m - n] = Q[m - n] /\ Q[m - n] = RowsOf(back)
    BY <1>1, <1>3, <1>6, <1>7
  <2>2. P[m] \in Nat
    <3>1. P \in [0..m -> Nat]
      BY <1>2 DEF RowsAlong
    <3>2. m \in 0..m
      BY <1>1
    <3> HIDE DEF m
    <3> QED
      BY <3>1, <3>2
  <2>3. RowsOf(back) \in Nat
    BY <1>1, <1>3, RowsAre
  <2> HIDE DEF D
  <2> QED
    BY <1>7, <2>1, <2>2, <2>3
<1>9. RowsOf(s) = RowsOf(front) + RowsOf(back)
    BY <1>2, <1>5, <1>8
<1> QED
    BY <1>1, <1>5, <1>8, <1>9 DEF front, back

LEMMA ExpiredWithin ==
    ASSUME NEW s \in Seq(Sample)
    PROVE  Expired(s) \in 0..Len(s)
<1> DEFINE T == {n \in 0..Len(s) : n < Len(s) => s[n + 1].at + BreakerWindow > now}
<1>1. T \in SUBSET Nat /\ Len(s) \in T
    OBVIOUS
<1>2. PICK x \in T : \A y \in T : ~(y < x)
    BY <1>1, LeastNatural
<1>3. Min(T) \in T
  <2>1. \A y \in T : x =< y
    BY <1>1, <1>2
  <2> HIDE DEF T
  <2> QED
    BY <2>1 DEF Min
<1> QED
    BY <1>3 DEF Expired

-----------------------------------------------------------------------------
(* Views, effects and merge results as folds over entries.                     *)
LEMMA BranchChanges ==
    ASSUME NEW v \in Branch, NEW c \in Changes
    PROVE  ApplyChange(v, c) \in Branch
<1>1. c.table \in Tables
    BY ProposalsAssumption
<1> QED
    BY <1>1 DEF ApplyChange, Branch, Rows

ChangesAlong(P, v, s) ==
    /\ P \in [0..Len(s) -> Branch]
    /\ P[0] = v
    /\ \A k \in 1..Len(s) : P[k] = ApplyChange(P[k - 1], s[k])

LEMMA ChangesFold ==
    ASSUME NEW v \in Branch, NEW s \in Seq(Changes)
    PROVE  \E P : ChangesAlong(P, v, s) /\ FoldLeft(ApplyChange, v, s) = P[Len(s)]
<1> DEFINE n == Len(s)
           step == [p \in (1..n) \X Branch |-> ApplyChange(p[2], s[p[1]])]
           Raw(h) == [T \in SUBSET (1..n) |->
                         IF T = {} THEN v ELSE ApplyChange(h[T \ {Max(T)}], s[Max(T)])]
<1>1. n \in Nat /\ DOMAIN s = 1..n /\ \A i \in 1..n : s[i] \in Changes
    OBVIOUS
<1>2. v \in Branch /\ step \in [(1..n) \X Branch -> Branch]
  <2>1. \A x \in Branch, e \in Changes : ApplyChange(x, e) \in Branch
    BY BranchChanges
  <2> QED
    BY <1>1, <2>1
<1>3. PICK g, P : PrefixesOf(P, g, n, Branch, v, step)
  <2> HIDE DEF n, step
  <2>1. n \in Nat
    BY <1>1
  <2> QED
    BY <1>2, <2>1, PrefixFold
<1>4. \A T \in SUBSET (1..n) : T # {} => Max(T) \in T /\ Max(T) \in 1..n /\ PickMax(n)[T] = Max(T)
    BY <1>1, MaxOfInterval DEF PickMax
<1>5. g = Raw(g)
  <2>1. ASSUME NEW T \in SUBSET (1..n), T # {}
        PROVE  g[T] = ApplyChange(g[T \ {Max(T)}], s[Max(T)])
    <3>1. g[T] = step[<<Max(T), g[T \ {Max(T)}]>>] /\ g[T \ {Max(T)}] \in Branch
      <4>1. Max(T) \in T /\ PickMax(n)[T] = Max(T)
        BY <1>4, <2>1
      <4> HIDE DEF n, step
      <4> QED
        BY <1>3, <2>1, <4>1, FoldStep
    <3>2. Max(T) \in 1..n
      BY <1>4, <2>1
    <3> QED
      BY <3>1, <3>2
  <2> QED
    BY <1>3, <2>1 DEF IsFold, PrefixesOf
<1>6. ASSUME NEW h, h = Raw(h) PROVE h[1..n] = P[n]
  <2>1. Follows(h, 1..n, Branch, v, PickMax(n), step)
    BY <1>4, <1>6 DEF Follows
  <2> QED
    BY <1>3, <2>1 DEF PrefixesOf
<1>7. (CHOOSE h : h = Raw(h))[1..n] = P[n]
    BY <1>5, <1>6
<1>8. FoldLeft(ApplyChange, v, s) = P[n]
    BY <1>1, <1>7 DEF FoldLeft, MapThenFoldSet
<1>9. ASSUME NEW k \in 1..n PROVE P[k] = ApplyChange(P[k - 1], s[k])
  <2>1. k - 1 \in 0..n
    BY <1>1
  <2>2. P[k - 1] \in Branch /\ P[k] = step[<<k, P[k - 1]>>]
    BY <1>3, <2>1 DEF PrefixesOf
  <2> QED
    BY <2>2
<1> QED
    BY <1>3, <1>8, <1>9 DEF PrefixesOf, ChangesAlong

Writing == UNION {[S -> BOOLEAN] : S \in SUBSET Keys}

LEMMA BranchEntries ==
    ASSUME NEW v \in Branch, NEW e \in Entry
    PROVE  Apply(v, e) \in Branch
<1>1. e.schema \in Seq(Changes) /\ e.writes \in Writing
    BY DEF Entry, Writing
<1> DEFINE w == FoldLeft(ApplyChange, v, e.schema)
<1>2. w \in Branch
  <2>1. PICK P : ChangesAlong(P, v, e.schema) /\ w = P[Len(e.schema)]
    BY <1>1, ChangesFold
  <2>2. Len(e.schema) \in 0..Len(e.schema)
    BY <1>1
  <2> QED
    BY <2>1, <2>2 DEF ChangesAlong
<1> HIDE DEF w
<1>3. {k \in DOMAIN e.writes : e.writes[k]} \subseteq Keys
    BY <1>1 DEF Writing
<1>4. [w EXCEPT !.rows = (@ \ DOMAIN e.writes) \union {k \in DOMAIN e.writes : e.writes[k]}] \in Branch
    BY <1>2, <1>3 DEF Branch
<1> QED
    BY <1>4 DEF Apply, w

EntriesAlong(P, v, s) ==
    /\ P \in [0..Len(s) -> Branch]
    /\ P[0] = v
    /\ \A k \in 1..Len(s) : P[k] = Apply(P[k - 1], s[k])

LEMMA EntriesFold ==
    ASSUME NEW v \in Branch, NEW s \in Seq(Entry)
    PROVE  \E P : EntriesAlong(P, v, s) /\ Extend(v, s) = P[Len(s)]
<1> DEFINE n == Len(s)
           step == [p \in (1..n) \X Branch |-> Apply(p[2], s[p[1]])]
           Raw(h) == [T \in SUBSET (1..n) |->
                         IF T = {} THEN v ELSE Apply(h[T \ {Max(T)}], s[Max(T)])]
<1>1. n \in Nat /\ DOMAIN s = 1..n /\ \A i \in 1..n : s[i] \in Entry
    OBVIOUS
<1>2. v \in Branch /\ step \in [(1..n) \X Branch -> Branch]
  <2>1. \A x \in Branch, e \in Entry : Apply(x, e) \in Branch
    BY BranchEntries
  <2> QED
    BY <1>1, <2>1
<1>3. PICK g, P : PrefixesOf(P, g, n, Branch, v, step)
  <2> HIDE DEF n, step
  <2>1. n \in Nat
    BY <1>1
  <2> QED
    BY <1>2, <2>1, PrefixFold
<1>4. \A T \in SUBSET (1..n) : T # {} => Max(T) \in T /\ Max(T) \in 1..n /\ PickMax(n)[T] = Max(T)
    BY <1>1, MaxOfInterval DEF PickMax
<1>5. g = Raw(g)
  <2>1. ASSUME NEW T \in SUBSET (1..n), T # {}
        PROVE  g[T] = Apply(g[T \ {Max(T)}], s[Max(T)])
    <3>1. g[T] = step[<<Max(T), g[T \ {Max(T)}]>>] /\ g[T \ {Max(T)}] \in Branch
      <4>1. Max(T) \in T /\ PickMax(n)[T] = Max(T)
        BY <1>4, <2>1
      <4> HIDE DEF n, step
      <4> QED
        BY <1>3, <2>1, <4>1, FoldStep
    <3>2. Max(T) \in 1..n
      BY <1>4, <2>1
    <3> QED
      BY <3>1, <3>2
  <2> QED
    BY <1>3, <2>1 DEF IsFold, PrefixesOf
<1>6. ASSUME NEW h, h = Raw(h) PROVE h[1..n] = P[n]
  <2>1. Follows(h, 1..n, Branch, v, PickMax(n), step)
    BY <1>4, <1>6 DEF Follows
  <2> QED
    BY <1>3, <2>1 DEF PrefixesOf
<1>7. (CHOOSE h : h = Raw(h))[1..n] = P[n]
    BY <1>5, <1>6
<1>8. Extend(v, s) = P[n]
    BY <1>1, <1>7 DEF Extend, FoldLeft, MapThenFoldSet
<1>9. ASSUME NEW k \in 1..n PROVE P[k] = Apply(P[k - 1], s[k])
  <2>1. k - 1 \in 0..n
    BY <1>1
  <2>2. P[k - 1] \in Branch /\ P[k] = step[<<k, P[k - 1]>>]
    BY <1>3, <2>1 DEF PrefixesOf
  <2> QED
    BY <2>2
<1> QED
    BY <1>3, <1>8, <1>9 DEF PrefixesOf, EntriesAlong

LEMMA EntriesAre ==
    ASSUME NEW v \in Branch, NEW s \in Seq(Entry), NEW R, EntriesAlong(R, v, s)
    PROVE  Extend(v, s) = R[Len(s)] /\ Extend(v, s) \in Branch
<1>1. PICK P : EntriesAlong(P, v, s) /\ Extend(v, s) = P[Len(s)]
    BY EntriesFold
<1>2. Len(s) \in Nat /\ P[0] = R[0] /\ \A k \in 1..Len(s) : P[k - 1] = R[k - 1] => P[k] = R[k]
    BY <1>1 DEF EntriesAlong
<1>3. \A k \in 0..Len(s) : P[k] = R[k]
  <2> DEFINE n == Len(s)
  <2>1. n \in Nat /\ P[0] = R[0] /\ \A k \in 1..n : P[k - 1] = R[k - 1] => P[k] = R[k]
    BY <1>2
  <2> HIDE DEF n
  <2>2. \A k \in 0..n : P[k] = R[k]
    BY <2>1, PrefixesAgree, SMTT(20)
  <2> QED
    BY <2>2 DEF n
<1>4. Len(s) \in 0..Len(s)
    OBVIOUS
<1> QED
    BY <1>1, <1>3, <1>4 DEF EntriesAlong

LEMMA ExtendTyped ==
    ASSUME NEW v \in Branch, NEW s \in Seq(Entry)
    PROVE  Extend(v, s) \in Branch
    BY EntriesFold, EntriesAre

LEMMA ExtendMore ==
    ASSUME NEW v \in Branch, NEW s \in Seq(Entry), NEW t \in Seq(Entry)
    PROVE  Extend(v, s \o t) = Extend(Extend(v, s), t)
<1> DEFINE u == s \o t
           n == Len(s)
           m == Len(t)
<1>1. /\ n \in Nat /\ m \in Nat /\ u \in Seq(Entry) /\ Len(u) = n + m
      /\ \A k \in 1..n : u[k] = s[k]
      /\ \A k \in 1..m : u[n + k] = t[k]
    OBVIOUS
<1>2. PICK P : EntriesAlong(P, v, u) /\ Extend(v, u) = P[Len(u)]
    BY <1>1, EntriesFold
<1> HIDE DEF u
<1> DEFINE F == [k \in 0..n |-> P[k]]
           D == [k \in 0..m |-> P[n + k]]
<1>3. EntriesAlong(F, v, s)
  <2>1. \A k \in 0..n : k \in 0..Len(u)
    BY <1>1
  <2>2. F \in [0..n -> Branch] /\ F[0] = v
    BY <1>1, <1>2, <2>1 DEF EntriesAlong
  <2>3. ASSUME NEW k \in 1..n PROVE F[k] = Apply(F[k - 1], s[k])
    <3>1. k \in 1..Len(u) /\ k \in 0..n /\ k - 1 \in 0..n
      BY <1>1
    <3>2. P[k] = Apply(P[k - 1], u[k])
      BY <1>2, <3>1 DEF EntriesAlong
    <3> QED
      BY <1>1, <3>1, <3>2
  <2> QED
    BY <2>2, <2>3 DEF EntriesAlong
<1>4. Extend(v, s) = P[n] /\ P[n] \in Branch
  <2>1. Extend(v, s) = F[n] /\ Extend(v, s) \in Branch /\ n \in 0..n
    BY <1>1, <1>3, EntriesAre
  <2> QED
    BY <2>1
<1>5. EntriesAlong(D, P[n], t)
  <2>1. \A k \in 0..m : n + k \in 0..Len(u)
    BY <1>1
  <2>2. D \in [0..m -> Branch] /\ D[0] = P[n]
    BY <1>1, <1>2, <2>1 DEF EntriesAlong
  <2>3. ASSUME NEW k \in 1..m PROVE D[k] = Apply(D[k - 1], t[k])
    <3>1. n + k \in 1..Len(u) /\ k \in 0..m /\ k - 1 \in 0..m /\ n + (k - 1) = (n + k) - 1
      BY <1>1
    <3>2. P[n + k] = Apply(P[(n + k) - 1], u[n + k])
      BY <1>2, <3>1 DEF EntriesAlong
    <3> QED
      BY <1>1, <3>1, <3>2
  <2> QED
    BY <2>2, <2>3 DEF EntriesAlong
<1>6. Extend(P[n], t) = P[n + m]
  <2>1. Extend(P[n], t) = D[m] /\ m \in 0..m
    BY <1>1, <1>4, <1>5, EntriesAre
  <2> QED
    BY <2>1
<1> QED
    BY <1>1, <1>2, <1>4, <1>6 DEF u

LEMMA ExtendByOne ==
    ASSUME NEW v \in Branch, NEW e \in Entry
    PROVE  Extend(v, <<e>>) = Apply(v, e)
<1>1. <<e>> \in Seq(Entry) /\ Len(<<e>>) = 1 /\ <<e>>[1] = e
    OBVIOUS
<1>2. PICK P : EntriesAlong(P, v, <<e>>) /\ Extend(v, <<e>>) = P[1]
    BY <1>1, EntriesFold
<1> QED
    BY <1>1, <1>2 DEF EntriesAlong

LEMMA ExtendByNone ==
    ASSUME NEW v \in Branch
    PROVE  Extend(v, <<>>) = v
<1>1. <<>> \in Seq(Entry) /\ Len(<<>>) = 0
    OBVIOUS
<1>2. PICK P : EntriesAlong(P, v, <<>>) /\ Extend(v, <<>>) = P[0]
    BY <1>1, EntriesFold
<1> QED
    BY <1>1, <1>2 DEF EntriesAlong

LEMMA EffectsTyped ==
    ASSUME NEW e \in Entry, NEW w \in Writing
    PROVE  Over(e.writes, w) \in Writing
<1>1. PICK S \in SUBSET Keys : w \in [S -> BOOLEAN]
    BY DEF Writing
<1>2. PICK T \in SUBSET Keys : e.writes \in [T -> BOOLEAN]
    BY DEF Entry
<1>3. Over(e.writes, w) \in [S \cup T -> BOOLEAN] /\ S \cup T \in SUBSET Keys
    BY <1>1, <1>2 DEF Over
<1> QED
    BY <1>3 DEF Writing

LEMMA NothingWritten == Nothing \in Writing
<1>1. Nothing \in [{} -> BOOLEAN]
    BY DEF Nothing
<1> QED
    BY <1>1 DEF Writing

EffectsAlong(P, s) ==
    /\ P \in [0..Len(s) -> Writing]
    /\ P[0] = Nothing
    /\ \A k \in 1..Len(s) : P[k] = Over(s[k].writes, P[k - 1])

LEMMA EffectsFold ==
    ASSUME NEW s \in Seq(Entry)
    PROVE  \E P : EffectsAlong(P, s) /\ Effects(s) = P[Len(s)]
<1> DEFINE n == Len(s)
           step == [p \in (1..n) \X Writing |-> Over(s[p[1]].writes, p[2])]
           Raw(h) == [T \in SUBSET (1..n) |->
                         IF T = {} THEN Nothing ELSE Over(s[Max(T)].writes, h[T \ {Max(T)}])]
<1>1. n \in Nat /\ DOMAIN s = 1..n /\ \A i \in 1..n : s[i] \in Entry
    OBVIOUS
<1>2. Nothing \in Writing /\ step \in [(1..n) \X Writing -> Writing]
  <2>1. \A v \in Writing, e \in Entry : Over(e.writes, v) \in Writing
    BY EffectsTyped
  <2> QED
    BY <1>1, <2>1, NothingWritten
<1>3. PICK g, P : PrefixesOf(P, g, n, Writing, Nothing, step)
  <2> HIDE DEF n, step
  <2>1. n \in Nat
    BY <1>1
  <2> QED
    BY <1>2, <2>1, PrefixFold
<1>4. \A T \in SUBSET (1..n) : T # {} => Max(T) \in T /\ Max(T) \in 1..n /\ PickMax(n)[T] = Max(T)
    BY <1>1, MaxOfInterval DEF PickMax
<1>5. g = Raw(g)
  <2>1. ASSUME NEW T \in SUBSET (1..n), T # {}
        PROVE  g[T] = Over(s[Max(T)].writes, g[T \ {Max(T)}])
    <3>1. g[T] = step[<<Max(T), g[T \ {Max(T)}]>>] /\ g[T \ {Max(T)}] \in Writing
      <4>1. Max(T) \in T /\ PickMax(n)[T] = Max(T)
        BY <1>4, <2>1
      <4> HIDE DEF n, step
      <4> QED
        BY <1>3, <2>1, <4>1, FoldStep
    <3>2. Max(T) \in 1..n
      BY <1>4, <2>1
    <3> QED
      BY <3>1, <3>2
  <2> QED
    BY <1>3, <2>1 DEF IsFold, PrefixesOf
<1>6. ASSUME NEW h, h = Raw(h) PROVE h[1..n] = P[n]
  <2>1. Follows(h, 1..n, Writing, Nothing, PickMax(n), step)
    BY <1>4, <1>6 DEF Follows
  <2> QED
    BY <1>3, <2>1 DEF PrefixesOf
<1>7. (CHOOSE h : h = Raw(h))[1..n] = P[n]
    BY <1>5, <1>6
<1>8. Effects(s) = P[n]
    BY <1>1, <1>7 DEF Effects, FoldLeft, MapThenFoldSet
<1>9. ASSUME NEW k \in 1..n PROVE P[k] = Over(s[k].writes, P[k - 1])
  <2>1. k - 1 \in 0..n
    BY <1>1
  <2>2. P[k - 1] \in Writing /\ P[k] = step[<<k, P[k - 1]>>]
    BY <1>3, <2>1 DEF PrefixesOf
  <2> QED
    BY <2>2
<1> QED
    BY <1>3, <1>8, <1>9 DEF PrefixesOf, EffectsAlong

SchemaAlong(P, s) ==
    /\ P \in [0..Len(s) -> Seq(Changes)]
    /\ P[0] = <<>>
    /\ \A k \in 1..Len(s) : P[k] = P[k - 1] \o s[k].schema

LEMMA SchemaFold ==
    ASSUME NEW s \in Seq(Entry)
    PROVE  \E P : SchemaAlong(P, s) /\ SchemaChanges(s) = P[Len(s)]
<1> DEFINE n == Len(s)
           step == [p \in (1..n) \X Seq(Changes) |-> p[2] \o s[p[1]].schema]
           Raw(h) == [T \in SUBSET (1..n) |->
                         IF T = {} THEN <<>> ELSE h[T \ {Max(T)}] \o s[Max(T)].schema]
<1>1. n \in Nat /\ DOMAIN s = 1..n /\ \A i \in 1..n : s[i] \in Entry
    OBVIOUS
<1>2. <<>> \in Seq(Changes) /\ step \in [(1..n) \X Seq(Changes) -> Seq(Changes)]
  <2>1. \A v \in Seq(Changes), e \in Entry : v \o e.schema \in Seq(Changes)
    BY DEF Entry
  <2> QED
    BY <1>1, <2>1
<1>3. PICK g, P : PrefixesOf(P, g, n, Seq(Changes), <<>>, step)
  <2> HIDE DEF n, step
  <2>1. n \in Nat
    BY <1>1
  <2> QED
    BY <1>2, <2>1, PrefixFold
<1>4. \A T \in SUBSET (1..n) : T # {} => Max(T) \in T /\ Max(T) \in 1..n /\ PickMax(n)[T] = Max(T)
    BY <1>1, MaxOfInterval DEF PickMax
<1>5. g = Raw(g)
  <2>1. ASSUME NEW T \in SUBSET (1..n), T # {}
        PROVE  g[T] = g[T \ {Max(T)}] \o s[Max(T)].schema
    <3>1. g[T] = step[<<Max(T), g[T \ {Max(T)}]>>] /\ g[T \ {Max(T)}] \in Seq(Changes)
      <4>1. Max(T) \in T /\ PickMax(n)[T] = Max(T)
        BY <1>4, <2>1
      <4> HIDE DEF n, step
      <4> QED
        BY <1>3, <2>1, <4>1, FoldStep
    <3>2. Max(T) \in 1..n
      BY <1>4, <2>1
    <3> QED
      BY <3>1, <3>2
  <2> QED
    BY <1>3, <2>1 DEF IsFold, PrefixesOf
<1>6. ASSUME NEW h, h = Raw(h) PROVE h[1..n] = P[n]
  <2>1. Follows(h, 1..n, Seq(Changes), <<>>, PickMax(n), step)
    BY <1>4, <1>6 DEF Follows
  <2> QED
    BY <1>3, <2>1 DEF PrefixesOf
<1>7. (CHOOSE h : h = Raw(h))[1..n] = P[n]
    BY <1>5, <1>6
<1>8. SchemaChanges(s) = P[n]
    BY <1>1, <1>7 DEF SchemaChanges, FoldLeft, MapThenFoldSet
<1>9. ASSUME NEW k \in 1..n PROVE P[k] = P[k - 1] \o s[k].schema
  <2>1. k - 1 \in 0..n
    BY <1>1
  <2>2. P[k - 1] \in Seq(Changes) /\ P[k] = step[<<k, P[k - 1]>>]
    BY <1>3, <2>1 DEF PrefixesOf
  <2> QED
    BY <2>2
<1> QED
    BY <1>3, <1>8, <1>9 DEF PrefixesOf, SchemaAlong

Carry(ours, acc, c) == IF SchemaOf(ours, c.table) = <<>> THEN Append(acc, Schema(c)) ELSE acc

LEMMA SchemaIsEntry == \A c \in Changes : Schema(c) \in Entry
<1> SUFFICES ASSUME NEW c \in Changes PROVE Schema(c) \in Entry
    OBVIOUS
<1>1. <<c>> \in Seq(Changes) /\ Nothing \in Writing
    BY NothingWritten
<1> QED
    BY <1>1 DEF Schema, Entry, Writing

LEMMA CarryTyped ==
    ASSUME NEW ours, NEW acc \in Seq(Entry), NEW c \in Changes
    PROVE  Carry(ours, acc, c) \in Seq(Entry)
<1>1. Schema(c) \in Entry
    BY SchemaIsEntry
<1>2. Append(acc, Schema(c)) \in Seq(Entry)
    BY <1>1
<1> QED
    BY <1>2 DEF Carry

CarriedAlong(P, ours, s) ==
    /\ P \in [0..Len(s) -> Seq(Entry)]
    /\ P[0] = <<>>
    /\ \A k \in 1..Len(s) : P[k] = Carry(ours, P[k - 1], s[k])

LEMMA CarriedFold ==
    ASSUME NEW ours, NEW s \in Seq(Changes)
    PROVE  \E P : CarriedAlong(P, ours, s) /\ Carried(ours, s) = P[Len(s)]
<1> DEFINE n == Len(s)
           step == [p \in (1..n) \X Seq(Entry) |-> Carry(ours, p[2], s[p[1]])]
           Raw(h) == [T \in SUBSET (1..n) |->
                         IF T = {} THEN <<>> ELSE Carry(ours, h[T \ {Max(T)}], s[Max(T)])]
<1>1. n \in Nat /\ DOMAIN s = 1..n /\ \A i \in 1..n : s[i] \in Changes
    OBVIOUS
<1>2. <<>> \in Seq(Entry) /\ step \in [(1..n) \X Seq(Entry) -> Seq(Entry)]
  <2>1. \A v \in Seq(Entry), e \in Changes : Carry(ours, v, e) \in Seq(Entry)
    BY CarryTyped
  <2> QED
    BY <1>1, <2>1
<1>3. PICK g, P : PrefixesOf(P, g, n, Seq(Entry), <<>>, step)
  <2> HIDE DEF n, step
  <2>1. n \in Nat
    BY <1>1
  <2> QED
    BY <1>2, <2>1, PrefixFold
<1>4. \A T \in SUBSET (1..n) : T # {} => Max(T) \in T /\ Max(T) \in 1..n /\ PickMax(n)[T] = Max(T)
    BY <1>1, MaxOfInterval DEF PickMax
<1>5. g = Raw(g)
  <2>1. ASSUME NEW T \in SUBSET (1..n), T # {}
        PROVE  g[T] = Carry(ours, g[T \ {Max(T)}], s[Max(T)])
    <3>1. g[T] = step[<<Max(T), g[T \ {Max(T)}]>>] /\ g[T \ {Max(T)}] \in Seq(Entry)
      <4>1. Max(T) \in T /\ PickMax(n)[T] = Max(T)
        BY <1>4, <2>1
      <4> HIDE DEF n, step
      <4> QED
        BY <1>3, <2>1, <4>1, FoldStep
    <3>2. Max(T) \in 1..n
      BY <1>4, <2>1
    <3> QED
      BY <3>1, <3>2
  <2> QED
    BY <1>3, <2>1 DEF IsFold, PrefixesOf
<1>6. ASSUME NEW h, h = Raw(h) PROVE h[1..n] = P[n]
  <2>1. Follows(h, 1..n, Seq(Entry), <<>>, PickMax(n), step)
    BY <1>4, <1>6 DEF Follows
  <2> QED
    BY <1>3, <2>1 DEF PrefixesOf
<1>7. (CHOOSE h : h = Raw(h))[1..n] = P[n]
    BY <1>5, <1>6
<1>8. Carried(ours, s) = P[n]
    BY <1>1, <1>7 DEF Carry, Carried, FoldLeft, MapThenFoldSet
<1>9. ASSUME NEW k \in 1..n PROVE P[k] = Carry(ours, P[k - 1], s[k])
  <2>1. k - 1 \in 0..n
    BY <1>1
  <2>2. P[k - 1] \in Seq(Entry) /\ P[k] = step[<<k, P[k - 1]>>]
    BY <1>3, <2>1 DEF PrefixesOf
  <2> QED
    BY <2>2
<1> QED
    BY <1>3, <1>8, <1>9 DEF PrefixesOf, CarriedAlong

LEMMA MergeResultTyped ==
    ASSUME NEW ours \in Seq(Entry), NEW theirs \in Seq(Entry)
    PROVE  MergeResult(ours, theirs) \in Seq(Entry)
<1> DEFINE carried == Carried(ours, SchemaChanges(theirs))
           s == Effects(theirs)
           ops == [k \in DOMAIN s \ DOMAIN Effects(ours) |-> s[k]]
<1>1. SchemaChanges(theirs) \in Seq(Changes)
  <2>1. PICK P : SchemaAlong(P, theirs) /\ SchemaChanges(theirs) = P[Len(theirs)]
    BY SchemaFold
  <2>2. Len(theirs) \in 0..Len(theirs)
    OBVIOUS
  <2> QED
    BY <2>1, <2>2 DEF SchemaAlong
<1>2. carried \in Seq(Entry)
  <2> DEFINE cs == SchemaChanges(theirs)
  <2>1. PICK P : CarriedAlong(P, ours, cs) /\ carried = P[Len(cs)]
    <3>1. cs \in Seq(Changes)
      BY <1>1
    <3> HIDE DEF cs
    <3>2. \E P : CarriedAlong(P, ours, cs) /\ Carried(ours, cs) = P[Len(cs)]
      BY <3>1, CarriedFold
    <3> QED
      BY <3>2 DEF cs
  <2>2. Len(cs) \in 0..Len(cs)
    BY <1>1
  <2> QED
    BY <2>1, <2>2 DEF CarriedAlong
<1>3. ops \in Writing
  <2>1. PICK P : EffectsAlong(P, theirs) /\ s = P[Len(theirs)]
    BY EffectsFold
  <2>2. Len(theirs) \in 0..Len(theirs)
    OBVIOUS
  <2>3. s \in Writing
    BY <2>1, <2>2 DEF EffectsAlong
  <2> HIDE DEF s
  <2>4. PICK S \in SUBSET Keys : s \in [S -> BOOLEAN]
    BY <2>3 DEF Writing
  <2>5. ops \in [S \ DOMAIN Effects(ours) -> BOOLEAN] /\ S \ DOMAIN Effects(ours) \in SUBSET Keys
    BY <2>4
  <2> QED
    BY <2>5 DEF Writing
<1>4. Transaction(ops) \in Entry /\ MergeEntry \in Entry
  <2>1. <<>> \in Seq(Changes)
    OBVIOUS
  <2> HIDE DEF ops
  <2> QED
    BY <1>3, <2>1, NothingWritten DEF Transaction, MergeEntry, Entry, Writing
<1>5. MergeResult(ours, theirs) =
        carried \o (IF DOMAIN ops = {} THEN <<>> ELSE <<Transaction(ops)>>) \o <<MergeEntry>>
    BY DEF MergeResult
<1> HIDE DEF carried, ops
<1> QED
    BY <1>2, <1>4, <1>5

-----------------------------------------------------------------------------
(* The review budget as a function of what is held, what is spent and the time. *)

For(rs, scope) == {r \in rs : scope \in Charges(r.agent, r.branch)}
UnexpiredAt(h, t) == {r \in h : t - r.at <= ProposalTtl}
WindowAt(s, t) == {x \in s : x.at + BudgetWindow > t}
Load(h, s, t, scope) == Sum(For(UnexpiredAt(h, t), scope)) + Sum(For(WindowAt(s, t), scope))

Reviews(R) == R \subseteq Held /\ IsFiniteSet(R)

LEMMA ReviewsCost ==
    ASSUME NEW R, Reviews(R), NEW T \in SUBSET R
    PROVE  Reviews(T) /\ Costed(T) /\ Sum(T) \in Nat
<1>1. \A r \in Held : r.cost \in Nat
    BY DEF Held
<1>2. Costed(R)
    BY <1>1 DEF Reviews, Costed
<1> QED
    BY <1>2, CostedParts, FS_Subset DEF Reviews

LEMMA LoadNow ==
    /\ \A scope : Committed(scope) = Load(held, spent, now, scope)
    /\ Unexpired = UnexpiredAt(held, now)
    /\ InWindow = WindowAt(spent, now)
    BY DEF Committed, Load, Units, Sum, For, UnexpiredAt, WindowAt, Unexpired, InWindow

LEMMA UnitsAreSums ==
    ASSUME NEW rs, NEW scope
    PROVE  Units(rs, scope) = Sum(For(rs, scope))
    BY DEF Units, Sum, For

LEMMA LoadNext ==
    \A scope : Committed(scope)' = Load(held', spent', now', scope)
<1>1. Unexpired' = UnexpiredAt(held', now') /\ InWindow' = WindowAt(spent', now')
    BY DEF UnexpiredAt, WindowAt, Unexpired, InWindow
<1>2. \A scope : Committed(scope)' = Units(Unexpired', scope) + Units(InWindow', scope)
    BY DEF Committed
<1> QED
    BY <1>1, <1>2, UnitsAreSums DEF Load

LEMMA LoadShrinks ==
    ASSUME NEW h, Reviews(h), NEW s, Reviews(s), NEW t \in Int,
           NEW i \in SUBSET h, NEW j \in SUBSET s, NEW u \in Int, t <= u, NEW scope
    PROVE  /\ Load(i, j, u, scope) <= Load(h, s, t, scope)
           /\ Load(h, s, t, scope) \in Nat
<1> DEFINE A == For(UnexpiredAt(h, t), scope)
           B == For(WindowAt(s, t), scope)
           C == For(UnexpiredAt(i, u), scope)
           D == For(WindowAt(j, u), scope)
<1>1. (\A r \in Held : r.at \in Int) /\ ProposalTtl \in Nat /\ BudgetWindow \in Nat
    BY ProposalsAssumption DEF Held
<1>2. A \in SUBSET h /\ B \in SUBSET s
    BY DEF For, UnexpiredAt, WindowAt
<1>3. C \in SUBSET A
    BY <1>1 DEF For, UnexpiredAt, Reviews
<1>4. D \in SUBSET B
    BY <1>1 DEF For, WindowAt, Reviews
<1>5. Load(h, s, t, scope) = Sum(A) + Sum(B) /\ Load(i, j, u, scope) = Sum(C) + Sum(D)
    BY DEF Load
<1> HIDE DEF A, B, C, D
<1>6. Costed(A) /\ Costed(B) /\ Sum(A) \in Nat /\ Sum(B) \in Nat
    BY <1>2, ReviewsCost
<1>7. Sum(C) <= Sum(A) /\ Sum(D) <= Sum(B) /\ Sum(C) \in Nat /\ Sum(D) \in Nat
    BY <1>3, <1>4, <1>6, SumMonotone, CostedParts
<1> QED
    BY <1>5, <1>6, <1>7

LEMMA LoadOfReserved ==
    ASSUME NEW h, Reviews(h), NEW s, Reviews(s), NEW t \in Int, NEW r \in Held, NEW scope
    PROVE  /\ scope \in Charges(r.agent, r.branch) =>
                Load(h \cup {r}, s, t, scope) <= Load(h, s, t, scope) + r.cost
           /\ scope \notin Charges(r.agent, r.branch) =>
                Load(h \cup {r}, s, t, scope) = Load(h, s, t, scope)
<1> DEFINE A == For(UnexpiredAt(h, t), scope)
           B == For(WindowAt(s, t), scope)
           C == For(UnexpiredAt(h \cup {r}, t), scope)
<1>1. Load(h, s, t, scope) = Sum(A) + Sum(B) /\ Load(h \cup {r}, s, t, scope) = Sum(C) + Sum(B)
    BY DEF Load
<1>2. A \in SUBSET h /\ B \in SUBSET s /\ C \in SUBSET (A \cup {r})
    BY DEF For, UnexpiredAt, WindowAt
<1>3. scope \notin Charges(r.agent, r.branch) => C = A
    BY DEF For, UnexpiredAt
<1> HIDE DEF A, B, C
<1>4. Costed(A) /\ Sum(A) \in Nat /\ Sum(B) \in Nat
    BY <1>2, ReviewsCost
<1>5. r.cost \in Nat /\ Costed({r}) /\ Sum({r}) = r.cost
    BY SumOfOne DEF Held
<1>6. Costed(A \cup {r})
    BY <1>4, <1>5, FS_AddElement DEF Costed
<1>7. Sum(A \cup {r}) <= Sum(A) + r.cost /\ Sum(A \cup {r}) \in Nat
    BY <1>5, <1>6, SumUnion, CostedParts
<1>8. Sum(C) <= Sum(A \cup {r}) /\ Sum(C) \in Nat
    BY <1>2, <1>6, SumMonotone, CostedParts
<1> QED
    BY <1>1, <1>3, <1>4, <1>5, <1>7, <1>8

Answered(r, t) == [r EXCEPT !.at = t]

LEMMA AnsweredIsHeld ==
    ASSUME NEW r \in Held, NEW t \in 0..MaxTime
    PROVE  /\ Answered(r, t) \in Held
           /\ Answered(r, t).id = r.id /\ Answered(r, t).cost = r.cost
           /\ Answered(r, t).agent = r.agent /\ Answered(r, t).branch = r.branch
    BY DEF Held, Answered

LEMMA LoadOfSettled ==
    ASSUME NEW h, Reviews(h), NEW s, Reviews(s), NEW t \in 0..MaxTime, NEW scope,
           NEW d \in SUBSET UnexpiredAt(h, t)
    PROVE  /\ Reviews(WindowAt(s, t) \cup {Answered(r, t) : r \in d})
           /\ Load(UnexpiredAt(h, t) \ d, WindowAt(s, t) \cup {Answered(r, t) : r \in d}, t, scope)
                 <= Load(h, s, t, scope)
<1> DEFINE f == [r \in d |-> Answered(r, t)]
           I == {f[r] : r \in d}
           U == UnexpiredAt(h, t)
           W == WindowAt(s, t)
           A == For(U, scope)
           B == For(W, scope)
           E == For(d, scope)
           J == {f[r] : r \in E}
           C == For(UnexpiredAt(U \ d, t), scope)
           D == For(WindowAt(W \cup I, t), scope)
<1>1. U \in SUBSET h /\ W \in SUBSET s /\ A \in SUBSET h /\ B \in SUBSET s /\ d \in SUBSET h
      /\ E \in SUBSET h /\ E \in SUBSET d /\ E \in SUBSET A
    BY DEF For, UnexpiredAt, WindowAt
<1>2. h \subseteq Held /\ s \subseteq Held
    BY DEF Reviews
<1>3. \A r \in d : /\ f[r] \in Held /\ f[r].cost = r.cost
                   /\ f[r].agent = r.agent /\ f[r].branch = r.branch
    BY <1>1, <1>2, AnsweredIsHeld
<1>4. {Answered(r, t) : r \in d} = I
    OBVIOUS
<1>5. Costed(E) /\ Costed(d) /\ Costed(A) /\ Costed(B)
      /\ Sum(E) \in Nat /\ Sum(A) \in Nat /\ Sum(B) \in Nat
    BY <1>1, ReviewsCost
<1>6. Costed(I) /\ Costed(J) /\ Sum(J) <= Sum(E)
  <2> HIDE DEF f, E, I, J
  <2>1. \A r \in E : f[r].cost = r.cost
    BY <1>1, <1>3
  <2>2. \A r \in d : f[r].cost = r.cost
    BY <1>3
  <2> QED
    BY <1>5, <2>1, <2>2, SumOfImage DEF I, J
<1>7. Reviews(W \cup I)
  <2>1. I \subseteq Held
    BY <1>3
  <2>2. Reviews(W) /\ IsFiniteSet(I)
    BY <1>1, <1>6, ReviewsCost DEF Costed
  <2> HIDE DEF W, I
  <2> QED
    BY <2>1, <2>2, FS_Union DEF Reviews
<1>8. D \in SUBSET (B \cup J)
  <2> SUFFICES ASSUME NEW x \in D PROVE x \in B \/ x \in J
    OBVIOUS
  <2>1. x \in W \cup I /\ scope \in Charges(x.agent, x.branch)
    BY DEF For, WindowAt
  <2>2. CASE x \in W
    BY <2>1, <2>2 DEF For
  <2>3. CASE x \in I
    <3>1. PICK r \in d : x = f[r]
      BY <2>3
    <3>2. r \in E
      BY <1>3, <2>1, <3>1 DEF For
    <3> QED
      BY <3>1, <3>2
  <2> QED
    BY <2>1, <2>2, <2>3
<1>9. C \in SUBSET (A \ E)
    BY DEF For, UnexpiredAt
<1>10. Load(h, s, t, scope) = Sum(A) + Sum(B) /\ Load(U \ d, W \cup I, t, scope) = Sum(C) + Sum(D)
    BY DEF Load
<1> HIDE DEF f, U, W, I, A, B, C, D, E, J
<1>11. Costed(B \cup J)
    BY <1>5, <1>6, FS_Union DEF Costed
<1>12. Sum(D) <= Sum(B) + Sum(J) /\ Sum(D) \in Nat
  <2>1. Sum(D) <= Sum(B \cup J) /\ Sum(D) \in Nat /\ Sum(B \cup J) \in Nat
    BY <1>8, <1>11, SumMonotone, CostedParts
  <2>2. Sum(B \cup J) <= Sum(B) + Sum(J)
    BY <1>11, SumUnion
  <2>3. Sum(J) \in Nat
    BY <1>6, CostedParts
  <2> QED
    BY <1>5, <2>1, <2>2, <2>3
<1>13. Sum(C) + Sum(E) <= Sum(A) /\ Sum(C) \in Nat
  <2>1. A = (A \ E) \cup E /\ (A \ E) \cap E = {}
    BY <1>1
  <2>2. Sum(A) = Sum(A \ E) + Sum(E)
    BY <1>5, <2>1, SumUnion
  <2>3. Costed(A \ E) /\ Sum(A \ E) \in Nat
    BY <1>5, CostedParts
  <2>4. Sum(C) <= Sum(A \ E) /\ Sum(C) \in Nat
    BY <1>9, <2>3, SumMonotone, CostedParts
  <2> QED
    BY <1>5, <2>2, <2>3, <2>4
<1>14. Load(U \ d, W \cup I, t, scope) <= Load(h, s, t, scope)
  <2>1. Sum(J) \in Nat
    BY <1>6, CostedParts
  <2> QED
    BY <1>5, <1>6, <1>10, <1>12, <1>13, <2>1
<1> QED
    BY <1>4, <1>7, <1>14 DEF U, W

-----------------------------------------------------------------------------
(* The inductive invariant, one part for each piece of the engine's state. *)

ClockOK == now \in 0..MaxTime

BranchesOK ==
    /\ log \in [Targets -> Seq(Entry)]
    /\ view \in [Targets -> Branch]
    /\ \A b \in Targets : view[b] = Extend(Opened, log[b])

GateNames == {"auto", "confirm", "shadow"}
Proposal == [gate : GateNames, at : 0..MaxTime]

(* Only a change that adds waits at the gate that asks nobody. *)
PendingOK ==
    /\ DOMAIN pending \subseteq Changes
    /\ \A c \in DOMAIN pending : pending[c] \in Proposal /\ (pending[c].gate = "auto" => c.op = "add")

Shadow == [fork : Nat, entries : Seq(Entry), view : Branch,
           opened : 0..MaxTime, validated : Int, passed : BOOLEAN]

ShadowsOK ==
    /\ DOMAIN shadows \subseteq Changes
    /\ \A c \in DOMAIN shadows : shadows[c] \in Shadow

(* Reviews held and spent are told apart by ids, which are given out once. *)
BudgetOK ==
    /\ Reviews(held) /\ Reviews(spent)
    /\ \A r \in held, s \in spent : r.id # s.id
    /\ \A r \in held \cup spent : r.id < nextId
    /\ nextId \in 1..(MaxReservations + 1)

BreakerOK ==
    /\ breaker \in [samples : Seq(Sample), rows : Nat, tripped : BOOLEAN]
    /\ BreakerCountsWindow

Inv == ClockOK /\ BranchesOK /\ PendingOK /\ ShadowsOK /\ BudgetOK /\ CommittedWithinCeiling /\ BreakerOK

LEMMA InvImplies == Inv => CeilingsHold
<1> SUFFICES ASSUME Inv PROVE CeilingsHold
    OBVIOUS
<1>1. \A c \in DOMAIN shadows : shadows[c].view \in Branch
    BY DEF Inv, ShadowsOK, Shadow
<1>2. breaker.rows \in Nat
    BY DEF Inv, BreakerOK
<1>3. held \subseteq Held /\ spent \subseteq Held
    BY DEF Inv, BudgetOK, Reviews
<1>4. TypeOK
    BY <1>1, <1>2, <1>3 DEF Inv, TypeOK, ClockOK, BranchesOK, PendingOK, Proposal, GateNames, ShadowsOK, BudgetOK
<1> QED
    BY <1>4 DEF Inv, CeilingsHold, BreakerOK

-----------------------------------------------------------------------------
(* Branches *)

LEMMA OpenedTyped == Opened \in Branch
    BY ProposalsAssumption DEF Opened, Branch

LEMMA AppendKeeps ==
    ASSUME BranchesOK, NEW b \in Targets, NEW es \in Seq(Entry), Append_(b, es)
    PROVE  BranchesOK'
<1>1. log[b] \in Seq(Entry) /\ view[b] \in Branch /\ view[b] = Extend(Opened, log[b])
    BY DEF BranchesOK
<1>2. log[b] \o es \in Seq(Entry) /\ Extend(view[b], es) \in Branch
    BY <1>1, ExtendTyped
<1>3. Extend(Opened, log[b] \o es) = Extend(view[b], es)
    BY <1>1, OpenedTyped, ExtendMore
<1>4. log' = [log EXCEPT ![b] = log[b] \o es] /\ view' = [view EXCEPT ![b] = Extend(view[b], es)]
    BY DEF Append_
<1>5. log' \in [Targets -> Seq(Entry)] /\ view' \in [Targets -> Branch]
    BY <1>2, <1>4 DEF BranchesOK
<1>6. ASSUME NEW a \in Targets PROVE view'[a] = Extend(Opened, log'[a])
  <2>1. CASE a = b
    BY <1>2, <1>3, <1>4, <2>1 DEF BranchesOK
  <2>2. CASE a # b
    BY <1>4, <2>2 DEF BranchesOK
  <2> QED
    BY <2>1, <2>2
<1> QED
    BY <1>5, <1>6 DEF BranchesOK

LEMMA OursTyped ==
    ASSUME BranchesOK, ShadowsOK, NEW c \in DOMAIN shadows
    PROVE  Ours(c) \in Seq(Entry) /\ c \in Changes /\ c.branch \in Targets /\ shadows[c] \in Shadow
<1>1. c \in Changes /\ shadows[c] \in Shadow
    BY DEF ShadowsOK
<1>2. c.branch \in Targets
    BY <1>1, ProposalsAssumption
<1>3. log[c.branch] \in Seq(Entry) /\ shadows[c].fork \in Nat
    BY <1>1, <1>2 DEF BranchesOK, Shadow
<1> DEFINE l == log[c.branch]
           n == shadows[c].fork
<1>4. SubSeq(l, n + 1, Len(l)) \in Seq(Entry)
  <2>1. l \in Seq(Entry) /\ n \in Nat
    BY <1>3
  <2> HIDE DEF l, n
  <2> QED
    BY <2>1
<1> QED
    BY <1>1, <1>2, <1>4 DEF Ours

-----------------------------------------------------------------------------
(* Gates *)

LEMMA GateTyped ==
    ASSUME NEW v, NEW c \in Changes
    PROVE  Gate(v, c) \in GateNames /\ (Gate(v, c) = "auto" => c.op = "add")
<1>1. c.op \in {"add", "drop"}
    BY ProposalsAssumption
<1> QED
    BY <1>1 DEF Gate, DropGate, GateNames

LEMMA CostTyped == \A gate \in GateNames : CostOf(gate) \in Nat
    BY ProposalsAssumption DEF CostOf, GateNames

LEMMA CeilingTyped == \A scope \in Scopes : Ceiling(scope) \in Nat
    BY ProposalsAssumption DEF Ceiling, Scopes

LEMMA HoldKeeps ==
    ASSUME ClockOK, PendingOK, NEW c \in Changes, NEW v, Hold(c, Gate(v, c))
    PROVE  PendingOK'
<1> DEFINE p == [gate |-> Gate(v, c), at |-> now]
<1>1. p \in Proposal /\ (p.gate = "auto" => c.op = "add")
    BY GateTyped DEF Proposal, ClockOK
<1>2. /\ DOMAIN pending' = DOMAIN pending \cup {c}
      /\ \A d \in DOMAIN pending' : pending'[d] = IF d = c THEN p ELSE pending[d]
    BY DEF Hold, Insert, Over
<1> HIDE DEF p
<1> QED
    BY <1>1, <1>2 DEF PendingOK

LEMMA DroppedKeepsPending ==
    ASSUME PendingOK, NEW cs, pending' = Dropped(pending, cs)
    PROVE  PendingOK'
    BY DEF PendingOK, Dropped, Restrict

LEMMA DroppedKeepsShadows ==
    ASSUME ShadowsOK, NEW cs, shadows' = Dropped(shadows, cs)
    PROVE  ShadowsOK'
    BY DEF ShadowsOK, Dropped, Restrict

-----------------------------------------------------------------------------
(* The budget *)

LEMMA BudgetParts ==
    ASSUME ClockOK, BudgetOK
    PROVE  /\ Reviews(Unexpired) /\ Reviews(InWindow)
           /\ Unexpired \in SUBSET held /\ InWindow \in SUBSET spent
           /\ Unexpired = UnexpiredAt(held, now) /\ InWindow = WindowAt(spent, now)
           /\ UnexpiredAt(Unexpired, now) = Unexpired
           /\ WindowAt(InWindow, now) = InWindow
           /\ now \in 0..MaxTime /\ now \in Int
<1>1. Unexpired \in SUBSET held /\ InWindow \in SUBSET spent
    BY DEF Unexpired, InWindow
<1>2. Reviews(Unexpired) /\ Reviews(InWindow)
    BY <1>1, ReviewsCost DEF BudgetOK
<1>3. Unexpired = UnexpiredAt(held, now) /\ InWindow = WindowAt(spent, now)
    BY DEF Unexpired, InWindow, UnexpiredAt, WindowAt
<1>4. UnexpiredAt(Unexpired, now) = Unexpired /\ WindowAt(InWindow, now) = InWindow
    BY DEF Unexpired, InWindow, UnexpiredAt, WindowAt
<1> QED
    BY <1>1, <1>2, <1>3, <1>4 DEF ClockOK

LEMMA ReserveKeeps ==
    ASSUME ClockOK, BudgetOK, CommittedWithinCeiling, now' = now,
           NEW gate \in GateNames, NEW agent \in Agents, NEW branch \in Targets,
           Reserve(gate, agent, branch)
    PROVE  BudgetOK' /\ CommittedWithinCeiling'
<1> DEFINE cost == CostOf(gate)
           r == [id |-> nextId, at |-> now, cost |-> cost, agent |-> agent, branch |-> branch]
<1>1. cost \in Nat /\ spent' = InWindow
    BY CostTyped DEF Reserve
<1>2. \A scope \in Scopes : /\ Load(held, spent, now, scope) <= Ceiling(scope)
                            /\ Load(held, spent, now, scope) \in Nat
                            /\ Ceiling(scope) \in Nat
                            /\ Load(Unexpired, InWindow, now, scope) <= Load(held, spent, now, scope)
                            /\ Load(Unexpired, InWindow, now, scope) \in Nat
  <2> SUFFICES ASSUME NEW scope \in Scopes
               PROVE  /\ Load(held, spent, now, scope) <= Ceiling(scope)
                      /\ Load(held, spent, now, scope) \in Nat
                      /\ Ceiling(scope) \in Nat
                      /\ Load(Unexpired, InWindow, now, scope) <= Load(held, spent, now, scope)
                      /\ Load(Unexpired, InWindow, now, scope) \in Nat
    OBVIOUS
  <2>1. Load(held, spent, now, scope) <= Ceiling(scope)
    BY LoadNow DEF CommittedWithinCeiling
  <2>2. Ceiling(scope) \in Nat
    BY CeilingTyped
  <2>3. Reviews(held) /\ Reviews(spent)
    BY DEF BudgetOK
  <2>4. /\ Load(Unexpired, InWindow, now, scope) <= Load(held, spent, now, scope)
        /\ Load(held, spent, now, scope) \in Nat
    BY <2>3, BudgetParts, LoadShrinks, now <= now
  <2>5. Load(Unexpired, InWindow, now, scope) \in Nat
    BY BudgetParts, LoadShrinks, now <= now, Unexpired \in SUBSET Unexpired, InWindow \in SUBSET InWindow
  <2> QED
    BY <2>1, <2>2, <2>4, <2>5
<1>3. CASE cost = 0
  <2>1. held' = Unexpired /\ nextId' = nextId
    BY <1>3 DEF Reserve
  <2>2. BudgetOK'
    BY <1>1, <2>1, BudgetParts DEF BudgetOK
  <2>3. \A scope \in Scopes : Committed(scope)' <= Ceiling(scope)
    BY <1>1, <1>2, <2>1, LoadNext
  <2> QED
    BY <2>2, <2>3 DEF CommittedWithinCeiling
<1>4. CASE cost # 0
  <2>1. nextId <= MaxReservations /\ nextId' = nextId + 1 /\ held' = Unexpired \cup {r}
    BY <1>4 DEF Reserve
  <2>2. r \in Held
    BY <1>1, <2>1, BudgetParts, ProposalsAssumption DEF BudgetOK, Held
  <2>3. Reviews(held')
    BY <2>1, <2>2, BudgetParts, FS_AddElement DEF Reviews
  <2>4. BudgetOK'
    <3>1. nextId \in Int /\ nextId' \in 1..(MaxReservations + 1)
      BY <2>1, ProposalsAssumption DEF BudgetOK
    <3>2. \A x \in held \cup spent : x.id \in Int /\ x.id < nextId
      BY DEF BudgetOK, Reviews, Held
    <3>3. \A x \in held', y \in spent' : x.id # y.id
      BY <1>1, <2>1, <3>1, <3>2, BudgetParts DEF BudgetOK
    <3>4. \A x \in held' \cup spent' : x.id < nextId'
      BY <1>1, <2>1, <3>1, <3>2, BudgetParts
    <3>5. Reviews(spent')
      BY <1>1, BudgetParts
    <3> QED
      BY <2>3, <3>1, <3>3, <3>4, <3>5 DEF BudgetOK
  <2>5. ASSUME NEW scope \in Scopes PROVE Committed(scope)' <= Ceiling(scope)
    <3>1. Committed(scope)' = Load(Unexpired \cup {r}, InWindow, now, scope)
      BY <1>1, <2>1, LoadNext
    <3>2. r.agent = agent /\ r.branch = branch /\ r.cost = cost
      OBVIOUS
    <3> HIDE DEF r
    <3>3. CASE scope \in Charges(agent, branch)
      <4>1. Load(Unexpired \cup {r}, InWindow, now, scope) <= Load(Unexpired, InWindow, now, scope) + cost
        BY <2>2, <3>2, <3>3, BudgetParts, LoadOfReserved
      <4>2. Load(held, spent, now, scope) + cost <= Ceiling(scope)
        BY <3>3, LoadNow DEF Reserve, Fits
      <4>3. Load(Unexpired \cup {r}, InWindow, now, scope) \in Nat
        BY <2>1, <2>3, BudgetParts, LoadShrinks, now <= now,
           Unexpired \cup {r} \in SUBSET (Unexpired \cup {r}), InWindow \in SUBSET InWindow
      <4> HIDE DEF cost
      <4> QED
        BY <1>1, <1>2, <3>1, <4>1, <4>2, <4>3
    <3>4. CASE scope \notin Charges(agent, branch)
      <4>1. Load(Unexpired \cup {r}, InWindow, now, scope) = Load(Unexpired, InWindow, now, scope)
        BY <2>2, <3>2, <3>4, BudgetParts, LoadOfReserved
      <4> QED
        BY <1>2, <3>1, <4>1
    <3> QED
      BY <3>3, <3>4
  <2> QED
    BY <2>4, <2>5 DEF CommittedWithinCeiling
<1> QED
    BY <1>3, <1>4

SettledBy(cs) == {r \in Unexpired : \E c \in cs \cap DOMAIN reservations : reservations[c] = r.id}

LEMMA SettleCases ==
    ASSUME NEW cs, NEW settlement, Settle(cs, settlement)
    PROVE  \/ UNCHANGED budget
           \/ /\ held' = Unexpired \ SettledBy(cs)
              /\ spent' = InWindow \cup
                    (IF Spends(settlement) THEN {Answered(r, now) : r \in SettledBy(cs)} ELSE {})
              /\ nextId' = nextId
    BY DEF Settle, SettledBy, Answered

LEMMA SettleKeeps ==
    ASSUME ClockOK, BudgetOK, CommittedWithinCeiling, now' = now,
           NEW cs, NEW settlement, Settle(cs, settlement)
    PROVE  BudgetOK' /\ CommittedWithinCeiling'
<1> DEFINE d == SettledBy(cs)
           A == {Answered(r, now) : r \in d}
<1>1. CASE UNCHANGED budget
  <2>1. \A scope : Committed(scope)' = Committed(scope)
    BY <1>1, LoadNow, LoadNext DEF budget
  <2> QED
    BY <1>1, <2>1 DEF BudgetOK, CommittedWithinCeiling, budget
<1>2. CASE /\ held' = Unexpired \ d
           /\ spent' = InWindow \cup (IF Spends(settlement) THEN A ELSE {})
           /\ nextId' = nextId
  <2>1. d \in SUBSET Unexpired /\ d \in SUBSET held
    BY BudgetParts DEF SettledBy
  <2>2. Reviews(held) /\ Reviews(spent) /\ held \subseteq Held
    BY DEF BudgetOK, Reviews
  <2>3. \A r \in d : Answered(r, now) \in Held /\ Answered(r, now).id = r.id
    BY <2>1, <2>2, BudgetParts, AnsweredIsHeld
  <2>4. \A scope : /\ Reviews(InWindow \cup A)
                   /\ Load(Unexpired \ d, InWindow \cup A, now, scope) <= Load(held, spent, now, scope)
    <3>1. now \in 0..MaxTime /\ Unexpired = UnexpiredAt(held, now) /\ InWindow = WindowAt(spent, now)
      BY BudgetParts
    <3>2. d \in SUBSET UnexpiredAt(held, now)
      BY <2>1, <3>1
    <3> HIDE DEF d
    <3> QED
      BY <2>2, <3>1, <3>2, LoadOfSettled
  <2>5. \A scope : /\ Load(Unexpired \ d, InWindow, now, scope) <= Load(held, spent, now, scope)
                   /\ Load(held, spent, now, scope) \in Nat
    <3>1. Unexpired \ d \in SUBSET held /\ InWindow \in SUBSET spent
      BY BudgetParts
    <3>2. now \in Int /\ now <= now
      BY BudgetParts
    <3> QED
      BY <2>2, <3>1, <3>2, LoadShrinks
  <2>6. Reviews(held') /\ held' \subseteq held
    BY <1>2, <2>2, BudgetParts, ReviewsCost
  <2>7. Reviews(spent')
    BY <1>2, <2>4, BudgetParts
  <2>8. ASSUME NEW x \in held', NEW y \in spent' PROVE x.id # y.id
    <3>1. x \in Unexpired /\ x \in held /\ x \notin d
      BY <1>2, BudgetParts
    <3>2. CASE y \in InWindow
      BY <3>1, <3>2, BudgetParts DEF BudgetOK
    <3>3. CASE y \in A
      <4>1. PICK r \in d : y = Answered(r, now)
        BY <3>3
      <4>2. y.id = r.id
        BY <2>3, <4>1
      <4>3. PICK c \in cs \cap DOMAIN reservations : reservations[c] = r.id
        BY DEF SettledBy
      <4> QED
        BY <3>1, <4>2, <4>3 DEF SettledBy
    <3> QED
      BY <1>2, <3>2, <3>3
  <2>9. ASSUME NEW x \in held' \cup spent' PROVE x.id < nextId'
    <3>1. CASE x \in held \cup spent
      BY <1>2, <3>1 DEF BudgetOK
    <3>2. CASE x \in A
      <4>1. PICK r \in d : x = Answered(r, now)
        BY <3>2
      <4> QED
        BY <1>2, <2>1, <2>3, <4>1 DEF BudgetOK
    <3> QED
      BY <1>2, <2>6, <3>1, <3>2, BudgetParts
  <2>10. BudgetOK'
    BY <1>2, <2>6, <2>7, <2>8, <2>9 DEF BudgetOK
  <2>11. ASSUME NEW scope \in Scopes PROVE Committed(scope)' <= Ceiling(scope)
    <3>1. Committed(scope)' = Load(held', spent', now, scope)
      BY LoadNext
    <3>2. Load(held, spent, now, scope) <= Ceiling(scope)
      BY LoadNow DEF CommittedWithinCeiling
    <3>3. Load(held', spent', now, scope) <= Load(held, spent, now, scope)
      <4>1. CASE Spends(settlement)
        BY <1>2, <2>4, <4>1
      <4>2. CASE ~Spends(settlement)
        <5>1. spent' = InWindow
          BY <1>2, <4>2
        <5> QED
          BY <1>2, <2>5, <5>1
      <4> QED
        BY <4>1, <4>2
    <3>4. Load(held', spent', now, scope) \in Nat
      <4>1. now \in Int /\ now <= now /\ held' \in SUBSET held' /\ spent' \in SUBSET spent'
        BY BudgetParts
      <4> QED
        BY <2>6, <2>7, <4>1, LoadShrinks
    <3>5. Ceiling(scope) \in Nat /\ Load(held, spent, now, scope) \in Nat
      BY <2>5, CeilingTyped
    <3> QED
      BY <3>1, <3>2, <3>3, <3>4, <3>5
  <2> QED
    BY <2>10, <2>11 DEF CommittedWithinCeiling
<1> QED
    BY <1>1, <1>2, SettleCases

LEMMA BudgetStands ==
    ASSUME ClockOK, BudgetOK, CommittedWithinCeiling, UNCHANGED budget, now' \in 0..MaxTime, now <= now'
    PROVE  BudgetOK' /\ CommittedWithinCeiling'
<1>1. BudgetOK'
    BY DEF BudgetOK, budget
<1>2. ASSUME NEW scope \in Scopes PROVE Committed(scope)' <= Ceiling(scope)
  <2>1. Committed(scope)' = Load(held, spent, now', scope)
    BY LoadNext DEF budget
  <2>2. Load(held, spent, now, scope) <= Ceiling(scope)
    BY LoadNow DEF CommittedWithinCeiling
  <2>3. /\ Reviews(held) /\ Reviews(spent) /\ held \in SUBSET held /\ spent \in SUBSET spent
        /\ now \in Int /\ now' \in Int /\ now' <= now'
    BY DEF BudgetOK, ClockOK
  <2>4. /\ Load(held, spent, now', scope) <= Load(held, spent, now, scope)
        /\ Load(held, spent, now, scope) \in Nat
    BY <2>3, LoadShrinks
  <2>5. Load(held, spent, now', scope) \in Nat
    BY <2>3, LoadShrinks
  <2>6. Ceiling(scope) \in Nat
    BY CeilingTyped
  <2> QED
    BY <2>1, <2>2, <2>4, <2>5, <2>6
<1> QED
    BY <1>1, <1>2 DEF CommittedWithinCeiling

-----------------------------------------------------------------------------
(* The breaker *)

LEMMA EvictedKeeps ==
    ASSUME BreakerOK
    PROVE  /\ Evicted(breaker) \in [samples : Seq(Sample), rows : Nat, tripped : BOOLEAN]
           /\ Evicted(breaker).tripped = breaker.tripped
           /\ RowsOf(Evicted(breaker).samples) <= BreakerCeiling
           /\ RowsOf(Evicted(breaker).samples) \in Nat
           /\ ~breaker.tripped => Evicted(breaker).rows = RowsOf(Evicted(breaker).samples)
<1> DEFINE s == breaker.samples
           n == Expired(s)
           kept == SubSeq(s, n + 1, Len(s))
           gone == RowsOf(SubSeq(s, 1, n))
           rows == IF gone > breaker.rows THEN 0 ELSE breaker.rows - gone
<1>1. s \in Seq(Sample) /\ breaker.rows \in Nat /\ breaker.tripped \in BOOLEAN
    BY DEF BreakerOK
<1>2. n \in 0..Len(s)
    BY <1>1, ExpiredWithin
<1>3. /\ kept \in Seq(Sample) /\ gone \in Nat /\ RowsOf(kept) \in Nat
      /\ RowsOf(s) = gone + RowsOf(kept)
  <2> HIDE DEF s, n
  <2> QED
    BY <1>1, <1>2, RowsOfParts
<1>4. RowsOf(s) <= BreakerCeiling /\ (~breaker.tripped => breaker.rows = RowsOf(s)) /\ BreakerCeiling \in Nat
    BY ProposalsAssumption DEF BreakerOK, BreakerCountsWindow
<1>5. Evicted(breaker) = [breaker EXCEPT !.samples = kept, !.rows = rows]
    BY DEF Evicted
<1>6. /\ Evicted(breaker).samples = kept /\ Evicted(breaker).rows = rows
      /\ Evicted(breaker).tripped = breaker.tripped
    BY <1>5 DEF BreakerOK
<1>7. rows \in Nat
    BY <1>1, <1>3
<1>8. Evicted(breaker) \in [samples : Seq(Sample), rows : Nat, tripped : BOOLEAN]
    BY <1>3, <1>5, <1>7 DEF BreakerOK
<1>9. ~breaker.tripped => rows = RowsOf(kept)
    BY <1>1, <1>3, <1>4
<1> HIDE DEF kept, rows
<1>10. RowsOf(kept) <= BreakerCeiling
    BY <1>3, <1>4
<1> QED
    BY <1>3, <1>6, <1>8, <1>9, <1>10

LEMMA CheckedKeeps ==
    ASSUME ClockOK, BreakerOK, NEW m \in Nat, Checked(m)
    PROVE  BreakerOK'
<1> DEFINE e == Evicted(breaker)
           x == [at |-> now, rows |-> m]
<1>1. /\ e \in [samples : Seq(Sample), rows : Nat, tripped : BOOLEAN]
      /\ e.tripped = breaker.tripped
      /\ RowsOf(e.samples) <= BreakerCeiling
      /\ RowsOf(e.samples) \in Nat
      /\ ~breaker.tripped => e.rows = RowsOf(e.samples)
    BY EvictedKeeps
<1>2. breaker' = Recorded(e, m)
    BY DEF Checked
<1>3. x \in Sample /\ x.rows = m /\ BreakerCeiling \in Nat
    BY ProposalsAssumption DEF Sample, ClockOK
<1> HIDE DEF e, x
<1>r. /\ e = [samples |-> e.samples, rows |-> e.rows, tripped |-> e.tripped]
      /\ e.samples \in Seq(Sample) /\ e.rows \in Nat /\ e.rows + m \in Nat
    BY <1>1
<1>4. CASE e.tripped
  <2>1. breaker' = e
    BY <1>2, <1>4 DEF Recorded
  <2> QED
    BY <1>1, <1>4, <2>1 DEF BreakerOK, BreakerCountsWindow
<1>5. CASE ~e.tripped /\ Trips(e, m)
  <2>1. breaker' = [e EXCEPT !.tripped = TRUE, !.rows = e.rows + m]
    BY <1>2, <1>5 DEF Recorded
  <2>2. /\ breaker' \in [samples : Seq(Sample), rows : Nat, tripped : BOOLEAN]
        /\ breaker'.tripped /\ breaker'.samples = e.samples
    <3>1. breaker' = [samples |-> e.samples, rows |-> e.rows + m, tripped |-> TRUE]
      BY <1>r, <2>1
    <3> QED
      BY <1>r, <3>1
  <2> QED
    BY <1>1, <2>2 DEF BreakerOK, BreakerCountsWindow
<1>6. CASE ~e.tripped /\ ~Trips(e, m)
  <2>1. breaker' = [e EXCEPT !.samples = Append(e.samples, x), !.rows = e.rows + m]
    BY <1>2, <1>6 DEF Recorded, x
  <2>2. Append(e.samples, x) \in Seq(Sample) /\ e.samples \in Seq(Sample) /\ e.rows \in Nat
    BY <1>1, <1>3
  <2>3. /\ breaker' \in [samples : Seq(Sample), rows : Nat, tripped : BOOLEAN]
        /\ breaker'.samples = Append(e.samples, x) /\ breaker'.rows = e.rows + m
    <3>1. breaker' = [samples |-> Append(e.samples, x), rows |-> e.rows + m, tripped |-> e.tripped]
      BY <1>r, <2>1
    <3>2. e.tripped \in BOOLEAN
      BY <1>1
    <3> QED
      BY <1>r, <2>2, <3>1, <3>2
  <2>4. RowsOf(Append(e.samples, x)) = RowsOf(e.samples) + m
    BY <1>3, <2>2, RowsOfAppend
  <2>5. e.rows = RowsOf(e.samples) /\ e.rows + m <= BreakerCeiling
    BY <1>1, <1>3, <1>6, <2>2 DEF Trips
  <2>6. RowsOf(breaker'.samples) <= BreakerCeiling /\ breaker'.rows = RowsOf(breaker'.samples)
    BY <2>3, <2>4, <2>5
  <2> QED
    BY <2>3, <2>6 DEF BreakerOK, BreakerCountsWindow
<1> QED
    BY <1>4, <1>5, <1>6

LEMMA ClosedTyped ==
    /\ Closed \in [samples : Seq(Sample), rows : Nat, tripped : BOOLEAN]
    /\ RowsOf(Closed.samples) <= BreakerCeiling
    /\ Closed.rows = RowsOf(Closed.samples)
<1>1. Closed.samples = <<>> /\ Closed.rows = 0 /\ BreakerCeiling \in Nat
    BY ProposalsAssumption DEF Closed
<1>2. Closed \in [samples : Seq(Sample), rows : Nat, tripped : BOOLEAN]
    BY DEF Closed
<1> QED
    BY <1>1, <1>2, RowsOfNone

-----------------------------------------------------------------------------
(* Shadow branches *)

LEMMA ValidatedTyped ==
    ASSUME NEW c, NEW s \in Shadow
    PROVE  Validated(c, s) \in Shadow
<1>1. Checks(c, view[c.branch], s.view) \in BOOLEAN
    BY DEF Checks
<1>2. Len(s.entries) \in Int
    BY DEF Shadow
<1> QED
    BY <1>1, <1>2 DEF Validated, Shadow

LEMMA NewShadowTyped ==
    ASSUME ClockOK, BranchesOK, NEW c \in Changes
    PROVE  NewShadow(c) \in Shadow
<1>1. c.branch \in Targets
    BY ProposalsAssumption
<1>2. Schema(c) \in Entry
    BY SchemaIsEntry
<1>3. Apply(view[c.branch], Schema(c)) \in Branch
    BY <1>1, <1>2, BranchEntries DEF BranchesOK
<1>4. Len(log[c.branch]) \in Nat
    BY <1>1 DEF BranchesOK
<1>5. <<Schema(c)>> \in Seq(Entry)
    BY <1>2
<1> QED
    BY <1>3, <1>4, <1>5 DEF NewShadow, Shadow, UNVALIDATED, ClockOK

LEMMA WriteTyped ==
    ASSUME NEW w \in Writes
    PROVE  Transaction(w) \in Entry /\ Cardinality(DOMAIN w) \in Nat
<1>1. PICK n \in 1..MaxBatch : \E S \in kSubset(n, Keys) : w \in [S -> BOOLEAN]
    BY DEF Writes
<1> PICK S \in kSubset(n, Keys) : w \in [S -> BOOLEAN]
    BY <1>1
<1>2. S \in SUBSET Keys /\ Cardinality(S) = n /\ n \in Nat
    BY ProposalsAssumption DEF kSubset
<1>3. DOMAIN w = S /\ w \in Writing
    BY <1>2 DEF Writing
<1>4. <<>> \in Seq(Changes)
    OBVIOUS
<1> QED
    BY <1>2, <1>3, <1>4 DEF Transaction, Entry, Writing

-----------------------------------------------------------------------------
(* Every action keeps the invariant. *)

LEMMA Stands ==
    ASSUME Inv
    PROVE  /\ now' = now => ClockOK'
           /\ UNCHANGED data => BranchesOK'
           /\ UNCHANGED pending => PendingOK'
           /\ UNCHANGED shadows => ShadowsOK'
           /\ UNCHANGED breaker => BreakerOK'
           /\ now' = now /\ UNCHANGED budget => BudgetOK' /\ CommittedWithinCeiling'
<1>1. now' = now => ClockOK'
    BY DEF Inv, ClockOK
<1>2. UNCHANGED data => BranchesOK'
    BY DEF Inv, BranchesOK, data
<1>3. UNCHANGED pending => PendingOK'
    BY DEF Inv, PendingOK
<1>4. UNCHANGED shadows => ShadowsOK'
    BY DEF Inv, ShadowsOK
<1>5. UNCHANGED breaker => BreakerOK'
    BY DEF Inv, BreakerOK, BreakerCountsWindow
<1>6. now' = now /\ UNCHANGED budget => BudgetOK' /\ CommittedWithinCeiling'
  <2> SUFFICES ASSUME now' = now, UNCHANGED budget PROVE BudgetOK' /\ CommittedWithinCeiling'
    OBVIOUS
  <2>1. now' \in 0..MaxTime /\ now <= now'
    BY DEF Inv, ClockOK
  <2> QED
    BY <2>1, BudgetStands DEF Inv
<1> QED
    BY <1>1, <1>2, <1>3, <1>4, <1>5, <1>6

LEMMA ProposeKeeps ==
    ASSUME Inv, NEW c \in Changes, Propose(c)
    PROVE  Inv'
<1>1. UNCHANGED <<now, data, budget, breaker>> /\ Hold(c, Gate(view[c.branch], c))
    BY DEF Propose
<1>2. PendingOK'
    BY <1>1, HoldKeeps DEF Inv
<1>3. ShadowsOK'
  <2>1. CASE UNCHANGED shadows
    BY <2>1, Stands
  <2>2. CASE shadows' = Insert(shadows, c, Validated(c, ShadowOf(c)))
    <3>1. ShadowOf(c) \in Shadow
      BY NewShadowTyped DEF Inv, ShadowOf, ShadowsOK
    <3>2. Validated(c, ShadowOf(c)) \in Shadow
      BY <3>1, ValidatedTyped
    <3>3. /\ DOMAIN shadows' = DOMAIN shadows \cup {c}
          /\ \A d \in DOMAIN shadows' :
                shadows'[d] = IF d = c THEN Validated(c, ShadowOf(c)) ELSE shadows[d]
      BY <2>2 DEF Insert, Over
    <3> QED
      BY <3>2, <3>3 DEF Inv, ShadowsOK
  <2> QED
    BY <2>1, <2>2 DEF Propose
<1> QED
    BY <1>1, <1>2, <1>3, Stands DEF Inv

LEMMA ProposeWithinBudgetKeeps ==
    ASSUME Inv, NEW c \in Changes, NEW agent \in Agents, ProposeWithinBudget(c, agent)
    PROVE  Inv'
<1> DEFINE gate == Gate(view[c.branch], c)
<1>1. /\ UNCHANGED <<now, data, shadows, breaker>>
      /\ Hold(c, gate) /\ Reserve(gate, agent, c.branch)
    BY DEF ProposeWithinBudget
<1>2. PendingOK'
    BY <1>1, HoldKeeps DEF Inv
<1>3. gate \in GateNames /\ c.branch \in Targets
    BY GateTyped, ProposalsAssumption
<1>4. BudgetOK' /\ CommittedWithinCeiling'
    BY <1>1, <1>3, ReserveKeeps DEF Inv
<1> QED
    BY <1>1, <1>2, <1>4, Stands DEF Inv

LEMMA ValidateKeeps ==
    ASSUME Inv, NEW c \in Changes, ValidateShadow(c)
    PROVE  Inv'
<1>1. /\ UNCHANGED <<now, data, pending, budget, breaker>> /\ c \in DOMAIN shadows
      /\ shadows' = [shadows EXCEPT ![c] = Validated(c, shadows[c])]
    BY DEF ValidateShadow
<1>2. Validated(c, shadows[c]) \in Shadow
    BY <1>1, ValidatedTyped DEF Inv, ShadowsOK
<1>3. ShadowsOK'
    BY <1>1, <1>2 DEF Inv, ShadowsOK
<1> QED
    BY <1>1, <1>3, Stands DEF Inv

LEMMA ApplyKeeps ==
    ASSUME Inv, NEW c \in Changes, NEW confirm \in BOOLEAN, ApplySchemaChange(c, confirm)
    PROVE  Inv'
<1>1. /\ UNCHANGED <<now, shadows, breaker>>
      /\ pending' = Dropped(pending, {c})
      /\ Settle({c}, "approved")
      /\ Append_(c.branch, <<Schema(c)>>)
    BY DEF ApplySchemaChange
<1>2. c.branch \in Targets /\ <<Schema(c)>> \in Seq(Entry)
  <2>1. Schema(c) \in Entry
    BY SchemaIsEntry
  <2> QED
    BY <2>1, ProposalsAssumption
<1>3. BranchesOK'
    BY <1>1, <1>2, AppendKeeps DEF Inv
<1>4. PendingOK'
    BY <1>1, DroppedKeepsPending DEF Inv
<1>5. BudgetOK' /\ CommittedWithinCeiling'
    BY <1>1, SettleKeeps DEF Inv
<1> QED
    BY <1>1, <1>3, <1>4, <1>5, Stands DEF Inv

LEMMA ReleaseKeeps ==
    ASSUME Inv, now' = now, NEW c, NEW settlement, Release(c, settlement)
    PROVE  ShadowsOK' /\ PendingOK' /\ BudgetOK' /\ CommittedWithinCeiling'
<1>1. /\ shadows' = Dropped(shadows, {c}) /\ pending' = Dropped(pending, {c})
      /\ Settle({c}, settlement)
    BY DEF Release
<1>2. BudgetOK' /\ CommittedWithinCeiling'
    BY <1>1, SettleKeeps DEF Inv
<1> QED
    BY <1>1, <1>2, DroppedKeepsPending, DroppedKeepsShadows DEF Inv

LEMMA MergedKeeps ==
    ASSUME Inv, NEW c \in DOMAIN shadows,
           Append_(c.branch, MergeResult(Ours(c), shadows[c].entries))
    PROVE  BranchesOK'
<1>1. Ours(c) \in Seq(Entry) /\ c.branch \in Targets /\ shadows[c].entries \in Seq(Entry)
    BY OursTyped DEF Inv, Shadow
<1>2. MergeResult(Ours(c), shadows[c].entries) \in Seq(Entry)
    BY <1>1, MergeResultTyped
<1> QED
    BY <1>1, <1>2, AppendKeeps DEF Inv

LEMMA PromoteKeeps ==
    ASSUME Inv, NEW c \in Changes, PromoteShadow(c)
    PROVE  Inv'
<1>1. /\ UNCHANGED <<now, breaker>> /\ c \in DOMAIN shadows
      /\ Append_(c.branch, MergeResult(Ours(c), shadows[c].entries))
      /\ Release(c, "approved")
    BY DEF PromoteShadow
<1> QED
    BY <1>1, MergedKeeps, ReleaseKeeps, Stands DEF Inv

LEMMA RejectKeeps ==
    ASSUME Inv, NEW c \in Changes, RejectShadow(c)
    PROVE  Inv'
<1>1. UNCHANGED <<now, data, breaker>> /\ Release(c, RejectSettles)
    BY DEF RejectShadow
<1> QED
    BY <1>1, ReleaseKeeps, Stands DEF Inv

LEMMA MergeKeeps ==
    ASSUME Inv, NEW c \in Changes, Merge(c)
    PROVE  Inv'
<1>1. /\ UNCHANGED <<now, pending, shadows, budget, breaker>> /\ c \in DOMAIN shadows
      /\ Append_(c.branch, MergeResult(Ours(c), shadows[c].entries))
    BY DEF Merge
<1> QED
    BY <1>1, MergedKeeps, Stands DEF Inv

LEMMA WriteTargetKeeps ==
    ASSUME Inv, NEW b \in Targets, NEW w \in Writes, WriteTarget(b, w)
    PROVE  Inv'
<1>1. UNCHANGED <<now, pending, shadows, budget>> /\ Checked(Cardinality(DOMAIN w))
    BY DEF WriteTarget
<1>2. Transaction(w) \in Entry /\ Cardinality(DOMAIN w) \in Nat
    BY WriteTyped
<1>3. BreakerOK'
    BY <1>1, <1>2, CheckedKeeps DEF Inv
<1>4. BranchesOK'
  <2>1. CASE UNCHANGED data
    BY <2>1, Stands
  <2>2. CASE Append_(b, <<Transaction(w)>>)
    <3>1. <<Transaction(w)>> \in Seq(Entry)
      BY <1>2
    <3> QED
      BY <2>2, <3>1, AppendKeeps DEF Inv
  <2> QED
    BY <2>1, <2>2 DEF WriteTarget
<1> QED
    BY <1>1, <1>3, <1>4, Stands DEF Inv

LEMMA WriteShadowKeeps ==
    ASSUME Inv, NEW c \in Changes, NEW w \in Writes, WriteShadow(c, w)
    PROVE  Inv'
<1>1. UNCHANGED <<now, data, pending, budget>> /\ Checked(Cardinality(DOMAIN w)) /\ c \in DOMAIN shadows
    BY DEF WriteShadow
<1>2. Transaction(w) \in Entry /\ Cardinality(DOMAIN w) \in Nat
    BY WriteTyped
<1>3. BreakerOK'
    BY <1>1, <1>2, CheckedKeeps DEF Inv
<1>4. ShadowsOK'
  <2>1. CASE UNCHANGED shadows
    BY <2>1, Stands
  <2>2. CASE shadows' = [shadows EXCEPT ![c].entries = Append(@, Transaction(w)),
                                       ![c].view = Apply(@, Transaction(w))]
    <3> DEFINE s == shadows[c]
               t == [s EXCEPT !.entries = Append(s.entries, Transaction(w)),
                              !.view = Apply(s.view, Transaction(w))]
    <3>1. s \in Shadow
      BY <1>1 DEF Inv, ShadowsOK
    <3>2. Append(s.entries, Transaction(w)) \in Seq(Entry)
      <4>1. s.entries \in Seq(Entry)
        BY <3>1 DEF Shadow
      <4> QED
        BY <1>2, <4>1
    <3>3. Apply(s.view, Transaction(w)) \in Branch
      BY <1>2, <3>1, BranchEntries DEF Shadow
    <3>4. t \in Shadow
      BY <3>1, <3>2, <3>3 DEF Shadow
    <3>5. /\ DOMAIN shadows' = DOMAIN shadows
          /\ \A d \in DOMAIN shadows : d # c => shadows'[d] = shadows[d]
          /\ shadows'[c] = t
      BY <1>1, <2>2, <3>1 DEF Shadow
    <3> HIDE DEF t
    <3> QED
      BY <3>4, <3>5 DEF Inv, ShadowsOK
  <2> QED
    BY <2>1, <2>2 DEF WriteShadow
<1> QED
    BY <1>1, <1>3, <1>4, Stands DEF Inv

LEMMA PushPolicyKeeps ==
    ASSUME Inv, PushPolicy
    PROVE  Inv'
<1>1. UNCHANGED <<now, data, pending, shadows, budget>> /\ breaker' = Closed
    BY DEF PushPolicy
<1>2. BreakerOK'
    BY <1>1, ClosedTyped DEF BreakerOK, BreakerCountsWindow
<1> QED
    BY <1>1, <1>2, Stands DEF Inv

LEMMA CollectKeeps ==
    ASSUME Inv, CollectExpired
    PROVE  Inv'
<1> DEFINE reclaimed == ExpiredShadows \cup Lapsed
<1>1. /\ UNCHANGED <<now, data, breaker>>
      /\ shadows' = Dropped(shadows, ExpiredShadows)
      /\ pending' = Dropped(pending, reclaimed)
      /\ Settle(reclaimed, "expired")
    BY DEF CollectExpired
<1> HIDE DEF reclaimed
<1>2. BudgetOK' /\ CommittedWithinCeiling'
    BY <1>1, SettleKeeps DEF Inv
<1>3. PendingOK' /\ ShadowsOK'
    BY <1>1, DroppedKeepsPending, DroppedKeepsShadows DEF Inv
<1> QED
    BY <1>1, <1>2, <1>3, Stands DEF Inv

LEMMA TickKeeps ==
    ASSUME Inv, Tick
    PROVE  Inv'
<1>1. UNCHANGED <<data, pending, shadows, budget, breaker>> /\ now < MaxTime /\ now' = now + 1
    BY DEF Tick
<1>2. now' \in 0..MaxTime /\ now <= now'
    BY <1>1, ProposalsAssumption DEF Inv, ClockOK
<1>3. ClockOK'
    BY <1>2 DEF ClockOK
<1>4. BudgetOK' /\ CommittedWithinCeiling'
    BY <1>1, <1>2, BudgetStands DEF Inv
<1> QED
    BY <1>1, <1>3, <1>4, Stands DEF Inv

LEMMA InitMakes == Init => Inv
<1> SUFFICES ASSUME Init PROVE Inv
    OBVIOUS
<1>1. ClockOK
    BY ProposalsAssumption DEF Init, ClockOK
<1>2. BranchesOK
  <2>1. <<>> \in Seq(Entry) /\ Opened \in Branch /\ Extend(Opened, <<>>) = Opened
    BY OpenedTyped, ExtendByNone
  <2> QED
    BY <2>1 DEF Init, BranchesOK
<1>3. PendingOK /\ ShadowsOK
  <2>1. DOMAIN pending = {} /\ DOMAIN shadows = {}
    BY DEF Init
  <2> QED
    BY <2>1 DEF PendingOK, ShadowsOK
<1>4. BudgetOK
  <2>1. Reviews({})
    BY FS_EmptySet DEF Reviews
  <2> QED
    BY <2>1, ProposalsAssumption DEF Init, BudgetOK
<1>5. CommittedWithinCeiling
  <2> SUFFICES ASSUME NEW scope \in Scopes PROVE Committed(scope) <= Ceiling(scope)
    BY DEF CommittedWithinCeiling
  <2>1. Committed(scope) = Sum({}) + Sum({})
    <3>1. For(UnexpiredAt({}, now), scope) = {} /\ For(WindowAt({}, now), scope) = {}
      BY DEF For, UnexpiredAt, WindowAt
    <3>2. held = {} /\ spent = {}
      BY DEF Init
    <3> QED
      BY <3>1, <3>2, LoadNow DEF Load
  <2>2. Sum({}) = 0
    BY FS_EmptySet, SumUnfolds
  <2> QED
    BY <2>1, <2>2, CeilingTyped
<1>6. BreakerOK
  <2>1. breaker = Closed
    BY DEF Init
  <2> QED
    BY <2>1, ClosedTyped DEF BreakerOK, BreakerCountsWindow
<1> QED
    BY <1>1, <1>2, <1>3, <1>4, <1>5, <1>6 DEF Inv

LEMMA NextKeeps == Inv /\ [Next]_vars => Inv'
<1> SUFFICES ASSUME Inv, [Next]_vars PROVE Inv'
    OBVIOUS
<1>1. ASSUME NEW c \in Changes, Request(c) PROVE Inv'
    BY <1>1, ProposeKeeps, ProposeWithinBudgetKeeps, ValidateKeeps, ApplyKeeps, PromoteKeeps,
       RejectKeeps, MergeKeeps DEF Request
<1>2. ASSUME NEW b \in Targets, NEW w \in Writes, WriteTarget(b, w) PROVE Inv'
    BY <1>2, WriteTargetKeeps
<1>3. ASSUME NEW c \in Changes, NEW w \in Writes, WriteShadow(c, w) PROVE Inv'
    BY <1>3, WriteShadowKeeps
<1>4. CASE PushPolicy
    BY <1>4, PushPolicyKeeps
<1>5. CASE CollectExpired
    BY <1>5, CollectKeeps
<1>6. CASE Tick
    BY <1>6, TickKeeps
<1>7. CASE UNCHANGED vars
    BY <1>7, Stands DEF vars, Inv
<1> QED
    BY <1>1, <1>2, <1>3, <1>4, <1>5, <1>6, <1>7 DEF Next

LEMMA InvAlways == Spec => []Inv
    BY InitMakes, NextKeeps, PTL DEF Spec

(* The reviews a project, a branch or an agent has out and has been given in  *)
(* the window never pass its ceiling (ReviewBudget::reserve, settle, expire),  *)
(* and the breaker's running total is the sum of the samples in its window     *)
(* (CircuitBreaker::record), whatever the ceilings, windows and costs are.     *)
THEOREM CeilingsAlwaysHold == Spec => []CeilingsHold
    BY InvAlways, InvImplies, PTL

-----------------------------------------------------------------------------
(* What a settlement that spends does to the reviews still in time.            *)
LEMMA SettledStaysSpent ==
    ASSUME Inv, NEW cs, NEW settlement, Settle(cs, settlement), Spends(settlement)
    PROVE  \A r \in Unexpired : r \in held' \/ \E s \in spent' : s.id = r.id /\ s.cost = r.cost
<1> SUFFICES ASSUME NEW r \in Unexpired
             PROVE  r \in held' \/ \E s \in spent' : s.id = r.id /\ s.cost = r.cost
    OBVIOUS
<1>1. r \in held /\ r \in Held /\ now \in 0..MaxTime
    BY BudgetParts DEF Inv, BudgetOK, Reviews
<1>2. CASE UNCHANGED budget
    BY <1>1, <1>2 DEF budget
<1>3. CASE /\ held' = Unexpired \ SettledBy(cs)
           /\ spent' = InWindow \cup {Answered(x, now) : x \in SettledBy(cs)}
  <2>1. CASE r \in SettledBy(cs)
    <3>1. Answered(r, now) \in spent'
      BY <1>3, <2>1
    <3> QED
      BY <1>1, <3>1, AnsweredIsHeld
  <2>2. CASE r \notin SettledBy(cs)
    BY <1>3, <2>2
  <2> QED
    BY <2>1, <2>2
<1> QED
    BY <1>2, <1>3, SettleCases

(* What a step that does not answer a request says of the request last granted. *)
Grants == answered' \in {"settled", "applied", "promoted"}

LEMMA GrantsAre ==
    ASSUME [Next]_vars, Grants
    PROVE  \/ \E c \in Changes, confirm \in BOOLEAN : ApplySchemaChange(c, confirm)
           \/ \E c \in Changes : PromoteShadow(c) \/ RejectShadow(c)
           \/ UNCHANGED vars
    BY DEF Next, Request, Grants, Propose, ProposeWithinBudget, ValidateShadow, Merge,
           WriteTarget, WriteShadow, Checked, PushPolicy, CollectExpired, Tick

(* Approving, promoting and rejecting give nothing back: a review that was     *)
(* held and still in time is held on or spent, at the same cost                *)
(* (Settlement::refunds is false of both).                                     *)
THEOREM AnsweredStaysSpent == Spec => AnsweredReviewsStaySpent
<1>1. ASSUME Inv, [Next]_vars, Grants
      PROVE  \A r \in Unexpired : r \in held' \/ \E s \in spent' : s.id = r.id /\ s.cost = r.cost
  <2>1. ASSUME NEW c \in Changes, NEW confirm \in BOOLEAN, ApplySchemaChange(c, confirm)
        PROVE  \A r \in Unexpired : r \in held' \/ \E s \in spent' : s.id = r.id /\ s.cost = r.cost
    <3>1. Settle({c}, "approved") /\ Spends("approved")
      BY <2>1 DEF ApplySchemaChange, Spends
    <3> QED
      BY <1>1, <3>1, SettledStaysSpent
  <2>2. ASSUME NEW c \in Changes, PromoteShadow(c) \/ RejectShadow(c)
        PROVE  \A r \in Unexpired : r \in held' \/ \E s \in spent' : s.id = r.id /\ s.cost = r.cost
    <3>1. \E settlement : Settle({c}, settlement) /\ Spends(settlement)
      BY <2>2 DEF PromoteShadow, RejectShadow, RejectSettles, Release, Spends
    <3> QED
      BY <1>1, <3>1, SettledStaysSpent
  <2>3. CASE UNCHANGED vars
    BY <2>3 DEF vars, budget, Unexpired
  <2> QED
    BY <1>1, <2>1, <2>2, <2>3, GrantsAre
<1>2. Inv /\ [Next]_vars => [Grants => \A r \in Unexpired :
          r \in held' \/ \E s \in spent' : s.id = r.id /\ s.cost = r.cost]_vars
    BY <1>1
<1> QED
    BY <1>2, InvAlways, PTL DEF Spec, AnsweredReviewsStaySpent, Grants

-----------------------------------------------------------------------------
(* Adding a table touches no row.                                              *)
LEMMA AddingLosesNothing ==
    ASSUME NEW v \in Branch, NEW c \in Changes, c.op = "add"
    PROVE  Extend(v, <<Schema(c)>>).rows = v.rows
<1>1. Schema(c) \in Entry /\ Schema(c).schema = <<c>> /\ Schema(c).writes = Nothing
    BY SchemaIsEntry DEF Schema
<1>2. FoldLeft(ApplyChange, v, <<c>>) = ApplyChange(v, c)
  <2>1. <<c>> \in Seq(Changes) /\ Len(<<c>>) = 1 /\ <<c>>[1] = c
    OBVIOUS
  <2>2. PICK P : ChangesAlong(P, v, <<c>>) /\ FoldLeft(ApplyChange, v, <<c>>) = P[1]
    BY <2>1, ChangesFold
  <2> QED
    BY <2>1, <2>2 DEF ChangesAlong
<1>3. ApplyChange(v, c) \in Branch /\ ApplyChange(v, c).rows = v.rows
    BY BranchChanges DEF ApplyChange, Branch
<1> DEFINE w == ApplyChange(v, c)
<1>4. Apply(v, Schema(c)) =
        [w EXCEPT !.rows = (@ \ DOMAIN Nothing) \cup {k \in DOMAIN Nothing : Nothing[k]}]
    BY <1>1, <1>2 DEF Apply
<1>5. DOMAIN Nothing = {}
    BY DEF Nothing
<1> HIDE DEF w
<1>6. Apply(v, Schema(c)).rows = w.rows
    BY <1>3, <1>4, <1>5 DEF Branch, w
<1> QED
    BY <1>1, <1>3, <1>6, ExtendByOne DEF w

(* A change nobody confirmed only adds: applying it removes no row of any      *)
(* branch, however its table filled or emptied while the proposal waited       *)
(* (Engine::apply_schema_change checks the gate held when it was proposed).    *)
THEOREM UnconfirmedKeepsRows == Spec => UnconfirmedLosesNothing
<1>1. ASSUME Inv, [Next]_vars, answered' = "applied"
      PROVE  \A b \in Targets : view[b].rows \subseteq view[b].rows'
  <2>1. ASSUME NEW c \in Changes, NEW confirm \in BOOLEAN, ApplySchemaChange(c, confirm)
        PROVE  \A b \in Targets : view[b].rows \subseteq view'[b].rows
    <3>1. confirm = FALSE /\ c \in DOMAIN pending /\ pending[c].gate = "auto"
      BY <1>1, <2>1 DEF ApplySchemaChange, MayApply
    <3>2. c.op = "add" /\ c.branch \in Targets
      BY <1>1, <3>1, ProposalsAssumption DEF Inv, PendingOK
    <3>3. view' = [view EXCEPT ![c.branch] = Extend(view[c.branch], <<Schema(c)>>)]
      BY <2>1 DEF ApplySchemaChange, Append_
    <3>4. view \in [Targets -> Branch]
      BY <1>1 DEF Inv, BranchesOK
    <3>5. Extend(view[c.branch], <<Schema(c)>>).rows = view[c.branch].rows
      BY <3>2, <3>4, AddingLosesNothing
    <3> QED
      BY <3>2, <3>3, <3>4, <3>5
  <2>2. ~ \E c \in Changes : PromoteShadow(c) \/ RejectShadow(c)
    BY <1>1 DEF PromoteShadow, RejectShadow
  <2>3. CASE UNCHANGED vars
    BY <2>3 DEF vars, data
  <2>4. Grants
    BY <1>1 DEF Grants
  <2> QED
    BY <1>1, <2>1, <2>2, <2>3, <2>4, GrantsAre
<1>2. Inv /\ [Next]_vars => [answered' = "applied" =>
          \A b \in Targets : view[b].rows \subseteq view[b].rows']_vars
    BY <1>1
<1> QED
    BY <1>2, InvAlways, PTL DEF Spec, UnconfirmedLosesNothing

-----------------------------------------------------------------------------
(* What changes of one table leave alone: the rows of every other table.       *)
OfTable(e, t) == \A j \in DOMAIN e.schema : e.schema[j].table = t
AllOf(es, t) == \A i \in DOMAIN es : OfTable(es[i], t)
Untouched(es, k) == \A i \in DOMAIN es : k \notin DOMAIN es[i].writes

LEMMA ChangeKeepsOthers ==
    ASSUME NEW v \in Branch, NEW c \in Changes, NEW k, k[1] # c.table
    PROVE  k \in ApplyChange(v, c).rows <=> k \in v.rows
    BY DEF ApplyChange, Rows, Branch

LEMMA ChangesKeepOthers ==
    ASSUME NEW v \in Branch, NEW s \in Seq(Changes), NEW t, NEW k, k[1] # t,
           \A j \in DOMAIN s : s[j].table = t
    PROVE  /\ FoldLeft(ApplyChange, v, s) \in Branch
           /\ k \in FoldLeft(ApplyChange, v, s).rows <=> k \in v.rows
<1>1. PICK P : ChangesAlong(P, v, s) /\ FoldLeft(ApplyChange, v, s) = P[Len(s)]
    BY ChangesFold
<1> DEFINE Q == {i \in 0..Len(s) : k \in P[i].rows <=> k \in v.rows}
<1>2. Len(s) \in Nat /\ DOMAIN s = 1..Len(s) /\ 0 \in Q
    BY <1>1 DEF ChangesAlong
<1>3. ASSUME NEW i \in 1..Len(s), i - 1 \in Q PROVE i \in Q
  <2>1. i \in 0..Len(s) /\ i - 1 \in 0..Len(s) /\ s[i] \in Changes /\ s[i].table = t
    BY <1>2
  <2>2. P[i] = ApplyChange(P[i - 1], s[i]) /\ P[i - 1] \in Branch
    BY <1>1, <2>1 DEF ChangesAlong
  <2>3. k \in P[i].rows <=> k \in P[i - 1].rows
    BY <2>1, <2>2, ChangeKeepsOthers
  <2> QED
    BY <1>3, <2>1, <2>3
<1> HIDE DEF Q
<1>4. Len(s) \in 0..Len(s)
    BY <1>2
<1>5. Len(s) \in Q
  <2>1. Len(s) \in Nat /\ 0 \in Q /\ \A i \in 1..Len(s) : i - 1 \in Q => i \in Q
    BY <1>2, <1>3
  <2> DEFINE n == Len(s)
  <2> HIDE DEF n
  <2>2. \A i \in 0..n : i \in Q
    BY <2>1, UpTo DEF n
  <2> QED
    BY <1>4, <2>2 DEF n
<1> QED
    BY <1>1, <1>4, <1>5 DEF Q, ChangesAlong

LEMMA EntryShows ==
    ASSUME NEW v \in Branch, NEW e \in Entry, NEW t, OfTable(e, t), NEW k, k[1] # t
    PROVE  k \in Apply(v, e).rows <=> (IF k \in DOMAIN e.writes THEN e.writes[k] ELSE k \in v.rows)
<1>1. e.schema \in Seq(Changes) /\ e.writes \in Writing
    BY DEF Entry, Writing
<1> DEFINE w == FoldLeft(ApplyChange, v, e.schema)
<1>2. w \in Branch /\ (k \in w.rows <=> k \in v.rows)
    BY <1>1, ChangesKeepOthers DEF OfTable
<1>3. Apply(v, e) =
        [w EXCEPT !.rows = (@ \ DOMAIN e.writes) \union {x \in DOMAIN e.writes : e.writes[x]}]
    BY DEF Apply
<1> HIDE DEF w
<1>4. Apply(v, e).rows = (w.rows \ DOMAIN e.writes) \union {x \in DOMAIN e.writes : e.writes[x]}
    BY <1>2, <1>3 DEF Branch
<1> QED
    BY <1>2, <1>4

LEMMA EntriesShow ==
    ASSUME NEW v \in Branch, NEW es \in Seq(Entry), NEW t, AllOf(es, t), NEW k, k[1] # t
    PROVE  /\ k \in DOMAIN Effects(es) <=> ~Untouched(es, k)
           /\ k \in Extend(v, es).rows <=>
                (IF k \in DOMAIN Effects(es) THEN Effects(es)[k] ELSE k \in v.rows)
<1>1. PICK P : EntriesAlong(P, v, es) /\ Extend(v, es) = P[Len(es)]
    BY EntriesFold
<1>2. PICK E : EffectsAlong(E, es) /\ Effects(es) = E[Len(es)]
    BY EffectsFold
<1> DEFINE Seen(i) == /\ k \in DOMAIN E[i] <=> \E j \in 1..i : k \in DOMAIN es[j].writes
                      /\ k \in P[i].rows <=> (IF k \in DOMAIN E[i] THEN E[i][k] ELSE k \in v.rows)
           Q == {i \in 0..Len(es) : Seen(i)}
<1>3. Len(es) \in Nat /\ DOMAIN es = 1..Len(es)
    OBVIOUS
<1>4. 0 \in Q
    BY <1>1, <1>2, <1>3 DEF EntriesAlong, EffectsAlong, Nothing
<1>5. ASSUME NEW i \in 1..Len(es), i - 1 \in Q PROVE i \in Q
  <2>1. i \in 0..Len(es) /\ i - 1 \in 0..Len(es) /\ es[i] \in Entry /\ OfTable(es[i], t)
    BY <1>3 DEF AllOf
  <2>2. P[i] = Apply(P[i - 1], es[i]) /\ P[i - 1] \in Branch
    BY <1>1, <2>1 DEF EntriesAlong
  <2>3. E[i] = Over(es[i].writes, E[i - 1])
    BY <1>2, <2>1 DEF EffectsAlong
  <2>4. k \in P[i].rows <=>
          (IF k \in DOMAIN es[i].writes THEN es[i].writes[k] ELSE k \in P[i - 1].rows)
    BY <2>1, <2>2, EntryShows
  <2>5. /\ k \in DOMAIN E[i] <=> k \in DOMAIN es[i].writes \/ k \in DOMAIN E[i - 1]
        /\ k \in DOMAIN es[i].writes => E[i][k] = es[i].writes[k]
        /\ k \in DOMAIN E[i - 1] /\ k \notin DOMAIN es[i].writes => E[i][k] = E[i - 1][k]
    BY <2>3 DEF Over
  <2>6. (\E j \in 1..i : k \in DOMAIN es[j].writes) <=>
          k \in DOMAIN es[i].writes \/ \E j \in 1..(i - 1) : k \in DOMAIN es[j].writes
    BY <1>3
  <2>7. Seen(i - 1)
    BY <1>5
  <2>8. Seen(i)
    BY <2>4, <2>5, <2>6, <2>7
  <2> QED
    BY <2>1, <2>8
<1> HIDE DEF Q
<1>6. Len(es) \in Q
  <2> DEFINE n == Len(es)
  <2>1. n \in Nat /\ 0 \in Q /\ \A i \in 1..n : i - 1 \in Q => i \in Q
    BY <1>3, <1>4, <1>5
  <2> HIDE DEF n
  <2>2. \A i \in 0..n : i \in Q
    BY <2>1, UpTo
  <2>3. n \in 0..n
    BY <2>1
  <2> QED
    BY <2>2, <2>3 DEF n
<1> QED
    BY <1>1, <1>2, <1>3, <1>6 DEF Q, Untouched

LEMMA SchemaOfTable ==
    ASSUME NEW es \in Seq(Entry), NEW t, AllOf(es, t)
    PROVE  /\ SchemaChanges(es) \in Seq(Changes)
           /\ \A j \in DOMAIN SchemaChanges(es) : SchemaChanges(es)[j].table = t
<1>1. PICK P : SchemaAlong(P, es) /\ SchemaChanges(es) = P[Len(es)]
    BY SchemaFold
<1> DEFINE Q == {i \in 0..Len(es) : \A j \in DOMAIN P[i] : P[i][j].table = t}
<1>2. Len(es) \in Nat /\ DOMAIN es = 1..Len(es) /\ 0 \in Q
    BY <1>1 DEF SchemaAlong
<1>3. ASSUME NEW i \in 1..Len(es), i - 1 \in Q PROVE i \in Q
  <2>1. i \in 0..Len(es) /\ i - 1 \in 0..Len(es) /\ es[i] \in Entry /\ OfTable(es[i], t)
    BY <1>2 DEF AllOf
  <2>2. P[i] = P[i - 1] \o es[i].schema /\ P[i - 1] \in Seq(Changes) /\ es[i].schema \in Seq(Changes)
    BY <1>1, <2>1 DEF SchemaAlong, Entry
  <2>3. \A j \in DOMAIN P[i - 1] : P[i - 1][j].table = t
    BY <1>3
  <2>4. \A j \in DOMAIN es[i].schema : es[i].schema[j].table = t
    BY <2>1 DEF OfTable
  <2> DEFINE a == P[i - 1]
             b == es[i].schema
  <2>5. ASSUME NEW j \in DOMAIN (a \o b) PROVE (a \o b)[j].table = t
    <3>1. a \in Seq(Changes) /\ b \in Seq(Changes) /\ (\A m \in DOMAIN a : a[m].table = t)
          /\ (\A m \in DOMAIN b : b[m].table = t)
      BY <2>2, <2>3, <2>4
    <3> HIDE DEF a, b
    <3>2. CASE j \in 1..Len(a)
      BY <3>1, <3>2
    <3>3. CASE j \notin 1..Len(a)
      <4>1. j - Len(a) \in DOMAIN b /\ (a \o b)[j] = b[j - Len(a)]
        BY <2>5, <3>1, <3>3
      <4> QED
        BY <3>1, <4>1
    <3> QED
      BY <3>2, <3>3
  <2> QED
    BY <2>1, <2>2, <2>5
<1> HIDE DEF Q
<1>4. Len(es) \in 0..Len(es)
    BY <1>2
<1>5. Len(es) \in Q
  <2>1. Len(es) \in Nat /\ 0 \in Q /\ \A i \in 1..Len(es) : i - 1 \in Q => i \in Q
    BY <1>2, <1>3
  <2> DEFINE n == Len(es)
  <2> HIDE DEF n
  <2>2. \A i \in 0..n : i \in Q
    BY <2>1, UpTo DEF n
  <2> QED
    BY <1>4, <2>2 DEF n
<1> QED
    BY <1>1, <1>4, <1>5 DEF Q, SchemaAlong

LEMMA CarriedOfTable ==
    ASSUME NEW ours, NEW s \in Seq(Changes), NEW t, \A j \in DOMAIN s : s[j].table = t
    PROVE  /\ Carried(ours, s) \in Seq(Entry) /\ AllOf(Carried(ours, s), t)
           /\ \A k : Untouched(Carried(ours, s), k)
<1>1. PICK P : CarriedAlong(P, ours, s) /\ Carried(ours, s) = P[Len(s)]
    BY CarriedFold
<1> DEFINE Quiet(e) == OfTable(e, t) /\ DOMAIN e.writes = {}
           Q == {i \in 0..Len(s) : \A j \in DOMAIN P[i] : Quiet(P[i][j])}
<1>2. Len(s) \in Nat /\ DOMAIN s = 1..Len(s) /\ 0 \in Q
    BY <1>1 DEF CarriedAlong
<1>3. ASSUME NEW i \in 1..Len(s), i - 1 \in Q PROVE i \in Q
  <2>1. i \in 0..Len(s) /\ i - 1 \in 0..Len(s) /\ s[i] \in Changes /\ s[i].table = t
    BY <1>2
  <2> DEFINE a == P[i - 1]
             e == Schema(s[i])
  <2>2. P[i] = Carry(ours, a, s[i]) /\ a \in Seq(Entry)
    BY <1>1, <2>1 DEF CarriedAlong
  <2>3. e.schema = <<s[i]>> /\ DOMAIN e.writes = {}
    BY DEF Schema, Nothing
  <2>4. Quiet(e)
    BY <2>1, <2>3 DEF OfTable
  <2>5. \A j \in DOMAIN a : Quiet(a[j])
    BY <1>3
  <2> HIDE DEF a, e, Quiet
  <2>6. \A j \in DOMAIN Append(a, e) : Quiet(Append(a, e)[j])
    BY <2>2, <2>4, <2>5
  <2>7. P[i] = a \/ P[i] = Append(a, e)
    BY <2>2 DEF Carry, e
  <2>8. \A j \in DOMAIN P[i] : Quiet(P[i][j])
    BY <2>5, <2>6, <2>7
  <2> QED
    BY <2>1, <2>8 DEF Quiet
<1> HIDE DEF Q
<1>4. Len(s) \in 0..Len(s)
    BY <1>2
<1>5. Len(s) \in Q
  <2>1. Len(s) \in Nat /\ 0 \in Q /\ \A i \in 1..Len(s) : i - 1 \in Q => i \in Q
    BY <1>2, <1>3
  <2> DEFINE n == Len(s)
  <2> HIDE DEF n
  <2>2. \A i \in 0..n : i \in Q
    BY <2>1, UpTo DEF n
  <2> QED
    BY <1>4, <2>2 DEF n
<1> QED
    BY <1>1, <1>4, <1>5 DEF Q, CarriedAlong, AllOf, Untouched

LEMMA RestOfJoined ==
    ASSUME NEW S, NEW a \in Seq(S), NEW b \in Seq(S), NEW n \in Nat, n <= Len(a)
    PROVE  SubSeq(a \o b, n + 1, Len(a \o b)) = SubSeq(a, n + 1, Len(a)) \o b
<1> DEFINE x == SubSeq(a \o b, n + 1, Len(a \o b))
           y == SubSeq(a, n + 1, Len(a)) \o b
<1>1. /\ x \in Seq(S) /\ Len(x) = (Len(a) + Len(b)) - n
      /\ \A i \in 1..((Len(a) + Len(b)) - n) : x[i] = (a \o b)[n + i]
    OBVIOUS
<1>2. /\ y \in Seq(S) /\ Len(y) = (Len(a) + Len(b)) - n
      /\ \A i \in 1..((Len(a) + Len(b)) - n) : y[i] = (a \o b)[n + i]
    OBVIOUS
<1> HIDE DEF x, y
<1>3. x = y
    BY <1>1, <1>2, SeqEqual
<1> QED
    BY <1>3 DEF x, y

LEMMA JoinedOfTable ==
    ASSUME NEW a \in Seq(Entry), NEW b \in Seq(Entry), NEW t
    PROVE  AllOf(a \o b, t) <=> AllOf(a, t) /\ AllOf(b, t)
<1>1. Len(a) \in Nat /\ Len(b) \in Nat /\ DOMAIN a = 1..Len(a) /\ DOMAIN b = 1..Len(b)
      /\ DOMAIN (a \o b) = 1..(Len(a) + Len(b))
      /\ (\A i \in 1..Len(a) : (a \o b)[i] = a[i])
      /\ (\A i \in 1..Len(b) : (a \o b)[Len(a) + i] = b[i])
    OBVIOUS
<1>2. ASSUME AllOf(a \o b, t) PROVE AllOf(a, t) /\ AllOf(b, t)
  <2>1. \A i \in 1..Len(a) : i \in 1..(Len(a) + Len(b))
    BY <1>1
  <2>2. \A i \in 1..Len(b) : Len(a) + i \in 1..(Len(a) + Len(b))
    BY <1>1
  <2>3. \A i \in 1..(Len(a) + Len(b)) : OfTable((a \o b)[i], t)
    BY <1>1, <1>2 DEF AllOf
  <2>4. ASSUME NEW i \in 1..Len(a) PROVE OfTable(a[i], t)
    <3>1. (a \o b)[i] = a[i] /\ OfTable((a \o b)[i], t)
      BY <1>1, <2>1, <2>3
    <3> QED
      BY <3>1, Zenon
  <2>5. ASSUME NEW i \in 1..Len(b) PROVE OfTable(b[i], t)
    <3>1. (a \o b)[Len(a) + i] = b[i] /\ OfTable((a \o b)[Len(a) + i], t)
      BY <1>1, <2>2, <2>3
    <3> QED
      BY <3>1, Zenon
  <2> QED
    BY <1>1, <2>4, <2>5 DEF AllOf
<1>3. ASSUME AllOf(a, t), AllOf(b, t) PROVE AllOf(a \o b, t)
  <2>1. ASSUME NEW i \in 1..(Len(a) + Len(b)) PROVE OfTable((a \o b)[i], t)
    <3>1. CASE i \in 1..Len(a)
      <4>1. (a \o b)[i] = a[i] /\ OfTable(a[i], t)
        BY <1>1, <1>3, <3>1 DEF AllOf
      <4> QED
        BY <4>1, Zenon
    <3>2. CASE i \notin 1..Len(a)
      <4>1. i - Len(a) \in 1..Len(b) /\ i = Len(a) + (i - Len(a))
        BY <1>1, <3>2
      <4>2. (a \o b)[i] = b[i - Len(a)] /\ OfTable(b[i - Len(a)], t)
        BY <1>1, <1>3, <4>1 DEF AllOf
      <4> QED
        BY <4>2, Zenon
    <3> QED
      BY <3>1, <3>2
  <2> QED
    BY <1>1, <2>1 DEF AllOf
<1> QED
    BY <1>2, <1>3

LEMMA JoinedUntouched ==
    ASSUME NEW a \in Seq(Entry), NEW b \in Seq(Entry), NEW k, Untouched(a \o b, k)
    PROVE  Untouched(a, k) /\ Untouched(b, k)
<1>1. Len(a) \in Nat /\ Len(b) \in Nat /\ DOMAIN a = 1..Len(a) /\ DOMAIN b = 1..Len(b)
      /\ DOMAIN (a \o b) = 1..(Len(a) + Len(b))
      /\ (\A i \in 1..Len(a) : (a \o b)[i] = a[i])
      /\ (\A i \in 1..Len(b) : (a \o b)[Len(a) + i] = b[i])
    OBVIOUS
<1>2. ASSUME NEW i \in 1..Len(a) PROVE k \notin DOMAIN a[i].writes
  <2>1. i \in 1..(Len(a) + Len(b))
    BY <1>1
  <2> QED
    BY <1>1, <2>1 DEF Untouched
<1>3. ASSUME NEW i \in 1..Len(b) PROVE k \notin DOMAIN b[i].writes
  <2>1. Len(a) + i \in 1..(Len(a) + Len(b))
    BY <1>1
  <2> QED
    BY <1>1, <2>1 DEF Untouched
<1> QED
    BY <1>1, <1>2, <1>3 DEF Untouched

(* What a merge writes in the other tables: what the source last wrote there   *)
(* and the target did not.                                                     *)
LEMMA MergeShows ==
    ASSUME NEW v \in Branch, NEW ours \in Seq(Entry), NEW theirs \in Seq(Entry),
           NEW t, AllOf(theirs, t)
    PROVE  /\ AllOf(MergeResult(ours, theirs), t)
           /\ \A k : k[1] # t =>
                (k \in Extend(v, MergeResult(ours, theirs)).rows <=>
                   (IF k \in DOMAIN Effects(theirs) \ DOMAIN Effects(ours)
                    THEN Effects(theirs)[k] ELSE k \in v.rows))
<1> DEFINE s == Effects(theirs)
           o == Effects(ours)
           ops == [k \in DOMAIN s \ DOMAIN o |-> s[k]]
           a == Carried(ours, SchemaChanges(theirs))
           b == IF DOMAIN ops = {} THEN <<>> ELSE <<Transaction(ops)>>
           m == <<MergeEntry>>
<1>1. a \in Seq(Entry) /\ AllOf(a, t) /\ \A k : Untouched(a, k)
    BY SchemaOfTable, CarriedOfTable
<1>2. ops \in Writing
  <2>1. PICK P : EffectsAlong(P, theirs) /\ s = P[Len(theirs)]
    BY EffectsFold
  <2>2. Len(theirs) \in 0..Len(theirs)
    OBVIOUS
  <2>3. s \in Writing
    BY <2>1, <2>2 DEF EffectsAlong
  <2> HIDE DEF s
  <2>4. PICK S \in SUBSET Keys : s \in [S -> BOOLEAN]
    BY <2>3 DEF Writing
  <2>5. ops \in [S \ DOMAIN o -> BOOLEAN] /\ S \ DOMAIN o \in SUBSET Keys
    BY <2>4
  <2> QED
    BY <2>5 DEF Writing
<1>3. /\ Transaction(ops) \in Entry /\ OfTable(Transaction(ops), t) /\ Transaction(ops).writes = ops
      /\ MergeEntry \in Entry /\ OfTable(MergeEntry, t) /\ DOMAIN MergeEntry.writes = {}
  <2>1. <<>> \in Seq(Changes) /\ DOMAIN <<>> = {}
    OBVIOUS
  <2> HIDE DEF ops
  <2>2. Transaction(ops) \in Entry /\ MergeEntry \in Entry
    BY <1>2, <2>1, NothingWritten DEF Transaction, MergeEntry, Entry, Writing
  <2> QED
    BY <2>1, <2>2 DEF Transaction, MergeEntry, OfTable, Nothing
<1>4. MergeResult(ours, theirs) = (a \o b) \o m
    BY DEF MergeResult
<1>5. DOMAIN ops = DOMAIN s \ DOMAIN o /\ \A k \in DOMAIN ops : ops[k] = s[k]
    OBVIOUS
<1> HIDE DEF a, ops, s, o
<1>6. b \in Seq(Entry) /\ AllOf(b, t)
    BY <1>3 DEF AllOf
<1>7. m \in Seq(Entry) /\ AllOf(m, t)
    BY <1>3 DEF AllOf
<1>8. (a \o b) \in Seq(Entry) /\ AllOf((a \o b) \o m, t)
  <2> HIDE DEF b, m
  <2>1. (a \o b) \in Seq(Entry)
    BY <1>1, <1>6
  <2> QED
    BY <1>1, <1>6, <1>7, <2>1, JoinedOfTable
<1>9. ASSUME NEW k, k[1] # t
      PROVE  k \in Extend(v, (a \o b) \o m).rows <=> (IF k \in DOMAIN ops THEN ops[k] ELSE k \in v.rows)
  <2> DEFINE x == Extend(v, a)
             y == Extend(x, b)
  <2>1. x \in Branch /\ (k \in x.rows <=> k \in v.rows)
    BY <1>1, <1>9, EntriesShow, ExtendTyped
  <2> HIDE DEF x
  <2>2. y \in Branch /\ (k \in y.rows <=> (IF k \in DOMAIN ops THEN ops[k] ELSE k \in x.rows))
    <3>1. y \in Branch
      BY <1>6, <2>1, ExtendTyped
    <3>2. CASE DOMAIN ops = {}
      <4>1. y = x
        BY <2>1, <3>2, ExtendByNone
      <4> QED
        BY <3>1, <3>2, <4>1
    <3>3. CASE DOMAIN ops # {}
      <4>1. y = Apply(x, Transaction(ops))
        BY <1>3, <2>1, <3>3, ExtendByOne
      <4>2. k \in Apply(x, Transaction(ops)).rows <=>
              (IF k \in DOMAIN ops THEN ops[k] ELSE k \in x.rows)
        BY <1>3, <1>9, <2>1, EntryShows
      <4> QED
        BY <3>1, <4>1, <4>2, Zenon
    <3> QED
      BY <3>2, <3>3
  <2> HIDE DEF y, b
  <2>3. k \in Extend(y, m).rows <=> k \in y.rows
    <3>1. Extend(y, m) = Apply(y, MergeEntry)
      BY <1>3, <2>2, ExtendByOne
    <3> QED
      BY <1>3, <1>9, <2>2, <3>1, EntryShows
  <2>4. Extend(v, (a \o b) \o m) = Extend(y, m)
    <3>1. Extend(v, (a \o b) \o m) = Extend(Extend(v, a \o b), m)
      BY <1>7, <1>8, ExtendMore
    <3>2. Extend(v, a \o b) = y
      BY <1>1, <1>6, ExtendMore DEF x, y
    <3> QED
      BY <3>1, <3>2
  <2> QED
    BY <2>1, <2>2, <2>3, <2>4, Zenon
<1>10. \A k : k[1] # t =>
          (k \in Extend(v, (a \o b) \o m).rows <=> (IF k \in DOMAIN s \ DOMAIN o THEN s[k] ELSE k \in v.rows))
    BY <1>5, <1>9, Zenon
<1> QED
    BY <1>4, <1>8, <1>10, Zenon DEF s, o

-----------------------------------------------------------------------------
(* A shadow branch s of change c against its target's log l and view v: only   *)
(* c's table changes on it, its view is its entries on top of the branch it    *)
(* was forked from, and as long as its validation is current the other tables' *)
(* rows agree wherever the target has not been written since the fork.         *)
Since(s, l) == SubSeq(l, s.fork + 1, Len(l))

Agrees(c, s, l, v) ==
    \A k \in Keys : k[1] # c.table /\ Untouched(Since(s, l), k) => (k \in s.view.rows <=> k \in v.rows)

Faithful(c, s, l, v) ==
    /\ s.fork <= Len(l) /\ s.validated <= Len(s.entries)
    /\ AllOf(s.entries, c.table)
    /\ \E w \in Branch : s.view = Extend(w, s.entries)
    /\ s.passed /\ IsCurrent(s) => Agrees(c, s, l, v)

LEMMA FaithfulNew ==
    ASSUME NEW c \in Changes, NEW l \in Seq(Entry), NEW v \in Branch, NEW t,
           NEW s, s = [fork |-> Len(l), entries |-> <<Schema(c)>>, view |-> Apply(v, Schema(c)),
                       opened |-> t, validated |-> UNVALIDATED, passed |-> FALSE]
    PROVE  Faithful(c, s, l, v)
<1>1. Schema(c) \in Entry /\ Schema(c).schema = <<c>>
    BY SchemaIsEntry DEF Schema
<1>2. AllOf(<<Schema(c)>>, c.table)
    BY <1>1 DEF AllOf, OfTable
<1>3. Apply(v, Schema(c)) = Extend(v, <<Schema(c)>>)
    BY <1>1, ExtendByOne
<1>4. Len(<<Schema(c)>>) = 1 /\ Len(l) \in Nat
    OBVIOUS
<1> QED
    BY <1>2, <1>3, <1>4 DEF Faithful, UNVALIDATED

LEMMA FaithfulValidated ==
    ASSUME NEW c \in Changes, NEW s \in Shadow, NEW l \in Seq(Entry), NEW v \in Branch,
           Faithful(c, s, l, v), NEW passed \in BOOLEAN, passed => OnlyItsTable(c, v, s.view)
    PROVE  Faithful(c, [s EXCEPT !.validated = Len(s.entries), !.passed = passed], l, v)
<1> DEFINE r == [s EXCEPT !.validated = Len(s.entries), !.passed = passed]
<1>1. /\ r.fork = s.fork /\ r.entries = s.entries /\ r.view = s.view
      /\ r.validated = Len(s.entries) /\ r.passed = passed /\ Len(s.entries) \in Nat
    BY DEF Shadow
<1> HIDE DEF r
<1>2. ASSUME passed PROVE Agrees(c, r, l, v)
  <2>1. ASSUME NEW k \in Keys, k[1] # c.table PROVE k \in s.view.rows <=> k \in v.rows
    BY <1>2, <2>1 DEF OnlyItsTable, Rows
  <2> QED
    BY <1>1, <2>1 DEF Agrees
<1>3. Faithful(c, r, l, v)
    BY <1>1, <1>2 DEF Faithful
<1> QED
    BY <1>3 DEF r

LEMMA FaithfulWritten ==
    ASSUME NEW c \in Changes, NEW s \in Shadow, NEW l \in Seq(Entry), NEW v \in Branch,
           Faithful(c, s, l, v), NEW e \in Entry, e.schema = <<>>
    PROVE  Faithful(c, [s EXCEPT !.entries = Append(s.entries, e), !.view = Apply(s.view, e)], l, v)
<1> DEFINE r == [s EXCEPT !.entries = Append(s.entries, e), !.view = Apply(s.view, e)]
<1>1. /\ r.fork = s.fork /\ r.entries = s.entries \o <<e>> /\ r.view = Apply(s.view, e)
      /\ r.validated = s.validated /\ r.passed = s.passed
      /\ Len(s.entries) \in Nat /\ Len(r.entries) = Len(s.entries) + 1
      /\ s.entries \in Seq(Entry) /\ <<e>> \in Seq(Entry) /\ s.validated \in Int
    BY DEF Shadow
<1> HIDE DEF r
<1>2. AllOf(r.entries, c.table)
  <2>1. AllOf(<<e>>, c.table) /\ AllOf(s.entries, c.table)
    BY DEF AllOf, OfTable, Faithful
  <2>2. AllOf(s.entries \o <<e>>, c.table)
    BY <1>1, <2>1, JoinedOfTable, Zenon
  <2> QED
    BY <1>1, <2>2, Zenon
<1>3. \E w \in Branch : r.view = Extend(w, r.entries)
  <2>1. PICK w \in Branch : s.view = Extend(w, s.entries)
    BY DEF Faithful
  <2>2. Extend(w, s.entries \o <<e>>) = Extend(s.view, <<e>>) /\ s.view \in Branch
    <3>1. s.view \in Branch
      BY DEF Shadow
    <3>2. Extend(w, s.entries \o <<e>>) = Extend(Extend(w, s.entries), <<e>>)
      BY <1>1, ExtendMore, Zenon
    <3> QED
      BY <2>1, <3>1, <3>2, Zenon
  <2>3. Extend(s.view, <<e>>) = Apply(s.view, e)
    BY <2>2, ExtendByOne
  <2> QED
    BY <1>1, <2>2, <2>3
<1>4. r.fork <= Len(l) /\ r.validated <= Len(r.entries) /\ ~IsCurrent(r)
    BY <1>1 DEF Faithful, IsCurrent
<1>5. Faithful(c, r, l, v)
    BY <1>2, <1>3, <1>4 DEF Faithful
<1> QED
    BY <1>5 DEF r

LEMMA FaithfulAppended ==
    ASSUME NEW c \in Changes, NEW s \in Shadow, NEW l \in Seq(Entry), NEW v \in Branch,
           Faithful(c, s, l, v), NEW es \in Seq(Entry), AllOf(es, c.table)
    PROVE  Faithful(c, s, l \o es, Extend(v, es))
<1>1. s.fork \in Nat /\ s.fork <= Len(l) /\ Len(l) \in Nat /\ Len(l \o es) = Len(l) + Len(es)
      /\ Len(es) \in Nat
    BY DEF Faithful, Shadow
<1>2. Since(s, l \o es) = Since(s, l) \o es /\ Since(s, l) \in Seq(Entry)
  <2> DEFINE n == s.fork
  <2>1. n \in Nat /\ n <= Len(l)
    BY <1>1
  <2> HIDE DEF n
  <2>2. SubSeq(l, n + 1, Len(l)) \in Seq(Entry)
    BY <2>1
  <2>3. SubSeq(l \o es, n + 1, Len(l \o es)) = SubSeq(l, n + 1, Len(l)) \o es
    BY <2>1, RestOfJoined
  <2> QED
    BY <2>2, <2>3 DEF Since, n
<1>3. ASSUME s.passed, IsCurrent(s) PROVE Agrees(c, s, l \o es, Extend(v, es))
  <2>1. Agrees(c, s, l, v)
    BY <1>3 DEF Faithful
  <2> SUFFICES ASSUME NEW k \in Keys, k[1] # c.table, Untouched(Since(s, l) \o es, k)
               PROVE  k \in s.view.rows <=> k \in Extend(v, es).rows
    BY <1>2 DEF Agrees
  <2>2. Untouched(Since(s, l), k) /\ Untouched(es, k)
    BY <1>2, JoinedUntouched
  <2>3. k \in Extend(v, es).rows <=> k \in v.rows
    BY <2>2, EntriesShow
  <2>4. k \in s.view.rows <=> k \in v.rows
    BY <2>1, <2>2 DEF Agrees
  <2> QED
    BY <2>3, <2>4, Zenon
<1>4. s.fork <= Len(l \o es)
    BY <1>1
<1> QED
    BY <1>3, <1>4 DEF Faithful

LEMMA FaithfulMerged ==
    ASSUME NEW c \in Changes, NEW s \in Shadow, NEW l \in Seq(Entry), NEW v \in Branch,
           Faithful(c, s, l, v), AllOf(l, c.table), s.passed, IsCurrent(s)
    PROVE  \A k \in Keys : k[1] # c.table =>
              (k \in Extend(v, MergeResult(Since(s, l), s.entries)).rows <=> k \in v.rows)
<1> SUFFICES ASSUME NEW k \in Keys, k[1] # c.table
             PROVE  k \in Extend(v, MergeResult(Since(s, l), s.entries)).rows <=> k \in v.rows
    OBVIOUS
<1>1. s.fork \in Nat /\ s.fork <= Len(l) /\ s.entries \in Seq(Entry)
    BY DEF Faithful, Shadow
<1>2. Since(s, l) \in Seq(Entry) /\ AllOf(Since(s, l), c.table)
  <2> DEFINE n == s.fork
  <2>1. n \in Nat /\ n <= Len(l)
    BY <1>1
  <2> HIDE DEF n
  <2>2. SubSeq(l, n + 1, Len(l)) \in Seq(Entry) /\ SubSeq(l, 1, n) \in Seq(Entry)
        /\ Len(SubSeq(l, n + 1, Len(l))) = Len(l) - n
        /\ \A i \in 1..(Len(l) - n) : SubSeq(l, n + 1, Len(l))[i] = l[n + i]
    BY <2>1
  <2>3. AllOf(SubSeq(l, n + 1, Len(l)), c.table)
    <3>1. ASSUME NEW i \in 1..(Len(l) - n) PROVE OfTable(SubSeq(l, n + 1, Len(l))[i], c.table)
      <4>1. n + i \in DOMAIN l
        BY <2>1
      <4>2. OfTable(l[n + i], c.table)
        BY <4>1 DEF AllOf
      <4> QED
        BY <2>2, <4>2, Zenon
    <3>2. DOMAIN SubSeq(l, n + 1, Len(l)) = 1..(Len(l) - n)
      BY <2>1, <2>2
    <3> QED
      BY <3>1, <3>2 DEF AllOf
  <2> QED
    BY <2>2, <2>3 DEF Since, n
<1> DEFINE ours == Since(s, l)
           m == MergeResult(ours, s.entries)
<1>3. k \in DOMAIN Effects(ours) <=> ~Untouched(ours, k)
    BY <1>2, EntriesShow
<1>4. k \in DOMAIN Effects(s.entries) => (Effects(s.entries)[k] <=> k \in s.view.rows)
  <2>1. PICK w \in Branch : s.view = Extend(w, s.entries)
    BY DEF Faithful
  <2>2. k \in Extend(w, s.entries).rows <=>
          (IF k \in DOMAIN Effects(s.entries) THEN Effects(s.entries)[k] ELSE k \in w.rows)
    BY <1>1, EntriesShow DEF Faithful
  <2> QED
    BY <2>1, <2>2, Zenon
<1>5. Untouched(ours, k) => (k \in s.view.rows <=> k \in v.rows)
    BY DEF Faithful, Agrees
<1>6. k \in Extend(v, m).rows <=>
        (IF k \in DOMAIN Effects(s.entries) \ DOMAIN Effects(ours)
         THEN Effects(s.entries)[k] ELSE k \in v.rows)
    BY <1>1, <1>2, MergeShows DEF Faithful
<1> HIDE DEF ours, m
<1>7. k \in Extend(v, m).rows <=> k \in v.rows
    BY <1>3, <1>4, <1>5, <1>6, Zenon
<1> QED
    BY <1>7 DEF m, ours

-----------------------------------------------------------------------------
(* Every change to a branch is to the same table of it. *)
OneTable == \A c, d \in Changes : c.branch = d.branch => c.table = d.table

Following ==
    /\ \A c \in Changes : AllOf(log[c.branch], c.table)
    /\ \A c \in DOMAIN shadows : Faithful(c, shadows[c], log[c.branch], view[c.branch])

LEMMA FollowingInit == Init => Following
<1> SUFFICES ASSUME Init PROVE Following
    OBVIOUS
<1>1. DOMAIN shadows = {}
    BY DEF Init
<1>2. ASSUME NEW c \in Changes PROVE AllOf(log[c.branch], c.table)
  <2>1. log[c.branch] = <<>>
    BY ProposalsAssumption DEF Init
  <2> QED
    BY <2>1 DEF AllOf
<1> QED
    BY <1>1, <1>2 DEF Following

LEMMA KeptFollowing ==
    ASSUME Following, UNCHANGED data,
           \A c \in DOMAIN shadows' :
              \/ c \in DOMAIN shadows /\ shadows'[c] = shadows[c]
              \/ Faithful(c, shadows'[c], log[c.branch], view[c.branch])
    PROVE  Following'
<1>1. log' = log /\ view' = view
    BY DEF data
<1>2. ASSUME NEW c \in DOMAIN shadows' PROVE Faithful(c, shadows'[c], log[c.branch], view[c.branch])
    BY DEF Following
<1> QED
    BY <1>1, <1>2 DEF Following

LEMMA AppendedFollowing ==
    ASSUME BranchesOK, ShadowsOK, Following, NEW b \in Targets, NEW es \in Seq(Entry), Append_(b, es),
           \A c \in Changes : c.branch = b => AllOf(es, c.table),
           \A c \in DOMAIN shadows' : c \in DOMAIN shadows /\ shadows'[c] = shadows[c]
    PROVE  Following'
<1>1. /\ log' = [log EXCEPT ![b] = log[b] \o es] /\ view' = [view EXCEPT ![b] = Extend(view[b], es)]
      /\ log \in [Targets -> Seq(Entry)] /\ view \in [Targets -> Branch]
    BY DEF Append_, BranchesOK
<1>2. ASSUME NEW c \in Changes PROVE AllOf(log'[c.branch], c.table)
  <2>1. c.branch \in Targets
    BY ProposalsAssumption
  <2>2. AllOf(log[c.branch], c.table) /\ log[c.branch] \in Seq(Entry)
    BY <1>1, <2>1 DEF Following
  <2>3. CASE c.branch = b
    <3>1. AllOf(log[b] \o es, c.table)
      BY <2>2, <2>3, JoinedOfTable
    <3>2. log'[c.branch] = log[b] \o es
      BY <1>1, <2>3
    <3> QED
      BY <3>1, <3>2, Zenon
  <2>4. CASE c.branch # b
    BY <1>1, <2>1, <2>2, <2>4
  <2> QED
    BY <2>3, <2>4
<1>3. ASSUME NEW c \in DOMAIN shadows'
      PROVE  Faithful(c, shadows'[c], log'[c.branch], view'[c.branch])
  <2>1. /\ c \in DOMAIN shadows /\ shadows'[c] = shadows[c] /\ c \in Changes
        /\ c.branch \in Targets /\ shadows[c] \in Shadow
        /\ Faithful(c, shadows[c], log[c.branch], view[c.branch])
    BY ProposalsAssumption DEF ShadowsOK, Following
  <2>2. CASE c.branch = b
    <3>1. log'[c.branch] = log[b] \o es /\ view'[c.branch] = Extend(view[b], es)
      BY <1>1, <2>2
    <3>2. log[b] \in Seq(Entry) /\ view[b] \in Branch /\ AllOf(es, c.table)
      BY <1>1, <2>1, <2>2
    <3>3. Faithful(c, shadows[c], log[b], view[b])
      BY <2>1, <2>2
    <3>4. Faithful(c, shadows[c], log[b] \o es, Extend(view[b], es))
      BY <2>1, <3>2, <3>3, FaithfulAppended
    <3> QED
      BY <2>1, <3>1, <3>4, Zenon
  <2>3. CASE c.branch # b
    <3>1. log'[c.branch] = log[c.branch] /\ view'[c.branch] = view[c.branch]
      BY <1>1, <2>1, <2>3
    <3> QED
      BY <2>1, <3>1, Zenon
  <2> QED
    BY <2>2, <2>3
<1> QED
    BY <1>2, <1>3 DEF Following

LEMMA ValidatedFaithful ==
    ASSUME BranchesOK, NEW c \in Changes, NEW s \in Shadow,
           Faithful(c, s, log[c.branch], view[c.branch])
    PROVE  Faithful(c, Validated(c, s), log[c.branch], view[c.branch])
<1> DEFINE passed == Checks(c, view[c.branch], s.view)
<1>1. passed \in BOOLEAN /\ (passed => OnlyItsTable(c, view[c.branch], s.view))
    BY DEF Checks
<1>2. log[c.branch] \in Seq(Entry) /\ view[c.branch] \in Branch
    BY ProposalsAssumption DEF BranchesOK
<1>3. Validated(c, s) = [s EXCEPT !.validated = Len(s.entries), !.passed = passed]
    BY DEF Validated
<1> HIDE DEF passed
<1>4. Faithful(c, [s EXCEPT !.validated = Len(s.entries), !.passed = passed], log[c.branch], view[c.branch])
    BY <1>1, <1>2, FaithfulValidated
<1> QED
    BY <1>3, <1>4, Zenon

LEMMA NewShadowFaithful ==
    ASSUME BranchesOK, NEW c \in Changes
    PROVE  Faithful(c, NewShadow(c), log[c.branch], view[c.branch])
<1>1. log[c.branch] \in Seq(Entry) /\ view[c.branch] \in Branch
    BY ProposalsAssumption DEF BranchesOK
<1> QED
    BY <1>1, FaithfulNew DEF NewShadow

LEMMA OursIsSince == \A c : Ours(c) = Since(shadows[c], log[c.branch])
    BY DEF Ours, Since

(* What a merge of a shadow branch appends changes only the tables it changed. *)
LEMMA MergedFollowing ==
    ASSUME OneTable, Inv, Following, NEW c \in DOMAIN shadows,
           Append_(c.branch, MergeResult(Ours(c), shadows[c].entries)),
           \A d \in DOMAIN shadows' : d \in DOMAIN shadows /\ shadows'[d] = shadows[d]
    PROVE  Following'
<1> DEFINE es == MergeResult(Ours(c), shadows[c].entries)
<1>1. /\ c \in Changes /\ c.branch \in Targets /\ Ours(c) \in Seq(Entry)
      /\ shadows[c].entries \in Seq(Entry) /\ AllOf(shadows[c].entries, c.table)
    BY OursTyped DEF Inv, Shadow, Following, Faithful
<1>2. es \in Seq(Entry) /\ AllOf(es, c.table)
  <2>1. Opened \in Branch
    BY OpenedTyped
  <2> QED
    BY <1>1, <2>1, MergeShows, MergeResultTyped
<1> HIDE DEF es
<1>3. \A d \in Changes : d.branch = c.branch => AllOf(es, d.table)
  <2> SUFFICES ASSUME NEW d \in Changes, d.branch = c.branch PROVE AllOf(es, d.table)
    OBVIOUS
  <2>1. d.table = c.table
    BY <1>1 DEF OneTable
  <2> QED
    BY <1>2, <2>1
<1> QED
    BY <1>1, <1>2, <1>3, AppendedFollowing DEF Inv, es

LEMMA FollowingKept ==
    ASSUME OneTable, Inv, Following, [Next]_vars
    PROVE  Following'
<1>1. ASSUME NEW c \in Changes, Propose(c) PROVE Following'
  <2>1. UNCHANGED data
    BY <1>1 DEF Propose
  <2>2. CASE UNCHANGED shadows
    BY <2>1, <2>2, KeptFollowing
  <2>3. CASE shadows' = Insert(shadows, c, Validated(c, ShadowOf(c)))
    <3>1. /\ DOMAIN shadows' = DOMAIN shadows \cup {c}
          /\ \A d \in DOMAIN shadows' :
                shadows'[d] = IF d = c THEN Validated(c, ShadowOf(c)) ELSE shadows[d]
      BY <2>3 DEF Insert, Over
    <3>2. ShadowOf(c) \in Shadow
      BY NewShadowTyped DEF Inv, ShadowOf, ShadowsOK
    <3>3. Faithful(c, ShadowOf(c), log[c.branch], view[c.branch])
      BY NewShadowFaithful DEF Inv, ShadowOf, Following
    <3>4. Faithful(c, Validated(c, ShadowOf(c)), log[c.branch], view[c.branch])
      BY <3>2, <3>3, ValidatedFaithful DEF Inv
    <3>5. ASSUME NEW d \in DOMAIN shadows'
          PROVE  \/ d \in DOMAIN shadows /\ shadows'[d] = shadows[d]
                 \/ Faithful(d, shadows'[d], log[d.branch], view[d.branch])
      <4>1. CASE d = c
        <5>1. shadows'[d] = Validated(c, ShadowOf(c))
          BY <3>1, <4>1
        <5> QED
          BY <3>4, <4>1, <5>1, Zenon
      <4>2. CASE d # c
        BY <3>1, <4>2
      <4> QED
        BY <4>1, <4>2
    <3> QED
      BY <2>1, <3>5, KeptFollowing
  <2> QED
    BY <1>1, <2>2, <2>3 DEF Propose
<1>2. ASSUME NEW c \in Changes, ValidateShadow(c) PROVE Following'
  <2>1. /\ UNCHANGED data /\ c \in DOMAIN shadows
        /\ shadows' = [shadows EXCEPT ![c] = Validated(c, shadows[c])]
    BY <1>2 DEF ValidateShadow
  <2>2. shadows[c] \in Shadow /\ Faithful(c, shadows[c], log[c.branch], view[c.branch])
    BY <2>1 DEF Inv, ShadowsOK, Following
  <2>3. Faithful(c, Validated(c, shadows[c]), log[c.branch], view[c.branch])
    BY <2>2, ValidatedFaithful DEF Inv
  <2>4. ASSUME NEW d \in DOMAIN shadows'
        PROVE  \/ d \in DOMAIN shadows /\ shadows'[d] = shadows[d]
               \/ Faithful(d, shadows'[d], log[d.branch], view[d.branch])
    <3>1. d \in DOMAIN shadows /\ shadows'[d] = IF d = c THEN Validated(c, shadows[c]) ELSE shadows[d]
      BY <2>1
    <3>2. CASE d = c
      <4>1. shadows'[d] = Validated(c, shadows[c])
        BY <3>1, <3>2
      <4> QED
        BY <2>3, <3>2, <4>1, Zenon
    <3>3. CASE d # c
      BY <3>1, <3>3
    <3> QED
      BY <3>2, <3>3
  <2> QED
    BY <2>1, <2>4, KeptFollowing
<1>3. ASSUME NEW c \in Changes, NEW confirm \in BOOLEAN, ApplySchemaChange(c, confirm)
      PROVE  Following'
  <2>1. /\ UNCHANGED shadows /\ Append_(c.branch, <<Schema(c)>>)
    BY <1>3 DEF ApplySchemaChange
  <2>2. Schema(c) \in Entry /\ Schema(c).schema = <<c>> /\ c.branch \in Targets
    BY SchemaIsEntry, ProposalsAssumption DEF Schema
  <2>3. ASSUME NEW d \in Changes, d.branch = c.branch PROVE AllOf(<<Schema(c)>>, d.table)
    <3>1. c.table = d.table
      BY <2>3 DEF OneTable
    <3> QED
      BY <2>2, <3>1 DEF AllOf, OfTable
  <2>4. <<Schema(c)>> \in Seq(Entry)
    BY <2>2
  <2> QED
    BY <2>1, <2>2, <2>3, <2>4, AppendedFollowing DEF Inv
<1>4. ASSUME NEW c \in Changes, PromoteShadow(c) PROVE Following'
  <2>1. /\ c \in DOMAIN shadows /\ shadows' = Dropped(shadows, {c})
        /\ Append_(c.branch, MergeResult(Ours(c), shadows[c].entries))
    BY <1>4 DEF PromoteShadow, Release
  <2>2. \A d \in DOMAIN shadows' : d \in DOMAIN shadows /\ shadows'[d] = shadows[d]
    BY <2>1 DEF Dropped, Restrict
  <2> QED
    BY <2>1, <2>2, MergedFollowing
<1>5. ASSUME NEW c \in Changes, Merge(c) PROVE Following'
  <2>1. /\ c \in DOMAIN shadows /\ UNCHANGED shadows
        /\ Append_(c.branch, MergeResult(Ours(c), shadows[c].entries))
    BY <1>5 DEF Merge
  <2> QED
    BY <2>1, MergedFollowing
<1>6. ASSUME NEW c \in Changes, RejectShadow(c) PROVE Following'
  <2>1. UNCHANGED data /\ shadows' = Dropped(shadows, {c})
    BY <1>6 DEF RejectShadow, Release
  <2>2. \A d \in DOMAIN shadows' : d \in DOMAIN shadows /\ shadows'[d] = shadows[d]
    BY <2>1 DEF Dropped, Restrict
  <2> QED
    BY <2>1, <2>2, KeptFollowing
<1>7. CASE CollectExpired
  <2>1. UNCHANGED data /\ shadows' = Dropped(shadows, ExpiredShadows)
    BY <1>7 DEF CollectExpired
  <2>2. \A d \in DOMAIN shadows' : d \in DOMAIN shadows /\ shadows'[d] = shadows[d]
    BY <2>1 DEF Dropped, Restrict
  <2> QED
    BY <2>1, <2>2, KeptFollowing
<1>8. ASSUME NEW b \in Targets, NEW w \in Writes, WriteTarget(b, w) PROVE Following'
  <2>1. UNCHANGED shadows /\ (UNCHANGED data \/ Append_(b, <<Transaction(w)>>))
    BY <1>8 DEF WriteTarget
  <2>2. Transaction(w) \in Entry /\ Transaction(w).schema = <<>>
    BY WriteTyped DEF Transaction
  <2>3. <<Transaction(w)>> \in Seq(Entry) /\ \A t : AllOf(<<Transaction(w)>>, t)
    BY <2>2 DEF AllOf, OfTable
  <2>4. CASE UNCHANGED data
    BY <2>1, <2>4, KeptFollowing
  <2>5. CASE Append_(b, <<Transaction(w)>>)
    BY <2>1, <2>3, <2>5, AppendedFollowing DEF Inv
  <2> QED
    BY <2>1, <2>4, <2>5
<1>9. ASSUME NEW c \in Changes, NEW w \in Writes, WriteShadow(c, w) PROVE Following'
  <2> DEFINE s == shadows[c]
             e == Transaction(w)
             r == [s EXCEPT !.entries = Append(s.entries, e), !.view = Apply(s.view, e)]
  <2>1. UNCHANGED data /\ c \in DOMAIN shadows
    BY <1>9 DEF WriteShadow
  <2>2. CASE UNCHANGED shadows
    BY <2>1, <2>2, KeptFollowing
  <2>3. CASE shadows' = [shadows EXCEPT ![c].entries = Append(@, e), ![c].view = Apply(@, e)]
    <3>1. /\ s \in Shadow /\ Faithful(c, s, log[c.branch], view[c.branch]) /\ c \in Changes
          /\ log[c.branch] \in Seq(Entry) /\ view[c.branch] \in Branch
      BY <2>1, ProposalsAssumption DEF Inv, BranchesOK, ShadowsOK, Following
    <3>2. e \in Entry /\ e.schema = <<>>
      BY WriteTyped DEF Transaction
    <3>3. /\ DOMAIN shadows' = DOMAIN shadows
          /\ \A d \in DOMAIN shadows : d # c => shadows'[d] = shadows[d]
          /\ shadows'[c] = r
      BY <2>1, <2>3, <3>1 DEF Shadow
    <3> HIDE DEF e
    <3>4. Faithful(c, r, log[c.branch], view[c.branch])
      BY <3>1, <3>2, FaithfulWritten
    <3> HIDE DEF r
    <3>5. ASSUME NEW d \in DOMAIN shadows'
          PROVE  \/ d \in DOMAIN shadows /\ shadows'[d] = shadows[d]
                 \/ Faithful(d, shadows'[d], log[d.branch], view[d.branch])
      BY <3>3, <3>4, Zenon
    <3> QED
      BY <2>1, <3>5, KeptFollowing
  <2> QED
    BY <1>9, <2>2, <2>3 DEF WriteShadow
<1>10. ASSUME UNCHANGED <<data, shadows>> PROVE Following'
    BY <1>10, KeptFollowing
<1>11. ASSUME NEW c \in Changes, NEW agent \in Agents, ProposeWithinBudget(c, agent) PROVE Following'
    BY <1>11, <1>10 DEF ProposeWithinBudget
<1>12. CASE PushPolicy \/ Tick \/ UNCHANGED vars
    BY <1>12, <1>10 DEF PushPolicy, Tick, vars
<1> QED
    BY <1>1, <1>2, <1>3, <1>4, <1>5, <1>6, <1>7, <1>8, <1>9, <1>11, <1>12 DEF Next, Request

(* A promotion leaves every row outside the table its change names where it    *)
(* was, whatever was written to the shadow branch and to the target since the  *)
(* fork (shadow::validate, merge): when no other table of the branch changes.  *)
THEOREM PromotionStaysInItsTable ==
    ASSUME OneTable
    PROVE  Spec => PromotionTouchesOnlyItsTable
<1>1. ASSUME Inv, Following, [Next]_vars, answered' = "promoted", NEW c \in DOMAIN shadows,
             c \notin DOMAIN shadows'
      PROVE  OnlyItsTable(c, view[c.branch], view'[c.branch])
  <2>1. PICK d \in Changes : PromoteShadow(d)
    <3>1. ~UNCHANGED vars
      BY <1>1 DEF vars
    <3>2. ~(\E x \in Changes, confirm \in BOOLEAN : ApplySchemaChange(x, confirm))
          /\ ~(\E x \in Changes : RejectShadow(x)) /\ Grants
      BY <1>1 DEF ApplySchemaChange, RejectShadow, Grants
    <3> QED
      BY <1>1, <3>1, <3>2, GrantsAre
  <2>2. d = c
    BY <1>1, <2>1 DEF PromoteShadow, Release, Dropped, Restrict
  <2> DEFINE s == shadows[c]
             l == log[c.branch]
             v == view[c.branch]
             m == MergeResult(Since(s, l), s.entries)
  <2>3. /\ s.passed /\ IsCurrent(s) /\ view' = [view EXCEPT ![c.branch] = Extend(v, m)]
    BY <2>1, <2>2, OursIsSince DEF PromoteShadow, Promotable, Append_
  <2>4. /\ c \in Changes /\ c.branch \in Targets /\ s \in Shadow /\ l \in Seq(Entry) /\ v \in Branch
        /\ view \in [Targets -> Branch]
    BY <1>1, ProposalsAssumption DEF Inv, ShadowsOK, BranchesOK
  <2>5. Faithful(c, s, l, v) /\ AllOf(l, c.table)
    BY <1>1, <2>4 DEF Following
  <2> HIDE DEF s, l, v
  <2>6. \A k \in Keys : k[1] # c.table => (k \in Extend(v, m).rows <=> k \in v.rows)
    BY <2>3, <2>4, <2>5, FaithfulMerged
  <2>7. Extend(v, m) \in Branch
    <3>1. Since(s, l) \in Seq(Entry)
      BY <1>1, OursTyped, OursIsSince DEF Inv, s, l
    <3>2. m \in Seq(Entry)
      BY <2>4, <3>1, MergeResultTyped DEF Shadow
    <3> QED
      BY <2>4, <3>2, ExtendTyped
  <2>8. view'[c.branch] = Extend(v, m)
    BY <2>3, <2>4
  <2> HIDE DEF m
  <2>9. OnlyItsTable(c, v, Extend(v, m))
    BY <2>4, <2>6, <2>7 DEF OnlyItsTable, Rows, Branch
  <2> QED
    BY <2>8, <2>9 DEF v
<1>2. Inv /\ Following /\ [Next]_vars =>
        [\A c \in DOMAIN shadows : answered' = "promoted" /\ c \notin DOMAIN shadows' =>
            OnlyItsTable(c, view[c.branch], view[c.branch]')]_vars
    BY <1>1
<1>3. Inv /\ Following /\ [Next]_vars => Following'
    BY FollowingKept
<1> QED
    BY <1>2, <1>3, FollowingInit, InitMakes, NextKeeps, PTL DEF Spec, PromotionTouchesOnlyItsTable

(* Both halves of what an approval covers: see UnconfirmedKeepsRows and        *)
(* PromotionStaysInItsTable.                                                   *)
THEOREM ApprovedIsAllThatHappens ==
    ASSUME OneTable
    PROVE  Spec => OnlyWhatWasApproved
    BY UnconfirmedKeepsRows, PromotionStaysInItsTable DEF OnlyWhatWasApproved

-----------------------------------------------------------------------------
(* The spend ledger (Spend), for any agents, ceilings, window and costs.  Its  *)
(* sums are the sums above.                                                    *)
LEMMA SameSum == \A R : Ledger!Sum(R) = Sum(R)
    BY Zenon DEF Ledger!Sum, Ledger!MapThenSumSet, Ledger!MapThenFoldSet, Sum, MapThenSumSet, MapThenFoldSet

LEMMA SameCurrent ==
    \A R : Ledger!Current(R) = {x \in R : x.at + Span > moment}
    BY DEF Ledger!Current, Ledger!InWindow

(* What a piece of work was answered stays true of the charges made before it, *)
(* those that had not left the window: they are only ever fewer.               *)
Before(R, at) == {x \in R : x.at < at /\ x.at + Span > at}
LedgerTypes ==
    /\ moment \in Nat
    /\ samples = [s \in Ledger!Scopes |-> samples[s]]
    /\ everything = [s \in Ledger!Scopes |-> everything[s]]
    /\ \A s \in Ledger!Scopes :
          /\ Costed(everything[s])
          /\ \A x \in everything[s] : x.at \in Nat /\ x.at <= moment
Kept ==
    \A s \in Ledger!Scopes :
        /\ samples[s] \subseteq everything[s] /\ everything[s] \subseteq everything[Ledger!Project]
        /\ \A x \in everything[s] : x.at + Span > moment => x \in samples[s]
Promised ==
    \A w \in inFlight :
        /\ w.at \in Nat /\ w.at <= moment /\ w.cost \in Nat /\ w.left \in Int
        /\ \A s \in Ledger!SpendScopes(w.agent) :
              Sum(Before(everything[s], w.at)) + w.cost + w.left <= Ledger!Ceiling(s)
LedgerInv == LedgerTypes /\ Kept /\ Promised

LEMMA LedgerInvInit ==
    ASSUME Ledger!Init
    PROVE  LedgerInv
<1>1. Costed({})
    BY FS_EmptySet DEF Costed
<1>2. samples = [s \in Ledger!Scopes |-> {}] /\ everything = [s \in Ledger!Scopes |-> {}] /\ inFlight = {} /\ moment = 0
    BY DEF Ledger!Init
<1>3. \A s \in Ledger!Scopes : samples[s] = {} /\ everything[s] = {}
    BY <1>2
<1>4. LedgerTypes
    BY <1>1, <1>2, <1>3 DEF LedgerTypes
<1>5. Kept /\ Promised
    BY <1>2, <1>3 DEF Kept, Promised
<1> QED
    BY <1>4, <1>5 DEF LedgerInv

\* What counts of a scope's samples is what counts of everything charged to it.
LEMMA CurrentKept ==
    ASSUME LedgerInv, NEW s \in Ledger!Scopes
    PROVE  /\ Ledger!Current(samples[s]) = Ledger!Current(everything[s])
           /\ Costed(Ledger!Current(everything[s]))
           /\ Ledger!Spent(s) = Sum(Ledger!Current(everything[s]))
           /\ Ledger!Spent(s) \in Nat
<1>1. Ledger!Current(samples[s]) = Ledger!Current(everything[s])
    BY SameCurrent DEF LedgerInv, Kept
<1>2. Ledger!Current(everything[s]) \in SUBSET everything[s] /\ Costed(everything[s])
    BY SameCurrent DEF LedgerInv, LedgerTypes
<1>3. Costed(Ledger!Current(everything[s])) /\ Sum(Ledger!Current(everything[s])) \in Nat
    BY <1>2, CostedParts
<1>4. Ledger!Spent(s) = Sum(Ledger!Current(everything[s]))
    BY <1>1, SameSum DEF Ledger!Spent
<1> QED
    BY <1>1, <1>3, <1>4

LEMMA LeastOfTwo ==
    ASSUME NEW p \in Int, NEW q \in Int
    PROVE  Ledger!Min({p, q}) \in Int /\ Ledger!Min({p, q}) <= p /\ Ledger!Min({p, q}) <= q
<1>1. \E x \in {p, q} : \A y \in {p, q} : x <= y
    BY SMT
<1> QED
    BY <1>1 DEF Ledger!Min

LEMMA CeilingsAreNumbers ==
    ASSUME Ledger!SpendAssumption
    PROVE  /\ \A s : Ledger!Ceiling(s) \in Nat
           /\ Span \in Nat /\ Charged \subseteq Nat
           /\ \A agent : Ledger!SpendScopes(agent) \subseteq Ledger!Scopes
    BY DEF Ledger!SpendAssumption, Ledger!Ceiling, Ledger!SpendScopes, Ledger!Scopes

LEMMA AskKeeps ==
    ASSUME Ledger!SpendAssumption, LedgerInv, NEW agent, NEW cost \in Charged, Ledger!Ask(agent, cost)
    PROVE  LedgerInv'
<1> DEFINE scopes == Ledger!SpendScopes(agent)
           left == Ledger!Remaining(scopes, cost)
           w == [agent |-> agent, cost |-> cost, at |-> moment, left |-> left]
           Leeway(s) == Ledger!Ceiling(s) - Ledger!Spent(s) - cost
<1>1. inFlight' = inFlight \cup {w} /\ samples' = samples /\ moment' = moment /\ everything' = everything
    BY DEF Ledger!Ask
<1>2. cost \in Nat /\ moment \in Nat
    BY CeilingsAreNumbers DEF LedgerInv, LedgerTypes
<1>3. \A s \in scopes : s \in Ledger!Scopes /\ Leeway(s) \in Int
  <2> TAKE s \in scopes
  <2>1. s \in Ledger!Scopes
    BY CeilingsAreNumbers
  <2>2. Ledger!Spent(s) \in Nat /\ Ledger!Ceiling(s) \in Nat
    BY <2>1, CurrentKept, CeilingsAreNumbers
  <2> QED
    BY <1>2, <2>1, <2>2
<1>4. left \in Int /\ \A s \in scopes : left <= Leeway(s)
  <2> DEFINE p == Ledger!Project
  <2>1. CASE agent \in Spenders
    <3>1. scopes = {p, agent}
        BY <2>1 DEF Ledger!SpendScopes
    <3>2. {Leeway(s) : s \in scopes} = {Leeway(p), Leeway(agent)} /\ Leeway(p) \in Int /\ Leeway(agent) \in Int
        BY <1>3, <3>1
    <3> HIDE DEF Leeway, scopes, p
    <3>3. Ledger!Min({Leeway(s) : s \in scopes}) \in Int /\ \A s \in scopes : Ledger!Min({Leeway(t) : t \in scopes}) <= Leeway(s)
        BY <3>1, <3>2, LeastOfTwo
    <3> QED
        BY <3>3 DEF Ledger!Remaining, Leeway
  <2>2. CASE agent \notin Spenders
    <3>1. scopes = {p}
        BY <2>2 DEF Ledger!SpendScopes
    <3>2. {Leeway(s) : s \in scopes} = {Leeway(p), Leeway(p)} /\ Leeway(p) \in Int
        BY <1>3, <3>1
    <3> HIDE DEF Leeway, scopes, p
    <3>3. Ledger!Min({Leeway(s) : s \in scopes}) \in Int /\ \A s \in scopes : Ledger!Min({Leeway(t) : t \in scopes}) <= Leeway(s)
        BY <3>1, <3>2, LeastOfTwo
    <3> QED
        BY <3>3 DEF Ledger!Remaining, Leeway
  <2> QED
    BY <2>1, <2>2
<1> HIDE DEF left, Leeway
<1>5. ASSUME NEW s \in scopes
      PROVE  Sum(Before(everything[s], moment)) + cost + left <= Ledger!Ceiling(s)
  <2>1. s \in Ledger!Scopes /\ left <= Leeway(s)
    BY <1>3, <1>4
  <2>2. Before(everything[s], moment) \in SUBSET Ledger!Current(everything[s])
    BY SameCurrent DEF Before
  <2>3. /\ Costed(Ledger!Current(everything[s])) /\ Ledger!Spent(s) \in Nat
        /\ Ledger!Spent(s) = Sum(Ledger!Current(everything[s]))
    BY <2>1, CurrentKept
  <2>4. Sum(Before(everything[s], moment)) <= Ledger!Spent(s) /\ Sum(Before(everything[s], moment)) \in Nat
    BY <2>2, <2>3, SumMonotone, CostedParts
  <2>5. Ledger!Ceiling(s) \in Nat
    BY CeilingsAreNumbers
  <2> QED
    BY <1>2, <1>4, <2>1, <2>3, <2>4, <2>5 DEF Leeway
<1>6. ASSUME NEW v \in inFlight'
      PROVE  /\ v.at \in Nat /\ v.at <= moment' /\ v.cost \in Nat /\ v.left \in Int
             /\ \A s \in Ledger!SpendScopes(v.agent) :
                   Sum(Before(everything'[s], v.at)) + v.cost + v.left <= Ledger!Ceiling(s)
  <2>1. CASE v = w
    BY <1>1, <1>2, <1>4, <1>5, <2>1
  <2>2. CASE v \in inFlight
    BY <1>1, <2>2 DEF LedgerInv, Promised
  <2> QED
    BY <1>1, <2>1, <2>2
<1>7. Promised'
    BY <1>6 DEF Promised, Before, Ledger!SpendScopes, Ledger!Ceiling, Ledger!Project
<1>8. LedgerTypes' /\ Kept'
    BY <1>1 DEF LedgerInv, LedgerTypes, Kept, Ledger!Scopes, Ledger!Project, Costed
<1> QED
    BY <1>7, <1>8 DEF LedgerInv

LEMMA RecordKeeps ==
    ASSUME Ledger!SpendAssumption, LedgerInv, NEW work \in inFlight, NEW actual \in Charged,
           Ledger!RecordSpend(work, actual)
    PROVE  LedgerInv'
<1> DEFINE sample == [nth |-> Ledger!Charges, at |-> moment, cost |-> actual]
           Fresh(s) == IF s \in Ledger!SpendScopes(work.agent) THEN {sample} ELSE {}
<1>1. /\ inFlight' = inFlight \ {work} /\ moment' = moment
      /\ samples' = [s \in Ledger!Scopes |-> Ledger!Evicted(s) \cup Fresh(s)]
      /\ everything' = [s \in Ledger!Scopes |-> everything[s] \cup Fresh(s)]
    BY DEF Ledger!RecordSpend
<1>2. actual \in Nat /\ moment \in Nat /\ Span \in Nat
    BY CeilingsAreNumbers DEF LedgerInv, LedgerTypes
<1>3. sample.at = moment /\ sample.cost = actual
    OBVIOUS
<1>4. \A s : \A x \in Fresh(s) : x = sample
    OBVIOUS
<1> HIDE DEF sample
<1>5. ASSUME NEW s \in Ledger!Scopes
      PROVE  Costed(everything'[s]) /\ \A x \in everything'[s] : x.at \in Nat /\ x.at <= moment'
  <2>1. everything'[s] = everything[s] \cup Fresh(s) /\ Costed(everything[s])
    BY <1>1 DEF LedgerInv, LedgerTypes
  <2>2. IsFiniteSet(everything'[s])
    BY <2>1, FS_AddElement DEF Costed
  <2>3. \A x \in everything'[s] : x \in everything[s] \/ x = sample
    BY <2>1
  <2> QED
    BY <1>1, <1>2, <1>3, <2>2, <2>3 DEF LedgerInv, LedgerTypes, Costed
<1>6. LedgerTypes'
    BY <1>1, <1>2, <1>5 DEF LedgerTypes, Ledger!Scopes, Ledger!Project, Costed
<1>7. Kept'
  <2>1. ASSUME NEW s \in Ledger!Scopes
        PROVE  /\ samples'[s] \subseteq everything'[s]
               /\ everything'[s] \subseteq everything'[Ledger!Project]
               /\ \A x \in everything'[s] : x.at + Span > moment' => x \in samples'[s]
    <3>0. Fresh(s) \subseteq Fresh(Ledger!Project) /\ Ledger!Project \in Ledger!Scopes
        BY DEF Ledger!SpendScopes, Ledger!Scopes
    <3>1. samples'[s] = Ledger!Evicted(s) \cup Fresh(s) /\ everything'[s] = everything[s] \cup Fresh(s)
        BY <1>1
    <3>2. Ledger!Evicted(s) = Ledger!Current(everything[s])
        BY CurrentKept DEF Ledger!Evicted
    <3> HIDE DEF Fresh
    <3>3. everything'[s] \subseteq everything'[Ledger!Project]
        BY <1>1, <3>0, <3>1 DEF LedgerInv, Kept
    <3>4. samples'[s] \subseteq everything'[s]
        BY <3>1, <3>2, SameCurrent
    <3>5. \A x \in everything'[s] : x.at + Span > moment' => x \in samples'[s]
        BY <1>1, <3>1, <3>2, SameCurrent
    <3> QED
        BY <3>3, <3>4, <3>5
  <2> QED
    BY <2>1 DEF Kept, Ledger!Scopes, Ledger!Project
<1>8. ASSUME NEW v \in inFlight'
      PROVE  /\ v.at \in Nat /\ v.at <= moment' /\ v.cost \in Nat /\ v.left \in Int
             /\ \A s \in Ledger!SpendScopes(v.agent) :
                   Sum(Before(everything'[s], v.at)) + v.cost + v.left <= Ledger!Ceiling(s)
  <2>1. /\ v.at \in Nat /\ v.at <= moment /\ v.cost \in Nat /\ v.left \in Int
        /\ \A s \in Ledger!SpendScopes(v.agent) :
              Sum(Before(everything[s], v.at)) + v.cost + v.left <= Ledger!Ceiling(s)
    BY <1>1 DEF LedgerInv, Promised
  <2>2. ASSUME NEW s \in Ledger!SpendScopes(v.agent) PROVE Before(everything'[s], v.at) = Before(everything[s], v.at)
    <3>1. s \in Ledger!Scopes
        BY CeilingsAreNumbers
    <3>2. everything'[s] = everything[s] \cup Fresh(s)
        BY <1>1, <3>1
    <3>3. \A x \in Fresh(s) : ~(x.at < v.at)
        BY <1>2, <1>3, <1>4, <2>1
    <3> HIDE DEF Fresh
    <3> QED
        BY <3>2, <3>3 DEF Before
  <2> QED
    BY <1>1, <2>1, <2>2
<1>9. Promised'
    BY <1>8 DEF Promised, Before, Ledger!SpendScopes, Ledger!Ceiling, Ledger!Project
<1> QED
    BY <1>6, <1>7, <1>9 DEF LedgerInv

LEMMA LedgerTickKeeps ==
    ASSUME Ledger!SpendAssumption, LedgerInv, Ledger!Tick
    PROVE  LedgerInv'
<1>1. moment' = moment + 1 /\ samples' = samples /\ inFlight' = inFlight /\ everything' = everything
    BY DEF Ledger!Tick
<1>2. moment \in Nat /\ Span \in Nat
    BY CeilingsAreNumbers DEF LedgerInv, LedgerTypes
<1>3. LedgerTypes'
  <2>1. \A s \in Ledger!Scopes : Costed(everything'[s]) /\ \A x \in everything'[s] : x.at \in Nat /\ x.at <= moment'
    BY <1>1, <1>2 DEF LedgerInv, LedgerTypes
  <2>2. moment' \in Nat
    BY <1>1, <1>2
  <2> QED
    BY <1>1, <2>1, <2>2 DEF LedgerInv, LedgerTypes, Ledger!Scopes, Ledger!Project, Costed
<1>4. Kept'
  <2>1. \A s \in Ledger!Scopes : \A x \in everything[s] : x.at + Span > moment' => x \in samples[s]
    BY <1>1, <1>2 DEF LedgerInv, LedgerTypes, Kept
  <2> QED
    BY <1>1, <2>1 DEF LedgerInv, Kept, Ledger!Scopes, Ledger!Project
<1>5. Promised'
  <2>1. \A w \in inFlight : w.at \in Nat /\ w.at <= moment'
    BY <1>1, <1>2 DEF LedgerInv, Promised
  <2> QED
    BY <1>1, <2>1 DEF LedgerInv, Promised, Before, Ledger!SpendScopes, Ledger!Ceiling, Ledger!Project
<1> QED
    BY <1>3, <1>4, <1>5 DEF LedgerInv

LEMMA LedgerInvHolds ==
    ASSUME Ledger!SpendAssumption, LedgerInv
    PROVE  Ledger!LedgersHold
<1>1. ASSUME NEW s \in Ledger!Scopes PROVE Ledger!Spent(s) = Ledger!Sum(Ledger!Current(everything[s]))
    BY CurrentKept, SameSum
<1>2. ASSUME NEW w \in inFlight, Ledger!Alone(w), NEW s \in Ledger!SpendScopes(w.agent)
      PROVE  Ledger!Spent(s) + w.cost + w.left <= Ledger!Ceiling(s)
  <2>1. s \in Ledger!Scopes
    BY CeilingsAreNumbers
  <2>2. \A x \in everything[s] : x.at < w.at
    BY <1>2, <2>1 DEF LedgerInv, Kept, Ledger!Alone
  <2>3. w.at \in Nat /\ w.at <= moment /\ w.cost \in Nat /\ w.left \in Int
    BY DEF LedgerInv, Promised
  <2>4. moment \in Nat /\ Span \in Nat /\ Costed(everything[s]) /\ \A x \in everything[s] : x.at \in Nat
    BY <2>1, CeilingsAreNumbers DEF LedgerInv, LedgerTypes
  <2>5. Ledger!Current(everything[s]) \in SUBSET Before(everything[s], w.at)
    BY <2>2, <2>3, <2>4, SameCurrent DEF Before
  <2>6. Before(everything[s], w.at) \in SUBSET everything[s]
    BY DEF Before
  <2>7. Costed(Before(everything[s], w.at)) /\ Sum(Before(everything[s], w.at)) \in Nat
    BY <2>4, <2>6, CostedParts
  <2>8. Sum(Ledger!Current(everything[s])) <= Sum(Before(everything[s], w.at))
    BY <2>5, <2>7, SumMonotone
  <2>9. Ledger!Spent(s) = Sum(Ledger!Current(everything[s])) /\ Ledger!Spent(s) \in Nat
    BY <2>1, CurrentKept
  <2>10. Sum(Before(everything[s], w.at)) + w.cost + w.left <= Ledger!Ceiling(s)
    BY DEF LedgerInv, Promised
  <2>11. Ledger!Ceiling(s) \in Nat
    BY CeilingsAreNumbers
  <2> QED
    BY <2>3, <2>7, <2>8, <2>9, <2>10, <2>11
<1> QED
    BY <1>1, <1>2 DEF Ledger!LedgersHold, Ledger!SpentIsCharged, Ledger!AdmittedFits

LEMMA LedgerInvNext ==
    ASSUME Ledger!SpendAssumption, LedgerInv, [Ledger!Next]_(Ledger!vars)
    PROVE  LedgerInv'
<1>1. CASE Ledger!Next
    BY <1>1, AskKeeps, RecordKeeps, LedgerTickKeeps DEF Ledger!Next
<1>2. CASE UNCHANGED Ledger!vars
  <2>1. moment' = moment /\ samples' = samples /\ inFlight' = inFlight /\ everything' = everything
    BY <1>2 DEF Ledger!vars
  <2> QED
    BY <2>1 DEF LedgerInv, LedgerTypes, Kept, Promised, Before, Costed, Ledger!Scopes,
                Ledger!SpendScopes, Ledger!Ceiling, Ledger!Project
<1> QED
    BY <1>1, <1>2

(* What a scope is said to have spent is what was charged to it in the window,  *)
(* and work admitted alone fits under every ceiling with the room it was told   *)
(* (spend.rs may_spend, record): for any agents, ceilings, window and costs.    *)
(* This is the spend ledger's side of LedgersHold, PartsProofs has the trail's. *)
THEOREM TheLedgerHolds ==
    ASSUME Ledger!SpendAssumption
    PROVE  Ledger!Spec /\ [](part = "spend") => []LedgersHold
<1>1. Ledger!Init => LedgerInv
    BY LedgerInvInit
<1>2. LedgerInv /\ [Ledger!Next]_(Ledger!vars) => LedgerInv'
    BY LedgerInvNext
<1>3. LedgerInv /\ part = "spend" => LedgersHold
    BY LedgerInvHolds DEF LedgersHold
<1> QED
    BY <1>1, <1>2, <1>3, PTL DEF Ledger!Spec
=============================================================================
