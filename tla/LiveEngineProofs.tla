-------------------------- MODULE LiveEngineProofs --------------------------
(***************************************************************************)
(* The safety of the live scheduler, for every set of requests, every      *)
(* policy, layout and limit: LedgerSound, StorageSound, PlansFit,          *)
(* OutcomeComplete and TokensInOrder of LiveEngine.                        *)
(*                                                                         *)
(* The module goes from the operators to the loop.  Its first half is      *)
(* about data: numbers, the folds the planner, the admission and the       *)
(* storage are written with, sums over finite sets, the orders the         *)
(* policies put rows in, and what a batch, a lease and a block pool keep   *)
(* true while one more row is taken.  The second half states the inductive *)
(* invariant Inv, shows one action after the other that it stays, adds     *)
(* what is needed for "the engine does not trip over its own checks"       *)
(* (FullInv), and ends with the five theorems.                             *)
(*                                                                         *)
(* Induction is always by the least counterexample (LeastNumber): the      *)
(* library's induction schemes are not used.                               *)
(***************************************************************************)
EXTENDS LiveEngine, FiniteSetTheorems, SequenceTheorems, WellFoundedInduction, TLAPS

-----------------------------------------------------------------------------
(***************************************************************************)
(* Numbers: the least and the greatest of a set, and induction.            *)
(***************************************************************************)

\* A non-empty set of naturals has a least element.
LEMMA LeastNumber ==
  ASSUME NEW T \in SUBSET Nat, T # {}
  PROVE  \E x \in T : \A y \in T : x <= y
<1> DEFINE R == {ss \in Nat \X Nat : ss[1] < ss[2]}
<1>1. IsWellFoundedOn(R, Nat)
  BY NatLessThanWellFounded, Zenon DEF OpToRel
<1>2. \E x \in T : \A y \in T : ~(<<y, x>> \in R)
  <2> HIDE DEF R
  <2>1. QED
    BY <1>1, WFMin
<1>3. PICK x \in T : \A y \in T : ~(<<y, x>> \in R)
  BY <1>2
<1>4. \A y \in T : x <= y
  <2> TAKE y \in T
  <2>1. x \in Nat /\ y \in Nat
    OBVIOUS
  <2>2. y < x => <<y, x>> \in R
    BY <2>1
  <2> HIDE DEF R
  <2>3. QED
    BY <1>3, <2>1, <2>2
<1>5. QED
  BY <1>4

\* Induction up to n, for a set of numbers.
LEMMA UpTo ==
  ASSUME NEW n \in Nat, NEW T, 0 \in T, \A i \in 1..n : i - 1 \in T => i \in T
  PROVE  \A i \in 0..n : i \in T
<1> DEFINE Bad == {i \in 0..n : i \notin T}
<1>1. SUFFICES ASSUME Bad # {} PROVE FALSE
  OBVIOUS
<1>2. PICK k \in Bad : \A j \in Bad : k <= j
  <2>1. Bad \in SUBSET Nat
    OBVIOUS
  <2> HIDE DEF Bad
  <2>2. QED
    BY <1>1, <2>1, LeastNumber
<1>3. k \in 1..n /\ k - 1 \notin Bad
  BY <1>2
<1>4. QED
  BY <1>2, <1>3

\* A non-empty set of naturals with a bound has a greatest element.
LEMMA GreatestNumber ==
  ASSUME NEW n \in Nat, NEW T \in SUBSET (0..n), T # {}
  PROVE  \E x \in T : \A y \in T : y <= x
<1> DEFINE D == {n - x : x \in T}
<1>1. D \in SUBSET Nat /\ D # {}
  <2>1. \A x \in T : x \in Int /\ n - x \in Nat
    OBVIOUS
  <2>2. QED
    BY <2>1
<1>2. PICK d \in D : \A e \in D : d <= e
  <2> HIDE DEF D
  <2>1. QED
    BY <1>1, LeastNumber
<1>3. PICK x \in T : d = n - x
  OBVIOUS
<1>4. \A y \in T : n - x <= n - y
  BY <1>2, <1>3
<1>5. \A y \in T : y <= x
  <2> TAKE y \in T
  <2>1. y \in Int /\ x \in Int /\ n - x <= n - y
    BY <1>4
  <2>2. QED
    BY <2>1
<1>6. QED
  BY <1>5

\* The greatest element of a bounded set is the one Max returns.
LEMMA MaxOf ==
  ASSUME NEW T \in SUBSET Int, NEW m \in T, \A y \in T : y <= m
  PROVE  Max(T) = m
<1>1. \E x \in T : \A y \in T : x >= y
  OBVIOUS
<1>2. Max(T) \in T /\ \A y \in T : Max(T) >= y
  BY <1>1, Zenon DEF Max
<1>3. Max(T) \in Int /\ m \in Int /\ Max(T) >= m /\ Max(T) <= m
  BY <1>2
<1>4. QED
  BY <1>3

\* The numbers up to i without the last.
LEMMA Initial ==
  ASSUME NEW i \in Nat \ {0}
  PROVE  (1..i) \ {i} = 1..(i - 1) /\ Max(1..i) = i
<1>1. ASSUME NEW j PROVE j \in (1..i) \ {i} <=> j \in 1..(i - 1)
  OBVIOUS
<1>2. 1..i \in SUBSET Int /\ i \in 1..i /\ \A y \in 1..i : y <= i
  OBVIOUS
<1>3. Max(1..i) = i
  BY <1>2, MaxOf
<1>4. QED
  BY <1>1, <1>3

-----------------------------------------------------------------------------
(***************************************************************************)
(* Folds.  A fold over a sequence is the end of a trace with one step per  *)
(* element.                                                                *)
(***************************************************************************)

\* One step of each fold of the model: the rows in a set, the planner, the
\* admission, and the two changes of the storage.
Keep(S, t, x) == IF x \in S THEN Append(t, x) ELSE t

\* How many rows hold a lease.
Held(l) == Cardinality({r \in Requests : l[r] # None})

\* The step of the fold of that kind, with its parameters p.
Fold1(kind, p, a, x) ==
    CASE kind = "among"    -> Keep(p, a, x)
      [] kind = "allocate" -> AllocateRow(p.L, p.v, a, x)
      [] kind = "admit"    -> AdmitRow(p, a, Held(a), x)
      [] kind = "commit"   -> CommitRow(p, a, x)
      [] kind = "release"  -> Release(a, x)

\* The fold itself.
Fold(kind, p, base, s) == FoldLeft(LAMBDA a, x : Fold1(kind, p, a, x), base, s)

\* h[i] is what has come out after i elements.
HasTrace(kind, p, base, s, n) ==
    \E h : /\ h[0] = base /\ h[n] = Fold(kind, p, base, s)
          /\ \A i \in 1..n : h[i] = Fold1(kind, p, h[i - 1], s[i])

\* Every set of positions up to n has its recursive value, and what comes out
\* at 1..i is one step on what comes out at 1..(i-1).
LEMMA FoldTrace ==
  ASSUME NEW kind, NEW p, NEW base, NEW s, NEW n \in Nat, DOMAIN s = 1..n
  PROVE  HasTrace(kind, p, base, s, n)
<1> DEFINE F(g, t) == IF t = {} THEN base ELSE Fold1(kind, p, g[t \ {Max(t)}], s[Max(t)])
           Rec(g, D) == g = [t \in SUBSET D |-> F(g, t)]
<1>1. Fold(kind, p, base, s) = (CHOOSE g : Rec(g, 1..n))[1..n]
  BY DEF Fold, FoldLeft, MapThenFoldSet
<1>2. \E g : Rec(g, 1..n)
  <2> DEFINE T == {k \in 0..n : \E g : Rec(g, 1..k)}
  <2>1. 0 \in T
    <3>1. Rec([t \in SUBSET (1..0) |-> base], 1..0)
      <4>1. \A t \in SUBSET (1..0) : t = {}
        OBVIOUS
      <4>2. QED
        BY <4>1
    <3>2. QED
      BY <3>1
  <2>2. ASSUME NEW k \in 1..n, k - 1 \in T
        PROVE  k \in T
    <3>1. PICK g : Rec(g, 1..(k - 1))
      BY <2>2
    <3> DEFINE g2 == [t \in SUBSET (1..k) |-> IF k \in t THEN Fold1(kind, p, g[t \ {k}], s[k]) ELSE g[t]]
    <3>2. ASSUME NEW t \in SUBSET (1..k)
          PROVE  g2[t] = F(g2, t)
      <4>1. CASE k \in t
        <5>1. Max(t) = k
          BY <4>1, MaxOf
        <5>2. t \ {k} \in SUBSET (1..k) /\ k \notin t \ {k} /\ t # {}
          BY <4>1
        <5>3. g2[t \ {k}] = g[t \ {k}]
          BY <5>2
        <5>4. QED
          BY <4>1, <5>1, <5>2, <5>3
      <4>2. CASE k \notin t
        <5>1. t \in SUBSET (1..(k - 1))
          BY <4>2
        <5>2. g[t] = F(g, t) /\ g2[t] = g[t]
          BY <3>1, <4>2, <5>1
        <5>3. t \ {Max(t)} \in SUBSET (1..k) /\ k \notin t \ {Max(t)}
          BY <4>2
        <5>4. g2[t \ {Max(t)}] = g[t \ {Max(t)}]
          BY <5>3
        <5>5. QED
          BY <5>2, <5>4
      <4>3. QED
        BY <4>1, <4>2
    <3>3. Rec(g2, 1..k)
      <4>1. g2 = [t \in SUBSET (1..k) |-> g2[t]]
        OBVIOUS
      <4> HIDE DEF g2
      <4>2. QED
        BY <3>2, <4>1
    <3>4. k \in 0..n /\ \E f : Rec(f, 1..k)
      <4> HIDE DEF Rec, g2
      <4>1. QED
        BY <3>3
    <3>5. QED
      BY <3>4
  <2>3. n \in T
    <3> HIDE DEF T
    <3>1. QED
      BY <2>1, <2>2, UpTo
  <2>4. QED
    BY <2>3
<1>3. PICK g : Rec(g, 1..n) /\ Fold(kind, p, base, s) = g[1..n]
  BY <1>1, <1>2
<1> DEFINE h == [i \in 0..n |-> g[1..i]]
<1>4. \A t \in SUBSET (1..n) : g[t] = F(g, t)
  BY <1>3
<1>5. h[0] = base
  <2>1. 1..0 = {} /\ {} \in SUBSET (1..n) /\ h[0] = g[1..0]
    OBVIOUS
  <2>2. g[{}] = base
    BY <1>4, <2>1
  <2>3. QED
    BY <2>1, <2>2
<1>6. ASSUME NEW i \in 1..n
      PROVE  h[i] = Fold1(kind, p, h[i - 1], s[i])
  <2>1. 1..i \in SUBSET (1..n) /\ 1..i # {}
    OBVIOUS
  <2>2. (1..i) \ {i} = 1..(i - 1) /\ Max(1..i) = i
    BY Initial
  <2>3. g[1..i] = Fold1(kind, p, g[1..(i - 1)], s[i])
    BY <1>4, <2>1, <2>2
  <2>4. h[i] = g[1..i] /\ h[i - 1] = g[1..(i - 1)]
    OBVIOUS
  <2>5. QED
    BY <2>3, <2>4
<1>7. h[n] = g[1..n]
  OBVIOUS
<1> HIDE DEF h
<1>8. QED
  BY <1>3, <1>5, <1>6, <1>7 DEF HasTrace

\* The operators of the model are these folds.
LEMMA AmongFold ==
  ASSUME NEW s, NEW S
  PROVE  Among(s, S) = Fold("among", S, <<>>, s)
BY DEF Among, Fold, Fold1, Keep, FoldLeft, MapThenFoldSet

\* allocate is the fold over its candidates.
LEMMA AllocateFold ==
  ASSUME NEW L, NEW v, NEW a, NEW c, NEW available, NEW slots
  PROVE  Allocate(L, v, a, c, available, slots)
            = Fold("allocate", [L |-> L, v |-> v], [a EXCEPT !.available = available, !.slots = slots], c)
BY DEF Allocate, Fold, Fold1, FoldLeft, MapThenFoldSet

\* commit is the fold over the steps of the batch.
LEMMA CommitFold ==
  ASSUME NEW L, NEW k, NEW s
  PROVE  Commit(L, k, s) = Fold("commit", L, k, s)
BY DEF Commit, Fold, Fold1, FoldLeft, MapThenFoldSet

\* A release of several rows is the fold over them.
LEMMA ReleaseFold ==
  ASSUME NEW k, NEW s
  PROVE  ReleaseAll(k, s) = Fold("release", 0, k, s)
BY DEF ReleaseAll, Fold, Fold1, FoldLeft, MapThenFoldSet

\* Admission is the fold over the waiting rows, except that a static batch that
\* is under way is left alone.
LEMMA AdmitFold ==
  ASSUME NEW l, NEW s
  PROVE  AdmitAll(l, s) =
            IF limits.mode = "static" /\ Held(l) > 0 THEN l
            ELSE Fold("admit", IF limits.mode = "serial" THEN 1 ELSE limits.active, l, s)
BY DEF AdmitAll, Fold, Fold1, Held, FoldLeft, MapThenFoldSet

-----------------------------------------------------------------------------
(***************************************************************************)
(* Sums over finite sets.                                                  *)
(***************************************************************************)

\* Induction over the subsets of a finite set.
LEMMA Subsets ==
  ASSUME NEW S, IsFiniteSet(S), NEW P,
         \A t \in SUBSET S : (\A x \in t : t \ {x} \in P) => t \in P
  PROVE  \A t \in SUBSET S : t \in P
<1> DEFINE Bad == {t \in SUBSET S : t \notin P}
           Sizes == {Cardinality(t) : t \in Bad}
<1>1. SUFFICES ASSUME Bad # {} PROVE FALSE
  OBVIOUS
<1>2. \A t \in SUBSET S : IsFiniteSet(t) /\ Cardinality(t) \in Nat
  BY FS_Subset, FS_CardinalityType
<1>3. Sizes \in SUBSET Nat /\ Sizes # {}
  BY <1>1, <1>2
<1>4. PICK n \in Sizes : \A m \in Sizes : n <= m
  <2> HIDE DEF Sizes
  <2>1. QED
    BY <1>3, LeastNumber
<1>5. PICK t \in Bad : n = Cardinality(t)
  OBVIOUS
<1>6. ASSUME NEW x \in t
      PROVE  t \ {x} \in P
  <2>1. t \ {x} \in SUBSET S /\ Cardinality(t \ {x}) = Cardinality(t) - 1
    BY <1>2, FS_RemoveElement
  <2>2. t \ {x} \in Bad => n <= Cardinality(t) - 1
    BY <1>4, <2>1
  <2>3. Cardinality(t) \in Nat
    BY <1>2
  <2>4. QED
    BY <1>5, <2>1, <2>2, <2>3
<1>7. QED
  BY <1>6

\* The sums of the model: of the values of a function, of the reservations of
\* leases, of the tokens of steps and of the blocks steps need.
Val(f, x) ==
    CASE f.kind = "values"   -> f.of[x]
      [] f.kind = "capacity" -> f.of[x].capacity
      [] f.kind = "len"      -> f.of[x].len
      [] f.kind = "growth"   -> Growth(f.limits, f.kv, f.of[x])

\* The sum of f over S; the element the library takes next; and the recursion
\* that defines the sum.
Total(f, S) == MapThenSumSet(LAMBDA x : Val(f, x), S)
Picked(t) == CHOOSE x \in t : TRUE
Sum1(f, g, t) == IF t = {} THEN 0 ELSE Val(f, Picked(t)) + g[t \ {Picked(t)}]
Sums(f, S, g) == g = [t \in SUBSET S |-> Sum1(f, g, t)]

\* The recursion behind a sum has a solution.
LEMMA SumsExist ==
  ASSUME NEW S, IsFiniteSet(S), NEW f
  PROVE  \E g : Sums(f, S, g)
<1>1. \A t \in SUBSET S : IsFiniteSet(t) /\ Cardinality(t) \in Nat /\ Cardinality(t) <= Cardinality(S)
  BY FS_Subset, FS_CardinalityType
<1> DEFINE Small(k) == {t \in SUBSET S : Cardinality(t) <= k}
           Part(g, k) == g = [t \in Small(k) |-> Sum1(f, g, t)]
           T == {k \in 0..Cardinality(S) : \E g : Part(g, k)}
<1>0. Cardinality(S) \in Nat
  BY FS_CardinalityType
<1>2. 0 \in T
  <2>1. \A t \in Small(0) : t = {}
    BY <1>1, FS_EmptySet
  <2>2. Part([t \in Small(0) |-> 0], 0)
    BY <2>1 DEF Sum1
  <2>3. 0 \in 0..Cardinality(S) /\ \E h : Part(h, 0)
    <3> HIDE DEF Part
    <3>1. QED
      BY <1>0, <2>2
  <2>4. QED
    BY <2>3
<1>3. ASSUME NEW k \in 1..Cardinality(S), k - 1 \in T
      PROVE  k \in T
  <2>1. PICK g : Part(g, k - 1)
    BY <1>3
  <2> DEFINE g2 == [t \in Small(k) |-> IF t \in Small(k - 1) THEN g[t] ELSE Sum1(f, g, t)]
  <2>2. ASSUME NEW t \in Small(k)
        PROVE  g2[t] = Sum1(f, g2, t)
    <3>1. CASE t = {}
      <4>1. t \in Small(k - 1)
        BY <1>0, <3>1, FS_EmptySet
      <4>2. g[t] = Sum1(f, g, t)
        BY <2>1, <4>1
      <4>3. QED
        BY <3>1, <4>1, <4>2 DEF Sum1
    <3>2. CASE t # {}
      <4> DEFINE x == Picked(t)
      <4>1. x \in t
        BY <3>2 DEF Picked
      <4>2. Cardinality(t \ {x}) = Cardinality(t) - 1
        BY <1>1, <4>1, FS_RemoveElement
      <4>3. t \ {x} \in Small(k - 1) /\ t \ {x} \in Small(k)
        BY <1>1, <4>1, <4>2
      <4>4. g2[t \ {x}] = g[t \ {x}]
        BY <4>3
      <4>5. Sum1(f, g2, t) = Sum1(f, g, t)
        BY <4>4 DEF Sum1
      <4>6. t \in Small(k - 1) => g[t] = Sum1(f, g, t)
        BY <2>1
      <4>7. QED
        BY <4>5, <4>6
    <3>3. QED
      BY <3>1, <3>2
  <2>3. Part(g2, k)
    <3>1. g2 = [t \in Small(k) |-> g2[t]]
      OBVIOUS
    <3> HIDE DEF g2, Small
    <3>2. QED
      BY <2>2, <3>1
  <2>4. k \in 0..Cardinality(S) /\ \E h : Part(h, k)
    <3> HIDE DEF Part, g2
    <3>1. QED
      BY <1>0, <2>3
  <2>5. QED
    BY <2>4
<1>4. Cardinality(S) \in T
  <2> HIDE DEF T
  <2>1. QED
    BY <1>0, <1>2, <1>3, UpTo
<1>5. PICK g : Part(g, Cardinality(S))
  BY <1>4
<1>6. Small(Cardinality(S)) = SUBSET S
  BY <1>1
<1>7. Sums(f, S, g)
  BY <1>5, <1>6 DEF Sums
<1>8. QED
  BY <1>7

\* A sum is computed by taking away one element, then the others.
LEMMA SumUnfold ==
  ASSUME NEW S, IsFiniteSet(S), NEW f
  PROVE  /\ S = {} => Total(f, S) = 0
         /\ S # {} => Total(f, S) = Val(f, Picked(S)) + Total(f, S \ {Picked(S)})
<1>1. ASSUME NEW U
      PROVE  Total(f, U) = (CHOOSE g : Sums(f, U, g))[U]
  BY DEF Total, Sums, Sum1, Picked, MapThenSumSet, MapThenFoldSet
<1>2. ASSUME NEW U, IsFiniteSet(U)
      PROVE  \E g : Sums(f, U, g) /\ Total(f, U) = g[U]
  BY <1>1, <1>2, SumsExist
<1>3. PICK g : Sums(f, S, g) /\ Total(f, S) = g[S]
  BY <1>2
<1>4. \A t \in SUBSET S : g[t] = Sum1(f, g, t)
  BY <1>3 DEF Sums
<1>5. CASE S = {}
  BY <1>3, <1>4, <1>5 DEF Sum1
<1>6. CASE S # {}
  <2> DEFINE x == Picked(S)
             U == S \ {x}
  <2>1. x \in S /\ IsFiniteSet(U)
    BY <1>6, FS_Subset DEF Picked
  <2>2. PICK h : Sums(f, U, h) /\ Total(f, U) = h[U]
    BY <1>2, <2>1
  <2>3. \A t \in SUBSET U : h[t] = Sum1(f, h, t)
    BY <2>2 DEF Sums
  <2> DEFINE P == {t \in SUBSET U : g[t] = h[t]}
  <2>4. ASSUME NEW t \in SUBSET U, \A y \in t : t \ {y} \in P
        PROVE  t \in P
    <3>1. g[t] = Sum1(f, g, t) /\ h[t] = Sum1(f, h, t)
      BY <1>4, <2>3
    <3>2. t # {} => Picked(t) \in t
      BY DEF Picked
    <3>3. t # {} => g[t \ {Picked(t)}] = h[t \ {Picked(t)}]
      BY <2>4, <3>2
    <3>4. QED
      BY <3>1, <3>3 DEF Sum1
  <2>5. U \in P
    <3> HIDE DEF P
    <3>1. \A t \in SUBSET U : t \in P
      BY <2>1, <2>4, Subsets
    <3>2. QED
      BY <3>1
  <2>6. g[S] = Val(f, x) + g[U]
    BY <1>4, <1>6 DEF Sum1
  <2>7. QED
    BY <1>3, <1>6, <2>2, <2>5, <2>6
<1>7. QED
  BY <1>5, <1>6

\* Sums of integers are integers.
LEMMA SumInt ==
  ASSUME NEW S, IsFiniteSet(S), NEW f, \A x \in S : Val(f, x) \in Int
  PROVE  Total(f, S) \in Int
<1> DEFINE P == {t \in SUBSET S : Total(f, t) \in Int}
<1>1. ASSUME NEW t \in SUBSET S, \A x \in t : t \ {x} \in P
      PROVE  t \in P
  <2>1. IsFiniteSet(t)
    BY FS_Subset
  <2>2. CASE t = {}
    BY <2>1, <2>2, SumUnfold
  <2>3. CASE t # {}
    <3>1. Picked(t) \in t
      BY <2>3 DEF Picked
    <3>2. Total(f, t \ {Picked(t)}) \in Int /\ Val(f, Picked(t)) \in Int
      BY <1>1, <3>1
    <3>3. Total(f, t) = Val(f, Picked(t)) + Total(f, t \ {Picked(t)})
      BY <2>1, <2>3, SumUnfold
    <3>4. QED
      BY <3>2, <3>3
  <2>4. QED
    BY <2>2, <2>3
<1>2. S \in P
  <2> HIDE DEF P
  <2>1. \A t \in SUBSET S : t \in P
    BY <1>1, Subsets
  <2>2. QED
    BY <2>1
<1>3. QED
  BY <1>2

\* Picked element may be taken away first.
LEMMA SumRemove ==
  ASSUME NEW S, IsFiniteSet(S), NEW f, \A x \in S : Val(f, x) \in Int, NEW x \in S
  PROVE  Total(f, S) = Val(f, x) + Total(f, S \ {x})
<1> DEFINE P == {t \in SUBSET S : \A y \in t : Total(f, t) = Val(f, y) + Total(f, t \ {y})}
<1>1. ASSUME NEW t \in SUBSET S, \A y \in t : t \ {y} \in P
      PROVE  t \in P
  <2>1. \A u \in SUBSET S : IsFiniteSet(u) /\ Total(f, u) \in Int
    <3>1. \A u \in SUBSET S : IsFiniteSet(u) /\ \A y \in u : Val(f, y) \in Int
      BY FS_Subset
    <3>2. QED
      BY <3>1, SumInt
  <2>2. ASSUME NEW y \in t
        PROVE  Total(f, t) = Val(f, y) + Total(f, t \ {y})
    <3> DEFINE a == Picked(t)
    <3>1. a \in t
      BY DEF Picked
    <3>2. Total(f, t) = Val(f, a) + Total(f, t \ {a})
      BY <2>1, <3>1, SumUnfold
    <3>3. CASE a = y
      BY <3>2, <3>3
    <3>4. CASE a # y
      <4> DEFINE u == t \ {a, y}
      <4>1. y \in t \ {a} /\ a \in t \ {y} /\ (t \ {a}) \ {y} = u /\ (t \ {y}) \ {a} = u
        BY <3>1, <3>4
      <4>2. Total(f, t \ {a}) = Val(f, y) + Total(f, u)
        BY <1>1, <3>1, <4>1
      <4>3. Total(f, t \ {y}) = Val(f, a) + Total(f, u)
        BY <1>1, <4>1
      <4>4. Val(f, a) \in Int /\ Val(f, y) \in Int /\ Total(f, u) \in Int
        BY <2>1, <3>1
      <4>5. QED
        BY <3>2, <4>2, <4>3, <4>4
    <3>5. QED
      BY <3>3, <3>4
  <2>3. QED
    BY <2>2
<1>2. S \in P
  <2> HIDE DEF P
  <2>1. \A t \in SUBSET S : t \in P
    BY <1>1, Subsets
  <2>2. QED
    BY <2>1
<1>3. QED
  BY <1>2

\* A sum looks at the summands only, and is monotone in them.
LEMMA SumMonotone ==
  ASSUME NEW S, IsFiniteSet(S), NEW f, NEW h, \A x \in S : Val(f, x) \in Int /\ Val(h, x) \in Int /\ Val(f, x) <= Val(h, x)
  PROVE  Total(f, S) <= Total(h, S)
<1> DEFINE P == {t \in SUBSET S : Total(f, t) <= Total(h, t)}
<1>1. ASSUME NEW t \in SUBSET S, \A x \in t : t \ {x} \in P
      PROVE  t \in P
  <2>1. IsFiniteSet(t)
    BY FS_Subset
  <2>2. CASE t = {}
    <3>1. Total(f, t) = 0 /\ Total(h, t) = 0
      BY <2>1, <2>2, SumUnfold
    <3>2. Total(f, t) <= Total(h, t)
      BY <3>1
    <3>3. QED
      BY <3>2
  <2>3. CASE t # {}
    <3> DEFINE x == Picked(t)
    <3>1. x \in t
      BY <2>3 DEF Picked
    <3>2. Total(f, t \ {x}) <= Total(h, t \ {x})
      BY <1>1, <3>1
    <3>3. Total(f, t \ {x}) \in Int /\ Total(h, t \ {x}) \in Int
      BY <2>1, FS_Subset, SumInt
    <3>4. Total(f, t) = Val(f, x) + Total(f, t \ {x}) /\ Total(h, t) = Val(h, x) + Total(h, t \ {x})
      BY <2>1, <2>3, SumUnfold
    <3>5. Val(f, x) \in Int /\ Val(h, x) \in Int /\ Val(f, x) <= Val(h, x)
      BY <3>1
    <3>6. QED
      BY <3>2, <3>3, <3>4, <3>5
  <2>4. QED
    BY <2>2, <2>3
<1>2. S \in P
  <2> HIDE DEF P
  <2>1. \A t \in SUBSET S : t \in P
    BY <1>1, Subsets
  <2>2. QED
    BY <2>1
<1>3. QED
  BY <1>2

\* Equal summands have equal sums.
LEMMA SumSame ==
  ASSUME NEW S, IsFiniteSet(S), NEW f, NEW h, \A x \in S : Val(f, x) \in Int /\ Val(f, x) = Val(h, x)
  PROVE  Total(f, S) = Total(h, S)
<1>1. Total(f, S) \in Int /\ Total(h, S) \in Int
  BY SumInt
<1>2. Total(f, S) <= Total(h, S) /\ Total(h, S) <= Total(f, S)
  <2>1. \A x \in S : Val(f, x) \in Int /\ Val(h, x) \in Int /\ Val(f, x) <= Val(h, x) /\ Val(h, x) <= Val(f, x)
    OBVIOUS
  <2>2. QED
    BY <2>1, SumMonotone
<1>3. QED
  BY <1>1, <1>2

\* A sum of naturals over a part is no more than the whole.
LEMMA SumPart ==
  ASSUME NEW S, IsFiniteSet(S), NEW f, \A x \in S : Val(f, x) \in Nat, NEW T \in SUBSET S
  PROVE  Total(f, T) \in Nat /\ Total(f, T) <= Total(f, S)
<1>1. \A x \in S : Val(f, x) \in Int
  OBVIOUS
<1>2. \A u \in SUBSET S : IsFiniteSet(u) /\ Total(f, u) \in Int
  <2>1. \A u \in SUBSET S : IsFiniteSet(u) /\ \A y \in u : Val(f, y) \in Int
    BY FS_Subset
  <2>2. QED
    BY <2>1, SumInt
<1> DEFINE P == {t \in SUBSET S : \A u \in SUBSET t : 0 <= Total(f, u) /\ Total(f, u) <= Total(f, t)}
<1>3. ASSUME NEW t \in SUBSET S, \A x \in t : t \ {x} \in P
      PROVE  t \in P
  <2>1. ASSUME NEW u \in SUBSET t
        PROVE  0 <= Total(f, u) /\ Total(f, u) <= Total(f, t)
    <3>1. CASE t = {}
      <4>1. u = {} /\ Total(f, {}) = 0
        BY <3>1, <1>2, SumUnfold
      <4>2. QED
        BY <3>1, <4>1
    <3>2. ASSUME NEW x \in t \ u
          PROVE  0 <= Total(f, u) /\ Total(f, u) <= Total(f, t)
      <4>1. t \ {x} \in P /\ u \in SUBSET (t \ {x})
        BY <1>3
      <4>2. 0 <= Total(f, u) /\ Total(f, u) <= Total(f, t \ {x})
        BY <4>1
      <4>3. Total(f, t) = Val(f, x) + Total(f, t \ {x})
        BY <1>1, <1>2, SumRemove
      <4>4. Val(f, x) \in Nat /\ Total(f, u) \in Int /\ Total(f, t \ {x}) \in Int /\ Total(f, t) \in Int
        BY <1>2
      <4>5. QED
        BY <4>2, <4>3, <4>4
    <3>3. CASE u = t /\ t # {}
      <4> DEFINE x == Picked(t)
      <4>1. x \in t
        BY <3>3 DEF Picked
      <4>2. t \ {x} \in P
        BY <1>3, <4>1
      <4>3. 0 <= Total(f, t \ {x})
        BY <4>2
      <4>4. Total(f, t) = Val(f, x) + Total(f, t \ {x})
        BY <1>1, <1>2, <4>1, SumRemove
      <4>5. Val(f, x) \in Nat /\ Total(f, t \ {x}) \in Int /\ Total(f, t) \in Int
        BY <1>2, <4>1
      <4>6. QED
        BY <3>3, <4>3, <4>4, <4>5
    <3>4. QED
      BY <3>1, <3>2, <3>3
  <2>2. QED
    BY <2>1
<1>4. S \in P
  <2> HIDE DEF P
  <2>1. \A t \in SUBSET S : t \in P
    BY <1>3, Subsets
  <2>2. QED
    BY <2>1
<1>5. QED
  BY <1>2, <1>4

\* The sums of the model in these terms.
LEMMA ReservedSum ==
  ASSUME NEW l
  PROVE  Reserved(l) = Total([kind |-> "capacity", of |-> l], {r \in Requests : l[r] # None})
BY DEF Reserved, Total, Val

\* The tokens of a batch.
LEMMA LenSum ==
  ASSUME NEW s
  PROVE  MapThenSumSet(LAMBDA i : s[i].len, DOMAIN s) = Total([kind |-> "len", of |-> s], DOMAIN s)
BY DEF Total, Val

\* The blocks a batch needs.
LEMMA GrowthSum ==
  ASSUME NEW L, NEW k, NEW s
  PROVE  MapThenSumSet(LAMBDA i : Growth(L, k, s[i]), DOMAIN s)
            = Total([kind |-> "growth", of |-> s, limits |-> L, kv |-> k], DOMAIN s)
BY DEF Total, Val

-----------------------------------------------------------------------------
(***************************************************************************)
(* Orders of rows.                                                         *)
(***************************************************************************)

\* A sequence without repetition.
Distinct(s) == \A i, j \in DOMAIN s : s[i] = s[j] => i = j

\* The first i elements of a sequence.
First(s, i) == {s[j] : j \in 1..i}

\* What Among keeps: the elements of the sequence that are in the set, once
\* each when the sequence has no repetition.
LEMMA AmongKeeps ==
  ASSUME NEW X, NEW s \in Seq(X), Distinct(s), NEW S
  PROVE  /\ Among(s, S) \in Seq(X) /\ Distinct(Among(s, S))
         /\ ToSet(Among(s, S)) = ToSet(s) \cap S
<1> DEFINE n == Len(s)
<1>0. n \in Nat /\ DOMAIN s = 1..n /\ \A i \in 1..n : s[i] \in X
  OBVIOUS
<1>1. PICK h : /\ h[0] = <<>> /\ h[n] = Fold("among", S, <<>>, s)
               /\ \A i \in 1..n : h[i] = Fold1("among", S, h[i - 1], s[i])
  <2>1. HasTrace("among", S, <<>>, s, n)
    BY <1>0, FoldTrace
  <2>2. QED
    BY <2>1 DEF HasTrace
<1> DEFINE Good(i) == /\ h[i] \in Seq(X) /\ Distinct(h[i])
                      /\ ToSet(h[i]) = First(s, i) \cap S
           T == {i \in 0..n : Good(i)}
<1>2. 0 \in T
  <2>1. <<>> \in Seq(X) /\ Distinct(<<>>) /\ ToSet(<<>>) = {} /\ First(s, 0) = {}
    BY DEF Distinct, ToSet, First
  <2>2. Good(0)
    BY <1>1, <2>1
  <2>3. 0 \in 0..n
    BY <1>0
  <2> HIDE DEF Good, n
  <2>4. QED
    BY <2>2, <2>3
<1>3. ASSUME NEW i \in 1..n, i - 1 \in T
      PROVE  i \in T
  <2> DEFINE t == h[i - 1]
             x == s[i]
  <2>1. t \in Seq(X) /\ Distinct(t) /\ ToSet(t) = First(s, i - 1) \cap S
    BY <1>3
  <2>2. h[i] = IF x \in S THEN Append(t, x) ELSE t
    BY <1>1 DEF Fold1, Keep
  <2>3. First(s, i) = First(s, i - 1) \cup {x}
    BY DEF First
  <2>4. x \notin First(s, i - 1) /\ x \in X
    BY <1>0 DEF First, Distinct
  <2> HIDE DEF x, t
  <2>5. CASE x \in S
    <3>1. h[i] = Append(t, x)
      BY <2>2, <2>5
    <3>2. x \notin ToSet(t)
      BY <2>1, <2>4
    <3>3. Append(t, x) \in Seq(X) /\ Distinct(Append(t, x)) /\ ToSet(Append(t, x)) = ToSet(t) \cup {x}
      BY <2>1, <2>4, <3>2, SMTT(30) DEF Distinct, ToSet
    <3>4. ToSet(t) \cup {x} = First(s, i) \cap S
      BY <2>1, <2>3, <2>5
    <3>5. Good(i)
      BY <3>1, <3>3, <3>4
    <3> HIDE DEF Good
    <3>6. QED
      BY <1>0, <3>5
  <2>6. CASE x \notin S
    BY <2>1, <2>2, <2>3, <2>6
  <2>7. QED
    BY <2>5, <2>6
<1>4. n \in T
  <2> HIDE DEF T, n
  <2>1. QED
    BY <1>0, <1>2, <1>3, UpTo
<1>5. First(s, n) = ToSet(s)
  BY <1>0 DEF First, ToSet
<1>6. QED
  BY <1>1, <1>4, <1>5, AmongFold

\* Whatever the policy, an order of rows is a sequence of exactly those rows.
LEMMA OrderedRows ==
  ASSUME order \in Seq(Requests), Distinct(order), NEW R \in SUBSET Requests, R \subseteq ToSet(order),
         IsFiniteSet(Requests), NEW s \in Ordered(R)
  PROVE  s \in Seq(R) /\ Distinct(s) /\ ToSet(s) = R
<1>1. CASE limits.policy = "fcfs"
  <2>1. s = Among(order, R)
    BY <1>1 DEF Ordered, InOrder
  <2>2. s \in Seq(Requests) /\ Distinct(s) /\ ToSet(s) = R
    <3>1. /\ Among(order, R) \in Seq(Requests) /\ Distinct(Among(order, R))
          /\ ToSet(Among(order, R)) = ToSet(order) \cap R
      BY AmongKeeps
    <3>2. QED
      BY <2>1, <3>1
  <2>3. s \in Seq(R)
    BY <2>2 DEF ToSet
  <2>4. QED
    BY <2>2, <2>3
<1>2. CASE limits.policy # "fcfs"
  <2> DEFINE c == Cardinality(R)
  <2>1. s \in SetToSeqs(R)
    BY <1>2 DEF Ordered
  <2>2. c \in Nat /\ IsFiniteSet(R) /\ IsFiniteSet(1..c) /\ Cardinality(1..c) = c
    <3>1. IsFiniteSet(R)
      BY FS_Subset
    <3>2. c \in Nat
      BY <3>1, FS_CardinalityType
    <3>3. IsFiniteSet(1..c) /\ Cardinality(1..c) = IF 1 > c THEN 0 ELSE c - 1 + 1
      <4> HIDE DEF c
      <4>1. 1 \in Int /\ c \in Int
        BY <3>2
      <4>2. QED
        BY <4>1, FS_Interval
    <3>4. QED
      BY <3>1, <3>2, <3>3
  <2>3. s \in [1..c -> R] /\ \A i, j \in 1..c : i # j => s[i] # s[j]
    BY <2>1 DEF SetToSeqs
  <2>4. s \in Seq(R) /\ Distinct(s)
    BY <2>2, <2>3 DEF Distinct
  <2>5. \A x \in R : \E i \in 1..c : s[i] = x
    <3>1. SUFFICES ASSUME NEW x \in R, \A i \in 1..c : s[i] # x PROVE FALSE
      OBVIOUS
    <3>2. IsFiniteSet(R \ {x}) /\ Cardinality(R \ {x}) = c - 1
      BY <2>2, FS_RemoveElement
    <3>3. s \in [1..c -> R \ {x}]
      BY <2>3, <3>1
    <3>4. c - 1 < c
      BY <2>2
    <3> HIDE DEF c
    <3>5. PICK i \in 1..c, j \in 1..c : i # j /\ s[i] = s[j]
      BY <2>2, <3>2, <3>3, <3>4, FS_PigeonHole
    <3>6. QED
      BY <2>3, <3>5
  <2>6. ToSet(s) = R
    BY <2>3, <2>5 DEF ToSet
  <2>7. QED
    BY <2>4, <2>6
<1>3. QED
  BY <1>1, <1>2

-----------------------------------------------------------------------------
(***************************************************************************)
(* The storage: which rows a release and a commit change.                  *)
(***************************************************************************)

\* A storage has a length and a list of blocks for every request.
Storage(k) == k.valid \in [Requests -> Nat] /\ k.blocks = [r \in Requests |-> k.blocks[r]]

\* The steps of a batch, the rows they are of, and at most one of each row.
StepSet == [id : Requests, start : Nat, len : Nat, emit : BOOLEAN]
Ids(s) == {s[i].id : i \in DOMAIN s}
OneEach(s) == \A i, j \in DOMAIN s : s[i].id = s[j].id => i = j

\* A release of several rows empties these and leaves the others alone.
LEMMA ReleasesRows ==
  ASSUME NEW k, Storage(k), NEW s \in Seq(Requests)
  PROVE  /\ Storage(ReleaseAll(k, s))
         /\ \A r \in Requests :
               IF r \in ToSet(s) THEN ReleaseAll(k, s).valid[r] = 0 /\ ReleaseAll(k, s).blocks[r] = <<>>
               ELSE /\ ReleaseAll(k, s).valid[r] = k.valid[r]
                    /\ ReleaseAll(k, s).blocks[r] = k.blocks[r]
<1> DEFINE n == Len(s)
<1>0. n \in Nat /\ DOMAIN s = 1..n /\ \A i \in 1..n : s[i] \in Requests
  OBVIOUS
<1>1. PICK h : /\ h[0] = k /\ h[n] = Fold("release", 0, k, s)
               /\ \A i \in 1..n : h[i] = Fold1("release", 0, h[i - 1], s[i])
  <2>1. HasTrace("release", 0, k, s, n)
    BY <1>0, FoldTrace
  <2>2. QED
    BY <2>1 DEF HasTrace
<1> DEFINE Good(i) == /\ Storage(h[i])
                      /\ \A r \in Requests :
                           IF r \in First(s, i) THEN h[i].valid[r] = 0 /\ h[i].blocks[r] = <<>>
                           ELSE h[i].valid[r] = k.valid[r] /\ h[i].blocks[r] = k.blocks[r]
           T == {i \in 0..n : Good(i)}
<1>2. 0 \in T
  <2>1. First(s, 0) = {}
    BY DEF First
  <2>2. Good(0)
    BY <1>1, <2>1
  <2>3. 0 \in 0..n
    BY <1>0
  <2> HIDE DEF Good, n
  <2>4. QED
    BY <2>2, <2>3
<1>3. ASSUME NEW i \in 1..n, i - 1 \in T
      PROVE  i \in T
  <2> DEFINE c == h[i - 1]
             x == s[i]
  <2>1. Good(i - 1)
    BY <1>3
  <2>2. h[i] = Release(c, x) /\ x \in Requests
    BY <1>0, <1>1 DEF Fold1
  <2>3. First(s, i) = First(s, i - 1) \cup {x}
    BY DEF First
  <2>4. h[i].valid = [c.valid EXCEPT ![x] = 0] /\ h[i].blocks = [c.blocks EXCEPT ![x] = <<>>]
    BY <2>2 DEF Release
  <2> HIDE DEF x
  <2>5. Storage(h[i])
    <3> DEFINE b == <<>>
               z == 0
    <3>1. h[i].valid = [c.valid EXCEPT ![x] = z] /\ h[i].blocks = [c.blocks EXCEPT ![x] = b]
      BY <2>4
    <3>2. Storage(c) /\ x \in Requests /\ z \in Nat
      BY <2>1, <2>2
    <3> HIDE DEF b, z, c
    <3>3. QED
      BY <3>1, <3>2 DEF Storage
  <2>6. Good(i)
    BY <2>1, <2>2, <2>3, <2>4, <2>5 DEF Storage
  <2> HIDE DEF Good
  <2>7. QED
    BY <1>0, <2>6
<1>4. n \in T
  <2> HIDE DEF T, n
  <2>1. QED
    BY <1>0, <1>2, <1>3, UpTo
<1>5. First(s, n) = ToSet(s)
  BY <1>0 DEF First, ToSet
<1>6. QED
  BY <1>1, <1>4, <1>5, ReleaseFold

\* z is the storage k with the lengths the batch s ends at, and the rows that
\* are not in it left alone.
Stores(z, k, s) ==
    /\ \A i \in DOMAIN s : z.valid[s[i].id] = s[i].start + s[i].len
    /\ \A r \in Requests \ Ids(s) : z.valid[r] = k.valid[r] /\ z.blocks[r] = k.blocks[r]

\* What commit does for one step: the length it ends at, and blocks from the end
\* of the free list.
RowCommitted(z, L, k, s) ==
    /\ z.valid = [k.valid EXCEPT ![s.id] = s.start + s.len]
    /\ z.blocks = [k.blocks EXCEPT ![s.id] =
                     k.blocks[s.id] \o Reverse(SubSeq(k.free, Len(k.free) - Growth(L, k, s) + 1, Len(k.free)))]

\* CommitRow does so.
LEMMA CommitRowIs ==
  ASSUME NEW L, NEW k, NEW s
  PROVE  RowCommitted(CommitRow(L, k, s), L, k, s)
BY DEF CommitRow, RowCommitted

\* A commit sets the length of the rows of the batch and leaves the others
\* alone.
LEMMA CommitsRows ==
  ASSUME NEW L, NEW k, Storage(k), NEW s \in Seq(StepSet), OneEach(s)
  PROVE  Stores(Commit(L, k, s), k, s)
<1> DEFINE n == Len(s)
<1>0. n \in Nat /\ DOMAIN s = 1..n /\ \A i \in 1..n : s[i] \in StepSet
  OBVIOUS
<1>1. PICK h : /\ h[0] = k /\ h[n] = Fold("commit", L, k, s)
               /\ \A i \in 1..n : h[i] = Fold1("commit", L, h[i - 1], s[i])
  <2>1. HasTrace("commit", L, k, s, n)
    BY <1>0, FoldTrace
  <2>2. QED
    BY <2>1 DEF HasTrace
<1> DEFINE Good(i) == /\ Storage(h[i])
                      /\ \A j \in 1..i : h[i].valid[s[j].id] = s[j].start + s[j].len
                      /\ \A r \in Requests : (\A j \in 1..i : s[j].id # r) =>
                            h[i].valid[r] = k.valid[r] /\ h[i].blocks[r] = k.blocks[r]
           T == {i \in 0..n : Good(i)}
<1>2. 0 \in T
  <2>1. Good(0)
    BY <1>1
  <2>2. 0 \in 0..n
    BY <1>0
  <2> HIDE DEF Good, n
  <2>3. QED
    BY <2>1, <2>2
<1>3. ASSUME NEW i \in 1..n, i - 1 \in T
      PROVE  i \in T
  <2> DEFINE c == h[i - 1]
             x == s[i].id
             e == s[i].start + s[i].len
  <2>1. Good(i - 1)
    BY <1>3
  <2>2. h[i] = CommitRow(L, c, s[i]) /\ x \in Requests /\ e \in Nat
    BY <1>0, <1>1 DEF Fold1, StepSet
  <2>3. \A j \in 1..(i - 1) : s[j].id # x
    BY <1>0 DEF OneEach
  <2> DEFINE b == c.blocks[x] \o Reverse(SubSeq(c.free, Len(c.free) - Growth(L, c, s[i]) + 1, Len(c.free)))
  <2>4. h[i].valid = [c.valid EXCEPT ![x] = e] /\ h[i].blocks = [c.blocks EXCEPT ![x] = b]
    <3>1. RowCommitted(h[i], L, c, s[i])
      BY <2>2, CommitRowIs
    <3>2. QED
      BY <3>1 DEF RowCommitted
  <2> HIDE DEF x, e, b
  <2>5. Storage(h[i])
    <3>1. c.valid \in [Requests -> Nat] /\ c.blocks = [r \in Requests |-> c.blocks[r]]
      BY <2>1 DEF Storage
    <3>2. h[i].valid \in [Requests -> Nat]
      BY <2>2, <2>4, <3>1
    <3>3. h[i].blocks = [r \in Requests |-> h[i].blocks[r]]
      BY <2>4, <3>1
    <3>4. QED
      BY <3>2, <3>3 DEF Storage
  <2>6. ASSUME NEW j \in 1..i
        PROVE  h[i].valid[s[j].id] = s[j].start + s[j].len
    <3>1. CASE j = i
      BY <2>1, <2>2, <2>4, <3>1 DEF Storage, x, e
    <3>2. CASE j # i
      <4>1. j \in 1..(i - 1) /\ s[j].id # x /\ s[j].id \in Requests
        BY <1>0, <2>3, <3>2 DEF StepSet
      <4>2. QED
        BY <2>1, <2>4, <4>1 DEF Storage
    <3>3. QED
      BY <3>1, <3>2
  <2>7. ASSUME NEW r \in Requests, \A j \in 1..i : s[j].id # r
        PROVE  h[i].valid[r] = k.valid[r] /\ h[i].blocks[r] = k.blocks[r]
    <3>1. x # r /\ \A j \in 1..(i - 1) : s[j].id # r
      BY <2>7 DEF x
    <3>2. QED
      BY <2>1, <2>4, <3>1 DEF Storage
  <2>8. Good(i)
    BY <2>5, <2>6, <2>7
  <2> HIDE DEF Good
  <2>9. QED
    BY <1>0, <2>8
<1>4. n \in T
  <2> HIDE DEF T, n
  <2>1. QED
    BY <1>0, <1>2, <1>3, UpTo
<1>5. QED
  BY <1>0, <1>1, <1>4, CommitFold DEF Ids, Stores

-----------------------------------------------------------------------------
(***************************************************************************)
(* Reservations and admission.                                             *)
(***************************************************************************)

\* The assumption on the limits and the workload, in the form the proofs use.
LEMMA Positive ==
  /\ \A L \in Limits : /\ L.active \in Nat \ {0} /\ L.batch \in Nat \ {0} /\ L.batched \in Nat \ {0}
                       /\ L.padded \in Nat \ {0} /\ L.capacity \in Nat \ {0} /\ L.block \in Nat \ {0}
                       /\ L.chunk \in Nat \ {0} /\ L.quota \in Nat \ {0} /\ L.preempt \in Nat
                       /\ L.bytes \in Nat
  /\ \A r \in Requests : Input[r] \in Nat \ {0} /\ Output[r] \in Nat \ {0} /\ Needed(r) \in Nat \ {0}
<1>1. \A r \in Requests : Input[r] \in Nat \ {0} /\ Output[r] \in Nat \ {0}
  BY LiveAssumption
<1>2. \A r \in Requests : Needed(r) \in Nat \ {0}
  BY <1>1 DEF Needed
<1>3. QED
  BY <1>1, <1>2, LiveAssumption

\* The leases, the rows that hold one, and how many rows may.
LeaseSet == [capacity : Nat, valid : Nat]
Leases == [Requests -> LeaseSet \cup {None}]
Holding(l) == {r \in Requests : l[r] # None}
Cap == IF limits.mode = "serial" THEN 1 ELSE limits.active

\* The reservations and the rows that hold one are within the limits.
Room(l) == Reserved(l) <= limits.capacity /\ Held(l) <= Cap

\* What is reserved and held is a number.
LEMMA ReserveNat ==
  ASSUME NEW l \in Leases
  PROVE  /\ Reserved(l) \in Nat /\ Held(l) \in Nat /\ IsFiniteSet(Holding(l))
         /\ \A r \in Holding(l) : Val([kind |-> "capacity", of |-> l], r) = l[r].capacity /\ l[r].capacity \in Nat
<1>1. IsFiniteSet(Holding(l))
  <2>1. Holding(l) \in SUBSET Requests /\ IsFiniteSet(Requests)
    BY LiveAssumption DEF Holding
  <2>2. QED
    BY <2>1, FS_Subset
<1>2. Held(l) \in Nat
  BY <1>1, FS_CardinalityType DEF Held, Holding
<1> DEFINE f == [kind |-> "capacity", of |-> l]
<1>3. ASSUME NEW r \in Holding(l)
      PROVE  Val(f, r) = l[r].capacity /\ l[r].capacity \in Nat
  <2>1. Val(f, r) = l[r].capacity
    BY DEF Val
  <2>2. l[r] \in LeaseSet
    BY DEF Leases, Holding
  <2>3. QED
    BY <2>1, <2>2 DEF LeaseSet
<1>4. Reserved(l) = Total(f, Holding(l))
  BY ReservedSum DEF Holding
<1> HIDE DEF f
<1>5. Total(f, Holding(l)) \in Nat
  <2>1. \A r \in Holding(l) : Val(f, r) \in Nat
    BY <1>3
  <2>2. Holding(l) \in SUBSET Holding(l)
    OBVIOUS
  <2>3. QED
    BY <1>1, <2>1, <2>2, SumPart
<1>6. QED
  BY <1>1, <1>2, <1>3, <1>4, <1>5 DEF f

\* A new lease adds its capacity and one holder.
LEMMA ReserveMore ==
  ASSUME NEW l \in Leases, NEW x \in Requests, l[x] = None, NEW e \in LeaseSet
  PROVE  /\ [l EXCEPT ![x] = e] \in Leases
         /\ Reserved([l EXCEPT ![x] = e]) = Reserved(l) + e.capacity
         /\ Held([l EXCEPT ![x] = e]) = Held(l) + 1
<1> DEFINE z == [l EXCEPT ![x] = e]
           f == [kind |-> "capacity", of |-> l]
           g == [kind |-> "capacity", of |-> z]
           H == Holding(l)
<1>1. e # None
  BY LiveAssumption DEF LeaseSet
<1>2. z \in Leases
  BY DEF Leases
<1>3. \A r \in Requests : z[r] = IF r = x THEN e ELSE l[r]
  BY DEF Leases
<1>4. Holding(z) = H \cup {x} /\ x \notin H
  BY <1>1, <1>3 DEF Holding
<1>5. /\ Reserved(l) \in Nat /\ Held(l) \in Nat /\ IsFiniteSet(H)
      /\ \A r \in H : Val(f, r) = l[r].capacity /\ l[r].capacity \in Nat
  BY ReserveNat
<1> HIDE DEF z
<1>6. /\ IsFiniteSet(Holding(z))
      /\ \A r \in Holding(z) : Val(g, r) = z[r].capacity /\ z[r].capacity \in Nat
  BY <1>2, ReserveNat
<1>7. Reserved(l) = Total(f, H) /\ Reserved(z) = Total(g, Holding(z))
  BY ReservedSum DEF Holding
<1> HIDE DEF f, g, H
<1>8. Held(z) = Held(l) + 1
  <2>1. Cardinality(H \cup {x}) = Cardinality(H) + 1
    BY <1>4, <1>5, FS_AddElement
  <2>2. Held(z) = Cardinality(Holding(z)) /\ Held(l) = Cardinality(H)
    BY DEF Held, Holding, H
  <2>3. QED
    BY <1>4, <2>1, <2>2
<1>9. Total(g, Holding(z)) = e.capacity + Total(f, H)
  <2>1. Holding(z) \ {x} = H /\ x \in Holding(z)
    BY <1>4
  <2>2. \A r \in Holding(z) : Val(g, r) \in Int
    BY <1>6
  <2>3. Total(g, Holding(z)) = Val(g, x) + Total(g, Holding(z) \ {x})
    BY <1>6, <2>1, <2>2, SumRemove
  <2>4. Val(g, x) = e.capacity
    BY <1>3, <1>6, <2>1
  <2>5. \A r \in H : Val(f, r) \in Int /\ Val(f, r) = Val(g, r)
    <3>1. ASSUME NEW r \in H
          PROVE  Val(f, r) \in Int /\ Val(f, r) = Val(g, r)
      <4>1. r # x /\ r \in Requests /\ r \in Holding(z)
        BY <1>4 DEF H, Holding
      <4>2. QED
        BY <1>3, <1>5, <1>6, <4>1
    <3>2. QED
      BY <3>1
  <2>6. Total(f, H) = Total(g, H)
    BY <1>5, <2>5, SumSame
  <2>7. QED
    BY <2>1, <2>3, <2>4, <2>6
<1>10. e.capacity \in Nat
  BY DEF LeaseSet
<1>11. QED
  BY <1>2, <1>5, <1>7, <1>8, <1>9, <1>10 DEF z

\* Leases that are given back, or kept with their capacity, reserve no more.
LEMMA ReserveLess ==
  ASSUME NEW l \in Leases, NEW z \in Leases,
         \A r \in Requests : z[r] # None => l[r] # None /\ z[r].capacity = l[r].capacity
  PROVE  Reserved(z) <= Reserved(l) /\ Held(z) <= Held(l)
<1> DEFINE f == [kind |-> "capacity", of |-> l]
           g == [kind |-> "capacity", of |-> z]
           H == Holding(l)
           K == Holding(z)
<1>1. K \in SUBSET H
  BY DEF Holding
<1>2. /\ Reserved(l) \in Nat /\ Held(l) \in Nat /\ IsFiniteSet(H)
      /\ \A r \in H : Val(f, r) = l[r].capacity /\ l[r].capacity \in Nat
  BY ReserveNat
<1>3. /\ Reserved(z) \in Nat /\ IsFiniteSet(K)
      /\ \A r \in K : Val(g, r) = z[r].capacity /\ z[r].capacity \in Nat
  BY ReserveNat
<1>4. Reserved(l) = Total(f, H) /\ Reserved(z) = Total(g, K)
  BY ReservedSum DEF Holding
<1>5. \A r \in K : Val(f, r) = Val(g, r) /\ Val(f, r) \in Int
  <2>1. ASSUME NEW r \in K
        PROVE  Val(f, r) = Val(g, r) /\ Val(f, r) \in Int
    <3>1. r \in Requests /\ z[r] # None /\ r \in H
      BY <1>1 DEF Holding
    <3> HIDE DEF f, g, H, K
    <3>2. QED
      BY <1>2, <1>3, <3>1
  <2>2. QED
    BY <2>1
<1>6. Held(z) = Cardinality(K) /\ Held(l) = Cardinality(H)
  BY DEF Held, Holding
<1> HIDE DEF f, g, H, K
<1>7. Total(f, K) = Total(g, K)
  BY <1>3, <1>5, SumSame
<1>8. Total(f, K) <= Total(f, H)
  <2>1. \A r \in H : Val(f, r) \in Nat
    BY <1>2
  <2>2. QED
    BY <1>1, <1>2, <2>1, SumPart
<1>9. Cardinality(K) <= Cardinality(H)
  BY <1>1, <1>2, FS_Subset
<1>10. QED
  BY <1>4, <1>6, <1>7, <1>8, <1>9

\* The admission loop gives some of the waiting rows their full reservation,
\* touches no other row, and stays within the capacity and the row limit.
LEMMA Admits ==
  ASSUME limits \in Limits, NEW l \in Leases, Room(l),
         NEW s \in Seq(Requests), Distinct(s), \A i \in DOMAIN s : l[s[i]] = None
  PROVE  /\ AdmitAll(l, s) \in Leases /\ Room(AdmitAll(l, s))
         /\ \A r \in Requests :
               \/ AdmitAll(l, s)[r] = l[r]
               \/ r \in ToSet(s) /\ AdmitAll(l, s)[r] = [capacity |-> Needed(r), valid |-> 0]
<1> DEFINE n == Len(s)
<1>0. n \in Nat /\ DOMAIN s = 1..n /\ \A i \in 1..n : s[i] \in Requests
  OBVIOUS
<1>1. PICK h : /\ h[0] = l /\ h[n] = Fold("admit", Cap, l, s)
               /\ \A i \in 1..n : h[i] = Fold1("admit", Cap, h[i - 1], s[i])
  <2>1. HasTrace("admit", Cap, l, s, n)
    BY <1>0, FoldTrace
  <2>2. QED
    BY <2>1 DEF HasTrace
<1> DEFINE Full(r) == [capacity |-> Needed(r), valid |-> 0]
           Good(i) == /\ h[i] \in Leases /\ Room(h[i])
                      /\ \A r \in Requests : h[i][r] = l[r] \/ (r \in First(s, i) /\ h[i][r] = Full(r))
           T == {i \in 0..n : Good(i)}
<1>2. 0 \in T
  <2>1. Good(0)
    BY <1>1
  <2>2. 0 \in 0..n
    BY <1>0
  <2> HIDE DEF Good, n
  <2>3. QED
    BY <2>1, <2>2
<1>3. ASSUME NEW i \in 1..n, i - 1 \in T
      PROVE  i \in T
  <2> DEFINE c == h[i - 1]
             x == s[i]
  <2>1. Good(i - 1)
    BY <1>3
  <2>2. h[i] = AdmitRow(Cap, c, Held(c), x) /\ x \in Requests
    BY <1>0, <1>1 DEF Fold1
  <2>3. First(s, i) = First(s, i - 1) \cup {x} /\ x \notin First(s, i - 1)
    BY <1>0 DEF First, Distinct
  <2>4. c[x] = None
    BY <1>0, <2>1, <2>2, <2>3
  <2>5. CASE Held(c) < Cap /\ Needed(x) <= limits.capacity - Reserved(c)
    <3> DEFINE e == Full(x)
    <3>1. h[i] = [c EXCEPT ![x] = e]
      BY <2>2, <2>5 DEF AdmitRow
    <3>2. Needed(x) \in Nat /\ limits.capacity \in Nat /\ Cap \in Nat
      BY <2>2, Positive DEF Cap
    <3>3. e \in LeaseSet /\ e.capacity = Needed(x)
      BY <3>2 DEF LeaseSet
    <3>4. c \in Leases /\ Reserved(c) \in Nat /\ Held(c) \in Nat
      BY <2>1, ReserveNat
    <3> HIDE DEF e, c, x
    <3>5. h[i] \in Leases /\ Reserved(h[i]) = Reserved(c) + Needed(x) /\ Held(h[i]) = Held(c) + 1
      BY <2>2, <2>4, <3>1, <3>3, <3>4, ReserveMore
    <3>6. Room(h[i])
      BY <2>5, <3>2, <3>4, <3>5 DEF Room
    <3>7. ASSUME NEW r \in Requests
          PROVE  h[i][r] = l[r] \/ (r \in First(s, i) /\ h[i][r] = Full(r))
      <4>1. CASE r = x
        <5>1. h[i][x] = e
          BY <2>2, <3>1, <3>4 DEF Leases
        <5>2. QED
          BY <2>3, <4>1, <5>1 DEF e
      <4>2. CASE r # x
        <5>1. h[i][r] = c[r]
          BY <3>1, <3>4, <4>2 DEF Leases
        <5>2. c[r] = l[r] \/ (r \in First(s, i - 1) /\ c[r] = Full(r))
          BY <2>1 DEF c
        <5> HIDE DEF Full
        <5>3. QED
          BY <2>3, <5>1, <5>2
      <4>3. QED
        BY <4>1, <4>2
    <3>8. Good(i)
      BY <3>5, <3>6, <3>7
    <3> HIDE DEF Good
    <3>9. QED
      BY <1>0, <3>8
  <2>6. CASE ~(Held(c) < Cap /\ Needed(x) <= limits.capacity - Reserved(c))
    <3>1. h[i] = c
      BY <2>2, <2>6 DEF AdmitRow
    <3>2. Good(i)
      <4> HIDE DEF Full
      <4>1. QED
        BY <2>1, <2>3, <3>1
    <3> HIDE DEF Good
    <3>3. QED
      BY <1>0, <3>2
  <2>7. QED
    BY <2>5, <2>6
<1>4. n \in T
  <2>1. n \in Nat
    BY <1>0
  <2> HIDE DEF T, n
  <2>2. \A i \in 0..n : i \in T
    BY <1>2, <1>3, <2>1, UpTo
  <2>3. QED
    BY <2>1, <2>2
<1>5. First(s, n) = ToSet(s)
  BY <1>0 DEF First, ToSet
<1>6. AdmitAll(l, s) = l \/ AdmitAll(l, s) = h[n]
  BY <1>1, AdmitFold DEF Cap
<1>7. QED
  BY <1>4, <1>5, <1>6

-----------------------------------------------------------------------------
(***************************************************************************)
(* The planner.                                                            *)
(***************************************************************************)

\* The rows of R still have something to compute.
Unfinished(v, R) ==
    \A r \in R : /\ r \in Requests /\ v.history[r] \in Nat /\ v.consumed[r] \in Nat
                 /\ v.consumed[r] < v.history[r]

\* A step takes some tokens of its row from where the row stands, and emits
\* exactly when it reaches the end of the history; without chunks it does.
GoodStep(L, v, s) ==
    /\ s.start = v.consumed[s.id] /\ s.len >= 1
    /\ s.start + s.len <= v.history[s.id]
    /\ s.emit <=> s.start + s.len = v.history[s.id]
    /\ L.chunked \/ s.emit

\* The tokens of a batch.
Lens(s) == Total([kind |-> "len", of |-> s], DOMAIN s)

\* A batch of good steps, at most one of each row of R, within the limits.
Batch(L, v, s, R) ==
    /\ s \in Seq(StepSet) /\ OneEach(s)
    /\ \A i \in DOMAIN s : GoodStep(L, v, s[i]) /\ s[i].id \in R
    /\ Lens(s) <= L.batched /\ Len(s) <= RowLimit(L)

\* What the planner carries from one candidate to the next.
Selections == [selected : Seq(StepSet), budget : Int, available : Int, slots : Int]

\* What allocate keeps true of its selection, between calls and inside its loop.
Selection(L, v, a, R) ==
    /\ a \in Selections /\ Batch(L, v, a.selected, R)
    /\ a.budget >= 0 /\ a.budget + Lens(a.selected) = L.batched

\* The allowance of one call is within what is left.
Within(L, a) ==
    /\ a.available >= 0 /\ a.available <= a.budget
    /\ a.slots >= 0 /\ a.slots + Len(a.selected) <= RowLimit(L)

\* One more step adds its tokens.
LEMMA LensAppend ==
  ASSUME NEW s \in Seq(StepSet), NEW e \in StepSet
  PROVE  Lens(s) \in Nat /\ Lens(Append(s, e)) = Lens(s) + e.len
<1> DEFINE n == Len(s)
           z == Append(s, e)
           f == [kind |-> "len", of |-> s]
           g == [kind |-> "len", of |-> z]
<1>1. n \in Nat /\ DOMAIN s = 1..n /\ \A i \in 1..n : s[i] \in StepSet
  OBVIOUS
<1>2. DOMAIN z = 1..(n + 1) /\ z[n + 1] = e /\ \A i \in 1..n : z[i] = s[i]
  OBVIOUS
<1>3. \A i \in 1..n : Val(f, i) = s[i].len /\ s[i].len \in Nat
  BY <1>1 DEF Val, StepSet
<1>4. \A i \in 1..(n + 1) : Val(g, i) = z[i].len
  BY DEF Val
<1> HIDE DEF z, n
<1>5. e.len \in Nat
  BY DEF StepSet
<1>6. \A i \in 1..(n + 1) : Val(g, i) \in Int
  <2>1. ASSUME NEW i \in 1..(n + 1)
        PROVE  Val(g, i) \in Int
    <3>1. i \in 1..n \/ i = n + 1
      BY <1>1
    <3>2. z[i].len \in Int
      BY <1>2, <1>3, <1>5, <3>1
    <3>3. QED
      BY <1>4, <3>2
  <2>2. QED
    BY <2>1
<1>7. IsFiniteSet(1..n) /\ IsFiniteSet(1..(n + 1))
  <2>1. 1 \in Int /\ n \in Int /\ n + 1 \in Int
    BY <1>1
  <2>2. QED
    BY <2>1, FS_Interval
<1>8. (1..(n + 1)) \ {n + 1} = 1..n /\ n + 1 \in 1..(n + 1)
  BY <1>1
<1>9. Lens(s) = Total(f, 1..n) /\ Lens(z) = Total(g, 1..(n + 1))
  BY <1>1, <1>2 DEF Lens
<1> HIDE DEF f, g
<1>10. Total(g, 1..(n + 1)) = Val(g, n + 1) + Total(g, 1..n)
  <2> DEFINE m == n + 1
  <2>1. /\ IsFiniteSet(1..m) /\ m \in 1..m /\ (1..m) \ {m} = 1..n
        /\ \A i \in 1..m : Val(g, i) \in Int
    BY <1>6, <1>7, <1>8
  <2> HIDE DEF m
  <2>2. Total(g, 1..m) = Val(g, m) + Total(g, (1..m) \ {m})
    BY <2>1, SumRemove
  <2>3. QED
    BY <2>1, <2>2 DEF m
<1>11. Total(f, 1..n) = Total(g, 1..n)
  <2>1. \A i \in 1..n : Val(f, i) \in Int /\ Val(f, i) = Val(g, i)
    <3>1. ASSUME NEW i \in 1..n
          PROVE  Val(f, i) \in Int /\ Val(f, i) = Val(g, i)
      <4>1. i \in 1..(n + 1)
        BY <1>1
      <4>2. QED
        BY <1>2, <1>3, <1>4, <4>1
    <3>2. QED
      BY <3>1
  <2>2. QED
    BY <1>7, <2>1, SumSame
<1>12. Total(f, 1..n) \in Nat
  <2>1. \A i \in 1..n : Val(f, i) \in Nat
    BY <1>3
  <2>2. 1..n \in SUBSET (1..n)
    OBVIOUS
  <2>3. QED
    BY <1>7, <2>1, <2>2, SumPart
<1>13. Val(g, n + 1) = e.len
  BY <1>2, <1>4, <1>8
<1>14. QED
  BY <1>5, <1>9, <1>10, <1>11, <1>12, <1>13 DEF z

\* A prefix of a batch has no more tokens.
LEMMA LensPrefix ==
  ASSUME NEW s \in Seq(StepSet), NEW m \in 0..Len(s)
  PROVE  Lens(SubSeq(s, 1, m)) <= Lens(s)
<1> DEFINE n == Len(s)
           z == SubSeq(s, 1, m)
           f == [kind |-> "len", of |-> s]
           g == [kind |-> "len", of |-> z]
<1>1. n \in Nat /\ DOMAIN s = 1..n /\ \A i \in 1..n : s[i] \in StepSet
  OBVIOUS
<1>2. DOMAIN z = 1..m /\ \A i \in 1..m : z[i] = s[i]
  OBVIOUS
<1>3. \A i \in 1..n : Val(f, i) = s[i].len /\ s[i].len \in Nat
  BY <1>1 DEF Val, StepSet
<1>4. \A i \in 1..m : Val(g, i) = z[i].len
  BY DEF Val
<1> HIDE DEF z
<1>5. IsFiniteSet(1..n) /\ IsFiniteSet(1..m)
  <2> HIDE DEF n
  <2>1. 1 \in Int /\ n \in Int /\ m \in Int
    BY <1>1
  <2>2. QED
    BY <2>1, FS_Interval
<1>6. Lens(s) = Total(f, 1..n) /\ Lens(z) = Total(g, 1..m)
  BY <1>1, <1>2 DEF Lens
<1>7. 1..m \in SUBSET (1..n)
  BY <1>1
<1> HIDE DEF f, g, n
<1>8. Total(f, 1..m) = Total(g, 1..m)
  <2>1. \A i \in 1..m : Val(f, i) \in Int /\ Val(f, i) = Val(g, i)
    <3>1. ASSUME NEW i \in 1..m
          PROVE  Val(f, i) \in Int /\ Val(f, i) = Val(g, i)
      <4>1. i \in 1..n
        BY <1>7
      <4>2. QED
        BY <1>2, <1>3, <1>4, <4>1
    <3>2. QED
      BY <3>1
  <2>2. QED
    BY <1>5, <2>1, SumSame
<1>9. Total(f, 1..m) <= Total(f, 1..n)
  <2>1. \A i \in 1..n : Val(f, i) \in Nat
    BY <1>3
  <2>2. QED
    BY <1>5, <1>7, <2>1, SumPart
<1>10. QED
  BY <1>6, <1>8, <1>9 DEF z

\* The body of allocate's loop.
LEMMA AllocateRowGood ==
  ASSUME NEW L \in Limits, NEW v, NEW R, NEW a, Selection(L, v, a, R), Within(L, a),
         NEW r \in Requests, Unfinished(v, {r}), r \notin R
  PROVE  /\ Selection(L, v, AllocateRow(L, v, a, r), R \cup {r})
         /\ Within(L, AllocateRow(L, v, a, r))
         /\ Len(AllocateRow(L, v, a, r).selected) >= Len(a.selected)
         /\ a.slots > 0 /\ a.available > 0 /\ (L.chunked \/ Remaining(v, r) <= a.available)
               => Len(AllocateRow(L, v, a, r).selected) > 0
<1> DEFINE z == AllocateRow(L, v, a, r)
           s == a.selected
           t == Take(L, v, a, r)
           e == [id |-> r, start |-> v.consumed[r], len |-> t, emit |-> v.consumed[r] + t = v.history[r]]
<1>1. a \in Selections /\ s \in Seq(StepSet) /\ Len(s) \in Nat
  BY DEF Selection, Batch
<1>2. /\ a.budget \in Int /\ a.available \in Int /\ a.slots \in Int
      /\ a = [selected |-> s, budget |-> a.budget, available |-> a.available, slots |-> a.slots]
  BY <1>1 DEF Selections
<1>3. v.history[r] \in Nat /\ v.consumed[r] \in Nat /\ v.consumed[r] < v.history[r]
  BY DEF Unfinished
<1>4. L.chunk \in Nat \ {0}
  BY Positive
<1>5. CASE a.slots <= 0 \/ a.available <= 0 \/ t > a.available
  <2>1. z = a
    BY <1>5 DEF AllocateRow
  <2>2. Selection(L, v, a, R \cup {r})
    BY DEF Selection, Batch
  <2>3. ~(a.slots > 0 /\ a.available > 0 /\ (L.chunked \/ Remaining(v, r) <= a.available))
    BY <1>2, <1>3, <1>4, <1>5 DEF Take, Remaining, Least
  <2>4. QED
    BY <1>1, <2>1, <2>2, <2>3
<1>6. CASE ~(a.slots <= 0 \/ a.available <= 0 \/ t > a.available)
  <2>1. z = [selected |-> Append(s, e), budget |-> a.budget - t,
             available |-> a.available - t, slots |-> a.slots - 1]
    BY <1>6 DEF AllocateRow
  <2>2. /\ t \in Nat /\ t >= 1 /\ t <= v.history[r] - v.consumed[r] /\ t <= a.available /\ a.slots > 0
        /\ L.chunked \/ t = v.history[r] - v.consumed[r]
    BY <1>2, <1>3, <1>4, <1>6 DEF Take, Remaining, Least
  <2> HIDE DEF t
  <2>3. e \in StepSet /\ e.id = r /\ e.len = t /\ GoodStep(L, v, e)
    <3> DEFINE m == v.consumed[r] + t = v.history[r]
               d == v.consumed[r]
    <3>1. m \in BOOLEAN /\ d \in Nat /\ e = [id |-> r, start |-> d, len |-> t, emit |-> m]
      BY <1>3
    <3>2. /\ d = v.consumed[r] /\ (m <=> d + t = v.history[r]) /\ d + t <= v.history[r]
          /\ L.chunked \/ d + t = v.history[r]
      BY <1>3, <2>2
    <3> HIDE DEF m, d, e
    <3>3. e \in StepSet
      BY <2>2, <3>1 DEF StepSet
    <3>4. e.id = r /\ e.start = d /\ e.len = t /\ (e.emit <=> m)
      BY <3>1
    <3>5. GoodStep(L, v, e)
      BY <2>2, <3>2, <3>4 DEF GoodStep
    <3>6. QED
      BY <3>3, <3>4, <3>5
  <2>4. Lens(s) \in Nat /\ Lens(Append(s, e)) = Lens(s) + t
    <3> HIDE DEF e, s
    <3>1. QED
      BY <1>1, <2>3, LensAppend
  <2> DEFINE q == Append(s, e)
  <2>5. q \in Seq(StepSet) /\ Len(q) = Len(s) + 1 /\ q[Len(s) + 1] = e /\ \A i \in 1..Len(s) : q[i] = s[i]
    <3> HIDE DEF e, s
    <3>1. QED
      BY <1>1, <2>3
  <2>6. z.selected = q /\ z.budget = a.budget - t /\ z.available = a.available - t /\ z.slots = a.slots - 1
    BY <2>1
  <2> HIDE DEF e, q, z
  <2>7. \A i \in DOMAIN s : GoodStep(L, v, s[i]) /\ s[i].id \in R
    BY DEF Selection, Batch
  <2>8. \A i \in DOMAIN q : i \in DOMAIN s \/ i = Len(s) + 1
    BY <1>1, <2>5
  <2>9. \A i \in DOMAIN q : GoodStep(L, v, q[i]) /\ q[i].id \in R \cup {r}
    <3>1. ASSUME NEW i \in DOMAIN q
          PROVE  GoodStep(L, v, q[i]) /\ q[i].id \in R \cup {r}
      <4>1. CASE i = Len(s) + 1
        BY <2>3, <2>5, <4>1
      <4>2. CASE i \in DOMAIN s
        BY <1>1, <2>5, <2>7, <4>2
      <4>3. QED
        BY <2>8, <4>1, <4>2
    <3>2. QED
      BY <3>1
  <2>10. OneEach(q)
    <3>1. OneEach(s)
      BY DEF Selection, Batch
    <3>2. ASSUME NEW i \in DOMAIN q, NEW j \in DOMAIN q, q[i].id = q[j].id
          PROVE  i = j
      <4>1. \A m \in DOMAIN s : q[m] = s[m] /\ q[m].id # r
        <5> HIDE DEF s
        <5>1. DOMAIN s = 1..Len(s)
          BY <1>1
        <5>2. \A m \in DOMAIN s : q[m] = s[m]
          BY <2>5, <5>1
        <5>3. \A m \in DOMAIN s : s[m].id # r
          BY <2>7
        <5>4. QED
          BY <5>2, <5>3
      <4>2. q[Len(s) + 1].id = r
        BY <2>3, <2>5
      <4>3. (i \in DOMAIN s \/ i = Len(s) + 1) /\ (j \in DOMAIN s \/ j = Len(s) + 1)
        BY <2>8
      <4>4. QED
        BY <3>1, <3>2, <4>1, <4>2, <4>3 DEF OneEach
    <3>3. QED
      BY <3>2 DEF OneEach
  <2>11. a.budget >= 0 /\ a.budget + Lens(s) = L.batched /\ a.available <= a.budget
         /\ a.slots + Len(s) <= RowLimit(L) /\ a.slots >= 0
    BY DEF Selection, Within
  <2>12. L.batched \in Nat /\ RowLimit(L) \in Nat
    BY Positive DEF RowLimit
  <2>13. Lens(q) = Lens(s) + t
    BY <2>4 DEF q
  <2>14. Batch(L, v, q, R \cup {r})
    <3>1. Lens(q) <= L.batched /\ Len(q) <= RowLimit(L)
      BY <1>1, <1>2, <2>2, <2>4, <2>5, <2>11, <2>12, <2>13
    <3>2. QED
      BY <2>5, <2>9, <2>10, <3>1 DEF Batch
  <2>15. z \in Selections
    <3>1. z = [selected |-> q, budget |-> z.budget, available |-> z.available, slots |-> z.slots]
      BY <2>1 DEF q, z
    <3>2. z.budget \in Int /\ z.available \in Int /\ z.slots \in Int
      BY <1>2, <2>2, <2>6
    <3>3. QED
      BY <2>5, <3>1, <3>2 DEF Selections
  <2>16. Selection(L, v, z, R \cup {r})
    <3>1. z.budget >= 0 /\ z.budget + Lens(q) = L.batched
      BY <1>2, <2>2, <2>4, <2>6, <2>11, <2>12, <2>13
    <3>2. QED
      BY <2>6, <2>14, <2>15, <3>1 DEF Selection
  <2>17. Within(L, z)
    BY <1>1, <1>2, <2>2, <2>5, <2>6, <2>11, <2>12 DEF Within
  <2>18. Len(z.selected) = Len(s) + 1
    BY <2>5, <2>6
  <2>19. QED
    BY <1>1, <2>16, <2>17, <2>18 DEF z
<1>7. QED
  BY <1>5, <1>6

\* A pass of allocate over rows that have no step yet.  It takes the first of
\* them when there is a slot and the tokens it needs.
LEMMA AllocateGood ==
  ASSUME NEW L \in Limits, NEW v, NEW R, NEW a, Selection(L, v, a, R),
         NEW c \in Seq(Requests), Distinct(c), Unfinished(v, ToSet(c)), R \cap ToSet(c) = {},
         NEW available \in Int, NEW slots \in Int,
         available >= 0, available <= a.budget, slots >= 0, slots + Len(a.selected) <= RowLimit(L)
  PROVE  /\ Selection(L, v, Allocate(L, v, a, c, available, slots), R \cup ToSet(c))
         /\ Len(Allocate(L, v, a, c, available, slots).selected) >= Len(a.selected)
         /\ c # <<>> /\ slots > 0 /\ available > 0 /\ (L.chunked \/ Remaining(v, c[1]) <= available)
               => Len(Allocate(L, v, a, c, available, slots).selected) > 0
<1> DEFINE n == Len(c)
           p == [L |-> L, v |-> v]
           b == [a EXCEPT !.available = available, !.slots = slots]
           z == Allocate(L, v, a, c, available, slots)
           Fits == slots > 0 /\ available > 0 /\ (L.chunked \/ Remaining(v, c[1]) <= available)
<1>0. n \in Nat /\ DOMAIN c = 1..n /\ \A i \in 1..n : c[i] \in Requests
  OBVIOUS
<1>1. PICK h : /\ h[0] = b /\ h[n] = Fold("allocate", p, b, c)
               /\ \A i \in 1..n : h[i] = Fold1("allocate", p, h[i - 1], c[i])
  <2>1. HasTrace("allocate", p, b, c, n)
    BY <1>0, FoldTrace
  <2>2. QED
    BY <2>1 DEF HasTrace
<1>2. z = h[n]
  BY <1>1, AllocateFold
<1>3. /\ b \in Selections /\ b.selected = a.selected /\ b.budget = a.budget
      /\ b.available = available /\ b.slots = slots
  <2>1. a \in Selections
    BY DEF Selection
  <2>2. QED
    BY <2>1 DEF Selections
<1> HIDE DEF b
<1> DEFINE Good(i) == /\ Selection(L, v, h[i], R \cup First(c, i)) /\ Within(L, h[i])
                      /\ Len(h[i].selected) >= Len(a.selected)
                      /\ i > 0 /\ Fits => Len(h[i].selected) > 0
           T == {i \in 0..n : Good(i)}
<1>4. Len(a.selected) \in Nat
  BY DEF Selection, Batch
<1>5. 0 \in T
  <2>1. First(c, 0) = {}
    BY DEF First
  <2>2. Selection(L, v, b, R \cup First(c, 0))
    BY <1>3, <2>1 DEF Selection
  <2>3. Within(L, b)
    BY <1>3 DEF Within
  <2>4. Good(0)
    BY <1>1, <1>3, <1>4, <2>2, <2>3
  <2>5. 0 \in 0..n
    BY <1>0
  <2> HIDE DEF Good, n
  <2>6. QED
    BY <2>4, <2>5
<1>6. ASSUME NEW i \in 1..n, i - 1 \in T
      PROVE  i \in T
  <2> DEFINE y == h[i - 1]
             x == c[i]
             Q == R \cup First(c, i - 1)
  <2>1. Good(i - 1)
    BY <1>6
  <2>2. h[i] = AllocateRow(L, v, y, x) /\ x \in Requests
    BY <1>0, <1>1 DEF Fold1
  <2>3. R \cup First(c, i) = Q \cup {x} /\ x \notin Q
    <3>1. First(c, i) = First(c, i - 1) \cup {x}
      BY DEF First
    <3>2. x \notin First(c, i - 1)
      BY <1>0 DEF First, Distinct
    <3>3. x \in ToSet(c)
      BY <1>0 DEF ToSet
    <3>4. QED
      BY <3>1, <3>2, <3>3
  <2>4. Unfinished(v, {x})
    BY <1>0 DEF Unfinished, ToSet
  <2>5. Selection(L, v, y, Q) /\ Within(L, y) /\ Len(y.selected) >= Len(a.selected)
        /\ (i - 1 > 0 /\ Fits => Len(y.selected) > 0)
    BY <2>1
  <2>6. i = 1 => y.slots = slots /\ y.available = available /\ x = c[1]
    BY <1>1, <1>3
  <2>7. Len(y.selected) \in Nat /\ Len(h[i].selected) \in Int
    <3>1. Len(y.selected) \in Nat
      BY <2>5 DEF Selection, Batch
    <3> HIDE DEF y, x, Q
    <3>2. Selection(L, v, h[i], Q \cup {x})
      BY <2>2, <2>3, <2>4, <2>5, AllocateRowGood
    <3>3. QED
      BY <3>1, <3>2 DEF Selection, Batch
  <2> HIDE DEF y, x, Q
  <2>8. /\ Selection(L, v, h[i], Q \cup {x}) /\ Within(L, h[i])
        /\ Len(h[i].selected) >= Len(y.selected)
        /\ y.slots > 0 /\ y.available > 0 /\ (L.chunked \/ Remaining(v, x) <= y.available)
              => Len(h[i].selected) > 0
    <3> DEFINE w == AllocateRow(L, v, y, x)
    <3>1. /\ Selection(L, v, w, Q \cup {x}) /\ Within(L, w)
          /\ Len(w.selected) >= Len(y.selected)
          /\ y.slots > 0 /\ y.available > 0 /\ (L.chunked \/ Remaining(v, x) <= y.available)
                => Len(w.selected) > 0
      BY <2>2, <2>3, <2>4, <2>5, AllocateRowGood
    <3>2. h[i] = w
      BY <2>2
    <3> HIDE DEF w
    <3>3. QED
      BY <3>1, <3>2
  <2>9. Fits => Len(h[i].selected) > 0
    <3>1. CASE i = 1
      BY <2>6, <2>8, <3>1
    <3>2. CASE i # 1
      BY <2>5, <2>7, <2>8, <3>2
    <3>3. QED
      BY <3>1, <3>2
  <2>10. Len(h[i].selected) >= Len(a.selected)
    BY <1>4, <2>5, <2>7, <2>8, SMTT(30)
  <2> HIDE DEF Fits
  <2>11. Good(i)
    BY <2>3, <2>8, <2>9, <2>10
  <2> HIDE DEF Good
  <2>12. QED
    BY <1>0, <2>11
<1>7. n \in T
  <2>1. n \in Nat
    BY <1>0
  <2> HIDE DEF T, n
  <2>2. \A i \in 0..n : i \in T
    BY <1>5, <1>6, <2>1, UpTo
  <2>3. QED
    BY <2>1, <2>2
<1>8. First(c, n) = ToSet(c)
  BY <1>0 DEF First, ToSet
<1>9. Good(n)
  BY <1>7
<1>10. c # <<>> => n > 0
  BY <1>0
<1> HIDE DEF n, z
<1>11. QED
  BY <1>2, <1>8, <1>9, <1>10 DEF z

\* The selection a plan starts from.
LEMMA FreshGood ==
  ASSUME NEW L \in Limits, NEW v
  PROVE  Selection(L, v, Fresh(L), {}) /\ Fresh(L).budget = L.batched /\ Len(Fresh(L).selected) = 0
<1>1. L.batched \in Nat /\ RowLimit(L) \in Nat
  BY Positive DEF RowLimit
<1> DEFINE q == <<>>
<1>2. q \in Seq(StepSet) /\ Len(q) = 0 /\ DOMAIN q = {}
  OBVIOUS
<1>3. Lens(q) = 0
  <2>1. IsFiniteSet({})
    BY FS_EmptySet
  <2> HIDE DEF q
  <2>2. QED
    BY <1>2, <2>1, SumUnfold DEF Lens
<1>4. Fresh(L) = [selected |-> q, budget |-> L.batched, available |-> 0, slots |-> 0]
  BY DEF Fresh
<1> HIDE DEF q
<1>5. Fresh(L) \in Selections
  BY <1>1, <1>2, <1>4 DEF Selections
<1>6. Batch(L, v, q, {})
  BY <1>1, <1>2, <1>3 DEF Batch, OneEach
<1>7. Fresh(L).selected = q /\ Fresh(L).budget = L.batched
  BY <1>4
<1>8. QED
  BY <1>1, <1>2, <1>3, <1>5, <1>6, <1>7 DEF Selection

\* One pass over some rows, with the whole budget.
LEMMA PlainGood ==
  ASSUME NEW L \in Limits, NEW v, NEW c \in Seq(Requests), Distinct(c), Unfinished(v, ToSet(c))
  PROVE  LET z == Allocate(L, v, Fresh(L), c, L.batched, RowLimit(L))
         IN  /\ Selection(L, v, z, ToSet(c))
             /\ c # <<>> /\ (L.chunked \/ Remaining(v, c[1]) <= L.batched) => Len(z.selected) > 0
<1> DEFINE a == Fresh(L)
           z == Allocate(L, v, a, c, L.batched, RowLimit(L))
<1>1. Selection(L, v, a, {}) /\ a.budget = L.batched /\ Len(a.selected) = 0
  BY FreshGood
<1>2. L.batched \in Nat \ {0} /\ RowLimit(L) \in Nat \ {0}
  BY Positive DEF RowLimit
<1> DEFINE m == L.batched
           w == RowLimit(L)
           E == {}
<1>3. /\ m \in Int /\ w \in Int /\ m >= 0 /\ m <= a.budget /\ w >= 0 /\ w + Len(a.selected) <= RowLimit(L)
      /\ w > 0 /\ m > 0 /\ E \cap ToSet(c) = {} /\ E \cup ToSet(c) = ToSet(c) /\ Selection(L, v, a, E)
  BY <1>1, <1>2
<1> HIDE DEF a, m, w, E
<1>4. /\ Selection(L, v, Allocate(L, v, a, c, m, w), E \cup ToSet(c))
      /\ c # <<>> /\ w > 0 /\ m > 0 /\ (L.chunked \/ Remaining(v, c[1]) <= m)
               => Len(Allocate(L, v, a, c, m, w).selected) > 0
  BY <1>3, AllocateGood
<1>5. QED
  BY <1>3, <1>4 DEF m, w, a

\* The three passes of decode_first.  A decode row needs one token, so if the
\* first two passes took nothing the third takes the first decode row.
LEMMA MixedGood ==
  ASSUME NEW L \in Limits, NEW v, RowLimit(L) # 1, L.batched # 1,
         NEW d \in Seq(Requests), Distinct(d), Unfinished(v, ToSet(d)), d # <<>>,
         NEW c \in Seq(Requests), Distinct(c), Unfinished(v, ToSet(c)), c # <<>>,
         ToSet(c) \cap ToSet(d) = {}, \A r \in ToSet(d) : Remaining(v, r) = 1
  PROVE  LET z == DecodeThenPrefill(L, v, d, c)
         IN  Selection(L, v, z, ToSet(c) \cup ToSet(d)) /\ Len(z.selected) > 0
<1> DEFINE limit == RowLimit(L)
           f == Fresh(L)
           m == L.batched - Quota(L, v, c)
           a == Allocate(L, v, f, d, m, limit - 1)
           b == Allocate(L, v, a, c, a.budget, limit - Len(a.selected))
           e == Among(d, ToSet(d) \ Chosen(b))
           z == Allocate(L, v, b, e, b.budget, limit - Len(b.selected))
<1>1. DecodeThenPrefill(L, v, d, c) = z
  BY DEF DecodeThenPrefill
<1>2. Selection(L, v, f, {}) /\ f.budget = L.batched /\ Len(f.selected) = 0
  BY FreshGood
<1>3. L.batched \in Nat \ {0} /\ limit \in Nat \ {0} /\ L.quota \in Nat \ {0} /\ limit > 1 /\ L.batched > 1
  <2>1. L.batched \in Nat \ {0} /\ L.quota \in Nat \ {0} /\ limit \in Nat \ {0}
    BY Positive DEF RowLimit
  <2>2. limit # 1 /\ L.batched # 1
    OBVIOUS
  <2> HIDE DEF limit
  <2>3. QED
    BY <2>1, <2>2
<1>4. m \in Int /\ m >= 0 /\ m <= L.batched
  <2>1. c[1] \in ToSet(c)
    BY DEF ToSet
  <2>2. Remaining(v, c[1]) \in Nat
    BY <2>1 DEF Unfinished, Remaining
  <2>3. QED
    BY <1>3, <2>2, SMTT(30) DEF Quota, Least
<1>5. Selection(L, v, a, {} \cup ToSet(d))
  <2> DEFINE E == {}
             w == limit - 1
  <2>1. /\ Selection(L, v, f, E) /\ E \cap ToSet(d) = {} /\ m <= f.budget
        /\ w \in Int /\ w >= 0 /\ w + Len(f.selected) <= RowLimit(L)
    BY <1>2, <1>3, <1>4
  <2> HIDE DEF E, w, m, f, limit
  <2>2. Selection(L, v, Allocate(L, v, f, d, m, w), E \cup ToSet(d))
    BY <1>4, <2>1, AllocateGood
  <2>3. QED
    BY <2>2 DEF E, w
<1> HIDE DEF m, f
<1>6. /\ a.budget \in Int /\ a.budget >= 0
      /\ Len(a.selected) \in Nat /\ Len(a.selected) <= limit
  BY <1>5 DEF Selection, Selections, Batch
<1>7. Selection(L, v, b, ToSet(d) \cup ToSet(c))
  <2> DEFINE E == ToSet(d)
             w == limit - Len(a.selected)
             u == a.budget
  <2>1. /\ Selection(L, v, a, E) /\ E \cap ToSet(c) = {} /\ u \in Int /\ u >= 0 /\ u <= a.budget
        /\ w \in Int /\ w >= 0 /\ w + Len(a.selected) <= RowLimit(L)
    BY <1>3, <1>5, <1>6, SMTT(30)
  <2> HIDE DEF E, w, u, a, limit
  <2>2. Selection(L, v, Allocate(L, v, a, c, u, w), E \cup ToSet(c))
    BY <2>1, AllocateGood
  <2>3. QED
    BY <2>2 DEF E, w, u
<1> HIDE DEF a
<1>8. /\ b.budget \in Int /\ b.budget >= 0 /\ b.budget + Lens(b.selected) = L.batched
      /\ Len(b.selected) \in Nat /\ Len(b.selected) <= limit /\ b.selected \in Seq(StepSet)
  BY <1>7 DEF Selection, Selections, Batch
<1>9. /\ e \in Seq(Requests) /\ Distinct(e) /\ ToSet(e) = ToSet(d) \ Chosen(b)
  <2> DEFINE S == ToSet(d) \ Chosen(b)
  <2>1. ToSet(d) \cap S = S
    OBVIOUS
  <2> HIDE DEF S, b
  <2>2. Among(d, S) \in Seq(Requests) /\ Distinct(Among(d, S)) /\ ToSet(Among(d, S)) = ToSet(d) \cap S
    BY AmongKeeps
  <2>3. QED
    BY <2>1, <2>2 DEF S
<1>10. Selection(L, v, b, Chosen(b)) /\ Chosen(b) \subseteq ToSet(d) \cup ToSet(c)
  BY <1>7 DEF Selection, Batch, Chosen
<1>11. Unfinished(v, ToSet(e))
  BY <1>9 DEF Unfinished
<1> HIDE DEF b, e
<1>12. /\ Selection(L, v, z, Chosen(b) \cup ToSet(e)) /\ Len(z.selected) >= Len(b.selected)
       /\ e # <<>> /\ limit - Len(b.selected) > 0 /\ b.budget > 0 /\ (L.chunked \/ Remaining(v, e[1]) <= b.budget)
             => Len(z.selected) > 0
  <2> DEFINE E == Chosen(b)
             w == limit - Len(b.selected)
             u == b.budget
  <2>1. /\ Selection(L, v, b, E) /\ E \cap ToSet(e) = {} /\ u \in Int /\ u >= 0 /\ u <= b.budget
        /\ w \in Int /\ w >= 0 /\ w + Len(b.selected) <= RowLimit(L)
    BY <1>3, <1>8, <1>9, <1>10
  <2> HIDE DEF E, w, u, limit
  <2>2. /\ Selection(L, v, Allocate(L, v, b, e, u, w), E \cup ToSet(e))
        /\ Len(Allocate(L, v, b, e, u, w).selected) >= Len(b.selected)
        /\ e # <<>> /\ w > 0 /\ u > 0 /\ (L.chunked \/ Remaining(v, e[1]) <= u)
              => Len(Allocate(L, v, b, e, u, w).selected) > 0
    BY <1>9, <1>11, <2>1, AllocateGood
  <2>3. QED
    BY <2>2 DEF E, w, u
<1>13. Len(z.selected) > 0
  <2>1. CASE Len(b.selected) > 0
    <3>1. Len(z.selected) \in Nat
      BY <1>12 DEF Selection, Batch
    <3> HIDE DEF z
    <3>2. QED
      BY <1>8, <1>12, <2>1, <3>1
  <2>2. CASE Len(b.selected) = 0
    <3>1. DOMAIN b.selected = {}
      BY <1>8, <2>2
    <3>2. Chosen(b) = {}
      BY <3>1 DEF Chosen
    <3>3. Lens(b.selected) = 0
      <4>1. IsFiniteSet({})
        BY FS_EmptySet
      <4>2. QED
        BY <3>1, <4>1, SumUnfold DEF Lens
    <3>4. ToSet(e) = ToSet(d) /\ d[1] \in ToSet(d)
      <4>1. d[1] \in ToSet(d)
        BY DEF ToSet
      <4>2. QED
        BY <1>9, <3>2, <4>1
    <3>5. e # <<>> /\ e[1] \in ToSet(d)
      <4>1. PICK i \in DOMAIN e : e[i] = d[1]
        BY <3>4 DEF ToSet
      <4>2. 1 \in DOMAIN e
        BY <1>9, <4>1
      <4>3. e[1] \in ToSet(e)
        BY <4>2 DEF ToSet
      <4>4. e # <<>>
        BY <4>2
      <4>5. QED
        BY <3>4, <4>3, <4>4
    <3>6. Remaining(v, e[1]) = 1
      BY <3>5
    <3>7. b.budget > 0 /\ Remaining(v, e[1]) <= b.budget /\ limit - Len(b.selected) > 0
      BY <1>3, <1>8, <2>2, <3>3, <3>6
    <3> HIDE DEF z
    <3>8. QED
      BY <1>12, <3>5, <3>7
  <2>3. QED
    BY <1>8, <2>1, <2>2
<1>14. Selection(L, v, z, ToSet(c) \cup ToSet(d))
  <2>1. Chosen(b) \cup ToSet(e) \subseteq ToSet(c) \cup ToSet(d)
    BY <1>9, <1>10
  <2> HIDE DEF z
  <2>2. QED
    BY <1>12, <2>1 DEF Selection, Batch
<1>15. QED
  BY <1>1, <1>13, <1>14

\* Every plan is a batch; and a plan of some rows is not empty, if each row
\* fits the token budget of a forward or may be cut.
LEMMA PlanGood ==
  ASSUME NEW L \in Limits, NEW v, NEW c \in Seq(Requests), Distinct(c), Unfinished(v, ToSet(c)), NEW o
  PROVE  /\ Batch(L, v, Plan(L, v, c, o), ToSet(c))
         /\ c # <<>> /\ (L.chunked \/ \A r \in ToSet(c) : Remaining(v, r) <= L.batched)
               => Plan(L, v, c, o) # <<>>
<1> DEFINE ready == {r \in ToSet(c) : Decoding(v, r)}
           rest == ToSet(c) \ ready
           d == Among(c, ready)
           f == Among(c, rest)
           mixed == L.phase = "decode_first" /\ d # <<>> /\ f # <<>>
           single == RowLimit(L) = 1 \/ L.batched = 1
           plain(x) == Allocate(L, v, Fresh(L), x, L.batched, RowLimit(L))
           Fit == L.chunked \/ \A r \in ToSet(c) : Remaining(v, r) <= L.batched
<1>1. /\ d \in Seq(Requests) /\ Distinct(d) /\ ToSet(d) = ready
      /\ f \in Seq(Requests) /\ Distinct(f) /\ ToSet(f) = rest
  <2>1. ToSet(c) \cap ready = ready /\ ToSet(c) \cap rest = rest
    OBVIOUS
  <2> HIDE DEF ready, rest
  <2>2. Among(c, ready) \in Seq(Requests) /\ Distinct(Among(c, ready)) /\ ToSet(Among(c, ready)) = ToSet(c) \cap ready
    BY AmongKeeps
  <2>3. Among(c, rest) \in Seq(Requests) /\ Distinct(Among(c, rest)) /\ ToSet(Among(c, rest)) = ToSet(c) \cap rest
    BY AmongKeeps
  <2>4. QED
    BY <2>1, <2>2, <2>3
<1>2. Unfinished(v, ready) /\ Unfinished(v, rest) /\ \A r \in ready : Remaining(v, r) = 1
  BY DEF Unfinished, Decoding
<1>3. Plan(L, v, c, o) = CASE mixed /\ ~single -> DecodeThenPrefill(L, v, d, f).selected
                           [] mixed /\ single  -> plain(IF o THEN f ELSE d).selected
                           [] OTHER            -> plain(c).selected
  BY DEF Plan
<1> HIDE DEF d, f
<1>4. ASSUME NEW x \in Seq(Requests), Distinct(x), ToSet(x) \subseteq ToSet(c)
      PROVE  /\ Batch(L, v, plain(x).selected, ToSet(c))
             /\ x # <<>> /\ Fit => plain(x).selected # <<>>
  <2>1. Unfinished(v, ToSet(x))
    BY <1>4 DEF Unfinished
  <2>2. /\ Selection(L, v, plain(x), ToSet(x))
        /\ x # <<>> /\ (L.chunked \/ Remaining(v, x[1]) <= L.batched) => Len(plain(x).selected) > 0
    BY <1>4, <2>1, PlainGood
  <2>3. x # <<>> => x[1] \in ToSet(c)
    <3>1. x # <<>> => x[1] \in ToSet(x)
      BY DEF ToSet
    <3>2. QED
      BY <1>4, <3>1
  <2>4. x # <<>> /\ Fit => L.chunked \/ Remaining(v, x[1]) <= L.batched
    BY <2>3
  <2>5. Batch(L, v, plain(x).selected, ToSet(c))
    BY <1>4, <2>2 DEF Selection, Batch
  <2> HIDE DEF plain, Fit
  <2>6. QED
    BY <2>2, <2>4, <2>5
<1>5. CASE mixed /\ ~single
  <2> DEFINE z == DecodeThenPrefill(L, v, d, f)
  <2>1. Selection(L, v, z, ToSet(f) \cup ToSet(d)) /\ Len(z.selected) > 0
    <3>1. /\ RowLimit(L) # 1 /\ L.batched # 1 /\ d # <<>> /\ f # <<>> /\ ToSet(f) \cap ToSet(d) = {}
          /\ Unfinished(v, ToSet(d)) /\ Unfinished(v, ToSet(f)) /\ \A r \in ToSet(d) : Remaining(v, r) = 1
      BY <1>1, <1>2, <1>5
    <3> HIDE DEF ready, rest, mixed, single
    <3>2. QED
      BY <1>1, <3>1, MixedGood
  <2>2. ToSet(f) \cup ToSet(d) = ToSet(c)
    BY <1>1
  <2>3. Plan(L, v, c, o) = z.selected
    BY <1>3, <1>5
  <2> HIDE DEF z
  <2>4. Batch(L, v, z.selected, ToSet(c))
    BY <2>1, <2>2 DEF Selection
  <2>5. z.selected # <<>>
    BY <2>1
  <2>6. QED
    BY <2>3, <2>4, <2>5
<1>6. CASE mixed /\ single
  <2> DEFINE x == IF o THEN f ELSE d
  <2>1. x \in Seq(Requests) /\ Distinct(x) /\ ToSet(x) \subseteq ToSet(c) /\ x # <<>>
    BY <1>1, <1>6
  <2>2. Plan(L, v, c, o) = plain(x).selected
    BY <1>3, <1>6
  <2> HIDE DEF x, plain
  <2>3. QED
    BY <1>4, <2>1, <2>2
<1>7. CASE ~mixed
  <2>1. Plan(L, v, c, o) = plain(c).selected
    BY <1>3, <1>7
  <2> HIDE DEF plain
  <2>2. QED
    BY <1>4, <2>1
<1>8. QED
  BY <1>5, <1>6, <1>7

\* Finitely many numbers have a greatest one.
LEMMA Greatest ==
  ASSUME NEW n \in Nat \ {0}, NEW g, \A i \in 1..n : g[i] \in Nat
  PROVE  \E m \in 1..n : \A i \in 1..n : g[i] <= g[m]
<1> DEFINE T == {k \in 0..n : k = 0 \/ \E m \in 1..k : \A i \in 1..k : g[i] <= g[m]}
<1>1. 0 \in T
  OBVIOUS
<1>2. ASSUME NEW k \in 1..n, k - 1 \in T
      PROVE  k \in T
  <2>1. CASE k = 1
    <3>1. 1 \in 1..1 /\ \A i \in 1..1 : g[i] <= g[1]
      OBVIOUS
    <3>2. QED
      BY <2>1, <3>1
  <2>2. CASE k # 1
    <3>1. PICK m \in 1..(k - 1) : \A i \in 1..(k - 1) : g[i] <= g[m]
      BY <1>2, <2>2
    <3>2. g[m] \in Nat /\ g[k] \in Nat
      OBVIOUS
    <3>3. CASE g[k] <= g[m]
      <4>1. m \in 1..k /\ \A i \in 1..k : g[i] <= g[m]
        BY <3>1, <3>3
      <4>2. QED
        BY <4>1
    <3>4. CASE ~(g[k] <= g[m])
      <4>1. \A i \in 1..k : g[i] <= g[k]
        <5>1. ASSUME NEW i \in 1..k
              PROVE  g[i] <= g[k]
          <6>1. g[i] \in Nat /\ (i # k => g[i] <= g[m])
            BY <3>1
          <6>2. QED
            BY <3>2, <3>4, <6>1
        <5>2. QED
          BY <5>1
      <4>2. QED
        BY <4>1
    <3>5. QED
      BY <3>3, <3>4
  <2>3. QED
    BY <2>1, <2>2
<1>3. n \in T
  <2> HIDE DEF T
  <2>1. QED
    BY <1>1, <1>2, UpTo
<1>4. QED
  BY <1>3

\* The longest past and the longest new part of a batch.
LEMMA PaddedIs ==
  ASSUME NEW s \in Seq(StepSet), s # <<>>
  PROVE  \E a, b \in DOMAIN s : /\ Padded(s) = Len(s) * (s[a].start + s[b].len)
                                /\ \A i \in DOMAIN s : s[i].start <= s[a].start /\ s[i].len <= s[b].len
<1> DEFINE n == Len(s)
<1>1. n \in Nat \ {0} /\ DOMAIN s = 1..n /\ \A i \in 1..n : s[i] \in StepSet
  OBVIOUS
<1>2. \A i \in 1..n : s[i].start \in Nat /\ s[i].len \in Nat
  BY <1>1 DEF StepSet
<1>3. PICK a \in 1..n : \A i \in 1..n : s[i].start <= s[a].start
  <2> DEFINE g == [i \in 1..n |-> s[i].start]
  <2>1. \A i \in 1..n : g[i] = s[i].start /\ g[i] \in Nat
    BY <1>2
  <2> HIDE DEF g, n
  <2>2. \E m \in 1..n : \A i \in 1..n : g[i] <= g[m]
    BY <1>1, <2>1, Greatest
  <2>3. QED
    BY <2>1, <2>2
<1>4. PICK b \in 1..n : \A i \in 1..n : s[i].len <= s[b].len
  <2> DEFINE g == [i \in 1..n |-> s[i].len]
  <2>1. \A i \in 1..n : g[i] = s[i].len /\ g[i] \in Nat
    BY <1>2
  <2> HIDE DEF g, n
  <2>2. \E m \in 1..n : \A i \in 1..n : g[i] <= g[m]
    BY <1>1, <2>1, Greatest
  <2>3. QED
    BY <2>1, <2>2
<1> DEFINE A == CHOOSE m \in {s[i].start : i \in DOMAIN s} : \A i \in DOMAIN s : s[i].start <= m
           B == CHOOSE m \in {s[i].len : i \in DOMAIN s} : \A i \in DOMAIN s : s[i].len <= m
<1>5. Padded(s) = Len(s) * (A + B)
  BY DEF Padded
<1>6. A \in {s[i].start : i \in DOMAIN s} /\ \A i \in DOMAIN s : s[i].start <= A
  <2>1. \E m \in {s[i].start : i \in DOMAIN s} : \A i \in DOMAIN s : s[i].start <= m
    BY <1>1, <1>3
  <2>2. QED
    BY <2>1, Zenon
<1>7. B \in {s[i].len : i \in DOMAIN s} /\ \A i \in DOMAIN s : s[i].len <= B
  <2>1. \E m \in {s[i].len : i \in DOMAIN s} : \A i \in DOMAIN s : s[i].len <= m
    BY <1>1, <1>4
  <2>2. QED
    BY <2>1, Zenon
<1> HIDE DEF A, B
<1>8. A = s[a].start
  <2>1. PICK i \in 1..n : A = s[i].start
    BY <1>1, <1>6
  <2>2. A \in Nat /\ s[a].start \in Nat /\ s[a].start <= A /\ A <= s[a].start
    BY <1>1, <1>2, <1>3, <1>6, <2>1
  <2>3. QED
    BY <2>2
<1>9. B = s[b].len
  <2>1. PICK i \in 1..n : B = s[i].len
    BY <1>1, <1>7
  <2>2. B \in Nat /\ s[b].len \in Nat /\ s[b].len <= B /\ B <= s[b].len
    BY <1>1, <1>2, <1>4, <1>7, <2>1
  <2>3. QED
    BY <2>2
<1>10. QED
  BY <1>1, <1>3, <1>4, <1>5, <1>8, <1>9

\* Products of naturals are monotone.
LEMMA Products ==
  ASSUME NEW a \in Nat, NEW b \in Nat, NEW c \in Nat, NEW d \in Nat, a <= b, c <= d
  PROVE  a * c <= b * d /\ a * c \in Nat
<1>1. a * c <= a * d
  BY SMTT(30)
<1>2. a * d <= b * d
  BY SMTT(30)
<1>3. a * c \in Nat /\ a * d \in Nat /\ b * d \in Nat
  OBVIOUS
<1>4. QED
  BY <1>1, <1>2, <1>3

\* The rectangle of a batch is a number.
LEMMA PaddedNat ==
  ASSUME NEW s \in Seq(StepSet), s # <<>>
  PROVE  Padded(s) \in Nat
<1>1. PICK a, b \in DOMAIN s : Padded(s) = Len(s) * (s[a].start + s[b].len)
  BY PaddedIs
<1>2. s[a].start \in Nat /\ s[b].len \in Nat /\ Len(s) \in Nat
  <2>1. s[a] \in StepSet /\ s[b] \in StepSet /\ Len(s) \in Nat
    OBVIOUS
  <2>2. QED
    BY <2>1 DEF StepSet
<1> DEFINE n == Len(s)
           m == s[a].start + s[b].len
<1>3. n \in Nat /\ m \in Nat /\ Padded(s) = n * m
  BY <1>1, <1>2
<1> HIDE DEF n, m
<1>4. n * m \in Nat
  BY <1>3, Products
<1>5. QED
  BY <1>3, <1>4

\* A prefix of a batch needs no larger rectangle.
LEMMA PaddedPrefix ==
  ASSUME NEW s \in Seq(StepSet), NEW n \in 1..Len(s)
  PROVE  Padded(SubSeq(s, 1, n)) <= Padded(s)
<1> DEFINE z == SubSeq(s, 1, n)
<1>1. z \in Seq(StepSet) /\ z # <<>> /\ Len(z) = n /\ DOMAIN z = 1..n /\ \A i \in 1..n : z[i] = s[i]
  OBVIOUS
<1>2. s # <<>> /\ DOMAIN s = 1..Len(s) /\ Len(s) \in Nat
  OBVIOUS
<1> HIDE DEF z
<1>3. PICK a \in DOMAIN s, b \in DOMAIN s :
         /\ Padded(s) = Len(s) * (s[a].start + s[b].len)
         /\ \A i \in DOMAIN s : s[i].start <= s[a].start /\ s[i].len <= s[b].len
  BY <1>2, PaddedIs
<1>4. PICK c \in DOMAIN z, d \in DOMAIN z :
         /\ Padded(z) = Len(z) * (z[c].start + z[d].len)
         /\ \A i \in DOMAIN z : z[i].start <= z[c].start /\ z[i].len <= z[d].len
  BY <1>1, PaddedIs
<1>5. /\ s[a].start \in Nat /\ s[b].len \in Nat /\ z[c].start \in Nat /\ z[d].len \in Nat
      /\ z[c].start <= s[a].start /\ z[d].len <= s[b].len
  <2>1. c \in DOMAIN s /\ d \in DOMAIN s /\ z[c] = s[c] /\ z[d] = s[d]
    BY <1>1, <1>2
  <2>2. \A i \in DOMAIN s : s[i] \in StepSet
    OBVIOUS
  <2>3. QED
    BY <1>3, <2>1, <2>2 DEF StepSet
<1> DEFINE x == z[c].start + z[d].len
           y == s[a].start + s[b].len
           m == Len(s)
<1>6. x \in Nat /\ y \in Nat /\ x <= y /\ n \in Nat /\ m \in Nat /\ n <= m
  BY <1>2, <1>5, SMTT(30)
<1> HIDE DEF x, y, m
<1>7. n * x <= m * y
  BY <1>6, Products
<1>8. QED
  BY <1>1, <1>3, <1>4, <1>7 DEF x, y, m, z

\* The engine trims a plan to a prefix whose rectangle fits, provided that the
\* first row alone fits.
LEMMA TrimmedGood ==
  ASSUME NEW L \in Limits, NEW s \in Seq(StepSet), s # <<>>, s[1].start + s[1].len <= L.padded
  PROVE  \E n \in 1..Len(s) : Trimmed(L, s) = SubSeq(s, 1, n) /\ Padded(SubSeq(s, 1, n)) <= L.padded
<1> DEFINE fits == {n \in 1..Len(s) : n = 1 \/ Padded(SubSeq(s, 1, n)) <= L.padded}
           most == CHOOSE n \in fits : \A m \in fits : m <= n
<1>1. Trimmed(L, s) = SubSeq(s, 1, most)
  BY DEF Trimmed
<1>2. most \in fits
  <2>1. fits \in SUBSET (0..Len(s)) /\ fits # {} /\ Len(s) \in Nat
    <3>1. 1 \in fits
      OBVIOUS
    <3>2. QED
      BY <3>1
  <2> HIDE DEF fits
  <2>2. \E x \in fits : \A y \in fits : y <= x
    <3> DEFINE k == Len(s)
    <3>1. fits \in SUBSET (0..k) /\ fits # {} /\ k \in Nat
      BY <2>1
    <3> HIDE DEF k
    <3>2. QED
      BY <3>1, GreatestNumber
  <2>3. QED
    BY <2>2, Zenon
<1>3. Padded(SubSeq(s, 1, 1)) <= L.padded
  <2> DEFINE z == SubSeq(s, 1, 1)
  <2>1. z \in Seq(StepSet) /\ z # <<>> /\ Len(z) = 1 /\ DOMAIN z = {1} /\ z[1] = s[1]
    OBVIOUS
  <2>2. s[1] \in StepSet
    OBVIOUS
  <2> HIDE DEF z
  <2>3. PICK a \in DOMAIN z, b \in DOMAIN z : Padded(z) = Len(z) * (z[a].start + z[b].len)
    BY <2>1, PaddedIs
  <2>4. a = 1 /\ b = 1
    BY <2>1
  <2>5. s[1].start \in Nat /\ s[1].len \in Nat
    BY <2>2 DEF StepSet
  <2>6. Padded(z) = s[1].start + s[1].len
    BY <2>1, <2>3, <2>4, <2>5
  <2>7. QED
    BY <2>6 DEF z
<1>4. most \in 1..Len(s) /\ Padded(SubSeq(s, 1, most)) <= L.padded
  <2>1. most \in 1..Len(s) /\ (most = 1 \/ Padded(SubSeq(s, 1, most)) <= L.padded)
    BY <1>2
  <2> HIDE DEF most
  <2>2. QED
    BY <1>3, <2>1
<1> HIDE DEF most
<1>5. QED
  BY <1>1, <1>4

\* A prefix of a batch is a batch.
LEMMA BatchPrefix ==
  ASSUME NEW L \in Limits, NEW v, NEW s, NEW R, Batch(L, v, s, R), NEW n \in 0..Len(s)
  PROVE  Batch(L, v, SubSeq(s, 1, n), R)
<1> DEFINE z == SubSeq(s, 1, n)
<1>1. s \in Seq(StepSet) /\ DOMAIN s = 1..Len(s) /\ Len(s) \in Nat
  BY DEF Batch
<1>2. z \in Seq(StepSet) /\ Len(z) = n /\ DOMAIN z = 1..n /\ \A i \in 1..n : z[i] = s[i] /\ i \in DOMAIN s
  BY <1>1
<1>3. Lens(z) <= Lens(s)
  BY <1>1, LensPrefix
<1>4. Lens(z) \in Nat /\ Lens(s) \in Nat
  <2>1. ASSUME NEW q \in Seq(StepSet)
        PROVE  Lens(q) \in Nat
    <3>1. CASE q = <<>>
      <4>1. DOMAIN q = {} /\ IsFiniteSet({})
        BY <3>1, FS_EmptySet
      <4>2. Lens(q) = 0
        BY <4>1, SumUnfold DEF Lens
      <4>3. QED
        BY <4>2
    <3>2. CASE q # <<>>
      <4>1. q[1] \in StepSet
        BY <3>2
      <4>2. QED
        BY <4>1, LensAppend
    <3>3. QED
      BY <3>1, <3>2
  <2> HIDE DEF z
  <2>2. QED
    BY <1>1, <1>2, <2>1
<1>5. L.batched \in Nat /\ RowLimit(L) \in Nat
  BY Positive DEF RowLimit
<1> HIDE DEF z
<1>6. Lens(z) <= L.batched /\ Len(z) <= RowLimit(L)
  BY <1>1, <1>2, <1>3, <1>4, <1>5 DEF Batch
<1>7. QED
  BY <1>2, <1>6 DEF Batch, OneEach, z

-----------------------------------------------------------------------------
(***************************************************************************)
(* The pool: blocks are in one place, and none is lost.                    *)
(***************************************************************************)

\* Division rounded up.
LEMMA Ceil ==
  ASSUME NEW m \in Nat, NEW d \in Nat \ {0}
  PROVE  /\ CeilDiv(m, d) \in Nat
         /\ m <= d * CeilDiv(m, d) /\ d * CeilDiv(m, d) <= m + d - 1
<1> DEFINE e == m + d - 1
<1>1. e \in Nat
  OBVIOUS
<1> HIDE DEF e
<1>2. e \div d \in Nat /\ d * (e \div d) <= e /\ e <= d * (e \div d) + d - 1
  BY <1>1
<1>3. CeilDiv(m, d) = e \div d
  BY DEF CeilDiv, e
<1> DEFINE c == CeilDiv(m, d)
           p == d * c
<1>4. c \in Nat /\ p \in Int /\ p <= e /\ e <= p + d - 1
  BY <1>2, <1>3
<1> HIDE DEF p, c
<1>5. m <= p /\ p <= m + d - 1
  BY <1>4 DEF e
<1>6. QED
  BY <1>4, <1>5 DEF c, p

\* It is monotone, and nothing needs nothing.
LEMMA CeilMonotone ==
  ASSUME NEW m \in Nat, NEW n \in Nat, NEW d \in Nat \ {0}, m <= n
  PROVE  CeilDiv(m, d) <= CeilDiv(n, d) /\ CeilDiv(0, d) = 0
<1> DEFINE x == CeilDiv(m, d)
           y == CeilDiv(n, d)
           z == CeilDiv(0, d)
<1>1. x \in Nat /\ d * x <= m + d - 1
  BY Ceil
<1>2. y \in Nat /\ n <= d * y
  BY Ceil
<1>3. z \in Nat /\ d * z <= 0 + d - 1
  BY Ceil
<1> HIDE DEF x, y, z
<1>4. d * x <= d * y + d - 1
  <2>1. d * x \in Int /\ d * y \in Int
    BY <1>1, <1>2
  <2>2. QED
    BY <1>1, <1>2, <2>1
<1>5. x <= y
  BY <1>1, <1>2, <1>4
<1>6. z = 0
  BY <1>3
<1>7. QED
  BY <1>5, <1>6 DEF x, y, z

\* Changing one summand.
LEMMA SumUpdate ==
  ASSUME NEW S, IsFiniteSet(S), NEW f, NEW h, NEW x \in S,
         \A y \in S : Val(f, y) \in Int /\ Val(h, y) \in Int, \A y \in S \ {x} : Val(f, y) = Val(h, y)
  PROVE  Total(h, S) = Total(f, S) - Val(f, x) + Val(h, x)
<1>1. IsFiniteSet(S \ {x})
  BY FS_Subset
<1>2. Total(f, S) = Val(f, x) + Total(f, S \ {x})
  BY SumRemove
<1>3. Total(h, S) = Val(h, x) + Total(h, S \ {x})
  BY SumRemove
<1>4. Total(f, S \ {x}) = Total(h, S \ {x})
  BY <1>1, SumSame
<1>5. Total(f, S \ {x}) \in Int
  BY <1>1, SumInt
<1>6. Val(f, x) \in Int /\ Val(h, x) \in Int
  OBVIOUS
<1>7. QED
  BY <1>2, <1>3, <1>4, <1>5, <1>6

\* The blocks that requests hold.
BlocksHeld(b) == Total([kind |-> "values", of |-> [r \in Requests |-> Len(b[r])]], Requests)

\* Every block is in one place.
Private(f, b) ==
    /\ f \in Seq(Int) /\ Distinct(f)
    /\ \A r \in Requests : /\ b[r] \in Seq(Int) /\ Distinct(b[r])
                           /\ ToSet(b[r]) \cap ToSet(f) = {}
                           /\ \A q \in Requests \ {r} : ToSet(b[r]) \cap ToSet(b[q]) = {}

\* The storage of a session with limits L.
Pool(L, k) ==
    /\ Storage(k)
    /\ L.layout # "dense" =>
         /\ Private(k.free, k.blocks)
         /\ ToSet(k.free) \cup UNION {ToSet(k.blocks[r]) : r \in Requests} = 1..PoolBlocks(L)
         /\ \A r \in Requests : Len(k.blocks[r]) = CeilDiv(k.valid[r], L.block)
         /\ Len(k.free) + BlocksHeld(k.blocks) = PoolBlocks(L)

\* The same blocks, still in one place each.
Moved(f, b, g, z) ==
    /\ Private(g, z)
    /\ ToSet(g) \cup UNION {ToSet(z[r]) : r \in Requests} = ToSet(f) \cup UNION {ToSet(b[r]) : r \in Requests}
    /\ Len(g) + BlocksHeld(z) = Len(f) + BlocksHeld(b)

\* Blocks that move between the free list and one request: nothing is lost or
\* doubled when the two together hold what they held.
LEMMA Moves ==
  ASSUME NEW f, NEW b, Private(f, b), b = [r \in Requests |-> b[r]], NEW x \in Requests,
         NEW g \in Seq(Int), NEW c \in Seq(Int), Distinct(g), Distinct(c), ToSet(g) \cap ToSet(c) = {},
         ToSet(g) \cup ToSet(c) = ToSet(f) \cup ToSet(b[x]), Len(g) + Len(c) = Len(f) + Len(b[x])
  PROVE  Moved(f, b, g, [b EXCEPT ![x] = c])
<1> DEFINE z == [b EXCEPT ![x] = c]
<1>1. \A r \in Requests : z[r] = IF r = x THEN c ELSE b[r]
  OBVIOUS
<1> HIDE DEF z
<1>2. \A r \in Requests \ {x} : ToSet(b[r]) \cap ToSet(f) = {} /\ ToSet(b[r]) \cap ToSet(b[x]) = {}
  BY DEF Private
<1>3. \A r \in Requests \ {x} : ToSet(b[r]) \cap ToSet(g) = {} /\ ToSet(b[r]) \cap ToSet(c) = {}
  <2>1. ToSet(g) \subseteq ToSet(f) \cup ToSet(b[x]) /\ ToSet(c) \subseteq ToSet(f) \cup ToSet(b[x])
    OBVIOUS
  <2>2. QED
    BY <1>2, <2>1
<1>4. Private(g, z)
  <2>1. ASSUME NEW r \in Requests
        PROVE  /\ z[r] \in Seq(Int) /\ Distinct(z[r]) /\ ToSet(z[r]) \cap ToSet(g) = {}
               /\ \A q \in Requests \ {r} : ToSet(z[r]) \cap ToSet(z[q]) = {}
    <3>1. CASE r = x
      <4>1. z[r] = c /\ \A q \in Requests \ {r} : z[q] = b[q]
        BY <1>1, <3>1
      <4>2. QED
        BY <1>3, <3>1, <4>1
    <3>2. CASE r # x
      <4>1. z[r] = b[r] /\ \A q \in Requests \ {r} : z[q] = IF q = x THEN c ELSE b[q]
        BY <1>1, <3>2
      <4>2. /\ b[r] \in Seq(Int) /\ Distinct(b[r])
            /\ \A q \in Requests \ {r} : ToSet(b[r]) \cap ToSet(b[q]) = {}
        BY DEF Private
      <4>3. QED
        BY <1>3, <3>2, <4>1, <4>2
    <3>3. QED
      BY <3>1, <3>2
  <2>2. QED
    BY <2>1 DEF Private
<1>5. UNION {ToSet(z[r]) : r \in Requests} = ToSet(c) \cup UNION {ToSet(b[r]) : r \in Requests \ {x}}
  BY <1>1
<1>6. UNION {ToSet(b[r]) : r \in Requests} = ToSet(b[x]) \cup UNION {ToSet(b[r]) : r \in Requests \ {x}}
  OBVIOUS
<1>7. ToSet(g) \cup UNION {ToSet(z[r]) : r \in Requests} = ToSet(f) \cup UNION {ToSet(b[r]) : r \in Requests}
  <2> DEFINE U == UNION {ToSet(b[r]) : r \in Requests \ {x}}
             V == UNION {ToSet(b[r]) : r \in Requests}
             W == UNION {ToSet(z[r]) : r \in Requests}
  <2>1. W = ToSet(c) \cup U /\ V = ToSet(b[x]) \cup U
    BY <1>5, <1>6
  <2> HIDE DEF U, V, W
  <2>2. ToSet(g) \cup W = ToSet(f) \cup V
    BY <2>1
  <2>3. QED
    BY <2>2 DEF V, W
<1> DEFINE u == [kind |-> "values", of |-> [r \in Requests |-> Len(b[r])]]
           w == [kind |-> "values", of |-> [r \in Requests |-> Len(z[r])]]
<1>8. \A r \in Requests : Val(u, r) = Len(b[r]) /\ Val(w, r) = Len(z[r])
  BY DEF Val
<1>9. BlocksHeld(b) = Total(u, Requests) /\ BlocksHeld(z) = Total(w, Requests)
  BY DEF BlocksHeld
<1> HIDE DEF u, w
<1>10. \A r \in Requests : Val(u, r) \in Int /\ Val(w, r) \in Int
  <2>1. \A r \in Requests : b[r] \in Seq(Int) /\ z[r] \in Seq(Int)
    BY <1>4 DEF Private
  <2>2. \A r \in Requests : Len(b[r]) \in Int /\ Len(z[r]) \in Int
    BY <2>1
  <2>3. QED
    BY <1>8, <2>2
<1>11. \A r \in Requests \ {x} : Val(u, r) = Val(w, r)
  BY <1>1, <1>8
<1>12. IsFiniteSet(Requests)
  BY LiveAssumption
<1>13. Total(w, Requests) = Total(u, Requests) - Val(u, x) + Val(w, x)
  BY <1>10, <1>11, <1>12, SumUpdate
<1>14. Total(u, Requests) \in Int
  BY <1>10, <1>12, SumInt
<1>15. Val(u, x) = Len(b[x]) /\ Val(w, x) = Len(c)
  BY <1>1, <1>8
<1>16. Len(f) \in Int /\ Len(g) \in Int /\ Len(c) \in Int /\ Len(b[x]) \in Int
  BY DEF Private
<1>17. Len(g) + BlocksHeld(z) = Len(f) + BlocksHeld(b) 
  <2> DEFINE t == Total(u, Requests)
             p == Len(b[x])
             q == Len(c)
             m == Len(f)
             n == Len(g)
             o == BlocksHeld(z)
  <2>1. o = t - p + q /\ t \in Int /\ p \in Int /\ q \in Int /\ m \in Int /\ n \in Int /\ n + q = m + p
    BY <1>9, <1>13, <1>14, <1>15, <1>16
  <2> HIDE DEF t, p, q, m, n, o
  <2>2. n + o = m + t
    BY <2>1, SMTT(30)
  <2>3. QED
    BY <1>9, <1>14, <2>2 DEF t, m, n, o
<1>18. QED
  BY <1>4, <1>7, <1>17 DEF Moved, z

\* Two lists with nothing in common, one after the other.
LEMMA Joined ==
  ASSUME NEW a \in Seq(Int), NEW b \in Seq(Int), Distinct(a), Distinct(b), ToSet(a) \cap ToSet(b) = {}
  PROVE  /\ a \o b \in Seq(Int) /\ Distinct(a \o b) /\ Len(a \o b) = Len(a) + Len(b)
         /\ ToSet(a \o b) = ToSet(a) \cup ToSet(b)
<1> DEFINE c == a \o b
           m == Len(a)
           n == Len(b)
<1>1. /\ c \in Seq(Int) /\ Len(c) = m + n /\ DOMAIN c = 1..(m + n) /\ m \in Nat /\ n \in Nat
      /\ DOMAIN a = 1..m /\ DOMAIN b = 1..n
      /\ \A i \in 1..(m + n) : c[i] = IF i <= m THEN a[i] ELSE b[i - m]
  BY ConcatProperties
<1> HIDE DEF c, m, n
<1>2. \A i \in 1..(m + n) : IF i <= m THEN i \in DOMAIN a /\ c[i] = a[i] ELSE i - m \in DOMAIN b /\ c[i] = b[i - m]
  BY <1>1
<1>3. ToSet(c) = ToSet(a) \cup ToSet(b)
  <2>1. \A x \in ToSet(c) : x \in ToSet(a) \cup ToSet(b)
    BY <1>1, <1>2 DEF ToSet
  <2>2. ASSUME NEW i \in DOMAIN a
        PROVE  a[i] \in ToSet(c)
    <3>1. i \in 1..(m + n) /\ c[i] = a[i]
      BY <1>1
    <3>2. QED
      BY <1>1, <3>1 DEF ToSet
  <2>3. ASSUME NEW i \in DOMAIN b
        PROVE  b[i] \in ToSet(c)
    <3>1. m + i \in 1..(m + n) /\ c[m + i] = b[i]
      BY <1>1, SMTT(30)
    <3>2. QED
      BY <1>1, <3>1 DEF ToSet
  <2>4. QED
    BY <2>1, <2>2, <2>3 DEF ToSet
<1>4. Distinct(c)
  <2>1. ASSUME NEW i \in 1..(m + n), NEW j \in 1..(m + n), c[i] = c[j]
        PROVE  i = j
    <3>1. CASE i <= m /\ j <= m
      BY <1>1, <1>2, <2>1, <3>1 DEF Distinct
    <3>2. CASE ~(i <= m) /\ ~(j <= m)
      <4> DEFINE p == i - m
                 q == j - m
      <4>1. p \in 1..n /\ q \in 1..n /\ i = m + p /\ j = m + q
        <5>1. m \in Nat /\ n \in Nat
          BY <1>1
        <5>2. i \in Nat /\ j \in Nat /\ i <= m + n /\ j <= m + n /\ i > m /\ j > m
          BY <3>2, <5>1
        <5>3. QED
          BY <5>1, <5>2
      <4>2. b[p] = b[q]
        BY <1>2, <2>1, <3>2
      <4> HIDE DEF p, q
      <4>3. p = q
        BY <1>1, <4>1, <4>2 DEF Distinct
      <4>4. QED
        BY <4>1, <4>3
    <3>3. CASE i <= m /\ ~(j <= m)
      <4>1. c[i] \in ToSet(a) /\ c[j] \in ToSet(b)
        BY <1>2, <3>3 DEF ToSet
      <4>2. QED
        BY <2>1, <4>1
    <3>4. CASE ~(i <= m) /\ j <= m
      <4>1. c[i] \in ToSet(b) /\ c[j] \in ToSet(a)
        BY <1>2, <3>4 DEF ToSet
      <4>2. QED
        BY <2>1, <4>1
    <3>5. QED
      BY <3>1, <3>2, <3>3, <3>4
  <2>2. QED
    BY <1>1, <2>1 DEF Distinct
<1>5. QED
  BY <1>1, <1>3, <1>4 DEF c, m, n

\* The top of a list, last first, and what is left below it.
LEMMA Popped ==
  ASSUME NEW f \in Seq(Int), Distinct(f), NEW n \in 0..Len(f)
  PROVE  LET t == Reverse(SubSeq(f, n + 1, Len(f)))
             d == SubSeq(f, 1, n)
         IN  /\ t \in Seq(Int) /\ d \in Seq(Int) /\ Distinct(t) /\ Distinct(d)
             /\ Len(t) = Len(f) - n /\ Len(d) = n
             /\ ToSet(t) \cap ToSet(d) = {} /\ ToSet(t) \cup ToSet(d) = ToSet(f)
<1> DEFINE m == Len(f)
           u == SubSeq(f, n + 1, m)
           t == Reverse(u)
           d == SubSeq(f, 1, n)
<1>1. m \in Nat /\ n \in 0..m /\ DOMAIN f = 1..m /\ \A i \in 1..m : f[i] \in Int
  OBVIOUS
<1>2. d \in Seq(Int) /\ Len(d) = n /\ DOMAIN d = 1..n /\ \A i \in 1..n : d[i] = f[i]
  BY <1>1
<1>3. /\ u \in Seq(Int) /\ Len(u) = m - n
      /\ \A i \in 1..(m - n) : u[i] = f[n + i]
  <2>1. \A i \in (n + 1)..m : f[i] \in Int
    BY <1>1
  <2>2. n + 1 \in Int /\ m \in Int
    BY <1>1
  <2> HIDE DEF m
  <2>3. /\ u \in Seq(Int) /\ Len(u) = IF n + 1 <= m THEN m - (n + 1) + 1 ELSE 0
        /\ \A i \in 1 .. m - (n + 1) + 1 : u[i] = f[n + 1 + i - 1]
    <3> DEFINE k == n + 1
    <3>1. k \in Int /\ \A i \in k..m : f[i] \in Int
      BY <2>1, <2>2
    <3> HIDE DEF k
    <3>2. /\ SubSeq(f, k, m) \in Seq(Int) /\ Len(SubSeq(f, k, m)) = IF k <= m THEN m - k + 1 ELSE 0
          /\ \A i \in 1 .. m - k + 1 : SubSeq(f, k, m)[i] = f[k + i - 1]
      BY <2>2, <3>1, SubSeqProperties
    <3>3. QED
      BY <3>2 DEF k
  <2>4. Len(u) = m - n
    BY <1>1, <2>3
  <2>5. ASSUME NEW i \in 1..(m - n)
        PROVE  u[i] = f[n + i]
    <3>1. i \in 1..(m - (n + 1) + 1) /\ n + 1 + i - 1 = n + i
      BY <1>1
    <3>2. QED
      BY <2>3, <3>1
  <2>6. QED
    BY <2>3, <2>4, <2>5
<1> HIDE DEF u, m, d
<1>4. /\ t = [i \in 1..(m - n) |-> u[m - n - i + 1]]
  BY <1>3 DEF Reverse
<1>5. \A i \in 1..(m - n) : t[i] = f[m - i + 1] /\ m - i + 1 \in (n + 1)..m
  <2>1. ASSUME NEW i \in 1..(m - n)
        PROVE  t[i] = f[m - i + 1] /\ m - i + 1 \in (n + 1)..m
    <3>1. m - n - i + 1 \in 1..(m - n) /\ n + (m - n - i + 1) = m - i + 1 /\ m - i + 1 \in (n + 1)..m
      BY <1>1
    <3>2. t[i] = u[m - n - i + 1]
      BY <1>4
    <3>3. QED
      BY <1>3, <3>1, <3>2
  <2>2. QED
    BY <2>1
<1>6. t \in Seq(Int) /\ Len(t) = m - n /\ DOMAIN t = 1..(m - n)
  <2>1. m - n \in Nat /\ \A i \in 1..(m - n) : t[i] \in Int
    BY <1>1, <1>5
  <2>2. t \in [1..(m - n) -> Int]
    BY <1>4, <2>1
  <2> HIDE DEF t
  <2>3. QED
    BY <2>1, <2>2
<1> HIDE DEF t
<1>7. Distinct(t)
  <2>1. ASSUME NEW i \in 1..(m - n), NEW j \in 1..(m - n), t[i] = t[j]
        PROVE  i = j
    <3>1. m - i + 1 = m - j + 1
      <4> DEFINE p == m - i + 1
                 q == m - j + 1
      <4>1. p \in 1..m /\ q \in 1..m /\ f[p] = f[q]
        BY <1>1, <1>5, <2>1
      <4> HIDE DEF p, q
      <4>2. p = q
        BY <1>1, <4>1 DEF Distinct
      <4>3. QED
        BY <4>2 DEF p, q
    <3>2. QED
      BY <1>1, <3>1
  <2>2. QED
    BY <1>6, <2>1 DEF Distinct
<1>8. Distinct(d)
  BY <1>1, <1>2 DEF Distinct
<1>9. ToSet(t) \cap ToSet(d) = {}
  <2>1. ASSUME NEW i \in 1..(m - n), NEW j \in 1..n, t[i] = d[j]
        PROVE  FALSE
    <3> DEFINE p == m - i + 1
    <3>1. p \in 1..m /\ j \in 1..m /\ f[p] = f[j] /\ p > j
      <4>1. p \in (n + 1)..m /\ f[p] = f[j]
        BY <1>2, <1>5, <2>1
      <4> HIDE DEF p
      <4>2. QED
        BY <1>1, <4>1
    <3> HIDE DEF p
    <3>2. p = j
      BY <1>1, <3>1 DEF Distinct
    <3>3. QED
      BY <3>1, <3>2
  <2>2. QED
    BY <1>2, <1>6, <2>1 DEF ToSet
<1>10. ToSet(t) \cup ToSet(d) = ToSet(f)
  <2>1. \A x \in ToSet(t) \cup ToSet(d) : x \in ToSet(f)
    <3>1. ASSUME NEW i \in 1..(m - n)
          PROVE  t[i] \in ToSet(f)
      <4> DEFINE p == m - i + 1
      <4>1. p \in (n + 1)..m /\ t[i] = f[p]
        BY <1>5
      <4> HIDE DEF p
      <4>2. p \in 1..m
        BY <1>1, <4>1
      <4>3. QED
        BY <1>1, <4>1, <4>2 DEF ToSet
    <3>2. ASSUME NEW i \in 1..n
          PROVE  d[i] \in ToSet(f)
      BY <1>1, <1>2 DEF ToSet
    <3>3. QED
      BY <1>2, <1>6, <3>1, <3>2 DEF ToSet
  <2>2. ASSUME NEW i \in 1..m
        PROVE  f[i] \in ToSet(t) \cup ToSet(d)
    <3>1. CASE i <= n
      BY <1>1, <1>2, <3>1, SMTT(30) DEF ToSet
    <3>2. CASE ~(i <= n)
      <4> DEFINE j == m - i + 1
      <4>1. j \in 1..(m - n) /\ m - j + 1 = i
        BY <1>1, <3>2
      <4> HIDE DEF j
      <4>2. t[j] = f[i]
        BY <1>5, <4>1
      <4>3. QED
        BY <1>6, <4>1, <4>2 DEF ToSet
    <3>3. QED
      BY <3>1, <3>2
  <2>3. QED
    BY <1>1, <2>1, <2>2 DEF ToSet
<1>11. QED
  BY <1>2, <1>6, <1>7, <1>8, <1>9, <1>10 DEF t, d, m, u

\* A release keeps the pool whole.
LEMMA ReleaseRowPool ==
  ASSUME NEW L \in Limits, NEW k, Pool(L, k), NEW x \in Requests
  PROVE  Pool(L, Release(k, x))
<1> DEFINE z == Release(k, x)
           e == <<>>
           o == 0
           g == k.free \o k.blocks[x]
<1>1. z.valid = [k.valid EXCEPT ![x] = o] /\ z.blocks = [k.blocks EXCEPT ![x] = e] /\ z.free = g
  BY DEF Release
<1>2. e \in Seq(Int) /\ Len(e) = 0 /\ Distinct(e) /\ ToSet(e) = {} /\ o = 0 /\ o \in Nat
  BY DEF Distinct, ToSet
<1> HIDE DEF z, e, o
<1>3. Storage(k)
  BY DEF Pool
<1>4. /\ Storage(z)
      /\ \A r \in Requests : z.valid[r] = (IF r = x THEN o ELSE k.valid[r])
      /\ \A r \in Requests : z.blocks[r] = (IF r = x THEN e ELSE k.blocks[r])
  BY <1>1, <1>2, <1>3 DEF Storage
<1>5. CASE L.layout # "dense"
  <2>1. Private(k.free, k.blocks)
    BY <1>5 DEF Pool
  <2>2. /\ k.free \in Seq(Int) /\ k.blocks[x] \in Seq(Int) /\ Distinct(k.free) /\ Distinct(k.blocks[x])
        /\ ToSet(k.free) \cap ToSet(k.blocks[x]) = {}
    BY <2>1 DEF Private
  <2>3. /\ g \in Seq(Int) /\ Distinct(g) /\ Len(g) = Len(k.free) + Len(k.blocks[x])
        /\ ToSet(g) = ToSet(k.free) \cup ToSet(k.blocks[x])
    BY <2>2, Joined
  <2> HIDE DEF g
  <2>4. Moved(k.free, k.blocks, g, [k.blocks EXCEPT ![x] = e])
    <3> DEFINE f == k.free
               b == k.blocks
    <3>1. /\ Private(f, b) /\ b = [r \in Requests |-> b[r]] /\ ToSet(g) \cap ToSet(e) = {}
          /\ ToSet(g) \cup ToSet(e) = ToSet(f) \cup ToSet(b[x])
      BY <1>2, <1>3, <2>1, <2>3 DEF Storage
    <3>2. Len(g) + Len(e) = Len(f) + Len(b[x])
      BY <1>2, <2>2, <2>3
    <3> HIDE DEF f, b
    <3>3. Moved(f, b, g, [b EXCEPT ![x] = e])
      BY <1>2, <2>3, <3>1, <3>2, Moves
    <3>4. QED
      BY <3>3 DEF f, b
  <2>5. \A r \in Requests : Len(z.blocks[r]) = CeilDiv(z.valid[r], L.block)
    <3>1. ASSUME NEW r \in Requests
          PROVE  Len(z.blocks[r]) = CeilDiv(z.valid[r], L.block)
      <4>1. CASE r = x
        <5>1. CeilDiv(0, L.block) = 0
          BY Positive, CeilMonotone
        <5>2. QED
          BY <1>2, <1>4, <4>1, <5>1
      <4>2. CASE r # x
        BY <1>4, <1>5, <4>2 DEF Pool
      <4>3. QED
        BY <4>1, <4>2
    <3>2. QED
      BY <3>1
  <2>6. QED
    BY <1>1, <1>4, <1>5, <2>4, <2>5 DEF Pool, Moved, z
<1>6. CASE L.layout = "dense"
  BY <1>4, <1>6 DEF Pool, z
<1>7. QED
  BY <1>5, <1>6

\* So does a commit for which there are blocks, and it uses the blocks it needs.
LEMMA CommitRowPool ==
  ASSUME NEW L \in Limits, NEW k, Pool(L, k), NEW s \in StepSet,
         L.layout # "dense" => Growth(L, k, s) \in Nat /\ Growth(L, k, s) <= Len(k.free)
  PROVE  /\ Pool(L, CommitRow(L, k, s))
         /\ L.layout # "dense" => Len(CommitRow(L, k, s).free) = Len(k.free) - Growth(L, k, s)
<1> DEFINE z == CommitRow(L, k, s)
           x == s.id
           e == s.start + s.len
           n == Growth(L, k, s)
           left == Len(k.free) - n
           t == Reverse(SubSeq(k.free, left + 1, Len(k.free)))
           d == SubSeq(k.free, 1, left)
           c == k.blocks[x] \o t
<1>1. z.valid = [k.valid EXCEPT ![x] = e] /\ z.blocks = [k.blocks EXCEPT ![x] = c] /\ z.free = d
  BY DEF CommitRow
<1>2. x \in Requests /\ e \in Nat
  BY DEF StepSet
<1> HIDE DEF c
<1>3. Storage(k)
  BY DEF Pool
<1>4. /\ Storage(z)
      /\ \A r \in Requests : z.valid[r] = (IF r = x THEN e ELSE k.valid[r])
      /\ \A r \in Requests : z.blocks[r] = (IF r = x THEN c ELSE k.blocks[r])
  <2> HIDE DEF z, e, x
  <2>1. QED
    BY <1>1, <1>2, <1>3 DEF Storage
<1>5. CASE L.layout # "dense"
  <2>1. Private(k.free, k.blocks)
    BY <1>5 DEF Pool
  <2>2. /\ k.free \in Seq(Int) /\ k.blocks[x] \in Seq(Int) /\ Distinct(k.free) /\ Distinct(k.blocks[x])
        /\ ToSet(k.free) \cap ToSet(k.blocks[x]) = {}
    BY <1>2, <2>1 DEF Private
  <2>3. left \in 0..Len(k.free) /\ n \in Nat /\ Len(k.free) \in Nat /\ Len(k.free) - left = n
    BY <1>5, <2>2
  <2>4. /\ t \in Seq(Int) /\ d \in Seq(Int) /\ Distinct(t) /\ Distinct(d)
        /\ Len(t) = n /\ Len(d) = left
        /\ ToSet(t) \cap ToSet(d) = {} /\ ToSet(t) \cup ToSet(d) = ToSet(k.free)
    <3> DEFINE f == k.free
               m == left
    <3>1. f \in Seq(Int) /\ Distinct(f) /\ m \in 0..Len(f) /\ Len(f) - m = n
      BY <2>2, <2>3
    <3> HIDE DEF f, m, n
    <3>2. /\ Reverse(SubSeq(f, m + 1, Len(f))) \in Seq(Int) /\ SubSeq(f, 1, m) \in Seq(Int)
          /\ Distinct(Reverse(SubSeq(f, m + 1, Len(f)))) /\ Distinct(SubSeq(f, 1, m))
          /\ Len(Reverse(SubSeq(f, m + 1, Len(f)))) = Len(f) - m /\ Len(SubSeq(f, 1, m)) = m
          /\ ToSet(Reverse(SubSeq(f, m + 1, Len(f)))) \cap ToSet(SubSeq(f, 1, m)) = {}
          /\ ToSet(Reverse(SubSeq(f, m + 1, Len(f)))) \cup ToSet(SubSeq(f, 1, m)) = ToSet(f)
      BY <3>1, Popped
    <3>3. QED
      BY <3>1, <3>2 DEF f, m
  <2> HIDE DEF t, d
  <2>5. ToSet(k.blocks[x]) \cap ToSet(t) = {} /\ ToSet(k.blocks[x]) \cap ToSet(d) = {}
    BY <2>2, <2>4
  <2>6. /\ c \in Seq(Int) /\ Distinct(c) /\ Len(c) = Len(k.blocks[x]) + n
        /\ ToSet(c) = ToSet(k.blocks[x]) \cup ToSet(t)
    BY <2>2, <2>4, <2>5, Joined DEF c
  <2>7. Moved(k.free, k.blocks, d, [k.blocks EXCEPT ![x] = c])
    <3> DEFINE f == k.free
               b == k.blocks
               y == x
    <3>1. /\ Private(f, b) /\ b = [r \in Requests |-> b[r]] /\ ToSet(d) \cap ToSet(c) = {}
          /\ ToSet(d) \cup ToSet(c) = ToSet(f) \cup ToSet(b[y]) /\ y \in Requests
      BY <1>2, <1>3, <2>1, <2>4, <2>5, <2>6 DEF Storage
    <3>2. Len(d) + Len(c) = Len(f) + Len(b[y])
      <4> DEFINE p == Len(b[y])
                 q == Len(f)
      <4>1. p \in Int /\ q \in Int /\ Len(c) = p + n /\ n \in Nat /\ Len(d) = q - n
        BY <2>2, <2>3, <2>4, <2>6
      <4> HIDE DEF p, q, n
      <4>2. Len(d) + Len(c) = q + p
        BY <4>1
      <4>3. QED
        BY <4>2 DEF p, q
    <3> HIDE DEF f, b, y
    <3>3. Moved(f, b, d, [b EXCEPT ![y] = c])
      BY <2>4, <2>6, <3>1, <3>2, Moves
    <3>4. QED
      BY <3>3 DEF f, b, y
  <2>8. Len(c) = CeilDiv(e, L.block)
    <3>1. n = CeilDiv(e, L.block) - Len(k.blocks[x])
      BY <1>5 DEF Growth
    <3>2. CeilDiv(e, L.block) \in Nat /\ Len(k.blocks[x]) \in Nat
      <4>1. L.block \in Nat \ {0} /\ Len(k.blocks[x]) \in Nat
        BY <2>2, Positive
      <4> HIDE DEF e
      <4>2. CeilDiv(e, L.block) \in Nat
        BY <1>2, <4>1, Ceil
      <4>3. QED
        BY <4>1, <4>2
    <3> HIDE DEF n, e, x
    <3>3. QED
      BY <2>6, <3>1, <3>2
  <2>9. \A r \in Requests : Len(z.blocks[r]) = CeilDiv(z.valid[r], L.block)
    <3> HIDE DEF z, e, x
    <3>1. QED
      BY <1>4, <1>5, <2>8 DEF Pool
  <2>10. z.free = d
    BY <1>1
  <2>11. Pool(L, z)
    <3> HIDE DEF z
    <3>1. QED
      BY <1>1, <1>4, <1>5, <2>7, <2>9, <2>10 DEF Pool, Moved
  <2>12. QED
    BY <2>4, <2>10, <2>11
<1>6. CASE L.layout = "dense"
  BY <1>4, <1>6 DEF Pool
<1>7. QED
  BY <1>5, <1>6

\* Releases of several rows keep the pool whole.
LEMMA ReleaseAllPool ==
  ASSUME NEW L \in Limits, NEW k, Pool(L, k), NEW s \in Seq(Requests)
  PROVE  Pool(L, ReleaseAll(k, s))
<1> DEFINE n == Len(s)
<1>0. n \in Nat /\ DOMAIN s = 1..n /\ \A i \in 1..n : s[i] \in Requests
  OBVIOUS
<1>1. PICK h : /\ h[0] = k /\ h[n] = Fold("release", 0, k, s)
               /\ \A i \in 1..n : h[i] = Fold1("release", 0, h[i - 1], s[i])
  <2>1. HasTrace("release", 0, k, s, n)
    BY <1>0, FoldTrace
  <2>2. QED
    BY <2>1 DEF HasTrace
<1> DEFINE T == {i \in 0..n : Pool(L, h[i])}
<1>2. 0 \in T
  BY <1>0, <1>1
<1>3. ASSUME NEW i \in 1..n, i - 1 \in T
      PROVE  i \in T
  <2>1. h[i] = Release(h[i - 1], s[i]) /\ s[i] \in Requests
    BY <1>0, <1>1 DEF Fold1
  <2>2. Pool(L, h[i - 1])
    BY <1>3
  <2>3. Pool(L, h[i])
    <3> DEFINE c == h[i - 1]
    <3>1. Pool(L, c) /\ h[i] = Release(c, s[i])
      BY <2>1, <2>2
    <3> HIDE DEF c
    <3>2. QED
      BY <2>1, <3>1, ReleaseRowPool
  <2>4. QED
    BY <1>0, <2>3
<1>4. n \in T
  <2>1. n \in Nat
    BY <1>0
  <2> HIDE DEF T, n
  <2>2. \A i \in 0..n : i \in T
    BY <1>2, <1>3, <2>1, UpTo
  <2>3. QED
    BY <2>1, <2>2
<1>5. QED
  BY <1>1, <1>4, ReleaseFold

\* The steps start where the stored rows end.
Current(k, s) == \A i \in DOMAIN s : k.valid[s[i].id] = s[i].start

\* A step that starts where its row ends gives no block back.
LEMMA GrowthNat ==
  ASSUME NEW L \in Limits, L.layout # "dense", NEW k, Pool(L, k), NEW s \in StepSet, k.valid[s.id] = s.start
  PROVE  /\ Growth(L, k, s) \in Nat
         /\ Growth(L, k, s) = CeilDiv(s.start + s.len, L.block) - CeilDiv(s.start, L.block)
<1> DEFINE a == s.start
           b == s.start + s.len
           d == L.block
<1>1. a \in Nat /\ b \in Nat /\ a <= b /\ s.id \in Requests /\ d \in Nat \ {0}
  BY Positive DEF StepSet
<1>2. Len(k.blocks[s.id]) = CeilDiv(a, d)
  BY <1>1 DEF Pool
<1>3. Growth(L, k, s) = CeilDiv(b, d) - CeilDiv(a, d)
  BY <1>2 DEF Growth
<1> HIDE DEF a, b, d
<1>4. CeilDiv(a, d) \in Nat /\ CeilDiv(b, d) \in Nat
  BY <1>1, Ceil
<1>5. CeilDiv(a, d) <= CeilDiv(b, d)
  BY <1>1, CeilMonotone
<1>6. QED
  BY <1>3, <1>4, <1>5 DEF a, b, d

\* The blocks a batch needs.
Needs(L, k, s) == [kind |-> "growth", of |-> s, limits |-> L, kv |-> k]

\* No row of a batch needs a negative number of blocks.
LEMMA NeedsNat ==
  ASSUME NEW L \in Limits, L.layout # "dense", NEW k, Pool(L, k), NEW s \in Seq(StepSet), Current(k, s)
  PROVE  \A i \in DOMAIN s : Val(Needs(L, k, s), i) = Growth(L, k, s[i]) /\ Growth(L, k, s[i]) \in Nat
<1>1. ASSUME NEW i \in DOMAIN s
      PROVE  Val(Needs(L, k, s), i) = Growth(L, k, s[i]) /\ Growth(L, k, s[i]) \in Nat
  <2>1. Val(Needs(L, k, s), i) = Growth(L, k, s[i])
    BY DEF Val, Needs
  <2>2. s[i] \in StepSet /\ k.valid[s[i].id] = s[i].start
    BY DEF Current
  <2>3. Growth(L, k, s[i]) \in Nat
    <3> DEFINE e == s[i]
    <3>1. e \in StepSet /\ k.valid[e.id] = e.start
      BY <2>2
    <3> HIDE DEF e
    <3>2. Growth(L, k, e) \in Nat
      BY <3>1, GrowthNat
    <3>3. QED
      BY <3>2 DEF e
  <2>4. QED
    BY <2>1, <2>3
<1>2. QED
  BY <1>1

\* A batch for which there are blocks keeps the pool whole.
LEMMA CommitPool ==
  ASSUME NEW L \in Limits, NEW k, Pool(L, k), NEW s \in Seq(StepSet), OneEach(s), Current(k, s),
         L.layout # "dense" => Total(Needs(L, k, s), DOMAIN s) <= Len(k.free)
  PROVE  Pool(L, Commit(L, k, s))
<1> DEFINE n == Len(s)
           f == Needs(L, k, s)
           D == L.layout # "dense"
<1>0. n \in Nat /\ DOMAIN s = 1..n /\ \A i \in 1..n : s[i] \in StepSet
  OBVIOUS
<1>1. PICK h : /\ h[0] = k /\ h[n] = Fold("commit", L, k, s)
               /\ \A i \in 1..n : h[i] = Fold1("commit", L, h[i - 1], s[i])
  <2>1. HasTrace("commit", L, k, s, n)
    BY <1>0, FoldTrace
  <2>2. QED
    BY <2>1 DEF HasTrace
<1>2. D => \A i \in 1..n : Val(f, i) = Growth(L, k, s[i]) /\ Growth(L, k, s[i]) \in Nat
  BY <1>0, NeedsNat
<1>3. D => Len(k.free) \in Nat
  BY DEF Pool, Private
<1>4. \A i \in 0..n : IsFiniteSet(1..i)
  <2>1. ASSUME NEW i \in 0..n
        PROVE  IsFiniteSet(1..i)
    <3>1. 1 \in Int /\ i \in Int
      BY <1>0
    <3>2. QED
      BY <3>1, FS_Interval
  <2>2. QED
    BY <2>1
<1> DEFINE Good(i) == /\ Pool(L, h[i])
                      /\ \A r \in Requests : (\A j \in 1..i : s[j].id # r) => h[i].blocks[r] = k.blocks[r]
                      /\ D => Len(h[i].free) = Len(k.free) - Total(f, 1..i)
           T == {i \in 0..n : Good(i)}
<1> HIDE DEF f
<1>5. 0 \in T
  <2>1. Total(f, 1..0) = 0
    <3>1. 1..0 = {} /\ IsFiniteSet(1..0)
      BY <1>0, <1>4
    <3>2. QED
      BY <3>1, SumUnfold
  <2>2. Good(0)
    BY <1>1, <1>3, <2>1
  <2>3. 0 \in 0..n
    BY <1>0
  <2> HIDE DEF Good, n
  <2>4. QED
    BY <2>2, <2>3
<1>6. ASSUME NEW i \in 1..n, i - 1 \in T
      PROVE  i \in T
  <2> DEFINE c == h[i - 1]
             e == s[i]
             t == Total(f, 1..(i - 1))
  <2>1. Good(i - 1)
    BY <1>6
  <2>2. h[i] = CommitRow(L, c, e) /\ e \in StepSet /\ e.id \in Requests
    BY <1>0, <1>1 DEF Fold1, StepSet
  <2>3. c.blocks[e.id] = k.blocks[e.id]
    <3>1. \A j \in 1..(i - 1) : s[j].id # s[i].id
      BY <1>0 DEF OneEach
    <3>2. QED
      BY <2>1, <2>2, <3>1
  <2>4. Pool(L, c) /\ (D => Len(c.free) = Len(k.free) - t)
    BY <2>1
  <2>5. D => Growth(L, c, e) = Growth(L, k, e) /\ Growth(L, k, e) = Val(f, i) /\ Val(f, i) \in Nat
    <3>1. Growth(L, c, e) = Growth(L, k, e)
      BY <2>3 DEF Growth
    <3>2. QED
      BY <1>2, <3>1
  <2>6. D => /\ t \in Nat /\ Total(f, 1..i) = Val(f, i) + t /\ Total(f, 1..i) <= Len(k.free)
             /\ Total(f, 1..i) \in Nat
    <3>1. SUFFICES ASSUME D
                   PROVE  /\ t \in Nat /\ Total(f, 1..i) = Val(f, i) + t /\ Total(f, 1..i) <= Len(k.free)
                          /\ Total(f, 1..i) \in Nat
      OBVIOUS
    <3>2. \A j \in 1..n : Val(f, j) \in Nat
      BY <1>2, <3>1
    <3>3. 1..i \in SUBSET (1..n) /\ 1..(i - 1) \in SUBSET (1..n) /\ 1..n \in SUBSET (1..n) /\ i \in 1..i
      BY <1>0
    <3>4. IsFiniteSet(1..n) /\ IsFiniteSet(1..i)
      BY <1>0, <1>4
    <3>5. (1..i) \ {i} = 1..(i - 1)
      BY Initial
    <3>6. Total(f, 1..n) <= Len(k.free)
      BY <1>0, <3>1 DEF f
    <3> HIDE DEF n
    <3>7. /\ Total(f, 1..i) \in Nat /\ Total(f, 1..i) <= Total(f, 1..n)
          /\ Total(f, 1..(i - 1)) \in Nat /\ Total(f, 1..n) \in Nat
      BY <3>2, <3>3, <3>4, SumPart
    <3>8. \A j \in 1..i : Val(f, j) \in Int
      BY <3>2, <3>3
    <3>9. Total(f, 1..i) = Val(f, i) + Total(f, (1..i) \ {i})
      BY <3>3, <3>4, <3>8, SumRemove
    <3>10. Total(f, 1..i) = Val(f, i) + t
      BY <3>5, <3>9
    <3>11. Len(k.free) \in Nat
      BY <1>3, <3>1
    <3>12. Total(f, 1..i) <= Len(k.free)
      <4> DEFINE p == Total(f, 1..i)
                 q == Total(f, 1..n)
                 w == Len(k.free)
      <4>1. p \in Nat /\ q \in Nat /\ w \in Nat /\ p <= q /\ q <= w
        BY <3>6, <3>7, <3>11
      <4> HIDE DEF p, q, w
      <4>2. p <= w
        BY <4>1
      <4>3. QED
        BY <4>2 DEF p, w
    <3>13. QED
      BY <3>7, <3>10, <3>12
  <2>7. D => Growth(L, c, e) \in Nat /\ Growth(L, c, e) <= Len(c.free)
    <3> HIDE DEF c, e, t, D
    <3>1. QED
      BY <1>3, <2>4, <2>5, <2>6
  <2>8. Pool(L, h[i]) /\ (D => Len(h[i].free) = Len(c.free) - Growth(L, c, e))
    <3> HIDE DEF c, e
    <3>1. /\ Pool(L, CommitRow(L, c, e))
          /\ D => Len(CommitRow(L, c, e).free) = Len(c.free) - Growth(L, c, e)
      BY <2>2, <2>4, <2>7, CommitRowPool
    <3>2. QED
      BY <2>2, <3>1
  <2>9. D => Len(h[i].free) = Len(k.free) - Total(f, 1..i)
    <3> HIDE DEF c, e, t, D
    <3>1. QED
      BY <1>3, <2>4, <2>5, <2>6, <2>8
  <2>10. ASSUME NEW r \in Requests, \A j \in 1..i : s[j].id # r
         PROVE  h[i].blocks[r] = k.blocks[r]
    <3>1. c.blocks[r] = k.blocks[r]
      BY <2>1, <2>10
    <3>2. e.id # r
      BY <2>10
    <3>3. c.blocks = [q \in Requests |-> c.blocks[q]]
      BY <2>4 DEF Pool, Storage
    <3> DEFINE b == c.blocks[e.id] \o Reverse(SubSeq(c.free, Len(c.free) - Growth(L, c, e) + 1, Len(c.free)))
    <3>4. h[i].blocks = [c.blocks EXCEPT ![e.id] = b]
      <4>1. RowCommitted(h[i], L, c, e)
        BY <2>2, CommitRowIs
      <4>2. QED
        BY <4>1 DEF RowCommitted
    <3> HIDE DEF b, c, e
    <3>5. h[i].blocks[r] = c.blocks[r]
      BY <3>2, <3>3, <3>4
    <3>6. QED
      BY <3>1, <3>5
  <2>11. Good(i)
    BY <2>8, <2>9, <2>10
  <2> HIDE DEF Good
  <2>12. QED
    BY <1>0, <2>11
<1>7. n \in T
  <2>1. n \in Nat
    BY <1>0
  <2> HIDE DEF T, n
  <2>2. \A i \in 0..n : i \in T
    BY <1>5, <1>6, <2>1, UpTo
  <2>3. QED
    BY <2>1, <2>2
<1>8. QED
  BY <1>1, <1>7, CommitFold

\* What the executor refuses, in terms of the blocks a batch needs.
LEMMA RefusedIs ==
  ASSUME NEW L, NEW k, NEW s
  PROVE  Refused(L, k, s) <=> /\ L.layout # "dense"
                              /\ Stale(k, s) \/ Total(Needs(L, k, s), DOMAIN s) > Len(k.free)
BY GrowthSum DEF Refused, Needs

\* The part of a batch that prepare lets through is a prefix with its blocks.
LEMMA PreparedGood ==
  ASSUME limits \in Limits, Pool(limits, kv), NEW s \in Seq(StepSet), Current(kv, s), NEW n \in Prepared(s)
  PROVE  /\ n \in 0..Len(s)
         /\ limits.layout # "dense" =>
              Total(Needs(limits, kv, SubSeq(s, 1, n)), DOMAIN SubSeq(s, 1, n)) <= Len(kv.free)
         /\ ~limits.headroom /\ ~Refused(limits, kv, s) => n = Len(s)
<1> DEFINE m == Len(s)
           D == limits.layout # "dense"
           pre(i) == SubSeq(s, 1, i)
           fits == {i \in 0..Len(s) : ~Refused(limits, kv, SubSeq(s, 1, i))}
           most == CHOOSE i \in fits : \A j \in fits : j <= i
           f == Needs(limits, kv, s)
<1>1. m \in Nat /\ DOMAIN s = 1..m /\ \A i \in 1..m : s[i] \in StepSet
  OBVIOUS
<1>2. \A i \in 0..m : pre(i) \in Seq(StepSet) /\ DOMAIN pre(i) = 1..i /\ \A j \in 1..i : pre(i)[j] = s[j]
  OBVIOUS
<1>3. \A i \in 0..m : Current(kv, pre(i)) /\ ~Stale(kv, pre(i))
  BY <1>1, <1>2 DEF Current, Stale
<1>4. D => Len(kv.free) \in Nat
  BY DEF Pool, Private
<1>5. D => \A j \in 1..m : Val(f, j) = Growth(limits, kv, s[j]) /\ Growth(limits, kv, s[j]) \in Nat
  BY <1>1, NeedsNat
<1>6. \A i \in 0..m : IsFiniteSet(1..i)
  <2>1. ASSUME NEW i \in 0..m
        PROVE  IsFiniteSet(1..i)
    <3>1. 1 \in Int /\ i \in Int
      BY <1>1
    <3>2. QED
      BY <3>1, FS_Interval
  <2>2. QED
    BY <2>1
<1>7. ASSUME D, NEW i \in 0..m
      PROVE  Total(Needs(limits, kv, pre(i)), DOMAIN pre(i)) = Total(f, 1..i)
  <2> DEFINE z == pre(i)
             g == Needs(limits, kv, z)
  <2>1. z \in Seq(StepSet) /\ DOMAIN z = 1..i /\ Current(kv, z) /\ \A j \in 1..i : z[j] = s[j] /\ j \in 1..m
    BY <1>1, <1>2, <1>3
  <2> HIDE DEF z, f
  <2>2. \A j \in 1..i : Val(g, j) = Growth(limits, kv, z[j]) /\ Growth(limits, kv, z[j]) \in Nat
    BY <1>7, <2>1, NeedsNat
  <2>3. \A j \in 1..i : Val(g, j) \in Int /\ Val(g, j) = Val(f, j)
    BY <1>5, <1>7, <2>1, <2>2, SMTT(30)
  <2> HIDE DEF g
  <2>4. Total(g, 1..i) = Total(f, 1..i)
    BY <1>6, <2>3, SumSame
  <2>5. QED
    BY <2>1, <2>4 DEF g, z
<1>8. ASSUME D, NEW i \in 0..m, NEW j \in 0..i
      PROVE  Total(f, 1..j) <= Total(f, 1..i) /\ Total(f, 1..j) \in Nat /\ Total(f, 1..i) \in Nat
  <2>1. \A x \in 1..i : Val(f, x) \in Nat
    BY <1>1, <1>5, <1>8
  <2>2. 1..j \in SUBSET (1..i) /\ 1..i \in SUBSET (1..i)
    BY <1>1
  <2>3. QED
    BY <1>6, <2>1, <2>2, SumPart
<1>9. ASSUME NEW i \in 0..m
      PROVE  i \in fits <=> (D => Total(f, 1..i) <= Len(kv.free))
  <2>1. Refused(limits, kv, pre(i)) <=> D /\ (Total(Needs(limits, kv, pre(i)), DOMAIN pre(i)) > Len(kv.free))
    BY <1>3, RefusedIs
  <2>2. CASE D
    <3>1. Refused(limits, kv, pre(i)) <=> Total(f, 1..i) > Len(kv.free)
      BY <1>7, <2>1, <2>2
    <3>2. Total(f, 1..i) \in Nat
      BY <1>8, <2>2
    <3> HIDE DEF f
    <3>3. QED
      BY <1>4, <2>2, <3>1, <3>2
  <2>3. CASE ~D
    BY <2>1, <2>3
  <2>4. QED
    BY <2>2, <2>3
<1>10. most \in fits /\ \A j \in fits : j <= most
  <2>1. 0 \in fits
    <3>1. D => Total(f, 1..0) = 0
      <4>1. 1..0 = {} /\ IsFiniteSet(1..0)
        BY <1>1, <1>6
      <4>2. QED
        BY <4>1, SumUnfold
    <3>2. 0 \in 0..m
      BY <1>1
    <3>3. QED
      BY <1>4, <1>9, <3>1, <3>2
  <2>2. fits \in SUBSET (0..m) /\ fits # {}
    BY <2>1
  <2> HIDE DEF fits, m
  <2>3. \E x \in fits : \A y \in fits : y <= x
    BY <1>1, <2>2, GreatestNumber
  <2>4. QED
    BY <2>3, Zenon
<1>11. most \in 0..m
  BY <1>10
<1>12. Prepared(s) = IF limits.headroom THEN {i \in 0..Len(s) : i <= most} ELSE {most}
  BY DEF Prepared
<1> HIDE DEF most
<1>13. n \in 0..m /\ n \in 0..most /\ (~limits.headroom => n = most)
  BY <1>1, <1>11, <1>12
<1>14. D => Total(f, 1..n) <= Len(kv.free)
  <2>1. SUFFICES ASSUME D PROVE Total(f, 1..n) <= Len(kv.free)
    OBVIOUS
  <2>2. Total(f, 1..most) <= Len(kv.free)
    BY <1>9, <1>10, <1>11, <2>1
  <2>3. Total(f, 1..n) <= Total(f, 1..most) /\ Total(f, 1..n) \in Nat /\ Total(f, 1..most) \in Nat
    BY <1>8, <1>11, <1>13, <2>1
  <2> HIDE DEF f
  <2>4. QED
    BY <1>4, <2>1, <2>2, <2>3
<1>15. ~limits.headroom /\ ~Refused(limits, kv, s) => n = m
  <2>1. SUFFICES ASSUME ~limits.headroom, ~Refused(limits, kv, s) PROVE n = m
    OBVIOUS
  <2>2. pre(m) = s /\ m \in 0..m
    BY <1>1
  <2>3. m \in fits
    BY <2>1, <2>2
  <2>4. m <= most
    BY <1>10, <2>3
  <2> HIDE DEF fits, m
  <2>5. QED
    BY <1>1, <1>11, <1>13, <2>1, <2>4
<1>16. QED
  BY <1>7, <1>13, <1>14, <1>15

\* A sum of zeros.
LEMMA SumZero ==
  ASSUME NEW S, IsFiniteSet(S), NEW f, \A x \in S : Val(f, x) = 0
  PROVE  Total(f, S) = 0
<1> DEFINE P == {t \in SUBSET S : Total(f, t) = 0}
<1>1. ASSUME NEW t \in SUBSET S, \A x \in t : t \ {x} \in P
      PROVE  t \in P
  <2>1. IsFiniteSet(t)
    BY FS_Subset
  <2>2. CASE t = {}
    BY <2>1, <2>2, SumUnfold
  <2>3. CASE t # {}
    <3>1. Picked(t) \in t
      BY <2>3 DEF Picked
    <3>2. Total(f, t \ {Picked(t)}) = 0 /\ Val(f, Picked(t)) = 0
      BY <1>1, <3>1
    <3>3. Total(f, t) = Val(f, Picked(t)) + Total(f, t \ {Picked(t)})
      BY <2>1, <2>3, SumUnfold
    <3>4. QED
      BY <3>2, <3>3
  <2>4. QED
    BY <2>2, <2>3
<1>2. S \in P
  <2> HIDE DEF P
  <2>1. \A t \in SUBSET S : t \in P
    BY <1>1, Subsets
  <2>2. QED
    BY <2>1
<1>3. QED
  BY <1>2

\* The size of a pool is a number.
LEMMA PoolNat ==
  ASSUME NEW L \in Limits
  PROVE  PoolBlocks(L) \in Nat /\ FullPool(L) \in Nat
<1>1. L.capacity \in Nat /\ L.block \in Nat \ {0} /\ L.active \in Nat /\ L.bytes \in Nat
  BY Positive
<1>2. CeilDiv(L.capacity, L.block) \in Nat
  BY <1>1, Ceil
<1>3. QED
  BY <1>1, <1>2 DEF PoolBlocks, FullPool

\* A new pool has all its blocks on the free list.
LEMMA NewPool ==
  ASSUME NEW L \in Limits
  PROVE  Pool(L, NewKV(L, Requests))
<1> DEFINE k == NewKV(L, Requests)
           n == PoolBlocks(L)
           o == 0
           e == <<>>
           f == [i \in 1..n |-> n + 1 - i]
           b == [r \in Requests |-> e]
<1>1. k.valid = [r \in Requests |-> o] /\ k.blocks = b /\ k.free = f
  BY DEF NewKV
<1>2. n \in Nat
  BY PoolNat
<1>3. o \in Nat /\ o = 0 /\ e \in Seq(Int) /\ Len(e) = 0 /\ Distinct(e) /\ ToSet(e) = {}
  BY DEF Distinct, ToSet
<1> HIDE DEF n, o, e, k
<1>4. \A r \in Requests : k.blocks[r] = e /\ k.valid[r] = o
  BY <1>1
<1>5. Storage(k)
  BY <1>1, <1>3 DEF Storage
<1>6. /\ f \in Seq(Int) /\ Len(f) = n /\ DOMAIN f = 1..n /\ \A i \in 1..n : f[i] = n + 1 - i
  <2>1. f \in [1..n -> Int]
    BY <1>2
  <2>2. \A i \in 1..n : f[i] = n + 1 - i
    OBVIOUS
  <2> HIDE DEF f
  <2>3. QED
    BY <1>2, <2>1, <2>2
<1> HIDE DEF f
<1>7. Distinct(f)
  BY <1>2, <1>6 DEF Distinct
<1>8. ToSet(f) = 1..n
  <2>1. \A x \in ToSet(f) : x \in 1..n
    BY <1>2, <1>6 DEF ToSet
  <2>2. ASSUME NEW x \in 1..n
        PROVE  x \in ToSet(f)
    <3> DEFINE i == n + 1 - x
    <3>1. i \in 1..n /\ n + 1 - i = x
      BY <1>2
    <3> HIDE DEF i
    <3>2. QED
      BY <1>6, <3>1 DEF ToSet
  <2>3. QED
    BY <2>1, <2>2
<1>9. Private(k.free, k.blocks)
  BY <1>1, <1>3, <1>4, <1>6, <1>7 DEF Private
<1>10. BlocksHeld(k.blocks) = 0
  <2> DEFINE u == [kind |-> "values", of |-> [r \in Requests |-> Len(k.blocks[r])]]
  <2>1. \A r \in Requests : Val(u, r) = Len(k.blocks[r])
    BY DEF Val
  <2>2. \A r \in Requests : Val(u, r) = 0
    BY <1>3, <1>4, <2>1
  <2>3. IsFiniteSet(Requests)
    BY LiveAssumption
  <2> HIDE DEF u
  <2>4. Total(u, Requests) = 0
    BY <2>2, <2>3, SumZero
  <2>5. QED
    BY <2>4 DEF u, BlocksHeld
<1>11. \A r \in Requests : Len(k.blocks[r]) = CeilDiv(k.valid[r], L.block)
  <2>1. CeilDiv(0, L.block) = 0
    BY Positive, CeilMonotone
  <2>2. QED
    BY <1>3, <1>4, <2>1
<1>12. ToSet(k.free) \cup UNION {ToSet(k.blocks[r]) : r \in Requests} = 1..n
  <2>1. UNION {ToSet(k.blocks[r]) : r \in Requests} = {}
    BY <1>3, <1>4
  <2>2. QED
    BY <1>1, <1>8, <2>1
<1>13. Len(k.free) + BlocksHeld(k.blocks) = n
  BY <1>1, <1>2, <1>6, <1>10
<1>14. QED
  BY <1>5, <1>9, <1>11, <1>12, <1>13 DEF Pool, k, n

-----------------------------------------------------------------------------
(***************************************************************************)
(* The inductive invariant.                                                *)
(***************************************************************************)

\* The types of the variables, and that nothing runs after an error.
Typed ==
    /\ limits \in Limits
    /\ pc \in {"intake", "seal", "scan", "admit", "plan", "forward", "ended", "closed"}
    /\ error \in Errors \cup {None} /\ (error # None => pc \in {"ended", "closed"})
    /\ odd \in BOOLEAN /\ finished \in BOOLEAN /\ sealed \in BOOLEAN
    /\ sent \in 0..Cardinality(Items) /\ outstanding \in SUBSET Items
    /\ queue \in Seq(Items) /\ order \in Seq(Requests)
    /\ state \in [Requests -> {"absent", "waiting", "active", "terminal"}]
    /\ reason \in [Requests -> Reasons \cup {None}]
    /\ output \in [Requests -> Nat] /\ consumed \in [Requests -> Nat] /\ lease \in Leases
    /\ preemptions \in 0..limits.preempt

\* The queue holds the last items sent, in the order of the workload; what left
\* it was accepted; and the seal is set only when everything left it.
SenderOK ==
    /\ Len(queue) <= sent
    /\ \A i \in DOMAIN queue : queue[i] = sent - Len(queue) + i
    /\ \A r \in Items : state[r] = "absent" <=> r > sent - Len(queue)
    /\ pc # "closed" => (sealed => finished /\ queue = <<>>)

\* self.rows lists the accepted requests once each.
OrderOK == Distinct(order) /\ ToSet(order) = {r \in Requests : state[r] # "absent"}

\* How far a row can be in each state.
RowOK(r) ==
    /\ state[r] = "absent" => output[r] = 0 /\ consumed[r] = 0 /\ reason[r] = None
    /\ state[r] \in {"waiting", "active"} => output[r] < Output[r] /\ reason[r] = None /\ Acceptable(r)
    /\ output[r] <= Output[r] /\ consumed[r] <= Needed(r)
    /\ lease[r] # None => lease[r].capacity = Needed(r)
    /\ reason[r] = "length" => output[r] = Output[r] /\ consumed[r] = Needed(r)

\* Every row is where its state lets it be.
RowsOK == \A r \in Requests : RowOK(r)

\* Leases, progress and storage of one row agree.
RowTrue(r) ==
    IF state[r] = "active"
    THEN /\ lease[r] # None /\ lease[r].valid = consumed[r]
         /\ kv.valid[r] = consumed[r]
         /\ consumed[r] < Input[r] + output[r]
    ELSE /\ lease[r] = None /\ kv.valid[r] = 0 /\ kv.blocks[r] = <<>>
         /\ state[r] = "waiting" => consumed[r] = 0

\* They agree for every row until the engine fails or closes.
RowsTrue == error = None /\ pc # "closed" => \A r \in Requests : RowTrue(r)

\* The batch between planning and its forward.
StepsOK ==
    pc = "forward" =>
        /\ Batch(limits, View, steps, In("active")) /\ steps # <<>>
        /\ Padded(steps) <= limits.padded
        /\ limits.layout # "dense" => Total(Needs(limits, kv, steps), DOMAIN steps) <= Len(kv.free)

\* The inductive invariant.
Inv ==
    /\ Typed /\ SenderOK /\ OrderOK /\ RowsOK /\ RowsTrue /\ Room(lease)
    /\ Pool(limits, kv) /\ StepsOK

\* The first state of a session.
LEMMA InitInv == Init => Inv
<1> SUFFICES ASSUME Init PROVE Inv
  OBVIOUS
<1>1. limits \in Limits /\ IsFiniteSet(Items) /\ IsFiniteSet(Requests)
  <2>1. IsFiniteSet(Requests) /\ Items \in SUBSET Requests
    BY LiveAssumption DEF Requests
  <2>2. QED
    BY <2>1, FS_Subset DEF Init
<1>2. Cardinality(Items) \in Nat
  BY <1>1, FS_CardinalityType
<1>3. lease \in Leases /\ \A r \in Requests : lease[r] = None
  BY DEF Init, Leases
<1>4. Room(lease)
  <2>1. Holding(lease) = {}
    BY <1>3 DEF Holding
  <2>2. Held(lease) = 0
    BY <2>1, FS_EmptySet DEF Held, Holding
  <2>3. Reserved(lease) = 0
    <3>1. Reserved(lease) = Total([kind |-> "capacity", of |-> lease], Holding(lease))
      BY ReservedSum DEF Holding
    <3> DEFINE u == [kind |-> "capacity", of |-> lease]
               E == {}
    <3>2. Reserved(lease) = Total(u, E) /\ IsFiniteSet(E) /\ E = {}
      BY <2>1, <3>1, FS_EmptySet
    <3> HIDE DEF u, E
    <3>3. QED
      BY <3>2, SumUnfold
  <2>4. limits.capacity \in Nat /\ Cap \in Nat
    BY <1>1, Positive DEF Cap
  <2>5. QED
    BY <2>2, <2>3, <2>4 DEF Room
<1>5. Pool(limits, kv)
  BY <1>1, NewPool DEF Init
<1>6. Typed
  <2>1. limits.preempt \in Nat
    BY <1>1, Positive
  <2>2. <<>> \in Seq(Items) /\ <<>> \in Seq(Requests)
    OBVIOUS
  <2>3. /\ state \in [Requests -> {"absent", "waiting", "active", "terminal"}]
        /\ reason \in [Requests -> Reasons \cup {None}]
    BY DEF Init
  <2>4. output \in [Requests -> Nat] /\ consumed \in [Requests -> Nat]
    BY DEF Init
  <2>5. /\ sent \in 0..Cardinality(Items) /\ outstanding \in SUBSET Items
        /\ queue \in Seq(Items) /\ order \in Seq(Requests) /\ preemptions \in 0..limits.preempt
    BY <1>2, <2>1, <2>2 DEF Init
  <2>6. /\ pc \in {"intake", "seal", "scan", "admit", "plan", "forward", "ended", "closed"}
        /\ error \in Errors \cup {None} /\ error = None
        /\ odd \in BOOLEAN /\ finished \in BOOLEAN /\ sealed \in BOOLEAN
    BY DEF Init
  <2>7. QED
    BY <1>1, <1>3, <2>3, <2>4, <2>5, <2>6 DEF Typed
<1>7. SenderOK
  <2>1. \A r \in Items : r > 0 /\ r \in Requests
    BY <1>2, LiveAssumption DEF Requests
  <2>2. QED
    BY <2>1 DEF Init, SenderOK
<1>8. OrderOK
  BY DEF Init, OrderOK, Distinct, ToSet
<1>9. RowsOK
  BY <1>3, Positive, LiveAssumption DEF Init, RowsOK, RowOK, Reasons
<1>10. RowsTrue
  <2>1. \A r \in Requests : kv.valid[r] = 0 /\ kv.blocks[r] = <<>>
    BY DEF Init, NewKV
  <2>2. QED
    BY <1>3, <2>1 DEF Init, RowsTrue, RowTrue
<1>11. StepsOK
  BY DEF Init, StepsOK
<1>12. QED
  BY <1>4, <1>5, <1>6, <1>7, <1>8, <1>9, <1>10, <1>11 DEF Inv

-----------------------------------------------------------------------------
(***************************************************************************)
(* The steps that touch no row.                                            *)
(***************************************************************************)

\* What holds of the rows stays when nothing of them changes.
LEMMA Kept ==
  ASSUME Inv, UNCHANGED <<limits, order, state, reason, output, consumed, lease, kv>>
  PROVE  /\ OrderOK' /\ RowsOK' /\ Room(lease)' /\ Pool(limits, kv)'
         /\ (error' = None /\ pc' # "closed" => error = None /\ pc # "closed") => RowsTrue'
<1>1. OrderOK'
  BY DEF Inv, OrderOK
<1>2. RowsOK'
  <2>1. \A r \in Requests : RowOK(r)' <=> RowOK(r)
    BY DEF RowOK, Acceptable
  <2>2. QED
    BY <2>1 DEF Inv, RowsOK
<1>3. Room(lease)'
  BY DEF Inv, Room, Cap
<1>4. Pool(limits, kv)'
  BY DEF Inv
<1>5. (error' = None /\ pc' # "closed" => error = None /\ pc # "closed") => RowsTrue'
  <2>1. \A r \in Requests : RowTrue(r)' <=> RowTrue(r)
    BY DEF RowTrue
  <2>2. QED
    BY <2>1 DEF Inv, RowsTrue
<1>6. QED
  BY <1>1, <1>2, <1>3, <1>4, <1>5

\* The batch stays good while the rows and the storage stay.
LEMMA StepsKept ==
  ASSUME Inv, UNCHANGED <<limits, pc, state, output, consumed, kv, steps>>
  PROVE  StepsOK'
<1>1. View' = View /\ In("active")' = In("active")
  BY DEF View, In
<1>2. StepsOK
  BY DEF Inv
<1>3. QED
  BY <1>1, <1>2 DEF StepsOK

\* The sender puts one more item on the queue.
LEMMA SendStep == ASSUME Inv, Send PROVE Inv'
<1> DEFINE n == Len(queue)
<1>1. /\ UNCHANGED <<limits, pc, error, odd, finished, sealed, order, state, reason, output, consumed, lease, kv,
                     preemptions, steps>>
      /\ ~finished /\ sent < Cardinality(Items) /\ sent' = sent + 1
      /\ outstanding' = outstanding \cup {sent + 1} /\ queue' = Append(queue, sent + 1)
  BY DEF Send, rows
<1>2. Typed /\ SenderOK
  BY DEF Inv
<1>3. sent \in Nat /\ Cardinality(Items) \in Nat /\ sent + 1 \in Items /\ \A r \in Items : r \in Nat /\ r \in Requests
  <2>1. IsFiniteSet(Items)
    <3>1. IsFiniteSet(Requests) /\ Items \in SUBSET Requests
      BY LiveAssumption DEF Requests
    <3>2. QED
      BY <3>1, FS_Subset
  <2>2. Cardinality(Items) \in Nat /\ Items = 1..Cardinality(Items)
    BY <2>1, FS_CardinalityType, LiveAssumption
  <2>3. sent \in 0..Cardinality(Items)
    BY <1>2 DEF Typed
  <2> DEFINE c == Cardinality(Items)
  <2>4. c \in Nat /\ Items = 1..c /\ sent \in 0..c /\ sent < c
    BY <1>1, <2>2, <2>3
  <2> HIDE DEF c
  <2>5. sent \in Nat /\ sent + 1 \in 1..c /\ \A r \in 1..c : r \in Nat
    BY <2>4
  <2>6. QED
    BY <2>2, <2>4, <2>5 DEF Requests
<1>4. queue \in Seq(Items) /\ n \in Nat /\ DOMAIN queue = 1..n /\ n <= sent
  BY <1>2 DEF Typed, SenderOK
<1>5. /\ queue' \in Seq(Items) /\ Len(queue') = n + 1 /\ DOMAIN queue' = 1..(n + 1)
      /\ queue'[n + 1] = sent + 1 /\ \A i \in 1..n : queue'[i] = queue[i]
  BY <1>1, <1>3, <1>4
<1> HIDE DEF n
<1>6. Typed'
  BY <1>1, <1>2, <1>3, <1>5 DEF Typed
<1>7. SenderOK'
  <2>1. Len(queue') <= sent' /\ sent' - Len(queue') = sent - n
    <3> DEFINE l == Len(queue')
               q == sent'
    <3>1. l = n + 1 /\ q = sent + 1 /\ n \in Nat /\ sent \in Nat /\ n <= sent
      BY <1>1, <1>3, <1>4, <1>5
    <3> HIDE DEF l, q
    <3>2. l <= q /\ q - l = sent - n
      BY <3>1
    <3>3. QED
      BY <3>2 DEF l, q
  <2>2. ASSUME NEW i \in 1..(n + 1)
        PROVE  queue'[i] = sent' - Len(queue') + i
    <3>1. CASE i = n + 1
      BY <1>3, <1>4, <1>5, <2>1, <3>1
    <3>2. CASE i # n + 1
      <4>1. i \in 1..n /\ queue[i] = sent - n + i
        BY <1>2, <1>4, <3>2 DEF SenderOK, n
      <4>2. QED
        BY <1>5, <2>1, <4>1
    <3>3. QED
      BY <3>1, <3>2
  <2>3. \A r \in Items : state'[r] = "absent" <=> r > sent' - Len(queue')
    BY <1>1, <1>2, <2>1 DEF SenderOK, n
  <2>4. pc' # "closed" => ~finished' /\ ~sealed'
    BY <1>1, <1>2 DEF SenderOK
  <2>5. QED
    BY <1>5, <2>1, <2>2, <2>3, <2>4 DEF SenderOK
<1>8. OrderOK' /\ RowsOK' /\ Room(lease)' /\ Pool(limits, kv)' /\ RowsTrue' /\ StepsOK'
  BY <1>1, Kept, StepsKept
<1>9. QED
  BY <1>6, <1>7, <1>8 DEF Inv

\* The sender falls off its loop, or out of it.
LEMMA SenderDoneStep == ASSUME Inv, SenderDone \/ SenderFails PROVE Inv'
<1>1. /\ UNCHANGED <<limits, pc, error, odd, sent, queue, outstanding, sealed, order, state, reason, output,
                     consumed, lease, kv, preemptions, steps>>
      /\ ~finished /\ finished' = TRUE
  BY DEF SenderDone, SenderFails, rows
<1>2. Typed /\ SenderOK
  BY DEF Inv
<1>3. Typed'
  BY <1>1, <1>2 DEF Typed
<1>4. SenderOK'
  BY <1>1, <1>2 DEF SenderOK
<1>5. OrderOK' /\ RowsOK' /\ Room(lease)' /\ Pool(limits, kv)' /\ RowsTrue' /\ StepsOK'
  BY <1>1, Kept, StepsKept
<1>6. QED
  BY <1>3, <1>4, <1>5 DEF Inv

\* The queue was found empty.
LEMMA DrainEmptyStep == ASSUME Inv, DrainEmpty PROVE Inv'
<1>1. /\ UNCHANGED <<limits, error, odd, sent, queue, outstanding, finished, sealed, order, state, reason, output,
                     consumed, lease, kv, preemptions, steps>>
      /\ pc = "intake" /\ pc' = "seal"
  BY DEF DrainEmpty, rows, sender
<1>2. Typed /\ SenderOK
  BY DEF Inv
<1>3. error = None
  BY <1>1, <1>2 DEF Typed
<1>4. Typed'
  BY <1>1, <1>2, <1>3 DEF Typed
<1>5. SenderOK'
  BY <1>1, <1>2 DEF SenderOK
<1>6. OrderOK' /\ RowsOK' /\ Room(lease)' /\ Pool(limits, kv)' /\ RowsTrue'
  BY <1>1, Kept
<1>7. StepsOK'
  BY <1>1 DEF StepsOK
<1>8. QED
  BY <1>4, <1>5, <1>6, <1>7 DEF Inv

\* The seal: nothing is sent once `finished` is set, so an empty queue stays so.
LEMMA SealStep == ASSUME Inv, SealCheck PROVE Inv'
<1>1. /\ UNCHANGED <<limits, error, odd, sent, queue, outstanding, finished, order, state, reason, output,
                     consumed, lease, kv, preemptions, steps>>
      /\ pc = "seal" /\ pc' = "scan" /\ sealed' = (sealed \/ (finished /\ queue = <<>>))
  BY DEF SealCheck, rows, sender
<1>2. Typed /\ SenderOK
  BY DEF Inv
<1>3. error = None
  BY <1>1, <1>2 DEF Typed
<1>4. Typed'
  <2>1. sealed' \in BOOLEAN
    BY <1>1, Zenon
  <2>2. QED
    BY <1>1, <1>2, <1>3, <2>1 DEF Typed
<1>5. SenderOK'
  BY <1>1, <1>2 DEF SenderOK
<1>6. OrderOK' /\ RowsOK' /\ Room(lease)' /\ Pool(limits, kv)' /\ RowsTrue'
  BY <1>1, Kept
<1>7. StepsOK'
  BY <1>1 DEF StepsOK
<1>8. QED
  BY <1>4, <1>5, <1>6, <1>7 DEF Inv

-----------------------------------------------------------------------------
(***************************************************************************)
(* Rows that come and rows that end.                                       *)
(***************************************************************************)

\* Nothing has failed while the loop runs.
LEMMA Running ==
  ASSUME Inv, pc \notin {"ended", "closed"}
  PROVE  error = None /\ \A r \in Requests : RowTrue(r)
BY DEF Inv, Typed, RowsTrue

\* accept adds a row that was not known, waiting or already rejected.
LEMMA AcceptRow ==
  ASSUME Inv, NEW x \in Requests, state[x] = "absent", Accept(x), pc \in {"intake", "scan"},
         UNCHANGED <<limits, pc, error, odd, sent, outstanding, finished, sealed, output, consumed, lease, kv,
                     preemptions, steps>>,
         queue' \in Seq(Items)
  PROVE  /\ Typed' /\ OrderOK' /\ RowsOK' /\ RowsTrue' /\ Room(lease)' /\ Pool(limits, kv)' /\ StepsOK'
         /\ state'[x] # "absent" /\ \A r \in Requests \ {x} : state'[r] = state[r]
<1> DEFINE st == IF Acceptable(x) THEN "waiting" ELSE "terminal"
           why == IF Acceptable(x) THEN None ELSE "rejected"
<1>1. Typed /\ OrderOK /\ RowsOK /\ RowsTrue /\ Room(lease) /\ Pool(limits, kv)
  BY DEF Inv
<1>2. error = None /\ \A r \in Requests : RowTrue(r)
  BY Running
<1>3. order' = Append(order, x) /\ state' = [state EXCEPT ![x] = st] /\ reason' = [reason EXCEPT ![x] = why]
  BY DEF Accept
<1>4. /\ state \in [Requests -> {"absent", "waiting", "active", "terminal"}]
      /\ reason \in [Requests -> Reasons \cup {None}] /\ order \in Seq(Requests)
  BY <1>1 DEF Typed
<1>5. /\ st \in {"waiting", "terminal"} /\ why \in Reasons \cup {None} /\ why # "length"
      /\ st = "waiting" => Acceptable(x) /\ why = None
  BY LiveAssumption DEF Reasons
<1> HIDE DEF st, why
<1>6. /\ state' \in [Requests -> {"absent", "waiting", "active", "terminal"}]
      /\ state'[x] = st /\ \A r \in Requests \ {x} : state'[r] = state[r]
  BY <1>3, <1>4, <1>5
<1>7. /\ reason' \in [Requests -> Reasons \cup {None}]
      /\ reason'[x] = why /\ \A r \in Requests \ {x} : reason'[r] = reason[r]
  BY <1>3, <1>4, <1>5
<1>8. order' \in Seq(Requests)
  BY <1>3, <1>4
<1>9. Typed'
  BY <1>1, <1>6, <1>7, <1>8 DEF Typed
<1>10. OrderOK'
  <2>1. x \notin ToSet(order)
    BY <1>1 DEF OrderOK
  <2>2. /\ Len(order') = Len(order) + 1 /\ order'[Len(order) + 1] = x
        /\ \A i \in 1..Len(order) : order'[i] = order[i]
        /\ DOMAIN order = 1..Len(order) /\ DOMAIN order' = 1..(Len(order) + 1) /\ Len(order) \in Nat
    BY <1>3, <1>4
  <2>3. \A i \in 1..Len(order) : order[i] # x
    BY <2>1, <2>2 DEF ToSet
  <2>4. Distinct(order')
    BY <1>1, <2>2, <2>3 DEF OrderOK, Distinct
  <2>5. ToSet(order') = ToSet(order) \cup {x}
    BY <2>2 DEF ToSet
  <2>6. ToSet(order) = {r \in Requests : state[r] # "absent"}
    BY <1>1 DEF OrderOK
  <2>7. {r \in Requests : state'[r] # "absent"} = {r \in Requests : state[r] # "absent"} \cup {x}
    BY <1>5, <1>6
  <2>8. QED
    BY <2>4, <2>5, <2>6, <2>7 DEF OrderOK
<1>11. RowsOK'
  <2>1. ASSUME NEW r \in Requests
        PROVE  RowOK(r)'
    <3>1. RowOK(r) /\ (Acceptable(r)' <=> Acceptable(r)) /\ Output[r] \in Nat \ {0}
      BY <1>1, Positive DEF RowsOK, Acceptable
    <3>2. CASE r = x
      BY <1>5, <1>6, <1>7, <3>1, <3>2 DEF RowOK
    <3>3. CASE r # x
      BY <1>6, <1>7, <3>1, <3>3 DEF RowOK
    <3>4. QED
      BY <3>2, <3>3
  <2>2. QED
    BY <2>1 DEF RowsOK
<1>12. RowsTrue'
  <2>1. ASSUME NEW r \in Requests
        PROVE  RowTrue(r)'
    <3>1. CASE r = x
      <4>1. RowTrue(x) /\ RowOK(x)
        BY <1>1, <1>2 DEF RowsOK
      <4>2. /\ lease[x] = None /\ kv.valid[x] = 0 /\ kv.blocks[x] = <<>> /\ consumed[x] = 0
        BY <4>1 DEF RowTrue, RowOK
      <4>3. QED
        BY <1>5, <1>6, <3>1, <4>2 DEF RowTrue
    <3>2. CASE r # x
      BY <1>2, <1>6, <3>2 DEF RowTrue
    <3>3. QED
      BY <3>1, <3>2
  <2>2. QED
    BY <2>1 DEF RowsTrue
<1>13. Room(lease)' /\ Pool(limits, kv)'
  BY <1>1 DEF Room, Cap
<1>14. StepsOK'
  BY DEF StepsOK
<1>15. QED
  BY <1>5, <1>6, <1>9, <1>10, <1>11, <1>12, <1>13, <1>14

\* The head of the queue is the next item of the workload: it was not known.
LEMMA HeadIsNew ==
  ASSUME Inv, queue # <<>>
  PROVE  Head(queue) \in Requests /\ state[Head(queue)] = "absent"
<1> DEFINE n == Len(queue)
           x == Head(queue)
<1>1. queue \in Seq(Items) /\ sent \in Nat /\ SenderOK
  <2>1. sent \in 0..Cardinality(Items) /\ queue \in Seq(Items)
    BY DEF Inv, Typed
  <2>2. QED
    BY <2>1 DEF Inv
<1>2. n \in Nat /\ n >= 1 /\ x = queue[1] /\ x \in Items /\ DOMAIN queue = 1..n
  BY <1>1
<1> HIDE DEF n, x
<1>3. /\ n <= sent /\ \A i \in 1..n : queue[i] = sent - n + i
      /\ \A r \in Items : state[r] = "absent" <=> r > sent - n
  BY <1>1, <1>2 DEF SenderOK, n
<1>4. x = sent - n + 1
  BY <1>1, <1>2, <1>3
<1>5. x \in Requests /\ state[x] = "absent"
  BY <1>1, <1>2, <1>3, <1>4 DEF Requests
<1>6. QED
  BY <1>5 DEF x

\* The engine takes an item off the queue and accepts it: it is the next of the
\* workload, so it was not known.
LEMMA DrainItemStep == ASSUME Inv, DrainItem PROVE Inv'
<1> DEFINE n == Len(queue)
           x == Head(queue)
<1>1. /\ pc = "intake" /\ queue # <<>> /\ Accept(x) /\ queue' = Tail(queue)
      /\ UNCHANGED <<limits, pc, error, odd, sent, outstanding, finished, sealed, output, consumed, lease, kv,
                     preemptions, steps>>
  BY DEF DrainItem
<1>2. Typed /\ SenderOK
  BY DEF Inv
<1>3. queue \in Seq(Items) /\ sent \in Nat
  <2>1. sent \in 0..Cardinality(Items) /\ queue \in Seq(Items)
    BY <1>2 DEF Typed
  <2>2. QED
    BY <2>1
<1>4. /\ n \in Nat /\ n >= 1 /\ x = queue[1] /\ x \in Items /\ queue' \in Seq(Items) /\ Len(queue') = n - 1
      /\ \A i \in 1..(n - 1) : queue'[i] = queue[i + 1]
      /\ DOMAIN queue = 1..n /\ DOMAIN queue' = 1..(n - 1)
  BY <1>1, <1>3
<1> HIDE DEF n, x
<1>5. /\ n <= sent /\ \A i \in 1..n : queue[i] = sent - n + i
      /\ \A r \in Items : state[r] = "absent" <=> r > sent - n
  BY <1>2, <1>4 DEF SenderOK, n
<1>6. x = sent - n + 1
  BY <1>3, <1>4, <1>5
<1>7. x \in Requests /\ state[x] = "absent"
  BY <1>3, <1>4, <1>5, <1>6 DEF Requests
<1>8. /\ Typed' /\ OrderOK' /\ RowsOK' /\ RowsTrue' /\ Room(lease)' /\ Pool(limits, kv)' /\ StepsOK'
      /\ state'[x] # "absent" /\ \A r \in Requests \ {x} : state'[r] = state[r]
  BY <1>1, <1>4, <1>7, AcceptRow
<1>9. SenderOK'
  <2> DEFINE l == Len(queue')
             q == sent'
  <2>1. l = n - 1 /\ q = sent
    BY <1>1, <1>4
  <2> HIDE DEF l, q
  <2>2. l <= q /\ q - l = sent - n + 1
    BY <1>3, <1>4, <1>5, <2>1
  <2>3. \A i \in 1..(n - 1) : queue'[i] = q - l + i
    <3>1. ASSUME NEW i \in 1..(n - 1)
          PROVE  queue'[i] = q - l + i
      <4>1. i + 1 \in 1..n /\ queue'[i] = queue[i + 1]
        BY <1>4
      <4>2. queue[i + 1] = sent - n + (i + 1)
        BY <1>5, <4>1
      <4>3. QED
        BY <1>3, <1>4, <2>2, <4>1, <4>2
    <3>2. QED
      BY <3>1
  <2>4. ASSUME NEW r \in Items
        PROVE  state'[r] = "absent" <=> r > q - l
    <3>1. r \in Int /\ r \in Requests
      <4> DEFINE c == Cardinality(Items)
      <4>1. r \in 1..c /\ r \in Requests
        BY LiveAssumption DEF Requests
      <4> HIDE DEF c
      <4>2. QED
        BY <4>1
    <3>2. CASE r = x
      BY <1>3, <1>4, <1>6, <1>8, <2>2, <3>2
    <3>3. CASE r # x
      <4>1. state'[r] = state[r]
        BY <1>8, <3>1, <3>3
      <4>2. state[r] = "absent" <=> r > sent - n
        BY <1>5
      <4>3. r # sent - n + 1
        BY <1>6, <3>3
      <4>4. QED
        BY <1>3, <1>4, <2>2, <3>1, <4>1, <4>2, <4>3
    <3>4. QED
      BY <3>2, <3>3
  <2>5. pc' # "closed" => ~sealed'
    BY <1>1, <1>2 DEF SenderOK
  <2>6. QED
    BY <1>4, <2>2, <2>3, <2>4, <2>5 DEF SenderOK, l, q
<1>10. QED
  BY <1>8, <1>9 DEF Inv

\* A request arrives over `controls`.
LEMMA IngressStep == ASSUME Inv, NEW x \in Requests, Ingress(x) PROVE Inv'
<1>1. /\ pc = "scan" /\ x \in External /\ state[x] = "absent" /\ Accept(x)
      /\ UNCHANGED <<limits, pc, error, odd, sent, queue, outstanding, finished, sealed, output, consumed, lease, kv,
                     preemptions, steps>>
  BY DEF Ingress, sender
<1>2. Typed /\ SenderOK
  BY DEF Inv
<1>3. queue' \in Seq(Items)
  BY <1>1, <1>2 DEF Typed
<1>4. /\ Typed' /\ OrderOK' /\ RowsOK' /\ RowsTrue' /\ Room(lease)' /\ Pool(limits, kv)' /\ StepsOK'
      /\ state'[x] # "absent" /\ \A r \in Requests \ {x} : state'[r] = state[r]
  BY <1>1, <1>3, AcceptRow
<1>5. \A r \in Items : state'[r] = state[r]
  <2>1. x \notin Items /\ Items \subseteq Requests
    BY <1>1, LiveAssumption DEF Requests
  <2>2. QED
    BY <1>4, <2>1
<1>6. SenderOK'
  BY <1>1, <1>2, <1>5 DEF SenderOK
<1>7. QED
  BY <1>4, <1>6 DEF Inv

\* finish, for rows that are live: they end, and what they held is given back.
LEMMA FinishRows ==
  ASSUME Inv, pc \notin {"ended", "closed"}, NEW rs \in Seq(Requests), Distinct(rs), ToSet(rs) \subseteq Live,
         NEW why \in Reasons \ {"length"}, Finish(rs, why), UNCHANGED <<limits, order, output, consumed>>
  PROVE  /\ state' \in [Requests -> {"absent", "waiting", "active", "terminal"}]
         /\ reason' \in [Requests -> Reasons \cup {None}] /\ lease' \in Leases
         /\ OrderOK' /\ RowsOK' /\ Room(lease)' /\ Pool(limits, kv)' /\ \A r \in Requests : RowTrue(r)'
         /\ \A r \in Requests : state'[r] = IF r \in ToSet(rs) THEN "terminal" ELSE state[r]
         /\ \A r \in Requests : state'[r] = "absent" <=> state[r] = "absent"
<1> DEFINE T == ToSet(rs)
           H == {r \in Requests : lease[r] # None}
           out == Among(rs, H)
<1>1. Typed /\ OrderOK /\ RowsOK /\ Room(lease) /\ Pool(limits, kv)
  BY DEF Inv
<1>2. error = None /\ \A r \in Requests : RowTrue(r)
  BY Running
<1>3. /\ state' = [r \in Requests |-> IF r \in T THEN "terminal" ELSE state[r]]
      /\ reason' = [r \in Requests |-> IF r \in T THEN why ELSE reason[r]]
      /\ lease' = [r \in Requests |-> IF r \in T THEN None ELSE lease[r]]
      /\ kv' = ReleaseAll(kv, out)
  BY DEF Finish, ReleaseRows
<1>4. T \subseteq {r \in Requests : state[r] \in {"waiting", "active"}}
  BY DEF Live, In
<1>5. out \in Seq(Requests) /\ ToSet(out) = T \cap H
  BY AmongKeeps
<1> HIDE DEF T, out
<1>6. /\ state' \in [Requests -> {"absent", "waiting", "active", "terminal"}]
      /\ \A r \in Requests : state'[r] = IF r \in T THEN "terminal" ELSE state[r]
  BY <1>1, <1>3 DEF Typed
<1>7. /\ reason' \in [Requests -> Reasons \cup {None}]
      /\ \A r \in Requests : reason'[r] = IF r \in T THEN why ELSE reason[r]
  BY <1>1, <1>3 DEF Typed
<1>8. /\ lease' \in Leases
      /\ \A r \in Requests : lease'[r] = IF r \in T THEN None ELSE lease[r]
  BY <1>1, <1>3 DEF Typed, Leases
<1>9. \A r \in Requests : state'[r] = "absent" <=> state[r] = "absent"
  BY <1>4, <1>6
<1>10. OrderOK'
  <2>1. {r \in Requests : state'[r] # "absent"} = {r \in Requests : state[r] # "absent"}
    BY <1>9
  <2>2. QED
    BY <1>1, <2>1 DEF OrderOK
<1>11. RowsOK'
  <2>1. ASSUME NEW r \in Requests
        PROVE  RowOK(r)'
    <3>1. RowOK(r) /\ (Acceptable(r)' <=> Acceptable(r))
      BY <1>1 DEF RowsOK, Acceptable
    <3>2. CASE r \in T
      BY <1>6, <1>7, <1>8, <3>1, <3>2 DEF RowOK
    <3>3. CASE r \notin T
      BY <1>6, <1>7, <1>8, <3>1, <3>3 DEF RowOK
    <3>4. QED
      BY <3>2, <3>3
  <2>2. QED
    BY <2>1 DEF RowsOK
<1>12. Room(lease)'
  <2>1. \A r \in Requests : lease'[r] # None => lease[r] # None /\ lease'[r].capacity = lease[r].capacity
    BY <1>8
  <2>2. lease \in Leases /\ lease' \in Leases
    BY <1>1, <1>8 DEF Typed
  <2>3. Reserved(lease') <= Reserved(lease) /\ Held(lease') <= Held(lease)
    BY <2>1, <2>2, ReserveLess
  <2>4. /\ Reserved(lease) \in Nat /\ Held(lease) \in Nat /\ Reserved(lease') \in Nat /\ Held(lease') \in Nat
        /\ Reserved(lease) <= limits.capacity /\ Held(lease) <= Cap
    BY <1>1, <2>2, ReserveNat DEF Room
  <2>5. limits.capacity \in Nat /\ Cap \in Nat
    BY <1>1, Positive DEF Typed, Cap
  <2>6. Reserved(lease') <= limits.capacity /\ Held(lease') <= Cap
    BY <2>3, <2>4, <2>5
  <2>7. QED
    BY <2>6 DEF Room, Cap
<1>13. Pool(limits, kv)'
  <2>1. Pool(limits, ReleaseAll(kv, out))
    BY <1>1, <1>5, ReleaseAllPool DEF Typed
  <2>2. QED
    BY <1>3, <2>1
<1>14. ASSUME NEW r \in Requests
       PROVE  RowTrue(r)'
  <2>1. Storage(kv)
    BY <1>1 DEF Pool
  <2>2. IF r \in ToSet(out) THEN kv'.valid[r] = 0 /\ kv'.blocks[r] = <<>>
        ELSE kv'.valid[r] = kv.valid[r] /\ kv'.blocks[r] = kv.blocks[r]
    BY <1>3, <1>5, <2>1, ReleasesRows
  <2>3. CASE r \in T
    <3>1. state'[r] = "terminal" /\ lease'[r] = None
      BY <1>6, <1>8, <2>3
    <3>2. CASE lease[r] # None
      <4>1. r \in ToSet(out)
        BY <1>5, <2>3, <3>2
      <4>2. QED
        BY <2>2, <3>1, <4>1 DEF RowTrue
    <3>3. CASE lease[r] = None
      <4>1. kv.valid[r] = 0 /\ kv.blocks[r] = <<>>
        BY <1>2, <3>3 DEF RowTrue
      <4>2. QED
        BY <2>2, <3>1, <4>1 DEF RowTrue
    <3>4. QED
      BY <3>2, <3>3
  <2>4. CASE r \notin T
    <3>1. state'[r] = state[r] /\ lease'[r] = lease[r] /\ kv'.valid[r] = kv.valid[r] /\ kv'.blocks[r] = kv.blocks[r]
      BY <1>5, <1>6, <1>8, <2>2, <2>4
    <3>2. QED
      BY <1>2, <3>1 DEF RowTrue
  <2>5. QED
    BY <2>3, <2>4
<1>15. QED
  BY <1>6, <1>7, <1>8, <1>9, <1>10, <1>11, <1>12, <1>13, <1>14 DEF T

\* SenderOK depends on which rows are known, not on how far they are.
LEMMA SenderKept ==
  ASSUME Inv, \A r \in Requests : state'[r] = "absent" <=> state[r] = "absent",
         UNCHANGED <<sent, queue, finished, sealed>>, pc # "closed"
  PROVE  SenderOK'
<1>1. SenderOK /\ Items \subseteq Requests
  BY DEF Inv, Requests
<1>2. \A r \in Items : state'[r] = "absent" <=> state[r] = "absent"
  BY <1>1
<1>3. QED
  BY <1>1, <1>2 DEF SenderOK

\* cancel_request ends one live row.
LEMMA CancelStep == ASSUME Inv, NEW x \in Requests, CancelRequest(x) PROVE Inv'
<1> DEFINE rs == <<x>>
<1>1. /\ pc = "scan" /\ x \in Live /\ Finish(rs, "interrupted")
      /\ UNCHANGED <<limits, pc, error, odd, sent, queue, outstanding, finished, sealed, order, output, consumed,
                     preemptions, steps>>
  BY DEF CancelRequest, sender
<1>2. rs \in Seq(Requests) /\ Distinct(rs) /\ ToSet(rs) \subseteq Live
  BY <1>1 DEF Distinct, ToSet
<1>3. "interrupted" \in Reasons \ {"length"}
  BY DEF Reasons
<1> HIDE DEF rs
<1>4. /\ state' \in [Requests -> {"absent", "waiting", "active", "terminal"}]
      /\ reason' \in [Requests -> Reasons \cup {None}] /\ lease' \in Leases
      /\ OrderOK' /\ RowsOK' /\ Room(lease)' /\ Pool(limits, kv)' /\ \A r \in Requests : RowTrue(r)'
      /\ \A r \in Requests : state'[r] = "absent" <=> state[r] = "absent"
  BY <1>1, <1>2, <1>3, FinishRows
<1>5. Typed'
  BY <1>1, <1>4 DEF Inv, Typed
<1>6. SenderOK'
  BY <1>1, <1>4, SenderKept
<1>7. RowsTrue' /\ StepsOK'
  BY <1>1, <1>4 DEF RowsTrue, StepsOK
<1>8. QED
  BY <1>4, <1>5, <1>6, <1>7 DEF Inv

\* The loop over self.rows ends the rows that are due.
LEMMA ScanStep == ASSUME Inv, NEW due \in SUBSET Live, NEW stopping, Scan(due, stopping) PROVE Inv'
<1> DEFINE rs == InOrder(due)
<1>1. /\ pc = "scan" /\ Finish(rs, "interrupted") /\ outstanding' = outstanding \ In("terminal")
      /\ pc' \in {"ended", "admit"}
      /\ UNCHANGED <<limits, error, odd, sent, queue, finished, sealed, order, output, consumed, preemptions, steps>>
  BY DEF Scan
<1>2. rs \in Seq(Requests) /\ Distinct(rs) /\ ToSet(rs) \subseteq Live
  <2>1. order \in Seq(Requests) /\ Distinct(order)
    BY DEF Inv, Typed, OrderOK
  <2>2. rs \in Seq(Requests) /\ Distinct(rs) /\ ToSet(rs) = ToSet(order) \cap due
    BY <2>1, AmongKeeps DEF InOrder
  <2>3. QED
    BY <2>2
<1>3. "interrupted" \in Reasons \ {"length"}
  BY DEF Reasons
<1> HIDE DEF rs
<1>4. /\ state' \in [Requests -> {"absent", "waiting", "active", "terminal"}]
      /\ reason' \in [Requests -> Reasons \cup {None}] /\ lease' \in Leases
      /\ OrderOK' /\ RowsOK' /\ Room(lease)' /\ Pool(limits, kv)' /\ \A r \in Requests : RowTrue(r)'
      /\ \A r \in Requests : state'[r] = "absent" <=> state[r] = "absent"
  BY <1>1, <1>2, <1>3, FinishRows
<1>5. Typed'
  <2>1. error = None
    BY <1>1 DEF Inv, Typed
  <2>2. QED
    BY <1>1, <1>4, <2>1 DEF Inv, Typed
<1>6. SenderOK'
  BY <1>1, <1>4, SenderKept
<1>7. RowsTrue' /\ StepsOK'
  BY <1>1, <1>4 DEF RowsTrue, StepsOK
<1>8. QED
  BY <1>4, <1>5, <1>6, <1>7 DEF Inv

-----------------------------------------------------------------------------
(***************************************************************************)
(* Admission.                                                              *)
(***************************************************************************)

\* min() gives one victim: two of the same priority differ in their place.
LEMMA OneVictim ==
  ASSUME Inv, NEW s, NEW V, V = {v \in In("active") : Preempts(s, v)}
  PROVE  /\ IsFiniteSet(V) /\ Cardinality(V) \in 0..1
         /\ V # {} => preemptions < limits.preempt
<1>1. ASSUME NEW v \in V, NEW w \in V
      PROVE  v = w
  <2> DEFINE at(r) == CHOOSE i \in DOMAIN order : order[i] = r
  <2>1. /\ v \in In("active") /\ w \in In("active") /\ IsVictim(v) /\ IsVictim(w)
        /\ v \in Requests /\ w \in Requests
    BY DEF Preempts, In
  <2>2. Priority[v] \in Int /\ Priority[w] \in Int
    BY <2>1, LiveAssumption
  <2>3. \A r \in In("active") : at(r) \in DOMAIN order /\ order[at(r)] = r
    <3>1. ASSUME NEW r \in In("active")
          PROVE  \E i \in DOMAIN order : order[i] = r
      <4>1. r \in ToSet(order)
        BY DEF Inv, OrderOK, In
      <4>2. QED
        BY <4>1 DEF ToSet
    <3>2. QED
      BY <3>1
  <2>4. /\ Priority[v] < Priority[w] \/ (Priority[v] = Priority[w] /\ at(v) >= at(w))
        /\ Priority[w] < Priority[v] \/ (Priority[w] = Priority[v] /\ at(w) >= at(v))
    BY <2>1 DEF IsVictim
  <2>5. at(v) \in Int /\ at(w) \in Int /\ order[at(v)] = v /\ order[at(w)] = w
    <3>1. DOMAIN order = 1..Len(order)
      BY DEF Inv, Typed
    <3>2. QED
      BY <2>1, <2>3, <3>1
  <2> HIDE DEF at
  <2>6. at(v) = at(w)
    BY <2>2, <2>4, <2>5
  <2>7. QED
    BY <2>5, <2>6
<1>2. CASE V = {}
  BY <1>2, FS_EmptySet
<1>3. CASE V # {}
  <2>1. PICK v \in V : TRUE
    BY <1>3
  <2>2. V = {v}
    BY <1>1, <2>1
  <2>3. IsFiniteSet(V) /\ Cardinality(V) = 1
    BY <2>2, FS_Singleton
  <2>4. preemptions < limits.preempt
    BY <2>1 DEF Preempts
  <2>5. QED
    BY <2>3, <2>4
<1>4. QED
  BY <1>2, <1>3

\* What admission does to the rows.
LEMMA AdmitRows ==
  ASSUME Inv, Admit
  PROVE  \E V \in SUBSET In("active") :
            /\ preemptions' = preemptions + Cardinality(V) /\ Cardinality(V) \in 0..1
            /\ V # {} => preemptions < limits.preempt
            /\ Pool(limits, kv') /\ lease' \in Leases /\ Room(lease')
            /\ consumed' \in [Requests -> Nat]
            /\ state' \in [Requests -> {"absent", "waiting", "active", "terminal"}]
            /\ \A r \in Requests :
                  /\ state'[r] = IF r \notin Live THEN state[r] ELSE IF lease'[r] = None THEN "waiting" ELSE "active"
                  /\ consumed'[r] = IF r \in V THEN 0 ELSE consumed[r]
                  /\ \/ lease'[r] = (IF r \in V THEN None ELSE lease[r])
                     \/ state[r] = "waiting" /\ lease'[r] = [capacity |-> Needed(r), valid |-> 0]
                  /\ IF r \in V THEN kv'.valid[r] = 0 /\ kv'.blocks[r] = <<>>
                     ELSE kv'.valid[r] = kv.valid[r] /\ kv'.blocks[r] = kv.blocks[r]
<1> DEFINE W == In("waiting")
<1>1. /\ Typed /\ OrderOK /\ Room(lease) /\ Pool(limits, kv) /\ pc = "admit" /\ IsFiniteSet(Requests)
      /\ lease \in Leases /\ order \in Seq(Requests) /\ Distinct(order) /\ limits \in Limits
  BY LiveAssumption DEF Inv, Typed, OrderOK, Admit
<1>2. \A r \in Requests : RowTrue(r)
  BY <1>1, Running
<1>3. PICK s \in Ordered(W) :
        LET U == {v \in In("active") : Preempts(s, v)}
            left == [r \in Requests |-> IF r \in U THEN None ELSE lease[r]]
        IN  /\ Evict(U) /\ lease' = AdmitAll(left, s)
            /\ state' = [r \in Requests |-> IF r \notin Live THEN state[r]
                                            ELSE IF lease'[r] = None THEN "waiting" ELSE "active"]
  BY DEF Admit
<1> DEFINE V == {v \in In("active") : Preempts(s, v)}
           left == [r \in Requests |-> IF r \in V THEN None ELSE lease[r]]
           out == InOrder(V)
<1>4. /\ kv' = ReleaseAll(kv, out)
      /\ consumed' = [r \in Requests |-> IF r \in V THEN 0 ELSE consumed[r]]
      /\ preemptions' = preemptions + Cardinality(V) /\ lease' = AdmitAll(left, s)
      /\ state' = [r \in Requests |-> IF r \notin Live THEN state[r]
                                      ELSE IF lease'[r] = None THEN "waiting" ELSE "active"]
  BY <1>3 DEF Evict
<1>5. IsFiniteSet(V) /\ Cardinality(V) \in 0..1 /\ (V # {} => preemptions < limits.preempt)
  BY OneVictim
<1>6. V \in SUBSET In("active") /\ V \in SUBSET Requests /\ V \subseteq ToSet(order)
  BY <1>1 DEF In, OrderOK
<1>7. out \in Seq(Requests) /\ ToSet(out) = V
  <2>1. out \in Seq(Requests) /\ ToSet(out) = ToSet(order) \cap V
    BY <1>1, AmongKeeps DEF InOrder
  <2>2. QED
    BY <1>6, <2>1
<1>8. s \in Seq(W) /\ Distinct(s) /\ ToSet(s) = W
  <2>1. W \in SUBSET Requests /\ W \subseteq ToSet(order)
    BY <1>1 DEF In, OrderOK
  <2> HIDE DEF W
  <2>2. QED
    BY <1>1, <2>1, OrderedRows
<1>9. \A r \in Requests : r \in W <=> state[r] = "waiting"
  BY DEF In
<1> HIDE DEF V, out, W
<1>10. left \in Leases /\ \A r \in Requests : left[r] = IF r \in V THEN None ELSE lease[r]
  BY <1>1 DEF Leases
<1> HIDE DEF left
<1>11. Room(left)
  <2>1. \A r \in Requests : left[r] # None => lease[r] # None /\ left[r].capacity = lease[r].capacity
    BY <1>10
  <2>2. Reserved(left) <= Reserved(lease) /\ Held(left) <= Held(lease)
    BY <1>1, <1>10, <2>1, ReserveLess
  <2>3. /\ Reserved(lease) \in Nat /\ Held(lease) \in Nat /\ Reserved(left) \in Nat /\ Held(left) \in Nat
        /\ Reserved(lease) <= limits.capacity /\ Held(lease) <= Cap
    BY <1>1, <1>10, ReserveNat DEF Room
  <2>4. limits.capacity \in Nat /\ Cap \in Nat
    BY <1>1, Positive DEF Cap
  <2>5. Reserved(left) <= limits.capacity /\ Held(left) <= Cap
    BY <2>2, <2>3, <2>4
  <2>6. QED
    BY <2>5 DEF Room
<1>12. s \in Seq(Requests) /\ \A i \in DOMAIN s : left[s[i]] = None
  <2>1. s \in Seq(Requests)
    BY <1>8 DEF W, In
  <2>2. ASSUME NEW i \in DOMAIN s
        PROVE  left[s[i]] = None
    <3>1. s[i] \in Requests /\ state[s[i]] = "waiting"
      BY <1>8, <1>9, <2>1
    <3>2. lease[s[i]] = None
      BY <1>2, <3>1 DEF RowTrue
    <3>3. QED
      BY <1>10, <3>1, <3>2
  <2>3. QED
    BY <2>1, <2>2
<1>13. /\ lease' \in Leases /\ Room(AdmitAll(left, s))
       /\ \A r \in Requests : \/ lease'[r] = left[r]
                              \/ r \in ToSet(s) /\ lease'[r] = [capacity |-> Needed(r), valid |-> 0]
  BY <1>1, <1>4, <1>8, <1>10, <1>11, <1>12, Admits
<1>14. Room(lease')
  BY <1>4, <1>13
<1>15. Pool(limits, kv')
  <2>1. Pool(limits, ReleaseAll(kv, out))
    BY <1>1, <1>7, ReleaseAllPool
  <2>2. QED
    BY <1>4, <2>1
<1>16. \A r \in Requests : IF r \in V THEN kv'.valid[r] = 0 /\ kv'.blocks[r] = <<>>
                           ELSE kv'.valid[r] = kv.valid[r] /\ kv'.blocks[r] = kv.blocks[r]
  <2>1. Storage(kv)
    BY <1>1 DEF Pool
  <2>2. QED
    BY <1>4, <1>7, <2>1, ReleasesRows
<1>17. consumed' \in [Requests -> Nat] /\ \A r \in Requests : consumed'[r] = IF r \in V THEN 0 ELSE consumed[r]
  BY <1>1, <1>4 DEF Typed
<1>18. /\ state' \in [Requests -> {"absent", "waiting", "active", "terminal"}]
       /\ \A r \in Requests : state'[r] = IF r \notin Live THEN state[r]
                                          ELSE IF lease'[r] = None THEN "waiting" ELSE "active"
  BY <1>1, <1>4 DEF Typed
<1>19. \A r \in Requests :
          \/ lease'[r] = (IF r \in V THEN None ELSE lease[r])
          \/ state[r] = "waiting" /\ lease'[r] = [capacity |-> Needed(r), valid |-> 0]
  <2>1. ASSUME NEW r \in Requests
        PROVE  \/ lease'[r] = (IF r \in V THEN None ELSE lease[r])
               \/ state[r] = "waiting" /\ lease'[r] = [capacity |-> Needed(r), valid |-> 0]
    <3> DEFINE e == [capacity |-> Needed(r), valid |-> 0]
    <3>1. lease'[r] = left[r] \/ (r \in ToSet(s) /\ lease'[r] = e)
      BY <1>13
    <3> HIDE DEF e
    <3>2. (r \in ToSet(s) => state[r] = "waiting") /\ left[r] = (IF r \in V THEN None ELSE lease[r])
      BY <1>8, <1>9, <1>10
    <3>3. lease'[r] = (IF r \in V THEN None ELSE lease[r]) \/ (state[r] = "waiting" /\ lease'[r] = e)
      BY <3>1, <3>2
    <3>4. QED
      BY <3>3 DEF e
  <2>2. QED
    BY <2>1
<1> USE <1>6
<1>20. WITNESS V \in SUBSET In("active")
<1>21. QED
  BY <1>4, <1>5, <1>13, <1>14, <1>15, <1>16, <1>17, <1>18, <1>19

\* Admission keeps the books: the victim starts again, the rows let in start.
LEMMA AdmitStep == ASSUME Inv, Admit PROVE Inv'
<1>1. /\ Typed /\ OrderOK /\ RowsOK /\ pc = "admit" /\ pc' = "plan"
      /\ UNCHANGED <<limits, error, odd, sent, queue, outstanding, finished, sealed, order, reason, output, steps>>
  BY DEF Inv, Admit, sender
<1>2. error = None /\ \A r \in Requests : RowTrue(r)
  BY <1>1, Running
<1>3. PICK V \in SUBSET In("active") :
            /\ preemptions' = preemptions + Cardinality(V) /\ Cardinality(V) \in 0..1
            /\ V # {} => preemptions < limits.preempt
            /\ Pool(limits, kv') /\ lease' \in Leases /\ Room(lease')
            /\ consumed' \in [Requests -> Nat]
            /\ state' \in [Requests -> {"absent", "waiting", "active", "terminal"}]
            /\ \A r \in Requests :
                  /\ state'[r] = IF r \notin Live THEN state[r] ELSE IF lease'[r] = None THEN "waiting" ELSE "active"
                  /\ consumed'[r] = IF r \in V THEN 0 ELSE consumed[r]
                  /\ \/ lease'[r] = (IF r \in V THEN None ELSE lease[r])
                     \/ state[r] = "waiting" /\ lease'[r] = [capacity |-> Needed(r), valid |-> 0]
                  /\ IF r \in V THEN kv'.valid[r] = 0 /\ kv'.blocks[r] = <<>>
                     ELSE kv'.valid[r] = kv.valid[r] /\ kv'.blocks[r] = kv.blocks[r]
  BY AdmitRows
<1>4. \A r \in Requests : (r \in Live <=> state[r] \in {"waiting", "active"}) /\ (r \in V => state[r] = "active")
  BY DEF Live, In
<1>5. \A r \in Requests : state'[r] = "absent" <=> state[r] = "absent"
  BY <1>3, <1>4
<1>6. preemptions' \in 0..limits.preempt
  <2> DEFINE c == Cardinality(V)
             p == preemptions
             m == limits.preempt
  <2>1. /\ c \in 0..1 /\ p \in 0..m /\ m \in Nat /\ (V # {} => p < m) /\ preemptions' = p + c
        /\ (V = {} => c = 0)
    BY <1>1, <1>3, Positive, FS_EmptySet DEF Typed
  <2> HIDE DEF c, p, m
  <2>2. p + c \in 0..m
    BY <2>1
  <2>3. QED
    BY <2>1, <2>2 DEF m
<1>7. Typed'
  BY <1>1, <1>2, <1>3, <1>6 DEF Typed
<1>8. SenderOK'
  BY <1>1, <1>5, SenderKept
<1>9. OrderOK'
  <2>1. {r \in Requests : state'[r] # "absent"} = {r \in Requests : state[r] # "absent"}
    BY <1>5
  <2>2. QED
    BY <1>1, <2>1 DEF OrderOK
<1>10. ASSUME NEW r \in Requests
       PROVE  RowOK(r)' /\ RowTrue(r)'
  <2> DEFINE e == [capacity |-> Needed(r), valid |-> 0]
  <2>1. /\ RowOK(r) /\ RowTrue(r) /\ (Acceptable(r)' <=> Acceptable(r)) /\ Needed(r) \in Nat \ {0}
        /\ Input[r] \in Nat \ {0} /\ output[r] \in Nat
    BY <1>1, <1>2, Positive DEF RowsOK, Acceptable, Typed
  <2>2. e # None /\ e.capacity = Needed(r) /\ e.valid = 0
    <3>1. e \in [capacity : Nat, valid : Nat]
      BY <2>1
    <3>2. QED
      BY <3>1, LiveAssumption
  <2>3. /\ state'[r] = IF r \notin Live THEN state[r] ELSE IF lease'[r] = None THEN "waiting" ELSE "active"
        /\ consumed'[r] = IF r \in V THEN 0 ELSE consumed[r]
        /\ \/ lease'[r] = (IF r \in V THEN None ELSE lease[r])
           \/ state[r] = "waiting" /\ lease'[r] = e
        /\ IF r \in V THEN kv'.valid[r] = 0 /\ kv'.blocks[r] = <<>>
           ELSE kv'.valid[r] = kv.valid[r] /\ kv'.blocks[r] = kv.blocks[r]
    BY <1>3
  <2> HIDE DEF e
  <2>4. /\ r \in Live <=> state[r] \in {"waiting", "active"}
        /\ r \in V => state[r] = "active"
    BY <1>4
  <2>5. CASE state[r] = "waiting"
    <3>1. /\ r \notin V /\ r \in Live /\ lease[r] = None /\ kv.valid[r] = 0 /\ kv.blocks[r] = <<>> /\ consumed[r] = 0
      BY <2>1, <2>4, <2>5 DEF RowTrue
    <3>2. CASE lease'[r] = e
      BY <1>1, <2>1, <2>2, <2>3, <2>5, <3>1, <3>2 DEF RowOK, RowTrue
    <3>3. CASE lease'[r] = None
      BY <1>1, <2>1, <2>3, <2>5, <3>1, <3>3 DEF RowOK, RowTrue
    <3>4. QED
      BY <2>3, <3>1, <3>2, <3>3
  <2>6. CASE r \in V
    <3>1. state[r] = "active" /\ state'[r] = "waiting" /\ lease'[r] = None /\ consumed'[r] = 0
      BY <2>3, <2>4, <2>6
    <3>2. QED
      BY <1>1, <2>1, <2>3, <2>6, <3>1 DEF RowOK, RowTrue
  <2>7. CASE state[r] # "waiting" /\ r \notin V
    <3>1. lease'[r] = lease[r] /\ consumed'[r] = consumed[r] /\ kv'.valid[r] = kv.valid[r] /\ kv'.blocks[r] = kv.blocks[r]
      BY <2>3, <2>7
    <3>2. state'[r] = state[r]
      BY <2>1, <2>3, <2>4, <2>7, <3>1 DEF RowTrue
    <3>3. QED
      BY <1>1, <2>1, <3>1, <3>2 DEF RowOK, RowTrue
  <2>8. QED
    BY <2>5, <2>6, <2>7
<1>11. RowsOK' /\ RowsTrue'
  BY <1>10 DEF RowsOK, RowsTrue
<1>12. Room(lease)' /\ Pool(limits, kv)'
  BY <1>1, <1>3 DEF Room, Cap
<1>13. StepsOK'
  BY <1>1 DEF StepsOK
<1>14. QED
  BY <1>7, <1>8, <1>9, <1>11, <1>12, <1>13 DEF Inv

-----------------------------------------------------------------------------
(***************************************************************************)
(* Planning.                                                               *)
(***************************************************************************)

\* The active rows have something to compute, and none needs a wider rectangle
\* than the session allows.
LEMMA ActiveRows ==
  ASSUME Inv, pc \notin {"ended", "closed"}
  PROVE  /\ Unfinished(View, In("active"))
         /\ \A r \in In("active") : /\ r \in Requests /\ View.history[r] = Input[r] + output[r]
                                    /\ View.consumed[r] = consumed[r] /\ View.output[r] = output[r]
                                    /\ kv.valid[r] = consumed[r] /\ Acceptable(r)
                                    /\ output[r] \in Nat /\ output[r] < Output[r] /\ consumed[r] \in Nat
                                    /\ View.history[r] <= limits.padded
<1>1. /\ View.consumed = consumed /\ View.output = output
      /\ View.history = [r \in Requests |-> Input[r] + output[r]]
  BY DEF View
<1>2. ASSUME NEW r \in In("active")
      PROVE  /\ r \in Requests /\ View.history[r] = Input[r] + output[r]
             /\ View.consumed[r] = consumed[r] /\ View.output[r] = output[r] /\ kv.valid[r] = consumed[r]
             /\ Acceptable(r)
             /\ output[r] \in Nat /\ output[r] < Output[r] /\ consumed[r] \in Nat
             /\ consumed[r] < Input[r] + output[r]
  <2>1. r \in Requests /\ state[r] = "active"
    BY DEF In
  <2>2. RowTrue(r) /\ RowOK(r)
    BY <2>1, Running DEF Inv, RowsOK
  <2>3. output[r] \in Nat /\ consumed[r] \in Nat
    BY <2>1 DEF Inv, Typed
  <2>4. QED
    BY <1>1, <2>1, <2>2, <2>3 DEF RowTrue, RowOK
<1>3. ASSUME NEW r \in In("active")
      PROVE  View.history[r] <= limits.padded /\ View.history[r] \in Nat /\ View.consumed[r] < View.history[r]
  <2>1. /\ r \in Requests /\ Needed(r) <= limits.padded /\ limits.padded \in Nat
        /\ Input[r] \in Nat \ {0} /\ Output[r] \in Nat \ {0} /\ Needed(r) = Input[r] + Output[r] - 1
    BY <1>2, Positive DEF Acceptable, Needed, Inv, Typed
  <2>2. /\ View.history[r] = Input[r] + output[r] /\ output[r] \in Nat /\ output[r] < Output[r]
        /\ View.consumed[r] < Input[r] + output[r]
    BY <1>2
  <2> DEFINE h == View.history[r]
             a == Input[r]
             b == Output[r]
             o == output[r]
             n == Needed(r)
             p == limits.padded
  <2>3. n <= p /\ p \in Nat /\ a \in Nat /\ b \in Nat /\ n = a + b - 1 /\ h = a + o /\ o \in Nat /\ o < b
    BY <2>1, <2>2
  <2> HIDE DEF h, a, b, o, n, p
  <2>4. h <= p /\ h \in Nat
    BY <2>3
  <2>5. QED
    BY <2>2, <2>4 DEF h, p
<1>4. QED
  BY <1>2, <1>3 DEF Unfinished

\* What is planned is a batch of the active rows whose rectangle fits.
LEMMA PlannedGood ==
  ASSUME Inv, pc \notin {"ended", "closed"}, NEW c \in Ordered(In("active")), NEW o,
         NEW s, s = Trimmed(limits, Plan(limits, View, c, o))
  PROVE  /\ Batch(limits, View, s, In("active")) /\ Current(kv, s)
         /\ s # <<>> => Padded(s) <= limits.padded
         /\ In("active") # {} /\ (limits.chunked \/ \A r \in In("active") : Remaining(View, r) <= limits.batched)
               => s # <<>>
<1> DEFINE A == In("active")
           p == Plan(limits, View, c, o)
<1>1. /\ limits \in Limits /\ IsFiniteSet(Requests) /\ order \in Seq(Requests) /\ Distinct(order)
      /\ A \in SUBSET Requests /\ A \subseteq ToSet(order)
  BY LiveAssumption DEF Inv, Typed, OrderOK, In
<1> HIDE DEF A
<1>2. c \in Seq(A) /\ Distinct(c) /\ ToSet(c) = A
  BY <1>1, OrderedRows DEF A
<1>3. c \in Seq(Requests) /\ (A # {} => c # <<>>)
  <2>1. c \in Seq(Requests)
    BY <1>1, <1>2
  <2>2. A # {} => c # <<>>
    BY <1>2 DEF ToSet
  <2>3. QED
    BY <2>1, <2>2
<1>4. Unfinished(View, A)
  BY ActiveRows DEF A
<1>5. /\ Batch(limits, View, p, A)
      /\ A # {} /\ (limits.chunked \/ \A r \in A : Remaining(View, r) <= limits.batched) => p # <<>>
  <2>1. Unfinished(View, ToSet(c))
    BY <1>2, <1>4
  <2>2. /\ Batch(limits, View, p, ToSet(c))
        /\ c # <<>> /\ (limits.chunked \/ \A r \in ToSet(c) : Remaining(View, r) <= limits.batched) => p # <<>>
    BY <1>1, <1>2, <1>3, <2>1, PlanGood
  <2> HIDE DEF p
  <2>3. QED
    BY <1>2, <1>3, <2>2
<1>6. s = Trimmed(limits, p)
  OBVIOUS
<1> HIDE DEF p
<1>7. CASE p = <<>>
  <2>1. s = <<>>
    BY <1>6, <1>7 DEF Trimmed
  <2>2. Batch(limits, View, s, A) /\ Current(kv, s)
    BY <1>5, <1>7, <2>1 DEF Current
  <2>3. QED
    BY <1>5, <1>7, <2>1, <2>2 DEF A
<1>8. CASE p # <<>>
  <2>1. p \in Seq(StepSet)
    BY <1>5 DEF Batch
  <2>2. 1 \in DOMAIN p /\ Len(p) \in Nat /\ Len(p) >= 1
    BY <1>8, <2>1
  <2>3. p[1].start + p[1].len <= limits.padded
    <3>1. GoodStep(limits, View, p[1]) /\ p[1].id \in A /\ p[1] \in StepSet
      BY <1>5, <2>1, <2>2 DEF Batch
    <3>2. p[1].start + p[1].len <= View.history[p[1].id] /\ p[1].start \in Nat /\ p[1].len \in Nat
      BY <3>1 DEF GoodStep, StepSet
    <3>3. View.history[p[1].id] <= limits.padded /\ View.history[p[1].id] \in Nat /\ limits.padded \in Nat
      BY <1>1, <1>4, <3>1, ActiveRows, Positive DEF A, Unfinished
    <3> DEFINE a == p[1].start + p[1].len
               h == View.history[p[1].id]
               m == limits.padded
    <3>4. a \in Nat /\ h \in Nat /\ m \in Nat /\ a <= h /\ h <= m
      BY <3>2, <3>3
    <3> HIDE DEF a, h, m
    <3>5. a <= m
      BY <3>4
    <3>6. QED
      BY <3>5 DEF a, m
  <2>4. PICK n \in 1..Len(p) : s = SubSeq(p, 1, n) /\ Padded(SubSeq(p, 1, n)) <= limits.padded
    BY <1>1, <1>6, <1>8, <2>1, <2>3, TrimmedGood
  <2>5. n \in 0..Len(p)
    BY <2>2
  <2>6. Batch(limits, View, s, A)
    BY <1>1, <1>5, <2>4, <2>5, BatchPrefix
  <2>7. s # <<>> /\ Padded(s) <= limits.padded
    BY <2>1, <2>2, <2>4
  <2>8. Current(kv, s)
    <3>1. ASSUME NEW i \in DOMAIN s
          PROVE  kv.valid[s[i].id] = s[i].start
      <4>1. GoodStep(limits, View, s[i]) /\ s[i].id \in A
        BY <2>6 DEF Batch
      <4>2. s[i].start = View.consumed[s[i].id]
        BY <4>1 DEF GoodStep
      <4>3. View.consumed[s[i].id] = consumed[s[i].id] /\ kv.valid[s[i].id] = consumed[s[i].id]
        BY <4>1, ActiveRows DEF A
      <4>4. QED
        BY <4>2, <4>3
    <3>2. QED
      BY <3>1 DEF Current
  <2>9. QED
    BY <2>6, <2>7, <2>8 DEF A
<1>9. QED
  BY <1>7, <1>8

\* A batch that is let through is good; a row that is refused ends.
LEMMA PlanStepStep == ASSUME Inv, PlanStep PROVE Inv'
<1>1. pc = "plan" /\ UNCHANGED <<limits, sent, queue, outstanding, finished, sealed, order, preemptions>>
  BY DEF PlanStep, sender
<1>2. error = None /\ \A r \in Requests : RowTrue(r)
  BY <1>1, Running
<1>3. PICK c \in Ordered(In("active")) :
        LET planned == Trimmed(limits, Plan(limits, View, c, odd))
        IN  IF planned = <<>> THEN PlanNothing
            ELSE \E n \in Prepared(planned) : PlanBatch(planned, n) \/ (n = 0 /\ PlanRefused(planned))
  BY DEF PlanStep
<1> DEFINE s == Trimmed(limits, Plan(limits, View, c, odd))
<1>4. Batch(limits, View, s, In("active")) /\ Current(kv, s) /\ (s # <<>> => Padded(s) <= limits.padded)
  BY <1>1, PlannedGood
<1>5. IF s = <<>> THEN PlanNothing
      ELSE \E n \in Prepared(s) : PlanBatch(s, n) \/ (n = 0 /\ PlanRefused(s))
  BY <1>3
<1> HIDE DEF s
<1>6. s \in Seq(StepSet) /\ limits \in Limits /\ Pool(limits, kv) /\ Typed
  BY <1>4 DEF Batch, Inv, Typed
<1>7. CASE PlanNothing
  <2>1. UNCHANGED <<state, reason, output, consumed, lease, kv, steps>>
    BY <1>7 DEF PlanNothing, rows
  <2>2. \/ pc' = "intake" /\ odd' = ~odd /\ error' = error
        \/ pc' = "ended" /\ odd' = odd /\ error' = "SCHEDULER_NO_PROGRESS"
    BY <1>7 DEF PlanNothing, NextTurn, Raise
  <2>3. Typed'
    <3>1. odd' \in BOOLEAN
      BY <1>6, <2>2, Zenon DEF Typed
    <3>2. /\ pc' \in {"intake", "ended"} /\ error' \in Errors \cup {None} /\ (error' # None => pc' = "ended")
      BY <1>2, <2>2 DEF Errors
    <3>3. QED
      BY <1>1, <1>6, <2>1, <3>1, <3>2 DEF Typed
  <2>4. OrderOK' /\ RowsOK' /\ Room(lease)' /\ Pool(limits, kv)' /\ RowsTrue'
    BY <1>1, <1>2, <2>1, Kept
  <2>5. SenderOK' /\ StepsOK'
    <3>1. SenderOK'
      BY <1>1, <2>1, SenderKept
    <3>2. StepsOK'
      BY <2>2 DEF StepsOK
    <3>3. QED
      BY <3>1, <3>2
  <2>6. QED
    BY <2>3, <2>4, <2>5 DEF Inv
<1>8. ASSUME NEW n \in Prepared(s), PlanBatch(s, n), s # <<>>
      PROVE  Inv'
  <2> DEFINE b == SubSeq(s, 1, n)
  <2>1. /\ n > 0 /\ steps' = b /\ pc' = "forward"
        /\ UNCHANGED <<error, odd, state, reason, output, consumed, lease, kv>>
    BY <1>8 DEF PlanBatch, rows
  <2>2. /\ n \in 0..Len(s)
        /\ limits.layout # "dense" => Total(Needs(limits, kv, b), DOMAIN b) <= Len(kv.free)
    BY <1>4, <1>6, PreparedGood
  <2>3. Batch(limits, View, b, In("active"))
    BY <1>4, <1>6, <2>2, BatchPrefix
  <2>4. n \in 1..Len(s) /\ b # <<>>
    BY <1>6, <2>1, <2>2
  <2>5. Padded(b) <= limits.padded
    <3>1. Padded(b) <= Padded(s) /\ Padded(s) <= limits.padded
      BY <1>4, <1>6, <1>8, <2>4, PaddedPrefix
    <3>2. Padded(b) \in Nat /\ Padded(s) \in Nat /\ limits.padded \in Nat
      <4>1. b \in Seq(StepSet)
        BY <2>3 DEF Batch
      <4>2. QED
        BY <1>6, <1>8, <2>4, <4>1, PaddedNat, Positive
    <3> DEFINE x == Padded(b)
               y == Padded(s)
               z == limits.padded
    <3>3. x \in Nat /\ y \in Nat /\ z \in Nat /\ x <= y /\ y <= z
      BY <3>1, <3>2
    <3> HIDE DEF x, y, z
    <3>4. x <= z
      BY <3>3
    <3>5. QED
      BY <3>4 DEF x, z
  <2> HIDE DEF b
  <2>6. Typed'
    BY <1>1, <1>2, <1>6, <2>1 DEF Typed
  <2>7. OrderOK' /\ RowsOK' /\ Room(lease)' /\ Pool(limits, kv)' /\ RowsTrue' /\ SenderOK'
    BY <1>1, <1>2, <2>1, Kept, SenderKept
  <2>8. StepsOK'
    <3>1. View' = View /\ In("active")' = In("active") /\ limits' = limits /\ kv' = kv
      BY <1>1, <2>1 DEF View, In
    <3>2. QED
      BY <2>1, <2>2, <2>3, <2>4, <2>5, <3>1 DEF StepsOK
  <2>9. QED
    BY <2>6, <2>7, <2>8 DEF Inv
<1>9. ASSUME PlanRefused(s), s # <<>>
      PROVE  Inv'
  <2> DEFINE rs == <<s[1].id>>
  <2>1. Finish(rs, "refused") /\ UNCHANGED <<output, consumed, steps>>
    BY <1>9 DEF PlanRefused
  <2>2. \/ pc' = "intake" /\ odd' = ~odd /\ error' = error
        \/ pc' = "ended" /\ odd' = odd /\ error' = "SCHEDULER_NO_PROGRESS"
    BY <1>9 DEF PlanRefused, NextTurn, Raise
  <2>3. rs \in Seq(Requests) /\ Distinct(rs) /\ ToSet(rs) \subseteq Live
    <3>1. 1 \in DOMAIN s
      BY <1>6, <1>9
    <3>2. s[1].id \in In("active")
      BY <1>4, <3>1 DEF Batch
    <3>3. QED
      BY <3>2 DEF Distinct, ToSet, In, Live
  <2>4. "refused" \in Reasons \ {"length"}
    BY DEF Reasons
  <2> HIDE DEF rs
  <2>5. /\ state' \in [Requests -> {"absent", "waiting", "active", "terminal"}]
        /\ reason' \in [Requests -> Reasons \cup {None}] /\ lease' \in Leases
        /\ OrderOK' /\ RowsOK' /\ Room(lease)' /\ Pool(limits, kv)' /\ \A r \in Requests : RowTrue(r)'
        /\ \A r \in Requests : state'[r] = "absent" <=> state[r] = "absent"
    BY <1>1, <2>1, <2>3, <2>4, FinishRows
  <2>6. Typed'
    <3>1. odd' \in BOOLEAN
      BY <1>6, <2>2, Zenon DEF Typed
    <3>2. /\ pc' \in {"intake", "ended"} /\ error' \in Errors \cup {None} /\ (error' # None => pc' = "ended")
      BY <1>2, <2>2 DEF Errors
    <3>3. QED
      BY <1>1, <1>6, <2>1, <2>5, <3>1, <3>2 DEF Typed
  <2>7. SenderOK'
    BY <1>1, <2>5, SenderKept
  <2>8. RowsTrue' /\ StepsOK'
    BY <2>2, <2>5 DEF RowsTrue, StepsOK
  <2>9. QED
    BY <2>5, <2>6, <2>7, <2>8 DEF Inv
<1>10. QED
  BY <1>5, <1>7, <1>8, <1>9

-----------------------------------------------------------------------------
(***************************************************************************)
(* The forward.                                                            *)
(***************************************************************************)

\* The step of each row of the batch.
LEMMA TheStep ==
  ASSUME Inv, pc = "forward", NEW r \in Members
  PROVE  /\ r \in Requests /\ state[r] = "active"
         /\ StepOf(r) \in StepSet /\ StepOf(r).id = r /\ \E i \in DOMAIN steps : StepOf(r) = steps[i]
         /\ StepOf(r).start = consumed[r] /\ StepOf(r).len \in Nat /\ StepOf(r).len >= 1
         /\ consumed[r] + StepOf(r).len <= Input[r] + output[r]
         /\ StepOf(r).emit <=> consumed[r] + StepOf(r).len = Input[r] + output[r]
         /\ consumed[r] \in Nat /\ output[r] \in Nat /\ output[r] < Output[r]
         /\ consumed[r] + StepOf(r).len <= Needed(r)
<1> DEFINE s == StepOf(r)
<1>1. Batch(limits, View, steps, In("active"))
  BY DEF Inv, StepsOK
<1>2. s \in ToSet(steps) /\ s.id = r
  <2>1. \E x \in ToSet(steps) : x.id = r
    BY DEF Members, ToSet
  <2>2. QED
    BY <2>1 DEF StepOf
<1> HIDE DEF s
<1>3. PICK i \in DOMAIN steps : s = steps[i]
  BY <1>2 DEF ToSet
<1>4. s \in StepSet /\ GoodStep(limits, View, s) /\ r \in In("active")
  <2>1. steps \in Seq(StepSet) /\ GoodStep(limits, View, steps[i]) /\ steps[i].id \in In("active")
    BY <1>1, <1>3 DEF Batch
  <2>2. steps[i] \in StepSet
    BY <1>3, <2>1
  <2>3. QED
    BY <1>2, <1>3, <2>1, <2>2
<1>5. /\ r \in Requests /\ View.history[r] = Input[r] + output[r] /\ View.consumed[r] = consumed[r]
      /\ consumed[r] \in Nat /\ output[r] \in Nat /\ output[r] < Output[r]
  BY <1>4, ActiveRows
<1>6. s.len \in Nat /\ s.start \in Nat
  BY <1>4 DEF StepSet
<1>7. /\ s.start = consumed[r] /\ s.len >= 1 /\ consumed[r] + s.len <= Input[r] + output[r]
      /\ s.emit <=> consumed[r] + s.len = Input[r] + output[r]
  BY <1>2, <1>4, <1>5 DEF GoodStep
<1>8. consumed[r] + s.len <= Needed(r)
  <2> DEFINE a == Input[r]
             b == Output[r]
             o == output[r]
             n == consumed[r] + s.len
  <2>1. a \in Nat /\ b \in Nat /\ o \in Nat /\ o < b /\ n \in Nat /\ n <= a + o /\ Needed(r) = a + b - 1
    BY <1>5, <1>6, <1>7, Positive DEF Needed
  <2> HIDE DEF a, b, o, n
  <2>2. n <= a + b - 1
    BY <2>1
  <2>3. QED
    BY <2>1, <2>2 DEF n
<1>9. state[r] = "active"
  BY <1>4 DEF In
<1>10. \E j \in DOMAIN steps : s = steps[j]
  BY <1>3
<1>11. QED
  BY <1>2, <1>4, <1>5, <1>6, <1>7, <1>8, <1>9, <1>10 DEF s

\* The batch starts where the stored rows end, and its blocks are there.
LEMMA TheBatch ==
  ASSUME Inv, pc = "forward"
  PROVE  /\ steps \in Seq(StepSet) /\ OneEach(steps) /\ Ids(steps) = Members /\ Current(kv, steps)
         /\ Pool(limits, Commit(limits, kv, steps))
<1>1. /\ Batch(limits, View, steps, In("active"))
      /\ limits.layout # "dense" => Total(Needs(limits, kv, steps), DOMAIN steps) <= Len(kv.free)
      /\ limits \in Limits /\ Pool(limits, kv)
  BY DEF Inv, Typed, StepsOK
<1>2. steps \in Seq(StepSet) /\ OneEach(steps)
  BY <1>1 DEF Batch
<1>3. Current(kv, steps)
  <2>1. ASSUME NEW i \in DOMAIN steps
        PROVE  kv.valid[steps[i].id] = steps[i].start
    <3>1. GoodStep(limits, View, steps[i]) /\ steps[i].id \in In("active")
      BY <1>1 DEF Batch
    <3>2. steps[i].start = View.consumed[steps[i].id]
      BY <3>1 DEF GoodStep
    <3>3. View.consumed[steps[i].id] = consumed[steps[i].id] /\ kv.valid[steps[i].id] = consumed[steps[i].id]
      BY <3>1, ActiveRows
    <3>4. QED
      BY <3>2, <3>3
  <2>2. QED
    BY <2>1 DEF Current
<1>4. Pool(limits, Commit(limits, kv, steps))
  BY <1>1, <1>2, <1>3, CommitPool
<1>5. QED
  BY <1>2, <1>3, <1>4 DEF Ids, Members

\* The checks of execute and commit never fail: the session plans from the state
\* it commits against.
LEMMA NeverStale ==
  ASSUME Inv, pc = "forward"
  PROVE  Executable /\ \A r \in Members : Commits(r)
<1>1. Executable
  <2>1. Padded(steps) <= limits.padded
    BY DEF Inv, StepsOK
  <2>2. ~Stale(kv, steps)
    BY TheBatch DEF Current, Stale
  <2>3. QED
    BY <2>1, <2>2 DEF Executable
<1>2. ASSUME NEW r \in Members
      PROVE  Commits(r)
  <2>1. /\ r \in Requests /\ state[r] = "active" /\ consumed[r] \in Nat /\ StepOf(r).len \in Nat
        /\ consumed[r] + StepOf(r).len <= Needed(r)
    BY TheStep
  <2>2. RowTrue(r) /\ RowOK(r)
    BY <2>1, Running DEF Inv, RowsOK
  <2>3. lease[r] # None /\ lease[r].valid = consumed[r] /\ lease[r].capacity = Needed(r)
    BY <2>1, <2>2 DEF RowTrue, RowOK
  <2>4. consumed[r] <= consumed[r] + StepOf(r).len
    BY <2>1
  <2>5. QED
    BY <2>1, <2>3, <2>4 DEF Commits
<1>3. QED
  BY <1>1, <1>2

\* What a forward does to the rows of its batch, and to no other row.
Advanced(r, emits, ending) ==
    /\ consumed'[r] = IF r \in Members THEN consumed[r] + StepOf(r).len ELSE consumed[r]
    /\ output'[r] = IF r \in emits THEN output[r] + 1 ELSE output[r]
    /\ state'[r] = IF r \in ending THEN "terminal" ELSE state[r]
    /\ r \notin ending => reason'[r] = reason[r]
    /\ r \in ending => /\ reason'[r] \in {"interrupted", "length", "stop"}
                       /\ reason'[r] = "length" => r \in emits /\ LastToken(r)
    /\ r \in emits /\ LastToken(r) => r \in ending
    /\ lease'[r] = IF r \in ending THEN None
                   ELSE IF r \in Members THEN [capacity |-> lease[r].capacity, valid |-> consumed[r] + StepOf(r).len]
                   ELSE lease[r]
    /\ r \in ending => kv'.valid[r] = 0 /\ kv'.blocks[r] = <<>>
    /\ r \in Members \ ending => kv'.valid[r] = consumed[r] + StepOf(r).len
    /\ r \notin Members => kv'.valid[r] = kv.valid[r] /\ kv'.blocks[r] = kv.blocks[r]

\* A token comes from a row whose step emits and that is not late.
LEMMA ForwardRows ==
  ASSUME Inv, pc = "forward", NEW late \in SUBSET Members, NEW eos \in SUBSET Members, ForwardDone(late, eos)
  PROVE  \E emits \in SUBSET Members, ending \in SUBSET Members :
            /\ \A r \in emits : StepOf(r).emit
            /\ \A r \in Members \ emits : r \in ending \/ ~StepOf(r).emit
            /\ \A r \in Requests : Advanced(r, emits, ending)
            /\ Pool(limits, kv') /\ lease' \in Leases
            /\ consumed' \in [Requests -> Nat] /\ output' \in [Requests -> Nat]
            /\ state' \in [Requests -> {"absent", "waiting", "active", "terminal"}]
            /\ reason' \in [Requests -> Reasons \cup {None}]
<1> DEFINE emits == {r \in Members \ late : StepOf(r).emit}
           whole == {r \in emits : LastToken(r)}
           ending == late \cup whole \cup (eos \cap emits)
           why(r) == IF r \in late THEN "interrupted" ELSE IF r \in whole THEN "length" ELSE "stop"
           members == [i \in DOMAIN steps |-> steps[i].id]
           stored == Commit(limits, kv, steps)
           over == Among(members, ending)
<1>1. /\ consumed' = [r \in Requests |-> IF r \in Members THEN consumed[r] + StepOf(r).len ELSE consumed[r]]
      /\ output' = [r \in Requests |-> output[r] + IF r \in emits THEN 1 ELSE 0]
      /\ state' = [r \in Requests |-> IF r \in ending THEN "terminal" ELSE state[r]]
      /\ reason' = [r \in Requests |-> IF r \in ending THEN why(r) ELSE reason[r]]
      /\ lease' = [r \in Requests |-> IF r \in ending THEN None
                                      ELSE IF r \in Members THEN [lease[r] EXCEPT !.valid = consumed'[r]]
                                      ELSE lease[r]]
      /\ kv' = ReleaseAll(stored, over)
  BY DEF ForwardDone
<1>2. Typed /\ steps \in Seq(StepSet) /\ OneEach(steps) /\ Ids(steps) = Members /\ Pool(limits, stored) /\ limits \in Limits
  BY TheBatch DEF Inv, Typed
<1>3. /\ emits \in SUBSET Members /\ ending \in SUBSET Members /\ Members \subseteq Requests
      /\ \A r \in emits : StepOf(r).emit
      /\ \A r \in Members \ emits : r \in ending \/ ~StepOf(r).emit
      /\ \A r \in emits : LastToken(r) => r \in ending
      /\ \A r \in ending : /\ why(r) \in {"interrupted", "length", "stop"}
                           /\ why(r) = "length" => r \in emits /\ LastToken(r)
  <2>1. Members \subseteq Requests
    BY TheStep
  <2>2. QED
    BY <2>1
<1>4. members \in Seq(Requests) /\ Distinct(members) /\ ToSet(members) = Members
  <2>1. DOMAIN members = DOMAIN steps /\ \A i \in DOMAIN steps : members[i] = steps[i].id /\ steps[i].id \in Requests
    BY <1>3 DEF Members
  <2>2. DOMAIN steps = 1..Len(steps) /\ Len(steps) \in Nat
    BY <1>2
  <2>3. members \in Seq(Requests)
    <3>1. members \in [1..Len(steps) -> Requests]
      BY <2>1, <2>2
    <3> HIDE DEF members
    <3>2. QED
      BY <2>2, <3>1
  <2> HIDE DEF members
  <2>4. Distinct(members)
    BY <1>2, <2>1 DEF OneEach, Distinct
  <2>5. ToSet(members) = Members
    BY <2>1 DEF ToSet, Members
  <2>6. QED
    BY <2>3, <2>4, <2>5
<1>5. over \in Seq(Requests) /\ ToSet(over) = ending
  <2> HIDE DEF members, ending
  <2>1. over \in Seq(Requests) /\ ToSet(over) = ToSet(members) \cap ending
    BY <1>4, AmongKeeps
  <2>2. QED
    BY <1>3, <1>4, <2>1
<1>6. Pool(limits, kv')
  <2> HIDE DEF stored, over
  <2>1. Pool(limits, ReleaseAll(stored, over))
    BY <1>2, <1>5, ReleaseAllPool
  <2>2. QED
    BY <1>1, <2>1
<1>7. /\ \A r \in Requests :
            IF r \in ending THEN kv'.valid[r] = 0 /\ kv'.blocks[r] = <<>>
            ELSE kv'.valid[r] = stored.valid[r] /\ kv'.blocks[r] = stored.blocks[r]
  <2>1. Storage(stored)
    BY <1>2 DEF Pool
  <2> HIDE DEF stored, over, ending
  <2>2. QED
    BY <1>1, <1>5, <2>1, ReleasesRows
<1>8. /\ \A r \in Members : stored.valid[r] = consumed[r] + StepOf(r).len
      /\ \A r \in Requests \ Members : stored.valid[r] = kv.valid[r] /\ stored.blocks[r] = kv.blocks[r]
  <2>1. Storage(kv)
    BY DEF Inv, Pool
  <2>2. /\ \A i \in DOMAIN steps : stored.valid[steps[i].id] = steps[i].start + steps[i].len
        /\ \A r \in Requests \ Members : stored.valid[r] = kv.valid[r] /\ stored.blocks[r] = kv.blocks[r]
    <3>1. steps \in Seq(StepSet) /\ OneEach(steps)
      BY <1>2
    <3>2. /\ \A i \in DOMAIN steps : stored.valid[steps[i].id] = steps[i].start + steps[i].len
          /\ \A r \in Requests \ Ids(steps) : stored.valid[r] = kv.valid[r] /\ stored.blocks[r] = kv.blocks[r]
      <4>1. Stores(stored, kv, steps)
        BY <2>1, <3>1, CommitsRows
      <4> HIDE DEF stored
      <4>2. QED
        BY <4>1 DEF Stores
    <3> HIDE DEF stored
    <3>3. QED
      BY <1>2, <3>2
  <2> HIDE DEF stored
  <2>3. ASSUME NEW r \in Members
        PROVE  stored.valid[r] = consumed[r] + StepOf(r).len
    <3>1. PICK i \in DOMAIN steps : StepOf(r) = steps[i]
      BY TheStep
    <3>2. steps[i].id = r /\ steps[i].start = consumed[r]
      BY <3>1, TheStep
    <3>3. QED
      BY <2>2, <3>1, <3>2
  <2>4. QED
    BY <2>2, <2>3
<1> HIDE DEF stored, over, members
<1>9. /\ consumed' \in [Requests -> Nat]
      /\ \A r \in Requests : consumed'[r] = IF r \in Members THEN consumed[r] + StepOf(r).len ELSE consumed[r]
  <2>1. \A r \in Members : consumed[r] + StepOf(r).len \in Nat
    <3>1. \A r \in Members : consumed[r] \in Nat /\ StepOf(r).len \in Nat
      BY TheStep
    <3>2. QED
      BY <3>1
  <2>2. QED
    BY <1>1, <1>2, <2>1 DEF Typed
<1> HIDE DEF emits, whole, ending
<1>10. /\ output' \in [Requests -> Nat]
       /\ \A r \in Requests : output'[r] = IF r \in emits THEN output[r] + 1 ELSE output[r]
  <2>1. output \in [Requests -> Nat]
    BY <1>2 DEF Typed
  <2>2. \A r \in Requests : output[r] \in Nat /\ output'[r] = output[r] + IF r \in emits THEN 1 ELSE 0
    BY <1>1, <2>1
  <2>3. \A r \in Requests : output'[r] = IF r \in emits THEN output[r] + 1 ELSE output[r]
    BY <2>2
  <2>4. \A r \in Requests : output'[r] \in Nat
    BY <2>2, <2>3
  <2>5. output' = [r \in Requests |-> output'[r]]
    BY <1>1
  <2>6. QED
    BY <2>3, <2>4, <2>5
<1>11. /\ state' \in [Requests -> {"absent", "waiting", "active", "terminal"}]
       /\ \A r \in Requests : state'[r] = IF r \in ending THEN "terminal" ELSE state[r]
  BY <1>1, <1>2 DEF Typed
<1>12. /\ reason' \in [Requests -> Reasons \cup {None}]
       /\ \A r \in Requests : reason'[r] = IF r \in ending THEN why(r) ELSE reason[r]
  <2> HIDE DEF why
  <2>1. \A r \in ending : why(r) \in Reasons
    BY <1>3 DEF Reasons
  <2>2. reason \in [Requests -> Reasons \cup {None}]
    BY <1>2 DEF Typed
  <2>3. QED
    BY <1>1, <2>1, <2>2
<1>13. \A r \in Requests : lease'[r] = IF r \in ending THEN None
                   ELSE IF r \in Members THEN [capacity |-> lease[r].capacity, valid |-> consumed[r] + StepOf(r).len]
                   ELSE lease[r]
  <2>1. ASSUME NEW r \in Members
        PROVE  [lease[r] EXCEPT !.valid = consumed'[r]]
                  = [capacity |-> lease[r].capacity, valid |-> consumed[r] + StepOf(r).len]
    <3>1. r \in Requests /\ state[r] = "active"
      BY TheStep
    <3>2. lease[r] \in LeaseSet
      <4>1. lease[r] # None
        BY <3>1, Running DEF RowTrue
      <4>2. QED
        BY <1>2, <3>1, <4>1 DEF Typed, Leases
    <3> DEFINE e == lease[r]
               n == consumed'[r]
    <3>3. e \in LeaseSet /\ n = consumed[r] + StepOf(r).len
      BY <1>9, <3>1, <3>2
    <3> HIDE DEF e, n
    <3>4. [e EXCEPT !.valid = n] = [capacity |-> e.capacity, valid |-> n]
      BY <3>3 DEF LeaseSet
    <3>5. QED
      BY <3>3, <3>4 DEF e, n
  <2>2. \A r \in Requests : lease'[r] = IF r \in ending THEN None
                                        ELSE IF r \in Members THEN [lease[r] EXCEPT !.valid = consumed'[r]]
                                        ELSE lease[r]
    BY <1>1
  <2>3. QED
    BY <2>1, <2>2
<1>14. lease' \in Leases
  <2>1. ASSUME NEW r \in Requests
        PROVE  lease'[r] \in LeaseSet \cup {None}
    <3>1. lease[r] \in LeaseSet \cup {None}
      BY <1>2 DEF Typed, Leases
    <3>2. CASE r \in Members \ ending
      <4> DEFINE n == consumed[r] + StepOf(r).len
                 m == lease[r].capacity
      <4>1. n \in Nat /\ r \in Requests /\ state[r] = "active"
        <5>1. consumed[r] \in Nat /\ StepOf(r).len \in Nat /\ r \in Requests /\ state[r] = "active"
          BY <3>2, TheStep
        <5>2. QED
          BY <5>1
      <4>2. lease[r] # None
        BY <4>1, Running DEF RowTrue
      <4>3. m \in Nat
        BY <3>1, <4>2 DEF LeaseSet
      <4>4. lease'[r] = [capacity |-> m, valid |-> n]
        BY <1>13, <3>2
      <4> HIDE DEF m, n
      <4>5. QED
        BY <4>1, <4>3, <4>4 DEF LeaseSet
    <3>3. CASE r \notin Members \ ending
      BY <1>3, <1>13, <3>1, <3>3
    <3>4. QED
      BY <3>2, <3>3
  <2>2. lease' = [r \in Requests |-> lease'[r]]
    BY <1>1
  <2>3. QED
    BY <2>1, <2>2 DEF Leases
<1>15. ASSUME NEW r \in Requests
       PROVE  Advanced(r, emits, ending)
  <2> DEFINE e == [capacity |-> lease[r].capacity, valid |-> consumed[r] + StepOf(r).len]
  <2>1. lease'[r] = IF r \in ending THEN None ELSE IF r \in Members THEN e ELSE lease[r]
    BY <1>13
  <2> HIDE DEF e
  <2>2. /\ consumed'[r] = IF r \in Members THEN consumed[r] + StepOf(r).len ELSE consumed[r]
        /\ output'[r] = IF r \in emits THEN output[r] + 1 ELSE output[r]
        /\ state'[r] = IF r \in ending THEN "terminal" ELSE state[r]
    BY <1>9, <1>10, <1>11
  <2>3. /\ r \notin ending => reason'[r] = reason[r]
        /\ r \in ending => /\ reason'[r] \in {"interrupted", "length", "stop"}
                           /\ reason'[r] = "length" => r \in emits /\ LastToken(r)
        /\ r \in emits /\ LastToken(r) => r \in ending
    BY <1>3, <1>12
  <2>4. /\ r \in ending => kv'.valid[r] = 0 /\ kv'.blocks[r] = <<>>
        /\ r \in Members \ ending => kv'.valid[r] = consumed[r] + StepOf(r).len
        /\ r \notin Members => kv'.valid[r] = kv.valid[r] /\ kv'.blocks[r] = kv.blocks[r]
    BY <1>3, <1>7, <1>8
  <2>5. QED
    BY <2>1, <2>2, <2>3, <2>4 DEF Advanced, e
<1> USE <1>3
<1>16. WITNESS emits \in SUBSET Members, ending \in SUBSET Members
<1>17. QED
  BY <1>6, <1>9, <1>10, <1>11, <1>12, <1>14, <1>15

\* The forward keeps the books: its rows advance, and what ends by length has
\* everything.
LEMMA ForwardStep == ASSUME Inv, Forward PROVE Inv'
<1>1. /\ pc = "forward" /\ pc' = "intake" /\ odd' = ~odd /\ error' = error
      /\ UNCHANGED <<limits, sent, queue, outstanding, finished, sealed, order, preemptions>>
      /\ \E late \in SUBSET Members : \E eos \in SUBSET (Members \ (late \cup Fixed)) : ForwardDone(late, eos)
  <2>1. pc = "forward"
    BY DEF Forward
  <2>2. Executable /\ \A r \in Members : Commits(r)
    BY <2>1, NeverStale
  <2>3. QED
    BY <2>2 DEF Forward, NextTurn, sender
<1>2. Typed /\ OrderOK /\ RowsOK /\ Room(lease)
  BY DEF Inv
<1>3. error = None /\ \A r \in Requests : RowTrue(r)
  BY <1>1, Running
<1>4. PICK late \in SUBSET Members, eos \in SUBSET Members : ForwardDone(late, eos)
  BY <1>1
<1>5. PICK emits \in SUBSET Members, ending \in SUBSET Members :
            /\ \A r \in emits : StepOf(r).emit
            /\ \A r \in Members \ emits : r \in ending \/ ~StepOf(r).emit
            /\ \A r \in Requests : Advanced(r, emits, ending)
            /\ Pool(limits, kv') /\ lease' \in Leases
            /\ consumed' \in [Requests -> Nat] /\ output' \in [Requests -> Nat]
            /\ state' \in [Requests -> {"absent", "waiting", "active", "terminal"}]
            /\ reason' \in [Requests -> Reasons \cup {None}]
  BY <1>1, <1>4, ForwardRows
<1>6. Typed'
  <2>1. odd' \in BOOLEAN
    BY <1>1, <1>2, Zenon DEF Typed
  <2>2. QED
    BY <1>1, <1>2, <1>3, <1>5, <2>1 DEF Typed
<1>7. \A r \in Requests : state'[r] = "absent" <=> state[r] = "absent"
  <2>1. \A r \in Members : state[r] = "active"
    BY <1>1, TheStep
  <2>2. QED
    BY <1>5, <2>1 DEF Advanced
<1>8. SenderOK' /\ OrderOK'
  <2>1. {r \in Requests : state'[r] # "absent"} = {r \in Requests : state[r] # "absent"}
    BY <1>7
  <2>2. OrderOK'
    BY <1>1, <1>2, <2>1 DEF OrderOK
  <2>3. SenderOK'
    BY <1>1, <1>7, SenderKept
  <2>4. QED
    BY <2>2, <2>3
<1>9. ASSUME NEW r \in Requests
      PROVE  RowOK(r)' /\ RowTrue(r)' /\ (lease'[r] # None => lease[r] # None /\ lease'[r].capacity = lease[r].capacity)
  <2>1. /\ RowOK(r) /\ RowTrue(r) /\ Advanced(r, emits, ending) /\ (Acceptable(r)' <=> Acceptable(r))
        /\ output[r] \in Nat /\ consumed[r] \in Nat /\ Input[r] \in Nat \ {0} /\ Output[r] \in Nat \ {0}
        /\ Needed(r) \in Nat /\ Needed(r) = Input[r] + Output[r] - 1
    BY <1>1, <1>2, <1>3, <1>5, Positive DEF RowsOK, Acceptable, Typed, Needed
  <2>2. CASE r \notin Members
    <3>1. /\ r \notin emits /\ r \notin ending
      BY <2>2
    <3>2. /\ consumed'[r] = consumed[r] /\ output'[r] = output[r] /\ state'[r] = state[r] /\ reason'[r] = reason[r]
          /\ lease'[r] = lease[r] /\ kv'.valid[r] = kv.valid[r] /\ kv'.blocks[r] = kv.blocks[r]
      BY <2>1, <2>2, <3>1 DEF Advanced
    <3>3. QED
      BY <2>1, <3>2 DEF RowOK, RowTrue
  <2>3. CASE r \in Members
    <3> DEFINE n == consumed[r] + StepOf(r).len
               o == output[r]
               a == Input[r]
               b == Output[r]
               d == Needed(r)
               l == lease[r]
               e == [capacity |-> l.capacity, valid |-> n]
    <3>1. /\ state[r] = "active" /\ n \in Nat /\ n <= a + o /\ (StepOf(r).emit <=> n = a + o) /\ o < b /\ n <= d
      <4>1. /\ state[r] = "active" /\ consumed[r] \in Nat /\ StepOf(r).len \in Nat /\ n <= a + o
            /\ (StepOf(r).emit <=> n = a + o) /\ o < b /\ n <= d
        BY <1>1, <2>3, TheStep
      <4>2. QED
        BY <4>1
    <3>2. /\ o \in Nat /\ a \in Nat /\ b \in Nat /\ d = a + b - 1
      BY <2>1
    <3>3. l # None /\ l.capacity = d /\ e # None /\ e.capacity = l.capacity /\ e.valid = n
      <4>1. l # None /\ l.capacity = d
        BY <2>1, <3>1 DEF RowTrue, RowOK
      <4>2. l.capacity \in Nat
        BY <2>1, <4>1
      <4> DEFINE m == l.capacity
      <4> HIDE DEF m, n
      <4>3. [capacity |-> m, valid |-> n] \in [capacity : Nat, valid : Nat]
        BY <3>1, <4>2 DEF m
      <4>4. [capacity |-> m, valid |-> n] # None
        BY <4>3, LiveAssumption
      <4>5. QED
        BY <4>1, <4>4 DEF m
    <3>4. /\ consumed'[r] = n /\ output'[r] = (IF r \in emits THEN o + 1 ELSE o)
          /\ lease'[r] = IF r \in ending THEN None ELSE e
      BY <2>1, <2>3 DEF Advanced
    <3>5. /\ (r \in emits => n = a + o) /\ (r \notin emits => r \in ending \/ n < a + o)
      <4>1. r \in emits => n = a + o
        BY <1>5, <3>1
      <4>2. r \notin emits => r \in ending \/ n # a + o
        BY <1>5, <2>3, <3>1
      <4> HIDE DEF n, a, o
      <4>3. QED
        BY <3>1, <3>2, <4>1, <4>2
    <3>6. LastToken(r) <=> o + 1 >= b
      BY DEF LastToken
    <3>7. Acceptable(r)' /\ reason[r] = None
      BY <2>1, <3>1 DEF RowOK
    <3> HIDE DEF n, o, a, b, d, l, e
    <3>8. CASE r \in ending
      <4>1. /\ state'[r] = "terminal" /\ reason'[r] \in {"interrupted", "length", "stop"}
            /\ (reason'[r] = "length" => r \in emits /\ LastToken(r))
            /\ kv'.valid[r] = 0 /\ kv'.blocks[r] = <<>> /\ lease'[r] = None
        BY <2>1, <3>4, <3>8 DEF Advanced
      <4>2. output'[r] <= b /\ consumed'[r] <= d
        BY <3>1, <3>2, <3>4
      <4>3. reason'[r] = "length" => output'[r] = b /\ consumed'[r] = d
        BY <3>1, <3>2, <3>4, <3>5, <3>6, <4>1
      <4>4. RowOK(r)'
        BY <4>1, <4>2, <4>3 DEF RowOK, b, d
      <4>5. RowTrue(r)'
        BY <4>1 DEF RowTrue
      <4>6. QED
        BY <4>1, <4>4, <4>5
    <3>9. CASE r \notin ending
      <4>1. /\ state'[r] = "active" /\ reason'[r] = None /\ kv'.valid[r] = n /\ lease'[r] = e
            /\ ~(r \in emits /\ LastToken(r))
        BY <2>1, <2>3, <3>1, <3>4, <3>7, <3>9 DEF Advanced, n
      <4>2. output'[r] < b /\ output'[r] <= b /\ consumed'[r] <= d /\ n < a + output'[r]
        BY <3>1, <3>2, <3>4, <3>5, <3>6, <3>9, <4>1
      <4>3. RowOK(r)'
        BY <3>3, <3>7, <4>1, <4>2, LiveAssumption DEF RowOK, b, d, Reasons
      <4>4. RowTrue(r)'
        BY <3>3, <3>4, <4>1, <4>2 DEF RowTrue, a
      <4>5. QED
        BY <3>3, <4>1, <4>3, <4>4 DEF l
    <3>10. QED
      BY <3>8, <3>9
  <2>4. QED
    BY <2>2, <2>3
<1>10. RowsOK' /\ RowsTrue'
  BY <1>9 DEF RowsOK, RowsTrue
<1>11. Room(lease)'
  <2>1. lease \in Leases /\ lease' \in Leases
    BY <1>2, <1>5 DEF Typed
  <2>2. Reserved(lease') <= Reserved(lease) /\ Held(lease') <= Held(lease)
    BY <1>9, <2>1, ReserveLess
  <2>3. /\ Reserved(lease) \in Nat /\ Held(lease) \in Nat /\ Reserved(lease') \in Nat /\ Held(lease') \in Nat
        /\ Reserved(lease) <= limits.capacity /\ Held(lease) <= Cap
    BY <1>2, <2>1, ReserveNat DEF Room
  <2>4. limits.capacity \in Nat /\ Cap \in Nat
    BY <1>2, Positive DEF Typed, Cap
  <2>5. Reserved(lease') <= limits.capacity /\ Held(lease') <= Cap
    BY <2>2, <2>3, <2>4
  <2>6. QED
    BY <1>1, <2>5 DEF Room, Cap
<1>12. Pool(limits, kv)' /\ StepsOK'
  BY <1>1, <1>5 DEF StepsOK
<1>13. QED
  BY <1>6, <1>8, <1>10, <1>11, <1>12 DEF Inv

\* A forward that raises leaves the storage as it was or as it would be.
LEMMA ForwardFailsStep == ASSUME Inv, ForwardFails PROVE Inv'
<1>1. /\ pc = "forward" /\ pc' = "ended" /\ error' = "EXECUTOR" /\ kv' \in {kv, Commit(limits, kv, steps)}
      /\ UNCHANGED <<limits, odd, sent, queue, outstanding, finished, sealed, order, state, reason, output, consumed,
                     lease, preemptions, steps>>
  BY DEF ForwardFails, Raise, sender
<1>2. Typed /\ OrderOK /\ RowsOK /\ Room(lease) /\ Pool(limits, kv)
  BY DEF Inv
<1>3. error' # None /\ error' \in Errors
  BY <1>1, LiveAssumption DEF Errors
<1>4. Typed'
  BY <1>1, <1>2, <1>3 DEF Typed
<1>5. SenderOK'
  BY <1>1, SenderKept
<1>6. OrderOK'
  BY <1>1, <1>2 DEF OrderOK
<1>7. RowsOK'
  <2>1. \A r \in Requests : RowOK(r)' <=> RowOK(r)
    BY <1>1 DEF RowOK, Acceptable
  <2>2. QED
    BY <1>2, <2>1 DEF RowsOK
<1>8. Room(lease)'
  BY <1>1, <1>2 DEF Room, Cap
<1>9. Pool(limits, kv)'
  BY <1>1, <1>2, TheBatch
<1>10. RowsTrue' /\ StepsOK'
  BY <1>1, <1>3 DEF RowsTrue, StepsOK
<1>11. QED
  BY <1>4, <1>5, <1>6, <1>7, <1>8, <1>9, <1>10 DEF Inv

\* Closing gives everything back.
LEMMA CloseStep == ASSUME Inv, Close PROVE Inv'
<1>1. /\ pc = "ended" /\ pc' = "closed" /\ finished' = TRUE /\ lease' = [r \in Requests |-> None]
      /\ kv' = ReleaseAll(kv, order)
      /\ UNCHANGED <<limits, error, odd, sent, queue, outstanding, sealed, order, state, reason, output, consumed,
                     preemptions, steps>>
  BY DEF Close
<1>2. Typed /\ SenderOK /\ OrderOK /\ RowsOK /\ Room(lease) /\ Pool(limits, kv)
  BY DEF Inv
<1>3. lease' \in Leases /\ \A r \in Requests : lease'[r] = None
  BY <1>1 DEF Leases
<1>4. Typed'
  BY <1>1, <1>2, <1>3 DEF Typed
<1>5. SenderOK'
  BY <1>1, <1>2 DEF SenderOK
<1>6. OrderOK'
  BY <1>1, <1>2 DEF OrderOK
<1>7. RowsOK'
  <2>1. ASSUME NEW r \in Requests
        PROVE  RowOK(r)'
    <3>1. RowOK(r) /\ (Acceptable(r)' <=> Acceptable(r)) /\ lease'[r] = None
      BY <1>1, <1>2, <1>3 DEF RowsOK, Acceptable
    <3>2. QED
      BY <1>1, <3>1 DEF RowOK
  <2>2. QED
    BY <2>1 DEF RowsOK
<1>8. Room(lease)'
  <2>1. lease \in Leases /\ lease' \in Leases
    BY <1>2, <1>3 DEF Typed
  <2>2. Reserved(lease') <= Reserved(lease) /\ Held(lease') <= Held(lease)
    BY <1>3, <2>1, ReserveLess
  <2>3. /\ Reserved(lease) \in Nat /\ Held(lease) \in Nat /\ Reserved(lease') \in Nat /\ Held(lease') \in Nat
        /\ Reserved(lease) <= limits.capacity /\ Held(lease) <= Cap
    BY <1>2, <2>1, ReserveNat DEF Room
  <2>4. limits.capacity \in Nat /\ Cap \in Nat
    BY <1>2, Positive DEF Typed, Cap
  <2>5. Reserved(lease') <= limits.capacity /\ Held(lease') <= Cap
    BY <2>2, <2>3, <2>4
  <2>6. QED
    BY <1>1, <2>5 DEF Room, Cap
<1>9. Pool(limits, kv)'
  <2>1. Pool(limits, ReleaseAll(kv, order))
    BY <1>2, ReleaseAllPool DEF Typed
  <2>2. QED
    BY <1>1, <2>1
<1>10. RowsTrue' /\ StepsOK'
  BY <1>1 DEF RowsTrue, StepsOK
<1>11. QED
  BY <1>4, <1>5, <1>6, <1>7, <1>8, <1>9, <1>10 DEF Inv

\* Every step keeps the invariant.
LEMMA NextInv == Inv /\ [Next]_vars => Inv'
<1> SUFFICES ASSUME Inv, [Next]_vars PROVE Inv'
  OBVIOUS
<1>1. CASE UNCHANGED vars
  <2>1. UNCHANGED <<limits, pc, error, odd, sent, queue, outstanding, finished, sealed, order, state, reason, output,
                    consumed, lease, kv, preemptions, steps>>
    BY <1>1 DEF vars, sender, rows
  <2>2. OrderOK' /\ RowsOK' /\ Room(lease)' /\ Pool(limits, kv)' /\ RowsTrue' /\ StepsOK'
    BY <2>1, Kept, StepsKept
  <2>3. Typed' /\ SenderOK'
    BY <2>1 DEF Inv, Typed, SenderOK
  <2>4. QED
    BY <2>2, <2>3 DEF Inv
<1>2. CASE Next
  <2>1. CASE Send \/ SenderDone \/ SenderFails \/ DrainItem \/ DrainEmpty \/ SealCheck
    BY <2>1, SendStep, SenderDoneStep, DrainItemStep, DrainEmptyStep, SealStep
  <2>2. ASSUME NEW r \in Requests, Ingress(r) \/ CancelRequest(r)
        PROVE  Inv'
    BY <2>2, IngressStep, CancelStep
  <2>3. CASE ScanQuiet \/ ScanDue \/ ScanStop
    <3>1. \E due \in SUBSET Live, stopping \in BOOLEAN : Scan(due, stopping)
      BY <2>3 DEF ScanQuiet, ScanDue, ScanStop
    <3>2. QED
      BY <3>1, ScanStep
  <2>4. CASE Admit \/ PlanStep \/ Forward \/ ForwardFails \/ Close
    BY <2>4, AdmitStep, PlanStepStep, ForwardStep, ForwardFailsStep, CloseStep
  <2>5. CASE Closed
    BY <1>1, <2>5 DEF Closed
  <2>6. QED
    BY <1>2, <2>1, <2>2, <2>3, <2>4, <2>5 DEF Next
<1>3. QED
  BY <1>1, <1>2

\* The invariant holds in every session.
THEOREM Invariant == Spec => []Inv
<1>1. QED
  BY InitInv, NextInv, PTL DEF Spec

-----------------------------------------------------------------------------
(***************************************************************************)
(* The pool suffices: admission counts tokens and rows, the pool counts    *)
(* blocks, and a row wastes less than one block.                           *)
(***************************************************************************)

\* A function as a summand.
Values(w) == [kind |-> "values", of |-> w]

\* Such a summand is the value of the function.
LEMMA ValuesAre ==
  ASSUME NEW w
  PROVE  \A x : Val(Values(w), x) = w[x]
BY DEF Val, Values

\* Summands that are zero may be left out.
LEMMA SumSupport ==
  ASSUME NEW S, IsFiniteSet(S), NEW f, \A x \in S : Val(f, x) \in Int, NEW T \in SUBSET S,
         \A x \in S \ T : Val(f, x) = 0
  PROVE  Total(f, S) = Total(f, T)
<1> DEFINE P == {t \in SUBSET S : Total(f, t) = Total(f, t \cap T)}
<1>1. ASSUME NEW t \in SUBSET S, \A x \in t : t \ {x} \in P
      PROVE  t \in P
  <2>1. IsFiniteSet(t) /\ IsFiniteSet(t \cap T) /\ \A x \in t : Val(f, x) \in Int
    BY FS_Subset
  <2>2. CASE t = {}
    <3>1. t \cap T = t
      BY <2>2
    <3>2. QED
      BY <3>1
  <2>3. CASE t # {}
    <3> DEFINE x == Picked(t)
               g == t \ {x}
               p == t \cap T
    <3>1. x \in t
      BY <2>3 DEF Picked
    <3> HIDE DEF x
    <3>2. Total(f, g) = Total(f, g \cap T)
      BY <1>1, <3>1
    <3>3. Total(f, t) = Val(f, x) + Total(f, g)
      BY <2>1, <3>1, SumRemove
    <3>4. IsFiniteSet(g \cap T) /\ Total(f, g \cap T) \in Int
      <4>1. IsFiniteSet(g \cap T)
        BY <2>1, FS_Subset
      <4>2. \A y \in g \cap T : Val(f, y) \in Int
        BY <2>1
      <4>3. QED
        BY <4>1, <4>2, SumInt
    <3>5. CASE x \in T
      <4>1. x \in p /\ p \ {x} = g \cap T /\ IsFiniteSet(p) /\ \A y \in p : Val(f, y) \in Int
        BY <2>1, <3>1, <3>5
      <4> HIDE DEF p, g
      <4>2. Total(f, p) = Val(f, x) + Total(f, p \ {x})
        BY <4>1, SumRemove
      <4>3. Total(f, t) = Total(f, p)
        BY <3>2, <3>3, <4>1, <4>2
      <4>4. QED
        BY <4>3 DEF p
    <3>6. CASE x \notin T
      <4>1. p = g \cap T /\ Val(f, x) = 0
        BY <3>1, <3>6
      <4> HIDE DEF p, g
      <4>2. Total(f, t) = Total(f, p)
        BY <3>2, <3>3, <3>4, <4>1
      <4>3. QED
        BY <4>2 DEF p
    <3>7. QED
      BY <3>5, <3>6
  <2>4. QED
    BY <2>2, <2>3
<1>2. S \in P
  <2> HIDE DEF P
  <2>1. \A t \in SUBSET S : t \in P
    BY <1>1, Subsets
  <2>2. QED
    BY <2>1
<1>3. Total(f, S) = Total(f, S \cap T) /\ S \cap T = T
  BY <1>2
<1>4. QED
  BY <1>3

\* The blocks of the rows that hold a lease, in tokens.
LEMMA BlocksInTokens ==
  ASSUME NEW l \in Leases, NEW d \in Nat \ {0}, NEW w \in [Requests -> Nat],
         \A r \in Holding(l) : d * w[r] <= l[r].capacity + d - 1
  PROVE  /\ Total(Values(w), Holding(l)) \in Int
         /\ d * Total(Values(w), Holding(l)) <= Reserved(l) + (d - 1) * Held(l)
<1> DEFINE H == Holding(l)
           u == Values(w)
           v == [kind |-> "capacity", of |-> l]
           Good(t) == /\ Total(u, t) \in Int /\ Total(v, t) \in Int
                      /\ d * Total(u, t) <= Total(v, t) + (d - 1) * Cardinality(t)
           P == {t \in SUBSET H : Good(t)}
<1>1. /\ IsFiniteSet(H) /\ Reserved(l) = Total(v, H) /\ Held(l) = Cardinality(H)
      /\ \A r \in H : Val(v, r) = l[r].capacity /\ l[r].capacity \in Nat
  BY ReserveNat, ReservedSum DEF Holding, Held
<1>2. \A r \in H : Val(u, r) = w[r] /\ w[r] \in Nat
  BY ValuesAre DEF Holding
<1>3. \A r \in H : d * w[r] <= l[r].capacity + d - 1
  OBVIOUS
<1> HIDE DEF H, u, v
<1>4. ASSUME NEW t \in SUBSET H, \A x \in t : t \ {x} \in P
      PROVE  t \in P
  <2>1. IsFiniteSet(t)
    BY <1>1, FS_Subset
  <2>2. CASE t = {}
    <3>1. Total(u, t) = 0 /\ Total(v, t) = 0 /\ Cardinality(t) = 0
      BY <2>1, <2>2, SumUnfold, FS_EmptySet
    <3>2. Good(t)
      BY <3>1
    <3> HIDE DEF Good
    <3>3. QED
      BY <3>2
  <2>3. CASE t # {}
    <3> DEFINE x == Picked(t)
               g == t \ {x}
    <3>1. x \in t
      BY <2>3 DEF Picked
    <3>2. /\ Total(u, t) = Val(u, x) + Total(u, g) /\ Total(v, t) = Val(v, x) + Total(v, g)
          /\ Good(g)
      <4>1. Good(g)
        BY <1>4, <3>1
      <4> HIDE DEF Good
      <4>2. QED
        BY <2>1, <2>3, <4>1, SumUnfold
    <3> HIDE DEF x
    <3>3. Cardinality(g) = Cardinality(t) - 1 /\ Cardinality(t) \in Nat
      BY <2>1, <3>1, FS_RemoveElement, FS_CardinalityType
    <3> HIDE DEF g
    <3> DEFINE a == Total(u, g)
               b == Total(v, g)
               k == Cardinality(t)
               p == w[x]
               q == l[x].capacity
    <3>4. /\ a \in Int /\ b \in Int /\ k \in Nat /\ p \in Nat /\ q \in Nat /\ d * a <= b + (d - 1) * (k - 1)
          /\ d * p <= q + d - 1 /\ Total(u, t) = p + a /\ Total(v, t) = q + b
      BY <1>1, <1>2, <1>3, <3>1, <3>2, <3>3
    <3> HIDE DEF a, b, p, q
    <3>5. d * (p + a) <= (q + b) + (d - 1) * k
      <4> HIDE DEF k
      <4>1. d * (p + a) = d * p + d * a /\ (d - 1) * k = (d - 1) * (k - 1) + (d - 1)
        BY <3>4
      <4> DEFINE e == d * p
                 f == d * a
                 h == (d - 1) * (k - 1)
      <4>2. e \in Int /\ f \in Int /\ h \in Int
        BY <3>4
      <4>3. e <= q + d - 1 /\ f <= b + h /\ d * (p + a) = e + f /\ (d - 1) * k = h + (d - 1)
        BY <3>4, <4>1
      <4> HIDE DEF e, f, h
      <4>4. e + f <= (q + b) + (h + (d - 1))
        BY <3>4, <4>2, <4>3
      <4>5. QED
        BY <4>3, <4>4
    <3>6. Good(t)
      BY <3>4, <3>5
    <3> HIDE DEF Good
    <3>7. QED
      BY <3>6
  <2>4. QED
    BY <2>2, <2>3
<1>5. H \in P
  <2> HIDE DEF P
  <2>1. \A t \in SUBSET H : t \in P
    BY <1>1, <1>4, Subsets
  <2>2. QED
    BY <2>1
<1>6. Good(H)
  <2> HIDE DEF Good
  <2>1. QED
    BY <1>5
<1>7. QED
  BY <1>1, <1>6 DEF H, u

\* Dividing that by the block size.
LEMMA Rounded ==
  ASSUME NEW d \in Nat \ {0}, NEW m \in Int, NEW R \in Nat, NEW K \in Nat, NEW c \in Nat, NEW a \in Nat, NEW q \in Nat,
         d * m <= R + (d - 1) * K, R <= c, K <= a, c <= d * q
  PROVE  m <= q + a
<1>1. (d - 1) * K <= (d - 1) * a
  BY Products
<1>2. SUFFICES ASSUME m > q + a PROVE FALSE
  OBVIOUS
<1>3. m \in Nat /\ q + a + 1 \in Nat /\ q + a + 1 <= m
  BY <1>2
<1>4. d * (q + a + 1) <= d * m
  BY <1>3, Products
<1> DEFINE e == d * q
           f == d * a
           h == (d - 1) * K
           z == d * m
<1>5. e \in Int /\ f \in Int /\ h \in Int /\ z \in Int
  BY <1>3
<1>6. d * (q + a + 1) = e + f + d /\ (d - 1) * a = f - a
  BY <1>3
<1>7. h <= f - a /\ e + f + d <= z /\ z <= R + h /\ R <= c /\ c <= e
  BY <1>1, <1>4, <1>6
<1> HIDE DEF e, f, h, z
<1>8. QED
  BY <1>5, <1>7

\* Whatever the rows that admission let in may store, there are blocks for it.
LEMMA PoolHolds ==
  ASSUME Inv, pc \notin {"ended", "closed"}, Roomy, limits.layout # "dense", NEW w \in [Requests -> Nat],
         \A r \in Requests : w[r] <= IF state[r] = "active" THEN CeilDiv(Needed(r), limits.block) ELSE 0
  PROVE  Total(Values(w), Requests) <= PoolBlocks(limits)
<1> DEFINE d == limits.block
           H == Holding(lease)
           m == Total(Values(w), H)
<1>1. /\ limits \in Limits /\ lease \in Leases /\ IsFiniteSet(Requests) /\ d \in Nat \ {0}
      /\ limits.capacity \in Nat /\ limits.active \in Nat \ {0}
  BY LiveAssumption, Positive DEF Inv, Typed
<1>2. \A r \in Requests : r \in H <=> state[r] = "active"
  BY Running DEF RowTrue, Holding
<1>3. \A r \in Requests : w[r] \in Nat /\ (r \notin H => w[r] = 0)
  BY <1>2
<1> HIDE DEF d
<1>4. ASSUME NEW r \in H
      PROVE  d * w[r] <= lease[r].capacity + d - 1
  <2>1. r \in Requests /\ lease[r] # None /\ lease[r].capacity = Needed(r) /\ state[r] = "active"
    BY <1>2 DEF Holding, Inv, RowsOK, RowOK
  <2> DEFINE x == w[r]
             y == CeilDiv(Needed(r), d)
             n == Needed(r)
  <2>2. x \in Nat /\ n \in Nat
    BY <2>1, <1>3, Positive
  <2>3. y \in Nat /\ d * y <= n + d - 1
    BY <1>1, <2>2, Ceil
  <2>4. x <= y
    BY <2>1 DEF d
  <2>5. d * x <= d * y /\ d * x \in Nat /\ d * y \in Nat
    BY <1>1, <2>2, <2>3, <2>4, Products
  <2> DEFINE e == d * x
             f == d * y
  <2>6. e <= f /\ f <= n + d - 1 /\ e \in Nat /\ f \in Nat
    BY <2>3, <2>5
  <2> HIDE DEF e, f, n
  <2>7. e <= n + d - 1
    BY <1>1, <2>2, <2>6
  <2>8. QED
    BY <2>1, <2>7 DEF e, n
<1>5. m \in Int /\ d * m <= Reserved(lease) + (d - 1) * Held(lease)
  BY <1>1, <1>4, BlocksInTokens
<1>6. /\ Reserved(lease) \in Nat /\ Held(lease) \in Nat /\ Reserved(lease) <= limits.capacity
      /\ Held(lease) <= limits.active
  <2>1. /\ Reserved(lease) \in Nat /\ Held(lease) \in Nat /\ Reserved(lease) <= limits.capacity /\ Held(lease) <= Cap
    BY <1>1, ReserveNat DEF Inv, Room
  <2>2. Cap \in Nat /\ Cap <= limits.active
    BY <1>1 DEF Cap
  <2>3. QED
    BY <1>1, <2>1, <2>2
<1>7. CeilDiv(limits.capacity, d) \in Nat /\ limits.capacity <= d * CeilDiv(limits.capacity, d)
  BY <1>1, Ceil
<1>8. m <= CeilDiv(limits.capacity, d) + limits.active
  <2> HIDE DEF m
  <2>1. QED
    BY <1>1, <1>5, <1>6, <1>7, Rounded
<1>9. Total(Values(w), Requests) = m
  <2>1. \A r \in Requests : Val(Values(w), r) \in Int /\ (r \notin H => Val(Values(w), r) = 0)
    BY <1>3, ValuesAre
  <2>2. H \in SUBSET Requests
    BY DEF Holding
  <2> HIDE DEF H
  <2>3. QED
    BY <1>1, <2>1, <2>2, SumSupport
<1>10. PoolBlocks(limits) = CeilDiv(limits.capacity, d) + limits.active
  BY DEF Roomy, PoolBlocks, FullPool, d
<1>11. QED
  BY <1>8, <1>9, <1>10

\* What the rows hold once a batch is committed.
LEMMA BatchGrowth ==
  ASSUME NEW L \in Limits, L.layout # "dense", NEW k, Pool(L, k), NEW s \in Seq(StepSet), OneEach(s), Current(k, s)
  PROVE  \E w \in [Requests -> Nat] :
            /\ Total(Needs(L, k, s), DOMAIN s) + BlocksHeld(k.blocks) = Total(Values(w), Requests)
            /\ \A i \in DOMAIN s : w[s[i].id] = CeilDiv(s[i].start + s[i].len, L.block)
            /\ \A r \in Requests \ Ids(s) : w[r] = Len(k.blocks[r])
<1> DEFINE n == Len(s)
           f == Needs(L, k, s)
           end(i) == CeilDiv(s[i].start + s[i].len, L.block)
           z == BlocksHeld(k.blocks)
           Good(i, w) == /\ Total(f, 1..i) + z = Total(Values(w), Requests)
                         /\ \A j \in 1..i : w[s[j].id] = end(j)
                         /\ \A r \in Requests : (\A j \in 1..i : s[j].id # r) => w[r] = Len(k.blocks[r])
           T == {i \in 0..n : \E w \in [Requests -> Nat] : Good(i, w)}
<1>1. n \in Nat /\ DOMAIN s = 1..n /\ \A i \in 1..n : s[i] \in StepSet
  OBVIOUS
<1>2. \A i \in 1..n : Val(f, i) = Growth(L, k, s[i]) /\ Growth(L, k, s[i]) \in Nat
  BY <1>1, NeedsNat
<1>3. \A r \in Requests : Len(k.blocks[r]) \in Nat
  <2>1. \A r \in Requests : k.blocks[r] \in Seq(Int)
    BY DEF Pool, Private
  <2>2. QED
    BY <2>1
<1>4. IsFiniteSet(Requests) /\ L.block \in Nat \ {0}
  BY LiveAssumption, Positive
<1> HIDE DEF n, f
<1>5. 0 \in T
  <2> DEFINE w == [r \in Requests |-> Len(k.blocks[r])]
             E == 1..0
  <2>1. w \in [Requests -> Nat] /\ z = Total(Values(w), Requests)
    BY <1>3 DEF BlocksHeld, Values
  <2>2. Total(f, E) = 0
    <3>1. E = {} /\ IsFiniteSet(E)
      BY FS_EmptySet
    <3> HIDE DEF E
    <3>2. QED
      BY <3>1, SumUnfold
  <2>3. z \in Int
    <3>1. \A r \in Requests : Val(Values(w), r) \in Int
      BY <2>1, ValuesAre
    <3> HIDE DEF w
    <3>2. QED
      BY <1>4, <2>1, <3>1, SumInt
  <2>4. Good(0, w)
    <3>1. Total(f, 1..0) + z = Total(Values(w), Requests)
      <4> HIDE DEF z, w
      <4>1. QED
        BY <2>1, <2>2, <2>3
    <3>2. \A r \in Requests : w[r] = Len(k.blocks[r])
      OBVIOUS
    <3>3. QED
      BY <3>1, <3>2
  <2> HIDE DEF Good, w
  <2>5. QED
    BY <1>1, <2>1, <2>4
<1>6. ASSUME NEW i \in 1..n, i - 1 \in T
      PROVE  i \in T
  <2>1. PICK w \in [Requests -> Nat] : Good(i - 1, w)
    BY <1>6
  <2> DEFINE x == s[i].id
             e == end(i)
             y == [w EXCEPT ![x] = e]
  <2>2. x \in Requests /\ s[i].start \in Nat /\ s[i].len \in Nat /\ s[i] \in StepSet /\ i \in DOMAIN s
    BY <1>1 DEF StepSet
  <2>3. e \in Nat
    <3>1. s[i].start + s[i].len \in Nat
      BY <2>2
    <3>2. QED
      BY <1>4, <3>1, Ceil
  <2>4. \A j \in 1..(i - 1) : s[j].id # x /\ j \in 1..n
    BY <1>1 DEF OneEach
  <2>5. w[x] = Len(k.blocks[x]) /\ w[x] \in Nat
    BY <2>1, <2>2, <2>4
  <2>6. Growth(L, k, s[i]) = e - w[x]
    BY <2>5 DEF Growth
  <2> HIDE DEF x, e
  <2>7. y \in [Requests -> Nat] /\ y[x] = e /\ \A r \in Requests \ {x} : y[r] = w[r]
    BY <2>2, <2>3
  <2> HIDE DEF y
  <2>8. Total(Values(y), Requests) = Total(Values(w), Requests) - w[x] + e /\ Total(Values(w), Requests) \in Int
    <3>1. \A r \in Requests : Val(Values(w), r) = w[r] /\ w[r] \in Int /\ Val(Values(y), r) = y[r] /\ y[r] \in Int
      BY <2>7, ValuesAre
    <3>2. \A r \in Requests : Val(Values(w), r) \in Int /\ Val(Values(y), r) \in Int
      BY <3>1
    <3>3. \A r \in Requests \ {x} : Val(Values(w), r) = Val(Values(y), r)
      BY <2>7, <3>1
    <3>4. Total(Values(y), Requests) = Total(Values(w), Requests) - Val(Values(w), x) + Val(Values(y), x)
      BY <1>4, <2>2, <3>2, <3>3, SumUpdate
    <3>5. Total(Values(w), Requests) \in Int
      BY <1>4, <3>2, SumInt
    <3>6. QED
      BY <2>2, <2>7, <3>1, <3>4, <3>5
  <2>9. Total(f, 1..i) = Growth(L, k, s[i]) + Total(f, 1..(i - 1)) /\ Total(f, 1..(i - 1)) \in Int
    <3>1. (1..i) \ {i} = 1..(i - 1) /\ i \in 1..i
      BY <1>1, Initial
    <3>2. IsFiniteSet(1..i) /\ IsFiniteSet(1..(i - 1))
      BY <1>1, FS_Interval
    <3>3. \A j \in 1..i : Val(f, j) \in Int /\ j \in 1..n
      BY <1>1, <1>2
    <3>4. \A j \in 1..(i - 1) : Val(f, j) \in Int
      BY <1>1, <3>3
    <3>5. Total(f, 1..i) = Val(f, i) + Total(f, (1..i) \ {i})
      BY <3>1, <3>2, <3>3, SumRemove
    <3>6. Total(f, 1..(i - 1)) \in Int
      BY <3>2, <3>4, SumInt
    <3>7. QED
      BY <1>2, <3>1, <3>5, <3>6
  <2>10. Good(i, y)
    <3>1. Total(f, 1..i) + z = Total(Values(y), Requests)
      <4> DEFINE a == Total(f, 1..(i - 1))
                 b == Total(Values(w), Requests)
                 c == w[x]
                 g == Growth(L, k, s[i])
      <4>1. a + z = b /\ a \in Int /\ b \in Int /\ c \in Nat /\ e \in Nat /\ g = e - c /\ z \in Int
        <5>1. a + z = b
          BY <2>1
        <5>2. z \in Int
          <6>1. \A r \in Requests : Val(Values([q \in Requests |-> Len(k.blocks[q])]), r) \in Int
            BY <1>3, ValuesAre
          <6>2. z = Total(Values([q \in Requests |-> Len(k.blocks[q])]), Requests)
            BY DEF BlocksHeld, Values
          <6>3. QED
            BY <1>4, <6>1, <6>2, SumInt
        <5>3. QED
          BY <2>3, <2>5, <2>6, <2>8, <2>9, <5>1, <5>2
      <4>2. Total(f, 1..i) = g + a /\ Total(Values(y), Requests) = b - c + e
        BY <2>8, <2>9
      <4> HIDE DEF a, b, c, g, z
      <4>3. (g + a) + z = b - c + e
        BY <4>1
      <4>4. QED
        BY <4>2, <4>3
    <3>2. ASSUME NEW j \in 1..i
          PROVE  y[s[j].id] = end(j)
      <4>1. CASE j = i
        BY <2>7, <4>1 DEF x, e
      <4>2. CASE j # i
        <5>1. j \in 1..(i - 1)
          BY <1>1, <4>2
        <5>2. s[j].id # x /\ s[j].id \in Requests /\ w[s[j].id] = end(j)
          BY <1>1, <2>1, <2>4, <5>1 DEF StepSet
        <5> HIDE DEF end
        <5>3. QED
          BY <2>7, <5>2
      <4>3. QED
        BY <4>1, <4>2
    <3>3. ASSUME NEW r \in Requests, \A j \in 1..i : s[j].id # r
          PROVE  y[r] = Len(k.blocks[r])
      <4>1. r # x /\ \A j \in 1..(i - 1) : s[j].id # r
        BY <1>1, <3>3 DEF x
      <4>2. QED
        BY <2>1, <2>7, <4>1
    <3> HIDE DEF end, z
    <3>4. QED
      BY <3>1, <3>2, <3>3
  <2> HIDE DEF Good
  <2>11. QED
    BY <1>1, <2>7, <2>10
<1>7. n \in T
  <2> HIDE DEF T
  <2>1. \A i \in 0..n : i \in T
    BY <1>1, <1>5, <1>6, UpTo
  <2>2. QED
    BY <1>1, <2>1
<1>8. PICK w \in [Requests -> Nat] : Good(n, w)
  BY <1>7
<1>9. /\ Total(f, DOMAIN s) + z = Total(Values(w), Requests)
      /\ \A i \in DOMAIN s : w[s[i].id] = end(i)
      /\ \A r \in Requests \ Ids(s) : w[r] = Len(k.blocks[r])
  <2> HIDE DEF end, z
  <2>1. QED
    BY <1>1, <1>8 DEF Ids
<1>10. QED
  BY <1>9 DEF f

\* No batch of the active rows is refused while the executor has room.
LEMMA NotRefused ==
  ASSUME Inv, pc \notin {"ended", "closed"}, Roomy, NEW s, Batch(limits, View, s, In("active")), Current(kv, s)
  PROVE  ~Refused(limits, kv, s)
<1>1. CASE limits.layout = "dense"
  BY <1>1 DEF Refused
<1>2. CASE limits.layout # "dense"
  <2>1. limits \in Limits /\ Pool(limits, kv) /\ s \in Seq(StepSet) /\ OneEach(s)
    BY DEF Inv, Typed, Batch
  <2>2. PICK w \in [Requests -> Nat] :
            /\ Total(Needs(limits, kv, s), DOMAIN s) + BlocksHeld(kv.blocks) = Total(Values(w), Requests)
            /\ \A i \in DOMAIN s : w[s[i].id] = CeilDiv(s[i].start + s[i].len, limits.block)
            /\ \A r \in Requests \ Ids(s) : w[r] = Len(kv.blocks[r])
    BY <1>2, <2>1, BatchGrowth
  <2>3. ASSUME NEW r \in Requests
        PROVE  w[r] <= IF state[r] = "active" THEN CeilDiv(Needed(r), limits.block) ELSE 0
    <3>1. RowTrue(r) /\ RowOK(r) /\ limits.block \in Nat \ {0} /\ Needed(r) \in Nat /\ consumed[r] \in Nat
      BY <2>1, Running, Positive DEF Inv, RowsOK, Typed
    <3>2. CASE r \in Ids(s)
      <4>1. PICK i \in DOMAIN s : r = s[i].id
        BY <3>2 DEF Ids
      <4>2. GoodStep(limits, View, s[i]) /\ r \in In("active") /\ s[i] \in StepSet
        BY <2>1, <4>1 DEF Batch
      <4>3. /\ View.history[r] = Input[r] + output[r] /\ output[r] \in Nat /\ output[r] < Output[r]
        BY <4>2, ActiveRows
      <4> DEFINE n == s[i].start + s[i].len
                 a == Input[r]
                 b == Output[r]
                 o == output[r]
      <4>4. n \in Nat /\ n <= a + o /\ a \in Nat /\ b \in Nat /\ o \in Nat /\ o < b /\ Needed(r) = a + b - 1
        <5>1. s[i].start \in Nat /\ s[i].len \in Nat
          BY <4>2 DEF StepSet
        <5>2. n \in Nat
          BY <5>1
        <5>3. n <= View.history[r]
          BY <4>1, <4>2 DEF GoodStep
        <5>4. QED
          BY <4>3, <5>2, <5>3, Positive DEF Needed
      <4> HIDE DEF a, b, o
      <4>5. n <= Needed(r)
        <5> HIDE DEF n
        <5>1. QED
          BY <4>4
      <4>6. state[r] = "active"
        BY <4>2 DEF In
      <4>7. w[r] = CeilDiv(n, limits.block)
        BY <2>2, <4>1
      <4> HIDE DEF n
      <4>8. CeilDiv(n, limits.block) <= CeilDiv(Needed(r), limits.block)
        BY <3>1, <4>4, <4>5, CeilMonotone
      <4>9. QED
        BY <4>6, <4>7, <4>8
    <3>3. CASE r \notin Ids(s)
      <4>1. w[r] = Len(kv.blocks[r])
        BY <2>2, <3>3
      <4>2. CASE state[r] = "active"
        <5>1. Len(kv.blocks[r]) = CeilDiv(consumed[r], limits.block)
          BY <1>2, <2>1, <3>1, <4>2 DEF Pool, RowTrue
        <5>2. consumed[r] <= Needed(r)
          BY <3>1 DEF RowOK
        <5>3. CeilDiv(consumed[r], limits.block) <= CeilDiv(Needed(r), limits.block)
          BY <3>1, <5>2, CeilMonotone
        <5>4. QED
          BY <4>1, <4>2, <5>1, <5>3
      <4>3. CASE state[r] # "active"
        <5>1. kv.blocks[r] = <<>>
          BY <3>1, <4>3 DEF RowTrue
        <5>2. w[r] = 0
          BY <4>1, <5>1
        <5>3. QED
          BY <4>3, <5>2
      <4>4. QED
        BY <4>2, <4>3
    <3>4. QED
      BY <3>2, <3>3
  <2>4. Total(Values(w), Requests) <= PoolBlocks(limits)
    BY <1>2, <2>3, PoolHolds
  <2>5. Total(Needs(limits, kv, s), DOMAIN s) <= Len(kv.free)
    <3> DEFINE a == Total(Needs(limits, kv, s), DOMAIN s)
               b == BlocksHeld(kv.blocks)
               c == Len(kv.free)
               p == PoolBlocks(limits)
    <3>1. c + b = p /\ p \in Nat /\ a + b <= p
      BY <1>2, <2>1, <2>2, <2>4, PoolNat DEF Pool
    <3>2. c \in Nat
      <4>1. kv.free \in Seq(Int)
        BY <1>2, <2>1 DEF Pool, Private
      <4>2. QED
        BY <4>1
    <3>3. b \in Int
      <4> DEFINE y == [q \in Requests |-> Len(kv.blocks[q])]
      <4>1. \A r \in Requests : kv.blocks[r] \in Seq(Int)
        BY <1>2, <2>1 DEF Pool, Private
      <4>2. \A r \in Requests : y[r] \in Int
        BY <4>1
      <4>3. b = Total(Values(y), Requests)
        BY DEF BlocksHeld, Values
      <4> HIDE DEF y, b
      <4>4. \A r \in Requests : Val(Values(y), r) \in Int
        BY <4>2, ValuesAre
      <4>5. QED
        BY <4>3, <4>4, LiveAssumption, SumInt
    <3>4. a \in Int
      <4>1. \A i \in DOMAIN s : Val(Needs(limits, kv, s), i) \in Int
        BY <1>2, <2>1, NeedsNat
      <4>2. IsFiniteSet(DOMAIN s)
        <5>1. DOMAIN s = 1..Len(s) /\ Len(s) \in Nat
          BY <2>1
        <5>2. QED
          BY <5>1, FS_Interval
      <4>3. QED
        BY <4>1, <4>2, SumInt
    <3> HIDE DEF a, b, c, p
    <3>5. a <= c
      BY <3>1, <3>2, <3>3, <3>4
    <3>6. QED
      BY <3>5 DEF a, c
  <2>6. ~Stale(kv, s)
    BY DEF Current, Stale
  <2>7. QED
    <3> DEFINE a == Total(Needs(limits, kv, s), DOMAIN s)
               c == Len(kv.free)
    <3>1. a <= c /\ (Refused(limits, kv, s) => Stale(kv, s) \/ a > c)
      BY <2>5, RefusedIs
    <3>2. a \in Int /\ c \in Int
      <4>1. kv.free \in Seq(Int)
        BY <1>2, <2>1 DEF Pool, Private
      <4>2. \A i \in DOMAIN s : Val(Needs(limits, kv, s), i) \in Int
        BY <1>2, <2>1, NeedsNat
      <4>3. IsFiniteSet(DOMAIN s)
        <5>1. DOMAIN s = 1..Len(s) /\ Len(s) \in Nat
          BY <2>1
        <5>2. QED
          BY <5>1, FS_Interval
      <4>4. QED
        BY <4>1, <4>2, <4>3, SumInt
    <3> HIDE DEF a, c
    <3>3. ~(a > c)
      BY <3>1, <3>2
    <3>4. QED
      BY <2>6, <3>1, <3>3
<1>3. QED
  BY <1>1, <1>2

-----------------------------------------------------------------------------
(***************************************************************************)
(* The second part of the invariant: the engine does not trip over its own *)
(* checks.                                                                 *)
(***************************************************************************)

\* Without chunks a live row is at its beginning or one token behind.
WholeRow(r) ==
    state[r] \in {"waiting", "active"} =>
        \/ output[r] = 0 /\ consumed[r] = 0
        \/ output[r] > 0 /\ consumed[r] = Input[r] + output[r] - 1

\* So it is with every row when chunks are off.
Whole == ~limits.chunked => \A r \in Requests : WholeRow(r)

\* No stale commit; and with room no lack of progress and no refusal.
Untripped ==
    /\ error # "STALE_OR_INVALID_KV_COMMIT"
    /\ Roomy => error # "SCHEDULER_NO_PROGRESS" /\ \A r \in Requests : reason[r] # "refused"

\* run() returns with nothing active.
Vacated == pc = "ended" /\ error = None => \A r \in Requests : state[r] # "active"

\* The whole inductive invariant.
FullInv == Inv /\ Whole /\ Untripped /\ Vacated

\* Roomy is about the limits alone.
LEMMA RoomyKept == ASSUME UNCHANGED limits PROVE Roomy' <=> Roomy
BY DEF Roomy

\* The two reasons for the second part to stay.
LEMMA WholeKept ==
  ASSUME FullInv, UNCHANGED limits,
         ~limits.chunked => \A r \in Requests : state'[r] \in {"waiting", "active"} =>
            \/ state[r] \in {"waiting", "active"} /\ output'[r] = output[r] /\ consumed'[r] = consumed[r]
            \/ output'[r] = 0 /\ consumed'[r] = 0
  PROVE  Whole'
<1>1. ~limits.chunked => \A r \in Requests : WholeRow(r)'
  BY DEF FullInv, Whole, WholeRow
<1>2. QED
  BY <1>1 DEF Whole

\* Untripped stays when no row is newly refused and no check of the engine fires.
LEMMA UntrippedKept ==
  ASSUME FullInv, UNCHANGED limits, error' = error \/ error' = "EXECUTOR",
         \A r \in Requests : reason'[r] = "refused" => reason[r] = "refused"
  PROVE  Untripped'
BY RoomyKept DEF FullInv, Untripped

\* The steps that change no row.
LEMMA StillFull ==
  ASSUME FullInv, UNCHANGED <<limits, state, reason, output, consumed>>, error' = error \/ error' = "EXECUTOR",
         pc' = "ended" => pc = "ended" \/ error' # None
  PROVE  Whole' /\ Untripped' /\ Vacated'
<1>1. Whole'
  BY WholeKept
<1>2. Untripped'
  BY UntrippedKept
<1>3. Vacated'
  BY LiveAssumption DEF FullInv, Vacated, Errors
<1>4. QED
  BY <1>1, <1>2, <1>3

\* accept.
LEMMA AcceptFull ==
  ASSUME FullInv, NEW x \in Requests, state[x] = "absent", Accept(x), pc \in {"intake", "scan"},
         UNCHANGED <<limits, pc, error, output, consumed>>
  PROVE  Whole' /\ Untripped' /\ Vacated'
<1> DEFINE st == IF Acceptable(x) THEN "waiting" ELSE "terminal"
           why == IF Acceptable(x) THEN None ELSE "rejected"
<1>1. state' = [state EXCEPT ![x] = st] /\ reason' = [reason EXCEPT ![x] = why]
  BY DEF Accept
<1>2. why # "refused"
  BY LiveAssumption DEF Reasons
<1>3. Typed /\ output[x] = 0 /\ consumed[x] = 0
  BY DEF FullInv, Inv, RowsOK, RowOK
<1> HIDE DEF st, why
<1>4. \A r \in Requests \ {x} : state'[r] = state[r] /\ reason'[r] = reason[r]
  BY <1>1, <1>3 DEF Typed
<1>5. reason'[x] = why
  BY <1>1, <1>3 DEF Typed
<1>6. Whole'
  BY <1>3, <1>4, WholeKept
<1>7. Untripped'
  BY <1>2, <1>4, <1>5, UntrippedKept
<1>8. Vacated'
  BY DEF Vacated
<1>9. QED
  BY <1>6, <1>7, <1>8

\* finish, for any other reason than a refusal.
LEMMA FinishFull ==
  ASSUME FullInv, NEW rs, NEW why, why # "refused", Finish(rs, why), UNCHANGED <<limits, error, output, consumed>>
  PROVE  /\ Whole' /\ Untripped'
         /\ \A r \in Requests : state'[r] = IF r \in ToSet(rs) THEN "terminal" ELSE state[r]
<1>1. \A r \in Requests : /\ state'[r] = IF r \in ToSet(rs) THEN "terminal" ELSE state[r]
                          /\ reason'[r] = IF r \in ToSet(rs) THEN why ELSE reason[r]
  BY DEF Finish
<1>2. Whole'
  BY <1>1, WholeKept
<1>3. Untripped'
  BY <1>1, UntrippedKept
<1>4. QED
  BY <1>1, <1>2, <1>3

\* The scan leaves the loop only when it ends everything.
LEMMA ScanFull ==
  ASSUME FullInv, NEW due \in SUBSET Live, NEW stopping \in BOOLEAN, Scan(due, stopping)
  PROVE  Whole' /\ Untripped' /\ Vacated'
<1> DEFINE rs == InOrder(due)
<1>1. /\ Finish(rs, "interrupted") /\ UNCHANGED <<limits, error, output, consumed>> /\ (stopping => due = Live)
      /\ pc' = IF stopping \/ (sealed /\ Live \subseteq due) THEN "ended" ELSE "admit"
  BY DEF Scan
<1>2. ToSet(rs) = due
  <2>1. order \in Seq(Requests) /\ Distinct(order) /\ ToSet(order) = {r \in Requests : state[r] # "absent"}
    BY DEF FullInv, Inv, Typed, OrderOK
  <2>2. ToSet(rs) = ToSet(order) \cap due
    BY <2>1, AmongKeeps DEF InOrder
  <2>3. due \subseteq ToSet(order)
    BY <2>1 DEF Live, In
  <2>4. QED
    BY <2>2, <2>3
<1> HIDE DEF rs
<1>3. /\ Whole' /\ Untripped'
      /\ \A r \in Requests : state'[r] = IF r \in ToSet(rs) THEN "terminal" ELSE state[r]
  BY <1>1, FinishFull
<1>4. Vacated'
  <2>1. ASSUME pc' = "ended", NEW r \in Requests
        PROVE  state'[r] # "active"
    <3>1. Live \subseteq due
      BY <1>1, <2>1
    <3>2. state[r] = "active" => r \in due
      BY <3>1 DEF Live, In
    <3>3. QED
      BY <1>2, <1>3, <3>2
  <2>2. QED
    BY <2>1 DEF Vacated
<1>5. QED
  BY <1>3, <1>4

\* Admission preempts only in sessions with chunks.
LEMMA AdmitFull ==
  ASSUME FullInv, Admit
  PROVE  Whole' /\ Untripped' /\ Vacated'
<1>1. Inv /\ pc' = "plan" /\ UNCHANGED <<limits, error, reason, output>>
  BY DEF FullInv, Admit
<1>2. PICK V \in SUBSET In("active") :
            /\ V # {} => preemptions < limits.preempt
            /\ \A r \in Requests :
                  /\ state'[r] = IF r \notin Live THEN state[r] ELSE IF lease'[r] = None THEN "waiting" ELSE "active"
                  /\ consumed'[r] = IF r \in V THEN 0 ELSE consumed[r]
  BY <1>1, AdmitRows
<1>3. ~limits.chunked => V = {}
  <2>1. limits \in Limits /\ preemptions \in 0..limits.preempt
    BY <1>1 DEF Inv, Typed
  <2>2. limits.preempt \in Nat /\ (limits.preempt > 0 => limits.chunked)
    BY <2>1, LiveAssumption
  <2>3. QED
    BY <1>2, <2>1, <2>2
<1>4. \A r \in Requests : state'[r] \in {"waiting", "active"} => state[r] \in {"waiting", "active"}
  BY <1>2 DEF Live, In
<1>5. Whole'
  BY <1>1, <1>2, <1>3, <1>4, WholeKept
<1>6. Untripped'
  BY <1>1, UntrippedKept
<1>7. Vacated'
  BY <1>1 DEF Vacated
<1>8. QED
  BY <1>5, <1>6, <1>7

\* A plan of some active rows is never empty: every row fits the token budget of
\* one forward or may be cut.
LEMMA PlanNotEmpty ==
  ASSUME FullInv, pc \notin {"ended", "closed"}, NEW c \in Ordered(In("active")), NEW o, In("active") # {}
  PROVE  Trimmed(limits, Plan(limits, View, c, o)) # <<>>
<1>1. Inv /\ limits \in Limits
  BY DEF FullInv, Inv, Typed
<1>2. ASSUME ~limits.chunked, NEW r \in In("active")
      PROVE  Remaining(View, r) <= limits.batched
  <2>1. /\ r \in Requests /\ View.history[r] = Input[r] + output[r] /\ View.consumed[r] = consumed[r]
        /\ Acceptable(r) /\ output[r] \in Nat
    BY <1>1, ActiveRows
  <2>2. state[r] = "active" /\ WholeRow(r)
    BY <1>2, <2>1 DEF FullInv, Whole, In
  <2>3. Input[r] \in Nat \ {0} /\ limits.batched \in Nat \ {0} /\ Input[r] <= limits.batched
    BY <1>1, <1>2, <2>1, Positive DEF Acceptable
  <2> DEFINE a == Input[r]
             x == output[r]
             n == consumed[r]
             b == limits.batched
  <2>4. /\ a \in Nat \ {0} /\ b \in Nat \ {0} /\ a <= b /\ x \in Nat
        /\ (x = 0 /\ n = 0) \/ (x > 0 /\ n = a + x - 1)
        /\ Remaining(View, r) = (a + x) - n
    BY <2>1, <2>2, <2>3 DEF WholeRow, Remaining
  <2> HIDE DEF a, x, n, b
  <2>5. (a + x) - n <= b
    BY <2>4
  <2>6. QED
    BY <2>4, <2>5 DEF b
<1>3. limits.chunked \/ \A r \in In("active") : Remaining(View, r) <= limits.batched
  BY <1>2
<1>4. QED
  BY <1>1, <1>3, PlannedGood

\* Planning.
LEMMA PlanFull ==
  ASSUME FullInv, PlanStep
  PROVE  Whole' /\ Untripped' /\ Vacated'
<1>1. Inv /\ pc = "plan" /\ UNCHANGED limits
  BY DEF FullInv, PlanStep
<1>2. PICK c \in Ordered(In("active")) :
        LET planned == Trimmed(limits, Plan(limits, View, c, odd))
        IN  IF planned = <<>> THEN PlanNothing
            ELSE \E n \in Prepared(planned) : PlanBatch(planned, n) \/ (n = 0 /\ PlanRefused(planned))
  BY DEF PlanStep
<1> DEFINE s == Trimmed(limits, Plan(limits, View, c, odd))
<1>3. Batch(limits, View, s, In("active")) /\ Current(kv, s)
  BY <1>1, PlannedGood
<1>4. In("active") # {} => s # <<>>
  BY <1>1, PlanNotEmpty
<1>5. IF s = <<>> THEN PlanNothing
      ELSE \E n \in Prepared(s) : PlanBatch(s, n) \/ (n = 0 /\ PlanRefused(s))
  BY <1>2
<1> HIDE DEF s
<1>6. CASE s = <<>>
  <2>1. PlanNothing /\ In("active") = {}
    BY <1>4, <1>5, <1>6
  <2>2. pc' = "intake" /\ error' = error /\ UNCHANGED <<state, reason, output, consumed>>
    BY <2>1 DEF PlanNothing, NextTurn, rows
  <2>3. QED
    BY <1>1, <2>2, StillFull
<1>7. ASSUME NEW n \in Prepared(s), PlanBatch(s, n)
      PROVE  Whole' /\ Untripped' /\ Vacated'
  <2>1. pc' = "forward" /\ error' = error /\ UNCHANGED <<state, reason, output, consumed>>
    BY <1>7 DEF PlanBatch, rows
  <2>2. QED
    BY <1>1, <2>1, StillFull
<1>8. ASSUME s # <<>>, 0 \in Prepared(s), PlanRefused(s)
      PROVE  Whole' /\ Untripped' /\ Vacated'
  <2>1. ~Roomy
    <3>1. SUFFICES ASSUME Roomy PROVE FALSE
      OBVIOUS
    <3>2. ~Refused(limits, kv, s)
      BY <1>1, <1>3, <3>1, NotRefused
    <3>3. ~limits.headroom /\ limits \in Limits /\ Pool(limits, kv) /\ s \in Seq(StepSet)
      BY <1>1, <1>3, <3>1 DEF Roomy, Inv, Typed, Batch
    <3>4. Len(s) = 0
      BY <1>3, <1>8, <3>2, <3>3, PreparedGood
    <3>5. QED
      BY <1>8, <3>3, <3>4
  <2>2. /\ Finish(<<s[1].id>>, "refused") /\ UNCHANGED <<output, consumed>>
        /\ \/ pc' = "intake" /\ error' = error
           \/ pc' = "ended" /\ error' = "SCHEDULER_NO_PROGRESS"
    BY <1>8 DEF PlanRefused, NextTurn, Raise
  <2>3. \A r \in Requests : state'[r] = "terminal" \/ state'[r] = state[r]
    BY <2>2 DEF Finish
  <2>4. Whole'
    BY <1>1, <2>2, <2>3, WholeKept
  <2>5. Untripped'
    BY <1>1, <2>1, <2>2, RoomyKept DEF FullInv, Untripped
  <2>6. Vacated'
    BY <2>2, LiveAssumption DEF Vacated, Errors
  <2>7. QED
    BY <2>4, <2>5, <2>6
<1>9. QED
  BY <1>5, <1>6, <1>7, <1>8

\* The forward: without chunks every row of the batch gets its token or ends.
LEMMA ForwardFull ==
  ASSUME FullInv, Forward
  PROVE  Whole' /\ Untripped' /\ Vacated'
<1>1. /\ Inv /\ pc = "forward" /\ pc' = "intake" /\ error' = error /\ UNCHANGED limits
      /\ \E late \in SUBSET Members : \E eos \in SUBSET (Members \ (late \cup Fixed)) : ForwardDone(late, eos)
  <2>1. Inv /\ pc = "forward"
    BY DEF FullInv, Forward
  <2>2. Executable /\ \A r \in Members : Commits(r)
    BY <2>1, NeverStale
  <2>3. QED
    BY <2>1, <2>2 DEF Forward, NextTurn
<1>2. PICK late \in SUBSET Members, eos \in SUBSET Members : ForwardDone(late, eos)
  BY <1>1
<1>3. PICK emits \in SUBSET Members, ending \in SUBSET Members :
            /\ \A r \in emits : StepOf(r).emit
            /\ \A r \in Members \ emits : r \in ending \/ ~StepOf(r).emit
            /\ \A r \in Requests : Advanced(r, emits, ending)
  BY <1>1, <1>2, ForwardRows
<1>4. ASSUME ~limits.chunked, NEW r \in Requests
      PROVE  WholeRow(r)'
  <2>1. Advanced(r, emits, ending) /\ WholeRow(r)
    BY <1>3, <1>4 DEF FullInv, Whole
  <2>2. CASE r \notin Members
    <3>1. consumed'[r] = consumed[r] /\ output'[r] = output[r] /\ state'[r] = state[r]
      BY <2>1, <2>2 DEF Advanced
    <3>2. QED
      BY <2>1, <3>1 DEF WholeRow
  <2>3. CASE r \in ending
    BY <2>1, <2>3 DEF Advanced, WholeRow
  <2>4. CASE r \in Members /\ r \notin ending
    <3>1. /\ StepOf(r).emit <=> consumed[r] + StepOf(r).len = Input[r] + output[r]
          /\ output[r] \in Nat /\ Input[r] \in Nat
      BY <1>1, <2>4, TheStep, Positive
    <3>2. StepOf(r).emit
      <4>1. PICK i \in DOMAIN steps : StepOf(r) = steps[i]
        BY <1>1, <2>4, TheStep
      <4>2. GoodStep(limits, View, steps[i])
        BY <1>1, <4>1 DEF Inv, StepsOK, Batch
      <4>3. QED
        BY <1>4, <4>1, <4>2 DEF GoodStep
    <3>3. r \in emits
      BY <1>3, <2>4, <3>2
    <3>4. consumed'[r] = consumed[r] + StepOf(r).len /\ output'[r] = output[r] + 1
      BY <2>1, <2>4, <3>3 DEF Advanced
    <3> DEFINE a == Input[r]
               o == output[r]
               n == consumed'[r]
    <3>5. n = a + o /\ a \in Nat /\ o \in Nat
      BY <3>1, <3>2, <3>4
    <3> HIDE DEF n, a, o
    <3>6. o + 1 > 0 /\ n = a + (o + 1) - 1
      BY <3>5
    <3>7. output'[r] > 0 /\ consumed'[r] = Input[r] + output'[r] - 1
      BY <3>4, <3>6 DEF n, a, o
    <3>8. QED
      BY <3>7 DEF WholeRow
  <2>5. QED
    BY <1>3, <2>2, <2>3, <2>4
<1>5. Whole'
  BY <1>1, <1>4 DEF Whole
<1>6. Untripped'
  <2>1. \A r \in Requests : reason'[r] = "refused" => reason[r] = "refused"
    BY <1>3 DEF Advanced
  <2>2. QED
    BY <1>1, <2>1, UntrippedKept
<1>7. Vacated'
  BY <1>1 DEF Vacated
<1>8. QED
  BY <1>5, <1>6, <1>7

\* The first state, and every step.
LEMMA InitFull == Init => FullInv
<1> SUFFICES ASSUME Init PROVE FullInv
  OBVIOUS
<1>1. Inv
  BY InitInv
<1>2. Whole /\ Untripped /\ Vacated
  BY LiveAssumption DEF Init, Whole, WholeRow, Untripped, Vacated, Errors, Reasons
<1>3. QED
  BY <1>1, <1>2 DEF FullInv

\* Every step keeps the whole invariant.
LEMMA NextFull == FullInv /\ [Next]_vars => FullInv'
<1> SUFFICES ASSUME FullInv, [Next]_vars PROVE FullInv'
  OBVIOUS
<1>1. Inv /\ Inv'
  BY NextInv DEF FullInv
<1>2. SUFFICES Whole' /\ Untripped' /\ Vacated'
  BY <1>1 DEF FullInv
<1>3. CASE UNCHANGED vars
  <2>1. UNCHANGED <<limits, pc, error, state, reason, output, consumed>>
    BY <1>3 DEF vars, rows
  <2>2. QED
    BY <2>1, StillFull
<1>4. CASE Send \/ SenderDone \/ SenderFails \/ DrainEmpty \/ SealCheck
  <2>1. UNCHANGED <<limits, error, state, reason, output, consumed>> /\ (pc' = "ended" => pc = "ended")
    BY <1>4 DEF Send, SenderDone, SenderFails, DrainEmpty, SealCheck, rows
  <2>2. QED
    BY <2>1, StillFull
<1>5. CASE DrainItem
  <2> DEFINE x == Head(queue)
  <2>1. Accept(x) /\ pc = "intake" /\ UNCHANGED <<limits, pc, error, output, consumed>> /\ queue # <<>>
    BY <1>5 DEF DrainItem
  <2>2. x \in Requests /\ state[x] = "absent"
    BY <1>1, <2>1, HeadIsNew
  <2> HIDE DEF x
  <2>3. QED
    BY <2>1, <2>2, AcceptFull
<1>6. ASSUME NEW x \in Requests, Ingress(x)
      PROVE  Whole' /\ Untripped' /\ Vacated'
  <2>1. Accept(x) /\ pc = "scan" /\ UNCHANGED <<limits, pc, error, output, consumed>> /\ state[x] = "absent"
    BY <1>6 DEF Ingress
  <2>2. QED
    BY <2>1, AcceptFull
<1>7. ASSUME NEW x \in Requests, CancelRequest(x)
      PROVE  Whole' /\ Untripped' /\ Vacated'
  <2>1. Finish(<<x>>, "interrupted") /\ pc' = "scan" /\ UNCHANGED <<limits, error, output, consumed>>
    BY <1>7 DEF CancelRequest
  <2>2. Whole' /\ Untripped'
    BY <2>1, FinishFull
  <2>3. Vacated'
    BY <2>1 DEF Vacated
  <2>4. QED
    BY <2>2, <2>3
<1>8. CASE ScanQuiet \/ ScanDue \/ ScanStop
  <2>1. \E due \in SUBSET Live, stopping \in BOOLEAN : Scan(due, stopping)
    BY <1>8 DEF ScanQuiet, ScanDue, ScanStop
  <2>2. QED
    BY <2>1, ScanFull
<1>9. CASE Admit \/ PlanStep \/ Forward
  BY <1>9, AdmitFull, PlanFull, ForwardFull
<1>10. CASE ForwardFails
  <2>1. UNCHANGED <<limits, state, reason, output, consumed>> /\ error' = "EXECUTOR" /\ error' # None
    BY <1>10, LiveAssumption DEF ForwardFails, Raise, Errors
  <2>2. QED
    BY <2>1, StillFull
<1>11. CASE Close
  <2>1. UNCHANGED <<limits, error, state, reason, output, consumed>> /\ pc' = "closed"
    BY <1>11 DEF Close
  <2>2. QED
    BY <2>1, StillFull
<1>12. CASE Closed
  BY <1>3, <1>12 DEF Closed
<1>13. QED
  BY <1>3, <1>4, <1>5, <1>6, <1>7, <1>8, <1>9, <1>10, <1>11, <1>12 DEF Next

\* Both parts hold in every session.
THEOREM FullInvariant == Spec => []FullInv
<1>1. QED
  BY InitFull, NextFull, PTL DEF Spec

-----------------------------------------------------------------------------
(***************************************************************************)
(* The theorems.                                                           *)
(***************************************************************************)

\* The books of a session: types, the agreement of leases, progress and storage,
\* and reservations within the capacity (KVManager, release, commit, finish).
THEOREM LedgerTheorem == Spec => []LedgerSound
<1>1. Inv => LedgerSound
  <2> SUFFICES ASSUME Inv PROVE LedgerSound
    OBVIOUS
  <2>1. Typed /\ RowsOK /\ RowsTrue /\ Room(lease)
    BY DEF Inv
  <2>2. TypeOK
    <3>1. \A r \in Requests : /\ output[r] \in 0..Output[r] /\ consumed[r] \in 0..Needed(r)
                              /\ lease[r] # None => lease[r].capacity = Needed(r)
      <4>1. ASSUME NEW r \in Requests
            PROVE  /\ output[r] \in 0..Output[r] /\ consumed[r] \in 0..Needed(r)
                   /\ lease[r] # None => lease[r].capacity = Needed(r)
        <5>1. RowOK(r) /\ output[r] \in Nat /\ consumed[r] \in Nat /\ Output[r] \in Nat /\ Needed(r) \in Nat
          BY <2>1, Positive DEF RowsOK, Typed
        <5>2. QED
          BY <5>1 DEF RowOK
      <4>2. QED
        BY <4>1
    <3>2. {odd, finished, sealed} \subseteq BOOLEAN
      BY <2>1, Zenon DEF Typed
    <3>3. QED
      BY <2>1, <3>1, <3>2 DEF Typed, TypeOK
  <2>3. LeaseTruth
    BY <2>1 DEF RowsTrue, RowTrue, LeaseTruth
  <2>4. KVWithinCapacity
    BY <2>1 DEF Room, Held, Cap, KVWithinCapacity
  <2>5. QED
    BY <2>2, <2>3, <2>4 DEF LedgerSound
<1>2. QED
  BY <1>1, Invariant, PTL

\* The storage of a session: every block is in one place, and a pool of the size
\* StepExecutor computes never refuses what admission let in.
THEOREM StorageTheorem == Spec => []StorageSound
<1>1. FullInv => StorageSound
  <2> SUFFICES ASSUME FullInv PROVE StorageSound
    OBVIOUS
  <2>1. Inv /\ Pool(limits, kv) /\ Untripped
    BY DEF FullInv, Inv
  <2>2. BlocksPrivate
    <3>1. SUFFICES ASSUME limits.layout # "dense"
                   PROVE  /\ IsInjective(kv.free)
                          /\ \A r \in Requests :
                                /\ IsInjective(kv.blocks[r])
                                /\ ToSet(kv.blocks[r]) \cap ToSet(kv.free) = {}
                                /\ \A q \in Requests \ {r} : ToSet(kv.blocks[r]) \cap ToSet(kv.blocks[q]) = {}
                                /\ Len(kv.blocks[r]) = CeilDiv(kv.valid[r], limits.block)
                          /\ ToSet(kv.free) \cup UNION {ToSet(kv.blocks[r]) : r \in Requests} = 1..PoolBlocks(limits)
      BY DEF BlocksPrivate
    <3>2. /\ Private(kv.free, kv.blocks)
          /\ \A r \in Requests : Len(kv.blocks[r]) = CeilDiv(kv.valid[r], limits.block)
          /\ ToSet(kv.free) \cup UNION {ToSet(kv.blocks[r]) : r \in Requests} = 1..PoolBlocks(limits)
      BY <2>1, <3>1 DEF Pool
    <3>3. /\ Distinct(kv.free)
          /\ \A r \in Requests : /\ Distinct(kv.blocks[r]) /\ ToSet(kv.blocks[r]) \cap ToSet(kv.free) = {}
                                 /\ \A q \in Requests \ {r} : ToSet(kv.blocks[r]) \cap ToSet(kv.blocks[q]) = {}
      BY <3>2 DEF Private
    <3>4. \A z : Distinct(z) => IsInjective(z)
      BY DEF Distinct, IsInjective
    <3>5. QED
      BY <3>2, <3>3, <3>4
  <2>3. PoolSuffices
    <3>1. SUFFICES ASSUME Roomy
                   PROVE  /\ \A r \in Requests : reason[r] # "refused"
                          /\ pc = "plan" => \A active \in Ordered(In("active")) :
                                ~Refused(limits, kv, Trimmed(limits, Plan(limits, View, active, odd)))
      BY DEF PoolSuffices
    <3>2. \A r \in Requests : reason[r] # "refused"
      BY <2>1, <3>1 DEF Untripped
    <3>3. ASSUME pc = "plan", NEW c \in Ordered(In("active"))
          PROVE  ~Refused(limits, kv, Trimmed(limits, Plan(limits, View, c, odd)))
      <4> DEFINE s == Trimmed(limits, Plan(limits, View, c, odd))
      <4>1. Batch(limits, View, s, In("active")) /\ Current(kv, s)
        BY <2>1, <3>3, PlannedGood
      <4> HIDE DEF s
      <4>2. ~Refused(limits, kv, s)
        BY <2>1, <3>1, <3>3, <4>1, NotRefused
      <4>3. QED
        BY <4>2 DEF s
    <3>4. QED
      BY <3>2, <3>3
  <2>4. QED
    BY <2>2, <2>3 DEF StorageSound
<1>2. QED
  BY <1>1, FullInvariant, PTL

\* As many names as positions, when no name comes twice.
LEMMA NamesOnce ==
  ASSUME NEW s \in Seq(StepSet), OneEach(s)
  PROVE  Cardinality(Ids(s)) = Len(s)
<1> DEFINE n == Len(s)
           g == [i \in 1..n |-> s[i].id]
<1>1. n \in Nat /\ DOMAIN s = 1..n
  OBVIOUS
<1>2. g \in Bijection(1..n, Ids(s))
  <2>1. \A i \in 1..n : g[i] = s[i].id /\ g[i] \in Ids(s)
    BY <1>1 DEF Ids
  <2>2. g \in [1..n -> Ids(s)]
    BY <2>1
  <2>3. \A i, j \in 1..n : g[i] = g[j] => i = j
    BY <1>1, <2>1 DEF OneEach
  <2>4. \A x \in Ids(s) : \E i \in 1..n : g[i] = x
    BY <1>1, <2>1 DEF Ids
  <2> HIDE DEF g
  <2>5. QED
    BY <2>2, <2>3, <2>4 DEF Bijection, Injection, Surjection, IsInjective
<1>3. ExistsBijection(1..n, Ids(s))
  BY <1>2 DEF ExistsBijection
<1>4. QED
  BY <1>1, <1>3, FS_CountingElements

\* The plans of a session: every batch handed to the executor is within every
\* limit with one step per active row, run() never raises over its own checks
\* while the executor has room, and it returns with no lease left.
THEOREM PlansTheorem == Spec => []PlansFit
<1>1. FullInv => PlansFit
  <2> SUFFICES ASSUME FullInv PROVE PlansFit
    OBVIOUS
  <2>1. Inv /\ Untripped /\ Vacated /\ limits \in Limits
    BY DEF FullInv, Inv, Typed
  <2>2. ASSUME pc = "forward"
        PROVE  /\ MapThenSumSet(LAMBDA i : steps[i].len, DOMAIN steps) <= limits.batched
               /\ Len(steps) <= RowLimit(limits) /\ Padded(steps) <= limits.padded
               /\ Cardinality(Members) = Len(steps) /\ Members \subseteq In("active")
               /\ \A i \in DOMAIN steps : steps[i].len >= 1
    <3>1. Batch(limits, View, steps, In("active")) /\ Padded(steps) <= limits.padded
      BY <2>1, <2>2 DEF Inv, StepsOK
    <3>2. /\ steps \in Seq(StepSet) /\ OneEach(steps) /\ Lens(steps) <= limits.batched
          /\ Len(steps) <= RowLimit(limits)
          /\ \A i \in DOMAIN steps : GoodStep(limits, View, steps[i]) /\ steps[i].id \in In("active")
      BY <3>1 DEF Batch
    <3>3. MapThenSumSet(LAMBDA i : steps[i].len, DOMAIN steps) <= limits.batched
      BY <3>2, LenSum DEF Lens
    <3>4. Ids(steps) = Members /\ Cardinality(Ids(steps)) = Len(steps)
      BY <3>2, NamesOnce DEF Ids, Members
    <3>5. Members \subseteq In("active") /\ \A i \in DOMAIN steps : steps[i].len >= 1
      BY <3>2 DEF Members, GoodStep
    <3>6. QED
      BY <3>1, <3>2, <3>3, <3>4, <3>5
  <2>3. BatchFits
    BY <2>2 DEF BatchFits
  <2>4. NoInternalError
    <3>1. ASSUME pc = "ended", error = None, NEW r \in Requests
          PROVE  lease[r] = None
      <4>1. RowTrue(r) /\ state[r] # "active"
        BY <2>1, <3>1 DEF Inv, RowsTrue, Vacated
      <4>2. QED
        BY <4>1 DEF RowTrue
    <3>2. QED
      BY <2>1, <3>1 DEF Untripped, NoInternalError
  <2>5. QED
    BY <2>3, <2>4 DEF PlansFit
<1>2. QED
  BY <1>1, FullInvariant, PTL

\* The outcome of a session: what ended by length has all its tokens and all its
\* K/V, and a sealed session has seen everything that was sent.
THEOREM OutcomeTheorem == Spec => []OutcomeComplete
<1>1. Inv => OutcomeComplete
  <2> SUFFICES ASSUME Inv PROVE OutcomeComplete
    OBVIOUS
  <2>1. LengthComplete
    BY DEF Inv, RowsOK, RowOK, LengthComplete
  <2>2. SealedIsComplete
    <3>1. SUFFICES ASSUME sealed, pc # "closed", NEW r \in Items, r <= sent
                   PROVE  finished /\ state[r] # "absent"
      <4>1. sealed /\ pc # "closed" => finished
        BY DEF Inv, SenderOK
      <4>2. QED
        BY <4>1 DEF SealedIsComplete
    <3>2. finished /\ queue = <<>> /\ (state[r] = "absent" <=> r > sent - Len(queue))
      BY <3>1 DEF Inv, SenderOK
    <3> DEFINE c == Cardinality(Items)
    <3>a. r \in 1..c
      BY LiveAssumption
    <3>b. c \in Nat
      <4>1. IsFiniteSet(Requests) /\ Items \in SUBSET Requests
        BY LiveAssumption DEF Requests
      <4>2. QED
        BY <4>1, FS_Subset, FS_CardinalityType
    <3> HIDE DEF c
    <3>3. r \in Nat /\ sent \in Nat /\ Len(queue) = 0
      <4>1. sent \in Nat
        BY DEF Inv, Typed
      <4>2. r \in Nat
        BY <3>a, <3>b
      <4>3. QED
        BY <3>2, <4>1, <4>2
    <3>4. ~(r > sent - Len(queue))
      BY <3>1, <3>3
    <3>5. QED
      BY <3>2, <3>4
  <2>3. QED
    BY <2>1, <2>2 DEF OutcomeComplete
<1>2. QED
  BY <1>1, Invariant, PTL

\* What a step may do to one row.
Emission(r) ==
    /\ output'[r] # output[r] => output'[r] = output[r] + 1 /\ consumed'[r] = Input[r] + output[r]
    /\ state[r] = "terminal" => state'[r] = "terminal" /\ reason'[r] = reason[r]

\* accept and finish emit nothing and do not touch a row that ended.
LEMMA AcceptEmission ==
  ASSUME Inv, NEW x \in Requests, state[x] = "absent", Accept(x), UNCHANGED output
  PROVE  \A r \in Requests : Emission(r)
<1>1. Typed
  BY DEF Inv
<1>2. \A r \in Requests \ {x} : state'[r] = state[r] /\ reason'[r] = reason[r]
  BY <1>1 DEF Accept, Typed
<1>3. QED
  BY <1>2 DEF Emission

\* finish emits nothing.
LEMMA FinishEmission ==
  ASSUME NEW rs, NEW why, ToSet(rs) \subseteq Live, Finish(rs, why), UNCHANGED output
  PROVE  \A r \in Requests : Emission(r)
BY DEF Finish, Emission, Live, In

\* A forward emits at most the next token of a row that is still live.
LEMMA ForwardEmission ==
  ASSUME Inv, Forward
  PROVE  \A r \in Requests : Emission(r)
<1>1. /\ pc = "forward"
      /\ \E late \in SUBSET Members : \E eos \in SUBSET (Members \ (late \cup Fixed)) : ForwardDone(late, eos)
  <2>1. pc = "forward"
    BY DEF Forward
  <2>2. Executable /\ \A r \in Members : Commits(r)
    BY <2>1, NeverStale
  <2>3. QED
    BY <2>1, <2>2 DEF Forward
<1>2. PICK late \in SUBSET Members, eos \in SUBSET Members : ForwardDone(late, eos)
  BY <1>1
<1>3. PICK emits \in SUBSET Members, ending \in SUBSET Members :
            /\ \A r \in emits : StepOf(r).emit
            /\ \A r \in Requests : Advanced(r, emits, ending)
  BY <1>1, <1>2, ForwardRows
<1>4. ASSUME NEW r \in Requests
      PROVE  Emission(r)
  <2>1. Advanced(r, emits, ending)
    BY <1>3
  <2>2. CASE r \in emits
    <3>1. /\ consumed[r] + StepOf(r).len = Input[r] + output[r] /\ state[r] = "active"
      BY <1>1, <1>3, <2>2, TheStep
    <3>2. output'[r] = output[r] + 1 /\ consumed'[r] = consumed[r] + StepOf(r).len
      BY <1>3, <2>1, <2>2 DEF Advanced
    <3>3. QED
      BY <3>1, <3>2 DEF Emission
  <2>3. CASE r \notin emits
    <3>1. r \in ending => state[r] = "active"
      BY <1>1, <1>3, TheStep
    <3>2. QED
      BY <2>1, <2>3, <3>1 DEF Advanced, Emission
  <2>4. QED
    BY <2>2, <2>3
<1>5. QED
  BY <1>4

\* Tokens come one at a time, each from a forward that completed the history
\* before it; output is never withdrawn, and a request that ended stays so.
THEOREM TokensTheorem == Spec => TokensInOrder
<1>1. Inv /\ [Next]_vars =>
        [\A r \in Requests :
          /\ output'[r] # output[r] =>
                /\ output'[r] = output[r] + 1
                /\ consumed'[r] = Input[r] + output[r]
          /\ state[r] = "terminal" =>
                state'[r] = "terminal" /\ reason'[r] = reason[r]]_vars
  <2> SUFFICES ASSUME Inv, Next PROVE \A r \in Requests : Emission(r)
    BY DEF Emission
  <2>1. CASE Send \/ SenderDone \/ SenderFails \/ DrainEmpty \/ SealCheck \/ ForwardFails \/ Close
    <3>1. UNCHANGED <<state, reason, output>>
      BY <2>1 DEF Send, SenderDone, SenderFails, DrainEmpty, SealCheck, ForwardFails, Close, rows
    <3>2. QED
      BY <3>1 DEF Emission
  <2>2. CASE DrainItem
    <3> DEFINE x == Head(queue)
    <3>1. Accept(x) /\ UNCHANGED output /\ queue # <<>>
      BY <2>2 DEF DrainItem
    <3>2. x \in Requests /\ state[x] = "absent"
      BY <3>1, HeadIsNew
    <3> HIDE DEF x
    <3>3. QED
      BY <3>1, <3>2, AcceptEmission
  <2>3. ASSUME NEW x \in Requests, Ingress(x)
        PROVE  \A r \in Requests : Emission(r)
    <3>1. Accept(x) /\ UNCHANGED output /\ state[x] = "absent"
      BY <2>3 DEF Ingress
    <3>2. QED
      BY <3>1, AcceptEmission
  <2>4. ASSUME NEW x \in Requests, CancelRequest(x)
        PROVE  \A r \in Requests : Emission(r)
    <3>1. Finish(<<x>>, "interrupted") /\ UNCHANGED output /\ ToSet(<<x>>) \subseteq Live
      BY <2>4 DEF CancelRequest, ToSet
    <3>2. QED
      BY <3>1, FinishEmission
  <2>5. CASE ScanQuiet \/ ScanDue \/ ScanStop
    <3>1. PICK due \in SUBSET Live, stopping \in BOOLEAN : Scan(due, stopping)
      BY <2>5 DEF ScanQuiet, ScanDue, ScanStop
    <3>2. Finish(InOrder(due), "interrupted") /\ UNCHANGED output
      BY <3>1 DEF Scan
    <3>3. ToSet(InOrder(due)) \subseteq Live
      <4>1. order \in Seq(Requests) /\ Distinct(order)
        BY DEF Inv, Typed, OrderOK
      <4>2. ToSet(InOrder(due)) = ToSet(order) \cap due
        BY <4>1, AmongKeeps DEF InOrder
      <4>3. QED
        BY <4>2
    <3>4. QED
      BY <3>2, <3>3, FinishEmission
  <2>6. CASE Admit
    <3>1. UNCHANGED <<reason, output>> /\ \A r \in Requests : r \notin Live => state'[r] = state[r]
      BY <2>6 DEF Admit
    <3>2. QED
      BY <3>1 DEF Emission, Live, In
  <2>7. CASE PlanStep
    <3>1. PICK c \in Ordered(In("active")) :
            LET planned == Trimmed(limits, Plan(limits, View, c, odd))
            IN  IF planned = <<>> THEN PlanNothing
                ELSE \E n \in Prepared(planned) : PlanBatch(planned, n) \/ (n = 0 /\ PlanRefused(planned))
      BY <2>7 DEF PlanStep
    <3> DEFINE s == Trimmed(limits, Plan(limits, View, c, odd))
    <3>2. Batch(limits, View, s, In("active"))
      BY <2>7, PlannedGood DEF PlanStep
    <3>3. IF s = <<>> THEN PlanNothing
          ELSE \E n \in Prepared(s) : PlanBatch(s, n) \/ (n = 0 /\ PlanRefused(s))
      BY <3>1
    <3> HIDE DEF s
    <3>4. CASE UNCHANGED rows
      <4>1. UNCHANGED <<state, reason, output>>
        BY <3>4 DEF rows
      <4>2. QED
        BY <4>1 DEF Emission
    <3>5. CASE s # <<>> /\ PlanRefused(s)
      <4>1. Finish(<<s[1].id>>, "refused") /\ UNCHANGED output
        BY <3>5 DEF PlanRefused
      <4>2. ToSet(<<s[1].id>>) \subseteq Live
        <5>1. 1 \in DOMAIN s
          BY <3>2, <3>5 DEF Batch
        <5>2. s[1].id \in In("active")
          BY <3>2, <5>1 DEF Batch
        <5>3. QED
          BY <5>2 DEF ToSet, Live
      <4>3. QED
        BY <4>1, <4>2, FinishEmission
    <3>6. QED
      BY <3>3, <3>4, <3>5 DEF PlanNothing, PlanBatch
  <2>8. CASE Forward
    BY <2>8, ForwardEmission
  <2>9. CASE Closed
    <3>1. UNCHANGED <<state, reason, output>>
      BY <2>9 DEF Closed, vars, rows
    <3>2. QED
      BY <3>1 DEF Emission
  <2>10. QED
    BY <2>1, <2>2, <2>3, <2>4, <2>5, <2>6, <2>7, <2>8, <2>9 DEF Next
<1>2. QED
  BY <1>1, Invariant, PTL DEF Spec, TokensInOrder
=============================================================================
