---------------------------- MODULE MetricsProofs ----------------------------
(***************************************************************************)
(* Proofs about Metrics for every set of daemons, every size of the rings  *)
(* and every clock: the page shows the true sliding-window rates, and its  *)
(* peaks are sound.                                                        *)
(*                                                                         *)
(* A ring is a sum in disguise: RingInv says that bucket j counts what was *)
(* recorded in the one second (or hour) of the window whose slot is j.     *)
(* What sums compute is proved by induction over finite sets.  The library *)
(* states induction for a predicate, an operator that no prover here can   *)
(* instantiate; SubsetInduction states it for a set instead, and follows   *)
(* from the well-foundedness of strict inclusion.                          *)
(***************************************************************************)
EXTENDS Metrics, FiniteSetTheorems, WellFoundedInduction, TLAPS

-----------------------------------------------------------------------------
(* Induction over finite sets *)

\* What holds of a set when it holds of its strict subsets holds of S.
LEMMA SubsetInduction ==
  ASSUME NEW S, IsFiniteSet(S), NEW Q,
         \A T \in SUBSET S : (\A U \in SUBSET T : U # T => U \in Q) => T \in Q
  PROVE  \A T \in SUBSET S : T \in Q
<1> DEFINE Bad == {T \in SUBSET S : T \notin Q}
<1> SUFFICES ASSUME Bad # {} PROVE FALSE
  OBVIOUS
<1>1. IsWellFoundedOn(StrictSubsetOrdering(S), SUBSET S)
  <2>1. FiniteSubsetsOf(S) = SUBSET S
    BY FS_FiniteSubsetsOfFinite
  <2>2. IsWellFoundedOn(StrictSubsetOrdering(S), FiniteSubsetsOf(S))
    BY FS_StrictSubsetOrderingWellFounded
  <2> QED
    BY <2>1, <2>2
<1>2. Bad \subseteq SUBSET S
  OBVIOUS
<1> HIDE DEF Bad
<1>3. PICK T \in Bad : \A U \in Bad : <<U, T>> \notin StrictSubsetOrdering(S)
  BY <1>1, <1>2, WFMin
<1>4. \A U \in SUBSET T : U # T => U \in Q
  BY <1>3 DEF Bad, StrictSubsetOrdering
<1> QED
  BY <1>3, <1>4 DEF Bad

-----------------------------------------------------------------------------
(* Sums *)

\* The definition of the library, unfolded.
LEMMA SumIter ==
  ASSUME NEW f, NEW S
  PROVE  SumFunctionOnSet(f, S) =
           (CHOOSE iter : iter =
              [s \in SUBSET S |->
                 IF s = {} THEN 0
                 ELSE f[CHOOSE x \in s : TRUE] + iter[s \ {CHOOSE x \in s : TRUE}]])[S]
BY DEF SumFunctionOnSet, FoldFunctionOnSet, MapThenFoldSet

Pick(s) == CHOOSE x \in s : TRUE

\* One step of a sum, given the sums g of the smaller sets.
SumStep(f, g, s) == IF s = {} THEN 0 ELSE f[Pick(s)] + g[s \ {Pick(s)}]

\* g has the sums of f over the subsets of S.
IsSum(g, f, S) == g = [s \in SUBSET S |-> SumStep(f, g, s)]

\* The element a sum takes next is one of the set.
LEMMA PickIn == \A S : S # {} => Pick(S) \in S
BY DEF Pick

\* Sums are determined by f.
LEMMA SumsUnique ==
  ASSUME NEW S, IsFiniteSet(S), NEW f, NEW g, NEW h, NEW T, T \in SUBSET S,
         IsSum(g, f, S), IsSum(h, f, T)
  PROVE  \A s \in SUBSET T : g[s] = h[s]
<1> DEFINE Q == {s \in SUBSET T : g[s] = h[s]}
<1>1. IsFiniteSet(T)
  BY FS_Subset
<1>2. ASSUME NEW s \in SUBSET T, \A r \in SUBSET s : r # s => r \in Q
      PROVE  s \in Q
  <2>1. g[s] = SumStep(f, g, s) /\ h[s] = SumStep(f, h, s)
    BY DEF IsSum
  <2>2. CASE s = {}
    BY <2>1, <2>2 DEF SumStep
  <2>3. CASE s # {}
    <3>1. s \ {Pick(s)} \in Q
      BY <1>2, <2>3, PickIn
    <3> QED
      BY <2>1, <2>3, <3>1 DEF SumStep
  <2> QED
    BY <2>2, <2>3
<1> HIDE DEF Q
<1>3. \A s \in SUBSET T : s \in Q
  BY <1>1, <1>2, SubsetInduction
<1> QED
  BY <1>3 DEF Q

\* Sums exist.
LEMMA SumsExist ==
  ASSUME NEW S, IsFiniteSet(S), NEW f
  PROVE  \E g : IsSum(g, f, S)
<1> DEFINE Q == {s \in SUBSET S : \E g : IsSum(g, f, s)}
<1>1. ASSUME NEW T \in SUBSET S, \A r \in SUBSET T : r # T => r \in Q
      PROVE  T \in Q
  <2> DEFINE G(r) == CHOOSE g : IsSum(g, f, r)
             v(r) == IF r = {} THEN 0 ELSE f[Pick(r)] + G(r \ {Pick(r)})[r \ {Pick(r)}]
             h == [r \in SUBSET T |-> v(r)]
  <2>1. \A r \in SUBSET T : r # T => IsSum(G(r), f, r)
    BY <1>1
  <2> HIDE DEF G
  <2>2. \A r \in SUBSET T : h[r] = v(r)
    OBVIOUS
  <2>3. ASSUME NEW r \in SUBSET T, r # T
        PROVE  h[r] = G(r)[r]
    <3>0. IsFiniteSet(r) /\ IsSum(G(r), f, r)
      <4>1. r \in SUBSET S
        OBVIOUS
      <4> QED
        BY <2>1, <2>3, <4>1, FS_Subset
    <3>1. G(r)[r] = SumStep(f, G(r), r)
      BY <3>0 DEF IsSum
    <3>2. CASE r = {}
      BY <3>1, <3>2, <2>2 DEF SumStep
    <3>3. CASE r # {}
      <4> DEFINE q == r \ {Pick(r)}
      <4>1. q \in SUBSET r /\ q # r /\ q # T /\ q \in SUBSET T
        BY <3>3, PickIn
      <4>2. IsSum(G(q), f, q)
        BY <2>1, <4>1
      <4>3. G(r)[q] = G(q)[q]
        <5>1. \A s \in SUBSET q : G(r)[s] = G(q)[s]
          BY <3>0, <4>1, <4>2, SumsUnique
        <5> QED
          BY <5>1
      <4> QED
        BY <3>1, <3>3, <2>2, <4>3 DEF SumStep
    <3> QED
      BY <3>2, <3>3
  <2>4. ASSUME NEW r \in SUBSET T PROVE v(r) = SumStep(f, h, r)
    <3>1. CASE r = {}
      BY <3>1 DEF SumStep
    <3>2. CASE r # {}
      <4>1. r \ {Pick(r)} \in SUBSET T /\ r \ {Pick(r)} # T
        BY <3>2, PickIn
      <4>2. h[r \ {Pick(r)}] = G(r \ {Pick(r)})[r \ {Pick(r)}]
        BY <4>1, <2>3
      <4> QED
        BY <3>2, <4>2 DEF SumStep
    <3> QED
      BY <3>1, <3>2
  <2>5. IsSum(h, f, T)
    BY <2>4 DEF IsSum
  <2> QED
    BY <2>5
<1> HIDE DEF Q
<1>2. S \in Q
  BY <1>1, SubsetInduction
<1> QED
  BY <1>2 DEF Q

\* The equation that SumFunctionOnSet is defined by.
LEMMA SumDef ==
  ASSUME NEW S, IsFiniteSet(S), NEW f
  PROVE  /\ SumFunctionOnSet(f, {}) = 0
         /\ S # {} => SumFunctionOnSet(f, S) =
                        f[Pick(S)] + SumFunctionOnSet(f, S \ {Pick(S)})
<1> DEFINE G(r) == CHOOSE g : IsSum(g, f, r)
<1>1. ASSUME NEW r, IsFiniteSet(r) PROVE IsSum(G(r), f, r)
  BY <1>1, SumsExist
<1>2. ASSUME NEW r PROVE SumFunctionOnSet(f, r) = G(r)[r]
  BY SumIter DEF IsSum, SumStep, Pick
<1> HIDE DEF G
<1>3. SumFunctionOnSet(f, {}) = 0
  BY <1>1, <1>2, FS_EmptySet DEF IsSum, SumStep
<1>4. ASSUME S # {}
      PROVE  SumFunctionOnSet(f, S) = f[Pick(S)] + SumFunctionOnSet(f, S \ {Pick(S)})
  <2> DEFINE q == S \ {Pick(S)}
  <2>1. IsFiniteSet(q) /\ q \in SUBSET S
    BY FS_Subset
  <2>2. G(S)[q] = G(q)[q]
    <3>1. \A s \in SUBSET q : G(S)[s] = G(q)[s]
      BY <1>1, <2>1, SumsUnique
    <3> QED
      BY <3>1
  <2>3. G(S)[S] = SumStep(f, G(S), S)
    BY <1>1 DEF IsSum
  <2> QED
    BY <1>2, <1>4, <2>2, <2>3 DEF SumStep
<1> QED
  BY <1>3, <1>4

Sum(f, S) == SumFunctionOnSet(f, S)

\* Nothing sums to 0.
LEMMA SumEmpty == \A f : Sum(f, {}) = 0
BY SumDef, FS_EmptySet DEF Sum

\* The sum of natural numbers over a finite set is one, and any element can be
\* taken out of it first.
LEMMA SumAny ==
  ASSUME NEW S, IsFiniteSet(S), NEW f, \A x \in S : f[x] \in Nat
  PROVE  /\ Sum(f, S) \in Nat
         /\ \A x \in S : Sum(f, S) = f[x] + Sum(f, S \ {x})
<1> DEFINE Q == {T \in SUBSET S : /\ Sum(f, T) \in Nat
                                  /\ \A x \in T : Sum(f, T) = f[x] + Sum(f, T \ {x})}
<1>1. ASSUME NEW T \in SUBSET S, \A r \in SUBSET T : r # T => r \in Q
      PROVE  T \in Q
  <2>1. CASE T = {}
    BY <2>1, SumEmpty
  <2>2. CASE T # {}
    <3> DEFINE y == Pick(T)
    <3>1. y \in T /\ f[y] \in Nat
      BY <2>2, PickIn
    <3>2. Sum(f, T) = f[y] + Sum(f, T \ {y})
      BY <2>2, SumDef, FS_Subset DEF Sum
    <3>3. T \ {y} \in Q
      BY <1>1, <3>1
    <3> HIDE DEF y
    <3>4. Sum(f, T) \in Nat
      BY <3>1, <3>2, <3>3
    <3>5. ASSUME NEW x \in T, x # y PROVE Sum(f, T) = f[x] + Sum(f, T \ {x})
      <4>1. T \ {x} \in Q
        BY <1>1
      <4>2. Sum(f, T \ {y}) = f[x] + Sum(f, (T \ {y}) \ {x})
        BY <3>3, <3>5
      <4>3. Sum(f, T \ {x}) = f[y] + Sum(f, (T \ {x}) \ {y})
        BY <3>1, <3>5, <4>1
      <4>4. (T \ {y}) \ {x} = (T \ {x}) \ {y} /\ (T \ {x}) \ {y} \in Q
        BY <1>1, <3>1
      <4> DEFINE rest == Sum(f, (T \ {x}) \ {y})
      <4>5. rest \in Nat /\ f[x] \in Nat
        BY <4>4
      <4>6. Sum(f, T \ {y}) = f[x] + rest /\ Sum(f, T \ {x}) = f[y] + rest
        BY <4>2, <4>3, <4>4
      <4> HIDE DEF rest
      <4> QED
        BY <3>1, <3>2, <4>5, <4>6
    <3> QED
      BY <3>2, <3>4, <3>5
  <2> QED
    BY <2>1, <2>2
<1> HIDE DEF Q
<1>2. S \in Q
  BY <1>1, SubsetInduction
<1> QED
  BY <1>2 DEF Q

\* Larger numbers have a larger sum.
LEMMA SumMonotone ==
  ASSUME NEW S, IsFiniteSet(S), NEW f, NEW g,
         \A x \in S : f[x] \in Nat /\ g[x] \in Nat /\ f[x] <= g[x]
  PROVE  Sum(f, S) <= Sum(g, S)
<1> DEFINE Q == {T \in SUBSET S : Sum(f, T) <= Sum(g, T)}
<1>1. ASSUME NEW T \in SUBSET S, \A r \in SUBSET T : r # T => r \in Q
      PROVE  T \in Q
  <2>1. CASE T = {}
    BY <2>1, SumEmpty
  <2>2. CASE T # {}
    <3>1. PICK x : x \in T
      BY <2>2
    <3>2. T \ {x} \in Q /\ IsFiniteSet(T) /\ IsFiniteSet(T \ {x})
      BY <1>1, <3>1, FS_Subset
    <3>3. Sum(f, T) = f[x] + Sum(f, T \ {x}) /\ Sum(f, T \ {x}) \in Nat
      BY <3>1, <3>2, SumAny
    <3>4. Sum(g, T) = g[x] + Sum(g, T \ {x}) /\ Sum(g, T \ {x}) \in Nat
      BY <3>1, <3>2, SumAny
    <3>5. f[x] \in Nat /\ g[x] \in Nat /\ f[x] <= g[x]
      BY <3>1
    <3> QED
      BY <3>2, <3>3, <3>4, <3>5
  <2> QED
    BY <2>1, <2>2
<1> HIDE DEF Q
<1>2. S \in Q
  BY <1>1, SubsetInduction
<1> QED
  BY <1>2 DEF Q

\* The same numbers have the same sum.
LEMMA SumSame ==
  ASSUME NEW S, IsFiniteSet(S), NEW f, NEW g, \A x \in S : f[x] \in Nat /\ f[x] = g[x]
  PROVE  Sum(f, S) = Sum(g, S)
<1>1. Sum(f, S) <= Sum(g, S) /\ Sum(g, S) <= Sum(f, S)
  BY SumMonotone
<1>2. Sum(f, S) \in Nat /\ Sum(g, S) \in Nat
  BY SumAny
<1> QED
  BY <1>1, <1>2

\* Zeros sum to 0.
LEMMA SumZero ==
  ASSUME NEW S, IsFiniteSet(S), NEW f, \A x \in S : f[x] = 0
  PROVE  Sum(f, S) = 0
<1> DEFINE Q == {T \in SUBSET S : Sum(f, T) = 0}
<1>1. ASSUME NEW T \in SUBSET S, \A r \in SUBSET T : r # T => r \in Q
      PROVE  T \in Q
  <2>1. CASE T = {}
    BY <2>1, SumEmpty
  <2>2. CASE T # {}
    <3>1. PICK x : x \in T
      BY <2>2
    <3>2. T \ {x} \in Q /\ IsFiniteSet(T)
      BY <1>1, <3>1, FS_Subset
    <3>3. Sum(f, T) = f[x] + Sum(f, T \ {x})
      BY <3>1, <3>2, SumAny
    <3> QED
      BY <3>1, <3>2, <3>3
  <2> QED
    BY <2>1, <2>2
<1> HIDE DEF Q
<1>2. S \in Q
  BY <1>1, SubsetInduction
<1> QED
  BY <1>2 DEF Q

\* A sum is no less than what it is of.
LEMMA SumCovers ==
  ASSUME NEW S, IsFiniteSet(S), NEW f, \A x \in S : f[x] \in Nat, NEW x \in S
  PROVE  f[x] <= Sum(f, S)
<1>1. Sum(f, S) = f[x] + Sum(f, S \ {x})
  BY SumAny
<1>2. Sum(f, S \ {x}) \in Nat /\ f[x] \in Nat
  BY SumAny, FS_Subset
<1> QED
  BY <1>1, <1>2

\* One more at x makes one more in all, over a set with x in it.
LEMMA SumCount ==
  ASSUME NEW S, IsFiniteSet(S), NEW f, NEW g, NEW x,
         \A y \in S : f[y] \in Nat /\ g[y] = IF y = x THEN f[y] + 1 ELSE f[y]
  PROVE  Sum(g, S) = IF x \in S THEN Sum(f, S) + 1 ELSE Sum(f, S)
<1>1. CASE x \in S
  <2>1. IsFiniteSet(S \ {x})
    BY FS_Subset
  <2>2. Sum(g, S \ {x}) = Sum(f, S \ {x}) /\ Sum(f, S \ {x}) \in Nat
    BY <2>1, SumSame, SumAny
  <2>3. Sum(f, S) = f[x] + Sum(f, S \ {x})
    BY <1>1, SumAny
  <2>4. Sum(g, S) = g[x] + Sum(g, S \ {x})
    BY <1>1, SumAny
  <2> QED
    BY <1>1, <2>2, <2>3, <2>4
<1>2. CASE x \notin S
  BY <1>2, SumSame
<1> QED
  BY <1>1, <1>2

\* The sum over two sets without a common element.
LEMMA SumUnion ==
  ASSUME NEW A, IsFiniteSet(A), NEW B, IsFiniteSet(B), A \cap B = {},
         NEW f, \A x \in A \cup B : f[x] \in Nat
  PROVE  Sum(f, A \cup B) = Sum(f, A) + Sum(f, B)
<1> DEFINE Q == {T \in SUBSET B : Sum(f, A \cup T) = Sum(f, A) + Sum(f, T)}
<1>0. Sum(f, A) \in Nat
  BY SumAny
<1>1. ASSUME NEW T \in SUBSET B, \A r \in SUBSET T : r # T => r \in Q
      PROVE  T \in Q
  <2>1. CASE T = {}
    <3>1. A \cup T = A
      BY <2>1
    <3> QED
      BY <1>0, <2>1, <3>1, SumEmpty
  <2>2. CASE T # {}
    <3>1. PICK x : x \in T
      BY <2>2
    <3>2. IsFiniteSet(T) /\ IsFiniteSet(T \ {x}) /\ IsFiniteSet(A \cup T)
      BY FS_Subset, FS_Union
    <3>3. T \ {x} \in Q
      BY <1>1, <3>1
    <3>4. Sum(f, T) = f[x] + Sum(f, T \ {x}) /\ Sum(f, T \ {x}) \in Nat
      BY <3>1, <3>2, SumAny
    <3>5. Sum(f, A \cup T) = f[x] + Sum(f, (A \cup T) \ {x})
      BY <3>1, <3>2, SumAny
    <3>6. (A \cup T) \ {x} = A \cup (T \ {x})
      BY <3>1
    <3>7. f[x] \in Nat
      BY <3>1
    <3> QED
      BY <1>0, <3>3, <3>4, <3>5, <3>6, <3>7
  <2> QED
    BY <2>1, <2>2
<1> HIDE DEF Q
<1>2. B \in Q
  BY <1>1, SubsetInduction
<1> QED
  BY <1>2 DEF Q

\* A sum of sums: g has for each j of J the sum of f over its part, and no
\* element is in two parts.
LEMMA SumOfParts ==
  ASSUME NEW J, IsFiniteSet(J), NEW P, NEW S, IsFiniteSet(S), \A j \in J : P[j] \subseteq S,
         \A i, j \in J : i # j => P[i] \cap P[j] = {},
         NEW f, \A x \in S : f[x] \in Nat,
         NEW g, \A j \in J : g[j] = Sum(f, P[j])
  PROVE  Sum(g, J) = Sum(f, UNION {P[j] : j \in J})
<1> DEFINE Q == {T \in SUBSET J : Sum(g, T) = Sum(f, UNION {P[j] : j \in T})}
<1>0. \A j \in J : IsFiniteSet(P[j]) /\ g[j] \in Nat
  <2> TAKE j \in J
  <2>1. IsFiniteSet(P[j])
    BY FS_Subset
  <2>2. Sum(f, P[j]) \in Nat
    BY <2>1, SumAny
  <2> QED
    BY <2>1, <2>2
<1>1. ASSUME NEW T \in SUBSET J, \A r \in SUBSET T : r # T => r \in Q
      PROVE  T \in Q
  <2>1. CASE T = {}
    <3>1. UNION {P[j] : j \in T} = {}
      BY <2>1
    <3> QED
      BY <2>1, <3>1, SumEmpty
  <2>2. CASE T # {}
    <3>1. PICK i : i \in T
      BY <2>2
    <3> DEFINE U == UNION {P[j] : j \in T \ {i}}
    <3>2. T \ {i} \in Q /\ IsFiniteSet(T)
      BY <1>1, <3>1, FS_Subset
    <3>3. Sum(g, T) = g[i] + Sum(g, T \ {i})
      BY <1>0, <3>1, <3>2, SumAny
    <3>4. U \cap P[i] = {} /\ U \cup P[i] = UNION {P[j] : j \in T} /\ U \subseteq S /\ P[i] \subseteq S
      BY <3>1
    <3>5. IsFiniteSet(U) /\ IsFiniteSet(P[i])
      BY <3>4, FS_Subset
    <3>6. Sum(f, U \cup P[i]) = Sum(f, U) + Sum(f, P[i])
      BY <3>4, <3>5, SumUnion
    <3>7. Sum(f, U) \in Nat /\ Sum(f, P[i]) \in Nat
      BY <3>4, <3>5, SumAny
    <3>8. Sum(g, T \ {i}) = Sum(f, U) /\ g[i] = Sum(f, P[i])
      BY <3>1, <3>2 DEF Q
    <3> HIDE DEF U
    <3>9. Sum(g, T) = Sum(f, U \cup P[i])
      BY <3>3, <3>6, <3>7, <3>8
    <3> QED
      BY <3>4, <3>9
  <2> QED
    BY <2>1, <2>2
<1> HIDE DEF Q
<1>2. J \in Q
  BY <1>1, SubsetInduction
<1> QED
  BY <1>2 DEF Q
-----------------------------------------------------------------------------
(* Indices of a ring *)

\* What % is, as far as the provers do not see it in a larger formula.
LEMMA WrapRange == \A n \in Nat \ {0}, x \in Int : Wrap(x, n) \in 0 .. n - 1
BY SMT DEF Wrap

LEMMA Divides == \A n \in Nat \ {0}, y \in Int : \E q \in Int : y = n * q + Wrap(y, n)
<1> TAKE n \in Nat \ {0}, y \in Int
<1> DEFINE q == y \div n
<1>1. q \in Int /\ y = n * q + Wrap(y, n)
  BY SMT DEF Wrap
<1> HIDE DEF q
<1> QED
  BY <1>1

LEMMA Remainder ==
  \A n \in Nat \ {0}, q \in Int, r \in Int : 0 <= r /\ r < n => Wrap(n * q + r, n) = r
BY SMT DEF Wrap

LEMMA Distr == \A n, p, q, r \in Int : n * p + r + n * q = n * (p + q) + r /\ p + q \in Int
BY SMT

\* Whole laps, or one, lead back to the same index.
LEMMA WrapLaps ==
  ASSUME NEW n \in Nat \ {0}, NEW y \in Int, NEW q \in Int
  PROVE  Wrap(y + n * q, n) = Wrap(y, n)
<1>1. PICK r \in 0 .. n - 1 : r = Wrap(y, n)
  BY WrapRange
<1>2. PICK p \in Int : y = n * p + r
  BY <1>1, Divides
<1>3. y + n * q = n * (p + q) + r /\ p + q \in Int
  BY <1>2, Distr
<1>4. 0 <= r /\ r < n /\ r \in Int
  OBVIOUS
<1>5. Wrap(n * (p + q) + r, n) = r
  BY <1>3, <1>4, Remainder
<1> QED
  BY <1>1, <1>3, <1>5

LEMMA WrapLap == \A n \in Nat \ {0}, y \in Int : Wrap(y + n, n) = Wrap(y, n)
<1> TAKE n \in Nat \ {0}, y \in Int
<1>1. PICK q \in Int : q = 1
  OBVIOUS
<1>2. n * q = n
  BY <1>1
<1> QED
  BY <1>2, WrapLaps

\* An index may be wrapped at any step of a calculation.
LEMMA WrapShift == \A n \in Nat \ {0}, x, y \in Int : Wrap(x + Wrap(y, n), n) = Wrap(x + y, n)
<1> TAKE n \in Nat \ {0}, x, y \in Int
<1>1. PICK r \in 0 .. n - 1 : r = Wrap(y, n)
  BY WrapRange
<1>2. PICK p \in Int : y = n * p + r
  BY <1>1, Divides
<1>3. x + y = (x + r) + n * p /\ x + r \in Int
  BY <1>2
<1>4. Wrap((x + r) + n * p, n) = Wrap(x + r, n)
  BY <1>3, WrapLaps
<1> QED
  BY <1>1, <1>3, <1>4

\* Wrapping within a lap of the ring.
LEMMA WrapOnce ==
  \A n \in Nat \ {0}, x \in Int :
     /\ 0 <= x /\ x < n => Wrap(x, n) = x
     /\ n <= x /\ x < n + n => Wrap(x, n) = x - n
     /\ 0 - n <= x /\ x < 0 => Wrap(x, n) = x + n
BY SMT DEF Wrap

\* Within a lap, different distances lead to different slots.
LEMMA WrapDistinct ==
  ASSUME NEW n \in Nat \ {0}, NEW x \in Int, NEW y \in Int, x < y, y < x + n
  PROVE  Wrap(x, n) # Wrap(y, n)
<1>1. PICK d \in 1 .. n - 1 : y = d + x
  OBVIOUS
<1>2. PICK r \in 0 .. n - 1 : r = Wrap(x, n)
  BY WrapRange
<1>3. Wrap(y, n) = Wrap(d + r, n)
  <2>1. Wrap(d + Wrap(x, n), n) = Wrap(d + x, n)
    <3>1. d \in Int
      OBVIOUS
    <3> QED
      BY <3>1, WrapShift
  <2> QED
    BY <1>1, <1>2, <2>1
<1>5. CASE d + r < n
  BY <1>2, <1>3, <1>5, WrapOnce
<1>6. CASE d + r >= n
  BY <1>2, <1>3, <1>6, WrapOnce
<1> QED
  BY <1>5, <1>6
\* The larger and the smaller of two numbers.
LEMMA MaxPair == \A a, b \in Int : Max({a, b}) = IF a <= b THEN b ELSE a
BY DEF Max
LEMMA MinPair == \A a, b \in Int : Min({a, b}) = IF a <= b THEN a ELSE b
BY DEF Min
-----------------------------------------------------------------------------
(* Rings *)

\* The seconds whose unit (themselves, or their hours) ring r covers, those of
\* its latest unit, and those that are counted in slot j.
Window(r, slots, unit) ==
  {s \in Clock : r.epoch - slots < unit[s] /\ unit[s] <= r.epoch}
Latest(r, unit) == {s \in Clock : unit[s] = r.epoch}
Slot(r, slots, unit, j) ==
  {s \in Window(r, slots, unit) : Wrap(unit[s] - r.epoch + r.index, slots) = j}

\* Every slot counts what was recorded in its unit of the window, and nothing
\* was recorded after the ring's epoch.
RingInv(r, slots, unit, count) ==
  /\ r \in Rings(slots)
  /\ \A j \in 0 .. slots - 1 : r.buckets[j] = Sum(count, Slot(r, slots, unit, j))
  /\ \A s \in Clock : unit[s] > r.epoch => count[s] = 0

\* What is summed over is finite.
LEMMA ClockFinite == IsFiniteSet(Clock) /\ \A S \in SUBSET Clock : IsFiniteSet(S)
<1>1. IsFiniteSet(Clock)
  BY MetricsAssumption, FS_Interval DEF Clock
<1> QED
  BY <1>1, FS_Subset

\* The slots passed on the way, by their distance d from the index: all units
\* on the way, none of those that stay in the window, all that leave it.
LEMMA PassedSlots ==
  ASSUME NEW slots \in Nat \ {0}, NEW r \in Rings(slots), NEW to \in Nat, to > r.epoch,
         NEW d \in Int
  PROVE  /\ 1 <= d /\ d <= to - r.epoch => Wrap(d + r.index, slots) \in Passed(r, slots, to)
         /\ to - r.epoch - slots < d /\ d <= 0 =>
              Wrap(d + r.index, slots) \notin Passed(r, slots, to)
         /\ 0 - slots < d /\ d <= to - r.epoch - slots /\ d <= 0 =>
              Wrap(d + r.index, slots) \in Passed(r, slots, to)
<1> DEFINE D == to - r.epoch
           i == r.index
           most == IF D <= slots THEN D ELSE slots
<1>0. D \in Nat \ {0} /\ i \in 0 .. slots - 1
  BY DEF Rings
<1>1. Passed(r, slots, to) = {Wrap(i + k, slots) : k \in 1 .. most}
  <2>1. Min({to - r.epoch, slots}) = most
    BY <1>0, MinPair
  <2> QED
    BY <2>1 DEF Passed
<1> HIDE DEF D, i, most
<1>2. ASSUME D >= slots, NEW j \in 0 .. slots - 1 PROVE j \in Passed(r, slots, to)
  <2> DEFINE k == IF j > i THEN j - i ELSE j - i + slots
  <2>1. k \in 1 .. most
    BY <1>0, <1>2 DEF most
  <2>2. Wrap(i + k, slots) = j
    BY <1>0, WrapOnce
  <2> HIDE DEF k
  <2> QED
    BY <1>1, <2>1, <2>2
<1>3. ASSUME 1 <= d, d <= D PROVE Wrap(d + i, slots) \in Passed(r, slots, to)
  <2>1. CASE D >= slots
    BY <1>0, <1>2, <2>1, WrapRange
  <2>2. CASE D < slots
    <3>1. d \in 1 .. most /\ d + i = i + d
      BY <1>0, <1>3, <2>2 DEF most
    <3> QED
      BY <1>1, <3>1
  <2> QED
    BY <1>0, <2>1, <2>2
<1>4. ASSUME D - slots < d, d <= 0, Wrap(d + i, slots) \in Passed(r, slots, to) PROVE FALSE
  <2>1. PICK k \in 1 .. most : Wrap(d + i, slots) = Wrap(i + k, slots)
    BY <1>1, <1>4
  <2>2. k \in Int /\ d + i < i + k /\ i + k < d + i + slots
    BY <1>0, <1>4 DEF most
  <2>3. d + i \in Int /\ i + k \in Int
    BY <1>0, <2>2
  <2> QED
    BY <2>1, <2>2, <2>3, WrapDistinct
<1>5. ASSUME 0 - slots < d, d <= D - slots, d <= 0
      PROVE  Wrap(d + i, slots) \in Passed(r, slots, to)
  <2>1. CASE D >= slots
    BY <1>0, <1>2, <2>1, WrapRange
  <2>2. CASE D < slots
    <3>1. d + slots \in 1 .. most
      BY <1>0, <1>5, <2>2 DEF most
    <3>2. Wrap(d + i, slots) = Wrap(i + (d + slots), slots)
      <4>1. d + i \in Int /\ (d + i) + slots = i + (d + slots)
        BY <1>0
      <4>2. Wrap((d + i) + slots, slots) = Wrap(d + i, slots)
        BY <4>1, WrapLap
      <4> QED
        BY <4>1, <4>2
    <3> QED
      BY <1>1, <3>1, <3>2
  <2> QED
    BY <1>0, <2>1, <2>2
<1> QED
  BY <1>3, <1>4, <1>5 DEF D, i

\* A ring that is advanced still counts its window, by however many laps.
LEMMA AdvanceKeepsRing ==
  ASSUME NEW slots \in Nat \ {0}, NEW unit \in [Clock -> Nat], NEW count \in [Clock -> Nat],
         NEW r, RingInv(r, slots, unit, count), NEW to \in Nat
  PROVE  /\ RingInv(Advance(r, slots, to), slots, unit, count)
         /\ Advance(r, slots, to).epoch = IF to <= r.epoch THEN r.epoch ELSE to
<1>1. CASE to <= r.epoch
  BY <1>1 DEF Advance
<1>2. CASE ~(to <= r.epoch)
  <2> DEFINE index == Wrap(r.index + to - r.epoch, slots)
             buckets == [j \in 0 .. slots - 1 |->
                           IF j \in Passed(r, slots, to) THEN 0 ELSE r.buckets[j]]
             q == [buckets |-> buckets, index |-> index, epoch |-> to]
  <2>1. Advance(r, slots, to) = q
    BY <1>2 DEF Advance
  <2>2. r \in Rings(slots) /\ r.epoch \in Nat /\ r.index \in 0 .. slots - 1 /\ to > r.epoch
    BY <1>2 DEF RingInv, Rings
  <2>3. index \in 0 .. slots - 1
    BY <2>2, WrapRange
  <2>4. buckets \in [0 .. slots - 1 -> Nat]
    BY <2>2 DEF Rings
  <2>5. ASSUME NEW s \in Clock
        PROVE  Wrap(unit[s] - to + index, slots) = Wrap((unit[s] - r.epoch) + r.index, slots)
    <3>1. unit[s] - to \in Int /\ r.index + to - r.epoch \in Int
      BY <2>2
    <3>2. Wrap((unit[s] - to) + index, slots) = Wrap((unit[s] - to) + (r.index + to - r.epoch), slots)
      BY <3>1, WrapShift
    <3>3. (unit[s] - to) + (r.index + to - r.epoch) = (unit[s] - r.epoch) + r.index
      BY <2>2
    <3> QED
      BY <3>2, <3>3
  <2> HIDE DEF index
  <2>6. ASSUME NEW j \in 0 .. slots - 1
        PROVE  buckets[j] = Sum(count, Slot(q, slots, unit, j))
    <3>1. CASE j \in Passed(r, slots, to)
      <4>1. ASSUME NEW s \in Slot(q, slots, unit, j) PROVE count[s] = 0
        <5>1. s \in Clock /\ to - slots < unit[s] /\ unit[s] <= to
          BY DEF Slot, Window
        <5>2. Wrap((unit[s] - r.epoch) + r.index, slots) = j
          BY <2>5, <5>1 DEF Slot
        <5>3. unit[s] - r.epoch \in Int /\ (unit[s] <= r.epoch => unit[s] - r.epoch <= 0)
              /\ to - r.epoch - slots < unit[s] - r.epoch
          BY <2>2, <5>1
        <5>4. ~(unit[s] <= r.epoch)
          BY <2>2, <3>1, <5>2, <5>3, PassedSlots
        <5>5. unit[s] > r.epoch
          BY <2>2, <5>1, <5>4
        <5> QED
          BY <5>1, <5>5 DEF RingInv
      <4>2. IsFiniteSet(Slot(q, slots, unit, j))
        BY ClockFinite DEF Slot, Window
      <4>3. Sum(count, Slot(q, slots, unit, j)) = 0
        BY <4>1, <4>2, SumZero
      <4> QED
        BY <3>1, <4>3
    <3>2. CASE j \notin Passed(r, slots, to)
      <4>1. ASSUME NEW s \in Slot(q, slots, unit, j) PROVE s \in Slot(r, slots, unit, j)
        <5>1. s \in Clock /\ to - slots < unit[s] /\ unit[s] <= to
          BY DEF Slot, Window
        <5>2. Wrap((unit[s] - r.epoch) + r.index, slots) = j
          BY <2>5, <5>1 DEF Slot
        <5>3. unit[s] - r.epoch \in Int /\ unit[s] - r.epoch <= to - r.epoch
          BY <2>2, <5>1
        <5>4. ~(1 <= unit[s] - r.epoch)
          BY <2>2, <3>2, <5>2, <5>3, PassedSlots
        <5>5. unit[s] <= r.epoch /\ r.epoch - slots < unit[s]
          BY <2>2, <5>1, <5>4
        <5> QED
          BY <5>1, <5>2, <5>5 DEF Slot, Window
      <4>2. ASSUME NEW s \in Slot(r, slots, unit, j) PROVE s \in Slot(q, slots, unit, j)
        <5>1. s \in Clock /\ r.epoch - slots < unit[s] /\ unit[s] <= r.epoch
          BY DEF Slot, Window
        <5>2. Wrap((unit[s] - r.epoch) + r.index, slots) = j
          BY DEF Slot
        <5>3. unit[s] - r.epoch \in Int /\ 0 - slots < unit[s] - r.epoch /\ unit[s] - r.epoch <= 0
          BY <2>2, <5>1
        <5>4. ~(unit[s] - r.epoch <= to - r.epoch - slots)
          BY <2>2, <3>2, <5>2, <5>3, PassedSlots
        <5>5. to - slots < unit[s] /\ unit[s] <= to
          BY <2>2, <5>1, <5>4
        <5>6. Wrap(unit[s] - to + index, slots) = j
          BY <2>5, <5>1, <5>2
        <5> QED
          BY <5>1, <5>5, <5>6 DEF Slot, Window
      <4>3. Slot(q, slots, unit, j) = Slot(r, slots, unit, j)
        BY <4>1, <4>2
      <4> QED
        BY <3>2, <4>3 DEF RingInv
    <3> QED
      BY <3>1, <3>2
  <2>7. \A s \in Clock : unit[s] > to => count[s] = 0
    BY <2>2 DEF RingInv
  <2> QED
    BY <1>2, <2>1, <2>3, <2>4, <2>6, <2>7 DEF RingInv, Rings
<1> QED
  BY <1>1, <1>2

\* What is recorded now is counted in the slot the ring is at.
LEMMA CountKeepsRing ==
  ASSUME NEW slots \in Nat \ {0}, NEW unit \in [Clock -> Nat], NEW count \in [Clock -> Nat],
         NEW r, RingInv(r, slots, unit, count), NEW t \in Clock, unit[t] = r.epoch
  PROVE  RingInv(Count(r), slots, unit, [count EXCEPT ![t] = @ + 1])
<1> DEFINE more == [count EXCEPT ![t] = @ + 1]
           q == Count(r)
<1>1. r \in Rings(slots) /\ r.epoch \in Nat /\ r.index \in 0 .. slots - 1
      /\ r.buckets \in [0 .. slots - 1 -> Nat]
  BY DEF RingInv, Rings
<1>2. q = [buckets |-> [r.buckets EXCEPT ![r.index] = @ + 1], index |-> r.index, epoch |-> r.epoch]
  <2>1. r = [buckets |-> r.buckets, index |-> r.index, epoch |-> r.epoch]
    BY <1>1 DEF Rings
  <2>2. q = [r EXCEPT !.buckets = [r.buckets EXCEPT ![r.index] = @ + 1]]
    BY DEF Count
  <2> QED
    BY <2>1, <2>2
<1>3. \A j : Slot(q, slots, unit, j) = Slot(r, slots, unit, j)
  BY <1>2 DEF Slot, Window
<1>4. ASSUME NEW j \in 0 .. slots - 1 PROVE t \in Slot(r, slots, unit, j) <=> j = r.index
  <2>1. unit[t] - r.epoch + r.index = r.index /\ r.epoch - slots < r.epoch
    BY <1>1
  <2>2. Wrap(r.index, slots) = r.index
    BY <1>1, WrapOnce
  <2> QED
    BY <1>1, <2>1, <2>2 DEF Slot, Window
<1>5. ASSUME NEW j \in 0 .. slots - 1 PROVE q.buckets[j] = Sum(more, Slot(q, slots, unit, j))
  <2>1. IsFiniteSet(Slot(r, slots, unit, j)) /\ Slot(r, slots, unit, j) \subseteq Clock
    BY ClockFinite DEF Slot, Window
  <2>2. \A s \in Slot(r, slots, unit, j) :
          count[s] \in Nat /\ more[s] = IF s = t THEN count[s] + 1 ELSE count[s]
    BY <2>1
  <2> HIDE DEF more
  <2>3. Sum(more, Slot(r, slots, unit, j)) =
          IF t \in Slot(r, slots, unit, j) THEN Sum(count, Slot(r, slots, unit, j)) + 1
                                           ELSE Sum(count, Slot(r, slots, unit, j))
    BY <2>1, <2>2, SumCount
  <2>4. r.buckets[j] = Sum(count, Slot(r, slots, unit, j))
    BY DEF RingInv
  <2>5. q.buckets[j] = IF j = r.index THEN r.buckets[j] + 1 ELSE r.buckets[j]
    BY <1>1, <1>2
  <2> QED
    BY <1>3, <1>4, <2>3, <2>4, <2>5
<1>6. q \in Rings(slots)
  BY <1>1, <1>2 DEF Rings
<1>7. \A s \in Clock : unit[s] > q.epoch => more[s] = 0
  BY <1>1, <1>2 DEF RingInv
<1> QED
  BY <1>5, <1>6, <1>7 DEF RingInv

\* A new ring counts nothing.
LEMMA NewRingCounts ==
  ASSUME NEW slots \in Nat \ {0}, NEW unit \in [Clock -> Nat], NEW epoch \in Nat,
         NEW count \in [Clock -> Nat], \A s \in Clock : count[s] = 0
  PROVE  RingInv(NewRing(slots, epoch), slots, unit, count)
<1> DEFINE r == NewRing(slots, epoch)
<1>1. r \in Rings(slots) /\ \A j \in 0 .. slots - 1 : r.buckets[j] = 0
  BY DEF NewRing, Rings
<1> HIDE DEF r
<1>2. \A j \in 0 .. slots - 1 : Sum(count, Slot(r, slots, unit, j)) = 0
  <2> TAKE j \in 0 .. slots - 1
  <2>1. IsFiniteSet(Slot(r, slots, unit, j)) /\ Slot(r, slots, unit, j) \subseteq Clock
    BY ClockFinite DEF Slot, Window
  <2> QED
    BY <2>1, SumZero
<1> QED
  BY <1>1, <1>2 DEF RingInv, r

\* The buckets together count the window, and the one at the index the unit the
\* ring is at.
LEMMA RingCounts ==
  ASSUME NEW slots \in Nat \ {0}, NEW unit \in [Clock -> Nat], NEW count \in [Clock -> Nat],
         NEW r, RingInv(r, slots, unit, count)
  PROVE  /\ SumFunction(r.buckets) = Sum(count, Window(r, slots, unit))
         /\ r.buckets[r.index] = Sum(count, Latest(r, unit))
<1> DEFINE J == 0 .. slots - 1
           P == [j \in J |-> Slot(r, slots, unit, j)]
<1>1. r.epoch \in Nat /\ r.index \in J /\ r.buckets \in [J -> Nat]
  BY DEF RingInv, Rings
<1>2. SumFunction(r.buckets) = Sum(r.buckets, J)
  BY <1>1 DEF SumFunction, Sum
<1>3. ASSUME NEW s \in Window(r, slots, unit)
      PROVE  Wrap(unit[s] - r.epoch + r.index, slots) \in J
  <2>1. unit[s] - r.epoch + r.index \in Int
    BY <1>1 DEF Window
  <2> QED
    BY <2>1, WrapRange
<1>4. UNION {P[j] : j \in J} = Window(r, slots, unit)
  BY <1>3 DEF Slot
<1>5. Sum(r.buckets, J) = Sum(count, UNION {P[j] : j \in J})
  <2>1. IsFiniteSet(J) /\ IsFiniteSet(Clock)
    BY ClockFinite, FS_Interval
  <2>2. \A j \in J : P[j] \subseteq Clock /\ r.buckets[j] = Sum(count, P[j])
    BY DEF RingInv, Slot, Window
  <2>3. \A i, j \in J : i # j => P[i] \cap P[j] = {}
    BY DEF Slot
  <2>4. \A x \in Clock : count[x] \in Nat
    OBVIOUS
  <2> HIDE DEF J, P
  <2> QED
    BY <2>1, <2>2, <2>3, <2>4, SumOfParts
<1>6. Slot(r, slots, unit, r.index) = Latest(r, unit)
  <2>1. ASSUME NEW s \in Clock, unit[s] = r.epoch PROVE s \in Slot(r, slots, unit, r.index)
    <3>1. unit[s] - r.epoch + r.index = r.index /\ r.epoch - slots < r.epoch
      BY <1>1, <2>1
    <3>2. Wrap(r.index, slots) = r.index
      BY <1>1, WrapOnce
    <3> QED
      BY <1>1, <2>1, <3>1, <3>2 DEF Slot, Window
  <2>2. ASSUME NEW s \in Slot(r, slots, unit, r.index) PROVE s \in Clock /\ unit[s] = r.epoch
    <3> DEFINE i == unit[s] - r.epoch + r.index
    <3>1. s \in Clock /\ r.epoch - slots < unit[s] /\ unit[s] <= r.epoch
          /\ Wrap(i, slots) = r.index
      BY DEF Slot, Window
    <3>2. i \in Int /\ i <= r.index /\ r.index - slots < i
      BY <1>1, <3>1
    <3>3. i = r.index
      BY <1>1, <3>1, <3>2, WrapOnce
    <3> QED
      BY <1>1, <3>1, <3>3
  <2> QED
    BY <2>1, <2>2 DEF Latest, Slot, Window
<1> QED
  BY <1>1, <1>2, <1>4, <1>5, <1>6 DEF RingInv
-----------------------------------------------------------------------------
(* Clients *)

Second == [s \in Clock |-> s]
Hour == [s \in Clock |-> HourOf(s)]
RateNames == DOMAIN NoRate

\* TrueRates, given what was recorded.
RatesIn(count, t) ==
  [perSec |-> Sum(count, {t} \cap Clock),
   perHour |-> Sum(count, (t - SecondsPerHour + 1 .. t) \cap Clock),
   perDay |-> Sum(count, {s \in Clock : HourOf(s) \in HourOf(t) - HoursPerDay + 1 .. HourOf(t)}
                           \cap Clock)]

\* Both rings of e count what was recorded.
EntryInv(e, count) ==
  /\ e \in Entries
  /\ RingInv(e.seconds, SecondsPerHour, Second, count)
  /\ RingInv(e.hours, HoursPerDay, Hour, count)
  /\ e.seconds.epoch \in Clock
  /\ e.hours.epoch = HourOf(e.seconds.epoch)

\* And its peaks were reached, and are within the total's, top.
ClientInv(e, count, top) ==
  /\ EntryInv(e, count)
  /\ \A f \in RateNames :
       /\ e.peak[f] = 0 \/ \E t \in Clock : RatesIn(count, t)[f] >= e.peak[f]
       /\ e.peak[f] <= top[f]

\* The inductive invariant.
IInv ==
  /\ now \in Clock
  /\ entries \in [Uuids -> Entries \cup {None}]
  /\ peak \in [clients : Nat, rates : Rates]
  /\ log \in [Uuids -> [Clock -> Nat]]
  /\ \A u \in Connected : ClientInv(entries[u], log[u], peak.rates)

\* Hours go with the clock.
LEMMA HoursInOrder ==
  /\ \A s \in Clock : s \in Nat /\ HourOf(s) \in Nat
  /\ \A s, t \in Clock : s <= t => HourOf(s) <= HourOf(t)
<1>1. \A n \in Nat \ {0}, x, y \in Nat :
        x \div n \in Nat /\ (x <= y => x \div n <= y \div n)
  BY SMT
<1> QED
  BY <1>1, MetricsAssumption DEF Clock, HourOf

\* The units of the two rings.
LEMMA Units == Second \in [Clock -> Nat] /\ Hour \in [Clock -> Nat]
BY HoursInOrder DEF Second, Hour

\* Rates, as records and as functions of their names.
LEMMA RateNamesAre == RateNames = {"perSec", "perHour", "perDay"}
BY DEF RateNames, NoRate

LEMMA RatesTyped == \A r \in Rates : \A f \in RateNames : r[f] \in Nat
BY RateNamesAre DEF Rates

\* The higher of two rates, name by name.
LEMMA HigherRates ==
  ASSUME NEW a \in Rates, NEW b \in Rates
  PROVE  /\ Higher(a, b) \in Rates
         /\ \A f \in RateNames : Higher(a, b)[f] = IF a[f] <= b[f] THEN b[f] ELSE a[f]
<1>1. DOMAIN a = RateNames /\ \A f \in RateNames : a[f] \in Nat /\ b[f] \in Nat
  BY RateNamesAre DEF Rates
<1>2. Higher(a, b) = [f \in RateNames |-> Max({a[f], b[f]})]
  BY <1>1 DEF Higher, Pointwise
<1>3. \A f \in RateNames : Higher(a, b)[f] = IF a[f] <= b[f] THEN b[f] ELSE a[f]
  BY <1>1, <1>2, MaxPair
<1>4. Higher(a, b) \in [RateNames -> Nat]
  BY <1>1, <1>2, <1>3
<1>5. [RateNames -> Nat] = Rates
  BY RateNamesAre DEF Rates
<1> QED
  BY <1>3, <1>4, <1>5

\* True rates are rates, and do not fall when more is recorded.
LEMMA RatesInTyped ==
  ASSUME NEW count \in [Clock -> Nat], NEW t \in Int
  PROVE  RatesIn(count, t) \in Rates
<1>1. ASSUME NEW S \in SUBSET Clock PROVE Sum(count, S) \in Nat
  BY ClockFinite, SumAny
<1> QED
  BY <1>1 DEF RatesIn, Rates

LEMMA RatesInGrow ==
  ASSUME NEW count \in [Clock -> Nat], NEW more \in [Clock -> Nat],
         \A s \in Clock : count[s] <= more[s], NEW t \in Int, NEW f \in RateNames
  PROVE  RatesIn(count, t)[f] <= RatesIn(more, t)[f]
<1>1. ASSUME NEW S \in SUBSET Clock PROVE Sum(count, S) <= Sum(more, S)
  <2>1. IsFiniteSet(S) /\ \A s \in S : count[s] \in Nat /\ more[s] \in Nat /\ count[s] <= more[s]
    BY ClockFinite
  <2> QED
    BY <2>1, SumMonotone
<1> QED
  BY <1>1, RateNamesAre DEF RatesIn

\* What the page shows of an entry is the truth about its last second.
LEMMA RatesOfEntry ==
  ASSUME NEW count \in [Clock -> Nat], NEW e, EntryInv(e, count)
  PROVE  RatesOf(e) = RatesIn(count, e.seconds.epoch)
<1> DEFINE t == e.seconds.epoch
<1>0. t \in Clock /\ t \in Nat /\ HourOf(t) \in Nat /\ e.hours.epoch = HourOf(t)
  BY HoursInOrder DEF EntryInv
<1>1. SecondsPerHour \in Nat \ {0} /\ HoursPerDay \in Nat \ {0}
  BY MetricsAssumption
<1>2. /\ SumFunction(e.seconds.buckets) = Sum(count, Window(e.seconds, SecondsPerHour, Second))
      /\ e.seconds.buckets[e.seconds.index] = Sum(count, Latest(e.seconds, Second))
  <2> DEFINE r == e.seconds
  <2>1. RingInv(r, SecondsPerHour, Second, count)
    BY DEF EntryInv
  <2> HIDE DEF r
  <2>2. /\ SumFunction(r.buckets) = Sum(count, Window(r, SecondsPerHour, Second))
        /\ r.buckets[r.index] = Sum(count, Latest(r, Second))
    BY <1>1, <2>1, Units, RingCounts
  <2> QED
    BY <2>2 DEF r
<1>3. SumFunction(e.hours.buckets) = Sum(count, Window(e.hours, HoursPerDay, Hour))
  <2> DEFINE r == e.hours
  <2>1. RingInv(r, HoursPerDay, Hour, count)
    BY DEF EntryInv
  <2> HIDE DEF r
  <2>2. SumFunction(r.buckets) = Sum(count, Window(r, HoursPerDay, Hour))
    BY <1>1, <2>1, Units, RingCounts
  <2> QED
    BY <2>2 DEF r
<1>4. Latest(e.seconds, Second) = {t} \cap Clock
  BY <1>0 DEF Latest, Second
<1>5. Window(e.seconds, SecondsPerHour, Second) = (t - SecondsPerHour + 1 .. t) \cap Clock
  BY <1>0, <1>1, HoursInOrder DEF Window, Second
<1>6. Window(e.hours, HoursPerDay, Hour) =
        {s \in Clock : HourOf(s) \in HourOf(t) - HoursPerDay + 1 .. HourOf(t)} \cap Clock
  BY <1>0, <1>1, HoursInOrder DEF Window, Hour
<1> QED
  BY <1>2, <1>3, <1>4, <1>5, <1>6 DEF RatesOf, RatesIn

\* Both rings are advanced together.
LEMMA AdvanceKeepsEntry ==
  ASSUME NEW count \in [Clock -> Nat], NEW e, EntryInv(e, count), NEW t \in Clock
  PROVE  /\ EntryInv(AdvanceTo(e, t), count)
         /\ AdvanceTo(e, t).seconds.epoch = Max({t, e.seconds.epoch})
         /\ AdvanceTo(e, t).peak = e.peak
<1> DEFINE a == AdvanceTo(e, t)
           seconds == Advance(e.seconds, SecondsPerHour, t)
           hours == Advance(e.hours, HoursPerDay, HourOf(t))
<1>1. SecondsPerHour \in Nat \ {0} /\ HoursPerDay \in Nat \ {0}
  BY MetricsAssumption
<1>2. /\ t \in Nat /\ HourOf(t) \in Nat
      /\ e.seconds.epoch \in Clock /\ e.seconds.epoch \in Nat
      /\ HourOf(e.seconds.epoch) \in Nat
  BY HoursInOrder DEF EntryInv
<1>3. /\ RingInv(seconds, SecondsPerHour, Second, count)
      /\ seconds.epoch = IF t <= e.seconds.epoch THEN e.seconds.epoch ELSE t
  <2> DEFINE r == e.seconds
  <2>1. RingInv(r, SecondsPerHour, Second, count)
    BY DEF EntryInv
  <2> HIDE DEF r
  <2>2. RingInv(Advance(r, SecondsPerHour, t), SecondsPerHour, Second, count)
    BY <1>1, <1>2, <2>1, Units, AdvanceKeepsRing
  <2>3. Advance(r, SecondsPerHour, t).epoch = IF t <= r.epoch THEN r.epoch ELSE t
    BY <1>1, <1>2, <2>1, Units, AdvanceKeepsRing
  <2> QED
    BY <2>2, <2>3 DEF r
<1>4. /\ RingInv(hours, HoursPerDay, Hour, count)
      /\ hours.epoch = IF HourOf(t) <= e.hours.epoch THEN e.hours.epoch ELSE HourOf(t)
  <2> DEFINE r == e.hours
  <2>1. RingInv(r, HoursPerDay, Hour, count)
    BY DEF EntryInv
  <2> DEFINE h == HourOf(t)
  <2>2. h \in Nat
    BY <1>2
  <2> HIDE DEF r, h
  <2>3. RingInv(Advance(r, HoursPerDay, h), HoursPerDay, Hour, count)
    BY <1>1, <2>1, <2>2, Units, AdvanceKeepsRing
  <2>4. Advance(r, HoursPerDay, h).epoch = IF h <= r.epoch THEN r.epoch ELSE h
    BY <1>1, <2>1, <2>2, Units, AdvanceKeepsRing
  <2> QED
    BY <2>3, <2>4 DEF r, h
<1>5. hours.epoch = HourOf(seconds.epoch)
  <2>1. e.hours.epoch = HourOf(e.seconds.epoch)
    BY DEF EntryInv
  <2>2. CASE t <= e.seconds.epoch
    <3>1. HourOf(t) <= HourOf(e.seconds.epoch)
      BY <1>2, <2>2, HoursInOrder
    <3> QED
      BY <1>3, <1>4, <2>1, <2>2, <3>1
  <2>3. CASE ~(t <= e.seconds.epoch)
    <3>1. HourOf(e.seconds.epoch) <= HourOf(t)
      BY <1>2, <2>3, HoursInOrder
    <3> QED
      BY <1>2, <1>3, <1>4, <2>1, <2>3, <3>1
  <2> QED
    BY <2>2, <2>3
<1>6. Max({t, e.seconds.epoch}) = IF t <= e.seconds.epoch THEN e.seconds.epoch ELSE t
  BY <1>2, MaxPair
<1>7. /\ a = [seconds |-> seconds, hours |-> hours,
              totalRequests |-> e.totalRequests, peak |-> e.peak]
      /\ e.totalRequests \in Nat /\ e.peak \in Rates
  <2>1. e \in Entries
    BY DEF EntryInv
  <2> HIDE DEF seconds, hours
  <2>2. a = [e EXCEPT !.seconds = seconds, !.hours = hours]
    BY DEF AdvanceTo, seconds, hours
  <2> HIDE DEF a
  <2> QED
    BY <2>1, <2>2 DEF Entries
<1> HIDE DEF a, seconds, hours
<1>8. a \in Entries
  BY <1>3, <1>4, <1>7 DEF Entries, RingInv
<1>9. EntryInv(a, count)
  BY <1>2, <1>3, <1>4, <1>5, <1>7, <1>8 DEF EntryInv
<1> QED
  BY <1>3, <1>6, <1>7, <1>9 DEF a

\* Recording keeps what is said of a client.
LEMMA RecordKeepsClient ==
  ASSUME NEW count \in [Clock -> Nat], NEW top, NEW e, ClientInv(e, count, top),
         NEW t \in Clock, NEW a, a = AdvanceTo(e, t)
  PROVE  /\ [count EXCEPT ![a.seconds.epoch] = @ + 1] \in [Clock -> Nat]
         /\ ClientInv([a EXCEPT !.seconds = Count(@), !.hours = Count(@), !.totalRequests = @ + 1],
                      [count EXCEPT ![a.seconds.epoch] = @ + 1], top)
<1> DEFINE s == a.seconds.epoch
           more == [count EXCEPT ![s] = @ + 1]
           b == [a EXCEPT !.seconds = Count(@), !.hours = Count(@), !.totalRequests = @ + 1]
<1>1. EntryInv(a, count) /\ a.peak = e.peak
  BY AdvanceKeepsEntry DEF ClientInv
<1>2. s \in Clock /\ a.hours.epoch = HourOf(s) /\ a \in Entries
  BY <1>1 DEF EntryInv
<1>3. more \in [Clock -> Nat] /\ \A x \in Clock : count[x] <= more[x]
  BY <1>2
<1>4. SecondsPerHour \in Nat \ {0} /\ HoursPerDay \in Nat \ {0}
  BY MetricsAssumption
<1>5. RingInv(Count(a.seconds), SecondsPerHour, Second, more)
  <2>1. Second[s] = a.seconds.epoch
    BY <1>2 DEF Second
  <2> QED
    BY <1>1, <1>2, <1>4, <2>1, Units, CountKeepsRing DEF EntryInv
<1>6. RingInv(Count(a.hours), HoursPerDay, Hour, more)
  <2>1. Hour[s] = a.hours.epoch
    BY <1>2 DEF Hour
  <2> QED
    BY <1>1, <1>2, <1>4, <2>1, Units, CountKeepsRing DEF EntryInv
<1>7. b = [seconds |-> Count(a.seconds), hours |-> Count(a.hours),
           totalRequests |-> a.totalRequests + 1, peak |-> a.peak]
      /\ a.totalRequests \in Nat /\ a.peak \in Rates
  <2> DEFINE seconds == Count(a.seconds)
             hours == Count(a.hours)
  <2>1. b = [a EXCEPT !.seconds = seconds, !.hours = hours, !.totalRequests = a.totalRequests + 1]
    OBVIOUS
  <2> HIDE DEF b, seconds, hours
  <2>2. /\ b = [seconds |-> seconds, hours |-> hours,
                totalRequests |-> a.totalRequests + 1, peak |-> a.peak]
        /\ a.totalRequests \in Nat /\ a.peak \in Rates
    BY <1>2, <2>1 DEF Entries
  <2> QED
    BY <2>2 DEF seconds, hours
<1>8. Count(a.seconds).epoch = a.seconds.epoch /\ Count(a.hours).epoch = a.hours.epoch
  BY <1>2 DEF Count, Entries, Rings
<1> HIDE DEF b, more
<1>9. EntryInv(b, more)
  <2>1. b \in Entries
    BY <1>5, <1>6, <1>7 DEF RingInv, Entries
  <2> QED
    BY <1>2, <1>5, <1>6, <1>7, <1>8, <2>1 DEF EntryInv
<1>10. ASSUME NEW f \in RateNames
       PROVE  /\ b.peak[f] = 0 \/ \E x \in Clock : RatesIn(more, x)[f] >= b.peak[f]
              /\ b.peak[f] <= top[f]
  <2>1. b.peak[f] = e.peak[f] /\ e.peak[f] <= top[f]
    BY <1>1, <1>7 DEF ClientInv
  <2>2. CASE e.peak[f] = 0
    BY <2>1, <2>2
  <2>3. ASSUME NEW x \in Clock, RatesIn(count, x)[f] >= e.peak[f]
        PROVE  RatesIn(more, x)[f] >= b.peak[f]
    <3>1. x \in Int
      BY HoursInOrder
    <3>2. RatesIn(count, x) \in Rates /\ RatesIn(more, x) \in Rates /\ e.peak \in Rates
      BY <1>1, <1>3, <1>7, <3>1, RatesInTyped
    <3>3. RatesIn(count, x)[f] \in Nat /\ RatesIn(more, x)[f] \in Nat /\ e.peak[f] \in Nat
      BY <3>2, RatesTyped
    <3>4. RatesIn(count, x)[f] <= RatesIn(more, x)[f]
      BY <1>3, <3>1, RatesInGrow
    <3> QED
      BY <2>1, <2>3, <3>3, <3>4
  <2> QED
    BY <2>1, <2>2, <2>3 DEF ClientInv
<1> QED
  BY <1>3, <1>9, <1>10 DEF ClientInv, b, more

\* So does showing the page, when the total covers the client's rates.
LEMMA SnapshotKeepsClient ==
  ASSUME NEW count \in [Clock -> Nat], NEW top \in Rates, NEW e, ClientInv(e, count, top),
         NEW t \in Clock, NEW a, a = AdvanceTo(e, t), NEW higher \in Rates,
         \A f \in RateNames : top[f] <= higher[f] /\ RatesOf(a)[f] <= higher[f]
  PROVE  ClientInv([a EXCEPT !.peak = Higher(@, RatesOf(a))], count, higher)
<1> DEFINE b == [a EXCEPT !.peak = Higher(@, RatesOf(a))]
           s == a.seconds.epoch
<1>1. EntryInv(a, count) /\ a.peak = e.peak /\ e \in Entries
  BY AdvanceKeepsEntry DEF ClientInv, EntryInv
<1>2. s \in Clock /\ s \in Int /\ a \in Entries /\ RatesOf(a) = RatesIn(count, s)
  BY <1>1, RatesOfEntry, HoursInOrder DEF EntryInv
<1>3. a.peak \in Rates /\ RatesOf(a) \in Rates
  BY <1>2, RatesInTyped DEF Entries
<1>4. /\ Higher(a.peak, RatesOf(a)) \in Rates
      /\ \A f \in RateNames : Higher(a.peak, RatesOf(a))[f] =
            IF a.peak[f] <= RatesOf(a)[f] THEN RatesOf(a)[f] ELSE a.peak[f]
  BY <1>3, HigherRates
<1>5. b = [seconds |-> a.seconds, hours |-> a.hours, totalRequests |-> a.totalRequests,
           peak |-> Higher(a.peak, RatesOf(a))]
  BY <1>2 DEF Entries
<1> HIDE DEF b
<1>6. EntryInv(b, count)
  <2>1. b \in Entries
    BY <1>2, <1>4, <1>5 DEF Entries
  <2> QED
    BY <1>1, <1>5, <2>1 DEF EntryInv
<1>7. ASSUME NEW f \in RateNames
      PROVE  /\ b.peak[f] = 0 \/ \E x \in Clock : RatesIn(count, x)[f] >= b.peak[f]
             /\ b.peak[f] <= higher[f]
  <2>1. a.peak[f] \in Nat /\ RatesOf(a)[f] \in Nat /\ top[f] \in Nat /\ higher[f] \in Nat
    BY <1>3, RatesTyped
  <2>2. b.peak[f] = IF a.peak[f] <= RatesOf(a)[f] THEN RatesOf(a)[f] ELSE a.peak[f]
    BY <1>4, <1>5
  <2>3. /\ a.peak[f] = 0 \/ \E x \in Clock : RatesIn(count, x)[f] >= a.peak[f]
        /\ a.peak[f] <= top[f] /\ top[f] <= higher[f] /\ RatesOf(a)[f] <= higher[f]
    BY <1>1 DEF ClientInv
  <2>4. CASE a.peak[f] <= RatesOf(a)[f]
    BY <1>2, <2>1, <2>2, <2>3, <2>4
  <2>5. CASE ~(a.peak[f] <= RatesOf(a)[f])
    BY <2>1, <2>2, <2>3, <2>5
  <2> QED
    BY <2>4, <2>5
<1> QED
  BY <1>6, <1>7 DEF ClientInv, b

\* A new client has no requests and no peaks.
LEMMA NewClient ==
  ASSUME NEW t \in Clock, NEW top \in Rates
  PROVE  ClientInv([seconds |-> NewRing(SecondsPerHour, t), hours |-> NewRing(HoursPerDay, HourOf(t)),
                    totalRequests |-> 0, peak |-> NoRate],
                   [s \in Clock |-> 0], top)
<1> DEFINE e == [seconds |-> NewRing(SecondsPerHour, t), hours |-> NewRing(HoursPerDay, HourOf(t)),
                 totalRequests |-> 0, peak |-> NoRate]
           none == [s \in Clock |-> 0]
<1>1. SecondsPerHour \in Nat \ {0} /\ HoursPerDay \in Nat \ {0}
  BY MetricsAssumption
<1>2. t \in Nat /\ HourOf(t) \in Nat
  BY HoursInOrder
<1>3. RingInv(NewRing(SecondsPerHour, t), SecondsPerHour, Second, none)
  BY <1>1, <1>2, Units, NewRingCounts
<1>4. RingInv(NewRing(HoursPerDay, HourOf(t)), HoursPerDay, Hour, none)
  BY <1>1, <1>2, Units, NewRingCounts
<1>5. NoRate \in Rates /\ \A f \in RateNames : NoRate[f] = 0
  BY RateNamesAre DEF NoRate, Rates
<1>6. e \in Entries
  BY <1>3, <1>4, <1>5 DEF Entries, RingInv
<1>7. EntryInv(e, none)
  BY <1>3, <1>4, <1>6 DEF EntryInv, NewRing
<1>8. \A f \in RateNames : top[f] \in Nat
  BY RatesTyped
<1> QED
  BY <1>5, <1>7, <1>8 DEF ClientInv
-----------------------------------------------------------------------------
(* The collector *)

\* A client that is not connected has no entry.
LEMMA NoneIsNoEntry == None \notin Entries
<1> SUFFICES ASSUME None \in Entries PROVE FALSE
  OBVIOUS
<1>1. None.totalRequests \in Nat
  BY DEF Entries
<1> QED
  BY <1>1 DEF None

\* At first nobody is connected.
LEMMA InitIInv == Init => IInv
<1> SUFFICES ASSUME Init PROVE IInv
  OBVIOUS
<1>1. 0 \in Nat /\ NoRate \in Rates
  BY RateNamesAre DEF NoRate, Rates
<1>2. Connected = {}
  BY DEF Init, Connected
<1> QED
  BY <1>1, <1>2 DEF Init, IInv

\* A step that gives u the entry e and the count c, and changes no other client,
\* keeps the invariant if it keeps what is said of u.
LEMMA OneClient ==
  ASSUME IInv, NEW u \in Uuids, NEW e, NEW c \in [Clock -> Nat],
         e = None \/ ClientInv(e, c, peak.rates),
         entries' = [entries EXCEPT ![u] = e], log' = [log EXCEPT ![u] = c],
         UNCHANGED <<now, peak>>
  PROVE  IInv'
<1>1. e \in Entries \cup {None}
  BY DEF ClientInv, EntryInv
<1>2. entries' \in [Uuids -> Entries \cup {None}] /\ log' \in [Uuids -> [Clock -> Nat]]
  BY <1>1 DEF IInv
<1>3. ASSUME NEW v \in Uuids, entries'[v] # None
      PROVE  ClientInv(entries'[v], log'[v], peak.rates)
  <2>1. CASE v = u
    BY <1>3, <2>1 DEF IInv
  <2>2. CASE v # u
    <3>1. entries'[v] = entries[v] /\ log'[v] = log[v] /\ v \in Connected
      BY <1>3, <2>2 DEF IInv, Connected
    <3> QED
      BY <3>1 DEF IInv
  <2> QED
    BY <2>1, <2>2
<1> QED
  BY <1>2, <1>3 DEF IInv, Connected

\* The rates of all clients together are no less than each one's.
LEMMA TotalCovers ==
  ASSUME NEW es, \A u \in Connected : RatesOf(es[u]) \in Rates
  PROVE  /\ TotalRates(es) \in Rates
         /\ \A u \in Connected, f \in RateNames : RatesOf(es[u])[f] <= TotalRates(es)[f]
<1> DEFINE rates(f) == [u \in Connected |-> RatesOf(es[u])[f]]
<1>0. IsFiniteSet(Connected)
  BY MetricsAssumption, FS_Subset DEF Connected
<1>1. TotalRates(es) = [f \in RateNames |-> Sum(rates(f), Connected)]
  BY DEF TotalRates, RateNames, SumFunction, Sum
<1>2. ASSUME NEW f \in RateNames
      PROVE  /\ Sum(rates(f), Connected) \in Nat
             /\ \A u \in Connected : RatesOf(es[u])[f] <= Sum(rates(f), Connected)
  <2> DEFINE g == rates(f)
  <2>1. \A u \in Connected : g[u] = RatesOf(es[u])[f] /\ g[u] \in Nat
    BY RatesTyped
  <2> HIDE DEF g
  <2>2. Sum(g, Connected) \in Nat /\ \A u \in Connected : g[u] <= Sum(g, Connected)
    BY <1>0, <2>1, SumAny, SumCovers
  <2> QED
    BY <2>1, <2>2 DEF g
<1> HIDE DEF rates
<1>3. TotalRates(es) \in [RateNames -> Nat]
  BY <1>1, <1>2
<1>4. [RateNames -> Nat] = Rates
  BY RateNamesAre DEF Rates
<1> QED
  BY <1>1, <1>2, <1>3, <1>4

\* The page reads and raises every client and the total at once.
LEMMA SnapshotKeepsIInv == IInv /\ Snapshot => IInv'
<1> SUFFICES ASSUME IInv, Snapshot PROVE IInv'
  OBVIOUS
<1> DEFINE es == [u \in Uuids |-> IF u \in Connected THEN AdvanceTo(entries[u], now) ELSE None]
           total == TotalRates(es)
           higher == Higher(peak.rates, total)
           shown(u) == [es[u] EXCEPT !.peak = Higher(@, RatesOf(es[u]))]
<1>1. /\ entries' = [u \in Uuids |-> IF u \in Connected THEN shown(u) ELSE None]
      /\ peak' = [clients |-> Max({peak.clients, Cardinality(Connected)}), rates |-> higher]
      /\ UNCHANGED <<now, log>>
  BY DEF Snapshot
<1>2. ASSUME NEW u \in Connected
      PROVE  /\ es[u] = AdvanceTo(entries[u], now)
             /\ log[u] \in [Clock -> Nat] /\ ClientInv(entries[u], log[u], peak.rates)
             /\ RatesOf(es[u]) \in Rates
  <2>1. /\ es[u] = AdvanceTo(entries[u], now) /\ now \in Clock
        /\ log[u] \in [Clock -> Nat] /\ ClientInv(entries[u], log[u], peak.rates)
    BY DEF IInv, Connected
  <2>2. EntryInv(es[u], log[u])
    <3>1. EntryInv(entries[u], log[u])
      BY <2>1 DEF ClientInv
    <3>2. EntryInv(AdvanceTo(entries[u], now), log[u])
      BY <2>1, <3>1, AdvanceKeepsEntry
    <3> HIDE DEF es
    <3> QED
      BY <2>1, <3>2
  <2>3. RatesOf(es[u]) = RatesIn(log[u], es[u].seconds.epoch) /\ es[u].seconds.epoch \in Int
    BY <2>1, <2>2, RatesOfEntry, HoursInOrder DEF EntryInv
  <2> QED
    BY <2>1, <2>3, RatesInTyped
<1> HIDE DEF es
<1>3. total \in Rates /\ \A u \in Connected, f \in RateNames : RatesOf(es[u])[f] <= total[f]
  BY <1>2, TotalCovers
<1>4. peak.rates \in Rates /\ peak.clients \in Nat
  BY DEF IInv
<1> HIDE DEF total
<1>5. /\ higher \in Rates
      /\ \A f \in RateNames : peak.rates[f] <= higher[f] /\ total[f] <= higher[f]
  <2>1. /\ higher \in Rates
        /\ \A f \in RateNames :
             higher[f] = IF peak.rates[f] <= total[f] THEN total[f] ELSE peak.rates[f]
    BY <1>3, <1>4, HigherRates
  <2>2. \A f \in RateNames : peak.rates[f] \in Nat /\ total[f] \in Nat
    BY <1>3, <1>4, RatesTyped
  <2> QED
    BY <2>1, <2>2
<1> HIDE DEF higher
<1>6. ASSUME NEW u \in Connected PROVE ClientInv(shown(u), log[u], higher)
  <2>1. \A f \in RateNames : RatesOf(es[u])[f] <= higher[f]
    <3> TAKE f \in RateNames
    <3>1. RatesOf(es[u])[f] \in Nat /\ total[f] \in Nat /\ higher[f] \in Nat
      BY <1>2, <1>3, <1>5, RatesTyped
    <3> QED
      BY <1>3, <1>5, <3>1
  <2>2. now \in Clock
    BY DEF IInv
  <2> QED
    BY <1>2, <1>4, <1>5, <2>1, <2>2, SnapshotKeepsClient
<1> HIDE DEF shown
<1>7. \A u \in Connected : shown(u) \in Entries
  BY <1>6 DEF ClientInv, EntryInv
<1>8. entries' \in [Uuids -> Entries \cup {None}]
  BY <1>1, <1>7
<1>9. peak' \in [clients : Nat, rates : Rates] /\ peak'.rates = higher
  <2>1. Cardinality(Connected) \in Nat
    BY MetricsAssumption, FS_Subset, FS_CardinalityType DEF Connected
  <2>2. Max({peak.clients, Cardinality(Connected)}) \in Nat
    BY <1>4, <2>1, MaxPair
  <2> QED
    BY <1>1, <1>5, <2>2
<1>10. \A u \in Uuids : entries'[u] # None => ClientInv(entries'[u], log'[u], peak'.rates)
  BY <1>1, <1>6, <1>9
<1> QED
  BY <1>1, <1>8, <1>9, <1>10 DEF IInv, Connected

\* Every action keeps the invariant.
LEMMA NextIInv == IInv /\ [Next]_vars => IInv'
<1> SUFFICES ASSUME IInv, [Next]_vars PROVE IInv'
  OBVIOUS
<1>0. /\ now \in Clock /\ now \in Int /\ peak.rates \in Rates
      /\ entries \in [Uuids -> Entries \cup {None}] /\ log \in [Uuids -> [Clock -> Nat]]
  BY HoursInOrder DEF IInv
<1>1. ASSUME NEW u \in Uuids, RegisterClient(u) PROVE IInv'
  <2> DEFINE e == [seconds |-> NewRing(SecondsPerHour, now), hours |-> NewRing(HoursPerDay, HourOf(now)),
                   totalRequests |-> 0, peak |-> NoRate]
             c == [t \in Clock |-> 0]
  <2>1. ClientInv(e, c, peak.rates)
    BY <1>0, NewClient
  <2>2. entries' = [entries EXCEPT ![u] = e] /\ log' = [log EXCEPT ![u] = c]
        /\ UNCHANGED <<now, peak>> /\ c \in [Clock -> Nat]
    BY <1>1 DEF RegisterClient
  <2> HIDE DEF e, c
  <2> QED
    BY <2>1, <2>2, OneClient
<1>2. ASSUME NEW u \in Uuids, RemoveClient(u) PROVE IInv'
  <2>1. entries' = [entries EXCEPT ![u] = None] /\ log' = [log EXCEPT ![u] = log[u]]
        /\ UNCHANGED <<now, peak>> /\ log[u] \in [Clock -> Nat]
    BY <1>0, <1>2 DEF RemoveClient
  <2> QED
    BY <2>1, OneClient
<1>3. ASSUME NEW u \in Uuids, Record(u) PROVE IInv'
  <2> DEFINE a == AdvanceTo(entries[u], now)
             e == [a EXCEPT !.seconds = Count(@), !.hours = Count(@), !.totalRequests = @ + 1]
             c == [log[u] EXCEPT ![a.seconds.epoch] = @ + 1]
  <2>1. log[u] \in [Clock -> Nat] /\ ClientInv(entries[u], log[u], peak.rates)
    BY <1>0, <1>3 DEF Record, IInv
  <2>2. c \in [Clock -> Nat] /\ ClientInv(e, c, peak.rates)
    BY <1>0, <2>1, RecordKeepsClient
  <2>3. entries' = [entries EXCEPT ![u] = e] /\ log' = [log EXCEPT ![u] = c]
        /\ UNCHANGED <<now, peak>>
    BY <1>3 DEF Record
  <2> HIDE DEF e, c
  <2> QED
    BY <2>2, <2>3, OneClient
<1>4. CASE Snapshot
  BY <1>4, SnapshotKeepsIInv
<1>5. CASE ClockMoves
  BY <1>5 DEF ClockMoves, IInv, Connected
<1>6. CASE UNCHANGED vars
  BY <1>6 DEF vars, IInv, Connected
<1> QED
  BY <1>1, <1>2, <1>3, <1>4, <1>5, <1>6 DEF Next

-----------------------------------------------------------------------------
(* The theorems *)

\* The inductive invariant: each ring counts what was recorded in its window,
\* and no client's peak is made up or above the total's.
THEOREM IInvHolds == Spec => []IInv
BY InitIInv, NextIInv, PTL DEF Spec

\* The state keeps its types, the two rings of an entry at one time.
THEOREM TypesHold == Spec => []TypeOK
<1>1. IInv => TypeOK
  <2> SUFFICES ASSUME IInv PROVE TypeOK
    OBVIOUS
  <2>1. ASSUME NEW u \in Connected
        PROVE  LET e == entries[u] IN
               /\ DOMAIN e = {"seconds", "hours", "totalRequests", "peak"}
               /\ e.seconds.buckets \in [0 .. SecondsPerHour - 1 -> Nat]
               /\ e.seconds.index \in 0 .. SecondsPerHour - 1
               /\ e.hours.buckets \in [0 .. HoursPerDay - 1 -> Nat]
               /\ e.hours.index \in 0 .. HoursPerDay - 1
               /\ e.seconds.epoch \in Clock /\ e.hours.epoch = HourOf(e.seconds.epoch)
               /\ e.totalRequests \in Nat
               /\ e.peak \in Rates
    <3>1. EntryInv(entries[u], log[u])
      BY DEF IInv, ClientInv
    <3>2. entries[u] \in Entries
      BY <3>1 DEF EntryInv
    <3> QED
      BY <3>1, <3>2 DEF EntryInv, Entries, Rings
  <2> QED
    BY <2>1 DEF TypeOK, IInv
<1> QED
  BY <1>1, IInvHolds, PTL

\* Rings that count their windows show the rates of those windows.
LEMMA IInvGivesRates == IInv => RatesAreTrue
<1> SUFFICES ASSUME IInv, NEW u \in Connected, NEW t \in Clock
             PROVE  RatesOf(AdvanceTo(entries[u], t)) =
                      TrueRates(u, Max({t, entries[u].seconds.epoch}))
  BY DEF RatesAreTrue
<1> DEFINE a == AdvanceTo(entries[u], t)
<1>1. log[u] \in [Clock -> Nat] /\ EntryInv(entries[u], log[u])
  BY DEF IInv, ClientInv, Connected
<1>2. EntryInv(a, log[u]) /\ a.seconds.epoch = Max({t, entries[u].seconds.epoch})
  BY <1>1, AdvanceKeepsEntry
<1>3. RatesOf(a) = RatesIn(log[u], a.seconds.epoch)
  BY <1>1, <1>2, RatesOfEntry
<1>4. \A s : TrueRates(u, s) = RatesIn(log[u], s)
  BY DEF TrueRates, RatesIn, InWindow, Sum
<1> HIDE DEF a
<1> QED
  BY <1>2, <1>3, <1>4 DEF a

\* Whenever the page is next shown, each client's rates are those of the true
\* sliding windows, whatever the clock has done since its rings were advanced.
THEOREM RatesHold == Spec => []RatesAreTrue
BY IInvGivesRates, IInvHolds, PTL

\* A snapshot shows the rates that were true when it was taken.
THEOREM SnapshotsAreTrue == Spec => ShownIsTrue
<1>1. IInv /\ [Next]_vars => [Snapshot => \A u \in Connected :
        RatesOf(entries'[u]) = TrueRates(u, Max({now, entries[u].seconds.epoch}))]_vars
  <2> SUFFICES ASSUME IInv, Snapshot, NEW u \in Connected
               PROVE  RatesOf(entries'[u]) = TrueRates(u, Max({now, entries[u].seconds.epoch}))
    OBVIOUS
  <2> DEFINE a == AdvanceTo(entries[u], now)
  <2>1. now \in Clock
    BY DEF IInv
  <2>2. RatesOf(a) = TrueRates(u, Max({now, entries[u].seconds.epoch}))
    BY <2>1, IInvGivesRates DEF RatesAreTrue
  <2>3. u \in Uuids /\ entries'[u] = [a EXCEPT !.peak = Higher(@, RatesOf(a))]
    BY DEF Snapshot, Connected
  <2>4. RatesOf(entries'[u]) = RatesOf(a)
    BY <2>3 DEF RatesOf, AdvanceTo
  <2> QED
    BY <2>2, <2>4
<1> QED
  BY <1>1, IInvHolds, PTL DEF Spec, ShownIsTrue

\* Peaks are neither made up nor, the total's, too low.
THEOREM PeaksHold == Spec => []PeaksAreSound
<1>1. IInv => PeaksAreSound
  <2> SUFFICES ASSUME IInv, NEW u \in Connected, NEW f \in RateNames
               PROVE  /\ entries[u].peak[f] = 0
                         \/ \E t \in Clock : TrueRates(u, t)[f] >= entries[u].peak[f]
                      /\ entries[u].peak[f] <= peak.rates[f]
    BY DEF PeaksAreSound, PeaksWereReached, TotalPeakCoversClients, RateNames
  <2>1. ClientInv(entries[u], log[u], peak.rates)
    BY DEF IInv
  <2>2. \A s : TrueRates(u, s) = RatesIn(log[u], s)
    BY DEF TrueRates, RatesIn, InWindow, Sum
  <2> QED
    BY <2>1, <2>2 DEF ClientInv
<1> QED
  BY <1>1, IInvHolds, PTL

=============================================================================
