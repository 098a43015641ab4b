------------------------- MODULE RelayClientProofs -------------------------
(***************************************************************************)
(* Proofs about RelayClient for every list of URLs, every bound on the     *)
(* counted attempts and every clock: what the consumer was told is true of *)
(* the connections, and run() resolves after the last report.              *)
(*                                                                         *)
(* aggregateStatus folds the snapshots three times.  The library defines   *)
(* its folds by recursion over subsets of the places, the last place       *)
(* first; FoldsExist says that the recursion has a solution, the Along     *)
(* lemmas turn it into one over the prefixes of the list, and              *)
(* PrefixInduction says what the fold has computed at the end.  Induction  *)
(* is stated for a set, since no prover here can instantiate a predicate.  *)
(***************************************************************************)
EXTENDS RelayClient, FiniteSetTheorems, WellFoundedInduction, TLAPS

-----------------------------------------------------------------------------
(* The end of run() *)

\* The connections are those of the list, and a client that has resolved has
\* stopped all of them.
ClientInv ==
  /\ phase = "new" => urls = <<>>
  /\ phase # "new" => phase \in {"rejected", "running", "resolved"}
  /\ stopped \in [DOMAIN urls -> BOOLEAN]
  /\ phase = "resolved" => AllStopped

LEMMA InitClientInv == Init => ClientInv
BY DEF Init, ClientInv, AllStopped

LEMMA NextClientInv == ClientInv /\ [Next]_vars => ClientInv'
<1> SUFFICES ASSUME ClientInv, [Next]_vars PROVE ClientInv'
  OBVIOUS
<1> USE DEF ClientInv, AllStopped
<1>1. CASE Reject \/ Abort \/ Resolve
  BY <1>1 DEF Reject, Abort, Resolve, connVars
<1>2. CASE Run
  BY <1>2 DEF Run
<1>3. ASSUME NEW k \in DOMAIN urls, NEW now \in 0..MaxSecond, Connects(k, now) PROVE ClientInv'
  BY <1>3 DEF Connects
<1>4. ASSUME NEW k \in DOMAIN urls, SessionEnds(k) \/ AttemptFails(k) PROVE ClientInv'
  BY <1>4 DEF SessionEnds, AttemptFails
<1>5. ASSUME NEW k \in DOMAIN urls, Stops(k) PROVE ClientInv'
  BY <1>5 DEF Stops
<1>6. CASE UNCHANGED vars
  BY <1>6 DEF vars, connVars
<1> QED
  BY <1>1, <1>2, <1>3, <1>4, <1>5, <1>6 DEF Next

\* The consumer is not called after run() has resolved, and no connection
\* starts or ends a session behind its back.
THEOREM NothingAfterRun == Spec => NoReportAfterRun
<1>1. Spec => []ClientInv
  BY InitClientInv, NextClientInv, PTL DEF Spec
<1>2. ClientInv /\ [Next]_vars =>
        [phase = "resolved" => UNCHANGED <<told, serving, status>>]_vars
  <2> SUFFICES ASSUME ClientInv, Next, phase = "resolved"
               PROVE  UNCHANGED <<told, serving, status>>
    OBVIOUS
  <2>1. \A k \in DOMAIN urls : stopped[k]
    BY DEF ClientInv, AllStopped
  <2>2. CASE Reject \/ Run \/ Abort \/ Resolve
    BY <2>2 DEF Reject, Run, Abort, Resolve, connVars
  <2>3. ASSUME NEW k \in DOMAIN urls, NEW now \in 0..MaxSecond, Connects(k, now) PROVE FALSE
    BY <2>1, <2>3 DEF Connects
  <2>4. ASSUME NEW k \in DOMAIN urls, SessionEnds(k) \/ AttemptFails(k) \/ Stops(k) PROVE FALSE
    BY <2>1, <2>4 DEF SessionEnds, AttemptFails, Stops
  <2> QED
    BY <2>2, <2>3, <2>4 DEF Next
<1> QED
  BY <1>1, <1>2, PTL DEF Spec, NoReportAfterRun

-----------------------------------------------------------------------------
(* Induction over finite sets and over prefixes *)

\* What holds of a set when it holds of its strict subsets holds of S.
LEMMA SubsetInduction ==
  ASSUME NEW S, IsFiniteSet(S), NEW Q,
         \A T \in SUBSET S : (\A U \in SUBSET T : U # T => U \in Q) => T \in Q
  PROVE  \A T \in SUBSET S : T \in Q
<1> DEFINE Bad == {T \in SUBSET S : T \notin Q}
<1> SUFFICES ASSUME Bad # {} PROVE FALSE
  OBVIOUS
<1>1. IsWellFoundedOn(StrictSubsetOrdering(S), SUBSET S)
  <2>1. FiniteSubsetsOf(S) = SUBSET S
    BY FS_FiniteSubsetsOfFinite
  <2>2. IsWellFoundedOn(StrictSubsetOrdering(S), FiniteSubsetsOf(S))
    BY FS_StrictSubsetOrderingWellFounded
  <2> QED
    BY <2>1, <2>2
<1>2. Bad \subseteq SUBSET S
  OBVIOUS
<1> HIDE DEF Bad
<1>3. PICK T \in Bad : \A U \in Bad : <<U, T>> \notin StrictSubsetOrdering(S)
  BY <1>1, <1>2, WFMin
<1>4. \A U \in SUBSET T : U # T => U \in Q
  BY <1>3 DEF Bad, StrictSubsetOrdering
<1> QED
  BY <1>3, <1>4 DEF Bad

-----------------------------------------------------------------------------

\* What holds of 0, and of m + 1 when it holds of m, holds up to n.
LEMMA PrefixInduction ==
  ASSUME NEW n \in Nat, NEW Q, 0 \in Q, \A m \in 0..(n - 1) : m \in Q => m + 1 \in Q
  PROVE  \A m \in 0..n : m \in Q
<1> DEFINE P == {s \in SUBSET (1..n) : \A m \in 0..n : s = 1..m => m \in Q}
<1>1. IsFiniteSet(1..n)
  BY FS_Interval
<1>2. ASSUME NEW T \in SUBSET (1..n), \A U \in SUBSET T : U # T => U \in P
      PROVE  T \in P
  <2> SUFFICES ASSUME NEW m \in 0..n, T = 1..m PROVE m \in Q
    OBVIOUS
  <2>1. CASE m = 0
    BY <2>1
  <2>2. CASE m # 0
    <3>1. m - 1 \in 0..(n - 1) /\ m - 1 \in 0..n /\ (m - 1) + 1 = m
      BY <2>2
    <3>2. 1..(m - 1) \in SUBSET T /\ 1..(m - 1) # T
      <4>1. m \in T /\ m \notin 1..(m - 1)
        BY <2>2
      <4> QED
        BY <4>1
    <3>3. 1..(m - 1) \in P
      BY <1>2, <3>2
    <3>4. m - 1 \in Q
      BY <3>1, <3>3
    <3> QED
      BY <3>1, <3>4
  <2> QED
    BY <2>1, <2>2
<1> HIDE DEF P
<1>3. \A s \in SUBSET (1..n) : s \in P
  BY <1>1, <1>2, SubsetInduction
<1> QED
  <2> SUFFICES ASSUME NEW m \in 0..n PROVE m \in Q
    OBVIOUS
  <2>1. 1..m \in P
    BY <1>3
  <2> QED
    BY <2>1 DEF P

\* A set of places that is not empty has a last one and a first one.
LEMMA MaxMinIn ==
  ASSUME NEW n \in Nat, NEW s \in SUBSET (1..n), s # {}
  PROVE  /\ Max(s) \in s /\ \A x \in s : x <= Max(s)
         /\ Min(s) \in s
<1> DEFINE P == {r \in SUBSET (1..n) : r # {} => (\E x \in r : \A y \in r : x >= y)
                                                /\ \E x \in r : \A y \in r : x =< y}
<1>1. IsFiniteSet(1..n)
  BY FS_Interval
<1>2. ASSUME NEW r \in SUBSET (1..n), \A u \in SUBSET r : u # r => u \in P
      PROVE  r \in P
  <2> SUFFICES ASSUME NEW x \in r PROVE r \in P
    OBVIOUS
  <2>1. CASE r = {x}
    BY <2>1
  <2>2. CASE r # {x}
    <3> DEFINE u == r \ {x}
    <3>1. u \in P /\ u # {}
      BY <1>2, <2>2
    <3>2. PICK a \in u : \A y \in u : a >= y
      BY <3>1
    <3>3. PICK b \in u : \A y \in u : b =< y
      BY <3>1
    <3>4. \E z \in r : \A y \in r : z >= y
      <4>1. CASE a >= x
        BY <3>2, <4>1
      <4>2. CASE ~(a >= x)
        BY <3>2, <4>2
      <4> QED
        BY <4>1, <4>2
    <3>5. \E z \in r : \A y \in r : z =< y
      <4>1. CASE b =< x
        BY <3>3, <4>1
      <4>2. CASE ~(b =< x)
        BY <3>3, <4>2
      <4> QED
        BY <4>1, <4>2
    <3> QED
      BY <3>4, <3>5
  <2> QED
    BY <2>1, <2>2
<1> HIDE DEF P
<1>3. s \in P
  <2>1. \A r \in SUBSET (1..n) : r \in P
    BY <1>1, <1>2, SubsetInduction
  <2> QED
    BY <2>1
<1>4. (\E x \in s : \A y \in s : x >= y) /\ (\E x \in s : \A y \in s : x =< y)
  BY <1>3 DEF P
<1> QED
  BY <1>4 DEF Max, Min

\* The last of the first m places is m.
LEMMA LastPlace ==
  ASSUME NEW n \in Nat, NEW m \in 1..n
  PROVE  /\ Max(1..m) = m
         /\ (1..m) \ {Max(1..m)} = 1..(m - 1)
<1>1. 1..m \in SUBSET (1..n) /\ 1..m # {} /\ m \in 1..m
  OBVIOUS
<1>2. Max(1..m) \in 1..m /\ m <= Max(1..m)
  BY <1>1, MaxMinIn
<1>3. Max(1..m) = m
  BY <1>2
<1> QED
  BY <1>3

-----------------------------------------------------------------------------
(* Folds over places *)

\* One step of a fold over places: F takes the fold g of the places before the
\* last one of s, and that place.
FoldStep(F, b, g, s) == IF s = {} THEN b ELSE F[<<g[s \ {Max(s)}], Max(s)>>]

IsFold(g, F, b, S) == g = [s \in SUBSET S |-> FoldStep(F, b, g, s)]

\* S is a set of places in some list.
IsPlaces(S) == \E n \in Nat : S \in SUBSET (1..n)

\* Folds are determined by their step.
LEMMA FoldsUnique ==
  ASSUME NEW S, IsPlaces(S), NEW F, NEW b, NEW g, NEW h, NEW T, T \in SUBSET S,
         IsFold(g, F, b, S), IsFold(h, F, b, T)
  PROVE  g[T] = h[T]
<1>0. PICK n \in Nat : S \in SUBSET (1..n)
  BY DEF IsPlaces
<1> DEFINE Q == {s \in SUBSET T : g[s] = h[s]}
<1>1. IsFiniteSet(T)
  <2>1. IsFiniteSet(1..n) /\ T \in SUBSET (1..n)
    BY <1>0, FS_Interval
  <2> QED
    BY <2>1, FS_Subset
<1>2. ASSUME NEW s \in SUBSET T, \A r \in SUBSET s : r # s => r \in Q
      PROVE  s \in Q
  <2>1. g[s] = FoldStep(F, b, g, s) /\ h[s] = FoldStep(F, b, h, s)
    BY DEF IsFold
  <2>2. CASE s = {}
    BY <2>1, <2>2 DEF FoldStep
  <2>3. CASE s # {}
    <3>1. Max(s) \in s
      <4>1. s \in SUBSET (1..n)
        BY <1>0
      <4> QED
        BY <2>3, <4>1, MaxMinIn
    <3>2. s \ {Max(s)} \in Q
      BY <1>2, <3>1
    <3> QED
      BY <2>1, <2>3, <3>2 DEF FoldStep
  <2> QED
    BY <2>2, <2>3
<1> HIDE DEF Q
<1>3. \A s \in SUBSET T : s \in Q
  BY <1>1, <1>2, SubsetInduction
<1> QED
  BY <1>3 DEF Q

\* Folds exist.
LEMMA FoldsExist ==
  ASSUME NEW n \in Nat, NEW F, NEW b
  PROVE  \E g : IsFold(g, F, b, 1..n)
<1> DEFINE S == 1..n
           Q == {s \in SUBSET S : \E g : IsFold(g, F, b, s)}
<1>0. IsFiniteSet(S)
  BY FS_Interval
<1>1. ASSUME NEW T \in SUBSET S, \A r \in SUBSET T : r # T => r \in Q
      PROVE  T \in Q
  <2> DEFINE G(r) == CHOOSE g : IsFold(g, F, b, r)
             rest(r) == r \ {Max(r)}
             v(r) == IF r = {} THEN b ELSE F[<<G(rest(r))[rest(r)], Max(r)>>]
             h == [r \in SUBSET T |-> v(r)]
  <2>0. \A r \in SUBSET T : r # {} =>
          rest(r) \in SUBSET r /\ rest(r) # r /\ rest(r) # T /\ rest(r) \in SUBSET T
    <3> SUFFICES ASSUME NEW r \in SUBSET T, r # {} PROVE Max(r) \in r
      OBVIOUS
    <3>1. r \in SUBSET (1..n)
      OBVIOUS
    <3> QED
      BY <3>1, MaxMinIn
  <2>1. \A r \in SUBSET T : r # T => IsFold(G(r), F, b, r)
    BY <1>1
  <2> HIDE DEF G
  <2>2. \A r \in SUBSET T : h[r] = v(r)
    OBVIOUS
  <2>3. ASSUME NEW r \in SUBSET T, r # T
        PROVE  h[r] = G(r)[r]
    <3>0. IsFold(G(r), F, b, r)
      BY <2>1, <2>3
    <3>1. G(r)[r] = FoldStep(F, b, G(r), r)
      BY <3>0 DEF IsFold
    <3>2. CASE r = {}
      BY <3>1, <3>2, <2>2 DEF FoldStep
    <3>3. CASE r # {}
      <4> DEFINE q == rest(r)
      <4>1. q \in SUBSET r /\ q # r /\ q # T /\ q \in SUBSET T
        BY <2>0, <3>3
      <4>2. IsFold(G(q), F, b, q)
        BY <2>1, <4>1
      <4>3. G(r)[q] = G(q)[q]
        <5>1. PICK o, p, go, gp : o = r /\ p = q /\ go = G(r) /\ gp = G(q)
          OBVIOUS
        <5>2. IsPlaces(o)
          BY <5>1 DEF IsPlaces
        <5>3. p \in SUBSET o /\ IsFold(go, F, b, o) /\ IsFold(gp, F, b, p)
          BY <3>0, <4>1, <4>2, <5>1
        <5>4. go[p] = gp[p]
          BY ONLY <5>2, <5>3, FoldsUnique
        <5> QED
          BY <5>1, <5>4
      <4> QED
        BY <3>1, <3>3, <2>2, <4>3 DEF FoldStep
    <3> QED
      BY <3>2, <3>3
  <2>4. ASSUME NEW r \in SUBSET T PROVE v(r) = FoldStep(F, b, h, r)
    <3>1. CASE r = {}
      BY <3>1 DEF FoldStep
    <3>2. CASE r # {}
      <4>1. rest(r) \in SUBSET T /\ rest(r) # T
        BY <2>0, <3>2
      <4>2. h[rest(r)] = G(rest(r))[rest(r)]
        BY <4>1, <2>3
      <4> QED
        BY <3>2, <4>2 DEF FoldStep
    <3> QED
      BY <3>1, <3>2
  <2>5. IsFold(h, F, b, T)
    BY <2>4 DEF IsFold
  <2> QED
    BY <2>5
<1> HIDE DEF Q, S
<1>2. S \in Q
  BY <1>0, <1>1, SubsetInduction
<1> QED
  BY <1>2 DEF Q, S

\* The values of a fold, when every step keeps to X.
LEMMA FoldsTyped ==
  ASSUME NEW n \in Nat, NEW X, NEW b \in X, NEW F, F \in [X \X (1..n) -> X],
         NEW g, IsFold(g, F, b, 1..n)
  PROVE  \A s \in SUBSET (1..n) : g[s] \in X
<1> DEFINE Q == {s \in SUBSET (1..n) : g[s] \in X}
<1>1. IsFiniteSet(1..n)
  BY FS_Interval
<1>2. ASSUME NEW s \in SUBSET (1..n), \A r \in SUBSET s : r # s => r \in Q
      PROVE  s \in Q
  <2>1. g[s] = FoldStep(F, b, g, s)
    BY DEF IsFold
  <2>2. CASE s = {}
    BY <2>1, <2>2 DEF FoldStep
  <2>3. CASE s # {}
    <3>1. Max(s) \in s
      BY <2>3, MaxMinIn
    <3>2. s \ {Max(s)} \in Q
      BY <1>2, <3>1
    <3> DEFINE p == <<g[s \ {Max(s)}], Max(s)>>
    <3>3. p \in X \X (1..n)
      BY <3>1, <3>2
    <3>4. F[p] \in X
      <4> HIDE DEF p
      <4> QED
        BY <3>3
    <3> QED
      BY <2>1, <2>3, <3>4 DEF FoldStep
  <2> QED
    BY <2>2, <2>3
<1> HIDE DEF Q
<1>3. \A s \in SUBSET (1..n) : s \in Q
  BY <1>1, <1>2, SubsetInduction
<1> QED
  BY <1>3 DEF Q

-----------------------------------------------------------------------------
(* The three folds of aggregateStatus *)

\* The step of each: the value so far, and the next snapshot.
MaxStep(m, e) == IF e.last_connected_at > m THEN e.last_connected_at ELSE m
SumStep(m, e) == m + e.reconnect_attempts
BestStep(m, e) ==
  IF e.last_connected_at # Never /\ e.last_connected_at >= m.last_connected_at THEN e ELSE m

IsMax(g, list) ==
  g = [s \in SUBSET (DOMAIN list) |->
         IF s = {} THEN Never ELSE MaxStep(g[s \ {Max(s)}], list[Max(s)])]
IsTotal(g, list) ==
  g = [s \in SUBSET (DOMAIN list) |->
         IF s = {} THEN 0 ELSE SumStep(g[s \ {Max(s)}], list[Max(s)])]
IsBest(g, first, list) ==
  g = [s \in SUBSET (DOMAIN list) |->
         IF s = {} THEN first ELSE BestStep(g[s \ {Max(s)}], list[Max(s)])]

Attempts(list) == FoldLeft(LAMBDA n, e : n + e.reconnect_attempts, 0, list)

\* The definition of the library, unfolded.
LEMMA Unfolded ==
  ASSUME NEW list
  PROVE  /\ MaxLastConnectedAt(list) = (CHOOSE g : IsMax(g, list))[DOMAIN list]
         /\ Attempts(list) = (CHOOSE g : IsTotal(g, list))[DOMAIN list]
         /\ MostRecentlyConnected(list) =
              (CHOOSE g : IsBest(g, Head(list), Tail(list)))[DOMAIN Tail(list)]
<1>1. MaxLastConnectedAt(list) = (CHOOSE g : IsMax(g, list))[DOMAIN list]
  BY DEF MaxLastConnectedAt, FoldLeft, MapThenFoldSet, IsMax, MaxStep
<1>2. Attempts(list) = (CHOOSE g : IsTotal(g, list))[DOMAIN list]
  BY DEF Attempts, FoldLeft, MapThenFoldSet, IsTotal, SumStep
<1>3. MostRecentlyConnected(list) =
        (CHOOSE g : IsBest(g, Head(list), Tail(list)))[DOMAIN Tail(list)]
  BY DEF MostRecentlyConnected, FoldLeft, MapThenFoldSet, IsBest, BestStep
<1> QED
  BY <1>1, <1>2, <1>3

\* What a snapshot holds.
LEMMA StatusFields ==
  ASSUME NEW e \in Statuses
  PROVE  /\ e.server_url \in Urls
         /\ e.connected \in BOOLEAN /\ e.last_error \in BOOLEAN
         /\ e.last_connected_at \in Int /\ e.last_connected_at >= Never
         /\ e.last_connected_at \in {Never} \cup 0..MaxSecond
         /\ e.reconnect_attempts \in Nat
BY ClientAssumption DEF Statuses, Never

\* Each is defined by its steps along the list.
LEMMA MaxAlong ==
  ASSUME NEW list \in Seq(Statuses)
  PROVE  \E g : /\ g[0] = Never
                /\ \A m \in 0..(Len(list) - 1) : g[m + 1] = MaxStep(g[m], list[m + 1])
                /\ MaxLastConnectedAt(list) = g[Len(list)]
<1> DEFINE n == Len(list)
           F == [p \in Int \X (1..n) |-> MaxStep(p[1], list[p[2]])]
<1>0. n \in Nat /\ DOMAIN list = 1..n /\ Never \in Int
  BY DEF Never
<1>1. \A k \in 1..n : list[k] \in Statuses /\ list[k].last_connected_at \in Int
  BY <1>0, StatusFields
<1>2. F \in [Int \X (1..n) -> Int]
  BY <1>1 DEF MaxStep
<1>3. PICK g : IsFold(g, F, Never, 1..n)
  <2> HIDE DEF F, n
  <2> QED
    BY <1>0, FoldsExist
<1>4. \A s \in SUBSET (1..n) : g[s] \in Int
  <2> HIDE DEF F, n
  <2> QED
    BY <1>0, <1>2, <1>3, FoldsTyped
<1>5. IsMax(g, list)
  <2>1. ASSUME NEW s \in SUBSET (1..n), s # {}
        PROVE  FoldStep(F, Never, g, s) = MaxStep(g[s \ {Max(s)}], list[Max(s)])
    <3>1. g[s \ {Max(s)}] \in Int /\ Max(s) \in 1..n
      BY <1>0, <1>4, <2>1, MaxMinIn
    <3> QED
      BY <2>1, <3>1 DEF FoldStep
  <2>2. \A s \in SUBSET (1..n) : FoldStep(F, Never, g, s) =
          IF s = {} THEN Never ELSE MaxStep(g[s \ {Max(s)}], list[Max(s)])
    BY <2>1 DEF FoldStep
  <2> HIDE DEF F
  <2> QED
    BY <1>0, <1>3, <2>2 DEF IsFold, IsMax
<1> DEFINE G == CHOOSE h : IsMax(h, list)
           H == [m \in 0..n |-> G[1..m]]
<1>6. IsMax(G, list)
  BY <1>5
<1>7. MaxLastConnectedAt(list) = G[1..n]
  BY <1>0, Unfolded
<1> HIDE DEF F, G
<1>8. G[{}] = Never
  BY <1>6 DEF IsMax
<1>9. ASSUME NEW m \in 0..(n - 1)
      PROVE  G[1..(m + 1)] = MaxStep(G[1..m], list[m + 1])
  <2>1. m + 1 \in 1..n /\ (m + 1) - 1 = m /\ 1..(m + 1) \in SUBSET (1..n) /\ 1..(m + 1) # {}
    <3>1. n \in Nat
      BY <1>0
    <3> HIDE DEF n
    <3>2. m + 1 \in 1..n /\ (m + 1) - 1 = m
      BY <3>1
    <3>3. m + 1 \in 1..(m + 1)
      BY <3>1
    <3>4. \A k \in 1..(m + 1) : k \in 1..n
      BY <3>1
    <3> QED
      BY <3>2, <3>3, <3>4
  <2>2. Max(1..(m + 1)) = m + 1 /\ (1..(m + 1)) \ {Max(1..(m + 1))} = 1..m
    BY <1>0, <2>1, LastPlace
  <2> QED
    BY <1>0, <1>6, <2>1, <2>2 DEF IsMax
<1>10. H[0] = Never /\ MaxLastConnectedAt(list) = H[n]
  <2>1. 1..0 = {}
    OBVIOUS
  <2> QED
    BY <1>0, <1>7, <1>8, <2>1
<1>11. \A m \in 0..(n - 1) : H[m + 1] = MaxStep(H[m], list[m + 1])
  <2> SUFFICES ASSUME NEW m \in 0..(n - 1) PROVE H[m + 1] = MaxStep(H[m], list[m + 1])
    OBVIOUS
  <2>1. m \in 0..n /\ m + 1 \in 0..n
    BY <1>0
  <2> QED
    BY <1>9, <2>1
<1> QED
  BY <1>10, <1>11

LEMMA TotalAlong ==
  ASSUME NEW list \in Seq(Statuses)
  PROVE  \E g : /\ g[0] = 0
                /\ \A m \in 0..(Len(list) - 1) : g[m + 1] = SumStep(g[m], list[m + 1])
                /\ Attempts(list) = g[Len(list)]
<1> DEFINE n == Len(list)
           F == [p \in Nat \X (1..n) |-> SumStep(p[1], list[p[2]])]
<1>0. n \in Nat /\ DOMAIN list = 1..n /\ 0 \in Nat
  OBVIOUS
<1>1. \A k \in 1..n : list[k] \in Statuses /\ list[k].reconnect_attempts \in Nat
  BY <1>0, StatusFields
<1>2. F \in [Nat \X (1..n) -> Nat]
  BY <1>1 DEF SumStep
<1>3. PICK g : IsFold(g, F, 0, 1..n)
  <2> HIDE DEF F, n
  <2> QED
    BY <1>0, FoldsExist
<1>4. \A s \in SUBSET (1..n) : g[s] \in Nat
  <2> HIDE DEF F, n
  <2> QED
    BY <1>0, <1>2, <1>3, FoldsTyped
<1>5. IsTotal(g, list)
  <2>1. ASSUME NEW s \in SUBSET (1..n), s # {}
        PROVE  FoldStep(F, 0, g, s) = SumStep(g[s \ {Max(s)}], list[Max(s)])
    <3>1. g[s \ {Max(s)}] \in Nat /\ Max(s) \in 1..n
      BY <1>0, <1>4, <2>1, MaxMinIn
    <3> QED
      BY <2>1, <3>1 DEF FoldStep
  <2>2. \A s \in SUBSET (1..n) : FoldStep(F, 0, g, s) =
          IF s = {} THEN 0 ELSE SumStep(g[s \ {Max(s)}], list[Max(s)])
    BY <2>1 DEF FoldStep
  <2> HIDE DEF F
  <2> QED
    BY <1>0, <1>3, <2>2 DEF IsFold, IsTotal
<1> DEFINE G == CHOOSE h : IsTotal(h, list)
           H == [m \in 0..n |-> G[1..m]]
<1>6. IsTotal(G, list)
  BY <1>5
<1>7. Attempts(list) = G[1..n]
  BY <1>0, Unfolded
<1> HIDE DEF F, G
<1>8. G[{}] = 0
  BY <1>6 DEF IsTotal
<1>9. ASSUME NEW m \in 0..(n - 1)
      PROVE  G[1..(m + 1)] = SumStep(G[1..m], list[m + 1])
  <2>1. m + 1 \in 1..n /\ (m + 1) - 1 = m /\ 1..(m + 1) \in SUBSET (1..n) /\ 1..(m + 1) # {}
    <3>1. n \in Nat
      BY <1>0
    <3> HIDE DEF n
    <3>2. m + 1 \in 1..n /\ (m + 1) - 1 = m
      BY <3>1
    <3>3. m + 1 \in 1..(m + 1)
      BY <3>1
    <3>4. \A k \in 1..(m + 1) : k \in 1..n
      BY <3>1
    <3> QED
      BY <3>2, <3>3, <3>4
  <2>2. Max(1..(m + 1)) = m + 1 /\ (1..(m + 1)) \ {Max(1..(m + 1))} = 1..m
    BY <1>0, <2>1, LastPlace
  <2> QED
    BY <1>0, <1>6, <2>1, <2>2 DEF IsTotal
<1>10. H[0] = 0 /\ Attempts(list) = H[n]
  <2>1. 1..0 = {}
    OBVIOUS
  <2> QED
    BY <1>0, <1>7, <1>8, <2>1
<1>11. \A m \in 0..(n - 1) : H[m + 1] = SumStep(H[m], list[m + 1])
  <2> SUFFICES ASSUME NEW m \in 0..(n - 1) PROVE H[m + 1] = SumStep(H[m], list[m + 1])
    OBVIOUS
  <2>1. m \in 0..n /\ m + 1 \in 0..n
    BY <1>0
  <2> QED
    BY <1>9, <2>1
<1> QED
  BY <1>10, <1>11

LEMMA BestAlong ==
  ASSUME NEW all \in Seq(Statuses), all # <<>>
  PROVE  \E g : /\ g[0] = Head(all)
                /\ \A m \in 0..(Len(Tail(all)) - 1) : g[m + 1] = BestStep(g[m], Tail(all)[m + 1])
                /\ MostRecentlyConnected(all) = g[Len(Tail(all))]
<1>p. PICK first, list : first = Head(all) /\ list = Tail(all)
  OBVIOUS
<1> DEFINE n == Len(list)
           F == [p \in Statuses \X (1..n) |-> BestStep(p[1], list[p[2]])]
<1>0. n \in Nat /\ DOMAIN list = 1..n /\ first \in Statuses /\ list \in Seq(Statuses)
  BY <1>p
<1>1. \A k \in 1..n : list[k] \in Statuses
  BY <1>0
<1>2. F \in [Statuses \X (1..n) -> Statuses]
  BY <1>1 DEF BestStep
<1>3. PICK g : IsFold(g, F, first, 1..n)
  <2> HIDE DEF F, n
  <2> QED
    BY <1>0, FoldsExist
<1>4. \A s \in SUBSET (1..n) : g[s] \in Statuses
  <2> HIDE DEF F, n
  <2> QED
    BY <1>0, <1>2, <1>3, FoldsTyped
<1>5. IsBest(g, first, list)
  <2>1. ASSUME NEW s \in SUBSET (1..n), s # {}
        PROVE  FoldStep(F, first, g, s) = BestStep(g[s \ {Max(s)}], list[Max(s)])
    <3>1. g[s \ {Max(s)}] \in Statuses /\ Max(s) \in 1..n
      BY <1>0, <1>4, <2>1, MaxMinIn
    <3> QED
      BY <2>1, <3>1 DEF FoldStep
  <2>2. \A s \in SUBSET (1..n) : FoldStep(F, first, g, s) =
          IF s = {} THEN first ELSE BestStep(g[s \ {Max(s)}], list[Max(s)])
    BY <2>1 DEF FoldStep
  <2> HIDE DEF F
  <2> QED
    BY <1>0, <1>3, <2>2 DEF IsFold, IsBest
<1> DEFINE G == CHOOSE h : IsBest(h, first, list)
           H == [m \in 0..n |-> G[1..m]]
<1>6. IsBest(G, first, list)
  BY <1>5
<1>7. MostRecentlyConnected(all) = G[1..n]
  BY <1>0, <1>p, Unfolded
<1> HIDE DEF F, G
<1>8. G[{}] = first
  BY <1>6 DEF IsBest
<1>9. ASSUME NEW m \in 0..(n - 1)
      PROVE  G[1..(m + 1)] = BestStep(G[1..m], list[m + 1])
  <2>1. m + 1 \in 1..n /\ (m + 1) - 1 = m /\ 1..(m + 1) \in SUBSET (1..n) /\ 1..(m + 1) # {}
    <3>1. n \in Nat
      BY <1>0
    <3> HIDE DEF n
    <3>2. m + 1 \in 1..n /\ (m + 1) - 1 = m
      BY <3>1
    <3>3. m + 1 \in 1..(m + 1)
      BY <3>1
    <3>4. \A k \in 1..(m + 1) : k \in 1..n
      BY <3>1
    <3> QED
      BY <3>2, <3>3, <3>4
  <2>2. Max(1..(m + 1)) = m + 1 /\ (1..(m + 1)) \ {Max(1..(m + 1))} = 1..m
    BY <1>0, <2>1, LastPlace
  <2> QED
    BY <1>0, <1>6, <2>1, <2>2 DEF IsBest
<1>10. H[0] = first /\ MostRecentlyConnected(all) = H[n]
  <2>1. 1..0 = {}
    OBVIOUS
  <2> QED
    BY <1>0, <1>7, <1>8, <2>1
<1>11. \A m \in 0..(n - 1) : H[m + 1] = BestStep(H[m], list[m + 1])
  <2> SUFFICES ASSUME NEW m \in 0..(n - 1) PROVE H[m + 1] = BestStep(H[m], list[m + 1])
    OBVIOUS
  <2>1. m \in 0..n /\ m + 1 \in 0..n
    BY <1>0
  <2> QED
    BY <1>9, <2>1
<1> QED
  BY <1>p, <1>10, <1>11

\* The maximum is that of the clock readings in the list.
LEMMA MaxIs ==
  ASSUME NEW list \in Seq(Statuses), list # <<>>
  PROVE  /\ \E k \in DOMAIN list : MaxLastConnectedAt(list) = list[k].last_connected_at
         /\ \A k \in DOMAIN list : list[k].last_connected_at <= MaxLastConnectedAt(list)
<1>1. PICK g : /\ g[0] = Never
               /\ \A m \in 0..(Len(list) - 1) : g[m + 1] = MaxStep(g[m], list[m + 1])
               /\ MaxLastConnectedAt(list) = g[Len(list)]
  BY MaxAlong
<1> DEFINE n == Len(list)
           at(k) == list[k].last_connected_at
           Q == {m \in 0..n : /\ g[m] \in Int /\ g[m] >= Never
                              /\ g[m] = Never \/ \E k \in 1..m : g[m] = at(k)
                              /\ \A k \in 1..m : at(k) <= g[m]}
<1>2. n \in Nat /\ n >= 1 /\ DOMAIN list = 1..n
  OBVIOUS
<1>3. \A k \in 1..n : at(k) \in Int /\ at(k) >= Never
  BY <1>2, StatusFields
<1>4. \A m \in 0..(n - 1) : g[m + 1] = IF at(m + 1) > g[m] THEN at(m + 1) ELSE g[m]
  BY <1>1 DEF MaxStep
<1> HIDE DEF n, at
<1>5. 0 \in Q
  BY <1>1, <1>2 DEF Never
<1>6. ASSUME NEW m \in 0..(n - 1), m \in Q PROVE m + 1 \in Q
  <2>1. m + 1 \in 1..n /\ m + 1 \in 0..n /\ \A k \in 1..(m + 1) : k = m + 1 \/ k \in 1..m
    BY <1>2
  <2>2. at(m + 1) \in Int /\ at(m + 1) >= Never
    BY <1>3, <2>1
  <2>3. /\ g[m] \in Int /\ g[m] >= Never
        /\ g[m] = Never \/ \E k \in 1..m : g[m] = at(k)
        /\ \A k \in 1..m : at(k) <= g[m]
    BY <1>6
  <2>4. g[m + 1] = IF at(m + 1) > g[m] THEN at(m + 1) ELSE g[m]
    BY <1>4
  <2>5. \A k \in 1..m : at(k) \in Int /\ k \in 1..(m + 1)
    BY <1>2, <1>3
  <2>6. m + 1 \in 1..(m + 1)
    BY <1>2
  <2>7. CASE at(m + 1) > g[m]
    <3>1. g[m + 1] = at(m + 1)
      BY <2>4, <2>7
    <3>2. \A k \in 1..(m + 1) : at(k) <= g[m + 1]
      BY <2>1, <2>2, <2>3, <2>5, <2>7, <3>1
    <3> QED
      BY <2>1, <2>2, <2>6, <3>1, <3>2
  <2>8. CASE ~(at(m + 1) > g[m])
    <3>1. g[m + 1] = g[m]
      BY <2>4, <2>8
    <3>2. \A k \in 1..(m + 1) : at(k) <= g[m + 1]
      BY <2>1, <2>2, <2>3, <2>5, <2>8, <3>1
    <3> QED
      BY <2>1, <2>3, <2>5, <3>1, <3>2
  <2> QED
    BY <2>7, <2>8
<1> DEFINE R == Q
<1> HIDE DEF R
<1>7. \A m \in 0..n : m \in R
  BY <1>2, <1>5, <1>6, PrefixInduction DEF R
<1>8. n \in Q
  BY <1>2, <1>7 DEF R
<1>9. g[n] \in Int /\ g[n] >= Never /\ \A k \in 1..n : at(k) <= g[n]
  BY <1>8
<1>10. \E k \in 1..n : g[n] = at(k)
  <2>1. CASE g[n] = Never
    <3>1. 1 \in 1..n
      BY <1>2
    <3>2. at(1) = Never
      BY <1>3, <1>9, <2>1, <3>1 DEF Never
    <3> QED
      BY <2>1, <3>1, <3>2
  <2>2. CASE g[n] # Never
    BY <1>8, <2>2
  <2> QED
    BY <2>1, <2>2
<1> QED
  BY <1>1, <1>2, <1>9, <1>10 DEF n, at

\* The attempts add up to a natural number.
LEMMA TotalIs ==
  ASSUME NEW list \in Seq(Statuses)
  PROVE  Attempts(list) \in Nat
<1>1. PICK g : /\ g[0] = 0
               /\ \A m \in 0..(Len(list) - 1) : g[m + 1] = SumStep(g[m], list[m + 1])
               /\ Attempts(list) = g[Len(list)]
  BY TotalAlong
<1> DEFINE n == Len(list)
           Q == {m \in 0..n : g[m] \in Nat}
<1>2. n \in Nat /\ DOMAIN list = 1..n
  OBVIOUS
<1>3. \A k \in 1..n : list[k].reconnect_attempts \in Nat
  BY <1>2, StatusFields
<1>4. \A m \in 0..(n - 1) : g[m + 1] = g[m] + list[m + 1].reconnect_attempts
  BY <1>1 DEF SumStep
<1> HIDE DEF n
<1>5. 0 \in Q
  BY <1>1, <1>2
<1>6. ASSUME NEW m \in 0..(n - 1), m \in Q PROVE m + 1 \in Q
  <2>1. m + 1 \in 1..n /\ m + 1 \in 0..n
    BY <1>2
  <2> QED
    BY <1>3, <1>4, <1>6, <2>1
<1> HIDE DEF Q
<1>7. \A m \in 0..n : m \in Q
  BY <1>2, <1>5, <1>6, PrefixInduction
<1> QED
  BY <1>1, <1>2, <1>7 DEF Q, n

\* The endpoint connected last is one of the list, and none was connected
\* after it.
LEMMA BestIs ==
  ASSUME NEW list \in Seq(Statuses), list # <<>>
  PROVE  \E k \in DOMAIN list :
           /\ MostRecentlyConnected(list) = list[k]
           /\ \A j \in DOMAIN list : list[j].last_connected_at <= list[k].last_connected_at
<1> DEFINE n == Len(Tail(list))
           at(k) == list[k].last_connected_at
<1>1. PICK g : /\ g[0] = Head(list)
               /\ \A m \in 0..(n - 1) : g[m + 1] = BestStep(g[m], Tail(list)[m + 1])
               /\ MostRecentlyConnected(list) = g[n]
  BY BestAlong
<1>2. /\ n \in Nat /\ DOMAIN list = 1..(n + 1)
      /\ Head(list) = list[1]
      /\ \A m \in 0..(n - 1) : Tail(list)[m + 1] = list[m + 2]
  OBVIOUS
<1>3. \A k \in 1..(n + 1) : at(k) \in Int /\ at(k) >= Never
  BY <1>2, StatusFields
<1> DEFINE Q == {m \in 0..n : \E k \in 1..(m + 1) :
                   g[m] = list[k] /\ \A j \in 1..(m + 1) : at(j) <= at(k)}
<1>4. \A m \in 0..(n - 1) : g[m + 1] = BestStep(g[m], list[m + 2])
  BY <1>1, <1>2
<1> HIDE DEF n
<1>5. 0 \in Q
  <2>1. 1 \in 1..(0 + 1) /\ \A j \in 1..(0 + 1) : j = 1
    OBVIOUS
  <2>2. g[0] = list[1] /\ at(1) <= at(1) /\ 0 \in 0..n
    BY <1>1, <1>2, <1>3
  <2> HIDE DEF at
  <2> QED
    BY <2>1, <2>2
<1>6. ASSUME NEW m \in 0..(n - 1), m \in Q PROVE m + 1 \in Q
  <2>0. m \in Nat /\ m + 1 \in 0..n /\ (m + 1) + 1 = m + 2 /\ m + 2 \in 1..(n + 1)
    BY <1>2
  <2>1. PICK k \in 1..(m + 1) : g[m] = list[k] /\ \A j \in 1..(m + 1) : at(j) <= at(k)
    BY <1>6
  <2>2. k \in 1..(n + 1) /\ k \in 1..(m + 2) /\ m + 2 \in 1..(m + 2)
    BY <1>2, <2>0
  <2>3. \A j \in 1..(m + 2) : j \in 1..(n + 1) /\ (j = m + 2 \/ j \in 1..(m + 1))
    BY <1>2, <2>0
  <2>4. g[m + 1] = IF at(m + 2) # Never /\ at(m + 2) >= at(k) THEN list[m + 2] ELSE list[k]
    BY <1>4, <2>1 DEF BestStep
  <2> HIDE DEF at
  <2>5. at(k) \in Int /\ at(k) >= Never /\ at(m + 2) \in Int /\ at(m + 2) >= Never
    BY <1>3, <2>0, <2>2
  <2>6. \E i \in 1..(m + 2) : g[m + 1] = list[i] /\ \A j \in 1..(m + 2) : at(j) <= at(i)
    <3>1. CASE at(m + 2) # Never /\ at(m + 2) >= at(k)
      <4>1. \A j \in 1..(m + 2) : at(j) <= at(m + 2)
        BY <1>3, <2>1, <2>3, <2>5, <3>1
      <4> QED
        BY <2>2, <2>4, <3>1, <4>1
    <3>2. CASE ~(at(m + 2) # Never /\ at(m + 2) >= at(k))
      <4>1. at(m + 2) <= at(k)
        BY <2>5, <3>2 DEF Never
      <4>2. \A j \in 1..(m + 2) : at(j) <= at(k)
        BY <2>1, <2>3, <4>1
      <4> QED
        BY <2>2, <2>4, <3>2, <4>2
    <3> QED
      BY <3>1, <3>2
  <2> QED
    BY <2>0, <2>6
<1> HIDE DEF Q, at
<1>7. \A m \in 0..n : m \in Q
  BY <1>2, <1>5, <1>6, PrefixInduction
<1>8. n \in Q
  BY <1>2, <1>7
<1> QED
  BY <1>1, <1>2, <1>8 DEF Q, at

-----------------------------------------------------------------------------
(* What aggregateStatus computes *)

UpIn(list) == {k \in DOMAIN list : list[k].connected}

LatestIn(list) == {k \in DOMAIN list : \A j \in DOMAIN list :
                     list[j].last_connected_at <= list[k].last_connected_at}

ShownIn(list) == IF UpIn(list) # {} THEN UpIn(list) ELSE LatestIn(list)

\* The representative is an endpoint that is up, if one is, else one of those
\* connected last.
LEMMA RepresentativeIs ==
  ASSUME NEW list \in Seq(Statuses), list # <<>>
  PROVE  \E k \in ShownIn(list) : Representative(list) = list[k]
<1>1. CASE UpIn(list) # {}
  <2> DEFINE n == Len(list)
             up == UpIn(list)
  <2>1. n \in Nat /\ up \in SUBSET (1..n) /\ up # {}
    BY <1>1 DEF UpIn
  <2>2. Representative(list) = list[Min(up)]
    BY <1>1 DEF Representative, UpIn
  <2> HIDE DEF n, up
  <2>3. Min(up) \in up
    BY <2>1, MaxMinIn
  <2> QED
    BY <1>1, <2>2, <2>3 DEF ShownIn, up
<1>2. CASE UpIn(list) = {}
  <2>1. Representative(list) = MostRecentlyConnected(list)
    BY <1>2 DEF Representative, UpIn
  <2>2. \E k \in LatestIn(list) : MostRecentlyConnected(list) = list[k]
    BY BestIs DEF LatestIn
  <2> QED
    BY <1>2, <2>1, <2>2 DEF ShownIn
<1> QED
  BY <1>1, <1>2

\* The clock reading that is told is that of every endpoint connected last, and
\* there is one.
LEMMA LatestIs ==
  ASSUME NEW list \in Seq(Statuses), list # <<>>
  PROVE  /\ LatestIn(list) # {}
         /\ \A k \in LatestIn(list) : MaxLastConnectedAt(list) = list[k].last_connected_at
         /\ MaxLastConnectedAt(list) \in {Never} \cup 0..MaxSecond
         /\ \A k \in DOMAIN list : list[k].last_connected_at <= MaxLastConnectedAt(list)
<1> DEFINE at(k) == list[k].last_connected_at
           max == MaxLastConnectedAt(list)
           D == DOMAIN list
<1>1. \A k \in D : at(k) \in Int /\ at(k) \in {Never} \cup 0..MaxSecond
  BY StatusFields
<1>2. (\E k \in D : max = at(k)) /\ \A k \in D : at(k) <= max
  BY MaxIs
<1>3. LatestIn(list) = {k \in D : \A j \in D : at(j) <= at(k)}
  BY DEF LatestIn
<1> HIDE DEF at, max, D
<1>4. PICK k \in D : max = at(k)
  BY <1>2
<1>5. k \in LatestIn(list)
  BY <1>2, <1>3, <1>4
<1>6. \A j \in LatestIn(list) : max = at(j)
  <2> SUFFICES ASSUME NEW j \in LatestIn(list) PROVE max = at(j)
    OBVIOUS
  <2>1. j \in D /\ at(k) <= at(j) /\ at(j) <= at(k)
    BY <1>2, <1>3, <1>4
  <2> QED
    BY <1>1, <1>4, <2>1
<1>7. max \in {Never} \cup 0..MaxSecond
  BY <1>1, <1>4
<1>8. \A j \in D : at(j) <= max
  BY <1>2
<1> QED
  BY <1>5, <1>6, <1>7, <1>8 DEF at, max, D

\* The fields of the status that is told.
LEMMA AggregateFields ==
  ASSUME NEW list
  PROVE  /\ AggregateStatus(list).connected = (UpIn(list) # {})
         /\ AggregateStatus(list).reconnect_attempts = Attempts(list)
         /\ AggregateStatus(list).hook_base_url =
              IF Representative(list).last_connected_at = Never THEN Absent
              ELSE Representative(list).server_url
         /\ AggregateStatus(list).last_error =
              (~Representative(list).connected /\ Representative(list).last_error)
         /\ AggregateStatus(list).last_connected_at = MaxLastConnectedAt(list)
         /\ AggregateStatus(list).endpoints = IF Len(list) > 1 THEN list ELSE <<>>
<1> DEFINE rep == Representative(list)
           c == \E k \in DOMAIN list : list[k].connected
           a == Attempts(list)
           h == IF rep.last_connected_at = Never THEN Absent ELSE rep.server_url
           e == ~rep.connected /\ rep.last_error
           m == MaxLastConnectedAt(list)
           s == IF Len(list) > 1 THEN list ELSE <<>>
<1>1. c <=> UpIn(list) # {}
  BY DEF UpIn
<1>2. AggregateStatus(list) =
        [connected |-> c, reconnect_attempts |-> a, hook_base_url |-> h,
         last_error |-> e, last_connected_at |-> m, endpoints |-> s]
  BY DEF AggregateStatus, Attempts
<1> HIDE DEF c, a, h, e, m, s
<1>3. /\ AggregateStatus(list).connected = c
      /\ AggregateStatus(list).reconnect_attempts = a
      /\ AggregateStatus(list).hook_base_url = h
      /\ AggregateStatus(list).last_error = e
      /\ AggregateStatus(list).last_connected_at = m
      /\ AggregateStatus(list).endpoints = s
  BY <1>2
<1> QED
  BY <1>1, <1>3 DEF c, a, h, e, m, s

\* The status that is told has its type.
LEMMA AggregateTyped ==
  ASSUME NEW list \in Seq(Statuses), list # <<>>
  PROVE  /\ AggregateStatus(list).connected \in BOOLEAN
         /\ AggregateStatus(list).last_error \in BOOLEAN
         /\ AggregateStatus(list).reconnect_attempts \in Nat
         /\ AggregateStatus(list).hook_base_url \in Urls \cup {Absent}
         /\ AggregateStatus(list).last_connected_at \in {Never} \cup 0..MaxSecond
         /\ AggregateStatus(list).endpoints \in Seq(Statuses)
<1>1. Representative(list) \in Statuses
  BY RepresentativeIs DEF ShownIn, UpIn, LatestIn
<1>2. /\ Representative(list).server_url \in Urls
      /\ Representative(list).last_error \in BOOLEAN
  BY <1>1, StatusFields
<1>3. AggregateStatus(list).endpoints \in Seq(Statuses)
  <2>1. AggregateStatus(list).endpoints \in {list, <<>>}
    BY AggregateFields
  <2>2. <<>> \in Seq(Statuses)
    OBVIOUS
  <2> QED
    BY <2>1, <2>2
<1>4. AggregateStatus(list).hook_base_url \in Urls \cup {Absent}
  BY <1>2, AggregateFields
<1>5. AggregateStatus(list).connected \in BOOLEAN /\ AggregateStatus(list).last_error \in BOOLEAN
  BY AggregateFields
<1>6. AggregateStatus(list).reconnect_attempts \in Nat
  BY AggregateFields, TotalIs
<1>7. AggregateStatus(list).last_connected_at \in {Never} \cup 0..MaxSecond
  BY AggregateFields, LatestIs
<1> QED
  BY <1>3, <1>4, <1>5, <1>6, <1>7

\* The status that is told is true of the list, if what is up was connected.
LEMMA AggregateTrue ==
  ASSUME NEW list \in Seq(Statuses), list # <<>>,
         \A k \in DOMAIN list : list[k].connected => list[k].last_connected_at # Never
  PROVE  /\ AggregateStatus(list).connected <=> UpIn(list) # {}
         /\ IF AggregateStatus(list).last_connected_at = Never
            THEN AggregateStatus(list).hook_base_url = Absent
            ELSE \E k \in ShownIn(list) :
                   AggregateStatus(list).hook_base_url = list[k].server_url
         /\ AggregateStatus(list).last_error =>
              UpIn(list) = {} /\ \E k \in LatestIn(list) : list[k].last_error
         /\ Len(list) > 1 => AggregateStatus(list).endpoints = list
<1> DEFINE rep == Representative(list)
           max == MaxLastConnectedAt(list)
<1>1. PICK k \in ShownIn(list) : rep = list[k]
  BY RepresentativeIs
<1>2. k \in DOMAIN list /\ rep \in Statuses
  BY <1>1 DEF ShownIn, UpIn, LatestIn
<1>3. rep.last_connected_at \in Int /\ rep.last_connected_at >= Never
  BY <1>2, StatusFields
<1>4. rep.last_connected_at <= max /\ max \in {Never} \cup 0..MaxSecond
  BY <1>1, <1>2, LatestIs
<1>5. max = Never => rep.last_connected_at = Never
  BY <1>3, <1>4 DEF Never
<1>6. max # Never => rep.last_connected_at # Never
  <2>1. CASE UpIn(list) # {}
    BY <1>1, <1>2, <2>1 DEF ShownIn, UpIn
  <2>2. CASE UpIn(list) = {}
    <3>1. k \in LatestIn(list)
      BY <1>1, <2>2 DEF ShownIn
    <3> QED
      BY <1>1, <3>1, LatestIs
  <2> QED
    BY <2>1, <2>2
<1>7. rep.connected <=> UpIn(list) # {}
  BY <1>1, <1>2 DEF ShownIn, UpIn
<1>8. ASSUME AggregateStatus(list).last_error
      PROVE  UpIn(list) = {} /\ \E j \in LatestIn(list) : list[j].last_error
  <2>1. ~rep.connected /\ rep.last_error
    BY <1>8, AggregateFields
  <2>2. UpIn(list) = {}
    BY <1>7, <2>1
  <2> QED
    BY <1>1, <2>1, <2>2 DEF ShownIn
<1>9. IF AggregateStatus(list).last_connected_at = Never
      THEN AggregateStatus(list).hook_base_url = Absent
      ELSE \E j \in ShownIn(list) : AggregateStatus(list).hook_base_url = list[j].server_url
  BY <1>1, <1>5, <1>6, AggregateFields
<1>10. AggregateStatus(list).connected <=> UpIn(list) # {}
  BY AggregateFields
<1>11. Len(list) > 1 => AggregateStatus(list).endpoints = list
  BY AggregateFields
<1> QED
  BY <1>8, <1>9, <1>10, <1>11

-----------------------------------------------------------------------------
(* The inductive invariant of the reports *)

\* Every connection has a URL of its own, and what is known of it, by its place
\* or by its URL, is its last snapshot.
UrlsInv ==
  /\ urls \in Seq(Urls) /\ IsInjective(urls)
  /\ serving \in [DOMAIN urls -> BOOLEAN]
  /\ status \in Seq(Statuses) /\ DOMAIN status = DOMAIN urls
  /\ \A k \in DOMAIN urls : /\ status[k].server_url = urls[k]
                            /\ status[k].connected = serving[k]
                            /\ serving[k] => status[k].last_connected_at # Never
  /\ DOMAIN endpoints = ToSet(urls)
  /\ \A k \in DOMAIN urls : endpoints[urls[k]] = status[k]

\* What was told is the aggregate of those snapshots.
ToldInv ==
  /\ phase = "new" => urls = <<>> /\ told = Absent
  /\ told # Absent => urls # <<>> /\ told = AggregateStatus(status)

\* What is left of the types.
OptsInv ==
  /\ opts \in [serverURL : Urls \cup {EmptyUrl, Absent}, serverURLs : Lists \cup {Absent}]
  /\ phase \in {"new", "rejected", "running", "resolved"}
  /\ aborted \in BOOLEAN
  /\ stopped \in [DOMAIN urls -> BOOLEAN]

ReportsInv == UrlsInv /\ ToldInv /\ OptsInv

LEMMA InitReportsInv == Init => ReportsInv
<1> SUFFICES ASSUME Init PROVE ReportsInv
  OBVIOUS
<1>1. UrlsInv
  BY DEF Init, UrlsInv, IsInjective, ToSet
<1>2. ToldInv
  BY DEF Init, ToldInv
<1>3. OptsInv
  <2>1. stopped \in [DOMAIN urls -> BOOLEAN]
    BY DEF Init
  <2> QED
    BY <2>1 DEF Init, OptsInv
<1> QED
  BY <1>1, <1>2, <1>3 DEF ReportsInv

\* The list that run() takes from valid options is one of different URLs.
LEMMA GivenUrlsAre ==
  ASSUME OptsInv, OptionsAreValid
  PROVE  GivenUrls \in Seq(Urls) /\ GivenUrls # <<>> /\ IsInjective(GivenUrls)
<1>1. GivenUrls # <<>> /\ IsInjective(GivenUrls)
  BY DEF OptionsAreValid
<1>2. GivenUrls \in Seq(Urls \cup {EmptyUrl})
  <2>1. CASE opts.serverURLs # Absent
    <3>1. GivenUrls \in Lists
      BY <2>1 DEF OptsInv, GivenUrls
    <3>2. PICK n \in 0..MaxUrls : GivenUrls \in [1..n -> Urls \cup {EmptyUrl}]
      BY <3>1 DEF Lists
    <3>3. n \in Nat
      BY ClientAssumption
    <3> QED
      BY <3>2, <3>3
  <2>2. CASE opts.serverURLs = Absent
    <3>1. opts.serverURL \in Urls \cup {EmptyUrl}
      BY <2>2 DEF OptsInv, OptionsAreValid
    <3>2. GivenUrls = <<opts.serverURL>>
      BY <2>2 DEF GivenUrls
    <3> QED
      BY <3>1, <3>2
  <2> QED
    BY <2>1, <2>2
<1>3. \A k \in 1..Len(GivenUrls) : GivenUrls[k] # EmptyUrl
  BY DEF OptionsAreValid, Contains
<1>4. GivenUrls \in Seq(Urls)
  <2> DEFINE g == GivenUrls
  <2>1. Len(g) \in Nat /\ g \in [1..Len(g) -> Urls \cup {EmptyUrl}]
    BY <1>2
  <2>2. g \in [1..Len(g) -> Urls]
    BY <1>3, <2>1
  <2> HIDE DEF g
  <2>3. g \in Seq(Urls)
    BY <2>1, <2>2
  <2> QED
    BY <2>3 DEF g
<1> QED
  BY <1>1, <1>4

\* run() starts with a snapshot of every connection.
LEMMA RunReports ==
  ASSUME ReportsInv, Run
  PROVE  ReportsInv'
<1> DEFINE g == GivenUrls
<1>1. g \in Seq(Urls) /\ g # <<>> /\ IsInjective(g)
  BY GivenUrlsAre DEF Run, ReportsInv
<1>2. /\ urls' = g
      /\ serving' = [k \in DOMAIN g |-> FALSE]
      /\ status' = [k \in DOMAIN g |-> NewStatus(g[k])]
      /\ stopped' = [k \in DOMAIN g |-> FALSE]
      /\ endpoints' = [url \in ToSet(g) |-> NewStatus(url)]
      /\ opts' = opts /\ aborted' = aborted /\ told' = told
      /\ phase = "new" /\ phase' = "running"
  BY DEF Run
<1> HIDE DEF g
<1>3. \A k \in DOMAIN g : g[k] \in Urls
  BY <1>1
<1>4. \A url \in Urls : /\ NewStatus(url) \in Statuses
                        /\ NewStatus(url).server_url = url
                        /\ NewStatus(url).connected = FALSE
  BY ClientAssumption DEF NewStatus, Statuses
<1>5. status' \in Seq(Statuses) /\ DOMAIN status' = DOMAIN g
  <2> DEFINE n == Len(g)
  <2>1. n \in Nat /\ DOMAIN g = 1..n
    BY <1>1
  <2> HIDE DEF n
  <2>2. status' \in [1..n -> Statuses]
    BY <1>2, <1>3, <1>4, <2>1
  <2> QED
    BY <2>1, <2>2
<1>6. \A k \in DOMAIN g : /\ status'[k].server_url = g[k]
                          /\ status'[k].connected = serving'[k]
                          /\ ~serving'[k]
  BY <1>2, <1>3, <1>4
<1>7. \A k \in DOMAIN g : endpoints'[g[k]] = status'[k]
  BY <1>2 DEF ToSet
<1>8. UrlsInv'
  BY <1>1, <1>2, <1>5, <1>6, <1>7 DEF UrlsInv
<1>9. ToldInv'
  BY <1>2 DEF ToldInv, ReportsInv
<1>10. OptsInv'
  BY <1>2 DEF OptsInv, ReportsInv
<1> QED
  BY <1>8, <1>9, <1>10 DEF ReportsInv

\* A report replaces the snapshot of its connection, by its place and by its
\* URL, and what is told is the aggregate of all of them.
LEMMA ReportKeeps ==
  ASSUME ReportsInv, NEW k \in DOMAIN urls, NEW st \in Statuses,
         st.server_url = urls[k], st.connected => st.last_connected_at # Never,
         Report(k, st), serving' = [serving EXCEPT ![k] = st.connected],
         UNCHANGED <<opts, phase, urls, aborted, stopped>>
  PROVE  ReportsInv'
<1>0. UrlsInv /\ ToldInv /\ OptsInv
  BY DEF ReportsInv
<1>1. /\ status' = [status EXCEPT ![k] = st]
      /\ endpoints' = [endpoints EXCEPT ![urls[k]] = st]
      /\ told' = AggregateStatus([j \in DOMAIN urls |-> endpoints'[urls[j]]])
  BY DEF Report
<1>2. st.connected \in BOOLEAN
  BY StatusFields
<1>3. status' \in Seq(Statuses) /\ DOMAIN status' = DOMAIN urls
  BY <1>0, <1>1 DEF UrlsInv
<1>4. \A j \in DOMAIN urls : status'[j] = IF j = k THEN st ELSE status[j]
  BY <1>0, <1>1 DEF UrlsInv
<1>5. \A j \in DOMAIN urls : urls[j] \in DOMAIN endpoints
  BY <1>0 DEF UrlsInv, ToSet
<1>6. \A j \in DOMAIN urls : endpoints'[urls[j]] = status'[j]
  <2> SUFFICES ASSUME NEW j \in DOMAIN urls PROVE endpoints'[urls[j]] = status'[j]
    OBVIOUS
  <2>1. CASE j = k
    BY <1>1, <1>4, <1>5, <2>1
  <2>2. CASE j # k
    <3>1. urls[j] # urls[k]
      BY <1>0, <2>2 DEF UrlsInv, IsInjective
    <3>2. endpoints[urls[j]] = status[j]
      BY <1>0 DEF UrlsInv
    <3> QED
      BY <1>1, <1>4, <1>5, <2>2, <3>1, <3>2
  <2> QED
    BY <2>1, <2>2
<1>7. \A j \in DOMAIN urls : /\ status'[j].server_url = urls[j]
                             /\ status'[j].connected = serving'[j]
                             /\ serving'[j] => status'[j].last_connected_at # Never
  <2> SUFFICES ASSUME NEW j \in DOMAIN urls
               PROVE  /\ status'[j].server_url = urls[j]
                      /\ status'[j].connected = serving'[j]
                      /\ serving'[j] => status'[j].last_connected_at # Never
    OBVIOUS
  <2>0. serving \in [DOMAIN urls -> BOOLEAN]
    BY <1>0 DEF UrlsInv
  <2>1. CASE j = k
    BY <1>4, <2>0, <2>1
  <2>2. CASE j # k
    BY <1>0, <1>4, <2>0, <2>2 DEF UrlsInv
  <2> QED
    BY <2>1, <2>2
<1>8. serving' \in [DOMAIN urls -> BOOLEAN]
  BY <1>0, <1>2 DEF UrlsInv
<1>9. DOMAIN endpoints' = ToSet(urls)
  BY <1>0, <1>1 DEF UrlsInv
<1>10. UrlsInv'
  <2>1. urls \in Seq(Urls) /\ IsInjective(urls) /\ urls' = urls
    BY <1>0 DEF UrlsInv
  <2> QED
    BY <1>3, <1>6, <1>7, <1>8, <1>9, <2>1 DEF UrlsInv
<1>11. [j \in DOMAIN urls |-> endpoints'[urls[j]]] = status'
  <2>1. status' = [j \in DOMAIN urls |-> status'[j]]
    BY <1>0, <1>1, <1>3
  <2> QED
    BY <1>6, <2>1
<1>12. told' = AggregateStatus(status')
  BY <1>1, <1>11
<1>13. urls # <<>>
  OBVIOUS
<1>14. ToldInv'
  <2>1. phase # "new" /\ phase' = phase /\ urls' = urls
    BY <1>0, <1>13 DEF ToldInv
  <2> QED
    BY <1>12, <1>13, <2>1 DEF ToldInv
<1>15. OptsInv'
  BY <1>0 DEF OptsInv
<1> QED
  BY <1>10, <1>14, <1>15 DEF ReportsInv

LEMMA NextReportsInv == ReportsInv /\ [Next]_vars => ReportsInv'
<1> SUFFICES ASSUME ReportsInv, [Next]_vars PROVE ReportsInv'
  OBVIOUS
<1>0. UrlsInv /\ ToldInv /\ OptsInv
  BY DEF ReportsInv
<1>1. CASE Reject \/ Abort \/ Resolve \/ UNCHANGED vars
  <2>1. /\ urls' = urls /\ told' = told /\ endpoints' = endpoints /\ opts' = opts
        /\ serving' = serving /\ status' = status /\ stopped' = stopped
        /\ phase' = "new" => phase = "new"
        /\ phase' \in {"new", "rejected", "running", "resolved"} /\ aborted' \in BOOLEAN
    BY <1>0, <1>1 DEF Reject, Abort, Resolve, vars, connVars, OptsInv
  <2>2. UrlsInv'
    BY <1>0, <2>1 DEF UrlsInv
  <2>3. ToldInv'
    BY <1>0, <2>1 DEF ToldInv
  <2>4. OptsInv'
    BY <1>0, <2>1 DEF OptsInv
  <2> QED
    BY <2>2, <2>3, <2>4 DEF ReportsInv
<1>2. CASE Run
  BY <1>2, RunReports
<1>3. ASSUME NEW k \in DOMAIN urls, NEW now \in 0..MaxSecond, Connects(k, now)
      PROVE  ReportsInv'
  <2> DEFINE up == Reports!Up(status[k])
             st == [up EXCEPT !.last_connected_at = now]
  <2>1. status[k] \in Statuses /\ status[k].server_url = urls[k]
    BY <1>0 DEF UrlsInv
  <2>2. /\ st \in Statuses /\ st.server_url = urls[k] /\ st.connected = TRUE
        /\ st.last_connected_at # Never
    <3>1. up \in Statuses /\ up.server_url = urls[k] /\ up.connected = TRUE
      BY <2>1 DEF Statuses, Reports!Up
    <3>2. now # Never
      BY ClientAssumption DEF Never
    <3> HIDE DEF up
    <3>3. /\ st \in Statuses /\ st.server_url = up.server_url /\ st.connected = up.connected
          /\ st.last_connected_at = now
      BY <3>1 DEF Statuses
    <3> QED
      BY <3>1, <3>2, <3>3
  <2>3. /\ Report(k, st) /\ serving' = [serving EXCEPT ![k] = TRUE]
        /\ UNCHANGED <<opts, phase, urls, aborted, stopped>>
    BY <1>3 DEF Connects
  <2> HIDE DEF st, up
  <2> QED
    BY <2>2, <2>3, ReportKeeps
<1>4. ASSUME NEW k \in DOMAIN urls, SessionEnds(k)
      PROVE  ReportsInv'
  <2> DEFINE st == Reports!Ended(status[k])
  <2>1. status[k] \in Statuses /\ status[k].server_url = urls[k]
    BY <1>0 DEF UrlsInv
  <2>2. st \in Statuses /\ st.server_url = urls[k] /\ st.connected = FALSE
    BY <2>1 DEF Statuses, Reports!Ended
  <2>3. /\ Report(k, st) /\ serving' = [serving EXCEPT ![k] = FALSE]
        /\ UNCHANGED <<opts, phase, urls, aborted, stopped>>
    BY <1>4 DEF SessionEnds
  <2> HIDE DEF st
  <2> QED
    BY <2>2, <2>3, ReportKeeps
<1>5. ASSUME NEW k \in DOMAIN urls, AttemptFails(k)
      PROVE  ReportsInv'
  <2> DEFINE st == Reports!Failed(status[k])
             n == IF status[k].reconnect_attempts < MaxAttempts
                  THEN status[k].reconnect_attempts + 1 ELSE status[k].reconnect_attempts
  <2>1. status[k] \in Statuses /\ status[k].server_url = urls[k]
    BY <1>0 DEF UrlsInv
  <2>2. n \in 0..MaxAttempts
    BY <2>1, ClientAssumption DEF Statuses
  <2>3. st = [status[k] EXCEPT !.connected = FALSE, !.last_error = TRUE,
                               !.reconnect_attempts = n]
    BY DEF Reports!Failed
  <2>4. /\ Report(k, st) /\ serving' = [serving EXCEPT ![k] = FALSE]
        /\ UNCHANGED <<opts, phase, urls, aborted, stopped>>
    BY <1>5 DEF AttemptFails
  <2> HIDE DEF st, n
  <2>5. st \in Statuses /\ st.server_url = urls[k] /\ st.connected = FALSE
    BY <2>1, <2>2, <2>3 DEF Statuses
  <2> QED
    BY <2>4, <2>5, ReportKeeps
<1>6. ASSUME NEW k \in DOMAIN urls, Stops(k)
      PROVE  ReportsInv'
  <2>1. /\ urls' = urls /\ told' = told /\ endpoints' = endpoints /\ opts' = opts
        /\ serving' = serving /\ status' = status /\ phase' = phase /\ aborted' = aborted
        /\ stopped' = [stopped EXCEPT ![k] = TRUE]
    BY <1>6 DEF Stops
  <2>2. UrlsInv'
    BY <1>0, <2>1 DEF UrlsInv
  <2>3. ToldInv'
    BY <1>0, <2>1 DEF ToldInv
  <2>4. OptsInv'
    BY <1>0, <2>1 DEF OptsInv
  <2> QED
    BY <2>2, <2>3, <2>4 DEF ReportsInv
<1> QED
  BY <1>1, <1>2, <1>3, <1>4, <1>5, <1>6 DEF Next

\* The state of every connection, and what is told of it, has its type.
THEOREM TypesHold == Spec => []TypeOK
<1>1. Spec => []ReportsInv
  BY InitReportsInv, NextReportsInv, PTL DEF Spec
<1>2. ReportsInv => TypeOK
  <2> SUFFICES ASSUME ReportsInv PROVE TypeOK
    OBVIOUS
  <2>0. UrlsInv /\ ToldInv /\ OptsInv
    BY DEF ReportsInv
  <2>1. /\ urls \in Seq(Urls) /\ DOMAIN urls = 1..Len(urls)
        /\ status \in Seq(Statuses) /\ DOMAIN status = DOMAIN urls
        /\ serving \in [1..Len(urls) -> BOOLEAN]
    BY <2>0 DEF UrlsInv
  <2>2. status \in [1..Len(urls) -> Statuses]
    BY <2>1
  <2>3. /\ phase \in {"new", "rejected", "running", "resolved"}
        /\ aborted \in BOOLEAN /\ stopped \in [1..Len(urls) -> BOOLEAN]
    BY <2>0, <2>1 DEF OptsInv
  <2>4. \A url \in DOMAIN endpoints : endpoints[url] \in Statuses
    <3> SUFFICES ASSUME NEW url \in DOMAIN endpoints PROVE endpoints[url] \in Statuses
      OBVIOUS
    <3>1. PICK k \in DOMAIN urls : url = urls[k]
      BY <2>0 DEF UrlsInv, ToSet
    <3> QED
      BY <2>0, <2>1, <2>2, <3>1 DEF UrlsInv
  <2>5. ASSUME told # Absent
        PROVE  /\ told.connected \in BOOLEAN
               /\ told.last_error \in BOOLEAN
               /\ told.reconnect_attempts \in Nat
               /\ told.hook_base_url \in Urls \cup {Absent}
               /\ told.last_connected_at \in {Never} \cup 0..MaxSecond
               /\ told.endpoints \in Seq(Statuses)
    <3>1. told = AggregateStatus(status) /\ urls # <<>>
      BY <2>0, <2>5 DEF ToldInv
    <3>2. status \in Seq(Statuses) /\ status # <<>>
      BY <2>1, <3>1
    <3> QED
      BY <3>1, <3>2, AggregateTyped
  <2> QED
    BY <2>1, <2>2, <2>3, <2>4, <2>5 DEF TypeOK
<1> QED
  BY <1>1, <1>2, PTL

\* What the consumer was last told is true of all the connections, for any
\* number of them and any clock.
THEOREM ToldTheTruthHolds == Spec => []ToldTheTruth
<1>1. Spec => []ReportsInv
  BY InitReportsInv, NextReportsInv, PTL DEF Spec
<1>2. ReportsInv => ToldTheTruth
  <2> DEFINE up == {k \in DOMAIN status : serving[k]}
             latest == {k \in DOMAIN status : \A j \in DOMAIN status :
                          status[j].last_connected_at <= status[k].last_connected_at}
             shown == IF up # {} THEN up ELSE latest
  <2> SUFFICES ASSUME ReportsInv, told # Absent
               PROVE  /\ told.connected <=> up # {}
                      /\ IF told.last_connected_at = Never
                         THEN told.hook_base_url = Absent
                         ELSE told.hook_base_url \in {urls[k] : k \in shown}
                      /\ told.last_connected_at =
                           status[CHOOSE k \in latest : TRUE].last_connected_at
                      /\ told.last_error => up = {} /\ \E k \in latest : status[k].last_error
                      /\ Len(urls) > 1 => told.endpoints = status
    BY DEF ToldTheTruth
  <2>0. UrlsInv /\ ToldInv
    BY DEF ReportsInv
  <2>1. /\ urls \in Seq(Urls) /\ status \in Seq(Statuses) /\ DOMAIN status = DOMAIN urls
        /\ told = AggregateStatus(status) /\ urls # <<>>
    BY <2>0 DEF UrlsInv, ToldInv
  <2>2. status # <<>> /\ Len(status) = Len(urls)
    BY <2>1
  <2>3. /\ up = UpIn(status) /\ latest = LatestIn(status) /\ shown = ShownIn(status)
    BY <2>0, <2>1 DEF UrlsInv, UpIn, LatestIn, ShownIn
  <2>4. \A k \in DOMAIN status : /\ status[k].connected => status[k].last_connected_at # Never
                                 /\ status[k].server_url = urls[k]
    BY <2>0, <2>1 DEF UrlsInv
  <2>5. \A k \in ShownIn(status) : k \in DOMAIN status
    BY DEF ShownIn, UpIn, LatestIn
  <2>6. told.last_connected_at = MaxLastConnectedAt(status)
    BY <2>1, AggregateFields
  <2> HIDE DEF up, latest, shown
  <2>7. (CHOOSE k \in latest : TRUE) \in latest
    BY <2>1, <2>2, <2>3, LatestIs
  <2>8. told.last_connected_at = status[CHOOSE k \in latest : TRUE].last_connected_at
    BY <2>1, <2>2, <2>3, <2>6, <2>7, LatestIs
  <2>9. /\ told.connected <=> UpIn(status) # {}
        /\ IF told.last_connected_at = Never
           THEN told.hook_base_url = Absent
           ELSE \E k \in ShownIn(status) : told.hook_base_url = status[k].server_url
        /\ told.last_error =>
             UpIn(status) = {} /\ \E k \in LatestIn(status) : status[k].last_error
        /\ Len(status) > 1 => told.endpoints = status
    BY <2>1, <2>2, <2>4, AggregateTrue
  <2>10. IF told.last_connected_at = Never
         THEN told.hook_base_url = Absent
         ELSE told.hook_base_url \in {urls[k] : k \in shown}
    BY <2>3, <2>4, <2>5, <2>9
  <2> QED
    BY <2>2, <2>3, <2>8, <2>9, <2>10
<1> QED
  BY <1>1, <1>2, PTL

=============================================================================
