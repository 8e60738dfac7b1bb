---------------------------- MODULE Stacking_proofs ----------------------------
(***************************************************************************)
(* The stacking order, for every number of windows, icons and levels.      *)
(*                                                                         *)
(* The lists of stacking.c spell an order o: o[f] are the frames before f  *)
(* on its level.  Linked says that links and tops are those of o, OnDesk   *)
(* that the X server shows o as well.  o is no variable: that there is one *)
(* is the invariant, StackInv, and every action is shown to turn one into  *)
(* the next.                                                               *)
(*                                                                         *)
(* First come walks along pointers (Met) and orders of finite sets; then   *)
(* what unlinking and linking do to o, and what the requests to the server *)
(* do to its order; then the operations of stacking.c, of which raising is *)
(* a loop with an invariant of its own (RaiseInv) and a measure (Progress) *)
(* that ends it; then the actions, and the theorems.                       *)
(***************************************************************************)
EXTENDS Stacking, FiniteSetTheorems, WellFoundedInduction, TLAPS
-----------------------------------------------------------------------------
(* Walks along pointers *)

\* A nonempty set of numbers has a least one.
LEMMA LeastNumber ==
  ASSUME NEW S \in SUBSET Nat, S # {}
  PROVE  \E k \in S : \A j \in S : k <= j
<1>1. PICK k \in S : \A j \in S : ~ (<<j, k>> \in OpToRel(<, Nat))
  BY WFMin, NatLessThanWellFounded
<1>2. \A j \in S : ~(j < k)
  BY <1>1 DEF OpToRel
<1>3. QED
  BY <1>2

\* What holds of 0 and passes from each number to the next holds of all.
LEMMA Induction ==
  ASSUME NEW S \in SUBSET Nat, 0 \in S, \A n \in S : n + 1 \in S
  PROVE  S = Nat
<1> DEFINE T == Nat \ S
<1>1. SUFFICES ASSUME T # {} PROVE FALSE
  OBVIOUS
<1>2. PICK k \in T : \A j \in T : k <= j
  BY <1>1, LeastNumber
<1>3. k # 0 /\ k - 1 \in Nat
  BY <1>2
<1>4. k - 1 \in S
  BY <1>2, <1>3
<1>5. QED
  BY <1>2, <1>3, <1>4

\* Following a pointer again and again.
Iterate(step, a) == CHOOSE w : w = [n \in Nat |-> IF n = 0 THEN a ELSE step[w[n - 1]]]

IsWalk(w, S, step, a) == w \in [Nat -> S] /\ w[0] = a /\ \A n \in Nat : w[n + 1] = step[w[n]]

\* The sequence of iterates exists.
LEMMA IterateExists ==
  ASSUME NEW S, NEW step \in [S -> S], NEW a \in S
  PROVE  IsWalk(Iterate(step, a), S, step, a)
<1> DEFINE Part(m, w) == /\ w \in [0..m -> S] /\ w[0] = a
                         /\ \A i \in 0..m : i # 0 => w[i] = step[w[i - 1]]
           T == {m \in Nat : \E w : Part(m, w)}
<1>1. 0 \in T
  <2>1. Part(0, [i \in 0..0 |-> a])
    OBVIOUS
  <2>2. QED
    BY <2>1
<1>2. ASSUME NEW m \in T PROVE m + 1 \in T
  <2>1. PICK w : Part(m, w)
    OBVIOUS
  <2> DEFINE v == [i \in 0..(m + 1) |-> IF i = m + 1 THEN step[w[m]] ELSE w[i]]
  <2>2. v \in [0..(m + 1) -> S] /\ v[0] = a
    BY <2>1
  <2>3. ASSUME NEW i \in 0..(m + 1), i # 0 PROVE v[i] = step[v[i - 1]]
    <3>1. CASE i = m + 1
      BY <2>1, <3>1
    <3>2. CASE i # m + 1
      <4>1. i \in 0..m /\ i - 1 \in 0..m /\ i - 1 # m + 1
        BY <2>3, <3>2
      <4>2. v[i] = w[i] /\ v[i - 1] = w[i - 1]
        BY <3>2, <4>1
      <4>3. QED
        BY <2>1, <2>3, <4>1, <4>2
    <3>3. QED
      BY <3>1, <3>2
  <2>4. Part(m + 1, v)
    BY <2>2, <2>3
  <2> HIDE DEF v, Part
  <2>5. QED
    BY <2>4
<1>3. T = Nat
  <2>1. T \in SUBSET Nat
    OBVIOUS
  <2> HIDE DEF T
  <2>2. QED
    BY <1>1, <1>2, <2>1, Induction
<1> DEFINE W(m) == CHOOSE w : Part(m, w)
<1>4. \A m \in Nat : Part(m, W(m))
  BY <1>3
<1>5. ASSUME NEW m \in Nat, NEW k \in Nat, m <= k PROVE W(m)[m] = W(k)[m]
  <2> DEFINE U == {i \in Nat : i > m \/ W(m)[i] = W(k)[i]}
  <2>1. 0 \in U
    BY <1>4, <1>5
  <2>2. ASSUME NEW i \in U PROVE i + 1 \in U
    <3>1. CASE i + 1 <= m
      <4>1. i + 1 \in 0..m /\ i + 1 \in 0..k /\ i + 1 # 0 /\ (i + 1) - 1 = i /\ ~(i > m)
        BY <1>5, <3>1
      <4>2. Part(m, W(m)) /\ Part(k, W(k)) /\ W(m)[i] = W(k)[i]
        BY <1>4, <4>1
      <4> HIDE DEF W
      <4>3. W(m)[i + 1] = step[W(m)[i]] /\ W(k)[i + 1] = step[W(k)[i]]
        BY <4>1, <4>2
      <4>4. QED
        BY <4>2, <4>3
    <3>2. CASE ~(i + 1 <= m)
      BY <3>2
    <3>3. QED
      BY <3>1, <3>2
  <2>3. U \in SUBSET Nat
    OBVIOUS
  <2>4. U = Nat
    <3> HIDE DEF U
    <3>1. QED
      BY <2>1, <2>2, <2>3, Induction
  <2>5. m \in U
    BY <2>4
  <2> HIDE DEF W
  <2>6. QED
    BY <2>5
<1> DEFINE w0 == [n \in Nat |-> W(n)[n]]
<1>6. w0 = [n \in Nat |-> IF n = 0 THEN a ELSE step[w0[n - 1]]]
  <2>1. ASSUME NEW n \in Nat PROVE w0[n] = IF n = 0 THEN a ELSE step[w0[n - 1]]
    <3>1. Part(n, W(n))
      BY <1>4
    <3>2. CASE n = 0
      BY <3>1, <3>2
    <3>3. CASE n # 0
      <4>1. n \in 0..n /\ n - 1 \in Nat /\ n - 1 <= n
        BY <3>3
      <4>2. W(n - 1)[n - 1] = W(n)[n - 1]
        BY <1>5, <4>1
      <4> HIDE DEF W
      <4>3. W(n)[n] = step[W(n)[n - 1]]
        BY <3>1, <3>3, <4>1
      <4>4. QED
        BY <3>3, <4>1, <4>2, <4>3
    <3>4. QED
      BY <3>2, <3>3
  <2> HIDE DEF W
  <2>2. QED
    BY <2>1
<1> DEFINE w1 == Iterate(step, a)
<1>7. w1 = [n \in Nat |-> IF n = 0 THEN a ELSE step[w1[n - 1]]]
  <2> HIDE DEF w0
  <2>1. QED
    BY <1>6 DEF Iterate
<1> HIDE DEF w1
<1>8. w1[0] = a /\ \A n \in Nat : w1[n + 1] = step[w1[n]]
  <2>1. ASSUME NEW n \in Nat PROVE w1[n + 1] = step[w1[n]]
    <3>1. n + 1 \in Nat /\ n + 1 # 0 /\ (n + 1) - 1 = n
      OBVIOUS
    <3>2. QED
      BY <1>7, <3>1
  <2>2. QED
    BY <1>7, <2>1
<1>9. \A n \in Nat : w1[n] \in S
  <2> DEFINE V == {n \in Nat : w1[n] \in S}
  <2>1. V \in SUBSET Nat /\ 0 \in V /\ \A n \in V : n + 1 \in V
    BY <1>8
  <2>2. V = Nat
    <3> HIDE DEF V
    <3>1. QED
      BY <2>1, Induction
  <2>3. QED
    BY <2>2
<1>10. QED
  BY <1>7, <1>8, <1>9 DEF w1, IsWalk

\* A walk stays in any set that is closed under its pointers and holds its start, and
\* within as many steps as there are frames it has met all it will meet.
Steps(nx) == [g \in Frame \cup {None} |-> IF g = None THEN None ELSE nx[g]]

\* Met is what such a walk meets in as many steps as there are frames.
LEMMA MetIsWalk ==
  ASSUME NEW nx, NEW f
  PROVE  Met(nx, f) = {Iterate(Steps(nx), f)[n] : n \in 0..Cardinality(Frame)} \ {None}
BY DEF Met, Iterate, Steps

\* What is met is the least set that holds the start and follows the pointers.
LEMMA MetIsLeast ==
  ASSUME NEW nx \in Links, NEW f \in Frame \cup {None}
  PROVE  /\ Met(nx, f) \subseteq Frame
         /\ f # None => f \in Met(nx, f)
         /\ \A g \in Met(nx, f) : nx[g] \in Met(nx, f) \cup {None}
         /\ \A M \in SUBSET Frame :
              f \in M \cup {None} /\ (\A g \in M : nx[g] \in M \cup {None}) => Met(nx, f) \subseteq M
<1> DEFINE F == Frame \cup {None}
           N == Cardinality(Frame)
           w == Iterate(Steps(nx), f)
           D == {w[n] : n \in 0..N} \ {None}
<1>0. Met(nx, f) = D
  BY MetIsWalk
<1>1. IsFiniteSet(Frame) /\ N \in Nat /\ None \notin Frame
  BY StackingAssumption, FS_CardinalityType
<1>2. Steps(nx) \in [F -> F]
  BY DEF Steps, Links
<1>3. w \in [Nat -> F] /\ w[0] = f /\ \A n \in Nat : w[n + 1] = Steps(nx)[w[n]]
  <2> DEFINE st == Steps(nx)
  <2>1. f \in F /\ st \in [F -> F]
    BY <1>2
  <2> HIDE DEF F, st
  <2>2. IsWalk(Iterate(st, f), F, st, f)
    BY <2>1, IterateExists
  <2>3. QED
    BY <2>2 DEF st, IsWalk
<1>4. \A n \in Nat : w[n + 1] = IF w[n] = None THEN None ELSE nx[w[n]]
  BY <1>3 DEF Steps
<1> HIDE DEF w, N
<1>5. D \subseteq Frame
  BY <1>1, <1>3
<1>6. f # None => f \in D
  <2>1. 0 \in 0..N
    BY <1>1
  <2>2. QED
    BY <1>3, <2>1
<1>7. \A n \in Nat : w[n] \in D \cup {None}
  <2>1. CASE \E n \in 0..N : w[n] = None
    <3>1. PICK k \in 0..N : w[k] = None
      BY <2>1
    <3>2. k \in Nat /\ k <= N
      BY <1>1
    <3> DEFINE V == {n \in Nat : w[k + n] = None}
    <3>3. V \in SUBSET Nat /\ 0 \in V
      BY <3>1, <3>2
    <3>4. ASSUME NEW n \in V PROVE n + 1 \in V
      <4>1. w[(k + n) + 1] = None /\ k + (n + 1) = (k + n) + 1
        BY <1>4, <3>2
      <4>2. QED
        BY <4>1
    <3>5. V = Nat
      <4> HIDE DEF V
      <4>1. QED
        BY <3>3, <3>4, Induction
    <3>6. ASSUME NEW n \in Nat PROVE w[n] \in D \cup {None}
      <4>1. CASE n <= N
        <5>1. n \in 0..N
          BY <4>1, <1>1
        <5>2. QED
          BY <5>1
      <4>2. CASE n > N
        <5>1. n - k \in Nat /\ k + (n - k) = n
          BY <4>2, <3>2, <1>1
        <5>2. w[n] = None
          BY <3>5, <5>1
        <5>3. QED
          BY <5>2
      <4>3. QED
        BY <4>1, <4>2, <1>1
    <3>7. QED
      BY <3>6
  <2>2. CASE \A n \in 0..N : w[n] # None
    <3> DEFINE v == [n \in 0..N |-> w[n]]
    <3>1. v \in [0..N -> Frame]
      BY <2>2, <1>3, <1>1
    <3>2. IsFiniteSet(0..N) /\ Cardinality(0..N) = N + 1
      BY <1>1, FS_Interval
    <3>3. Cardinality(Frame) < Cardinality(0..N)
      BY <1>1, <3>2 DEF N
    <3>4. PICK i0, j0 \in 0..N : i0 # j0 /\ v[i0] = v[j0]
      <4> HIDE DEF v
      <4>1. QED
        BY <1>1, <3>1, <3>2, <3>3, FS_PigeonHole
    <3>5. PICK i, j \in 0..N : i < j /\ w[i] = w[j]
      <4>1. i0 < j0 \/ j0 < i0
        BY <3>4, <1>1
      <4>2. w[i0] = w[j0]
        BY <3>4
      <4>3. QED
        BY <4>1, <4>2
    <3>6. i \in Nat /\ j \in Nat /\ j <= N
      BY <1>1
    <3> DEFINE E == {w[n] : n \in 0..(j - 1)}
               V == {n \in Nat : w[n] \in E}
    <3>7. V \in SUBSET Nat /\ 0 \in V
      <4>1. 0 \in 0..(j - 1)
        BY <3>5, <3>6
      <4>2. QED
        BY <4>1
    <3>8. ASSUME NEW n \in V PROVE n + 1 \in V
      <4>1. PICK k \in 0..(j - 1) : w[n] = w[k]
        OBVIOUS
      <4>2. k \in Nat /\ k + 1 <= j
        BY <3>6
      <4>3. w[n + 1] = w[k + 1]
        BY <1>4, <4>1, <4>2
      <4>4. CASE k + 1 = j
        <5>1. w[n + 1] = w[i] /\ i \in 0..(j - 1)
          BY <4>3, <4>4, <3>5, <3>6
        <5>2. QED
          BY <5>1
      <4>5. CASE k + 1 # j
        <5>1. k + 1 \in 0..(j - 1)
          BY <4>2, <4>5, <3>6
        <5>2. QED
          BY <5>1, <4>3
      <4>6. QED
        BY <4>4, <4>5
    <3>9. V = Nat
      <4> HIDE DEF V
      <4>1. QED
        BY <3>7, <3>8, Induction
    <3>10. E \subseteq D
      <4>1. \A n \in 0..(j - 1) : n \in 0..N
        BY <3>6, <1>1
      <4>2. QED
        BY <4>1, <2>2
    <3>11. QED
      BY <3>9, <3>10
  <2>3. QED
    BY <2>1, <2>2
<1>8. \A g \in D : nx[g] \in D \cup {None}
  <2>1. SUFFICES ASSUME NEW n \in 0..N, w[n] # None PROVE nx[w[n]] \in D \cup {None}
    OBVIOUS
  <2>2. n \in Nat /\ n + 1 \in Nat
    BY <1>1
  <2>3. w[n + 1] = nx[w[n]]
    BY <1>4, <2>1, <2>2
  <2>4. QED
    BY <1>7, <2>2, <2>3
<1>9. ASSUME NEW M \in SUBSET Frame, f \in M \cup {None}, \A g \in M : nx[g] \in M \cup {None}
      PROVE  D \subseteq M
  <2> DEFINE V == {n \in Nat : w[n] \in M \cup {None}}
  <2>1. V \in SUBSET Nat /\ 0 \in V
    BY <1>3, <1>9
  <2>2. ASSUME NEW n \in V PROVE n + 1 \in V
    BY <1>4, <1>9
  <2>3. V = Nat
    <3> HIDE DEF V
    <3>1. QED
      BY <2>1, <2>2, Induction
  <2>4. QED
    BY <2>3, <1>1
<1>10. QED
  BY <1>0, <1>5, <1>6, <1>8, <1>9


-----------------------------------------------------------------------------
(* Orders and the lists that spell them *)

\* A finite set with a strict order has a first element: one with nothing before it.
LEMMA FirstExists ==
  ASSUME NEW S, IsFiniteSet(S), S # {}, NEW y \in [S -> SUBSET S],
         \A f \in S : f \notin y[f], \A f \in S : \A g \in y[f] : y[g] \subseteq y[f]
  PROVE  \E f \in S : y[f] = {}
<1> DEFINE C == {Cardinality(y[f]) : f \in S}
<1>1. \A f \in S : IsFiniteSet(y[f]) /\ Cardinality(y[f]) \in Nat
  <2>1. SUFFICES ASSUME NEW f \in S PROVE IsFiniteSet(y[f])
    BY FS_CardinalityType
  <2>2. QED
    BY FS_Subset
<1>2. C \in SUBSET Nat /\ C # {}
  BY <1>1
<1>3. PICK k \in C : \A j \in C : k <= j
  <2> HIDE DEF C
  <2>1. QED
    BY <1>2, LeastNumber
<1>4. PICK f \in S : k = Cardinality(y[f])
  OBVIOUS
<1>5. ASSUME NEW g \in y[f] PROVE FALSE
  <2>1. y[g] \subseteq y[f] /\ y[g] # y[f] /\ g \in S
    OBVIOUS
  <2>2. Cardinality(y[g]) < Cardinality(y[f])
    <3>1. Cardinality(y[g]) <= Cardinality(y[f]) /\ (Cardinality(y[f]) = Cardinality(y[g]) => y[f] = y[g])
      BY <1>1, <2>1, FS_Subset
    <3>2. Cardinality(y[g]) \in Nat /\ Cardinality(y[f]) \in Nat
      BY <1>1, <2>1
    <3>3. QED
      BY <2>1, <3>1, <3>2
  <2>3. Cardinality(y[g]) \in C /\ Cardinality(y[g]) \in Nat /\ k \in Nat
    BY <1>1, <1>2, <2>1
  <2> HIDE DEF C
  <2>4. QED
    BY <1>3, <1>4, <2>2, <2>3
<1>6. QED
  BY <1>5

\* order[f], the elements over f, is a strict order that leaves no two elements apart.
Ordered(order, E) ==
  /\ order \in [E -> SUBSET E]
  /\ \A f \in E : f \notin order[f]
  /\ \A f \in E : \A g \in order[f] : \A h \in order[g] : h \in order[f]
  /\ \A f, g \in E : f = g \/ f \in order[g] \/ g \in order[f]

\* The same of the frames of every level on its own.
Levelled(level, L, o) ==
  /\ o \in [L -> SUBSET L]
  /\ \A f \in L : f \notin o[f]
  /\ \A f \in L : \A g \in o[f] : level[g] = level[f] /\ \A h \in o[g] : h \in o[f]
  /\ \A f, g \in L : level[f] = level[g] => f = g \/ f \in o[g] \/ g \in o[f]

\* g is right over f.
RightOver(L, o, g, f) == g \in L /\ \A h \in L : h \in o[f] <=> h = g \/ h \in o[g]

\* The pointers of the frames L spell the order o.
Linked(s, L, o) ==
  /\ Levelled(s.level, L, o)
  /\ \A f \in L : IF s.above[f] = None THEN o[f] = {} ELSE RightOver(L, o, s.above[f], f)
  /\ \A f \in L : IF s.under[f] = None THEN \A g \in L : f \notin o[g]
                  ELSE s.under[f] \in L /\ RightOver(L, o, f, s.under[f])
  /\ \A l \in Level : IF s.top[l] = None THEN \A f \in L : s.level[f] # l
                      ELSE s.top[l] \in L /\ s.level[s.top[l]] = l /\ o[s.top[l]] = {}

\* In any nonempty set of frames of one level one is over all, and one is under all.
LEMMA HighestListed ==
  ASSUME NEW level, NEW L \in SUBSET Frame, NEW o, Levelled(level, L, o), NEW S \in SUBSET L, S # {}
  PROVE  \E f \in S : \A g \in S : g \notin o[f]
<1> DEFINE y == [f \in S |-> S \cap o[f]]
<1>1. IsFiniteSet(S)
  BY StackingAssumption, FS_Subset
<1>2. y \in [S -> SUBSET S] /\ \A f \in S : f \notin y[f]
  BY DEF Levelled
<1>3. \A f \in S : \A g \in y[f] : y[g] \subseteq y[f]
  BY DEF Levelled
<1>4. \E f \in S : y[f] = {}
  <2> HIDE DEF y
  <2>1. QED
    BY <1>1, <1>2, <1>3, FirstExists
<1>5. QED
  BY <1>4

\* A set of listed frames has a lowest one, in the same way.
LEMMA LowestListed ==
  ASSUME NEW level, NEW L \in SUBSET Frame, NEW o, Levelled(level, L, o), NEW S \in SUBSET L, S # {}
  PROVE  \E f \in S : \A g \in S : f \notin o[g]
<1> DEFINE y == [f \in S |-> {g \in S : f \in o[g]}]
<1>1. IsFiniteSet(S)
  BY StackingAssumption, FS_Subset
<1>2. y \in [S -> SUBSET S] /\ \A f \in S : f \notin y[f]
  BY DEF Levelled
<1>3. \A f \in S : \A g \in y[f] : y[g] \subseteq y[f]
  BY DEF Levelled
<1>4. \E f \in S : y[f] = {}
  <2> HIDE DEF y
  <2>1. QED
    BY <1>1, <1>2, <1>3, FirstExists
<1>5. QED
  BY <1>4

\* above and under are inverse to each other, and the top of a level is the frame with
\* none above it.
LEMMA Neighbours ==
  ASSUME NEW s, NEW L, NEW o, None \notin L, Linked(s, L, o), \A f \in L : s.level[f] \in Level
  PROVE  /\ \A f \in L : s.above[f] \in L \cup {None} /\ s.under[f] \in L \cup {None}
         /\ \A f, g \in L : s.above[f] = g <=> s.under[g] = f
         /\ \A f \in L : s.above[f] # None =>
              s.above[f] \in o[f] /\ s.level[s.above[f]] = s.level[f]
         /\ \A f \in L : s.under[f] # None =>
              f \in o[s.under[f]] /\ s.level[s.under[f]] = s.level[f]
         /\ \A f \in L : s.above[f] = None <=> s.top[s.level[f]] = f
         /\ \A f \in L : s.above[f] = None <=> o[f] = {}
<1>1. \A f \in L : s.above[f] \in L \cup {None} /\ s.under[f] \in L \cup {None}
  BY DEF Linked, RightOver
<1>2. \A f \in L : s.above[f] # None => s.above[f] \in o[f] /\ s.level[s.above[f]] = s.level[f]
  BY DEF Linked, RightOver, Levelled
<1>3. \A f \in L : s.under[f] # None => f \in o[s.under[f]] /\ s.level[s.under[f]] = s.level[f]
  BY DEF Linked, RightOver, Levelled
<1>4. ASSUME NEW f \in L, NEW g \in L, NEW h \in L, RightOver(L, o, g, f), RightOver(L, o, g, h)
      PROVE  f = h
  <2>1. g \in o[f] /\ g \in o[h] /\ s.level[f] = s.level[h]
    BY <1>4 DEF RightOver, Linked, Levelled
  <2>2. f \in o[h] => f \in o[f]
    BY <1>4 DEF RightOver
  <2>3. h \in o[f] => h \in o[h]
    BY <1>4 DEF RightOver
  <2>4. QED
    BY <2>1, <2>2, <2>3 DEF Linked, Levelled
<1>5. ASSUME NEW f \in L, NEW g \in L, NEW h \in L, RightOver(L, o, f, h), RightOver(L, o, g, h)
      PROVE  f = g
  <2>1. f \in o[h] /\ g \in o[h]
    BY <1>5 DEF RightOver
  <2>2. (f = g \/ g \in o[f]) /\ (f = g \/ f \in o[g])
    BY <1>5, <2>1 DEF RightOver
  <2>3. QED
    BY <2>2 DEF Linked, Levelled
<1>6. ASSUME NEW f \in L, NEW g \in L, s.above[f] = g PROVE s.under[g] = f
  <2>1. RightOver(L, o, g, f) /\ g \in o[f]
    BY <1>6, <1>2 DEF Linked
  <2>2. s.under[g] # None
    BY <2>1 DEF Linked
  <2>3. s.under[g] \in L /\ RightOver(L, o, g, s.under[g])
    BY <2>2 DEF Linked
  <2>4. QED
    BY <2>1, <2>3, <1>4
<1>7. ASSUME NEW f \in L, NEW g \in L, s.under[g] = f PROVE s.above[f] = g
  <2>1. RightOver(L, o, g, f) /\ g \in o[f]
    BY <1>7, <1>3 DEF Linked
  <2>2. s.above[f] # None
    BY <2>1 DEF Linked
  <2>3. s.above[f] \in L /\ RightOver(L, o, s.above[f], f)
    BY <2>2 DEF Linked, RightOver
  <2>4. QED
    BY <2>1, <2>3, <1>5
<1>8. ASSUME NEW f \in L PROVE s.above[f] = None <=> o[f] = {}
  BY <1>2 DEF Linked
<1>9. ASSUME NEW f \in L PROVE s.above[f] = None <=> s.top[s.level[f]] = f
  <2> DEFINE t == s.top[s.level[f]]
  <2>1. t \in L /\ s.level[t] = s.level[f] /\ o[t] = {}
    BY DEF Linked
  <2>2. o[f] = {} => t = f
    BY <2>1 DEF Linked, Levelled
  <2>3. QED
    BY <1>8, <2>1, <2>2
<1>10. QED
  BY <1>1, <1>2, <1>3, <1>6, <1>7, <1>8, <1>9

\* Where the pointers spell an order, a walk down meets what the order has below.
LEMMA WalksDown ==
  ASSUME NEW s \in Stacks, NEW L \in SUBSET Frame, NEW o, Linked(s, L, o)
  PROVE  /\ \A f \in L : Below(s, f) = {g \in L : f \in o[g]}
         /\ \A l \in Level : Column(s, l) = {g \in L : s.level[g] = l}
<1>1. /\ None \notin L /\ None \notin Frame /\ s.under \in Links /\ \A f \in L : s.level[f] \in Level
      /\ s.top \in [Level -> Frame \cup {None}]
  BY StackingAssumption DEF Stacks
<1>2. /\ \A f \in L : s.above[f] \in L \cup {None} /\ s.under[f] \in L \cup {None}
      /\ \A f, g \in L : s.above[f] = g <=> s.under[g] = f
      /\ \A f \in L : s.above[f] # None => s.above[f] \in o[f] /\ s.level[s.above[f]] = s.level[f]
      /\ \A f \in L : s.under[f] # None => f \in o[s.under[f]] /\ s.level[s.under[f]] = s.level[f]
      /\ \A f \in L : s.above[f] = None <=> s.top[s.level[f]] = f
      /\ \A f \in L : s.above[f] = None <=> o[f] = {}
  BY <1>1, Neighbours
<1>3. Levelled(s.level, L, o)
  BY DEF Linked
<1>4. ASSUME NEW f \in L PROVE Below(s, f) = {g \in L : f \in o[g]}
  <2> DEFINE B == Met(s.under, s.under[f])
             M == {g \in L : f \in o[g]}
  <2>1. s.under[f] \in Frame \cup {None} /\ M \in SUBSET Frame
    BY <1>2
  <2>2. s.under[f] \in M \cup {None}
    BY <1>2
  <2>3. \A g \in M : s.under[g] \in M \cup {None}
    BY <1>2, <1>3 DEF Levelled
  <2>4. /\ B \subseteq M /\ (s.under[f] # None => s.under[f] \in B)
        /\ \A g \in B : s.under[g] \in B \cup {None}
    <3> HIDE DEF M
    <3>1. QED
      BY <1>1, <2>1, <2>2, <2>3, MetIsLeast
  <2> HIDE DEF B
  <2>5. ASSUME M \ B # {} PROVE FALSE
    <3> DEFINE K == M \ B
    <3>0. PICK g \in K : \A h \in K : h \notin o[g]
      <4>1. K \in SUBSET L /\ K # {}
        BY <2>5
      <4> HIDE DEF K
      <4>2. QED
        BY <1>3, <4>1, HighestListed
    <3>1. g \in M \ B /\ \A h \in M \ B : h \notin o[g]
      BY <3>0
    <3> DEFINE a == s.above[g]
    <3>2. g \in L /\ f \in o[g] /\ g \notin B
      OBVIOUS
    <3>3. a # None /\ a \in L /\ a \in o[g]
      BY <1>2, <3>2
    <3>4. s.under[a] = g
      BY <1>2, <3>2, <3>3
    <3>5. a = f \/ f \in o[a]
      BY <3>2, <3>3 DEF Linked, RightOver
    <3>6. CASE a = f
      BY <1>1, <2>4, <3>2, <3>4, <3>6
    <3>7. CASE f \in o[a]
      <4>1. a \in B
        BY <3>1, <3>3, <3>7
      <4>2. QED
        BY <1>1, <2>4, <3>2, <3>4, <4>1
    <3>8. QED
      BY <3>5, <3>6, <3>7
  <2>6. QED
    BY <2>4, <2>5 DEF Below, B
<1>5. ASSUME NEW l \in Level PROVE Column(s, l) = {g \in L : s.level[g] = l}
  <2> DEFINE t == s.top[l]
             B == Met(s.under, t)
             M == {g \in L : s.level[g] = l}
  <2>1. t \in Frame \cup {None} /\ M \in SUBSET Frame
    BY <1>1
  <2>2. t \in M \cup {None}
    BY DEF Linked
  <2>3. \A g \in M : s.under[g] \in M \cup {None}
    BY <1>2
  <2>4. /\ B \subseteq M /\ (t # None => t \in B)
        /\ \A g \in B : s.under[g] \in B \cup {None}
    <3> HIDE DEF M, t
    <3>1. QED
      BY <1>1, <2>1, <2>2, <2>3, MetIsLeast
  <2> HIDE DEF B
  <2>5. ASSUME M \ B # {} PROVE FALSE
    <3> DEFINE K == M \ B
    <3>0. PICK g \in K : \A h \in K : h \notin o[g]
      <4>1. K \in SUBSET L /\ K # {}
        BY <2>5
      <4> HIDE DEF K
      <4>2. QED
        BY <1>3, <4>1, HighestListed
    <3>1. g \in M \ B /\ \A h \in M \ B : h \notin o[g]
      BY <3>0
    <3> DEFINE a == s.above[g]
    <3>2. g \in L /\ s.level[g] = l /\ g \notin B
      OBVIOUS
    <3>3. CASE a = None
      BY <1>1, <1>2, <2>4, <3>2, <3>3
    <3>4. CASE a # None
      <4>1. a \in L /\ a \in o[g] /\ s.under[a] = g /\ s.level[a] = l
        BY <1>2, <3>2, <3>4
      <4>2. a \in B
        BY <3>1, <4>1
      <4>3. QED
        BY <1>1, <2>4, <3>2, <4>1, <4>2
    <3>5. QED
      BY <3>3, <3>4
  <2>6. QED
    BY <2>4, <2>5 DEF Column, B
<1>6. QED
  BY <1>4, <1>5

\* The last frame of a level, and the last of some frames of a level.
LEMMA BottomIsLast ==
  ASSUME NEW s \in Stacks, NEW L \in SUBSET Frame, NEW o, Linked(s, L, o), NEW l \in Level,
         s.top[l] # None
  PROVE  /\ Bottom(s, l) \in L /\ s.level[Bottom(s, l)] = l
         /\ \A g \in L : Bottom(s, l) \notin o[g]
<1> DEFINE M == {g \in L : s.level[g] = l}
<1>1. Column(s, l) = M
  <2>1. \A k \in Level : Column(s, k) = {g \in L : s.level[g] = k}
    BY WalksDown
  <2>2. QED
    BY <2>1
<1>2. M # {} /\ M \in SUBSET L /\ Levelled(s.level, L, o) /\ None \notin L
  BY StackingAssumption DEF Linked
<1>3. PICK f \in M : \A g \in M : f \notin o[g]
  <2> HIDE DEF M
  <2>1. QED
    BY <1>2, LowestListed
<1>4. \A g \in L : f \notin o[g]
  BY <1>2, <1>3 DEF Levelled
<1>5. s.under[f] = None
  <2>1. SUFFICES ASSUME s.under[f] # None PROVE FALSE
    OBVIOUS
  <2>2. s.under[f] \in L /\ f \in o[s.under[f]]
    BY <2>1 DEF Linked, RightOver
  <2>3. QED
    BY <1>4, <2>2
<1>6. Bottom(s, l) \in M /\ s.under[Bottom(s, l)] = None
  BY <1>1, <1>5 DEF Bottom
<1>7. QED
  BY <1>6 DEF Linked

\* Lowest finds a frame of a set of listed frames that is not empty.
LEMMA LowestIsLast ==
  ASSUME NEW s \in Stacks, NEW L \in SUBSET Frame, NEW o, Linked(s, L, o), NEW S \in SUBSET L, S # {}
  PROVE  Lowest(s, S) \in S
<1>1. PICK f \in S : \A g \in S : f \notin o[g]
  BY LowestListed DEF Linked
<1>2. Below(s, f) = {g \in L : f \in o[g]}
  BY WalksDown
<1>3. S \cap Below(s, f) = {}
  BY <1>1, <1>2
<1>4. QED
  BY <1>3 DEF Lowest

-----------------------------------------------------------------------------
(* Taking a frame out of the lists and putting it in *)

Without(L, o, f) == [g \in L \ {f} |-> o[g] \ {f}]
WithTop(level, L, o, f) ==
  [g \in L \cup {f} |-> IF g = f THEN {} ELSE IF level[g] = level[f] THEN o[g] \cup {f} ELSE o[g]]
WithUnder(L, o, p, f) ==
  [g \in L \cup {f} |-> IF g = f THEN o[p] \cup {p} ELSE IF p \in o[g] THEN o[g] \cup {f} ELSE o[g]]

\* t is s with f taken out, with f on top, with f under p: what the pointers of the
\* listed frames are.
TakenOut(s, t, L, f) ==
  /\ \A g \in L \ {f} : /\ t.level[g] = s.level[g]
                        /\ t.above[g] = IF g = s.under[f] THEN s.above[f] ELSE s.above[g]
                        /\ t.under[g] = IF g = s.above[f] THEN s.under[f] ELSE s.under[g]
  /\ \A l \in Level : t.top[l] = IF s.top[l] = f THEN s.under[f] ELSE s.top[l]
PutOnTop(s, t, L, f) ==
  /\ t.level[f] \in Level /\ t.above[f] = None /\ t.under[f] = s.top[t.level[f]]
  /\ \A g \in L : /\ t.level[g] = s.level[g]
                  /\ t.above[g] = IF g = s.top[t.level[f]] THEN f ELSE s.above[g]
                  /\ t.under[g] = s.under[g]
  /\ \A l \in Level : t.top[l] = IF l = t.level[f] THEN f ELSE s.top[l]
PutUnder(s, t, L, p, f) ==
  /\ t.level[f] = s.level[p] /\ t.above[f] = p /\ t.under[f] = s.under[p]
  /\ \A g \in L : /\ t.level[g] = s.level[g]
                  /\ t.above[g] = IF g = s.under[p] THEN f ELSE s.above[g]
                  /\ t.under[g] = IF g = p THEN f ELSE s.under[g]
  /\ \A l \in Level : t.top[l] = s.top[l]

\* Links that skip f spell the order without it.
LEMMA LinkedTakenOut ==
  ASSUME NEW s, NEW t, NEW L, NEW o, NEW f \in L, None \notin L, Linked(s, L, o),
         \A g \in L : s.level[g] \in Level, TakenOut(s, t, L, f)
  PROVE  Linked(t, L \ {f}, Without(L, o, f))
<1> DEFINE K == L \ {f}
           q == Without(L, o, f)
<1>1. /\ \A g \in L : s.above[g] \in L \cup {None} /\ s.under[g] \in L \cup {None}
      /\ \A g, h \in L : s.above[g] = h <=> s.under[h] = g
      /\ \A g \in L : s.above[g] # None => s.above[g] \in o[g] /\ s.level[s.above[g]] = s.level[g]
      /\ \A g \in L : s.under[g] # None => g \in o[s.under[g]] /\ s.level[s.under[g]] = s.level[g]
      /\ \A g \in L : s.above[g] = None <=> s.top[s.level[g]] = g
      /\ \A g \in L : s.above[g] = None <=> o[g] = {}
  BY Neighbours
<1>2. Levelled(s.level, L, o)
  BY DEF Linked
<1>3. \A g \in K : \A h : h \in q[g] <=> h \in o[g] /\ h # f
  BY DEF Without
<1>4. Levelled(t.level, K, q)
  <2>1. q \in [K -> SUBSET K]
    BY <1>2 DEF Without, Levelled
  <2> HIDE DEF q
  <2>2. \A g \in K : t.level[g] = s.level[g]
    BY DEF TakenOut
  <2>3. \A g \in K : g \notin q[g]
    BY <1>2, <1>3 DEF Levelled
  <2>4. \A g \in K : \A h \in q[g] : t.level[h] = t.level[g] /\ \A k \in q[h] : k \in q[g]
    BY <1>2, <1>3, <2>1, <2>2 DEF Levelled
  <2>5. \A g, h \in K : t.level[g] = t.level[h] => g = h \/ g \in q[h] \/ h \in q[g]
    BY <1>2, <1>3, <2>2 DEF Levelled
  <2>6. QED
    BY <2>1, <2>3, <2>4, <2>5 DEF Levelled
<1> HIDE DEF q
<1>5. ASSUME NEW g \in K PROVE IF t.above[g] = None THEN q[g] = {} ELSE RightOver(K, q, t.above[g], g)
  <2>0. q[g] \subseteq K
    BY <1>4 DEF Levelled
  <2>1. CASE g = s.under[f]
    <3>1. t.above[g] = s.above[f]
      BY <2>1 DEF TakenOut
    <3>2. \A h \in L : h \in o[g] <=> h = f \/ h \in o[f]
      BY <1>1, <2>1 DEF Linked, RightOver
    <3>3. CASE s.above[f] = None
      BY <1>1, <1>3, <2>0, <3>1, <3>2, <3>3
    <3>4. CASE s.above[f] # None
      <4> DEFINE a == s.above[f]
      <4>1. a \in K /\ \A h \in L : h \in o[f] <=> h = a \/ h \in o[a]
        BY <1>1, <1>2, <3>4 DEF Linked, RightOver, Levelled
      <4>2. \A h \in K : h \in q[g] <=> h = a \/ h \in q[a]
        BY <1>3, <3>2, <4>1
      <4>3. a # None
        BY <3>4
      <4>4. QED
        BY <3>1, <4>1, <4>2, <4>3 DEF RightOver
    <3>5. QED
      BY <3>3, <3>4
  <2>2. CASE g # s.under[f]
    <3>1. t.above[g] = s.above[g] /\ s.above[g] # f
      BY <1>1, <2>2 DEF TakenOut
    <3>2. CASE s.above[g] = None
      BY <1>1, <1>3, <2>0, <3>1, <3>2
    <3>3. CASE s.above[g] # None
      <4> DEFINE a == s.above[g]
      <4>1. a \in K /\ \A h \in L : h \in o[g] <=> h = a \/ h \in o[a]
        BY <1>1, <3>1, <3>3 DEF Linked, RightOver
      <4>2. \A h \in K : h \in q[g] <=> h = a \/ h \in q[a]
        BY <1>3, <4>1
      <4>3. QED
        BY <3>1, <3>3, <4>1, <4>2 DEF RightOver
    <3>4. QED
      BY <3>2, <3>3
  <2>3. QED
    BY <2>1, <2>2
<1>6. ASSUME NEW g \in K
      PROVE  IF t.under[g] = None THEN \A h \in K : g \notin q[h]
             ELSE t.under[g] \in K /\ RightOver(K, q, g, t.under[g])
  <2>1. CASE g = s.above[f]
    <3>1. t.under[g] = s.under[f] /\ \A h \in L : h \in o[f] <=> h = g \/ h \in o[g]
      BY <2>1 DEF TakenOut, Linked, RightOver
    <3>2. CASE s.under[f] = None
      <4>1. \A h \in L : f \notin o[h]
        BY <3>2 DEF Linked
      <4>2. ASSUME NEW h \in K, g \in o[h] PROVE FALSE
        <5>1. g \in o[f] /\ s.level[h] = s.level[f]
          BY <1>2, <3>1, <4>2 DEF Levelled
        <5>2. h \in o[f]
          BY <1>2, <4>1, <5>1 DEF Levelled
        <5>3. h = g \/ h \in o[g]
          BY <3>1, <5>2
        <5>4. QED
          BY <1>2, <4>2, <5>3 DEF Levelled
      <4>3. QED
        BY <1>3, <3>1, <3>2, <4>2
    <3>3. CASE s.under[f] # None
      <4> DEFINE u == s.under[f]
      <4>1. u \in K /\ \A h \in L : h \in o[u] <=> h = f \/ h \in o[f]
        BY <1>1, <1>2, <3>3 DEF Linked, RightOver, Levelled
      <4>2. \A h \in K : h \in q[u] <=> h = g \/ h \in q[g]
        BY <1>3, <3>1, <4>1
      <4>3. QED
        BY <3>1, <3>3, <4>1, <4>2 DEF RightOver
    <3>4. QED
      BY <3>2, <3>3
  <2>2. CASE g # s.above[f]
    <3>1. t.under[g] = s.under[g] /\ s.under[g] # f
      BY <1>1, <2>2 DEF TakenOut
    <3>2. CASE s.under[g] = None
      <4>1. \A h \in L : g \notin o[h]
        BY <3>2 DEF Linked
      <4>2. QED
        BY <1>3, <3>1, <3>2, <4>1
    <3>3. CASE s.under[g] # None
      <4> DEFINE u == s.under[g]
      <4>1. u \in K /\ \A h \in L : h \in o[u] <=> h = g \/ h \in o[g]
        BY <1>1, <3>1, <3>3 DEF Linked, RightOver
      <4>2. \A h \in K : h \in q[u] <=> h = g \/ h \in q[g]
        BY <1>3, <4>1
      <4>3. QED
        BY <3>1, <3>3, <4>1, <4>2 DEF RightOver
    <3>4. QED
      BY <3>2, <3>3
  <2>3. QED
    BY <2>1, <2>2
<1>7. ASSUME NEW l \in Level
      PROVE  IF t.top[l] = None THEN \A g \in K : t.level[g] # l
             ELSE t.top[l] \in K /\ t.level[t.top[l]] = l /\ q[t.top[l]] = {}
  <2>0. \A g \in K : t.level[g] = s.level[g] /\ q[g] \subseteq K
    BY <1>4 DEF TakenOut, Levelled
  <2>1. CASE s.top[l] = f
    <3>1. t.top[l] = s.under[f] /\ s.level[f] = l /\ o[f] = {} /\ s.above[f] = None
      BY <1>1, <2>1 DEF TakenOut, Linked
    <3>2. CASE s.under[f] = None
      <4>1. \A g \in L : f \notin o[g]
        BY <3>2 DEF Linked
      <4>2. \A g \in K : s.level[g] # l
        BY <1>2, <3>1, <4>1 DEF Levelled
      <4>3. QED
        BY <2>0, <3>1, <3>2, <4>2
    <3>3. CASE s.under[f] # None
      <4> DEFINE u == s.under[f]
      <4>1. u \in K /\ s.level[u] = l /\ \A h \in L : h \in o[u] <=> h = f \/ h \in o[f]
        BY <1>1, <1>2, <3>1, <3>3 DEF Linked, RightOver, Levelled
      <4>2. q[u] = {}
        BY <1>3, <2>0, <3>1, <4>1
      <4>3. QED
        BY <2>0, <3>1, <3>3, <4>1, <4>2
    <3>4. QED
      BY <3>2, <3>3
  <2>2. CASE s.top[l] # f
    <3>1. t.top[l] = s.top[l]
      BY <2>2 DEF TakenOut
    <3>2. CASE s.top[l] = None
      BY <2>0, <3>1, <3>2 DEF Linked
    <3>3. CASE s.top[l] # None
      <4>1. s.top[l] \in K /\ s.level[s.top[l]] = l /\ o[s.top[l]] = {}
        BY <2>2, <3>3 DEF Linked
      <4>2. QED
        BY <1>3, <2>0, <3>1, <3>3, <4>1
    <3>4. QED
      BY <3>2, <3>3
  <2>3. QED
    BY <2>1, <2>2
<1>8. QED
  BY <1>4, <1>5, <1>6, <1>7 DEF Linked, q

\* Links with f before the top of its level spell the order with f on top.
LEMMA LinkedOnTop ==
  ASSUME NEW s, NEW t, NEW L, NEW o, NEW f, f \notin L, f # None, None \notin L, Linked(s, L, o),
         \A g \in L : s.level[g] \in Level, PutOnTop(s, t, L, f)
  PROVE  Linked(t, L \cup {f}, WithTop(t.level, L, o, f))
<1> DEFINE K == L \cup {f}
           q == WithTop(t.level, L, o, f)
           l0 == t.level[f]
           t0 == s.top[l0]
<1>1. /\ \A g \in L : s.above[g] \in L \cup {None} /\ s.under[g] \in L \cup {None}
      /\ \A g, h \in L : s.above[g] = h <=> s.under[h] = g
      /\ \A g \in L : s.above[g] # None => s.above[g] \in o[g] /\ s.level[s.above[g]] = s.level[g]
      /\ \A g \in L : s.under[g] # None => g \in o[s.under[g]] /\ s.level[s.under[g]] = s.level[g]
      /\ \A g \in L : s.above[g] = None <=> s.top[s.level[g]] = g
      /\ \A g \in L : s.above[g] = None <=> o[g] = {}
  BY Neighbours
<1>2. Levelled(s.level, L, o) /\ \A g \in L : o[g] \subseteq L
  BY DEF Linked, Levelled
<1>3. /\ q \in [K -> SUBSET K] /\ q[f] = {}
      /\ \A g \in L : \A h : h \in q[g] <=> h \in o[g] \/ (h = f /\ t.level[g] = l0)
  BY <1>2 DEF WithTop
<1>4. \A g \in L : t.level[g] = s.level[g]
  BY DEF PutOnTop
<1> HIDE DEF q
<1>5. Levelled(t.level, K, q)
  <2>1. \A g \in K : g \notin q[g]
    BY <1>2, <1>3 DEF Levelled
  <2>2. ASSUME NEW g \in K, NEW h \in q[g]
        PROVE  t.level[h] = t.level[g] /\ \A k \in q[h] : k \in q[g]
    <3>1. g \in L
      BY <1>3, <2>2
    <3>2. CASE h = f
      BY <1>2, <1>3, <3>1, <3>2
    <3>3. CASE h # f
      <4>1. h \in o[g] /\ h \in L /\ t.level[h] = t.level[g] /\ \A k \in o[h] : k \in o[g]
        BY <1>2, <1>3, <1>4, <3>1, <3>3 DEF Levelled
      <4>2. QED
        BY <1>3, <3>1, <4>1
    <3>4. QED
      BY <3>2, <3>3
  <2>3. \A g, h \in K : t.level[g] = t.level[h] => g = h \/ g \in q[h] \/ h \in q[g]
    BY <1>2, <1>3, <1>4 DEF Levelled
  <2>4. QED
    BY <1>3, <2>1, <2>2, <2>3 DEF Levelled
<1>6. ASSUME NEW g \in K PROVE IF t.above[g] = None THEN q[g] = {} ELSE RightOver(K, q, t.above[g], g)
  <2>1. CASE g = f
    BY <1>3, <2>1 DEF PutOnTop
  <2>2. CASE g # f /\ g = t0
    <3>1. g \in L /\ t.above[g] = f /\ o[g] = {} /\ t.level[g] = l0
      BY <1>4, <2>2 DEF PutOnTop, Linked
    <3>2. \A h \in K : h \in q[g] <=> h = f \/ h \in q[f]
      BY <1>3, <3>1
    <3>3. QED
      BY <3>1, <3>2 DEF RightOver
  <2>3. CASE g # f /\ g # t0
    <3>1. g \in L /\ t.above[g] = s.above[g]
      BY <2>3 DEF PutOnTop
    <3>2. CASE s.above[g] = None
      <4>1. t.level[g] # l0 /\ o[g] = {}
        BY <1>1, <1>4, <2>3, <3>1, <3>2
      <4>2. \A h \in K : h \notin q[g]
        BY <1>3, <3>1, <4>1
      <4>3. QED
        BY <1>3, <3>1, <3>2, <4>2
    <3>3. CASE s.above[g] # None
      <4> DEFINE a == s.above[g]
      <4>1. /\ a \in L /\ t.level[a] = t.level[g] /\ a # f
            /\ \A h \in L : h \in o[g] <=> h = a \/ h \in o[a]
        BY <1>1, <1>4, <3>1, <3>3 DEF Linked, RightOver
      <4>2. \A h \in K : h \in q[g] <=> h = a \/ h \in q[a]
        BY <1>2, <1>3, <3>1, <4>1
      <4>3. QED
        BY <3>1, <3>3, <4>1, <4>2 DEF RightOver
    <3>4. QED
      BY <3>2, <3>3
  <2>4. QED
    BY <2>1, <2>2, <2>3
<1>7. ASSUME NEW g \in K
      PROVE  IF t.under[g] = None THEN \A h \in K : g \notin q[h]
             ELSE t.under[g] \in K /\ RightOver(K, q, g, t.under[g])
  <2>1. CASE g = f
    <3>1. t.under[f] = t0 /\ l0 \in Level
      BY DEF PutOnTop
    <3>2. CASE t0 = None
      <4>1. \A h \in L : t.level[h] # l0
        BY <1>4, <3>1, <3>2 DEF Linked
      <4>2. QED
        BY <1>2, <1>3, <2>1, <3>1, <3>2, <4>1
    <3>3. CASE t0 # None
      <4>1. t0 \in L /\ t.level[t0] = l0 /\ o[t0] = {}
        BY <1>4, <3>1, <3>3 DEF Linked
      <4>2. \A h \in K : h \in q[t0] <=> h = f \/ h \in q[f]
        BY <1>3, <4>1
      <4>3. QED
        BY <2>1, <3>1, <3>3, <4>1, <4>2 DEF RightOver
    <3>4. QED
      BY <3>2, <3>3
  <2>2. CASE g # f
    <3>1. g \in L /\ t.under[g] = s.under[g]
      BY <2>2 DEF PutOnTop
    <3>2. CASE s.under[g] = None
      <4>1. \A h \in L : g \notin o[h]
        BY <3>1, <3>2 DEF Linked
      <4>2. QED
        BY <1>3, <2>2, <3>1, <3>2, <4>1
    <3>3. CASE s.under[g] # None
      <4> DEFINE u == s.under[g]
      <4>1. u \in L /\ t.level[u] = t.level[g] /\ \A h \in L : h \in o[u] <=> h = g \/ h \in o[g]
        BY <1>1, <1>4, <3>1, <3>3 DEF Linked, RightOver
      <4>2. \A h \in K : h \in q[u] <=> h = g \/ h \in q[g]
        BY <1>2, <1>3, <2>2, <3>1, <4>1
      <4>3. QED
        BY <3>1, <3>3, <4>1, <4>2 DEF RightOver
    <3>4. QED
      BY <3>2, <3>3
  <2>3. QED
    BY <2>1, <2>2
<1>8. ASSUME NEW l \in Level
      PROVE  IF t.top[l] = None THEN \A g \in K : t.level[g] # l
             ELSE t.top[l] \in K /\ t.level[t.top[l]] = l /\ q[t.top[l]] = {}
  <2>1. CASE l = l0
    <3>1. t.top[l] = f
      BY <2>1 DEF PutOnTop
    <3>2. QED
      BY <1>3, <2>1, <3>1
  <2>2. CASE l # l0
    <3>1. t.top[l] = s.top[l]
      BY <2>2 DEF PutOnTop
    <3>2. CASE s.top[l] = None
      <4>1. \A g \in L : s.level[g] # l
        BY <3>2 DEF Linked
      <4>2. QED
        BY <1>4, <2>2, <3>1, <3>2, <4>1
    <3>3. CASE s.top[l] # None
      <4>1. s.top[l] \in L /\ s.level[s.top[l]] = l /\ o[s.top[l]] = {}
        BY <3>3 DEF Linked
      <4>2. \A h \in K : h \notin q[s.top[l]]
        BY <1>3, <1>4, <2>2, <4>1
      <4>3. QED
        BY <1>3, <1>4, <3>1, <3>3, <4>1, <4>2
    <3>4. QED
      BY <3>2, <3>3
  <2>3. QED
    BY <2>1, <2>2
<1>9. QED
  BY <1>5, <1>6, <1>7, <1>8 DEF Linked, q

\* Links with f after p spell the order with f right under p.
LEMMA LinkedUnder ==
  ASSUME NEW s, NEW t, NEW L, NEW o, NEW f, f \notin L, f # None, None \notin L, Linked(s, L, o),
         NEW p \in L, \A g \in L : s.level[g] \in Level, PutUnder(s, t, L, p, f)
  PROVE  Linked(t, L \cup {f}, WithUnder(L, o, p, f))
<1> DEFINE K == L \cup {f}
           q == WithUnder(L, o, p, f)
<1>1. /\ \A g \in L : s.above[g] \in L \cup {None} /\ s.under[g] \in L \cup {None}
      /\ \A g, h \in L : s.above[g] = h <=> s.under[h] = g
      /\ \A g \in L : s.above[g] # None => s.above[g] \in o[g] /\ s.level[s.above[g]] = s.level[g]
      /\ \A g \in L : s.under[g] # None => g \in o[s.under[g]] /\ s.level[s.under[g]] = s.level[g]
      /\ \A g \in L : s.above[g] = None <=> s.top[s.level[g]] = g
      /\ \A g \in L : s.above[g] = None <=> o[g] = {}
  BY Neighbours
<1>2. Levelled(s.level, L, o) /\ \A g \in L : o[g] \subseteq L
  BY DEF Linked, Levelled
<1>3. /\ q \in [K -> SUBSET K] /\ \A h : h \in q[f] <=> h = p \/ h \in o[p]
      /\ \A g \in L : \A h : h \in q[g] <=> h \in o[g] \/ (h = f /\ p \in o[g])
  BY <1>2 DEF WithUnder
<1>4. (\A g \in L : t.level[g] = s.level[g]) /\ t.level[f] = s.level[p]
  BY DEF PutUnder
<1> HIDE DEF q
<1>5. Levelled(t.level, K, q)
  <2>1. \A g \in K : g \notin q[g]
    BY <1>2, <1>3 DEF Levelled
  <2>2. ASSUME NEW g \in K, NEW h \in q[g]
        PROVE  t.level[h] = t.level[g] /\ \A k \in q[h] : k \in q[g]
    <3>1. CASE g = f
      <4>1. h \in L /\ (h = p \/ h \in o[p])
        BY <1>2, <1>3, <2>2, <3>1
      <4>2. t.level[h] = t.level[g] /\ (\A k \in o[h] : k \in o[p]) /\ p \notin o[h]
        BY <1>2, <1>4, <3>1, <4>1 DEF Levelled
      <4>3. QED
        BY <1>3, <3>1, <4>1, <4>2
    <3>2. CASE g # f /\ h = f
      <4>1. g \in L /\ p \in o[g]
        BY <1>2, <1>3, <2>2, <3>2
      <4>2. s.level[p] = s.level[g] /\ \A k \in o[p] : k \in o[g]
        BY <1>2, <4>1 DEF Levelled
      <4>3. QED
        BY <1>3, <1>4, <3>2, <4>1, <4>2
    <3>3. CASE g # f /\ h # f
      <4>1. g \in L /\ h \in o[g] /\ h \in L
        BY <1>2, <1>3, <2>2, <3>3
      <4>2. t.level[h] = t.level[g] /\ \A k \in o[h] : k \in o[g]
        BY <1>2, <1>4, <4>1 DEF Levelled
      <4>3. QED
        BY <1>3, <4>1, <4>2
    <3>4. QED
      BY <3>1, <3>2, <3>3
  <2>3. ASSUME NEW g \in K, NEW h \in K, t.level[g] = t.level[h]
        PROVE  g = h \/ g \in q[h] \/ h \in q[g]
    <3>1. CASE g # f /\ h # f
      BY <1>2, <1>3, <1>4, <2>3, <3>1 DEF Levelled
    <3>2. CASE g = f /\ h # f
      BY <1>2, <1>3, <1>4, <2>3, <3>2 DEF Levelled
    <3>3. CASE g # f /\ h = f
      BY <1>2, <1>3, <1>4, <2>3, <3>3 DEF Levelled
    <3>4. QED
      BY <3>1, <3>2, <3>3
  <2>4. QED
    BY <1>3, <2>1, <2>2, <2>3 DEF Levelled
<1>6. ASSUME NEW g \in K PROVE IF t.above[g] = None THEN q[g] = {} ELSE RightOver(K, q, t.above[g], g)
  <2>1. CASE g = f
    <3>1. t.above[g] = p /\ p # None
      BY <2>1 DEF PutUnder
    <3>2. p # f /\ f \notin o[p] /\ p \notin o[p]
      BY <1>2 DEF Levelled
    <3>3. \A h \in K : h \in q[f] <=> h = p \/ h \in q[p]
      BY <1>3, <3>2
    <3>4. QED
      BY <2>1, <3>1, <3>3 DEF RightOver
  <2>2. CASE g # f /\ g = s.under[p]
    <3>1. g \in L /\ t.above[g] = f /\ \A h \in L : h \in o[g] <=> h = p \/ h \in o[p]
      BY <2>2 DEF PutUnder, Linked, RightOver
    <3>2. \A h \in K : h \in q[g] <=> h = f \/ h \in q[f]
      BY <1>2, <1>3, <3>1
    <3>3. QED
      BY <3>1, <3>2 DEF RightOver
  <2>3. CASE g # f /\ g # s.under[p]
    <3>1. g \in L /\ t.above[g] = s.above[g] /\ s.above[g] # p
      BY <1>1, <2>3 DEF PutUnder
    <3>2. CASE s.above[g] = None
      <4>1. \A h \in K : h \notin q[g]
        BY <1>1, <1>3, <3>1, <3>2
      <4>2. QED
        BY <1>3, <3>1, <3>2, <4>1
    <3>3. CASE s.above[g] # None
      <4> DEFINE a == s.above[g]
      <4>1. a \in L /\ a # p /\ \A h \in L : h \in o[g] <=> h = a \/ h \in o[a]
        BY <1>1, <3>1, <3>3 DEF Linked, RightOver
      <4>2. \A h \in K : h \in q[g] <=> h = a \/ h \in q[a]
        BY <1>2, <1>3, <3>1, <4>1
      <4>3. QED
        BY <3>1, <3>3, <4>1, <4>2 DEF RightOver
    <3>4. QED
      BY <3>2, <3>3
  <2>4. QED
    BY <2>1, <2>2, <2>3
<1>7. ASSUME NEW g \in K
      PROVE  IF t.under[g] = None THEN \A h \in K : g \notin q[h]
             ELSE t.under[g] \in K /\ RightOver(K, q, g, t.under[g])
  <2>1. CASE g = f
    <3>1. t.under[f] = s.under[p]
      BY DEF PutUnder
    <3>2. CASE s.under[p] = None
      <4>1. \A h \in L : p \notin o[h]
        BY <3>2 DEF Linked
      <4>2. QED
        BY <1>2, <1>3, <2>1, <3>1, <3>2, <4>1
    <3>3. CASE s.under[p] # None
      <4> DEFINE u == s.under[p]
      <4>1. u \in L /\ \A h \in L : h \in o[u] <=> h = p \/ h \in o[p]
        BY <3>3 DEF Linked, RightOver
      <4>2. \A h \in K : h \in q[u] <=> h = f \/ h \in q[f]
        BY <1>2, <1>3, <4>1
      <4>3. QED
        BY <2>1, <3>1, <3>3, <4>1, <4>2 DEF RightOver
    <3>4. QED
      BY <3>2, <3>3
  <2>2. CASE g = p
    <3>1. g # f /\ t.under[g] = f /\ f # None /\ g \notin o[g] /\ f \notin o[g]
      BY <1>2, <2>2 DEF PutUnder, Levelled
    <3>2. \A h \in K : h \in q[f] <=> h = g \/ h \in q[g]
      BY <1>3, <2>2, <3>1
    <3>3. QED
      BY <3>1, <3>2 DEF RightOver
  <2>3. CASE g # f /\ g # p
    <3>1. g \in L /\ t.under[g] = s.under[g]
      BY <2>3 DEF PutUnder
    <3>2. CASE s.under[g] = None
      <4>1. \A h \in L : g \notin o[h]
        BY <3>1, <3>2 DEF Linked
      <4>2. QED
        BY <1>3, <2>3, <3>1, <3>2, <4>1
    <3>3. CASE s.under[g] # None
      <4> DEFINE u == s.under[g]
      <4>1. u \in L /\ \A h \in L : h \in o[u] <=> h = g \/ h \in o[g]
        BY <3>1, <3>3 DEF Linked, RightOver
      <4>2. \A h \in K : h \in q[u] <=> h = g \/ h \in q[g]
        BY <1>2, <1>3, <2>3, <3>1, <4>1
      <4>3. QED
        BY <3>1, <3>3, <4>1, <4>2 DEF RightOver
    <3>4. QED
      BY <3>2, <3>3
  <2>4. QED
    BY <2>1, <2>2, <2>3
<1>8. ASSUME NEW l \in Level
      PROVE  IF t.top[l] = None THEN \A g \in K : t.level[g] # l
             ELSE t.top[l] \in K /\ t.level[t.top[l]] = l /\ q[t.top[l]] = {}
  <2>1. t.top[l] = s.top[l]
    BY DEF PutUnder
  <2>2. CASE s.top[l] = None
    <3>1. \A g \in L : s.level[g] # l
      BY <2>2 DEF Linked
    <3>2. QED
      BY <1>4, <2>1, <2>2, <3>1
  <2>3. CASE s.top[l] # None
    <3>1. s.top[l] \in L /\ s.level[s.top[l]] = l /\ o[s.top[l]] = {}
      BY <2>3 DEF Linked
    <3>2. \A h \in K : h \notin q[s.top[l]]
      BY <1>3, <3>1
    <3>3. QED
      BY <1>3, <1>4, <2>1, <2>3, <3>1, <3>2
  <2>4. QED
    BY <2>2, <2>3
<1>9. QED
  BY <1>5, <1>6, <1>7, <1>8 DEF Linked, q

\* What the assignments through pointers leave.
LEMMA StackFields ==
  ASSUME NEW s \in Stacks
  PROVE  /\ s.above \in Links /\ s.under \in Links /\ s.level \in [Frame -> Level]
         /\ s.top \in [Level -> Frame \cup {None}]
BY DEF Stacks

AboveSet(s, t, f, g) ==
  /\ t \in Stacks /\ t.level = s.level /\ t.top = s.top /\ t.under = s.under
  /\ \A h \in Frame : t.above[h] = IF h = f THEN g ELSE s.above[h]
UnderSet(s, t, f, g) ==
  /\ t \in Stacks /\ t.level = s.level /\ t.top = s.top /\ t.above = s.above
  /\ \A h \in Frame : t.under[h] = IF h = f THEN g ELSE s.under[h]
TopSet(s, t, l, g) ==
  /\ t \in Stacks /\ t.level = s.level /\ t.above = s.above /\ t.under = s.under
  /\ \A k \in Level : t.top[k] = IF k = l THEN g ELSE s.top[k]

\* What the assignments through a pointer change.
LEMMA SetFields ==
  ASSUME NEW s \in Stacks, NEW f \in Frame \cup {None}, NEW g \in Frame \cup {None}
  PROVE  AboveSet(s, SetAbove(s, f, g), f, g) /\ UnderSet(s, SetUnder(s, f, g), f, g)
<1>1. None \notin Frame
  BY StackingAssumption
<1>2. CASE f = None
  BY <1>1, <1>2 DEF SetAbove, SetUnder, AboveSet, UnderSet
<1>3. CASE f # None
  BY <1>1, <1>3 DEF SetAbove, SetUnder, AboveSet, UnderSet, Stacks, Links
<1>4. QED
  BY <1>2, <1>3

\* The top of a level is set, and nothing else.
LEMMA SetTopFields ==
  ASSUME NEW s \in Stacks, NEW l \in Level, NEW g \in Frame \cup {None}
  PROVE  TopSet(s, SetTop(s, l, g), l, g)
BY DEF SetTop, TopSet, Stacks, Links

\* Unlinking changes the links of the two neighbours to each other.
LEMMA UnlinkFields ==
  ASSUME NEW s \in Stacks, NEW f \in Frame
  PROVE  /\ Unlink(s, f) \in Stacks /\ Unlink(s, f).level = s.level /\ Unlink(s, f).top = s.top
         /\ \A h \in Frame : /\ Unlink(s, f).above[h] = IF h = s.under[f] THEN s.above[f] ELSE s.above[h]
                             /\ Unlink(s, f).under[h] = IF h = s.above[f] THEN s.under[f] ELSE s.under[h]
<1> DEFINE u == s.under[f]
           a == s.above[f]
           s1 == SetAbove(s, u, a)
           s2 == SetUnder(s1, a, u)
<1>0. 1 \in Level /\ u \in Frame \cup {None} /\ a \in Frame \cup {None}
  BY StackFields, StackingAssumption DEF Links, Level
<1> HIDE DEF u, a
<1>1. /\ s1 \in Stacks /\ s1.level = s.level /\ s1.top = s.top /\ s1.under = s.under
      /\ \A h \in Frame : s1.above[h] = IF h = u THEN a ELSE s.above[h]
  <2>1. AboveSet(s, s1, u, a)
    BY <1>0, SetFields
  <2>2. QED
    BY <2>1 DEF AboveSet
<1> HIDE DEF s1
<1>2. /\ s2 \in Stacks /\ s2.level = s1.level /\ s2.top = s1.top /\ s2.above = s1.above
      /\ \A h \in Frame : s2.under[h] = IF h = a THEN u ELSE s1.under[h]
  <2>1. UnderSet(s1, s2, a, u)
    BY <1>0, <1>1, SetFields
  <2>2. QED
    BY <2>1 DEF UnderSet
<1>3. Unlink(s, f) = s2
  BY DEF Unlink, u, a, s1
<1> HIDE DEF s2
<1>4. QED
  BY <1>1, <1>2, <1>3 DEF u, a

\* Linking on top changes f, the old top and the top.
LEMMA LinkOnTopFields ==
  ASSUME NEW s \in Stacks, NEW f \in Frame, s.top[s.level[f]] # f
  PROVE  LET t == LinkOnTop(s, f)
             top == s.top[s.level[f]]
         IN /\ t \in Stacks /\ t.level = s.level
            /\ \A h \in Frame : /\ t.above[h] = IF h = top THEN f ELSE IF h = f THEN None ELSE s.above[h]
                                /\ t.under[h] = IF h = f THEN top ELSE s.under[h]
            /\ \A k \in Level : t.top[k] = IF k = s.level[f] THEN f ELSE s.top[k]
<1> DEFINE l == s.level[f]
           top == s.top[l]
           s1 == SetAbove(s, f, None)
           s2 == SetUnder(s1, f, top)
           s3 == SetAbove(s2, top, f)
           s4 == SetTop(s3, l, f)
<1>0. l \in Level /\ top \in Frame \cup {None} /\ top # f
  BY StackFields
<1> HIDE DEF top, l
<1>1. /\ s1 \in Stacks /\ s1.level = s.level /\ s1.top = s.top /\ s1.under = s.under
      /\ \A h \in Frame : s1.above[h] = IF h = f THEN None ELSE s.above[h]
  <2>1. AboveSet(s, s1, f, None)
    BY <1>0, SetFields
  <2>2. QED
    BY <2>1 DEF AboveSet
<1> HIDE DEF s1
<1>2. /\ s2 \in Stacks /\ s2.level = s1.level /\ s2.top = s1.top /\ s2.above = s1.above
      /\ \A h \in Frame : s2.under[h] = IF h = f THEN top ELSE s1.under[h]
  <2>1. UnderSet(s1, s2, f, top)
    BY <1>0, <1>1, SetFields
  <2>2. QED
    BY <2>1 DEF UnderSet
<1> HIDE DEF s2
<1>3. /\ s3 \in Stacks /\ s3.level = s2.level /\ s3.top = s2.top /\ s3.under = s2.under
      /\ \A h \in Frame : s3.above[h] = IF h = top THEN f ELSE s2.above[h]
  <2>1. AboveSet(s2, s3, top, f)
    BY <1>0, <1>2, SetFields
  <2>2. QED
    BY <2>1 DEF AboveSet
<1> HIDE DEF s3
<1>4. /\ s4 \in Stacks /\ s4.level = s3.level /\ s4.above = s3.above /\ s4.under = s3.under
      /\ \A k \in Level : s4.top[k] = IF k = l THEN f ELSE s3.top[k]
  <2>1. TopSet(s3, s4, l, f)
    BY <1>0, <1>3, SetTopFields
  <2>2. QED
    BY <2>1 DEF TopSet
<1>5. LinkOnTop(s, f) = s4
  BY DEF LinkOnTop, top, l, s1, s2, s3
<1> HIDE DEF s4
<1>6. QED
  BY <1>1, <1>2, <1>3, <1>4, <1>5 DEF l, top

\* Linking under p changes p, f and the frame that was under p.
LEMMA LinkUnderFields ==
  ASSUME NEW s \in Stacks, NEW f \in Frame, NEW p \in Frame, p # f, s.under[p] # f
  PROVE  LET t == LinkUnder(s, p, f)
         IN /\ t \in Stacks /\ t.level = s.level /\ t.top = s.top
            /\ \A h \in Frame : /\ t.above[h] = IF h = s.under[p] THEN f ELSE IF h = f THEN p ELSE s.above[h]
                                /\ t.under[h] = IF h = p THEN f ELSE IF h = f THEN s.under[p] ELSE s.under[h]
<1> DEFINE u == s.under[p]
           s1 == SetAbove(s, f, p)
           s2 == SetUnder(s1, f, u)
           s3 == SetAbove(s2, u, f)
           s4 == SetUnder(s3, p, f)
<1>0. 1 \in Level /\ u \in Frame \cup {None} /\ u # f
  BY StackFields, StackingAssumption DEF Links, Level
<1> HIDE DEF u
<1>1. /\ s1 \in Stacks /\ s1.level = s.level /\ s1.top = s.top /\ s1.under = s.under
      /\ \A h \in Frame : s1.above[h] = IF h = f THEN p ELSE s.above[h]
  <2>1. AboveSet(s, s1, f, p)
    BY <1>0, SetFields
  <2>2. QED
    BY <2>1 DEF AboveSet
<1> HIDE DEF s1
<1>2. /\ s2 \in Stacks /\ s2.level = s1.level /\ s2.top = s1.top /\ s2.above = s1.above
      /\ \A h \in Frame : s2.under[h] = IF h = f THEN u ELSE s1.under[h]
  <2>1. UnderSet(s1, s2, f, u)
    BY <1>0, <1>1, SetFields
  <2>2. QED
    BY <2>1 DEF UnderSet
<1> HIDE DEF s2
<1>3. /\ s3 \in Stacks /\ s3.level = s2.level /\ s3.top = s2.top /\ s3.under = s2.under
      /\ \A h \in Frame : s3.above[h] = IF h = u THEN f ELSE s2.above[h]
  <2>1. AboveSet(s2, s3, u, f)
    BY <1>0, <1>2, SetFields
  <2>2. QED
    BY <2>1 DEF AboveSet
<1> HIDE DEF s3
<1>4. /\ s4 \in Stacks /\ s4.level = s3.level /\ s4.top = s3.top /\ s4.above = s3.above
      /\ \A h \in Frame : s4.under[h] = IF h = p THEN f ELSE s3.under[h]
  <2>1. UnderSet(s3, s4, p, f)
    BY <1>0, <1>3, SetFields
  <2>2. QED
    BY <2>1 DEF UnderSet
<1>5. LinkUnder(s, p, f) = s4
  BY DEF LinkUnder, u, s1, s2, s3
<1> HIDE DEF s4
<1>6. QED
  BY <1>1, <1>2, <1>3, <1>4, <1>5 DEF u

\* The operations on the lists, on the order they spell.
Listed(s, L, o) == s \in Stacks /\ L \subseteq Frame /\ Linked(s, L, o)

\* What lists that spell an order are known to satisfy.
LEMMA ListedFacts ==
  ASSUME NEW s, NEW L, NEW o, Listed(s, L, o)
  PROVE  /\ None \notin L /\ None \notin Frame /\ L \subseteq Frame /\ s \in Stacks
         /\ Linked(s, L, o) /\ Levelled(s.level, L, o)
         /\ s.level \in [Frame -> Level] /\ s.top \in [Level -> Frame \cup {None}]
         /\ \A f \in L : s.level[f] \in Level
         /\ \A f \in L : s.above[f] \in L \cup {None} /\ s.under[f] \in L \cup {None}
         /\ \A f, g \in L : s.above[f] = g <=> s.under[g] = f
         /\ \A f \in L : s.above[f] # None => s.above[f] \in o[f] /\ s.level[s.above[f]] = s.level[f]
         /\ \A f \in L : s.under[f] # None => f \in o[s.under[f]] /\ s.level[s.under[f]] = s.level[f]
         /\ \A f \in L : s.above[f] = None <=> s.top[s.level[f]] = f
         /\ \A f \in L : s.above[f] = None <=> o[f] = {}
         /\ \A l \in Level : s.top[l] \in L \cup {None}
         /\ \A l \in Level : s.top[l] \in L => s.level[s.top[l]] = l /\ o[s.top[l]] = {}
<1>1. /\ None \notin L /\ None \notin Frame /\ L \subseteq Frame /\ s \in Stacks
      /\ Linked(s, L, o) /\ Levelled(s.level, L, o)
      /\ s.level \in [Frame -> Level] /\ s.top \in [Level -> Frame \cup {None}]
  BY StackingAssumption, StackFields DEF Listed, Linked
<1>2. \A f \in L : s.level[f] \in Level
  BY <1>1
<1>3. \A l \in Level : s.top[l] \in L \cup {None}
  BY <1>1 DEF Linked
<1>4. \A l \in Level : s.top[l] \in L => s.level[s.top[l]] = l /\ o[s.top[l]] = {}
  BY <1>1 DEF Linked
<1>5. QED
  BY <1>1, <1>2, <1>3, <1>4, Neighbours

\* A frame that is not listed can be put on top of its level.
LEMMA ListedOnTop ==
  ASSUME NEW s, NEW L, NEW o, Listed(s, L, o), NEW f \in Frame \ L
  PROVE  /\ Listed(LinkOnTop(s, f), L \cup {f}, WithTop(s.level, L, o, f))
         /\ LinkOnTop(s, f).level = s.level
<1> DEFINE t == LinkOnTop(s, f)
           top == s.top[s.level[f]]
<1>1. /\ None \notin L /\ None \notin Frame /\ L \subseteq Frame /\ s \in Stacks
      /\ Linked(s, L, o) /\ s.level \in [Frame -> Level] /\ \A g \in L : s.level[g] \in Level
      /\ \A l \in Level : s.top[l] \in L \cup {None}
  BY ListedFacts
<1>2. s.level[f] \in Level /\ top # f
  BY <1>1
<1>3. /\ t \in Stacks /\ t.level = s.level
      /\ \A h \in Frame : /\ t.above[h] = IF h = top THEN f ELSE IF h = f THEN None ELSE s.above[h]
                          /\ t.under[h] = IF h = f THEN top ELSE s.under[h]
      /\ \A k \in Level : t.top[k] = IF k = s.level[f] THEN f ELSE s.top[k]
  BY <1>1, <1>2, LinkOnTopFields
<1> HIDE DEF t
<1>4. PutOnTop(s, t, L, f)
  BY <1>1, <1>2, <1>3 DEF PutOnTop
<1>5. Linked(t, L \cup {f}, WithTop(t.level, L, o, f))
  BY <1>1, <1>4, LinkedOnTop
<1>6. QED
  BY <1>1, <1>3, <1>5 DEF Listed, t

\* A frame that is not listed can be put under one of its level.
LEMMA ListedUnder ==
  ASSUME NEW s, NEW L, NEW o, Listed(s, L, o), NEW f \in Frame \ L, NEW p \in L,
         s.level[p] = s.level[f]
  PROVE  /\ Listed(LinkUnder(s, p, f), L \cup {f}, WithUnder(L, o, p, f))
         /\ LinkUnder(s, p, f).level = s.level /\ LinkUnder(s, p, f).above[f] = p
<1> DEFINE t == LinkUnder(s, p, f)
<1>1. /\ None \notin L /\ None \notin Frame /\ L \subseteq Frame /\ s \in Stacks
      /\ Linked(s, L, o) /\ s.level \in [Frame -> Level] /\ \A g \in L : s.level[g] \in Level
      /\ s.under[p] \in L \cup {None}
  BY ListedFacts
<1>2. p # f /\ s.under[p] # f /\ p \in Frame
  BY <1>1
<1>3. /\ t \in Stacks /\ t.level = s.level /\ t.top = s.top
      /\ \A h \in Frame : /\ t.above[h] = IF h = s.under[p] THEN f ELSE IF h = f THEN p ELSE s.above[h]
                          /\ t.under[h] = IF h = p THEN f ELSE IF h = f THEN s.under[p] ELSE s.under[h]
  BY <1>1, <1>2, LinkUnderFields
<1> HIDE DEF t
<1>4. PutUnder(s, t, L, p, f)
  BY <1>1, <1>2, <1>3 DEF PutUnder
<1>5. Linked(t, L \cup {f}, WithUnder(L, o, p, f))
  BY <1>1, <1>4, LinkedUnder
<1>6. t.above[f] = p
  BY <1>2, <1>3
<1>7. QED
  BY <1>1, <1>3, <1>5, <1>6 DEF Listed, t

\* A frame is taken out in three ways, which leave the same pointers in the others.
Removed(s, f) ==
  IF s.above[f] = None THEN SetTop(Unlink(s, f), s.level[f], s.under[f]) ELSE Unlink(s, f)
Lifted(s, f) ==
  IF s.top[s.level[f]] = f THEN SetAbove(SetTop(s, s.level[f], s.under[f]), s.under[f], None)
  ELSE Unlink(s, f)
Cut(s, f) ==
  Unlink(IF s.top[s.level[f]] = f THEN SetTop(s, s.level[f], s.under[f]) ELSE s, f)

\* A frame can be taken out.
LEMMA ListedWithout ==
  ASSUME NEW s, NEW L, NEW o, Listed(s, L, o), NEW f \in L, NEW t \in Stacks, TakenOut(s, t, L, f)
  PROVE  Listed(t, L \ {f}, Without(L, o, f))
<1>1. None \notin L /\ L \subseteq Frame /\ Linked(s, L, o) /\ \A g \in L : s.level[g] \in Level
  BY ListedFacts
<1>2. Linked(t, L \ {f}, Without(L, o, f))
  BY <1>1, LinkedTakenOut
<1>3. QED
  BY <1>1, <1>2 DEF Listed

\* RemoveFromStackList takes the frame out of the lists.
LEMMA RemovedTakenOut ==
  ASSUME NEW s, NEW L, NEW o, Listed(s, L, o), NEW f \in L
  PROVE  Removed(s, f) \in Stacks /\ Removed(s, f).level = s.level /\ TakenOut(s, Removed(s, f), L, f)
<1> DEFINE t == Unlink(s, f)
           l == s.level[f]
           v == SetTop(t, l, s.under[f])
<1>1. /\ None \notin L /\ L \subseteq Frame /\ s \in Stacks /\ l \in Level /\ f \in Frame
      /\ s.under[f] \in Frame \cup {None}
      /\ (s.above[f] = None <=> s.top[l] = f)
      /\ \A k \in Level : s.top[k] \in L => s.level[s.top[k]] = k
  BY ListedFacts
<1>2. /\ t \in Stacks /\ t.level = s.level /\ t.top = s.top
      /\ \A h \in Frame : /\ t.above[h] = IF h = s.under[f] THEN s.above[f] ELSE s.above[h]
                          /\ t.under[h] = IF h = s.above[f] THEN s.under[f] ELSE s.under[h]
  BY <1>1, UnlinkFields
<1> HIDE DEF t
<1>3. TopSet(t, v, l, s.under[f])
  BY <1>1, <1>2, SetTopFields
<1> HIDE DEF v
<1>4. \A k \in Level : s.top[k] = f => k = l
  BY <1>1
<1>5. CASE s.above[f] = None
  <2>1. Removed(s, f) = v
    BY <1>5 DEF Removed, t, v
  <2>2. TakenOut(s, v, L, f)
    BY <1>1, <1>2, <1>3, <1>4, <1>5 DEF TakenOut, TopSet
  <2>3. QED
    BY <1>2, <1>3, <2>1, <2>2 DEF TopSet
<1>6. CASE s.above[f] # None
  <2>1. Removed(s, f) = t
    BY <1>6 DEF Removed, t
  <2>2. TakenOut(s, t, L, f)
    BY <1>1, <1>2, <1>4, <1>6 DEF TakenOut
  <2>3. QED
    BY <1>2, <2>1, <2>2
<1>7. QED
  BY <1>5, <1>6

\* So does what wLowerFrame begins with, which moves the top by itself.
LEMMA LiftedTakenOut ==
  ASSUME NEW s, NEW L, NEW o, Listed(s, L, o), NEW f \in L
  PROVE  Lifted(s, f) \in Stacks /\ Lifted(s, f).level = s.level /\ TakenOut(s, Lifted(s, f), L, f)
<1> DEFINE t == Unlink(s, f)
           l == s.level[f]
           u == s.under[f]
           v == SetTop(s, l, u)
           w == SetAbove(v, u, None)
<1>1. /\ None \notin L /\ L \subseteq Frame /\ s \in Stacks /\ l \in Level /\ f \in Frame
      /\ u \in Frame \cup {None}
      /\ (s.above[f] = None <=> s.top[l] = f)
      /\ \A k \in Level : s.top[k] \in L => s.level[s.top[k]] = k
  BY ListedFacts
<1>2. /\ t \in Stacks /\ t.level = s.level /\ t.top = s.top
      /\ \A h \in Frame : /\ t.above[h] = IF h = s.under[f] THEN s.above[f] ELSE s.above[h]
                          /\ t.under[h] = IF h = s.above[f] THEN s.under[f] ELSE s.under[h]
  BY <1>1, UnlinkFields
<1> HIDE DEF t
<1>3. TopSet(s, v, l, u)
  BY <1>1, SetTopFields
<1> HIDE DEF v
<1>4. AboveSet(v, w, u, None)
  <2>1. v \in Stacks /\ None \in Frame \cup {None}
    BY <1>3 DEF TopSet
  <2>2. QED
    BY <1>1, <2>1, SetFields
<1> HIDE DEF w
<1>5. \A k \in Level : s.top[k] = f => k = l
  BY <1>1
<1>6. CASE s.top[l] = f
  <2>1. Lifted(s, f) = w
    BY <1>6 DEF Lifted, w, v
  <2>2. /\ w \in Stacks /\ w.level = s.level /\ w.under = s.under
        /\ (\A h \in Frame : w.above[h] = IF h = u THEN None ELSE s.above[h])
        /\ \A k \in Level : w.top[k] = IF k = l THEN u ELSE s.top[k]
    BY <1>3, <1>4 DEF TopSet, AboveSet
  <2>3. TakenOut(s, w, L, f)
    BY <1>1, <1>5, <1>6, <2>2 DEF TakenOut
  <2>4. QED
    BY <2>1, <2>2, <2>3
<1>7. CASE s.top[l] # f
  <2>1. Lifted(s, f) = t
    BY <1>7 DEF Lifted, t
  <2>2. TakenOut(s, t, L, f)
    BY <1>1, <1>2, <1>5, <1>7 DEF TakenOut
  <2>3. QED
    BY <1>2, <2>1, <2>2
<1>8. QED
  BY <1>6, <1>7

\* So does what MoveInStackListUnder does before it links the frame again.
LEMMA CutTakenOut ==
  ASSUME NEW s, NEW L, NEW o, Listed(s, L, o), NEW f \in L
  PROVE  Cut(s, f) \in Stacks /\ Cut(s, f).level = s.level /\ TakenOut(s, Cut(s, f), L, f)
<1> DEFINE l == s.level[f]
           u == s.under[f]
           v == IF s.top[l] = f THEN SetTop(s, l, u) ELSE s
           t == Unlink(v, f)
<1>1. /\ None \notin L /\ L \subseteq Frame /\ s \in Stacks /\ l \in Level /\ f \in Frame
      /\ u \in Frame \cup {None}
      /\ \A k \in Level : s.top[k] \in L => s.level[s.top[k]] = k
  BY ListedFacts
<1>2. \A k \in Level : s.top[k] = f => k = l
  BY <1>1
<1>3. /\ v \in Stacks /\ v.level = s.level /\ v.above = s.above /\ v.under = s.under
      /\ \A k \in Level : v.top[k] = IF s.top[k] = f THEN u ELSE s.top[k]
  <2>1. CASE s.top[l] = f
    <3>1. TopSet(s, SetTop(s, l, u), l, u)
      BY <1>1, SetTopFields
    <3>2. QED
      BY <1>2, <2>1, <3>1 DEF TopSet
  <2>2. CASE s.top[l] # f
    BY <1>1, <1>2, <2>2
  <2>3. QED
    BY <2>1, <2>2
<1> HIDE DEF v
<1>4. /\ t \in Stacks /\ t.level = v.level /\ t.top = v.top
      /\ \A h \in Frame : /\ t.above[h] = IF h = v.under[f] THEN v.above[f] ELSE v.above[h]
                          /\ t.under[h] = IF h = v.above[f] THEN v.under[f] ELSE v.under[h]
  BY <1>1, <1>3, UnlinkFields
<1>5. Cut(s, f) = t
  BY DEF Cut, v
<1> HIDE DEF t
<1>6. TakenOut(s, t, L, f)
  BY <1>1, <1>3, <1>4 DEF TakenOut
<1>7. QED
  BY <1>3, <1>4, <1>5, <1>6

-----------------------------------------------------------------------------
(* The server's order *)

\* Among the frames L that are not in P, the server's order X is Q.
Agree(X, Q, L, P) == \A f, g \in L \ P : g \in X[f] <=> g \in Q[f]

\* Putting one window under another keeps the server's order an order.
LEMMA MoveOrdered ==
  ASSUME NEW X, NEW E, Ordered(X, E), NEW p \in E, NEW f \in E, p # f
  PROVE  /\ Ordered(MoveFrameToUnder(X, p, f), E)
         /\ \A h : h \in MoveFrameToUnder(X, p, f)[f] <=> h = p \/ (h \in X[p] /\ h # f)
         /\ \A g \in E \ {f} : \A h : h \in MoveFrameToUnder(X, p, f)[g] <=>
                                    (h # f /\ h \in X[g]) \/ (h = f /\ p \in X[g])
<1> DEFINE y == MoveFrameToUnder(X, p, f)
<1>1. DOMAIN X = E /\ (\A g \in E : X[g] \subseteq E)
  BY DEF Ordered
<1>2. /\ y \in [E -> SUBSET E]
      /\ \A h : h \in y[f] <=> h = p \/ (h \in X[p] /\ h # f)
      /\ \A g \in E \ {f} : \A h : h \in y[g] <=> (h # f /\ h \in X[g]) \/ (h = f /\ p \in X[g])
  BY <1>1 DEF MoveFrameToUnder
<1> HIDE DEF y
<1>3. \A g \in E : g \notin y[g]
  BY <1>2 DEF Ordered
<1>4. ASSUME NEW g \in E, NEW h \in y[g], NEW k \in y[h] PROVE k \in y[g]
  <2>0. h \in E /\ k \in E
    BY <1>2, <1>4
  <2>1. CASE g = f
    BY <1>1, <1>2, <1>4, <2>0, <2>1 DEF Ordered
  <2>2. CASE g # f /\ h = f
    BY <1>1, <1>2, <1>4, <2>0, <2>2 DEF Ordered
  <2>3. CASE g # f /\ h # f
    BY <1>1, <1>2, <1>4, <2>0, <2>3 DEF Ordered
  <2>4. QED
    BY <2>1, <2>2, <2>3
<1>5. ASSUME NEW g \in E, NEW h \in E PROVE g = h \/ g \in y[h] \/ h \in y[g]
  <2>1. CASE g = f
    BY <1>2, <2>1 DEF Ordered
  <2>2. CASE g # f /\ h = f
    BY <1>2, <2>2 DEF Ordered
  <2>3. CASE g # f /\ h # f
    BY <1>2, <2>3 DEF Ordered
  <2>4. QED
    BY <2>1, <2>2, <2>3
<1>6. Ordered(y, E)
  BY <1>2, <1>3, <1>4, <1>5 DEF Ordered
<1>7. QED
  BY <1>2, <1>6 DEF y

\* Raising a window at the server does, too.
LEMMA RaiseOrdered ==
  ASSUME NEW X, NEW E, Ordered(X, E), NEW f \in E
  PROVE  /\ Ordered(XRaiseWindow(X, f), E)
         /\ \A h : h \notin XRaiseWindow(X, f)[f]
         /\ \A g \in E \ {f} : \A h : h \in XRaiseWindow(X, f)[g] <=> h = f \/ h \in X[g]
<1> DEFINE y == XRaiseWindow(X, f)
<1>1. DOMAIN X = E /\ (\A g \in E : X[g] \subseteq E)
  BY DEF Ordered
<1>2. /\ y \in [E -> SUBSET E]
      /\ \A h : h \notin y[f]
      /\ \A g \in E \ {f} : \A h : h \in y[g] <=> h = f \/ h \in X[g]
  BY <1>1 DEF XRaiseWindow
<1> HIDE DEF y
<1>3. \A g \in E : g \notin y[g]
  BY <1>2 DEF Ordered
<1>4. ASSUME NEW g \in E, NEW h \in y[g], NEW k \in y[h] PROVE k \in y[g]
  BY <1>1, <1>2, <1>4 DEF Ordered
<1>5. ASSUME NEW g \in E, NEW h \in E PROVE g = h \/ g \in y[h] \/ h \in y[g]
  BY <1>2 DEF Ordered
<1>6. Ordered(y, E)
  BY <1>2, <1>3, <1>4, <1>5 DEF Ordered
<1>7. QED
  BY <1>2, <1>6 DEF y

\* So does restacking many, which end up in the order that was given.
LEMMA RestackOrdered ==
  ASSUME NEW X, NEW E, IsFiniteSet(E), Ordered(X, E), NEW L \in SUBSET E, NEW Q, Ordered(Q, L)
  PROVE  /\ Ordered(XRestackWindows(X, Q), E)
         /\ Agree(XRestackWindows(X, Q), Q, L, {})
<1> DEFINE F == CHOOSE g \in L : Q[g] = {}
           y == XRestackWindows(X, Q)
<1>1. /\ DOMAIN X = E /\ DOMAIN Q = L /\ (\A g \in E : X[g] \subseteq E)
      /\ (\A g \in L : Q[g] \subseteq L)
  BY DEF Ordered
<1>2. L # {} => F \in L /\ Q[F] = {}
  <2>1. SUFFICES ASSUME L # {} PROVE \E g \in L : Q[g] = {}
    OBVIOUS
  <2>2. IsFiniteSet(L)
    BY FS_Subset
  <2>3. /\ Q \in [L -> SUBSET L] /\ (\A g \in L : g \notin Q[g])
        /\ \A g \in L : \A h \in Q[g] : Q[h] \subseteq Q[g]
    BY DEF Ordered
  <2>4. QED
    BY <2>1, <2>2, <2>3, FirstExists
<1>3. y = [g \in E |-> IF g \in L THEN Q[g] \cup (X[F] \ L)
                       ELSE (X[g] \ L) \cup (IF F \in X[g] THEN L ELSE {})]
  BY <1>1 DEF XRestackWindows
<1> HIDE DEF F
<1>4. /\ \A g \in L : \A h : h \in y[g] <=> h \in Q[g] \/ (h \notin L /\ h \in X[F])
      /\ \A g \in E \ L : \A h : h \in y[g] <=> (h \notin L /\ h \in X[g]) \/ (h \in L /\ F \in X[g])
  BY <1>1, <1>3
<1>5. y \in [E -> SUBSET E]
  BY <1>1, <1>2, <1>3
<1> HIDE DEF y
<1>6. \A g \in E : g \notin y[g]
  BY <1>4 DEF Ordered
<1>7. ASSUME NEW g \in E, NEW h \in y[g], NEW k \in y[h] PROVE k \in y[g]
  <2>0. h \in E /\ k \in E /\ (L # {} => F \in E)
    BY <1>2, <1>5, <1>7
  <2>1. CASE g \in L /\ h \in L
    BY <1>1, <1>4, <1>7, <2>0, <2>1 DEF Ordered
  <2>2. CASE g \in L /\ h \notin L
    <3>1. h \in X[F] /\ F \in E
      BY <1>1, <1>4, <1>7, <2>0, <2>2
    <3>2. F \notin X[h]
      BY <2>0, <3>1 DEF Ordered
    <3>3. k \notin L /\ k \in X[h]
      BY <1>4, <2>0, <2>2, <3>2
    <3>4. k \in X[F]
      BY <3>1, <3>3 DEF Ordered
    <3>5. QED
      BY <1>4, <2>2, <3>3, <3>4
  <2>3. CASE g \notin L /\ h \in L
    <3>1. F \in X[g]
      BY <1>4, <1>7, <2>3
    <3>2. CASE k \in L
      BY <1>4, <2>3, <3>1, <3>2
    <3>3. CASE k \notin L
      BY <1>1, <1>4, <1>7, <2>0, <2>3, <3>1, <3>3 DEF Ordered
    <3>4. QED
      BY <3>2, <3>3
  <2>4. CASE g \notin L /\ h \notin L
    <3>1. h \in X[g]
      BY <1>4, <1>7, <2>4
    <3>2. k \in L => F \in X[h]
      BY <1>4, <1>7, <2>0, <2>4
    <3>3. k \notin L => k \in X[h]
      BY <1>4, <1>7, <2>0, <2>4
    <3>4. \A a \in X[h] : a \in X[g]
      BY <2>0, <3>1 DEF Ordered
    <3>5. QED
      BY <1>4, <2>4, <3>2, <3>3, <3>4
  <2>5. QED
    BY <2>1, <2>2, <2>3, <2>4
<1>8. ASSUME NEW g \in E, NEW h \in E PROVE g = h \/ g \in y[h] \/ h \in y[g]
  <2>1. CASE g \in L /\ h \in L
    BY <1>4, <2>1 DEF Ordered
  <2>2. CASE g \in L /\ h \notin L
    BY <1>2, <1>4, <2>2 DEF Ordered
  <2>3. CASE g \notin L /\ h \in L
    BY <1>2, <1>4, <2>3 DEF Ordered
  <2>4. CASE g \notin L /\ h \notin L
    BY <1>4, <2>4 DEF Ordered
  <2>5. QED
    BY <2>1, <2>2, <2>3, <2>4
<1>9. Ordered(y, E)
  BY <1>5, <1>6, <1>7, <1>8 DEF Ordered
<1>10. Agree(y, Q, L, {})
  BY <1>4 DEF Agree
<1>11. QED
  BY <1>9, <1>10 DEF y

\* A frame that is put under the one right over it, or on top when there is none, is in
\* its place.
LEMMA PlacedUnder ==
  ASSUME NEW X, NEW E, Ordered(X, E), NEW L \in SUBSET E, NEW Q, Ordered(Q, L), NEW P,
         NEW f \in L, NEW p \in L \ P, p # f, RightOver(L, Q, p, f), Agree(X, Q, L, P)
  PROVE  Agree(MoveFrameToUnder(X, p, f), Q, L, P \ {f})
<1> DEFINE y == MoveFrameToUnder(X, p, f)
<1>1. /\ \A h : h \in y[f] <=> h = p \/ (h \in X[p] /\ h # f)
      /\ \A g \in E \ {f} : \A h : h \in y[g] <=> (h # f /\ h \in X[g]) \/ (h = f /\ p \in X[g])
  BY MoveOrdered
<1> HIDE DEF y
<1>2. ASSUME NEW h \in L, h # f PROVE f \in Q[h] <=> p \in Q[h]
  <2>1. p \in Q[f]
    BY DEF RightOver
  <2>2. f \in Q[h] => p \in Q[h]
    BY <2>1 DEF Ordered
  <2>3. ASSUME p \in Q[h], f \notin Q[h] PROVE FALSE
    <3>1. h \in Q[f]
      BY <1>2, <2>3 DEF Ordered
    <3>2. h = p \/ h \in Q[p]
      BY <3>1 DEF RightOver
    <3>3. QED
      BY <2>3, <3>2 DEF Ordered
  <2>4. QED
    BY <2>2, <2>3
<1>3. ASSUME NEW a \in L \ (P \ {f}), NEW b \in L \ (P \ {f}) PROVE b \in y[a] <=> b \in Q[a]
  <2>1. CASE a = f /\ b = f
    BY <1>1, <2>1 DEF Ordered
  <2>2. CASE a = f /\ b # f
    <3>1. b \in L \ P /\ (b \in X[p] <=> b \in Q[p])
      BY <2>2 DEF Agree
    <3>2. QED
      BY <1>1, <2>2, <3>1 DEF RightOver
  <2>3. CASE a # f /\ b = f
    <3>1. a \in L \ P /\ (p \in X[a] <=> p \in Q[a])
      BY <2>3 DEF Agree
    <3>2. QED
      BY <1>1, <1>2, <2>3, <3>1
  <2>4. CASE a # f /\ b # f
    <3>1. b \in X[a] <=> b \in Q[a]
      BY <2>4 DEF Agree
    <3>2. QED
      BY <1>1, <2>4, <3>1
  <2>5. QED
    BY <2>1, <2>2, <2>3, <2>4
<1>4. QED
  BY <1>3 DEF Agree, y

\* A frame above all others in the lists is in its place when it is raised.
LEMMA PlacedOnTop ==
  ASSUME NEW X, NEW E, Ordered(X, E), NEW L \in SUBSET E, NEW Q, Ordered(Q, L), NEW P,
         NEW f \in L, Q[f] = {}, Agree(X, Q, L, P)
  PROVE  Agree(XRaiseWindow(X, f), Q, L, P \ {f})
<1> DEFINE y == XRaiseWindow(X, f)
<1>1. /\ \A h : h \notin y[f]
      /\ \A g \in E \ {f} : \A h : h \in y[g] <=> h = f \/ h \in X[g]
  BY RaiseOrdered
<1> HIDE DEF y
<1>2. ASSUME NEW a \in L \ (P \ {f}), NEW b \in L \ (P \ {f}) PROVE b \in y[a] <=> b \in Q[a]
  <2>1. CASE a = f
    BY <1>1, <2>1
  <2>2. CASE a # f /\ b = f
    BY <1>1, <2>2 DEF Ordered
  <2>3. CASE a # f /\ b # f
    <3>1. b \in X[a] <=> b \in Q[a]
      BY <2>3 DEF Agree
    <3>2. QED
      BY <1>1, <2>3, <3>1
  <2>4. QED
    BY <2>1, <2>2, <2>3
<1>3. QED
  BY <1>2 DEF Agree, y

\* The order the lists stand for: higher levels first.
Shown(s, L, o) == [f \in L |-> {g \in L : s.level[g] > s.level[f] \/ g \in o[f]}]

\* What the lists show is an order, and it is the one that CommitStacking sends.
LEMMA ShownOrdered ==
  ASSUME NEW s, NEW L, NEW o, Listed(s, L, o)
  PROVE  Ordered(Shown(s, L, o), L) /\ Listing(s) = Shown(s, L, o)
<1> DEFINE Q == Shown(s, L, o)
<1>1. /\ L \subseteq Frame /\ s \in Stacks /\ Linked(s, L, o) /\ Levelled(s.level, L, o)
      /\ \A f \in L : s.level[f] \in Level
  BY ListedFacts
<1>2. \A f \in L : s.level[f] \in Nat
  BY <1>1, StackingAssumption DEF Level
<1>3. Q \in [L -> SUBSET L] /\ \A f \in L : \A g : g \in Q[f] <=> g \in L /\ (s.level[g] > s.level[f] \/ g \in o[f])
  BY DEF Shown
<1> HIDE DEF Q
<1>4. \A f \in L : f \notin Q[f]
  BY <1>1, <1>2, <1>3 DEF Levelled
<1>5. ASSUME NEW f \in L, NEW g \in Q[f], NEW h \in Q[g] PROVE h \in Q[f]
  <2>1. g \in L /\ h \in L /\ s.level[f] \in Nat /\ s.level[g] \in Nat /\ s.level[h] \in Nat
    BY <1>2, <1>3, <1>5
  <2>2. g \in o[f] => s.level[g] = s.level[f] /\ (h \in o[g] => h \in o[f])
    BY <1>1, <2>1 DEF Levelled
  <2>3. h \in o[g] => s.level[h] = s.level[g]
    BY <1>1, <2>1 DEF Levelled
  <2>4. (s.level[g] > s.level[f] \/ g \in o[f]) /\ (s.level[h] > s.level[g] \/ h \in o[g])
    BY <1>3, <1>5, <2>1
  <2>5. s.level[h] > s.level[f] \/ h \in o[f]
    BY <2>1, <2>2, <2>3, <2>4
  <2>6. QED
    BY <1>3, <2>1, <2>5
<1>6. ASSUME NEW f \in L, NEW g \in L PROVE f = g \/ f \in Q[g] \/ g \in Q[f]
  <2>1. s.level[f] = s.level[g] => f = g \/ f \in o[g] \/ g \in o[f]
    BY <1>1 DEF Levelled
  <2>2. s.level[f] = s.level[g] \/ s.level[f] > s.level[g] \/ s.level[g] > s.level[f]
    BY <1>2
  <2>3. QED
    BY <1>3, <2>1, <2>2
<1>7. Ordered(Q, L)
  BY <1>3, <1>4, <1>5, <1>6 DEF Ordered
<1>8. Listing(s) = Q
  <2> DEFINE met == UNION {Column(s, l) : l \in Level}
  <2>1. \A l \in Level : Column(s, l) = {g \in L : s.level[g] = l}
    BY <1>1, WalksDown
  <2>2. met = L
    BY <1>1, <2>1
  <2>3. \A g \in L : Below(s, g) = {h \in L : g \in o[h]}
    BY <1>1, WalksDown
  <2> HIDE DEF met
  <2>4. ASSUME NEW f \in L, NEW g \in L
        PROVE  (s.level[g] = s.level[f] /\ f \in Below(s, g)) <=> g \in o[f]
    <3>1. f \in Below(s, g) <=> g \in o[f]
      BY <2>3
    <3>2. g \in o[f] => s.level[g] = s.level[f]
      BY <1>1 DEF Levelled
    <3>3. QED
      BY <3>1, <3>2
  <2>5. Listing(s) = [f \in L |-> {g \in L : \/ s.level[g] > s.level[f]
                                             \/ s.level[g] = s.level[f] /\ f \in Below(s, g)}]
    BY <2>2 DEF Listing, met
  <2>6. ASSUME NEW f \in L
        PROVE  {g \in L : \/ s.level[g] > s.level[f]
                          \/ s.level[g] = s.level[f] /\ f \in Below(s, g)}
               = {g \in L : s.level[g] > s.level[f] \/ g \in o[f]}
    BY <2>4
  <2>7. QED
    BY <2>5, <2>6 DEF Q, Shown
<1>9. QED
  BY <1>7, <1>8 DEF Q

\* The lists and the server's order of the frames E, of which L are listed in the order o,
\* with only the frames of P out of their place at the server.
OnDesk(d, E, L, o, P) ==
  /\ d = [s |-> d.s, x |-> d.x]
  /\ Listed(d.s, L, o) /\ E \subseteq Frame /\ L \subseteq E /\ Ordered(d.x, E)
  /\ Agree(d.x, Shown(d.s, L, o), L, P)

\* CommitStacking brings all the listed frames in order.
LEMMA CommitAll ==
  ASSUME NEW d, d = [s |-> d.s, x |-> d.x], NEW L, NEW o, Listed(d.s, L, o),
         NEW E \in SUBSET Frame, L \subseteq E, Ordered(d.x, E)
  PROVE  OnDesk(CommitStacking(d), E, L, o, {}) /\ CommitStacking(d).s = d.s
<1> DEFINE Q == Shown(d.s, L, o)
           c == CommitStacking(d)
<1>1. Ordered(Q, L) /\ Listing(d.s) = Q
  BY ShownOrdered
<1>2. IsFiniteSet(E)
  BY StackingAssumption, FS_Subset
<1>3. c = [s |-> d.s, x |-> XRestackWindows(d.x, Q)]
  BY <1>1 DEF CommitStacking
<1> HIDE DEF c, Q
<1>4. Ordered(XRestackWindows(d.x, Q), E) /\ Agree(XRestackWindows(d.x, Q), Q, L, {})
  BY <1>1, <1>2, RestackOrdered
<1>5. QED
  BY <1>3, <1>4 DEF OnDesk, c, Q

\* CommitStackingForWindow brings one frame in its place, if the frames over it are in
\* theirs.
LEMMA CommitOne ==
  ASSUME NEW d, NEW E, NEW L, NEW o, NEW P, OnDesk(d, E, L, o, P), NEW f \in L,
         \A p \in P : p \notin o[f] /\ d.s.level[p] = d.s.level[f]
  PROVE  OnDesk(CommitStackingForWindow(d, f), E, L, o, P \ {f})
<1> DEFINE s == d.s
           X == d.x
           Q == Shown(s, L, o)
           l == s.level[f]
           higher == {k \in Level : k > l /\ s.top[k] # None}
           c == CommitStackingForWindow(d, f)
<1>1. /\ d = [s |-> s, x |-> X] /\ Listed(s, L, o) /\ L \subseteq E /\ Ordered(X, E) /\ E \subseteq Frame
      /\ Agree(X, Q, L, P) /\ Ordered(Q, L)
  BY ShownOrdered DEF OnDesk
<1>2. /\ None \notin L /\ L \subseteq Frame /\ s \in Stacks /\ Linked(s, L, o) /\ Levelled(s.level, L, o)
      /\ (\A g \in L : s.level[g] \in Level)
      /\ (\A k \in Level : s.top[k] \in L \cup {None})
      /\ (\A g \in L : s.above[g] # None => s.above[g] \in o[g] /\ s.level[s.above[g]] = s.level[g])
      /\ (\A g \in L : s.above[g] \in L \cup {None}) /\ (s.above[f] = None <=> o[f] = {})
  BY <1>1, ListedFacts
<1>3. (\A g \in L : s.level[g] \in Nat) /\ Level \subseteq Nat
  BY <1>2, StackingAssumption DEF Level
<1>4. \A g \in L : \A h : h \in Q[g] <=> h \in L /\ (s.level[h] > s.level[g] \/ h \in o[g])
  BY DEF Shown
<1>5. c.x = IF s.above[f] # None THEN MoveFrameToUnder(X, s.above[f], f)
            ELSE IF higher # {} THEN MoveFrameToUnder(X, Bottom(s, Min(higher)), f)
            ELSE XRaiseWindow(X, f)
  BY <1>1 DEF CommitStackingForWindow
<1>6. c = [s |-> s, x |-> c.x]
  BY <1>1 DEF CommitStackingForWindow
<1> HIDE DEF Q, c, X
<1>7. Ordered(c.x, E) /\ Agree(c.x, Q, L, P \ {f})
  <2>1. CASE s.above[f] # None
    <3> DEFINE a == s.above[f]
    <3>1. a \in L /\ a \in o[f] /\ s.level[a] = s.level[f] /\ RightOver(L, o, a, f)
      BY <1>2, <2>1 DEF Linked
    <3>2. a # f /\ a \in L \ P
      BY <1>2, <3>1 DEF Levelled
    <3>3. RightOver(L, Q, a, f)
      BY <1>4, <3>1 DEF RightOver
    <3>4. c.x = MoveFrameToUnder(X, a, f)
      BY <1>5, <2>1
    <3> HIDE DEF a, s
    <3>5. Ordered(c.x, E)
      <4>1. a \in E /\ f \in E
        BY <1>1, <3>1
      <4>2. QED
        BY <1>1, <3>2, <3>4, <4>1, MoveOrdered
    <3>6. Agree(c.x, Q, L, P \ {f})
      BY <1>1, <3>2, <3>3, <3>4, PlacedUnder
    <3>7. QED
      BY <3>5, <3>6
  <2>2. CASE s.above[f] = None /\ higher # {}
    <3> DEFINE m == Min(higher)
               b == Bottom(s, m)
    <3>1. m \in higher /\ \A k \in higher : m <= k
      <4>1. higher \in SUBSET Nat
        BY <1>3
      <4>2. \E k \in higher : \A j \in higher : k <= j
        <5> HIDE DEF higher
        <5>1. QED
          BY <2>2, <4>1, LeastNumber
      <4> HIDE DEF higher
      <4>3. QED
        BY <4>2 DEF Min
    <3>2. m \in Level /\ m > l /\ s.top[m] # None
      BY <3>1
    <3>3. b \in L /\ s.level[b] = m /\ \A g \in L : b \notin o[g]
      BY <1>2, <3>2, BottomIsLast
    <3> HIDE DEF b
    <3>4. b # f /\ b \in L \ P
      BY <1>2, <1>3, <3>2, <3>3
    <3>5. ASSUME NEW h \in L PROVE h \in Q[f] <=> h = b \/ h \in Q[b]
      <4>0. o[f] = {} /\ s.level[h] \in Nat /\ m \in Nat /\ l \in Nat /\ s.level[h] \in Level
        BY <1>2, <1>3, <2>2, <3>2
      <4>1. h \in Q[f] <=> s.level[h] > l
        BY <1>4, <4>0
      <4>2. s.level[h] > l => s.level[h] >= m
        <5>1. s.top[s.level[h]] # None
          BY <1>2 DEF Linked
        <5>2. s.level[h] > l => s.level[h] \in higher
          BY <4>0, <5>1
        <5> HIDE DEF higher, m
        <5>3. QED
          BY <3>1, <4>0, <5>2
      <4>3. s.level[h] = m => h = b \/ h \in o[b]
        BY <1>2, <3>3 DEF Levelled
      <4>4. h \in o[b] => s.level[h] = m
        BY <1>2, <3>3 DEF Levelled
      <4>5. h \in Q[b] <=> s.level[h] > m \/ h \in o[b]
        BY <1>4, <3>3
      <4> HIDE DEF m, l
      <4>6. QED
        BY <3>2, <3>3, <4>0, <4>1, <4>2, <4>3, <4>4, <4>5
    <3>6. RightOver(L, Q, b, f)
      BY <3>3, <3>5 DEF RightOver
    <3>7. c.x = MoveFrameToUnder(X, b, f)
      BY <1>5, <2>2 DEF b
    <3> HIDE DEF s
    <3>8. Ordered(c.x, E)
      <4>1. b \in E /\ f \in E
        BY <1>1, <3>3
      <4>2. QED
        BY <1>1, <3>4, <3>7, <4>1, MoveOrdered
    <3>9. Agree(c.x, Q, L, P \ {f})
      BY <1>1, <3>4, <3>6, <3>7, PlacedUnder
    <3>10. QED
      BY <3>8, <3>9
  <2>3. CASE s.above[f] = None /\ higher = {}
    <3>1. \A h \in L : h \notin Q[f]
      <4>1. SUFFICES ASSUME NEW h \in L, s.level[h] > l PROVE FALSE
        BY <1>2, <1>4, <2>3
      <4>2. s.level[h] \in Level /\ s.top[s.level[h]] # None
        BY <1>2 DEF Linked
      <4>3. s.level[h] \in higher
        BY <4>1, <4>2
      <4>4. QED
        BY <2>3, <4>3
    <3>2. Q[f] = {}
      BY <1>1, <3>1 DEF Ordered
    <3>3. c.x = XRaiseWindow(X, f)
      BY <1>5, <2>3
    <3> HIDE DEF s
    <3>4. Ordered(c.x, E)
      <4>1. f \in E
        BY <1>1
      <4>2. QED
        BY <1>1, <3>3, <4>1, RaiseOrdered
    <3>5. Agree(c.x, Q, L, P \ {f})
      BY <1>1, <3>2, <3>3, PlacedOnTop
    <3>6. QED
      BY <3>4, <3>5
  <2>4. QED
    BY <2>1, <2>2, <2>3
<1>8. c.s = s
  BY <1>6
<1>9. QED
  BY <1>1, <1>6, <1>7, <1>8 DEF OnDesk, Q, c

-----------------------------------------------------------------------------
(* The operations *)

\* The frames of K are over one another in q as in o.
Same(o, q, K) == \A f, g \in K : g \in q[f] <=> g \in o[f]

\* RemoveFromStackList keeps the order of all others.
LEMMA RemoveListed ==
  ASSUME NEW d, d = [s |-> d.s, x |-> d.x], NEW L, NEW o, Listed(d.s, L, o), NEW f \in L
  PROVE  /\ RemoveFrame(d, f) = [s |-> Removed(d.s, f), x |-> d.x]
         /\ Listed(Removed(d.s, f), L \ {f}, Without(L, o, f))
         /\ Removed(d.s, f).level = d.s.level
         /\ Same(o, Without(L, o, f), L \ {f})
<1>1. RemoveFrame(d, f) = [s |-> Removed(d.s, f), x |-> d.x]
  BY DEF RemoveFrame, Removed
<1>2. /\ Removed(d.s, f) \in Stacks /\ Removed(d.s, f).level = d.s.level
      /\ TakenOut(d.s, Removed(d.s, f), L, f)
  BY RemovedTakenOut
<1>3. Listed(Removed(d.s, f), L \ {f}, Without(L, o, f))
  BY <1>2, ListedWithout
<1>4. Same(o, Without(L, o, f), L \ {f})
  BY DEF Same, Without
<1>5. QED
  BY <1>1, <1>2, <1>3, <1>4

\* A frame that is added finds a place among the others, and everything is committed.
AddedBy(d, e, E, L, o, q, f) ==
  OnDesk(e, E, L \cup {f}, q, {}) /\ Same(o, q, L) /\ e.s.level = d.s.level

\* AddToStackList lists the frame, keeps the order of the others and has the server show it.
LEMMA AddListed ==
  ASSUME NEW d, d = [s |-> d.s, x |-> d.x], NEW L, NEW o, Listed(d.s, L, o),
         NEW E \in SUBSET Frame, L \subseteq E, Ordered(d.x, E), NEW f \in E \ L
  PROVE  \E q : AddedBy(d, AddFrame(d, f), E, L, o, q, f)
<1> DEFINE l == d.s.level[f]
           kids == {g \in Column(d.s, l) : child_of[g] = f}
           p == Lowest(d.s, kids)
           t == IF kids = {} THEN LinkOnTop(d.s, f) ELSE LinkUnder(d.s, p, f)
           q == IF kids = {} THEN WithTop(d.s.level, L, o, f) ELSE WithUnder(L, o, p, f)
           c == [s |-> t, x |-> d.x]
<1>1. /\ None \notin L /\ L \subseteq Frame /\ d.s \in Stacks /\ Linked(d.s, L, o) /\ l \in Level
      /\ Levelled(d.s.level, L, o)
  BY ListedFacts
<1>2. \A k \in Level : Column(d.s, k) = {g \in L : d.s.level[g] = k}
  BY <1>1, WalksDown
<1>3. kids \in SUBSET L /\ \A g \in kids : d.s.level[g] = l
  BY <1>1, <1>2
<1>4. AddFrame(d, f) = CommitStacking(c)
  BY DEF AddFrame
<1> HIDE DEF kids, l
<1>5. Listed(t, L \cup {f}, q) /\ t.level = d.s.level /\ Same(o, q, L)
  <2>1. CASE kids = {}
    <3>1. /\ Listed(LinkOnTop(d.s, f), L \cup {f}, WithTop(d.s.level, L, o, f))
          /\ LinkOnTop(d.s, f).level = d.s.level
      BY ListedOnTop
    <3>2. Same(o, WithTop(d.s.level, L, o, f), L)
      BY DEF Same, WithTop
    <3>3. QED
      BY <2>1, <3>1, <3>2
  <2>2. CASE kids # {}
    <3>1. p \in kids
      BY <1>1, <1>3, <2>2, LowestIsLast
    <3>2. p \in L /\ d.s.level[p] = d.s.level[f]
      BY <1>3, <3>1 DEF l
    <3> HIDE DEF p
    <3>3. /\ Listed(LinkUnder(d.s, p, f), L \cup {f}, WithUnder(L, o, p, f))
          /\ LinkUnder(d.s, p, f).level = d.s.level
      BY <3>2, ListedUnder
    <3>4. Same(o, WithUnder(L, o, p, f), L)
      BY DEF Same, WithUnder
    <3>5. QED
      BY <2>2, <3>3, <3>4
  <2>3. QED
    BY <2>1, <2>2
<1> HIDE DEF t, q
<1>6. OnDesk(CommitStacking(c), E, L \cup {f}, q, {}) /\ CommitStacking(c).s = t
  <2>1. c = [s |-> c.s, x |-> c.x] /\ c.s = t /\ c.x = d.x
    OBVIOUS
  <2> HIDE DEF c
  <2>2. L \cup {f} \subseteq E
    OBVIOUS
  <2>3. QED
    BY <1>5, <2>1, <2>2, CommitAll
<1>7. AddedBy(d, AddFrame(d, f), E, L, o, q, f)
  BY <1>4, <1>5, <1>6 DEF AddedBy
<1>8. QED
  BY <1>7

\* A frame put under another, and not yet moved there at the server.
PutAt(d, v, E, L, o, q, p, f) ==
  /\ OnDesk([s |-> v, x |-> d.x], E, L, q, {f})
  /\ v.level = d.s.level /\ v.above[f] = p
  /\ Same(o, q, L \ {f})
  /\ \A h \in L \ {f} : h \in q[f] <=> h = p \/ h \in o[p]
  /\ \A g \in L \ {f} : f \in q[g] <=> p \in o[g]

\* A frame taken out and put under another leaves the others as they were.
LEMMA PutListed ==
  ASSUME NEW d, NEW E, NEW L, NEW o, OnDesk(d, E, L, o, {}), NEW f \in L, NEW t \in Stacks,
         t.level = d.s.level, TakenOut(d.s, t, L, f), NEW p \in L \ {f}, d.s.level[p] = d.s.level[f],
         NEW q, q = WithUnder(L \ {f}, Without(L, o, f), p, f)
  PROVE  PutAt(d, LinkUnder(t, p, f), E, L, o, q, p, f)
<1> DEFINE K == L \ {f}
           o1 == Without(L, o, f)
           v == LinkUnder(t, p, f)
           c == [s |-> v, x |-> d.x]
<1>1. /\ d = [s |-> d.s, x |-> d.x] /\ Listed(d.s, L, o) /\ E \subseteq Frame /\ L \subseteq E
      /\ Ordered(d.x, E) /\ Agree(d.x, Shown(d.s, L, o), L, {}) /\ L \subseteq Frame
  BY DEF OnDesk, Listed
<1>2. Listed(t, K, o1)
  BY <1>1, ListedWithout
<1>3. f \in Frame \ K /\ p \in K /\ t.level[p] = t.level[f] /\ K \cup {f} = L
  BY <1>1
<1>4. Listed(v, L, q) /\ v.level = t.level /\ v.above[f] = p
  <2>0. q = WithUnder(K, o1, p, f)
    OBVIOUS
  <2> HIDE DEF K, o1
  <2>1. /\ Listed(LinkUnder(t, p, f), K \cup {f}, WithUnder(K, o1, p, f))
        /\ LinkUnder(t, p, f).level = t.level /\ LinkUnder(t, p, f).above[f] = p
    BY <1>2, <1>3, ListedUnder
  <2>2. QED
    BY <1>3, <2>0, <2>1
<1>5. /\ \A g, h \in K : h \in q[g] <=> h \in o[g]
      /\ \A h \in K : h \in q[f] <=> h = p \/ h \in o[p]
      /\ \A g \in K : f \in q[g] <=> p \in o[g]
  BY <1>3 DEF Without, WithUnder
<1> HIDE DEF v
<1>6. Agree(d.x, Shown(v, L, q), L, {f})
  <2>1. ASSUME NEW g \in L \ {f}, NEW h \in L \ {f} PROVE h \in d.x[g] <=> h \in Shown(v, L, q)[g]
    <3>1. h \in d.x[g] <=> h \in Shown(d.s, L, o)[g]
      BY <1>1 DEF Agree
    <3>2. h \in Shown(d.s, L, o)[g] <=> d.s.level[h] > d.s.level[g] \/ h \in o[g]
      BY DEF Shown
    <3>3. h \in Shown(v, L, q)[g] <=> d.s.level[h] > d.s.level[g] \/ h \in q[g]
      BY <1>4 DEF Shown
    <3>4. QED
      BY <1>5, <3>1, <3>2, <3>3
  <2>2. QED
    BY <2>1 DEF Agree
<1>7. OnDesk(c, E, L, q, {f})
  BY <1>1, <1>4, <1>6 DEF OnDesk
<1>8. QED
  BY <1>4, <1>5, <1>7 DEF v, Same, PutAt

\* wLowerFrame moves one frame; one that is over its owner, or has none, stays over it
\* and is not raised.
LoweredBy(d, e, E, L, o, q, f) ==
  /\ OnDesk(e, E, L, q, {}) /\ Same(o, q, L \ {f}) /\ e.s.level = d.s.level
  /\ (child_of[f] \in L /\ d.s.level[child_of[f]] = d.s.level[f] => f \in o[child_of[f]])
       => /\ \A h \in o[f] : h \in q[f]
          /\ child_of[f] \in L /\ f \in o[child_of[f]] => f \in q[child_of[f]]

\* wLowerFrame keeps the lists and the server together.
LEMMA LowerListed ==
  ASSUME NEW d, NEW E, NEW L, NEW o, OnDesk(d, E, L, o, {}), NEW f \in L
  PROVE  \E q : LoweredBy(d, LowerFrame(d, f), E, L, o, q, f)
<1> DEFINE s == d.s
           l == s.level[f]
           owner == child_of[f]
           s1 == Lifted(s, f)
           o1 == Without(L, o, f)
           down == Column(s1, l)
           K == L \ {f}
           p == IF owner = s1.top[l] THEN owner
                ELSE IF owner \in down THEN s1.above[owner] ELSE Bottom(s1, l)
           c == [s |-> LinkUnder(s1, p, f), x |-> d.x]
           q == WithUnder(K, o1, p, f)
<1>1. /\ d = [s |-> s, x |-> d.x] /\ Listed(s, L, o) /\ E \subseteq Frame /\ L \subseteq E
  BY DEF OnDesk
<1>2. /\ None \notin L /\ L \subseteq Frame /\ s \in Stacks /\ Linked(s, L, o) /\ l \in Level
      /\ Levelled(s.level, L, o) /\ (\A g \in L : s.level[g] \in Level)
      /\ (\A g \in L : s.under[g] # None => g \in o[s.under[g]] /\ s.level[s.under[g]] = s.level[g])
      /\ s.under[f] \in L \cup {None}
  BY <1>1, ListedFacts
<1>3. CASE s.under[f] = None \/ s.under[f] = owner
  <2>1. LowerFrame(d, f) = d
    BY <1>3 DEF LowerFrame
  <2>2. LoweredBy(d, LowerFrame(d, f), E, L, o, o, f)
    BY <2>1 DEF Same, LoweredBy
  <2>3. QED
    BY <2>2
<1>4. CASE s.under[f] # None /\ s.under[f] # owner
  <2>1. LowerFrame(d, f) = CommitStackingForWindow(c, f)
    BY <1>1, <1>4 DEF LowerFrame, Lifted
  <2>2. s1 \in Stacks /\ s1.level = s.level /\ TakenOut(s, s1, L, f) /\ Listed(s1, K, o1)
    BY <1>1, LiftedTakenOut, ListedWithout
  <2> HIDE DEF s1
  <2>3. /\ (\A g \in K : s1.above[g] \in K \cup {None})
        /\ (\A g \in K : s1.above[g] # None => s1.above[g] \in o1[g] /\ s1.level[s1.above[g]] = s1.level[g])
        /\ (\A g \in K : s1.above[g] = None <=> s1.top[s1.level[g]] = g)
        /\ s1.top[l] \in K \cup {None} /\ (s1.top[l] \in K => s1.level[s1.top[l]] = l /\ o1[s1.top[l]] = {})
        /\ Linked(s1, K, o1) /\ None \notin K /\ K \subseteq Frame
    BY <1>2, <2>2, ListedFacts
  <2>4. s1.top[l] # None
    <3>1. s.under[f] \in K /\ s1.level[s.under[f]] = l
      BY <1>2, <1>4, <2>2 DEF Levelled
    <3>2. QED
      BY <1>2, <2>3, <3>1 DEF Linked
  <2>5. down = {g \in K : s.level[g] = l}
    <3>1. \A k \in Level : Column(s1, k) = {g \in K : s1.level[g] = k}
      BY <2>2, <2>3, WalksDown
    <3>2. QED
      BY <1>2, <2>2, <3>1
  <2>6. \A g, h \in K : h \in o1[g] <=> h \in o[g]
    BY DEF Without
  <2> HIDE DEF o1, down
  <2>7. ASSUME owner \notin down PROVE p \in K /\ s.level[p] = l /\ \A g \in K : p \notin o1[g]
    <3>1. owner # s1.top[l]
      BY <2>2, <2>3, <2>4, <2>5, <2>7
    <3>2. p = Bottom(s1, l)
      BY <2>7, <3>1
    <3>3. Bottom(s1, l) \in K /\ s1.level[Bottom(s1, l)] = l /\ \A g \in K : Bottom(s1, l) \notin o1[g]
      <4> HIDE DEF K, l
      <4>1. QED
        BY <1>2, <2>2, <2>3, <2>4, BottomIsLast
    <3>4. QED
      BY <2>2, <3>2, <3>3
  <2>8. ASSUME owner = s1.top[l] PROVE p = owner /\ p \in K /\ s.level[p] = l /\ o1[p] = {}
    BY <2>2, <2>3, <2>4, <2>8
  <2>9. ASSUME owner \in down, owner # s1.top[l]
        PROVE  /\ p \in K /\ s.level[p] = l /\ p \in o1[owner]
               /\ \A h \in K : h \in o1[owner] <=> h = p \/ h \in o1[p]
    <3>1. owner \in K /\ s1.level[owner] = l /\ s1.above[owner] # None /\ p = s1.above[owner]
      BY <2>2, <2>3, <2>5, <2>9
    <3> HIDE DEF p
    <3>2. RightOver(K, o1, p, owner)
      <4>1. RightOver(K, o1, s1.above[owner], owner)
        BY <2>3, <3>1 DEF Linked
      <4>2. QED
        BY <3>1, <4>1
    <3>3. QED
      BY <2>2, <2>3, <3>1, <3>2 DEF RightOver
  <2>10. p \in K /\ s.level[p] = l
    BY <2>7, <2>8, <2>9
  <2> HIDE DEF p
  <2>11. /\ OnDesk(c, E, L, q, {f}) /\ c.s.level = s.level /\ Same(o, q, K)
         /\ (\A h \in K : h \in q[f] <=> h = p \/ h \in o[p])
         /\ (\A g \in K : f \in q[g] <=> p \in o[g])
    <3>1. q = WithUnder(L \ {f}, Without(L, o, f), p, f) /\ p \in L \ {f} /\ d.s.level[p] = d.s.level[f]
      BY <2>10 DEF o1
    <3> HIDE DEF q
    <3>2. PutAt(d, LinkUnder(s1, p, f), E, L, o, q, p, f)
      BY <2>2, <3>1, PutListed
    <3>3. QED
      BY <3>2 DEF PutAt
  <2> HIDE DEF q, c
  <2>12. /\ OnDesk(CommitStackingForWindow(c, f), E, L, q, {f} \ {f})
         /\ CommitStackingForWindow(c, f).s = c.s
    <3>1. f \notin q[f]
      BY <2>11 DEF OnDesk, Listed, Linked, Levelled
    <3>2. \A g \in {f} : g \notin q[f] /\ c.s.level[g] = c.s.level[f]
      BY <3>1
    <3>3. OnDesk(CommitStackingForWindow(c, f), E, L, q, {f} \ {f})
      BY <2>11, <3>2, CommitOne
    <3>4. CommitStackingForWindow(c, f).s = c.s
      BY <2>11 DEF OnDesk, CommitStackingForWindow
    <3>5. QED
      BY <3>3, <3>4
  <2>13. {f} \ {f} = {}
    OBVIOUS
  <2>14. ASSUME owner \in L /\ s.level[owner] = s.level[f] => f \in o[owner]
         PROVE  /\ \A h \in o[f] : h \in q[f]
                /\ owner \in L /\ f \in o[owner] => f \in q[owner]
    <3>0. \A h \in o[f] : h \in K /\ s.level[h] = l
      BY <1>2 DEF Levelled
    <3>1. CASE owner \notin down
      <4>1. \A h \in o[f] : h \in q[f]
        <5>1. \A h \in K : s.level[h] = l => h = p \/ h \in o[p]
          BY <1>2, <2>6, <2>7, <2>10, <3>1 DEF Levelled
        <5>2. QED
          BY <2>11, <3>0, <5>1
      <4>2. owner \notin L \/ f \notin o[owner]
        BY <1>2, <2>5, <3>1 DEF Levelled
      <4>3. QED
        BY <4>1, <4>2
    <3>2. CASE owner \in down /\ owner # s1.top[l]
      <4>1. owner \in K /\ s.level[owner] = l /\ f \in o[owner]
        BY <2>5, <2>14, <3>2
      <4>2. ASSUME NEW h \in o[f] PROVE h \in q[f]
        <5>1. h \in o[owner] /\ h \in K
          BY <1>2, <3>0, <4>1 DEF Levelled
        <5>2. h = p \/ h \in o[p]
          BY <2>6, <2>9, <2>10, <3>2, <4>1, <5>1
        <5>3. QED
          BY <2>11, <5>1, <5>2
      <4>3. f \in q[owner]
        BY <2>6, <2>9, <2>10, <2>11, <3>2, <4>1
      <4>4. QED
        BY <4>2, <4>3
    <3>3. CASE owner = s1.top[l]
      <4>1. owner \in K /\ s.level[owner] = l /\ f \in o[owner] /\ \A h \in K : h \notin o[owner]
        BY <2>6, <2>8, <2>14, <3>3
      <4>2. s.under[f] \in K /\ f \in o[s.under[f]] /\ s.level[s.under[f]] = l
        BY <1>2, <1>4 DEF Levelled
      <4>3. owner \in o[s.under[f]]
        BY <1>2, <1>4, <4>1, <4>2 DEF Levelled
      <4>4. \A h \in L : h \in o[s.under[f]] <=> h = f \/ h \in o[f]
        BY <1>2, <1>4 DEF Linked, RightOver
      <4>5. QED
        BY <1>2, <4>1, <4>3, <4>4 DEF Levelled
    <3>4. QED
      BY <3>1, <3>2, <3>3
  <2>15. LoweredBy(d, LowerFrame(d, f), E, L, o, q, f)
    BY <2>1, <2>11, <2>12, <2>13, <2>14 DEF LoweredBy
  <2>16. QED
    BY <2>15
<1>5. QED
  BY <1>3, <1>4

-----------------------------------------------------------------------------
(* Raising *)

\* A frame that is not on top goes there, ahead of the server.
OnTopBy(d, e, E, L, o, q, P, f) ==
  /\ OnDesk(e, E, L, q, P \cup {f}) /\ e.s.level = d.s.level
  /\ Same(o, q, L \ {f}) /\ q[f] = {}
  /\ \A g \in L \ {f} : d.s.level[g] = d.s.level[f] => f \in q[g]

\* Relinking a frame on top of its level lists it there.
LEMMA OnTopListed ==
  ASSUME NEW d, NEW E, NEW L, NEW o, NEW P, OnDesk(d, E, L, o, P), NEW f \in L, o[f] # {}
  PROVE  \E q : OnTopBy(d, OnTop(d, f), E, L, o, q, P, f)
<1> DEFINE s == d.s
           K == L \ {f}
           o1 == Without(L, o, f)
           s1 == Unlink(s, f)
           q == WithTop(s.level, K, o1, f)
           v == LinkOnTop(s1, f)
<1>1. /\ d = [s |-> s, x |-> d.x] /\ Listed(s, L, o) /\ E \subseteq Frame /\ L \subseteq E
      /\ Ordered(d.x, E) /\ Agree(d.x, Shown(s, L, o), L, P) /\ L \subseteq Frame
  BY DEF OnDesk, Listed
<1>2. s.above[f] # None
  BY <1>1, ListedFacts
<1>3. Removed(s, f) = s1
  BY <1>2 DEF Removed
<1>4. Listed(s1, K, o1) /\ s1.level = s.level
  <2>1. Removed(s, f) \in Stacks /\ Removed(s, f).level = s.level /\ TakenOut(s, Removed(s, f), L, f)
    BY <1>1, RemovedTakenOut
  <2> HIDE DEF s1
  <2>2. QED
    BY <1>1, <1>3, <2>1, ListedWithout
<1>5. Listed(v, L, q) /\ v.level = s.level
  <2>1. f \in Frame \ K /\ K \cup {f} = L
    BY <1>1
  <2> HIDE DEF K, o1, s1
  <2>2. /\ Listed(LinkOnTop(s1, f), K \cup {f}, WithTop(s1.level, K, o1, f))
        /\ LinkOnTop(s1, f).level = s1.level
    BY <1>4, <2>1, ListedOnTop
  <2>3. QED
    BY <1>4, <2>1, <2>2
<1>6. /\ (\A g, h \in K : h \in q[g] <=> h \in o[g]) /\ q[f] = {}
      /\ \A g \in K : s.level[g] = s.level[f] => f \in q[g]
  BY DEF Without, WithTop
<1>7. OnTop(d, f) = [s |-> v, x |-> d.x]
  BY <1>1 DEF OnTop
<1> HIDE DEF q, v
<1>8. Agree(d.x, Shown(v, L, q), L, P \cup {f})
  <2>1. ASSUME NEW g \in L \ (P \cup {f}), NEW h \in L \ (P \cup {f})
        PROVE  h \in d.x[g] <=> h \in Shown(v, L, q)[g]
    <3>1. h \in d.x[g] <=> h \in Shown(s, L, o)[g]
      BY <1>1 DEF Agree
    <3>2. h \in Shown(s, L, o)[g] <=> s.level[h] > s.level[g] \/ h \in o[g]
      BY DEF Shown
    <3>3. h \in Shown(v, L, q)[g] <=> s.level[h] > s.level[g] \/ h \in q[g]
      BY <1>5 DEF Shown
    <3>4. QED
      BY <1>6, <3>1, <3>2, <3>3
  <2>2. QED
    BY <2>1 DEF Agree
<1>9. OnDesk(OnTop(d, f), E, L, q, P \cup {f}) /\ OnTop(d, f).s = v
  BY <1>1, <1>5, <1>7, <1>8 DEF OnDesk
<1>10. OnTopBy(d, OnTop(d, f), E, L, o, q, P, f)
  BY <1>5, <1>6, <1>9 DEF Same, OnTopBy
<1>11. QED
  BY <1>10

\* The owner of a transient that is listed on the same level, as Runaway follows it.
OwnerOf(level) ==
  [g \in Frame |-> IF child_of[g] \in context /\ level[child_of[g]] = level[g] THEN child_of[g] ELSE None]

\* While f is raised: the frames R were put on top, one call is under way for each of P,
\* the innermost for r.cur; each of P but f is a transient of the next lower one.  A call
\* that is over has left no transient under its frame, and a frame that was not raised has
\* kept what was over it.
RaiseInv(r, level, E, o0, f, o, R, P) ==
  /\ r = [d |-> r.d, cur |-> r.cur] /\ OnDesk(r.d, E, context, o, P) /\ r.d.s.level = level
  /\ f \in R /\ R \subseteq context /\ P \subseteq R /\ \A k \in R : level[k] = level[f]
  /\ IF r.cur = None THEN P = {} ELSE f \in P /\ r.cur \in P /\ \A p \in P : p \notin o[r.cur]
  /\ \A p \in P \ {f} : /\ p \in o[f] /\ child_of[p] \in P
                        /\ \A k \in P : p \in o[k] => k = child_of[p] \/ child_of[p] \in o[k]
  /\ \A k \in R \ {f} : child_of[k] \in R /\ k \in o[child_of[k]]
  /\ \A k \in R : f \in Met(OwnerOf(level), k)
  /\ \A k \in R \ P : \A g \in context : child_of[g] = k => k \notin o[g]
  /\ \A k \in context \ R : \A h \in o0[k] : h \in o[k]

\* The frame whose call is the innermost is either done, or the lowest of its transients
\* under it is raised; each takes a step nearer to the end.
LEMMA RaisePop ==
  ASSUME NEW r, NEW level, NEW E, NEW o0, NEW f, NEW o, NEW R, NEW P,
         RaiseInv(r, level, E, o0, f, o, R, P), r.cur # None,
         \A g \in context : child_of[g] = r.cur => r.cur \notin o[g]
  PROVE  RaiseInv([d |-> CommitStackingForWindow(r.d, r.cur),
                   cur |-> IF r.cur = f THEN None ELSE child_of[r.cur]],
                  level, E, o0, f, o, R, P \ {r.cur})
<1> DEFINE c == r.cur
           t == [d |-> CommitStackingForWindow(r.d, c), cur |-> IF c = f THEN None ELSE child_of[c]]
           L == context
           P2 == P \ {c}
<1>1. /\ OnDesk(r.d, E, L, o, P) /\ r.d.s.level = level
      /\ f \in R /\ R \subseteq L /\ P \subseteq R /\ (\A k \in R : level[k] = level[f])
      /\ f \in P /\ c \in P /\ (\A p \in P : p \notin o[c])
      /\ (\A p \in P \ {f} : p \in o[f] /\ child_of[p] \in P
                        /\ \A k \in P : p \in o[k] => k = child_of[p] \/ child_of[p] \in o[k])
      /\ (\A k \in R \ {f} : child_of[k] \in R /\ k \in o[child_of[k]])
      /\ (\A k \in R \ P : \A g \in context : child_of[g] = k => k \notin o[g])
  BY DEF RaiseInv
<1>2. Listed(r.d.s, L, o) /\ Levelled(level, L, o) /\ None \notin L
  BY <1>1, ListedFacts DEF OnDesk
<1>3. /\ OnDesk(CommitStackingForWindow(r.d, c), E, L, o, P2)
      /\ CommitStackingForWindow(r.d, c).s = r.d.s
  <2>1. c \in L /\ \A p \in P : p \notin o[c] /\ r.d.s.level[p] = r.d.s.level[c]
    BY <1>1
  <2>2. OnDesk(r.d, E, L, o, P)
    BY <1>1
  <2> HIDE DEF c, L
  <2>3. OnDesk(CommitStackingForWindow(r.d, c), E, L, o, P \ {c})
    BY <2>1, <2>2, CommitOne
  <2>4. CommitStackingForWindow(r.d, c).s = r.d.s
    BY <2>2 DEF OnDesk, CommitStackingForWindow
  <2>5. QED
    BY <2>3, <2>4
<1>4. t.d = CommitStackingForWindow(r.d, c) /\ t.cur = IF c = f THEN None ELSE child_of[c]
  OBVIOUS
<1>5. t = [d |-> t.d, cur |-> t.cur]
  OBVIOUS
<1> HIDE DEF t
<1>6. IF t.cur = None THEN P2 = {} ELSE f \in P2 /\ t.cur \in P2 /\ \A p \in P2 : p \notin o[t.cur]
  <2>1. CASE c = f
    <3>1. P = {f}
      BY <1>1, <2>1
    <3>2. QED
      BY <1>4, <2>1, <3>1
  <2>2. CASE c # f
    <3> DEFINE b == child_of[c]
    <3>1. b \in P /\ b # None /\ c \in o[b] /\ b # c
      BY <1>1, <1>2, <2>2 DEF Levelled
    <3>2. ASSUME NEW p \in P2, p \in o[b] PROVE FALSE
      <4>1. p \in L /\ c \in L /\ level[p] = level[c] /\ b \in L
        BY <1>1, <3>1
      <4>2. c \in o[p]
        BY <1>1, <1>2, <4>1 DEF Levelled
      <4>3. p = b \/ b \in o[p]
        BY <1>1, <2>2, <4>2
      <4>4. QED
        BY <1>2, <3>2, <4>1, <4>3 DEF Levelled
    <3>3. t.cur = b
      BY <1>4, <2>2
    <3>4. f \in P2
      BY <1>1, <2>2
    <3>5. QED
      BY <3>1, <3>2, <3>3, <3>4
  <2>3. QED
    BY <2>1, <2>2
<1>7. \A p \in P2 \ {f} : /\ p \in o[f] /\ child_of[p] \in P2
                          /\ \A k \in P2 : p \in o[k] => k = child_of[p] \/ child_of[p] \in o[k]
  <2>1. ASSUME NEW p \in P2 \ {f}, child_of[p] = c PROVE FALSE
    <3>1. p \in o[c]
      BY <1>1, <2>1
    <3>2. QED
      BY <1>1, <3>1
  <2>2. QED
    BY <1>1, <2>1
<1>8. \A k \in R \ P2 : \A g \in context : child_of[g] = k => k \notin o[g]
  BY <1>1
<1>9. QED
  BY <1>1, <1>3, <1>4, <1>5, <1>6, <1>7, <1>8 DEF RaiseInv, t

\* A call for the lowest transient of the innermost frame keeps the invariant of the loop.
LEMMA RaisePush ==
  ASSUME NEW r, NEW level, NEW E, NEW o0, NEW f, NEW o, NEW R, NEW P,
         RaiseInv(r, level, E, o0, f, o, R, P), r.cur # None, child_of \in Links,
         f \notin Met(OwnerOf(level), OwnerOf(level)[f]),
         NEW kid \in context, child_of[kid] = r.cur, r.cur \in o[kid]
  PROVE  /\ kid \notin R
         /\ \E q : RaiseInv([d |-> OnTop(r.d, kid), cur |-> kid],
                            level, E, o0, f, q, R \cup {kid}, P \cup {kid})
<1> DEFINE c == r.cur
           t == [d |-> OnTop(r.d, kid), cur |-> kid]
           L == context
           R2 == R \cup {kid}
           P2 == P \cup {kid}
           ow == OwnerOf(level)
<1>1. /\ OnDesk(r.d, E, L, o, P) /\ r.d.s.level = level
      /\ f \in R /\ R \subseteq L /\ P \subseteq R /\ (\A k \in R : level[k] = level[f])
      /\ f \in P /\ c \in P /\ (\A p \in P : p \notin o[c])
      /\ (\A p \in P \ {f} : p \in o[f] /\ child_of[p] \in P
                        /\ \A k \in P : p \in o[k] => k = child_of[p] \/ child_of[p] \in o[k])
      /\ (\A k \in R \ {f} : child_of[k] \in R /\ k \in o[child_of[k]])
      /\ (\A k \in R : f \in Met(ow, k))
      /\ (\A k \in R \ P : \A g \in context : child_of[g] = k => k \notin o[g])
      /\ (\A k \in context \ R : \A h \in o0[k] : h \in o[k])
  BY DEF RaiseInv
<1>2. Listed(r.d.s, L, o) /\ Levelled(level, L, o) /\ None \notin L /\ None \notin Frame /\ L \subseteq Frame
  BY <1>1, ListedFacts DEF OnDesk
<1>3. level[kid] = level[f] /\ level[c] = level[f] /\ ow[kid] = c /\ kid \in Frame /\ c \in Frame
  BY <1>1, <1>2 DEF Levelled, OwnerOf
<1>4. ow \in Links
  BY DEF OwnerOf, Links
<1>5. kid \notin R
  <2>1. kid # f
    BY <1>1, <1>3
  <2>2. kid \in R \ {f} => kid \in o[c]
    BY <1>1
  <2>3. kid \notin o[c]
    BY <1>1, <1>2 DEF Levelled
  <2>4. QED
    BY <2>1, <2>2, <2>3
<1>6. f \in Met(ow, kid)
  <2> DEFINE M == Met(ow, kid)
  <2>1. /\ M \subseteq Frame /\ kid \in M /\ \A g \in M : ow[g] \in M \cup {None}
    BY <1>2, <1>3, <1>4, MetIsLeast
  <2>2. c \in M
    BY <1>2, <1>3, <2>1
  <2> HIDE DEF M
  <2>3. Met(ow, c) \subseteq M
    BY <1>3, <1>4, <2>1, <2>2, MetIsLeast
  <2>4. QED
    BY <1>1, <2>3 DEF M
<1> HIDE DEF ow
<1>7. PICK q : /\ OnDesk(OnTop(r.d, kid), E, L, q, P2) /\ OnTop(r.d, kid).s.level = level
               /\ Same(o, q, L \ {kid}) /\ q[kid] = {}
               /\ \A g \in L \ {kid} : level[g] = level[kid] => kid \in q[g]
  <2> DEFINE d == r.d
  <2>1. o[kid] # {} /\ OnDesk(d, E, L, o, P) /\ kid \in L /\ d.s.level = level
    BY <1>1
  <2> HIDE DEF L, d
  <2>2. \E q : OnTopBy(d, OnTop(d, kid), E, L, o, q, P, kid)
    BY <2>1, OnTopListed
  <2>3. QED
    BY <2>1, <2>2 DEF d, OnTopBy
<1>8. t.d = OnTop(r.d, kid) /\ t.cur = kid /\ t = [d |-> t.d, cur |-> t.cur]
  OBVIOUS
<1> HIDE DEF t
<1>9. kid # None /\ f \in P2 /\ kid \in P2 /\ \A p \in P2 : p \notin q[kid]
  BY <1>1, <1>2, <1>7
<1>10. ASSUME NEW p \in P2 \ {f}
       PROVE  /\ p \in q[f] /\ child_of[p] \in P2
              /\ \A k \in P2 : p \in q[k] => k = child_of[p] \/ child_of[p] \in q[k]
  <2>1. CASE p = kid
    <3>1. kid \in q[f] /\ child_of[kid] \in P2
      BY <1>1, <1>3, <1>5, <1>7
    <3>2. ASSUME NEW k \in P2, kid \in q[k] PROVE k = c \/ c \in q[k]
      <4>1. k \in P /\ k # kid /\ k \in L /\ c \in L /\ c # kid
        BY <1>1, <1>5, <1>7, <3>2
      <4>2. k = c \/ c \in o[k]
        BY <1>1, <1>2, <4>1 DEF Levelled
      <4>3. QED
        BY <1>7, <4>1, <4>2 DEF Same
    <3>3. QED
      BY <2>1, <3>1, <3>2
  <2>2. CASE p # kid
    <3>1. p \in P \ {f} /\ p \in L \ {kid} /\ f \in L \ {kid} /\ child_of[p] \in L \ {kid}
      BY <1>1, <1>5, <2>2
    <3>2. p \in q[f] /\ child_of[p] \in P2
      BY <1>1, <1>7, <3>1 DEF Same
    <3>3. ASSUME NEW k \in P2, p \in q[k] PROVE k = child_of[p] \/ child_of[p] \in q[k]
      <4>1. k \in P /\ k \in L \ {kid}
        BY <1>1, <1>5, <1>7, <3>3
      <4>2. p \in o[k]
        BY <1>7, <3>1, <3>3, <4>1 DEF Same
      <4>3. k = child_of[p] \/ child_of[p] \in o[k]
        BY <1>1, <3>1, <4>1, <4>2
      <4>4. QED
        BY <1>7, <3>1, <4>1, <4>3 DEF Same
    <3>4. QED
      BY <3>2, <3>3
  <2>3. QED
    BY <2>1, <2>2
<1>11. ASSUME NEW k \in R2 \ {f} PROVE child_of[k] \in R2 /\ k \in q[child_of[k]]
  <2>1. CASE k = kid
    <3>1. c \in L \ {kid} /\ c \in R
      BY <1>1, <1>5
    <3>2. QED
      BY <1>3, <1>7, <2>1, <3>1
  <2>2. CASE k # kid
    <3>1. child_of[k] \in R /\ k \in o[child_of[k]] /\ child_of[k] \in L \ {kid} /\ k \in L \ {kid}
      BY <1>1, <1>5, <2>2
    <3>2. QED
      BY <1>7, <3>1 DEF Same
  <2>3. QED
    BY <2>1, <2>2
<1>12. \A k \in R2 : f \in Met(ow, k)
  BY <1>1, <1>6
<1>13. ASSUME NEW k \in R2 \ P2, NEW g \in context, child_of[g] = k PROVE k \notin q[g]
  <2>1. k \in R \ P /\ k \in L \ {kid} /\ k \notin o[g]
    BY <1>1, <1>13
  <2>2. CASE g = kid
    BY <1>7, <2>2
  <2>3. CASE g # kid
    BY <1>7, <2>1, <2>3 DEF Same
  <2>4. QED
    BY <2>2, <2>3
<1>14. ASSUME NEW k \in context \ R2, NEW h \in o0[k] PROVE h \in q[k]
  <2>1. k \in L \ {kid} /\ h \in o[k] /\ h \in L /\ level[h] = level[k]
    BY <1>1, <1>2 DEF Levelled
  <2>2. CASE h = kid
    BY <1>7, <2>1, <2>2
  <2>3. CASE h # kid
    BY <1>7, <2>1, <2>3 DEF Same
  <2>4. QED
    BY <2>2, <2>3
<1>15. R2 \subseteq L /\ P2 \subseteq R2 /\ f \in R2 /\ \A k \in R2 : level[k] = level[f]
  BY <1>1, <1>3
<1>16. RaiseInv(t, level, E, o0, f, q, R2, P2)
  <2> HIDE DEF R2, P2
  <2>1. QED
    BY <1>7, <1>8, <1>9, <1>10, <1>11, <1>12, <1>13, <1>14, <1>15 DEF RaiseInv, ow
<1>17. QED
  BY <1>5, <1>16 DEF t

\* How far raising is: every frame is put on top once and put in its place once.
Progress(R, P) == 2 * Cardinality(R) - Cardinality(P)
RaiseTo(r, t, level, E, o0, f, R, P, q, R2, P2) ==
  /\ RaiseInv(t, level, E, o0, f, q, R2, P2)
  /\ r.cur # None => Progress(R2, P2) = Progress(R, P) + 1

\* Every step of the loop keeps its invariant and makes progress.
LEMMA RaiseStepKeeps ==
  ASSUME NEW r, NEW level, NEW E, NEW o0, NEW f, NEW o, NEW R, NEW P,
         RaiseInv(r, level, E, o0, f, o, R, P), child_of \in Links,
         f \notin Met(OwnerOf(level), OwnerOf(level)[f])
  PROVE  \E q, R2, P2 : RaiseTo(r, RaiseStep(r, f), level, E, o0, f, R, P, q, R2, P2)
<1> DEFINE c == r.cur
           s == r.d.s
           kids == {g \in Below(s, c) : child_of[g] = c}
           kid == Lowest(s, kids)
<1>1. CASE c = None
  <2>1. RaiseStep(r, f) = r
    BY <1>1 DEF RaiseStep
  <2>2. RaiseTo(r, r, level, E, o0, f, R, P, o, R, P)
    BY <1>1 DEF RaiseTo
  <2>3. QED
    BY <2>1, <2>2
<1>2. CASE c # None
  <2>1. /\ Listed(s, context, o) /\ c \in P /\ P \subseteq R /\ R \subseteq context /\ s.level = level
    BY <1>2 DEF RaiseInv, OnDesk
  <2>2. s \in Stacks /\ Linked(s, context, o) /\ context \subseteq Frame
    BY <2>1 DEF Listed
  <2>3. Below(s, c) = {g \in context : c \in o[g]}
    <3>1. \A g \in context : Below(s, g) = {h \in context : g \in o[h]}
      BY <2>2, WalksDown
    <3>2. QED
      BY <2>1, <3>1
  <2>4. IsFiniteSet(R) /\ IsFiniteSet(P) /\ Cardinality(R) \in Nat /\ Cardinality(P) \in Nat
    <3>1. R \subseteq Frame /\ P \subseteq Frame
      BY <2>1, <2>2
    <3>2. IsFiniteSet(R) /\ IsFiniteSet(P)
      BY <3>1, StackingAssumption, FS_Subset
    <3>3. QED
      BY <3>2, FS_CardinalityType
  <2>5. CASE kids # {}
    <3>1. kid \in kids
      <4>1. kids \in SUBSET context
        BY <2>3
      <4> HIDE DEF kids
      <4>2. QED
        BY <2>2, <2>5, <4>1, LowestIsLast
    <3>2. kid \in context /\ child_of[kid] = r.cur /\ r.cur \in o[kid]
      BY <2>3, <3>1
    <3>3. RaiseStep(r, f) = [d |-> OnTop(r.d, kid), cur |-> kid]
      BY <1>2, <2>5 DEF RaiseStep
    <3> HIDE DEF kid
    <3>4. kid \notin R /\ \E q : RaiseInv([d |-> OnTop(r.d, kid), cur |-> kid],
                                          level, E, o0, f, q, R \cup {kid}, P \cup {kid})
      BY <1>2, <3>2, RaisePush
    <3>5. PICK q : RaiseInv(RaiseStep(r, f), level, E, o0, f, q, R \cup {kid}, P \cup {kid})
      BY <3>3, <3>4
    <3>6. Cardinality(R \cup {kid}) = Cardinality(R) + 1 /\ Cardinality(P \cup {kid}) = Cardinality(P) + 1
      <4>1. kid \notin P
        BY <2>1, <3>4
      <4>2. QED
        BY <2>4, <3>4, <4>1, FS_AddElement
    <3>7. RaiseTo(r, RaiseStep(r, f), level, E, o0, f, R, P, q, R \cup {kid}, P \cup {kid})
      BY <2>4, <3>5, <3>6 DEF RaiseTo, Progress
    <3>8. QED
      BY <3>7
  <2>6. CASE kids = {}
    <3> DEFINE t == [d |-> CommitStackingForWindow(r.d, r.cur),
                     cur |-> IF r.cur = f THEN None ELSE child_of[r.cur]]
    <3>1. \A g \in context : child_of[g] = r.cur => r.cur \notin o[g]
      BY <2>3, <2>6
    <3>2. RaiseStep(r, f) = t
      BY <1>2, <2>6 DEF RaiseStep
    <3>3. RaiseInv(t, level, E, o0, f, o, R, P \ {r.cur})
      BY <1>2, <3>1, RaisePop
    <3> HIDE DEF t
    <3>4. Cardinality(P \ {r.cur}) = Cardinality(P) - 1
      BY <2>1, <2>4, FS_RemoveElement
    <3>5. RaiseTo(r, t, level, E, o0, f, R, P, o, R, P \ {r.cur})
      BY <2>4, <3>3, <3>4 DEF RaiseTo, Progress
    <3>6. QED
      BY <3>2, <3>5
  <2>7. QED
    BY <2>5, <2>6
<1>3. QED
  BY <1>1, <1>2

\* What raising f leaves: everything in its place, and no transient that was over its
\* owner under it.
RaisedBy(d, e, E, o, q) ==
  /\ OnDesk(e, E, context, q, {}) /\ e.s.level = d.s.level
  /\ \A t \in context : child_of[t] \in context /\ t \in o[child_of[t]] => t \in q[child_of[t]]

\* wRaiseFrame ends, with the lists and the server together and no transient left behind.
LEMMA RaiseListed ==
  ASSUME NEW d, NEW E, NEW o, OnDesk(d, E, context, o, {}), NEW f \in context, child_of \in Links,
         ~Runaway(d.s, f)
  PROVE  /\ \E q : RaisedBy(d, RaiseFrame(d, f), E, o, q)
         /\ d.s.above[f] # None => Raising(d, f)[2 * Cardinality(Frame)].cur = None
<1> DEFINE level == d.s.level
           ow == OwnerOf(level)
           N == Cardinality(Frame)
<1>1. /\ Listed(d.s, context, o) /\ E \subseteq Frame /\ context \subseteq E
      /\ None \notin context /\ None \notin Frame /\ context \subseteq Frame /\ Levelled(level, context, o)
      /\ (d.s.above[f] = None <=> o[f] = {}) /\ IsFiniteSet(Frame) /\ N \in Nat
  BY ListedFacts, StackingAssumption, FS_CardinalityType DEF OnDesk
<1>2. f \notin Met(ow, ow[f])
  BY DEF Runaway, OwnerOf
<1>3. CASE d.s.above[f] = None
  <2>1. RaiseFrame(d, f) = d
    BY <1>3 DEF RaiseFrame
  <2>2. RaisedBy(d, d, E, o, o)
    BY DEF RaisedBy
  <2>3. QED
    BY <1>3, <2>1, <2>2
<1>4. CASE d.s.above[f] # None
  <2> DEFINE a == [d |-> OnTop(d, f), cur |-> f]
             Inv(r) == \E q, R, P : RaiseInv(r, level, E, o, f, q, R, P)
             U == [d : [s : Stacks, x : [E -> SUBSET E]], cur : Frame \cup {None}]
             S == {r \in U : Inv(r)}
             step == [r \in S |-> RaiseStep(r, f)]
             run == Raising(d, f)
  <2>1. PICK q0 : RaiseInv(a, level, E, o, f, q0, {f}, {f})
    <3>1. PICK q : OnTopBy(d, OnTop(d, f), E, context, o, q, {}, f)
      <4>1. o[f] # {}
        BY <1>1, <1>4
      <4>2. \E q : OnTopBy(d, OnTop(d, f), E, context, o, q, {}, f)
        BY <4>1, OnTopListed
      <4>3. QED
        BY <4>2
    <3>2. /\ OnDesk(OnTop(d, f), E, context, q, {f}) /\ OnTop(d, f).s.level = level
          /\ Same(o, q, context \ {f}) /\ q[f] = {}
          /\ \A g \in context \ {f} : level[g] = level[f] => f \in q[g]
      <4>1. {} \cup {f} = {f}
        OBVIOUS
      <4>2. QED
        BY <3>1, <4>1 DEF OnTopBy
    <3>3. ASSUME NEW k \in context \ {f}, NEW h \in o[k] PROVE h \in q[k]
      <4>1. h \in context /\ level[h] = level[k]
        BY <1>1 DEF Levelled
      <4>2. CASE h = f
        BY <3>2, <4>1, <4>2
      <4>3. CASE h # f
        BY <3>2, <4>1, <4>3 DEF Same
      <4>4. QED
        BY <4>2, <4>3
    <3>4. f \in Met(ow, f)
      <4>1. ow \in Links /\ f \in Frame /\ f # None
        BY <1>1 DEF OwnerOf, Links
      <4> HIDE DEF ow
      <4>2. QED
        BY <4>1, MetIsLeast
    <3>5. a.d = OnTop(d, f) /\ a.cur = f /\ a = [d |-> a.d, cur |-> a.cur]
      OBVIOUS
    <3> HIDE DEF a
    <3>6. RaiseInv(a, level, E, o, f, q, {f}, {f})
      BY <1>1, <3>2, <3>3, <3>4, <3>5 DEF RaiseInv
    <3>7. QED
      BY <3>6
  <2> HIDE DEF a
  <2>2. ASSUME NEW r, NEW q, NEW R, NEW P, RaiseInv(r, level, E, o, f, q, R, P) PROVE r \in S
    <3>1. r = [d |-> r.d, cur |-> r.cur] /\ r.d = [s |-> r.d.s, x |-> r.d.x]
      BY <2>2 DEF RaiseInv, OnDesk
    <3>2. r.d.s \in Stacks /\ r.d.x \in [E -> SUBSET E]
      BY <2>2 DEF RaiseInv, OnDesk, Listed, Ordered
    <3>3. r.cur \in Frame \cup {None}
      BY <1>1, <2>2 DEF RaiseInv
    <3>4. r.d \in [s : Stacks, x : [E -> SUBSET E]]
      <4> DEFINE u == r.d.s
                 v == r.d.x
      <4>1. [s |-> u, x |-> v] \in [s : Stacks, x : [E -> SUBSET E]]
        <5>1. u \in Stacks /\ v \in [E -> SUBSET E]
          BY <3>2
        <5> HIDE DEF u, v
        <5>2. QED
          BY <5>1
      <4>2. QED
        BY <3>1, <4>1
    <3>5. r \in U
      <4> DEFINE u == r.d
                 v == r.cur
                 D == [s : Stacks, x : [E -> SUBSET E]]
      <4>1. u \in D /\ v \in Frame \cup {None} /\ r = [d |-> u, cur |-> v]
        BY <3>1, <3>3, <3>4
      <4> HIDE DEF u, v, D
      <4>2. [d |-> u, cur |-> v] \in [d : D, cur : Frame \cup {None}]
        BY <4>1
      <4>3. QED
        BY <4>1, <4>2 DEF D
    <3> HIDE DEF U
    <3>6. QED
      BY <2>2, <3>5
  <2>3. ASSUME NEW r, Inv(r) PROVE Inv(RaiseStep(r, f))
    <3>1. PICK q, R, P : RaiseInv(r, level, E, o, f, q, R, P)
      BY <2>3
    <3>2. \E q2, R2, P2 : RaiseTo(r, RaiseStep(r, f), level, E, o, f, R, P, q2, R2, P2)
      <4> HIDE DEF level
      <4>1. QED
        BY <1>2, <3>1, RaiseStepKeeps
    <3>3. QED
      BY <3>2 DEF RaiseTo
  <2>4. a \in S /\ step \in [S -> S]
    <3>1. a \in S
      BY <2>1, <2>2
    <3>2. ASSUME NEW r \in S PROVE RaiseStep(r, f) \in S
      <4>1. Inv(r)
        OBVIOUS
      <4>2. PICK q, R, P : RaiseInv(RaiseStep(r, f), level, E, o, f, q, R, P)
        BY <2>3, <4>1
      <4> HIDE DEF S
      <4>3. QED
        BY <2>2, <4>2
    <3> HIDE DEF S
    <3>3. QED
      BY <3>1, <3>2
  <2>5. run = [n \in Nat |-> IF n = 0 THEN a ELSE RaiseStep(run[n - 1], f)]
    <3> DEFINE w == Iterate(step, a)
    <3>0. \A r \in S : step[r] = RaiseStep(r, f)
      OBVIOUS
    <3> HIDE DEF S, step
    <3>1. IsWalk(w, S, step, a)
      BY <2>4, IterateExists
    <3> HIDE DEF w
    <3>2. ASSUME NEW n \in Nat PROVE w[n] = IF n = 0 THEN a ELSE RaiseStep(w[n - 1], f)
      <4>1. CASE n = 0
        BY <3>1, <4>1 DEF IsWalk
      <4>2. CASE n # 0
        <5>1. n - 1 \in Nat /\ (n - 1) + 1 = n
          BY <4>2
        <5>2. w[n] = step[w[n - 1]] /\ w[n - 1] \in S
          BY <3>1, <5>1 DEF IsWalk
        <5>3. QED
          BY <3>0, <4>2, <5>2
      <4>3. QED
        BY <4>1, <4>2
    <3>3. w = [n \in Nat |-> IF n = 0 THEN a ELSE RaiseStep(w[n - 1], f)]
      <4>1. w = [n \in Nat |-> w[n]]
        BY <3>1 DEF IsWalk
      <4>2. QED
        BY <3>2, <4>1
    <3>4. run = CHOOSE v : v = [n \in Nat |-> IF n = 0 THEN a ELSE RaiseStep(v[n - 1], f)]
      BY DEF Raising, a
    <3>5. QED
      BY <3>3, <3>4
  <2> HIDE DEF run
  <2>6. run[0] = a /\ \A n \in Nat : run[n + 1] = RaiseStep(run[n], f)
    <3>1. ASSUME NEW n \in Nat PROVE run[n + 1] = RaiseStep(run[n], f)
      <4>1. n + 1 \in Nat /\ n + 1 # 0 /\ (n + 1) - 1 = n
        OBVIOUS
      <4>2. QED
        BY <2>5, <4>1
    <3>2. QED
      BY <2>5, <3>1
  <2> DEFINE At(n, q, R, P) == /\ RaiseInv(run[n], level, E, o, f, q, R, P)
                               /\ run[n].cur # None => Progress(R, P) = n + 1
             V == {n \in Nat : \E q, R, P : At(n, q, R, P)}
  <2>7. 0 \in V
    <3>1. Progress({f}, {f}) = 0 + 1
      <4>1. Cardinality({f}) = 1
        BY FS_Singleton
      <4>2. QED
        BY <4>1 DEF Progress
    <3>2. At(0, q0, {f}, {f})
      BY <2>1, <2>6, <3>1
    <3> HIDE DEF At
    <3>3. QED
      BY <3>2
  <2>8. ASSUME NEW n \in V PROVE n + 1 \in V
    <3>1. PICK q, R, P : At(n, q, R, P)
      OBVIOUS
    <3>2. PICK q2, R2, P2 : RaiseTo(run[n], RaiseStep(run[n], f), level, E, o, f, R, P, q2, R2, P2)
      <4> HIDE DEF level
      <4>1. QED
        BY <1>2, <3>1, RaiseStepKeeps
    <3>3. n \in Nat /\ run[n + 1] = RaiseStep(run[n], f)
      BY <2>6
    <3>4. run[n].cur = None => run[n + 1].cur = None
      BY <3>3 DEF RaiseStep
    <3>5. At(n + 1, q2, R2, P2)
      BY <3>1, <3>2, <3>3, <3>4 DEF RaiseTo
    <3> HIDE DEF At
    <3>6. QED
      BY <3>3, <3>5
  <2>9. V = Nat
    <3>1. V \in SUBSET Nat
      OBVIOUS
    <3> HIDE DEF V
    <3>2. QED
      BY <2>7, <2>8, <3>1, Induction
  <2>10. 2 * N \in Nat
    BY <1>1
  <2>11. PICK q, R, P : At(2 * N, q, R, P)
    BY <2>9, <2>10
  <2> DEFINE r == run[2 * N]
  <2>12. RaiseInv(r, level, E, o, f, q, R, P) /\ (r.cur # None => Progress(R, P) = 2 * N + 1)
    BY <2>11
  <2> HIDE DEF r, At, V
  <2>13. r.cur = None
    <3>1. R \subseteq Frame /\ P \subseteq Frame
      BY <1>1, <2>12 DEF RaiseInv
    <3>2. IsFiniteSet(R) /\ IsFiniteSet(P) /\ Cardinality(R) <= N
      BY <1>1, <3>1, FS_Subset
    <3>3. Cardinality(R) \in Nat /\ Cardinality(P) \in Nat
      BY <3>2, FS_CardinalityType
    <3> HIDE DEF N
    <3>4. QED
      BY <1>1, <2>12, <3>2, <3>3 DEF Progress
  <2>14. /\ P = {} /\ OnDesk(r.d, E, context, q, {}) /\ r.d.s.level = level
         /\ (\A k \in R : \A g \in context : child_of[g] = k => k \notin q[g])
         /\ (\A k \in context \ R : \A h \in o[k] : h \in q[k])
    <3>1. P = {}
      BY <2>12, <2>13 DEF RaiseInv
    <3>2. QED
      BY <2>12, <3>1 DEF RaiseInv
  <2>15. ASSUME NEW t \in context, child_of[t] \in context, t \in o[child_of[t]] PROVE t \in q[child_of[t]]
    <3> DEFINE k == child_of[t]
    <3>1. CASE k \notin R
      BY <2>14, <2>15, <3>1
    <3>2. CASE k \in R
      <4>1. k \notin q[t]
        BY <2>14, <3>2
      <4>2. level[t] = level[k] /\ t # k
        BY <1>1, <2>15 DEF Levelled
      <4>3. Levelled(level, context, q)
        BY <2>14, ListedFacts DEF OnDesk
      <4>4. QED
        BY <2>15, <4>1, <4>2, <4>3 DEF Levelled
    <3>3. QED
      BY <3>1, <3>2
  <2>16. RaiseFrame(d, f) = r.d
    BY <1>4 DEF RaiseFrame, r, run
  <2>17. RaisedBy(d, r.d, E, o, q)
    BY <2>14, <2>15 DEF RaisedBy
  <2>18. Raising(d, f)[2 * Cardinality(Frame)].cur = None
    BY <2>13 DEF r, run, N
  <2>19. QED
    BY <2>16, <2>17, <2>18
<1>5. QED
  BY <1>3, <1>4

-----------------------------------------------------------------------------
(* Changing levels, moving under another frame, reading the server's order *)

\* The pointers of other frames do not matter.
LEMMA ListedOther ==
  ASSUME NEW s, NEW L, NEW o, Listed(s, L, o), NEW t \in Stacks,
         \A g \in L : t.level[g] = s.level[g] /\ t.above[g] = s.above[g] /\ t.under[g] = s.under[g],
         \A l \in Level : t.top[l] = s.top[l]
  PROVE  Listed(t, L, o)
<1>1. L \subseteq Frame /\ Linked(s, L, o) /\ Levelled(s.level, L, o)
  BY ListedFacts
<1>2. Levelled(t.level, L, o)
  BY <1>1 DEF Levelled
<1>3. \A f \in L : IF t.above[f] = None THEN o[f] = {} ELSE RightOver(L, o, t.above[f], f)
  BY <1>1 DEF Linked
<1>4. \A f \in L : IF t.under[f] = None THEN \A g \in L : f \notin o[g]
                   ELSE t.under[f] \in L /\ RightOver(L, o, f, t.under[f])
  BY <1>1 DEF Linked
<1>5. \A l \in Level : IF t.top[l] = None THEN \A f \in L : t.level[f] # l
                       ELSE t.top[l] \in L /\ t.level[t.top[l]] = l /\ o[t.top[l]] = {}
  BY <1>1 DEF Linked
<1>6. QED
  BY <1>1, <1>2, <1>3, <1>4, <1>5 DEF Listed, Linked

\* The transients that are over their owner in o are so in q, where f is neither.
KeepsOver(o, q, f) ==
  \A t \in context \ {f} : child_of[t] \in context \ {f} /\ t \in o[child_of[t]] => t \in q[child_of[t]]

ChangedBy(d, e, E, o, q, f, l) ==
  /\ OnDesk(e, E, context, q, {}) /\ e.s.level = [d.s.level EXCEPT ![f] = l] /\ KeepsOver(o, q, f)

\* ChangeStackingLevel keeps the lists and the server together.
LEMMA ChangeLevelListed ==
  ASSUME NEW d, NEW E, NEW o, OnDesk(d, E, context, o, {}), NEW f \in context, NEW l \in Level,
         child_of \in Links, ~Runaway([d.s EXCEPT !.level[f] = l], f)
  PROVE  \E q : ChangedBy(d, ChangeLevel(d, f, l), E, o, q, f, l)
<1> DEFINE s == d.s
           L == context
           K == L \ {f}
           o1 == Without(L, o, f)
           s1 == Removed(s, f)
           s2 == [s1 EXCEPT !.level[f] = l]
           d2 == [s |-> s2, x |-> d.x]
           added == AddFrame(d2, f)
           level == [s.level EXCEPT ![f] = l]
<1>1. /\ d = [s |-> s, x |-> d.x] /\ Listed(s, L, o) /\ E \subseteq Frame /\ L \subseteq E
      /\ Ordered(d.x, E) /\ L \subseteq Frame /\ s \in Stacks /\ s.level \in [Frame -> Level]
  BY ListedFacts DEF OnDesk
<1>2. CASE s.level[f] = l
  <2>1. ChangeLevel(d, f, l) = d
    BY <1>2 DEF ChangeLevel
  <2>2. s.level = level
    BY <1>1, <1>2
  <2>3. ChangedBy(d, d, E, o, o, f, l)
    BY <2>2 DEF ChangedBy, KeepsOver
  <2>4. QED
    BY <2>1, <2>3
<1>3. CASE s.level[f] # l
  <2>1. /\ RemoveFrame(d, f) = [s |-> s1, x |-> d.x] /\ Listed(s1, K, o1) /\ s1.level = s.level
        /\ Same(o, o1, K)
    BY <1>1, RemoveListed
  <2> HIDE DEF s1, o1
  <2>2. s1 \in Stacks
    BY <2>1 DEF Listed
  <2>3. s2 \in Stacks /\ s2.level = level /\ s2.above = s1.above /\ s2.under = s1.under /\ s2.top = s1.top
    BY <2>1, <2>2 DEF Stacks
  <2>4. [RemoveFrame(d, f) EXCEPT !.s.level[f] = l] = d2
    BY <2>1
  <2> HIDE DEF s2
  <2>5. Listed(s2, K, o1)
    <3>1. \A g \in K : s2.level[g] = s1.level[g] /\ s2.above[g] = s1.above[g] /\ s2.under[g] = s1.under[g]
      BY <1>1, <2>1, <2>3
    <3>2. \A k \in Level : s2.top[k] = s1.top[k]
      BY <2>3
    <3> HIDE DEF K
    <3>3. QED
      BY <2>1, <2>3, <3>1, <3>2, ListedOther
  <2>6. PICK q : OnDesk(added, E, L, q, {}) /\ Same(o1, q, K) /\ added.s.level = level
    <3>1. d2 = [s |-> d2.s, x |-> d2.x] /\ d2.s = s2 /\ d2.x = d.x
      OBVIOUS
    <3>2. K \cup {f} = L /\ f \in E \ K /\ K \subseteq E
      BY <1>1
    <3> HIDE DEF d2, K, L
    <3>3. \E q : AddedBy(d2, AddFrame(d2, f), E, K, o1, q, f)
      BY <1>1, <2>5, <3>1, <3>2, AddListed
    <3>4. QED
      BY <2>3, <3>1, <3>2, <3>3 DEF AddedBy
  <2>7. ChangeLevel(d, f, l) = IF s.level[f] > l THEN RaiseFrame(added, f) ELSE LowerFrame(added, f)
    BY <1>3, <2>4 DEF ChangeLevel
  <2>8. KeepsOver(o, q, f)
    BY <2>1, <2>6 DEF KeepsOver, Same
  <2>9. ~Runaway(added.s, f)
    <3>1. [s EXCEPT !.level[f] = l].level = added.s.level
      BY <1>1, <2>6 DEF Stacks
    <3> HIDE DEF added
    <3>2. QED
      BY <3>1 DEF Runaway
  <2> HIDE DEF added
  <2>10. CASE s.level[f] > l
    <3>1. PICK q2 : RaisedBy(added, RaiseFrame(added, f), E, q, q2)
      BY <2>6, <2>9, RaiseListed
    <3>2. ChangedBy(d, RaiseFrame(added, f), E, o, q2, f, l)
      BY <2>6, <2>8, <3>1 DEF ChangedBy, RaisedBy, KeepsOver
    <3>3. QED
      BY <2>7, <2>10, <3>2
  <2>11. CASE ~(s.level[f] > l)
    <3>1. PICK q2 : LoweredBy(added, LowerFrame(added, f), E, L, q, q2, f)
      BY <2>6, LowerListed
    <3>2. ChangedBy(d, LowerFrame(added, f), E, o, q2, f, l)
      BY <2>6, <2>8, <3>1 DEF ChangedBy, LoweredBy, KeepsOver, Same
    <3>3. QED
      BY <2>7, <2>11, <3>2
  <2>12. QED
    BY <2>10, <2>11
<1>4. QED
  BY <1>2, <1>3

\* MoveInStackListUnder keeps the lists and the server together.
LEMMA MoveUnderListed ==
  ASSUME NEW d, NEW E, NEW o, OnDesk(d, E, context, o, {}), NEW f \in context, NEW prev \in context \ {f},
         child_of \in Links, child_of[f] = None
  PROVE  \E q : ChangedBy(d, MoveUnder(d, prev, f), E, o, q, f, d.s.level[prev])
<1> DEFINE l == d.s.level[prev]
           same == ChangeLevel(d, f, l)
           L == context
           t == Cut(same.s, f)
           v == LinkUnder(t, prev, f)
           c == [s |-> v, x |-> same.x]
<1>1. /\ Listed(d.s, L, o) /\ L \subseteq Frame /\ d.s.level \in [Frame -> Level] /\ l \in Level
      /\ None \notin L /\ None \notin Frame
  BY ListedFacts DEF OnDesk
<1>2. ~Runaway([d.s EXCEPT !.level[f] = l], f)
  <2> DEFINE ow == OwnerOf([d.s EXCEPT !.level[f] = l].level)
  <2>1. ow[f] = None /\ ow \in Links
    BY <1>1 DEF OwnerOf, Links
  <2>2. Runaway([d.s EXCEPT !.level[f] = l], f) <=> f \in Met(ow, ow[f])
    BY DEF Runaway, OwnerOf
  <2> HIDE DEF ow
  <2>3. Met(ow, None) \subseteq {}
    <3>1. \A M \in SUBSET Frame :
            None \in M \cup {None} /\ (\A g \in M : ow[g] \in M \cup {None}) => Met(ow, None) \subseteq M
      BY <2>1, MetIsLeast
    <3>2. QED
      BY <3>1
  <2>4. QED
    BY <2>1, <2>2, <2>3
<1>3. PICK q : ChangedBy(d, same, E, o, q, f, l)
  BY <1>1, <1>2, ChangeLevelListed
<1>4. MoveUnder(d, prev, f) = [s |-> v, x |-> MoveFrameToUnder(same.x, prev, f)]
  BY DEF MoveUnder, Cut
<1> HIDE DEF same
<1>5. OnDesk(same, E, L, q, {}) /\ same.s.level = [d.s.level EXCEPT ![f] = l] /\ Listed(same.s, L, q)
  BY <1>3 DEF ChangedBy, OnDesk
<1>6. same.s.level[prev] = same.s.level[f]
  BY <1>1, <1>5
<1>7. t \in Stacks /\ t.level = same.s.level /\ TakenOut(same.s, t, L, f)
  BY <1>5, CutTakenOut
<1> DEFINE q2 == WithUnder(L \ {f}, Without(L, q, f), prev, f)
<1>8. PutAt(same, v, E, L, q, q2, prev, f)
  <2>1. q2 = WithUnder(L \ {f}, Without(L, q, f), prev, f)
    OBVIOUS
  <2> HIDE DEF q2, t, L
  <2>2. f \in L /\ prev \in L \ {f}
    BY DEF L
  <2>3. QED
    BY <1>5, <1>6, <1>7, <2>1, <2>2, PutListed
<1> HIDE DEF q2, v
<1>9. OnDesk(c, E, L, q2, {f}) /\ v.above[f] = prev /\ v.level = same.s.level /\ Same(q, q2, L \ {f})
  BY <1>8 DEF PutAt
<1>10. CommitStackingForWindow(c, f) = MoveUnder(d, prev, f)
  <2>1. prev # None
    BY <1>1
  <2>2. QED
    BY <1>4, <1>9, <2>1 DEF CommitStackingForWindow
<1>11. OnDesk(CommitStackingForWindow(c, f), E, L, q2, {f} \ {f})
  <2>1. f \notin q2[f] /\ c.s = v
    BY <1>9 DEF OnDesk, Listed, Linked, Levelled
  <2>2. \A g \in {f} : g \notin q2[f] /\ c.s.level[g] = c.s.level[f]
    BY <2>1
  <2> HIDE DEF c
  <2>3. QED
    BY <1>9, <2>2, CommitOne
<1>12. {f} \ {f} = {}
  OBVIOUS
<1>13. KeepsOver(o, q2, f)
  BY <1>3, <1>9 DEF ChangedBy, KeepsOver, Same
<1>14. MoveUnder(d, prev, f).s = v
  BY <1>4
<1>15. ChangedBy(d, MoveUnder(d, prev, f), E, o, q2, f, l)
  BY <1>5, <1>9, <1>10, <1>11, <1>12, <1>13, <1>14 DEF ChangedBy
<1>16. QED
  BY <1>15

\* The highest and the lowest of some frames at the server.
Highest(X, S) == IF S = {} THEN None ELSE CHOOSE f \in S : S \cap X[f] = {}
Lowermost(X, S) == IF S = {} THEN None ELSE CHOOSE f \in S : S \subseteq X[f] \cup {f}

\* The highest and the lowest of some frames in the server's order are found.
LEMMA HighestLowermost ==
  ASSUME NEW X, NEW E \in SUBSET Frame, Ordered(X, E), NEW S \in SUBSET E, S # {}
  PROVE  /\ Highest(X, S) \in S /\ S \cap X[Highest(X, S)] = {}
         /\ Lowermost(X, S) \in S /\ S \subseteq X[Lowermost(X, S)] \cup {Lowermost(X, S)}
<1>1. IsFiniteSet(S)
  BY StackingAssumption, FS_Subset
<1>2. \E f \in S : S \cap X[f] = {}
  <2> DEFINE y == [f \in S |-> S \cap X[f]]
  <2>1. y \in [S -> SUBSET S] /\ (\A f \in S : f \notin y[f]) /\ \A f \in S : \A g \in y[f] : y[g] \subseteq y[f]
    BY DEF Ordered
  <2>2. \E f \in S : y[f] = {}
    <3> HIDE DEF y
    <3>1. QED
      BY <1>1, <2>1, FirstExists
  <2>3. QED
    BY <2>2
<1>3. \E f \in S : S \subseteq X[f] \cup {f}
  <2> DEFINE y == [f \in S |-> {g \in S : f \in X[g]}]
  <2>1. y \in [S -> SUBSET S] /\ (\A f \in S : f \notin y[f]) /\ \A f \in S : \A g \in y[f] : y[g] \subseteq y[f]
    BY DEF Ordered
  <2>2. PICK f \in S : y[f] = {}
    <3> HIDE DEF y
    <3>1. QED
      BY <1>1, <2>1, FirstExists
  <2>3. \A g \in S : f \notin X[g]
    BY <2>2
  <2>4. S \subseteq X[f] \cup {f}
    BY <2>3 DEF Ordered
  <2>5. QED
    BY <2>4
<1>4. Highest(X, S) \in S /\ S \cap X[Highest(X, S)] = {}
  BY <1>2 DEF Highest
<1>5. Lowermost(X, S) \in S /\ S \subseteq X[Lowermost(X, S)] \cup {Lowermost(X, S)}
  BY <1>3 DEF Lowermost
<1>6. QED
  BY <1>4, <1>5

\* RemakeStackList has the lists spell the server's order, whatever it was.
LEMMA RemakeListed ==
  ASSUME NEW d, d = [s |-> d.s, x |-> d.x], d.s \in Stacks, NEW E \in SUBSET Frame, Ordered(d.x, E),
         context \subseteq E
  PROVE  \E q : OnDesk(RemakeStackList(d), E, context, q, {})
<1> DEFINE s == d.s
           X == d.x
           L == context
           lv == s.level
           of(l) == {f \in L : lv[f] = l}
           over(f) == of(lv[f]) \cap X[f]
           beneath(f) == {g \in of(lv[f]) : f \in X[g]}
           t == [above |-> [f \in Frame |-> IF f \in L THEN Lowermost(X, over(f)) ELSE s.above[f]],
                 under |-> [f \in Frame |-> IF f \in L THEN Highest(X, beneath(f)) ELSE s.under[f]],
                 top |-> [l \in Level |-> Highest(X, of(l))],
                 level |-> lv]
           o == [f \in L |-> over(f)]
           c == [s |-> t, x |-> X]
<1>1. RemakeStackList(d) = CommitStacking(c)
  <2>1. RemakeStackList(d) = CommitStacking([d EXCEPT !.s = t])
    BY Zenon DEF RemakeStackList, Lowermost, Highest
  <2> HIDE DEF t
  <2>2. [d EXCEPT !.s = t] = c
    OBVIOUS
  <2>3. QED
    BY <2>1, <2>2
<1>2. /\ s.above \in Links /\ s.under \in Links /\ lv \in [Frame -> Level]
      /\ None \notin Frame /\ L \subseteq Frame /\ (\A g \in E : X[g] \subseteq E)
  BY StackFields, StackingAssumption DEF Ordered
<1>3. /\ t.above = [f \in Frame |-> IF f \in L THEN Lowermost(X, over(f)) ELSE s.above[f]]
      /\ t.under = [f \in Frame |-> IF f \in L THEN Highest(X, beneath(f)) ELSE s.under[f]]
      /\ t.top = [l \in Level |-> Highest(X, of(l))]
      /\ t.level = lv
      /\ t = [above |-> t.above, under |-> t.under, top |-> t.top, level |-> t.level]
  OBVIOUS
<1> HIDE DEF t
<1>4. \A f \in L : \A h : h \in o[f] <=> h \in L /\ lv[h] = lv[f] /\ h \in X[f]
  OBVIOUS
<1>5. o \in [L -> SUBSET L]
  OBVIOUS
<1> HIDE DEF o
<1>6. Levelled(lv, L, o)
  <2>1. \A f \in L : f \notin o[f]
    BY <1>4 DEF Ordered
  <2>2. \A f \in L : \A g \in o[f] : lv[g] = lv[f] /\ \A h \in o[g] : h \in o[f]
    BY <1>4 DEF Ordered
  <2>3. \A f, g \in L : lv[f] = lv[g] => f = g \/ f \in o[g] \/ g \in o[f]
    BY <1>4 DEF Ordered
  <2>4. QED
    BY <1>5, <2>1, <2>2, <2>3 DEF Levelled
<1>7. ASSUME NEW f \in L
      PROVE  /\ t.above[f] \in L \cup {None}
             /\ IF t.above[f] = None THEN o[f] = {} ELSE RightOver(L, o, t.above[f], f)
  <2> DEFINE S == over(f)
             a == Lowermost(X, S)
  <2>1. t.above[f] = a /\ S \in SUBSET E /\ S \subseteq L
    BY <1>2, <1>3
  <2>2. \A h : h \in S <=> h \in o[f]
    BY <1>4
  <2> HIDE DEF S
  <2>3. CASE S = {}
    BY <2>1, <2>2, <2>3 DEF Lowermost
  <2>4. CASE S # {}
    <3>1. a \in S /\ S \subseteq X[a] \cup {a}
      BY <2>1, <2>4, HighestLowermost
    <3> HIDE DEF a
    <3>2. a \in o[f] /\ a \in L /\ a # None /\ lv[a] = lv[f]
      BY <1>2, <1>4, <2>1, <2>2, <3>1
    <3>3. \A h \in L : h \in o[f] <=> h = a \/ h \in o[a]
      <4>1. \A h \in L : h \in o[f] => h = a \/ h \in o[a]
        BY <1>4, <2>2, <3>1, <3>2
      <4>2. \A h \in L : h \in o[a] => h \in o[f]
        BY <1>6, <3>2 DEF Levelled
      <4>3. QED
        BY <3>2, <4>1, <4>2
    <3>4. QED
      BY <2>1, <3>2, <3>3 DEF RightOver
  <2>5. QED
    BY <2>3, <2>4
<1>8. ASSUME NEW f \in L
      PROVE  IF t.under[f] = None THEN \A g \in L : f \notin o[g]
             ELSE t.under[f] \in L /\ RightOver(L, o, f, t.under[f])
  <2> DEFINE S == beneath(f)
             u == Highest(X, S)
  <2>1. t.under[f] = u /\ S \in SUBSET E /\ S \subseteq L
    BY <1>2, <1>3
  <2>2. \A h \in L : h \in S <=> f \in o[h]
    BY <1>4
  <2> HIDE DEF S
  <2>3. CASE S = {}
    BY <2>1, <2>2, <2>3 DEF Highest
  <2>4. CASE S # {}
    <3>1. u \in S /\ S \cap X[u] = {}
      BY <2>1, <2>4, HighestLowermost
    <3> HIDE DEF u
    <3>2. u \in L /\ f \in o[u] /\ u # None /\ lv[u] = lv[f]
      BY <1>2, <1>4, <2>1, <2>2, <3>1
    <3>3. ASSUME NEW h \in L, h \in o[u], h # f PROVE h \in o[f]
      <4>1. f \notin o[h]
        BY <1>4, <2>2, <3>1, <3>2, <3>3
      <4>2. lv[h] = lv[f]
        BY <1>6, <3>2, <3>3 DEF Levelled
      <4>3. QED
        BY <1>6, <3>3, <4>1, <4>2 DEF Levelled
    <3>4. \A h \in L : h \in o[f] => h \in o[u]
      BY <1>6, <3>2 DEF Levelled
    <3>5. QED
      BY <2>1, <3>2, <3>3, <3>4 DEF RightOver
  <2>5. QED
    BY <2>3, <2>4
<1>9. ASSUME NEW l \in Level
      PROVE  IF t.top[l] = None THEN \A f \in L : lv[f] # l
             ELSE t.top[l] \in L /\ lv[t.top[l]] = l /\ o[t.top[l]] = {}
  <2> DEFINE S == of(l)
             u == Highest(X, S)
  <2>1. t.top[l] = u /\ S \in SUBSET E /\ S \subseteq L
    BY <1>2, <1>3
  <2>2. \A h : h \in S <=> h \in L /\ lv[h] = l
    OBVIOUS
  <2> HIDE DEF S
  <2>3. CASE S = {}
    BY <2>1, <2>2, <2>3 DEF Highest
  <2>4. CASE S # {}
    <3>1. u \in S /\ S \cap X[u] = {}
      BY <2>1, <2>4, HighestLowermost
    <3> HIDE DEF u
    <3>2. u \in L /\ lv[u] = l /\ u # None
      BY <1>2, <2>2, <3>1
    <3>3. \A h : h \notin o[u]
      BY <1>4, <2>2, <3>1, <3>2
    <3>4. QED
      BY <2>1, <3>2, <3>3
  <2>5. QED
    BY <2>3, <2>4
<1>10. t \in Stacks
  <2>1. t.above \in Links
    <3>1. \A f \in Frame : t.above[f] \in Frame \cup {None}
      BY <1>2, <1>3, <1>7 DEF Links
    <3>2. QED
      BY <1>3, <3>1 DEF Links
  <2>2. t.under \in Links
    <3>1. \A f \in Frame : t.under[f] \in Frame \cup {None}
      BY <1>2, <1>3, <1>8 DEF Links
    <3>2. QED
      BY <1>3, <3>1 DEF Links
  <2>3. t.top \in [Level -> Frame \cup {None}]
    <3>1. \A l \in Level : t.top[l] \in Frame \cup {None}
      BY <1>2, <1>9
    <3>2. QED
      BY <1>3, <3>1
  <2>4. t.level \in [Frame -> Level]
    BY <1>2, <1>3
  <2>5. QED
    BY <1>3, <2>1, <2>2, <2>3, <2>4 DEF Stacks
<1>11. Listed(t, L, o)
  <2>1. t.level = lv
    BY <1>3
  <2>2. Levelled(t.level, L, o)
    BY <1>6, <2>1
  <2>3. \A l \in Level : IF t.top[l] = None THEN \A f \in L : t.level[f] # l
                         ELSE t.top[l] \in L /\ t.level[t.top[l]] = l /\ o[t.top[l]] = {}
    BY <1>9, <2>1
  <2>4. Linked(t, L, o)
    BY <1>7, <1>8, <2>2, <2>3 DEF Linked
  <2>5. QED
    BY <1>2, <1>10, <2>4 DEF Listed
<1>12. OnDesk(CommitStacking(c), E, L, o, {})
  <2>1. c = [s |-> c.s, x |-> c.x] /\ c.s = t /\ c.x = X
    OBVIOUS
  <2> HIDE DEF c, L
  <2>2. L \subseteq E
    BY DEF L
  <2>3. QED
    BY <1>11, <2>1, <2>2, CommitAll
<1>13. QED
  BY <1>1, <1>12

\* A frame that is no longer listed, whether the server still has it or not.
LEMMA DeskWithout ==
  ASSUME NEW d, NEW E, NEW L, NEW o, OnDesk(d, E, L, o, {}), NEW f \in L,
         NEW t \in Stacks, NEW X, NEW E2 \in SUBSET Frame, Ordered(X, E2), L \ {f} \subseteq E2,
         \A g, h \in L \ {f} : h \in X[g] <=> h \in d.x[g],
         \A g \in L \ {f} : /\ t.level[g] = Removed(d.s, f).level[g]
                            /\ t.above[g] = Removed(d.s, f).above[g]
                            /\ t.under[g] = Removed(d.s, f).under[g],
         \A l \in Level : t.top[l] = Removed(d.s, f).top[l]
  PROVE  /\ OnDesk([s |-> t, x |-> X], E2, L \ {f}, Without(L, o, f), {})
         /\ Same(o, Without(L, o, f), L \ {f})
<1> DEFINE K == L \ {f}
           s1 == Removed(d.s, f)
           o1 == Without(L, o, f)
<1>1. /\ d = [s |-> d.s, x |-> d.x] /\ Listed(d.s, L, o) /\ Agree(d.x, Shown(d.s, L, o), L, {})
  BY DEF OnDesk
<1>2. Listed(s1, K, o1) /\ s1.level = d.s.level /\ Same(o, o1, K)
  BY <1>1, RemoveListed
<1> HIDE DEF s1, o1, K
<1>3. Listed(t, K, o1)
  BY <1>2, ListedOther DEF s1, K
<1>4. Agree(X, Shown(t, K, o1), K, {})
  <2>1. ASSUME NEW g \in K, NEW h \in K PROVE h \in X[g] <=> h \in Shown(t, K, o1)[g]
    <3>1. h \in X[g] <=> h \in Shown(d.s, L, o)[g]
      BY <1>1 DEF Agree, K
    <3>2. h \in Shown(d.s, L, o)[g] <=> d.s.level[h] > d.s.level[g] \/ h \in o[g]
      BY DEF Shown, K
    <3>3. t.level[h] = d.s.level[h] /\ t.level[g] = d.s.level[g]
      BY <1>2 DEF s1, K
    <3>4. h \in Shown(t, K, o1)[g] <=> d.s.level[h] > d.s.level[g] \/ h \in o1[g]
      BY <3>3 DEF Shown
    <3>5. QED
      BY <1>2, <3>1, <3>2, <3>4 DEF Same
  <2>2. QED
    BY <2>1 DEF Agree
<1>5. QED
  BY <1>2, <1>3, <1>4 DEF OnDesk, o1, K

\* A frame is made: on top at the server, then listed.
MadeBy(e, o, q, f, l) ==
  /\ OnDesk(e, Exists \cup {f}, context \cup {f}, q, {}) /\ Same(o, q, context)
  /\ e.s.level = [stack.level EXCEPT ![f] = l]

\* The frame that is made is listed, with the order of the others kept.
LEMMA AddedListed ==
  ASSUME NEW o, OnDesk(Desk, Exists, context, o, {}), NEW f \in Frame \ Exists, NEW l \in Level
  PROVE  \E q : MadeBy(Added(f, l), o, q, f, l)
<1> DEFINE E == Exists \cup {f}
           s1 == [stack EXCEPT !.level[f] = l]
           X == [g \in E |-> IF g = f THEN {} ELSE x[g] \cup {f}]
           d == [s |-> s1, x |-> X]
<1>1. /\ Listed(stack, context, o) /\ Exists \subseteq Frame /\ context \subseteq Exists
      /\ Ordered(x, Exists) /\ stack \in Stacks /\ stack.level \in [Frame -> Level]
  BY ListedFacts DEF OnDesk, Desk
<1>2. /\ s1 \in Stacks /\ s1.level = [stack.level EXCEPT ![f] = l] /\ s1.above = stack.above
      /\ s1.under = stack.under /\ s1.top = stack.top
  BY <1>1 DEF Stacks
<1> HIDE DEF s1
<1>3. Listed(s1, context, o)
  <2>1. \A g \in context : s1.level[g] = stack.level[g] /\ s1.above[g] = stack.above[g] /\ s1.under[g] = stack.under[g]
    BY <1>1, <1>2
  <2>2. \A k \in Level : s1.top[k] = stack.top[k]
    BY <1>2
  <2>3. QED
    BY <1>1, <1>2, <2>1, <2>2, ListedOther
<1>4. Ordered(X, E)
  <2>0. (\A g \in Exists : X[g] = x[g] \cup {f} /\ x[g] \subseteq Exists) /\ X[f] = {} /\ f \notin Exists
    BY <1>1 DEF Ordered
  <2>1. X \in [E -> SUBSET E]
    BY <1>1 DEF Ordered
  <2> HIDE DEF X, Exists
  <2>2. \A g \in E : g \notin X[g]
    BY <1>1, <2>0 DEF Ordered
  <2>3. \A g \in E : \A h \in X[g] : \A k \in X[h] : k \in X[g]
    BY <1>1, <2>0 DEF Ordered
  <2>4. \A g, h \in E : g = h \/ g \in X[h] \/ h \in X[g]
    BY <1>1, <2>0 DEF Ordered
  <2>5. QED
    BY <2>1, <2>2, <2>3, <2>4 DEF Ordered
<1>5. Added(f, l) = AddFrame(d, f)
  BY DEF Added, s1
<1>6. d = [s |-> d.s, x |-> d.x] /\ d.s = s1 /\ d.x = X
  OBVIOUS
<1>7. E \in SUBSET Frame /\ context \subseteq E /\ f \in E \ context
  BY <1>1
<1> HIDE DEF d, X, E
<1>8. \E q : AddedBy(d, AddFrame(d, f), E, context, o, q, f)
  BY <1>3, <1>4, <1>6, <1>7, AddListed
<1>9. QED
  BY <1>2, <1>5, <1>6, <1>8 DEF AddedBy, MadeBy, E

-----------------------------------------------------------------------------
(* The invariant *)

\* What child_of, transient_for and the count are: a child_of that is set is the address
\* of a frame that there was.
PartInv ==
  /\ child_of \in [Frame -> Window \cup {None}] /\ \A f \in Icon : child_of[f] = None
  /\ \A f \in Frame : child_of[f] # None => child_of[f] \in used
  /\ transient_for \in Links
  /\ Exists \subseteq used /\ used \subseteq Frame
  /\ window_count = Cardinality(context)
StackInv == PartInv /\ \E o : OnDesk(Desk, Exists, context, o, {})

\* The next state's lists spell q, and the transients that are over their owner stay so if
\* all are; the frames that exist are E.
NextDesk(E, q) == OnDesk(Desk', E, context', q, {})
Tidy(o) ==
  \A t \in context : child_of[t] \in context /\ stack.level[t] = stack.level[child_of[t]] => t \in o[child_of[t]]
Keeps(o, q) ==
  \A t \in context \cap context' :
    (/\ child_of[t] \in context \cap context' /\ t \in o[child_of[t]]
     /\ stack.level[t] = stack.level[child_of[t]] /\ stack'.level[t] = stack'.level[child_of[t]])
    => t \in q[child_of[t]]

\* An action that becomes a desk has its order.
LEMMA BecomesOnDesk ==
  ASSUME NEW e, BecomesDesk(e), NEW E, NEW q, OnDesk(e, E, context', q, {})
  PROVE  NextDesk(E, q) /\ stack'.level = e.s.level
<1>1. e = [s |-> e.s, x |-> e.x]
  BY DEF OnDesk
<1>2. Desk' = e
  BY <1>1 DEF BecomesDesk, Desk
<1>3. QED
  BY <1>2 DEF NextDesk, BecomesDesk

\* What the invariant says of the parts of the state.
LEMMA PartFacts ==
  ASSUME StackInv, NEW o, OnDesk(Desk, Exists, context, o, {})
  PROVE  /\ child_of \in Links /\ None \notin Frame /\ context \subseteq Exists /\ Exists \subseteq Frame
         /\ Desk = [s |-> stack, x |-> x] /\ Desk.s = stack /\ Desk.x = x
         /\ stack \in Stacks /\ stack.level \in [Frame -> Level] /\ Listed(stack, context, o)
         /\ Ordered(x, Exists) /\ Levelled(stack.level, context, o)
         /\ \A f \in context : child_of[f] \in Window \cup {None}
<1>1. child_of \in Links /\ None \notin Frame
  BY StackingAssumption DEF StackInv, PartInv, Links, Frame
<1>2. Desk = [s |-> stack, x |-> x] /\ Desk.s = stack /\ Desk.x = x
  BY DEF Desk
<1>3. Listed(stack, context, o) /\ context \subseteq Exists /\ Exists \subseteq Frame /\ Ordered(x, Exists)
  BY <1>2 DEF OnDesk
<1>4. stack \in Stacks /\ stack.level \in [Frame -> Level] /\ Levelled(stack.level, context, o)
  BY <1>3, ListedFacts
<1>5. QED
  BY <1>1, <1>2, <1>3, <1>4 DEF StackInv, PartInv

-----------------------------------------------------------------------------
(* One lemma per action: the lists and the server after it *)

\* wFrameWindowCreate: the frame is made and listed.
LEMMA CreateDesk ==
  ASSUME StackInv, NEW o, OnDesk(Desk, Exists, context, o, {}), NEW f \in Frame \ Exists, NEW l \in Level,
         context' = context \cup {f}, BecomesDesk(Added(f, l))
  PROVE  \E q : NextDesk(Exists \cup {f}, q) /\ Keeps(o, q)
<1>1. context \subseteq Exists
  BY PartFacts
<1>2. PICK q : MadeBy(Added(f, l), o, q, f, l)
  BY AddedListed
<1>3. NextDesk(Exists \cup {f}, q)
  BY <1>2, BecomesOnDesk DEF MadeBy
<1>4. Keeps(o, q)
  BY <1>1, <1>2 DEF Keeps, MadeBy, Same
<1>5. QED
  BY <1>3, <1>4

\* The icon of a miniaturized window is lowered once it is listed.
LEMMA CreateLoweredDesk ==
  ASSUME StackInv, NEW o, OnDesk(Desk, Exists, context, o, {}), NEW f \in Frame \ Exists, NEW l \in Level,
         context' = context \cup {f}, BecomesDesk(LowerFrame(Added(f, l), f))
  PROVE  \E q : NextDesk(Exists \cup {f}, q) /\ Keeps(o, q)
<1> DEFINE e == Added(f, l)
           E == Exists \cup {f}
           L == context \cup {f}
<1>1. context \subseteq Exists
  BY PartFacts
<1>2. PICK q : MadeBy(e, o, q, f, l)
  BY AddedListed
<1>3. OnDesk(e, E, L, q, {}) /\ Same(o, q, context) /\ f \in L
  BY <1>2 DEF MadeBy
<1>4. PICK q2 : LoweredBy(e, LowerFrame(e, f), E, L, q, q2, f)
  <2> HIDE DEF e, E, L
  <2>1. QED
    BY <1>3, LowerListed
<1>5. NextDesk(E, q2)
  BY <1>4, BecomesOnDesk DEF LoweredBy
<1>6. Keeps(o, q2)
  BY <1>1, <1>3, <1>4 DEF Keeps, LoweredBy, Same
<1>7. QED
  BY <1>5, <1>6

\* WMCreateLaunchingIcon: the server has the frame, the lists have not.
LEMMA LaunchingDesk ==
  ASSUME StackInv, NEW o, OnDesk(Desk, Exists, context, o, {}), NEW f, CreateLaunchingIcon(f)
  PROVE  \E q : NextDesk(Exists \cup {f}, q) /\ Keeps(o, q)
<1> DEFINE e == Added(f, 1)
           E == Exists \cup {f}
           L == context \cup {f}
           held == RemoveFrame(e, f)
           t == Unlisted(held.s, f)
<1>1. context \subseteq Exists /\ Exists \subseteq Frame
  BY PartFacts
<1>2. f \in Frame \ Exists /\ 1 \in Level /\ context' = context
  BY StackingAssumption DEF CreateLaunchingIcon, Frame, Level
<1>3. PICK q : MadeBy(e, o, q, f, 1)
  BY <1>2, AddedListed
<1>4. OnDesk(e, E, L, q, {}) /\ Same(o, q, context) /\ f \in L /\ L \ {f} = context
  BY <1>1, <1>2, <1>3 DEF MadeBy
<1>5. e = [s |-> e.s, x |-> e.x] /\ Listed(e.s, L, q) /\ Ordered(e.x, E) /\ E \in SUBSET Frame
  BY <1>4 DEF OnDesk
<1>6. held = [s |-> Removed(e.s, f), x |-> e.x] /\ Listed(Removed(e.s, f), L \ {f}, Without(L, q, f))
  <2> HIDE DEF e, L
  <2>1. QED
    BY <1>4, <1>5, RemoveListed
<1>7. BecomesDesk([s |-> t, x |-> e.x])
  <2>1. BecomesDesk([held EXCEPT !.s = t])
    BY DEF CreateLaunchingIcon
  <2> HIDE DEF held, e, t
  <2>2. [held EXCEPT !.s = t] = [s |-> t, x |-> e.x]
    BY <1>6
  <2>3. QED
    BY <2>1, <2>2
<1> DEFINE s1 == Removed(e.s, f)
<1>8. held.s = s1 /\ s1 \in Stacks
  BY <1>6 DEF Listed
<1> HIDE DEF held, e, s1
<1>9. /\ t \in Stacks /\ t.level = s1.level /\ t.top = s1.top
      /\ \A g \in Frame \ {f} : t.above[g] = s1.above[g] /\ t.under[g] = s1.under[g]
  BY <1>8 DEF Unlisted, Stacks, Links
<1> HIDE DEF t
<1> DEFINE q1 == Without(L, q, f)
<1>10. OnDesk([s |-> t, x |-> e.x], E, L \ {f}, q1, {}) /\ Same(q, q1, L \ {f})
  <2>1. \A g \in L \ {f} : t.level[g] = s1.level[g] /\ t.above[g] = s1.above[g] /\ t.under[g] = s1.under[g]
    BY <1>1, <1>4, <1>9
  <2>2. L \ {f} \subseteq E /\ \A k \in Level : t.top[k] = s1.top[k]
    BY <1>1, <1>9
  <2>3. \A g, h \in L \ {f} : h \in e.x[g] <=> h \in e.x[g]
    OBVIOUS
  <2> HIDE DEF L, E
  <2>4. QED
    BY <1>4, <1>5, <1>9, <2>1, <2>2, <2>3, DeskWithout DEF s1
<1>11. OnDesk([s |-> t, x |-> e.x], E, context', q1, {}) /\ Same(q, q1, context)
  <2> HIDE DEF q1
  <2>1. QED
    BY <1>2, <1>4, <1>10
<1> HIDE DEF q1
<1>12. NextDesk(E, q1)
  BY <1>7, <1>11, BecomesOnDesk
<1>13. Keeps(o, q1)
  BY <1>4, <1>11 DEF Keeps, Same
<1>14. QED
  BY <1>12, <1>13

\* wFrameWindowDestroy: neither has the frame.
LEMMA DestroyDesk ==
  ASSUME StackInv, NEW o, OnDesk(Desk, Exists, context, o, {}), NEW f, Destroy(f)
  PROVE  \E q : NextDesk(Exists \ {f}, q) /\ Keeps(o, q)
<1> DEFINE E == Exists \ {f}
           s1 == Removed(stack, f)
           t == [Unlisted(RemoveFrame(Desk, f).s, f) EXCEPT !.level[f] = 1]
           X == [g \in E |-> x[g] \ {f}]
<1>1. /\ context \subseteq Exists /\ Exists \subseteq Frame /\ Desk = [s |-> stack, x |-> x]
      /\ Desk.s = stack /\ Desk.x = x /\ Listed(stack, context, o) /\ Ordered(x, Exists)
  BY PartFacts
<1>2. f \in context /\ context' = context \ {f} /\ BecomesDesk([s |-> t, x |-> X])
  BY DEF Destroy
<1>3. RemoveFrame(Desk, f) = [s |-> s1, x |-> x] /\ Listed(s1, context \ {f}, Without(context, o, f))
  <2> DEFINE d == Desk
  <2>1. d = [s |-> d.s, x |-> d.x] /\ Listed(d.s, context, o) /\ f \in context
    BY <1>1, <1>2
  <2> HIDE DEF d
  <2>2. /\ RemoveFrame(d, f) = [s |-> Removed(d.s, f), x |-> d.x]
        /\ Listed(Removed(d.s, f), context \ {f}, Without(context, o, f))
    BY <2>1, RemoveListed
  <2>3. QED
    BY <1>1, <2>2 DEF d
<1>4. RemoveFrame(Desk, f).s = s1 /\ s1 \in Stacks /\ f \in Frame /\ 1 \in Level
  BY <1>1, <1>2, <1>3, StackingAssumption DEF Listed, Level
<1> HIDE DEF s1
<1>5. /\ t \in Stacks /\ t.top = s1.top
      /\ \A g \in Frame \ {f} : /\ t.above[g] = s1.above[g] /\ t.under[g] = s1.under[g]
                                /\ t.level[g] = s1.level[g]
  BY <1>4 DEF Unlisted, Stacks, Links
<1>6. Ordered(X, E)
  <2>1. X \in [E -> SUBSET E]
    BY <1>1 DEF Ordered
  <2>2. \A g \in E : g \notin X[g]
    BY <1>1 DEF Ordered
  <2>3. \A g \in E : \A h \in X[g] : \A k \in X[h] : k \in X[g]
    BY <1>1 DEF Ordered
  <2>4. \A g, h \in E : g = h \/ g \in X[h] \/ h \in X[g]
    BY <1>1 DEF Ordered
  <2>5. QED
    BY <2>1, <2>2, <2>3, <2>4 DEF Ordered
<1>7. \A g, h \in context \ {f} : h \in X[g] <=> h \in x[g]
  BY <1>1
<1> HIDE DEF t, X
<1> DEFINE q == Without(context, o, f)
<1>8. OnDesk([s |-> t, x |-> X], E, context \ {f}, q, {}) /\ Same(o, q, context \ {f})
  <2> DEFINE d == Desk
             L == context
  <2>1. \A g \in L \ {f} : t.level[g] = Removed(d.s, f).level[g] /\ t.above[g] = Removed(d.s, f).above[g]
                           /\ t.under[g] = Removed(d.s, f).under[g]
    BY <1>1, <1>5 DEF s1
  <2>2. L \ {f} \subseteq E /\ f \in L /\ E \in SUBSET Frame /\ \A k \in Level : t.top[k] = Removed(d.s, f).top[k]
    BY <1>1, <1>2, <1>5 DEF s1
  <2>3. OnDesk(d, Exists, L, o, {}) /\ \A g, h \in L \ {f} : h \in X[g] <=> h \in d.x[g]
    BY <1>1, <1>7
  <2> HIDE DEF L, E, d
  <2>4. OnDesk([s |-> t, x |-> X], E, L \ {f}, Without(L, o, f), {}) /\ Same(o, Without(L, o, f), L \ {f})
    BY <1>5, <1>6, <2>1, <2>2, <2>3, DeskWithout
  <2>5. QED
    BY <2>4 DEF L
<1> HIDE DEF q
<1>9. NextDesk(E, q)
  <2>1. OnDesk([s |-> t, x |-> X], E, context', q, {})
    BY <1>2, <1>8
  <2>2. QED
    BY <1>2, <2>1, BecomesOnDesk
<1>10. Keeps(o, q)
  BY <1>2, <1>8 DEF Keeps, Same
<1>11. QED
  BY <1>9, <1>10

\* WMFinishLaunchingIcon: an icon the server has is listed again.
LEMMA PutBackDesk ==
  ASSUME StackInv, NEW o, OnDesk(Desk, Exists, context, o, {}), NEW f, PutBack(f)
  PROVE  \E q : NextDesk(Exists, q) /\ Keeps(o, q)
<1> DEFINE d == Desk
           L == context
           E == Exists
<1>1. d = [s |-> d.s, x |-> d.x] /\ Listed(d.s, L, o) /\ E \in SUBSET Frame /\ L \subseteq E /\ Ordered(d.x, E)
  BY PartFacts
<1>2. f \in E \ L /\ BecomesDesk(AddFrame(d, f)) /\ context' = L \cup {f}
  BY DEF PutBack
<1> HIDE DEF d, L, E
<1>3. PICK q : AddedBy(d, AddFrame(d, f), E, L, o, q, f)
  BY <1>1, <1>2, AddListed
<1>4. NextDesk(E, q)
  BY <1>2, <1>3, BecomesOnDesk DEF AddedBy
<1>5. Keeps(o, q)
  BY <1>2, <1>3 DEF Keeps, AddedBy, Same, L
<1>6. QED
  BY <1>4, <1>5 DEF E

\* wRaiseFrame.
LEMMA RaiseDesk ==
  ASSUME StackInv, NEW o, OnDesk(Desk, Exists, context, o, {}), NEW f \in context, ~Runaway(stack, f),
         context' = context, BecomesDesk(RaiseFrame(Desk, f))
  PROVE  \E q : NextDesk(Exists, q) /\ Keeps(o, q)
<1>1. child_of \in Links /\ Desk.s = stack
  BY PartFacts
<1>2. PICK q : RaisedBy(Desk, RaiseFrame(Desk, f), Exists, o, q)
  BY <1>1, RaiseListed
<1>3. NextDesk(Exists, q)
  BY <1>2, BecomesOnDesk DEF RaisedBy
<1>4. Keeps(o, q)
  BY <1>2 DEF Keeps, RaisedBy
<1>5. QED
  BY <1>3, <1>4

\* wLowerFrame: if every transient is over its owner, it stays there.
LEMMA LowerDesk ==
  ASSUME StackInv, NEW o, OnDesk(Desk, Exists, context, o, {}), NEW f \in context,
         context' = context, BecomesDesk(LowerFrame(Desk, f))
  PROVE  \E q : NextDesk(Exists, q) /\ (Tidy(o) => Keeps(o, q))
<1>1. Desk.s = stack
  BY PartFacts
<1>2. PICK q : LoweredBy(Desk, LowerFrame(Desk, f), Exists, context, o, q, f)
  BY LowerListed
<1>3. NextDesk(Exists, q)
  BY <1>2, BecomesOnDesk DEF LoweredBy
<1>4. ASSUME Tidy(o) PROVE Keeps(o, q)
  <2>1. child_of[f] \in context /\ stack.level[child_of[f]] = stack.level[f] => f \in o[child_of[f]]
    BY <1>4 DEF Tidy
  <2>2. /\ Same(o, q, context \ {f}) /\ \A h \in o[f] : h \in q[f]
        /\ child_of[f] \in context /\ f \in o[child_of[f]] => f \in q[child_of[f]]
    BY <1>1, <1>2, <2>1 DEF LoweredBy
  <2>3. QED
    BY <2>2 DEF Keeps, Same
<1>5. QED
  BY <1>3, <1>4

\* ChangeStackingLevel.
LEMMA ChangeLevelDesk ==
  ASSUME StackInv, NEW o, OnDesk(Desk, Exists, context, o, {}), NEW f, NEW l \in Level, ChangeStackingLevel(f, l)
  PROVE  \E q : NextDesk(Exists, q) /\ Keeps(o, q)
<1>1. child_of \in Links /\ Desk.s = stack /\ stack.level \in [Frame -> Level] /\ context \subseteq Frame
      /\ Levelled(stack.level, context, o)
  BY PartFacts
<1>2. f \in context /\ ~Runaway([Desk.s EXCEPT !.level[f] = l], f) /\ BecomesDesk(ChangeLevel(Desk, f, l))
      /\ context' = context /\ l # stack.level[f]
  BY <1>1 DEF ChangeStackingLevel, Keep
<1>3. PICK q : ChangedBy(Desk, ChangeLevel(Desk, f, l), Exists, o, q, f, l)
  BY <1>1, <1>2, ChangeLevelListed
<1>4. NextDesk(Exists, q) /\ stack'.level = [stack.level EXCEPT ![f] = l]
  BY <1>1, <1>2, <1>3, BecomesOnDesk DEF ChangedBy
<1>5. KeepsOver(o, q, f)
  BY <1>3 DEF ChangedBy
<1>6. ASSUME NEW t \in context, child_of[t] \in context, t \in o[child_of[t]],
             stack.level[t] = stack.level[child_of[t]], stack'.level[t] = stack'.level[child_of[t]]
      PROVE  t \in q[child_of[t]]
  <2>1. t # child_of[t]
    BY <1>1, <1>6 DEF Levelled
  <2>2. t # f /\ child_of[t] # f
    BY <1>1, <1>2, <1>4, <1>6, <2>1
  <2>3. QED
    BY <1>5, <1>6, <2>2 DEF KeepsOver
<1>7. Keeps(o, q)
  BY <1>2, <1>6 DEF Keeps
<1>8. QED
  BY <1>4, <1>7

\* MoveInStackListUnder.
LEMMA MoveUnderDesk ==
  ASSUME StackInv, NEW o, OnDesk(Desk, Exists, context, o, {}), NEW f, NEW prev, MoveInStackListUnder(prev, f)
  PROVE  \E q : NextDesk(Exists, q) /\ Keeps(o, q)
<1>1. child_of \in Links /\ Desk.s = stack /\ None \notin Frame
      /\ \A t \in context : child_of[t] \in Window \cup {None}
  BY PartFacts
<1>2. f \in context /\ f \in Icon /\ prev \in context \ {f} /\ BecomesDesk(MoveUnder(Desk, prev, f))
      /\ context' = context
  BY DEF MoveInStackListUnder, Keep
<1>3. child_of[f] = None
  BY <1>2 DEF StackInv, PartInv
<1>4. PICK q : ChangedBy(Desk, MoveUnder(Desk, prev, f), Exists, o, q, f, Desk.s.level[prev])
  BY <1>1, <1>2, <1>3, MoveUnderListed
<1>5. NextDesk(Exists, q) /\ KeepsOver(o, q, f)
  BY <1>2, <1>4, BecomesOnDesk DEF ChangedBy
<1>6. \A t \in context : child_of[t] \in context => t # f /\ child_of[t] # f
  <2>1. f \notin Window \cup {None} /\ None \notin context
    BY <1>1, <1>2, StackingAssumption, PartFacts DEF Frame
  <2>2. QED
    BY <1>1, <1>3, <2>1
<1>7. Keeps(o, q)
  BY <1>5, <1>6 DEF Keeps, KeepsOver
<1>8. QED
  BY <1>5, <1>7

\* wClientConfigure: the lists follow the server, transients or not.
LEMMA ConfigureDesk ==
  ASSUME StackInv, NEW o, OnDesk(Desk, Exists, context, o, {}), NEW f, Configure(f)
  PROVE  \E q : NextDesk(Exists, q)
<1>1. /\ context \subseteq Exists /\ Exists \in SUBSET Frame /\ Desk = [s |-> stack, x |-> x]
      /\ Ordered(x, Exists) /\ stack \in Stacks
  BY PartFacts
<1>2. f \in context /\ f \in Exists /\ context' = context
  BY <1>1 DEF Configure
<1>3. ASSUME NEW X, Ordered(X, Exists), BecomesDesk(RemakeStackList([Desk EXCEPT !.x = X]))
      PROVE  \E q : NextDesk(Exists, q)
  <2> DEFINE d == [Desk EXCEPT !.x = X]
  <2>1. d = [s |-> d.s, x |-> d.x] /\ d.s = stack /\ d.x = X
    BY <1>1
  <2> HIDE DEF d
  <2>2. PICK q : OnDesk(RemakeStackList(d), Exists, context, q, {})
    BY <1>1, <1>3, <2>1, RemakeListed
  <2>3. NextDesk(Exists, q)
    BY <1>2, <1>3, <2>2, BecomesOnDesk DEF d
  <2>4. QED
    BY <2>3
<1>4. Ordered(XRaiseWindow(x, f), Exists)
  BY <1>1, <1>2, RaiseOrdered
<1>5. \A p \in Exists \ {f} : Ordered(MoveFrameToUnder(x, p, f), Exists)
  BY <1>1, <1>2, MoveOrdered
<1>6. QED
  BY <1>3, <1>4, <1>5 DEF Configure

\* The end of a windoze cycle.
LEMMA CycleDesk ==
  ASSUME StackInv, NEW o, OnDesk(Desk, Exists, context, o, {}), NEW f, Cycle(f)
  PROVE  \E q : NextDesk(Exists, q) /\ Keeps(o, q)
<1> DEFINE e == RaiseFrame(Desk, f)
<1>1. child_of \in Links /\ Desk.s = stack
  BY PartFacts
<1>2. f \in context /\ ~Runaway(Desk.s, f) /\ BecomesDesk(CommitStacking(e)) /\ context' = context
  BY <1>1 DEF Cycle, Keep
<1>3. PICK q : RaisedBy(Desk, e, Exists, o, q)
  BY <1>1, <1>2, RaiseListed
<1> HIDE DEF e
<1>4. /\ e = [s |-> e.s, x |-> e.x] /\ Listed(e.s, context, q) /\ Exists \in SUBSET Frame
      /\ context \subseteq Exists /\ Ordered(e.x, Exists)
  BY <1>3 DEF RaisedBy, OnDesk
<1>5. OnDesk(CommitStacking(e), Exists, context, q, {})
  BY <1>4, CommitAll
<1>6. NextDesk(Exists, q)
  BY <1>2, <1>5, BecomesOnDesk
<1>7. Keeps(o, q)
  BY <1>3 DEF Keeps, RaisedBy
<1>8. QED
  BY <1>6, <1>7

-----------------------------------------------------------------------------
(* The invariant is kept *)

\* The lists and the server after a step, where the order was o before it.
AfterStep(o, q) ==
  NextDesk(Exists', q) /\ (Tidy(o) /\ (\A f \in Window : ~Configure(f)) => Keeps(o, q))

\* A desk's frames are those that the server has.
LEMMA NextExists ==
  ASSUME NEW E, NEW q, NextDesk(E, q)
  PROVE  Exists' = E /\ NextDesk(Exists', q)
<1>1. Ordered(x', E)
  BY DEF NextDesk, OnDesk, Desk
<1>2. Exists' = E
  BY <1>1 DEF Ordered, Exists
<1>3. QED
  BY <1>2

\* A step after which the lists and the server spell q.
LEMMA StepTaken ==
  ASSUME NEW o, NEW E, \E q : NextDesk(E, q) /\ Keeps(o, q)
  PROVE  Exists' = E /\ \E q : AfterStep(o, q)
<1>1. PICK q : NextDesk(E, q) /\ Keeps(o, q)
  OBVIOUS
<1>2. Exists' = E /\ NextDesk(Exists', q)
  BY <1>1, NextExists
<1>3. AfterStep(o, q)
  BY <1>1, <1>2 DEF AfterStep
<1>4. QED
  BY <1>2, <1>3

\* What a step leaves of the frames, whichever it is.
LEMMA PartKept ==
  ASSUME PartInv, Exists' = Exists, UNCHANGED <<child_of, transient_for, used>>,
         window_count' = Cardinality(context')
  PROVE  PartInv'
BY DEF PartInv

\* Finitely many frames are listed.
LEMMA ContextFinite ==
  ASSUME PartInv, NEW o, OnDesk(Desk, Exists, context, o, {})
  PROVE  IsFiniteSet(context) /\ IsFiniteSet(Exists) /\ Cardinality(context) \in Nat
BY StackingAssumption, FS_Subset, FS_CardinalityType DEF OnDesk

\* A frame that was made is counted once, and only its own owner is set.
LEMMA PartCreated ==
  ASSUME PartInv, NEW o, OnDesk(Desk, Exists, context, o, {}), NEW f \in Frame \ Exists,
         Exists' = Exists \cup {f}, used' = used \cup {f},
         \/ context' = context \cup {f} /\ window_count' = window_count + 1
         \/ UNCHANGED <<context, window_count>>,
         \/ UNCHANGED <<child_of, transient_for>>
         \/ \E owner \in (Exists \cap Window) \cup {None} :
              /\ f \in Window /\ child_of' = [child_of EXCEPT ![f] = owner]
              /\ transient_for' = [transient_for EXCEPT ![f] = owner]
  PROVE  PartInv'
<1>1. window_count' = Cardinality(context')
  <2>1. IsFiniteSet(context) /\ f \notin context
    BY ContextFinite DEF OnDesk
  <2>2. Cardinality(context \cup {f}) = Cardinality(context) + 1
    BY <2>1, FS_AddElement
  <2>3. QED
    BY <2>2 DEF PartInv
<1>2. /\ child_of' \in [Frame -> Window \cup {None}] /\ \A g \in Icon : child_of'[g] = None
      /\ \A g \in Frame : child_of'[g] # None => child_of'[g] \in used'
      /\ transient_for' \in Links
  <2>1. CASE UNCHANGED <<child_of, transient_for>>
    BY <2>1 DEF PartInv
  <2>2. CASE ~UNCHANGED <<child_of, transient_for>>
    <3>0. PICK owner \in (Exists \cap Window) \cup {None} :
            /\ f \in Window /\ child_of' = [child_of EXCEPT ![f] = owner]
            /\ transient_for' = [transient_for EXCEPT ![f] = owner]
      BY <2>2
    <3>1. child_of'[f] = owner /\ \A g \in Frame \ {f} : child_of'[g] = child_of[g]
      BY <3>0 DEF PartInv, Links
    <3>2. child_of' \in [Frame -> Window \cup {None}] /\ transient_for' \in Links
      BY <3>0 DEF PartInv, Links, Frame
    <3>3. f \notin Icon /\ Icon \subseteq Frame
      BY <3>0, StackingAssumption DEF Frame
    <3>4. QED
      BY <3>1, <3>2, <3>3 DEF PartInv
  <2>3. QED
    BY <2>1, <2>2
<1>3. Exists' \subseteq used' /\ used' \subseteq Frame
  BY DEF PartInv
<1>4. QED
  BY <1>1, <1>2, <1>3 DEF PartInv

\* A frame that is gone is no longer counted, and nobody's owner.
LEMMA PartDestroyed ==
  ASSUME PartInv, NEW o, OnDesk(Desk, Exists, context, o, {}), NEW f, Destroy(f), Exists' = Exists \ {f}
  PROVE  PartInv'
<1>1. f \in context /\ f \in Frame /\ IsFiniteSet(context)
  BY ContextFinite DEF Destroy, OnDesk
<1>2. window_count' = Cardinality(context')
  BY <1>1, FS_RemoveElement DEF PartInv, Destroy
<1>3. /\ child_of'[f] = None /\ \A g \in Frame \ {f} : child_of'[g] = child_of[g]
      /\ child_of' \in [Frame -> Window \cup {None}] /\ transient_for' \in Links
  BY <1>1 DEF PartInv, Destroy, Links
<1>4. Icon \subseteq Frame
  BY DEF Frame
<1>5. /\ \A g \in Icon : child_of'[g] = None
      /\ \A g \in Frame : child_of'[g] # None => child_of'[g] \in used'
  BY <1>3, <1>4 DEF PartInv, Destroy
<1>6. Exists' \subseteq used' /\ used' \subseteq Frame
  BY DEF PartInv, Destroy
<1>7. QED
  BY <1>2, <1>3, <1>5, <1>6 DEF PartInv

\* Every step: the lists and the server spell one order again, and the rest is kept.
LEMMA StepDesk ==
  ASSUME StackInv, NEW o, OnDesk(Desk, Exists, context, o, {}), [Next]_vars
  PROVE  PartInv' /\ \E q : AfterStep(o, q)
<1>0. PartInv
  BY DEF StackInv
<1>1. ASSUME NEW f \in Window, NEW l \in Level, NEW owner \in Window \cup {None}, CreateWindow(f, l, owner)
      PROVE  PartInv' /\ \E q : AfterStep(o, q)
  <2>1. f \in Frame \ Exists /\ context' = context \cup {f} /\ BecomesDesk(Added(f, l))
    BY <1>1 DEF CreateWindow, Frame
  <2>2. Exists' = Exists \cup {f} /\ \E q : AfterStep(o, q)
    BY <2>1, CreateDesk, StepTaken
  <2>3. PartInv'
    BY <1>0, <1>1, <2>1, <2>2, PartCreated DEF CreateWindow
  <2>4. QED
    BY <2>2, <2>3
<1>2. ASSUME NEW f \in Frame, NEW l \in Level, ChangeStackingLevel(f, l)
      PROVE  PartInv' /\ \E q : AfterStep(o, q)
  <2>1. Exists' = Exists /\ \E q : AfterStep(o, q)
    BY <1>2, ChangeLevelDesk, StepTaken
  <2>2. QED
    BY <1>0, <1>2, <2>1, PartKept DEF ChangeStackingLevel, Keep, PartInv
<1>3. ASSUME NEW f \in Icon, NEW prev \in Icon, MoveInStackListUnder(prev, f)
      PROVE  PartInv' /\ \E q : AfterStep(o, q)
  <2>1. Exists' = Exists /\ \E q : AfterStep(o, q)
    BY <1>3, MoveUnderDesk, StepTaken
  <2>2. QED
    BY <1>0, <1>3, <2>1, PartKept DEF MoveInStackListUnder, Keep, PartInv
<1>4. ASSUME NEW f \in Frame, NEW miniature \in BOOLEAN, CreateIcon(f, miniature)
      PROVE  PartInv' /\ \E q : AfterStep(o, q)
  <2>1. f \in Frame \ Exists /\ context' = context \cup {f} /\ 1 \in Level
    BY <1>4, StackingAssumption DEF CreateIcon, Frame, Level
  <2>2. Exists' = Exists \cup {f} /\ \E q : AfterStep(o, q)
    <3>1. CASE miniature
      <4>1. BecomesDesk(LowerFrame(Added(f, 1), f))
        BY <1>4, <3>1 DEF CreateIcon
      <4>2. QED
        BY <2>1, <4>1, CreateLoweredDesk, StepTaken
    <3>2. CASE ~miniature
      <4>1. BecomesDesk(Added(f, 1))
        BY <1>4, <3>2 DEF CreateIcon
      <4>2. QED
        BY <2>1, <4>1, CreateDesk, StepTaken
    <3>3. QED
      BY <3>1, <3>2
  <2>3. PartInv'
    <3>1. /\ used' = used \cup {f} /\ window_count' = window_count + 1 /\ UNCHANGED <<child_of, transient_for>>
      BY <1>4 DEF CreateIcon
    <3>2. QED
      BY <1>0, <2>1, <2>2, <3>1, PartCreated
  <2>4. QED
    BY <2>2, <2>3
<1>5. ASSUME NEW f \in Frame, CreateLaunchingIcon(f)
      PROVE  PartInv' /\ \E q : AfterStep(o, q)
  <2>1. Exists' = Exists \cup {f} /\ \E q : AfterStep(o, q)
    BY <1>5, LaunchingDesk, StepTaken
  <2>2. f \in Frame \ Exists /\ used' = used \cup {f} /\ UNCHANGED <<child_of, transient_for, context, window_count>>
    BY <1>5 DEF CreateLaunchingIcon
  <2>3. PartInv'
    BY <1>0, <2>1, <2>2, PartCreated
  <2>4. QED
    BY <2>1, <2>3
<1>6. ASSUME NEW f \in Frame, Destroy(f)
      PROVE  PartInv' /\ \E q : AfterStep(o, q)
  <2>1. Exists' = Exists \ {f} /\ \E q : AfterStep(o, q)
    BY <1>6, DestroyDesk, StepTaken
  <2>2. QED
    BY <1>0, <1>6, <2>1, PartDestroyed
<1>7. ASSUME NEW f \in Frame, PutBack(f)
      PROVE  PartInv' /\ \E q : AfterStep(o, q)
  <2>1. Exists' = Exists /\ \E q : AfterStep(o, q)
    BY <1>7, PutBackDesk, StepTaken
  <2>2. IsFiniteSet(context) /\ f \notin context
    BY <1>0, <1>7, ContextFinite DEF PutBack
  <2>3. window_count' = Cardinality(context')
    BY <1>0, <1>7, <2>2, FS_AddElement DEF PutBack, PartInv
  <2>4. QED
    BY <1>0, <1>7, <2>1, <2>3, PartKept DEF PutBack
<1>8. ASSUME NEW f \in Frame, Raise(f)
      PROVE  PartInv' /\ \E q : AfterStep(o, q)
  <2>0. f \in context /\ ~Runaway(stack, f) /\ BecomesDesk(RaiseFrame(Desk, f)) /\ Keep /\ context' = context
    BY <1>8 DEF Raise, Keep
  <2>1. Exists' = Exists /\ \E q : AfterStep(o, q)
    BY <2>0, RaiseDesk, StepTaken
  <2>2. QED
    BY <1>0, <2>0, <2>1, PartKept DEF Keep, PartInv
<1>9. ASSUME NEW f \in context, BecomesDesk(LowerFrame(Desk, f)), Keep
      PROVE  PartInv' /\ \E q : AfterStep(o, q)
  <2>1. PICK q : NextDesk(Exists, q) /\ (Tidy(o) => Keeps(o, q))
    BY <1>9, LowerDesk DEF Keep
  <2>2. Exists' = Exists /\ NextDesk(Exists', q)
    BY <2>1, NextExists
  <2>3. AfterStep(o, q)
    BY <2>1, <2>2 DEF AfterStep
  <2>4. QED
    BY <1>0, <1>9, <2>2, <2>3, PartKept DEF Keep, PartInv
<1>10. ASSUME NEW f \in Frame, RaiseLower(f)
      PROVE  PartInv' /\ \E q : AfterStep(o, q)
  <2>0. f \in context /\ ~Runaway(stack, f) /\ Keep /\ context' = context
    BY <1>10 DEF RaiseLower, Keep
  <2>1. CASE BecomesDesk(LowerFrame(Desk, f))
    BY <1>9, <2>0, <2>1
  <2>2. CASE BecomesDesk(RaiseFrame(Desk, f))
    <3>1. Exists' = Exists /\ \E q : AfterStep(o, q)
      BY <2>0, <2>2, RaiseDesk, StepTaken
    <3>2. QED
      BY <1>0, <2>0, <3>1, PartKept DEF Keep, PartInv
  <2>3. QED
    BY <1>10, <2>1, <2>2 DEF RaiseLower
<1>11. ASSUME NEW f \in Frame, Configure(f)
      PROVE  PartInv' /\ \E q : AfterStep(o, q)
  <2>1. PICK q : NextDesk(Exists, q)
    BY <1>11, ConfigureDesk
  <2>2. Exists' = Exists /\ NextDesk(Exists', q)
    BY <2>1, NextExists
  <2>3. AfterStep(o, q)
    BY <1>11, <2>2 DEF AfterStep, Configure
  <2>4. QED
    BY <1>0, <1>11, <2>2, <2>3, PartKept DEF Configure
<1>12. ASSUME NEW f \in Frame, Cycle(f)
      PROVE  PartInv' /\ \E q : AfterStep(o, q)
  <2>1. Exists' = Exists /\ \E q : AfterStep(o, q)
    BY <1>12, CycleDesk, StepTaken
  <2>2. QED
    BY <1>0, <1>12, <2>1, PartKept DEF Cycle, Keep, PartInv
<1>13. CASE UNCHANGED vars
  <2>1. Exists' = Exists /\ context' = context /\ Desk' = Desk /\ child_of' = child_of /\ stack' = stack
    BY <1>13 DEF vars, Exists, Desk
  <2>2. NextDesk(Exists, o) /\ Keeps(o, o)
    BY <2>1 DEF NextDesk, Keeps
  <2>3. \E q : AfterStep(o, q)
    BY <2>2, StepTaken
  <2>4. QED
    BY <1>0, <1>13, <2>1, <2>3, PartKept DEF vars, PartInv
<1>14. ASSUME NEW f \in Frame, Lower(f)
      PROVE  PartInv' /\ \E q : AfterStep(o, q)
  BY <1>9, <1>14 DEF Lower
<1>15. ASSUME NEW f \in Window, NEW owner \in Window \cup {None}, ChangeTransientFor(f, owner)
      PROVE  PartInv' /\ \E q : AfterStep(o, q)
  <2>1. Exists' = Exists /\ context' = context /\ Desk' = Desk /\ child_of' = child_of /\ stack' = stack
    BY <1>15 DEF ChangeTransientFor, Exists, Desk
  <2>2. NextDesk(Exists, o) /\ Keeps(o, o)
    BY <2>1 DEF NextDesk, Keeps
  <2>3. \E q : AfterStep(o, q)
    BY <2>2, StepTaken
  <2>4. transient_for' \in Links
    BY <1>0, <1>15 DEF ChangeTransientFor, PartInv, Links, Frame
  <2>5. PartInv'
    BY <1>0, <1>15, <2>1, <2>4 DEF ChangeTransientFor, PartInv
  <2>6. QED
    BY <2>3, <2>5
<1>16. QED
  BY <1>1, <1>2, <1>3, <1>4, <1>5, <1>6, <1>7, <1>8, <1>10, <1>11, <1>12, <1>13, <1>14, <1>15 DEF Next

\* No frame is listed at first, and none is shown.
LEMMA StackInvInit == Init => StackInv
<1> SUFFICES ASSUME Init PROVE StackInv
  OBVIOUS
<1> DEFINE o == [f \in {} |-> {}]
<1>1. Exists = {} /\ x = o /\ context = {} /\ Desk = [s |-> stack, x |-> o]
  BY DEF Init, Exists, Desk
<1>2. /\ stack \in Stacks /\ \A l \in Level : stack.top[l] = None
  BY StackingAssumption DEF Init, Stacks, Links, Level
<1>3. Ordered(o, {}) /\ Levelled(stack.level, {}, o)
  BY DEF Ordered, Levelled
<1>4. Listed(stack, {}, o)
  BY <1>2, <1>3 DEF Listed, Linked
<1>5. OnDesk(Desk, Exists, context, o, {})
  BY <1>1, <1>3, <1>4 DEF OnDesk, Agree
<1>6. PartInv
  <2>1. child_of \in [Frame -> Window \cup {None}] /\ transient_for \in Links /\ Icon \subseteq Frame
    BY DEF Init, Links, Frame
  <2>2. \A f \in Frame : child_of[f] = None
    BY DEF Init
  <2>3. window_count = Cardinality(context) /\ Exists \subseteq used /\ used \subseteq Frame
    BY <1>1, FS_EmptySet DEF Init
  <2>4. QED
    BY <2>1, <2>2, <2>3 DEF PartInv
<1>7. QED
  BY <1>5, <1>6 DEF StackInv

\* Every handler keeps the invariant.
LEMMA StackInvStep == StackInv /\ [Next]_vars => StackInv'
<1> SUFFICES ASSUME StackInv, [Next]_vars PROVE StackInv'
  OBVIOUS
<1>1. PICK o : OnDesk(Desk, Exists, context, o, {})
  BY DEF StackInv
<1>2. PartInv' /\ \E q : AfterStep(o, q)
  BY <1>1, StepDesk
<1>3. QED
  BY <1>2 DEF AfterStep, NextDesk, StackInv

\* The handlers of the window manager keep, together, the lists of every level and the
\* server's order: both spell one and the same order of the frames that are listed.
THEOREM StackInvariant == Spec => []StackInv
<1>1. Init => StackInv
  BY StackInvInit
<1>2. StackInv /\ [Next]_vars => StackInv'
  BY StackInvStep
<1>3. QED
  BY <1>1, <1>2, PTL DEF Spec

-----------------------------------------------------------------------------
(* What the invariant says of the lists, of the count and of the server *)

\* Lists that spell an order are well formed.
LEMMA StackInvWellFormed == StackInv => ListsWellFormed
<1> SUFFICES ASSUME StackInv PROVE ListsWellFormed
  OBVIOUS
<1>1. PICK o : OnDesk(Desk, Exists, context, o, {})
  BY DEF StackInv
<1>2. /\ child_of \in Links /\ None \notin Frame /\ context \subseteq Exists /\ Exists \subseteq Frame
      /\ stack \in Stacks /\ stack.level \in [Frame -> Level] /\ Listed(stack, context, o)
      /\ Ordered(x, Exists) /\ Levelled(stack.level, context, o)
  BY <1>1, PartFacts
<1>3. TypeOK
  <2>1. window_count \in 0..Cardinality(Frame)
    <3>1. /\ window_count = Cardinality(context) /\ Cardinality(context) <= Cardinality(Frame)
          /\ IsFiniteSet(context) /\ IsFiniteSet(Frame)
      BY <1>2, StackingAssumption, FS_Subset DEF StackInv, PartInv
    <3>2. Cardinality(context) \in Nat /\ Cardinality(Frame) \in Nat
      BY <3>1, FS_CardinalityType
    <3>3. QED
      BY <3>1, <3>2
  <2>2. x \in [DOMAIN x -> SUBSET DOMAIN x] /\ context \subseteq DOMAIN x
    BY <1>2 DEF Ordered, Exists
  <2>3. transient_for \in Links /\ DOMAIN x \subseteq used /\ used \subseteq Frame
    BY DEF StackInv, PartInv, Exists
  <2>4. QED
    BY <1>2, <2>1, <2>2, <2>3 DEF TypeOK
<1>4. /\ \A f \in context : Below(stack, f) = {g \in context : f \in o[g]}
      /\ \A l \in Level : Column(stack, l) = {g \in context : stack.level[g] = l}
  <2>1. context \in SUBSET Frame /\ Linked(stack, context, o)
    BY <1>2, ListedFacts
  <2>2. QED
    BY <1>2, <2>1, WalksDown
<1>5. /\ \A f \in context : stack.above[f] \in context \cup {None} /\ stack.under[f] \in context \cup {None}
      /\ \A f, g \in context : stack.above[f] = g <=> stack.under[g] = f
      /\ \A f \in context : stack.above[f] = None <=> stack.top[stack.level[f]] = f
  BY <1>2, ListedFacts
<1>6. ASSUME NEW f \in context
      PROVE  /\ f \notin Below(stack, f)
             /\ stack.above[f] = None <=> f = stack.top[stack.level[f]]
             /\ stack.above[f] # None => stack.under[stack.above[f]] = f
             /\ stack.under[f] # None => stack.above[stack.under[f]] = f
  <2>1. f \notin Below(stack, f)
    BY <1>2, <1>4 DEF Levelled
  <2>2. QED
    BY <1>5, <2>1
<1>7. QED
  BY <1>3, <1>4, <1>6 DEF ListsWellFormed

\* A frame is met on its own level only, so at most once.
LEMMA StackInvFits == StackInv => CommitFits
<1> SUFFICES ASSUME StackInv PROVE CommitFits
  OBVIOUS
<1> DEFINE S == UNION {{l} \X Column(stack, l) : l \in Level}
           F == [p \in S |-> p[2]]
<1>1. PICK o : OnDesk(Desk, Exists, context, o, {})
  BY DEF StackInv
<1>2. stack \in Stacks /\ context \in SUBSET Frame /\ Linked(stack, context, o)
  BY <1>1, PartFacts, ListedFacts
<1>3. \A l \in Level : Column(stack, l) = {g \in context : stack.level[g] = l}
  BY <1>2, WalksDown
<1>4. \A p \in S : p = <<stack.level[p[2]], p[2]>> /\ p[2] \in context
  BY <1>3
<1>5. IsFiniteSet(context) /\ window_count = Cardinality(context)
  BY <1>1, ContextFinite DEF StackInv, PartInv
<1> HIDE DEF S
<1>6. F \in Injection(S, context)
  BY <1>4 DEF Injection, IsInjective
<1> HIDE DEF F
<1>7. Cardinality(S) <= Cardinality(context)
  BY <1>5, <1>6, FS_Injection
<1>8. QED
  BY <1>5, <1>7 DEF CommitFits, S

\* The server shows what the lists spell.
LEMMA StackInvAgrees == StackInv => ServerAgrees
<1> SUFFICES ASSUME StackInv PROVE ServerAgrees
  OBVIOUS
<1>1. PICK o : OnDesk(Desk, Exists, context, o, {})
  BY DEF StackInv
<1>2. /\ Listed(stack, context, o) /\ Agree(x, Shown(stack, context, o), context, {})
  BY <1>1, PartFacts DEF OnDesk
<1>3. Listing(stack) = Shown(stack, context, o)
  BY <1>2, ShownOrdered
<1>4. ASSUME NEW f \in context
      PROVE  x[f] \cap context = Shown(stack, context, o)[f]
  <2>1. Shown(stack, context, o)[f] \subseteq context
    BY DEF Shown
  <2>2. \A g \in context : g \in x[f] <=> g \in Shown(stack, context, o)[f]
    BY <1>2 DEF Agree
  <2>3. QED
    BY <2>1, <2>2
<1>5. [f \in context |-> x[f] \cap context] = [f \in context |-> Shown(stack, context, o)[f]]
  BY <1>4
<1>6. Shown(stack, context, o) = [f \in context |-> Shown(stack, context, o)[f]]
  BY DEF Shown
<1>7. QED
  BY <1>3, <1>5, <1>6 DEF ServerAgrees

\* The links of the lists are never broken, though frames are put in, taken out, raised
\* with their transients, lowered and relinked from the server's order: for any number
\* of frames and levels, whether addresses are used again or not.
THEOREM ListsStayWellFormed == Spec => []ListsWellFormed
<1>1. StackInv => ListsWellFormed
  BY StackInvWellFormed
<1>2. QED
  BY <1>1, StackInvariant, PTL

\* The array that CommitStacking allocates from window_count has room for every frame
\* that its loops meet.
THEOREM CommitAlwaysFits == Spec => []CommitFits
<1>1. StackInv => CommitFits
  BY StackInvFits
<1>2. QED
  BY <1>1, StackInvariant, PTL

\* Moving single windows at the server is enough: its order of the listed frames is
\* the one that the lists spell.
THEOREM ServerAlwaysAgrees == Spec => []ServerAgrees
<1>1. StackInv => ServerAgrees
  BY StackInvAgrees
<1>2. QED
  BY <1>1, StackInvariant, PTL

-----------------------------------------------------------------------------
(* Transients and the frames they belong to *)

\* On one level, the server has g over f where the lists have it.
LEMMA OverOnLevel ==
  ASSUME NEW d, NEW E, NEW L, NEW o, OnDesk(d, E, L, o, {}), NEW f \in L, NEW g \in L,
         d.s.level[f] = d.s.level[g]
  PROVE  g \in d.x[f] <=> g \in o[f]
<1>1. g \in d.x[f] <=> g \in Shown(d.s, L, o)[f]
  BY DEF OnDesk, Agree
<1>2. d.s.level[f] \in Nat
  <2>1. d.s.level[f] \in Level
    BY ListedFacts DEF OnDesk
  <2>2. QED
    BY <2>1, StackingAssumption DEF Level
<1>3. QED
  BY <1>1, <1>2 DEF Shown

\* The frame that another belongs to is the same while that is listed.
LEMMA ChildOfKept ==
  ASSUME StackInv, [Next]_vars, NEW f \in context \cap context'
  PROVE  child_of'[f] = child_of[f]
<1>1. PICK o : OnDesk(Desk, Exists, context, o, {})
  BY DEF StackInv
<1>2. f \in Frame /\ f \in Exists /\ child_of \in [Frame -> Window \cup {None}]
  BY <1>1, PartFacts DEF StackInv, PartInv
<1>3. ASSUME NEW g \in Window, NEW l \in Level, NEW owner \in Window \cup {None}, CreateWindow(g, l, owner)
      PROVE  child_of'[f] = child_of[f]
  BY <1>2, <1>3 DEF CreateWindow
<1>4. ASSUME NEW g \in Frame, Destroy(g)
      PROVE  child_of'[f] = child_of[f]
  BY <1>2, <1>4 DEF Destroy
<1>5. CASE child_of' = child_of
  BY <1>5
<1>6. QED
  BY <1>3, <1>4, <1>5 DEF Next, ChangeStackingLevel, MoveInStackListUnder, CreateIcon, CreateLaunchingIcon,
     PutBack, Raise, Lower, RaiseLower, Configure, Cycle, ChangeTransientFor, Keep, vars

\* A step other than that of wClientConfigure leaves transients over the frames they belong to.
LEMMA TransientsStep ==
  ASSUME StackInv, [Next]_vars, \A f \in Window : Orderly(f) /\ ~Configure(f)
  PROVE  \A f \in Window : Belongs(f) => Orderly(f)'
<1>1. PICK o : OnDesk(Desk, Exists, context, o, {})
  BY DEF StackInv
<1>2. /\ None \notin Frame /\ context \subseteq Exists /\ Exists \subseteq Frame
      /\ Desk.s = stack /\ Desk.x = x
  BY <1>1, PartFacts
<1>3. \A f \in Icon : child_of[f] = None
  BY DEF StackInv, PartInv
<1>4. Tidy(o)
  <2> SUFFICES ASSUME NEW t \in context, child_of[t] \in context, stack.level[t] = stack.level[child_of[t]]
               PROVE  t \in o[child_of[t]]
    BY DEF Tidy
  <2>1. child_of[t] # None /\ t \in Frame
    BY <1>2
  <2>2. t \in Window
    BY <1>3, <2>1 DEF Frame
  <2>3. t \in x[child_of[t]]
    BY <2>1, <2>2 DEF Orderly, Belongs
  <2>4. QED
    BY <1>1, <1>2, <2>3, OverOnLevel
<1>5. PICK q : AfterStep(o, q)
  BY <1>1, StepDesk
<1>6. OnDesk(Desk', Exists', context', q, {}) /\ Keeps(o, q)
  BY <1>4, <1>5 DEF AfterStep, NextDesk
<1>7. Desk'.s = stack' /\ Desk'.x = x'
  BY DEF Desk
<1> SUFFICES ASSUME NEW f \in Window, Belongs(f), Belongs(f)'
             PROVE  f \in x'[child_of'[f]]
  BY DEF Orderly
<1>8. f \in context /\ f \in context' /\ child_of'[f] = child_of[f]
  <2>1. f \in context /\ f \in context'
    BY DEF Belongs
  <2>2. QED
    BY <2>1, ChildOfKept
<1> DEFINE c == child_of[f]
<1>9. /\ c \in context /\ c \in context' /\ stack.level[c] = stack.level[f] /\ stack'.level[c] = stack'.level[f]
      /\ f \in x[c]
  BY <1>8 DEF Belongs, Orderly
<1> HIDE DEF c
<1>10. f \in o[c]
  BY <1>1, <1>2, <1>8, <1>9, OverOnLevel
<1>11. f \in q[c]
  BY <1>6, <1>8, <1>9, <1>10 DEF Keeps, c
<1>12. f \in x'[c]
  BY <1>6, <1>7, <1>8, <1>9, <1>11, OverOnLevel
<1>13. QED
  BY <1>8, <1>12 DEF c

\* Raising, lowering, moving between levels, listing and unlisting keep every transient
\* over the frame it belongs to: whatever frame the call is for, however its transients
\* have transients, and whether addresses are used again or owners change.
THEOREM TransientsAlwaysStayAbove == Spec => TransientsStayAbove
<1>1. StackInv /\ [Next]_vars
        => [(\A f \in Window : Orderly(f) /\ ~Configure(f))
              => \A f \in Window : Belongs(f) => Orderly(f)']_vars
  BY TransientsStep
<1>2. QED
  BY <1>1, StackInvariant, PTL DEF Spec, TransientsStayAbove

-----------------------------------------------------------------------------
(* Raising returns *)

\* Owners were there before their transients, so that no frame is a transient of itself.
Ranked(c, rank) == rank \in [Frame -> Nat] /\ \A f \in Frame : c[f] # None => rank[c[f]] < rank[f]
RankInv == Reuse \/ \E rank : Ranked(child_of, rank)

\* At first there are no transients.
LEMMA RankInvInit == Init => RankInv
<1> SUFFICES ASSUME Init PROVE RankInv
  OBVIOUS
<1>1. Ranked(child_of, [f \in Frame |-> 0])
  BY DEF Init, Ranked
<1>2. QED
  BY <1>1 DEF RankInv

\* A new frame ranks over its owner, and nothing is its transient yet.
LEMMA RankInvStep == StackInv /\ RankInv /\ [Next]_vars => RankInv'
<1> SUFFICES ASSUME StackInv, RankInv, [Next]_vars, ~Reuse
             PROVE  \E rank : Ranked(child_of', rank)
  BY DEF RankInv
<1>1. PICK rank : Ranked(child_of, rank)
  BY DEF RankInv
<1>2. /\ child_of \in [Frame -> Window \cup {None}] /\ None \notin Frame /\ Exists \subseteq used /\ used \subseteq Frame
      /\ \A g \in Frame : child_of[g] # None => child_of[g] \in used
  BY StackingAssumption DEF StackInv, PartInv
<1>3. ASSUME NEW f \in Window, NEW l \in Level, NEW owner \in Window \cup {None}, CreateWindow(f, l, owner)
      PROVE  \E r : Ranked(child_of', r)
  <2>1. /\ f \in Frame /\ f \notin used /\ owner \in Exists \cup {None}
        /\ child_of' = [child_of EXCEPT ![f] = owner]
    BY <1>3 DEF CreateWindow, Frame
  <2> DEFINE high == IF owner = None THEN 0 ELSE rank[owner] + 1
             r == [rank EXCEPT ![f] = high]
  <2>2. rank \in [Frame -> Nat] /\ high \in Nat /\ (owner # None => owner # f /\ owner \in Frame /\ rank[owner] < high)
    BY <1>1, <1>2, <2>1 DEF Ranked
  <2> HIDE DEF high
  <2>3. r \in [Frame -> Nat] /\ r[f] = high /\ \A g \in Frame \ {f} : r[g] = rank[g]
    BY <2>1, <2>2
  <2>4. child_of'[f] = owner /\ \A g \in Frame \ {f} : child_of'[g] = child_of[g]
    BY <1>2, <2>1
  <2> HIDE DEF r
  <2>5. ASSUME NEW g \in Frame, child_of'[g] # None PROVE r[child_of'[g]] < r[g]
    <3>1. CASE g = f
      BY <2>2, <2>3, <2>4, <2>5, <3>1
    <3>2. CASE g # f
      <4>1. child_of'[g] = child_of[g] /\ child_of[g] \in Frame \ {f} /\ rank[child_of[g]] < rank[g]
        BY <1>1, <1>2, <2>1, <2>4, <2>5, <3>2 DEF Ranked
      <4>2. QED
        BY <2>3, <3>2, <4>1
    <3>3. QED
      BY <3>1, <3>2
  <2>6. Ranked(child_of', r)
    BY <2>3, <2>5 DEF Ranked
  <2>7. QED
    BY <2>6
<1>4. ASSUME NEW f \in Frame, Destroy(f)
      PROVE  \E r : Ranked(child_of', r)
  <2>1. \A g \in Frame : child_of'[g] # None => child_of'[g] = child_of[g]
    BY <1>2, <1>4 DEF Destroy
  <2>2. Ranked(child_of', rank)
    BY <1>1, <2>1 DEF Ranked
  <2>3. QED
    BY <2>2
<1>5. CASE child_of' = child_of
  BY <1>1, <1>5
<1>6. QED
  BY <1>3, <1>4, <1>5 DEF Next, ChangeStackingLevel, MoveInStackListUnder, CreateIcon, CreateLaunchingIcon,
     PutBack, Raise, Lower, RaiseLower, Configure, Cycle, ChangeTransientFor, Keep, vars

\* Without reuse the chain of child_of never comes back to a frame, on whatever levels:
\* the condition ~Runaway of the actions that raise holds by itself.
LEMMA NoRunaway ==
  ASSUME StackInv, RankInv, ~Reuse, NEW s, NEW f \in context
  PROVE  ~Runaway(s, f)
<1>1. PICK rank : Ranked(child_of, rank)
  BY DEF RankInv
<1>2. PICK o : OnDesk(Desk, Exists, context, o, {})
  BY DEF StackInv
<1>3. context \subseteq Frame /\ None \notin Frame
  BY <1>2, PartFacts
<1> DEFINE ow == OwnerOf(s.level)
           M == {g \in Frame : rank[g] < rank[f]}
<1>4. ow \in Links /\ \A g \in Frame : ow[g] # None => ow[g] = child_of[g] /\ ow[g] \in Frame
  BY <1>3 DEF OwnerOf, Links
<1>5. Runaway(s, f) <=> f \in Met(ow, ow[f])
  BY DEF Runaway, OwnerOf
<1> HIDE DEF ow
<1>6. \A g \in Frame : ow[g] # None => rank[ow[g]] < rank[g]
  BY <1>1, <1>4 DEF Ranked
<1>7. rank \in [Frame -> Nat] /\ f \in Frame
  BY <1>1, <1>3 DEF Ranked
<1>8. ow[f] \in M \cup {None} /\ \A g \in M : ow[g] \in M \cup {None}
  BY <1>4, <1>6, <1>7
<1>9. f \notin M /\ M \in SUBSET Frame /\ ow[f] \in Frame \cup {None}
  BY <1>4, <1>7
<1> HIDE DEF M
<1>10. Met(ow, ow[f]) \subseteq M
  BY <1>4, <1>8, <1>9, MetIsLeast
<1>11. QED
  BY <1>5, <1>9, <1>10

\* A call of wRaiseFrame returns whatever the lists and the transients, as long as freed
\* frames' addresses are not used again; with reuse two frames may own each other, and the
\* recursion does not end.
THEOREM RaiseAlwaysReturns == Spec => [](~Reuse => RaiseReturns)
<1>1. Init => RankInv
  BY RankInvInit
<1>2. StackInv /\ RankInv /\ [Next]_vars => RankInv'
  BY RankInvStep
<1>3. StackInv /\ RankInv => (~Reuse => RaiseReturns)
  <2> SUFFICES ASSUME StackInv, RankInv, ~Reuse, NEW f \in context, stack.above[f] # None
               PROVE  Raising(Desk, f)[2 * Cardinality(Frame)].cur = None
    BY DEF RaiseReturns
  <2>1. PICK o : OnDesk(Desk, Exists, context, o, {})
    BY DEF StackInv
  <2>2. child_of \in Links /\ Desk.s = stack
    BY <2>1, PartFacts
  <2>3. ~Runaway(Desk.s, f)
    BY NoRunaway
  <2>4. QED
    BY <2>1, <2>2, <2>3, RaiseListed
<1>4. QED
  BY <1>1, <1>2, <1>3, StackInvariant, PTL DEF Spec
================================================================================
