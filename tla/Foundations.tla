----------------------------- MODULE Foundations -----------------------------
(***************************************************************************)
(* What the proofs about the pure parts of the system have in common:      *)
(* induction, functions defined by recursion, and sequences.  Nothing here *)
(* models code.                                                            *)
(*                                                                         *)
(* The induction theorems of the library take a predicate as an operator,  *)
(* which the provers cannot instantiate.  Here induction is about a set,   *)
(* and a recursive definition about a function, that says what a step      *)
(* makes of the values so far.                                             *)
(***************************************************************************)
EXTENDS Integers, SequencesExt, Collections, FiniteSetTheorems, SequenceTheorems, TLAPS

\* The order of the natural numbers, as a relation.
Before == {p \in Nat \X Nat : p[1] < p[2]}

\* Natural numbers cannot decrease for ever.
LEMMA BeforeWellFounded == IsWellFoundedOn(Before, Nat)
  BY NatLessThanWellFounded DEF OpToRel, Before

\* A set of natural numbers that is not empty has a least element.
LEMMA LeastNatural ==
  ASSUME NEW T, T \subseteq Nat, T # {}
  PROVE  \E x \in T : \A y \in T : x <= y
<1>1. PICK x \in T : \A y \in T : ~(<<y, x>> \in Before)
  BY BeforeWellFounded, WFMin
<1>2. ASSUME NEW y \in T, y < x PROVE FALSE
  BY <1>1, <1>2 DEF Before
<1> QED BY <1>2

\* Induction: a set with 0 and every successor of its elements has every number.
LEMMA Induction ==
  ASSUME NEW T, 0 \in T, \A n \in Nat : n \in T => n + 1 \in T
  PROVE  \A n \in Nat : n \in T
<1> SUFFICES ASSUME Nat \ T # {} PROVE FALSE
  OBVIOUS
<1>1. PICK x \in Nat \ T : \A y \in Nat \ T : x <= y
  BY LeastNatural
<1>2. x # 0 /\ x - 1 \in Nat
  OBVIOUS
<1> QED BY <1>1, <1>2

\* Induction over all smaller numbers.
LEMMA StrongInduction ==
  ASSUME NEW T, \A n \in Nat : (\A m \in 0 .. n - 1 : m \in T) => n \in T
  PROVE  \A n \in Nat : n \in T
<1> SUFFICES ASSUME Nat \ T # {} PROVE FALSE
  OBVIOUS
<1>1. PICK x \in Nat \ T : \A y \in Nat \ T : x <= y
  BY LeastNatural
<1>2. \A m \in 0 .. x - 1 : m \in T
  BY <1>1
<1> QED BY <1>2

----------------------------------------------------------------------------
(* Functions defined by recursion.  Their domain comes in stages, and the  *)
(* value at a point depends on those at earlier stages only.               *)

\* f is right up to the n-th stage: each value is what the step makes of the others.
RightUpTo(f, stage, step, n) ==
  \A m \in 0 .. n : \A x \in stage[m] : f[x] = step[<<f, x>>]

\* A step looks at the values of earlier stages, and no others.
LooksBack(D, V, stage, step) ==
  \A n \in Nat : \A x \in stage[n] : \A f, g \in [D -> V] :
    (\A m \in 0 .. n - 1 : \A y \in stage[m] : f[y] = g[y]) => step[<<f, x>>] = step[<<g, x>>]

\* Functions that are right up to a stage agree up to it.
LEMMA RecursionUnique ==
  ASSUME NEW D, NEW V, NEW stage \in [Nat -> SUBSET D], NEW step,
         LooksBack(D, V, stage, step),
         NEW f \in [D -> V], NEW g \in [D -> V], NEW n \in Nat,
         RightUpTo(f, stage, step, n), RightUpTo(g, stage, step, n)
  PROVE  \A m \in 0 .. n : \A x \in stage[m] : f[x] = g[x]
<1> DEFINE T == {m \in Nat : m <= n => \A x \in stage[m] : f[x] = g[x]}
<1>1. ASSUME NEW m \in Nat, \A k \in 0 .. m - 1 : k \in T PROVE m \in T
  <2> SUFFICES ASSUME m <= n, NEW x \in stage[m] PROVE f[x] = g[x]
    OBVIOUS
  <2>1. \A k \in 0 .. m - 1 : \A y \in stage[k] : f[y] = g[y]
    BY <1>1
  <2>2. step[<<f, x>>] = step[<<g, x>>]
    BY <2>1 DEF LooksBack
  <2> QED BY <2>2 DEF RightUpTo
<1>2. \A m \in Nat : m \in T
  <2> HIDE DEF T
  <2> QED BY <1>1, StrongInduction
<1> QED BY <1>2

\* For every stage there is a function that is right up to it.
LEMMA RecursionStage ==
  ASSUME NEW D, NEW V, NEW stage \in [Nat -> SUBSET D], NEW step,
         V # {}, \A f \in [D -> V], x \in D : step[<<f, x>>] \in V,
         LooksBack(D, V, stage, step), NEW n \in Nat
  PROVE  \E f \in [D -> V] : RightUpTo(f, stage, step, n)
<1> DEFINE T == {m \in Nat : \E f \in [D -> V] : RightUpTo(f, stage, step, m)}
           Next(f, m) == [x \in D |-> IF \E k \in 0 .. m - 1 : x \in stage[k]
                                        THEN f[x] ELSE step[<<f, x>>]]
<1>1. ASSUME NEW m \in Nat, NEW f \in [D -> V], m > 0 => RightUpTo(f, stage, step, m - 1)
      PROVE  m \in T
  <2> DEFINE g == Next(f, m)
  <2>1. g \in [D -> V]
    OBVIOUS
  <2>2. \A k \in 0 .. m - 1 : \A x \in stage[k] : g[x] = f[x]
    <3> TAKE k \in 0 .. m - 1
    <3> TAKE x \in stage[k]
    <3>1. x \in D
      OBVIOUS
    <3> QED BY <3>1
  <2>3. ASSUME NEW k \in 0 .. m, NEW x \in stage[k] PROVE g[x] = step[<<g, x>>]
    <3>0. x \in D /\ k \in Nat
      OBVIOUS
    <3>1. step[<<g, x>>] = step[<<f, x>>]
      <4> HIDE DEF g
      <4>1. \A l \in 0 .. k - 1 : \A y \in stage[l] : g[y] = f[y]
        BY <2>2
      <4> QED BY <2>1, <4>1, <3>0 DEF LooksBack
    <3>2. CASE \E l \in 0 .. m - 1 : x \in stage[l]
      <4>1. PICK l \in 0 .. m - 1 : x \in stage[l]
        BY <3>2
      <4>2. f[x] = step[<<f, x>>]
        BY <4>1, <1>1 DEF RightUpTo
      <4> QED BY <4>1, <4>2, <3>1, <2>2
    <3>3. CASE ~\E l \in 0 .. m - 1 : x \in stage[l]
      BY <3>0, <3>1, <3>3
    <3> QED BY <3>2, <3>3
  <2>4. RightUpTo(g, stage, step, m)
    <3> HIDE DEF g
    <3> QED BY <2>3 DEF RightUpTo
  <2> QED BY <2>1, <2>4
<1>2. 0 \in T
  <2>1. PICK v : v \in V
    OBVIOUS
  <2>2. [x \in D |-> v] \in [D -> V]
    BY <2>1
  <2> HIDE DEF T
  <2>3. 0 \in Nat /\ ~(0 > 0)
    OBVIOUS
  <2> QED BY ONLY <1>1, <2>2, <2>3
<1>3. ASSUME NEW m \in Nat, m \in T PROVE m + 1 \in T
  <2>1. PICK f \in [D -> V] : RightUpTo(f, stage, step, m)
    BY <1>3
  <2> HIDE DEF T
  <2> QED BY <1>1, <2>1
<1>4. n \in T
  <2> HIDE DEF T
  <2> QED BY <1>2, <1>3, Induction
<1> QED BY <1>4

\* What a definition by recursion has to be like.
IsRecursion(D, V, stage, step) ==
  /\ stage \in [Nat -> SUBSET D] /\ D = UNION {stage[n] : n \in Nat}
  /\ V # {} /\ \A f \in [D -> V], x \in D : step[<<f, x>>] \in V
  /\ LooksBack(D, V, stage, step)

\* It defines a function.
LEMMA Recursion ==
  ASSUME NEW D, NEW V, NEW stage, NEW step, IsRecursion(D, V, stage, step)
  PROVE  \E f \in [D -> V] : \A x \in D : f[x] = step[<<f, x>>]
<1> USE DEF IsRecursion
<1> DEFINE G == [n \in Nat |-> CHOOSE f \in [D -> V] : RightUpTo(f, stage, step, n)]
           at == [x \in D |-> CHOOSE n \in Nat : x \in stage[n]]
           f == [x \in D |-> G[at[x]][x]]
<1>1. \A n \in Nat : G[n] \in [D -> V] /\ RightUpTo(G[n], stage, step, n)
  BY RecursionStage
<1>2. \A x \in D : at[x] \in Nat /\ x \in stage[at[x]]
  OBVIOUS
<1> HIDE DEF G, at
<1>3. f \in [D -> V]
  BY <1>1, <1>2
<1>4. ASSUME NEW n \in Nat, NEW x \in D, \E m \in 0 .. n : x \in stage[m]
      PROVE  f[x] = G[n][x]
  <2> DEFINE k == at[x]
  <2>1. k \in Nat /\ x \in stage[k] /\ f[x] = G[k][x]
    BY <1>2
  <2> HIDE DEF k, f
  <2>2. G[n] \in [D -> V] /\ G[k] \in [D -> V]
    BY <1>1, <2>1
  <2>3. RightUpTo(G[n], stage, step, n) /\ RightUpTo(G[k], stage, step, k)
    BY <1>1, <2>1
  <2>4. CASE k <= n
    <3>1. \A i \in 0 .. k : i \in 0 .. n
      BY <2>1, <2>4
    <3>2. RightUpTo(G[n], stage, step, k)
      BY <2>3, <3>1 DEF RightUpTo
    <3>3. \A i \in 0 .. k : \A y \in stage[i] : G[n][y] = G[k][y]
      BY <2>1, <2>2, <2>3, <3>2, RecursionUnique
    <3> QED BY <2>1, <3>3
  <2>5. CASE k > n
    <3>1. \A i \in 0 .. n : i \in 0 .. k
      BY <2>1, <2>5
    <3>2. RightUpTo(G[k], stage, step, n)
      BY <2>3, <3>1 DEF RightUpTo
    <3>3. \A i \in 0 .. n : \A y \in stage[i] : G[k][y] = G[n][y]
      BY <2>2, <2>3, <3>2, RecursionUnique
    <3> QED BY <1>4, <2>1, <3>3
  <2> QED BY <2>1, <2>4, <2>5
<1>5. ASSUME NEW x \in D PROVE f[x] = step[<<f, x>>]
  <2> DEFINE n == at[x]
  <2>0. n \in Nat /\ x \in stage[n] /\ f[x] = G[n][x]
    BY <1>2
  <2> HIDE DEF f, n
  <2>1. G[n] \in [D -> V] /\ RightUpTo(G[n], stage, step, n)
    BY <1>1, <2>0
  <2>2. G[n][x] = step[<<G[n], x>>]
    BY <2>0, <2>1 DEF RightUpTo
  <2>3. ASSUME NEW m \in 0 .. n - 1, NEW y \in stage[m] PROVE f[y] = G[n][y]
    <3>1. m \in Nat /\ m \in 0 .. n /\ y \in D
      BY <2>0
    <3> QED BY <1>4, <2>0, <3>1
  <2>4. step[<<f, x>>] = step[<<G[n], x>>]
    BY <1>3, <2>0, <2>1, <2>3 DEF LooksBack
  <2> QED BY <2>0, <2>2, <2>4
<1> QED BY <1>3, <1>5

\* One value after the other, each made of the one before.
IsIteration(V, n, first, step) ==
  n \in Nat /\ first \in V /\ \A v \in V : \A i \in 1 .. n : step[<<v, i>>] \in V

\* There is such a sequence of values, for any number of steps.
LEMMA Iteration ==
  ASSUME NEW V, NEW n, NEW first, NEW step, IsIteration(V, n, first, step)
  PROVE  \E g \in [0 .. n -> V] :
           g[0] = first /\ \A i \in 1 .. n : g[i] = step[<<g[i - 1], i>>]
<1> USE DEF IsIteration
<1> DEFINE Good(g, m) == /\ g \in [0 .. m -> V] /\ g[0] = first
                         /\ \A i \in 1 .. m : g[i] = step[<<g[i - 1], i>>]
           T == {m \in Nat : m <= n => \E g : Good(g, m)}
<1>1. 0 \in T
  <2> DEFINE g == [i \in 0 .. 0 |-> first]
  <2>1. Good(g, 0)
    OBVIOUS
  <2> QED BY <2>1
<1>2. ASSUME NEW m \in Nat, m \in T PROVE m + 1 \in T
  <2> SUFFICES ASSUME m + 1 <= n PROVE \E h : Good(h, m + 1)
    OBVIOUS
  <2>1. PICK g : Good(g, m)
    BY <1>2
  <2> DEFINE h == [i \in 0 .. m + 1 |-> IF i <= m THEN g[i] ELSE step[<<g[m], m + 1>>]]
  <2>2. h \in [0 .. m + 1 -> V]
    BY <2>1
  <2>3. \A i \in 0 .. m : h[i] = g[i]
    OBVIOUS
  <2>4. h[m + 1] = step[<<h[m], m + 1>>]
    <3>1. h[m] = g[m] /\ h[m + 1] = step[<<g[m], m + 1>>]
      OBVIOUS
    <3> HIDE DEF h
    <3> QED BY <3>1
  <2> HIDE DEF h
  <2>5. ASSUME NEW i \in 1 .. m + 1 PROVE h[i] = step[<<h[i - 1], i>>]
    <3>1. CASE i = m + 1
      BY <2>4, <3>1
    <3>2. CASE i # m + 1
      <4>1. i \in 1 .. m /\ i \in 0 .. m /\ i - 1 \in 0 .. m
        BY <3>2
      <4> QED BY <2>1, <2>3, <4>1
    <3> QED BY <3>1, <3>2
  <2>6. Good(h, m + 1)
    BY <2>1, <2>2, <2>3, <2>5
  <2> QED BY <2>6
<1>3. n \in T
  <2> HIDE DEF T
  <2> QED BY <1>1, <1>2, Induction
<1> QED BY <1>3

----------------------------------------------------------------------------
(* Counting *)

\* A function from S that has every value in T, and one that has each once.
Onto(f, S, T) == f \in [S -> T] /\ \A y \in T : \E x \in S : f[x] = y
OneToOne(f, S, T) == Onto(f, S, T) /\ \A x, y \in S : f[x] = f[y] => x = y

\* What a finite set is mapped onto is finite.
LEMMA FiniteImage ==
  ASSUME NEW S, NEW T, NEW f, IsFiniteSet(S), Onto(f, S, T) PROVE IsFiniteSet(T)
<1>1. f \in Surjection(S, T)
  BY DEF Onto, Surjection
<1> QED BY <1>1, FS_Surjection

\* Elements of a set that correspond to those of another are as many.
LEMMA CountedAlike ==
  ASSUME NEW S, NEW T, NEW f, NEW P, NEW Q, IsFiniteSet(S), OneToOne(f, S, T), P \subseteq S, Q \subseteq T,
         \A x \in S : x \in P <=> f[x] \in Q
  PROVE  Cardinality(P) = Cardinality(Q)
<1> DEFINE g == [x \in P |-> f[x]]
<1>1. IsFiniteSet(P)
  BY FS_Subset
<1>2. g \in [P -> Q]
  BY DEF OneToOne, Onto
<1>3. \A x, y \in P : g[x] = g[y] => x = y
  BY DEF OneToOne
<1>4. \A y \in Q : \E x \in P : g[x] = y
  <2> SUFFICES ASSUME NEW y \in Q PROVE \E x \in P : g[x] = y
    OBVIOUS
  <2>1. PICK x \in S : f[x] = y
    BY DEF OneToOne, Onto
  <2>2. x \in P
    BY <2>1
  <2> QED BY <2>1, <2>2
<1> HIDE DEF g
<1>5. g \in Bijection(P, Q)
  BY <1>2, <1>3, <1>4 DEF Bijection, Injection, Surjection, IsInjective
<1> QED BY <1>1, <1>5, FS_Bijection DEF ExistsBijection

\* SetToSeq has every element of a finite set once.
LEMMA SetToSeqIs ==
  ASSUME NEW S, IsFiniteSet(S)
  PROVE  Cardinality(S) \in Nat /\ OneToOne(SetToSeq(S), 1 .. Cardinality(S), S)
<1> DEFINE n == Cardinality(S)
           s == SetToSeq(S)
<1>1. n \in Nat /\ \E f : f \in Bijection(1 .. n, S)
  BY FS_CardinalityType DEF ExistsBijection
<1>2. IsFiniteSet(1 .. n) /\ Cardinality(1 .. n) = n
  BY <1>1, FS_Interval
<1> HIDE DEF n
<1>3. \E f \in [1 .. n -> S] : IsInjective(f)
  BY <1>1 DEF Bijection, Injection
<1>4. s = CHOOSE f \in [1 .. n -> S] : IsInjective(f)
  BY DEF SetToSeq, n
<1> HIDE DEF s
<1>5. s \in [1 .. n -> S] /\ IsInjective(s)
  BY <1>3, <1>4
<1>6. s \in Injection(1 .. n, S)
  BY <1>5 DEF Injection
<1>7. s \in Surjection(1 .. n, S)
  BY <1>2, <1>6, FS_Injection DEF n
<1>8. OneToOne(s, 1 .. n, S)
  BY <1>5, <1>7 DEF OneToOne, Onto, Surjection, IsInjective
<1> QED BY <1>1, <1>8 DEF n, s

\* What holds up to some place holds of as many places as there are.
LEMMA FirstPlaces ==
  ASSUME NEW n, NEW P, n \in Nat, P \subseteq 1 .. n, \A k \in P : \A j \in 1 .. k : j \in P
  PROVE  /\ Cardinality(P) \in 0 .. n
         /\ \A k \in 1 .. n : k \in P <=> k <= Cardinality(P)
<1> DEFINE T == {k \in Nat \ {0} : k \notin P}
<1>1. T \subseteq Nat /\ n + 1 \in T
  OBVIOUS
<1>2. PICK m \in T : \A k \in T : m <= k
  <2> HIDE DEF T
  <2> QED BY <1>1, LeastNatural
<1>3. m \in Nat \ {0} /\ m <= n + 1 /\ m \notin P
  BY <1>1, <1>2
<1>4. \A k : k \in P <=> k \in 1 .. m - 1
  <2>1. ASSUME NEW k \in P PROVE k \in 1 .. m - 1
    <3>1. k \in 1 .. n
      OBVIOUS
    <3>2. m \notin 1 .. k
      BY <1>3
    <3> QED BY <1>3, <3>1, <3>2
  <2>2. ASSUME NEW k \in 1 .. m - 1 PROVE k \in P
    <3>1. k \in Nat \ {0} /\ ~(m <= k)
      BY <1>3
    <3> QED BY <1>2, <3>1
  <2> QED BY <2>1, <2>2
<1>5. P = 1 .. m - 1
  BY <1>4
<1>6. Cardinality(1 .. m - 1) = m - 1
  BY <1>3, FS_Interval
<1> HIDE DEF T
<1> QED BY <1>3, <1>5, <1>6

\* What holds from some place on holds of the last ones.
LEMMA LastPlaces ==
  ASSUME NEW n, NEW P, n \in Nat, P \subseteq 1 .. n, \A k \in P : \A j \in k .. n : j \in P
  PROVE  /\ Cardinality(P) \in 0 .. n
         /\ \A k \in 1 .. n : k \in P <=> k > n - Cardinality(P)
<1> DEFINE Q == {k \in 1 .. n : k \notin P}
           m == Cardinality(Q)
<1>1. \A k \in Q : \A j \in 1 .. k : j \in Q
  <2> SUFFICES ASSUME NEW k \in Q, NEW j \in 1 .. k, j \in P PROVE FALSE
    OBVIOUS
  <2>1. k \in j .. n
    OBVIOUS
  <2> QED BY <2>1
<1>2. Q \subseteq 1 .. n
  OBVIOUS
<1>3. m \in 0 .. n /\ \A k \in 1 .. n : k \in Q <=> k <= m
  <2> HIDE DEF Q
  <2> QED BY <1>1, <1>2, FirstPlaces
<1>4. \A k \in 1 .. n : k \in Q <=> k <= m
  BY <1>3
<1> HIDE DEF m
<1>5. P = m + 1 .. n
  <2>1. \A k \in P : k \in m + 1 .. n
    BY <1>3, <1>4
  <2>2. \A k \in m + 1 .. n : k \in P
    BY <1>3, <1>4
  <2> QED BY <2>1, <2>2
<1>6. Cardinality(m + 1 .. n) = n - m
  <2>1. m + 1 \in Int /\ n \in Int /\ (m + 1 > n => n - m = 0) /\ n - (m + 1) + 1 = n - m
    BY <1>3
  <2> DEFINE a == m + 1
  <2> HIDE DEF a
  <2>2. Cardinality(a .. n) = IF a > n THEN 0 ELSE n - a + 1
    BY <2>1, FS_Interval DEF a
  <2> QED BY <2>1, <2>2 DEF a
<1> QED BY <1>3, <1>5, <1>6

----------------------------------------------------------------------------
(* Sets in order *)

\* A strict order in which any two elements can be compared.
StrictOrder(S, before) ==
  /\ \A x \in S : <<x, x>> \notin before
  /\ \A x, y, z \in S : <<x, y>> \in before /\ <<y, z>> \in before => <<x, z>> \in before
  /\ \A x, y \in S : x = y \/ <<x, y>> \in before \/ <<y, x>> \in before

\* A sequence whose earlier items are before its later ones.
InOrder(s, before) ==
  \A i \in 1 .. Len(s) : \A j \in 1 .. Len(s) : i < j => <<s[i], s[j]>> \in before

\* SortedBy has every element of the set once, and has them in order.
LEMMA SortedByOrder ==
  ASSUME NEW S, NEW before, IsFiniteSet(S), StrictOrder(S, before)
  PROVE  /\ SortedBy(S, before) \in Seq(S)
         /\ Len(SortedBy(S, before)) = Cardinality(S)
         /\ InOrder(SortedBy(S, before), before)
         /\ \A x \in S : \E k \in 1 .. Cardinality(S) : SortedBy(S, before)[k] = x
<1> DEFINE N == Cardinality(S)
           Lower(x) == {y \in S : <<y, x>> \in before}
           rank == [x \in S |-> Cardinality(Lower(x)) + 1]
<1>1. N \in Nat
  BY FS_CardinalityType
<1>2. ASSUME NEW x \in S
      PROVE  IsFiniteSet(Lower(x)) /\ Cardinality(Lower(x)) \in Nat /\ Cardinality(Lower(x)) < N
  <2>1. Lower(x) \in SUBSET S /\ x \notin Lower(x)
    BY DEF StrictOrder
  <2> HIDE DEF Lower
  <2>2. IsFiniteSet(Lower(x)) /\ Cardinality(Lower(x)) <= N /\ Cardinality(Lower(x)) # N
    BY <2>1, FS_Subset
  <2>3. Cardinality(Lower(x)) \in Nat
    BY <2>2, FS_CardinalityType
  <2> QED BY <1>1, <2>2, <2>3
<1>3. rank \in [S -> 1 .. N]
  <2> HIDE DEF Lower, N
  <2> QED BY <1>1, <1>2
<1>4. ASSUME NEW x \in S, NEW y \in S, <<x, y>> \in before PROVE rank[x] < rank[y]
  <2>1. Lower(x) \in SUBSET Lower(y) /\ x \in Lower(y) /\ x \notin Lower(x)
    BY <1>4 DEF StrictOrder
  <2> HIDE DEF Lower
  <2>2. Cardinality(Lower(x)) <= Cardinality(Lower(y)) /\ Cardinality(Lower(x)) # Cardinality(Lower(y))
    BY <1>2, <2>1, FS_Subset
  <2> QED BY <1>2, <2>2
<1> HIDE DEF Lower
<1>5. \A x \in S : Cardinality({y \in S : <<y, x>> \in before}) = rank[x] - 1
  BY <1>2 DEF Lower
<1> HIDE DEF rank
<1>6. rank \in Injection(S, 1 .. N)
  <2>1. ASSUME NEW x \in S, NEW y \in S, x # y PROVE rank[x] # rank[y]
    <3>1. <<x, y>> \in before \/ <<y, x>> \in before
      BY <2>1 DEF StrictOrder
    <3>2. rank[x] \in Int /\ rank[y] \in Int
      BY <1>1, <1>3
    <3> QED BY <1>4, <3>1, <3>2
  <2> QED BY <1>3, <2>1 DEF Injection, IsInjective
<1>7. rank \in Surjection(S, 1 .. N)
  <2>1. IsFiniteSet(1 .. N) /\ Cardinality(1 .. N) = N
    <3> HIDE DEF N
    <3> QED BY <1>1, FS_Interval
  <2> QED BY <1>6, <2>1, FS_Injection
<1> DEFINE s == SortedBy(S, before)
<1>8. ASSUME NEW k \in 1 .. N PROVE s[k] \in S /\ rank[s[k]] = k
  <2>1. PICK x \in S : rank[x] = k
    BY <1>7 DEF Surjection
  <2>2. Cardinality({y \in S : <<y, x>> \in before}) = k - 1
    BY <1>5, <2>1
  <2>3. s[k] = CHOOSE z \in S : Cardinality({y \in S : <<y, z>> \in before}) = k - 1
    BY DEF SortedBy
  <2>4. s[k] \in S /\ Cardinality({y \in S : <<y, s[k]>> \in before}) = k - 1
    BY <2>2, <2>3
  <2>5. rank[s[k]] \in Int
    BY <1>1, <1>3, <2>4
  <2> QED BY <1>5, <2>4, <2>5
<1>9. s = [k \in 1 .. N |-> s[k]]
  <2> DEFINE at(k) == CHOOSE x \in S : Cardinality({y \in S : <<y, x>> \in before}) = k - 1
  <2>1. s = [k \in 1 .. N |-> at(k)]
    BY DEF SortedBy
  <2> HIDE DEF s, at
  <2> QED BY <2>1
<1> HIDE DEF s, N
<1>10. s \in Seq(S) /\ Len(s) = N
  <2>1. s \in [1 .. N -> S]
    BY <1>8, <1>9
  <2> QED BY <1>1, <2>1
<1>11. ASSUME NEW i \in 1 .. N, NEW j \in 1 .. N, i < j PROVE <<s[i], s[j]>> \in before
  <2>1. s[i] \in S /\ s[j] \in S /\ rank[s[i]] = i /\ rank[s[j]] = j
    BY <1>8
  <2>2. s[i] # s[j]
    BY <2>1, <1>11
  <2>3. ~(<<s[j], s[i]>> \in before)
    BY <1>1, <1>4, <1>11, <2>1
  <2> QED BY <2>1, <2>2, <2>3 DEF StrictOrder
<1>12. ASSUME NEW x \in S PROVE \E k \in 1 .. N : s[k] = x
  <2>1. rank[x] \in 1 .. N
    BY <1>3
  <2>2. s[rank[x]] \in S /\ rank[s[rank[x]]] = rank[x]
    BY <1>8, <2>1
  <2>3. s[rank[x]] = x
    BY <1>6, <2>2 DEF Injection, IsInjective
  <2> QED BY <2>1, <2>3
<1>13. InOrder(s, before)
  BY <1>10, <1>11 DEF InOrder
<1> QED BY <1>10, <1>12, <1>13 DEF s, N

\* Sequences in order with the same elements begin alike.
LEMMA SortedPrefix ==
  ASSUME NEW S, NEW before, NEW s, NEW t, StrictOrder(S, before), s \in Seq(S), t \in Seq(S),
         InOrder(s, before), InOrder(t, before), Range(s) = Range(t)
  PROVE  \A i \in 1 .. Len(s) : i <= Len(t) /\ s[i] = t[i]
<1> DEFINE T == {i \in Nat : i \in 1 .. Len(s) => i <= Len(t) /\ s[i] = t[i]}
<1>1. ASSUME NEW i \in Nat, \A m \in 0 .. i - 1 : m \in T PROVE i \in T
  <2> SUFFICES ASSUME i \in 1 .. Len(s) PROVE i <= Len(t) /\ s[i] = t[i]
    OBVIOUS
  <2>0. Len(s) \in Nat /\ Len(t) \in Nat
    OBVIOUS
  <2>1. \A m \in 1 .. i - 1 : m <= Len(t) /\ s[m] = t[m]
    BY <1>1
  <2>2. PICK k \in 1 .. Len(t) : t[k] = s[i]
    <3>1. DOMAIN s = 1 .. Len(s) /\ DOMAIN t = 1 .. Len(t)
      OBVIOUS
    <3>2. s[i] \in Range(t)
      BY <3>1 DEF Range
    <3> QED BY <3>1, <3>2 DEF Range
  <2>3. ~(k < i)
    <3> SUFFICES ASSUME k < i PROVE FALSE
      OBVIOUS
    <3>1. s[k] = s[i] /\ <<s[k], s[i]>> \in before /\ s[i] \in S
      BY <2>1, <2>2 DEF InOrder
    <3> QED BY <3>1 DEF StrictOrder
  <2>4. i \in 1 .. Len(t)
    BY <2>0, <2>3
  <2>5. PICK m \in 1 .. Len(s) : s[m] = t[i]
    <3>1. DOMAIN s = 1 .. Len(s) /\ DOMAIN t = 1 .. Len(t)
      OBVIOUS
    <3>2. t[i] \in Range(s)
      BY <2>4, <3>1 DEF Range
    <3> QED BY <3>1, <3>2 DEF Range
  <2>6. ~(m < i)
    <3> SUFFICES ASSUME m < i PROVE FALSE
      OBVIOUS
    <3>1. t[m] = t[i] /\ m \in 1 .. Len(t) /\ t[i] \in S
      BY <2>1, <2>4, <2>5
    <3>2. <<t[m], t[i]>> \in before
      BY <2>4, <3>1 DEF InOrder
    <3> QED BY <3>1, <3>2 DEF StrictOrder
  <2>7. k = i \/ <<t[i], s[i]>> \in before
    BY <2>2, <2>3, <2>4 DEF InOrder
  <2>8. m = i \/ <<s[i], t[i]>> \in before
    BY <2>5, <2>6 DEF InOrder
  <2>9. s[i] \in S /\ t[i] \in S
    BY <2>4
  <2>10. ~(<<s[i], t[i]>> \in before /\ <<t[i], s[i]>> \in before)
    BY <2>9 DEF StrictOrder
  <2> QED BY <2>2, <2>4, <2>5, <2>7, <2>8, <2>10
<1>2. \A i \in Nat : i \in T
  <2> HIDE DEF T
  <2> QED BY <1>1, StrongInduction
<1> QED BY <1>2

\* They are the same.
LEMMA SortedUnique ==
  ASSUME NEW S, NEW before, NEW s, NEW t, StrictOrder(S, before), s \in Seq(S), t \in Seq(S),
         InOrder(s, before), InOrder(t, before), Range(s) = Range(t)
  PROVE  s = t
<1>1. \A i \in 1 .. Len(s) : i <= Len(t) /\ s[i] = t[i]
  BY SortedPrefix
<1>2. \A i \in 1 .. Len(t) : i <= Len(s) /\ t[i] = s[i]
  BY SortedPrefix
<1>3. Len(s) = Len(t)
  BY <1>1, <1>2
<1> QED BY <1>1, <1>3

----------------------------------------------------------------------------
(* Sequences of items of the same length, one after the other *)

\* Division is unique.
LEMMA Division ==
  ASSUME NEW a, NEW b, NEW q, NEW r, a \in Nat, b \in Nat \ {0}, q \in Nat, r \in Nat,
         r < b, a = q * b + r
  PROVE  a \div b = q /\ a % b = r
OBVIOUS

\* More of the same is more.
LEMMA Product ==
  ASSUME NEW a, NEW b, NEW c, a \in Nat, b \in Nat, c \in Nat, a <= b
  PROVE  c * a <= c * b
<1>1. b - a \in Nat /\ c * (b - a) = c * b - c * a /\ c * (b - a) >= 0
  OBVIOUS
<1> QED BY <1>1

\* What is put together is found again.
LEMMA ConcatParts ==
  ASSUME NEW A, NEW a, NEW b, a \in Seq(A), b \in Seq(A)
  PROVE  /\ SubSeq(a \o b, 1, Len(a)) = a
         /\ SubSeq(a \o b, Len(a) + 1, Len(a \o b)) = b
         /\ \A n \in 0 .. Len(a) : SubSeq(a \o b, 1, n) = SubSeq(a, 1, n)
<1>0. a \o b \in Seq(A) /\ Len(a \o b) = Len(a) + Len(b) /\ Len(a) \in Nat /\ Len(b) \in Nat
  OBVIOUS
<1>1. SubSeq(a \o b, Len(a) + 1, Len(a \o b)) = b
  BY <1>0, ConcatProperties, SubSeqProperties, SeqEqual
<1>2. ASSUME NEW n \in 0 .. Len(a) PROVE SubSeq(a \o b, 1, n) = SubSeq(a, 1, n)
  <2>1. \A i \in 1 .. n : (a \o b)[i] = a[i] /\ a[i] \in A
    BY <1>0, ConcatProperties
  <2> DEFINE s == a \o b
  <2> HIDE DEF s
  <2>2. \A i \in 1 .. n : s[i] = a[i] /\ a[i] \in A
    BY <2>1 DEF s
  <2>3. /\ SubSeq(s, 1, n) \in Seq(A) /\ Len(SubSeq(s, 1, n)) = n
        /\ \A i \in 1 .. n : SubSeq(s, 1, n)[i] = s[i]
    BY <2>2, <1>0
  <2>4. /\ SubSeq(a, 1, n) \in Seq(A) /\ Len(SubSeq(a, 1, n)) = n
        /\ \A i \in 1 .. n : SubSeq(a, 1, n)[i] = a[i]
    BY <2>2, <1>0
  <2>5. SubSeq(s, 1, n) = SubSeq(a, 1, n)
    BY <2>2, <2>3, <2>4, SeqEqual
  <2> QED BY <2>5 DEF s
<1>3. SubSeq(a \o b, 1, Len(a)) = a
  BY <1>0, <1>2, SubSeqFull
<1> QED BY <1>1, <1>2, <1>3

\* Whatever is put together first.
LEMMA Regroup ==
  ASSUME NEW A, NEW a, NEW b, NEW c, a \in Seq(A), b \in Seq(A), c \in Seq(A)
  PROVE  (a \o b) \o c = a \o (b \o c)
  BY ConcatAssociative

\* The beginning of two parts, when it ends in the second one.
LEMMA ConcatPrefix ==
  ASSUME NEW A, NEW a, NEW b, NEW n, a \in Seq(A), b \in Seq(A), n \in 0 .. Len(b)
  PROVE  SubSeq(a \o b, 1, Len(a) + n) = a \o SubSeq(b, 1, n)
<1>0. a \o b \in Seq(A) /\ Len(a \o b) = Len(a) + Len(b) /\ Len(a) \in Nat /\ Len(b) \in Nat
  OBVIOUS
<1> DEFINE s == SubSeq(a \o b, 1, Len(a) + n)
           t == SubSeq(b, 1, n)
<1>1. t \in Seq(A) /\ Len(t) = n /\ \A i \in 1 .. n : t[i] = b[i]
  BY <1>0
<1>2. s \in Seq(A) /\ Len(s) = Len(a) + n /\ \A i \in 1 .. Len(a) + n : s[i] = (a \o b)[i]
  BY <1>0
<1> HIDE DEF s, t
<1>3. /\ a \o t \in Seq(A) /\ Len(a \o t) = Len(a) + n
      /\ \A i \in 1 .. Len(a) + n : (a \o t)[i] = IF i <= Len(a) THEN a[i] ELSE t[i - Len(a)]
  BY <1>1, ConcatProperties
<1>4. \A i \in 1 .. Len(a) + n : (a \o b)[i] = IF i <= Len(a) THEN a[i] ELSE b[i - Len(a)]
  BY <1>0, ConcatProperties
<1>5. ASSUME NEW i \in 1 .. Len(a) + n PROVE s[i] = (a \o t)[i]
  <2>1. (a \o b)[i] = IF i <= Len(a) THEN a[i] ELSE b[i - Len(a)]
    BY <1>4
  <2>2. (a \o t)[i] = IF i <= Len(a) THEN a[i] ELSE t[i - Len(a)]
    BY <1>3
  <2>3. i > Len(a) => i - Len(a) \in 1 .. n
    BY <1>0
  <2>4. s[i] = (a \o b)[i]
    BY <1>2
  <2>5. i > Len(a) => t[i - Len(a)] = b[i - Len(a)]
    BY <1>1, <2>3
  <2>6. i \in Int
    BY <1>0
  <2> QED BY <1>0, <2>1, <2>2, <2>4, <2>5, <2>6
<1>6. s = a \o t
  BY <1>2, <1>3, <1>5, SeqEqual
<1> QED BY <1>6 DEF s, t

\* Two parts have the elements of both.
LEMMA ConcatSet ==
  ASSUME NEW A, NEW a, NEW b, a \in Seq(A), b \in Seq(A)
  PROVE  a \o b \in Seq(A) /\ ToSet(a \o b) = ToSet(a) \cup ToSet(b)
<1> DEFINE s == a \o b
<1>1. /\ s \in Seq(A) /\ Len(s) = Len(a) + Len(b) /\ Len(a) \in Nat /\ Len(b) \in Nat
      /\ \A i \in 1 .. Len(a) + Len(b) : s[i] = IF i <= Len(a) THEN a[i] ELSE b[i - Len(a)]
  BY ConcatProperties
<1> HIDE DEF s
<1>2. DOMAIN s = 1 .. Len(a) + Len(b) /\ DOMAIN a = 1 .. Len(a) /\ DOMAIN b = 1 .. Len(b)
  BY <1>1
<1>3. ASSUME NEW i \in DOMAIN s PROVE s[i] \in ToSet(a) \cup ToSet(b)
  <2>1. i \in 1 .. Len(a) \/ (~(i <= Len(a)) /\ i - Len(a) \in 1 .. Len(b))
    BY <1>1, <1>2
  <2> QED BY <1>1, <1>2, <2>1 DEF ToSet
<1>4. ASSUME NEW i \in DOMAIN a PROVE a[i] \in ToSet(s)
  <2>1. i \in DOMAIN s /\ i <= Len(a)
    BY <1>1, <1>2
  <2>2. s[i] = a[i]
    BY <1>1, <1>2, <2>1
  <2> QED BY <2>1, <2>2 DEF ToSet
<1>5. ASSUME NEW i \in DOMAIN b PROVE b[i] \in ToSet(s)
  <2> DEFINE j == Len(a) + i
  <2>1. j \in DOMAIN s /\ ~(j <= Len(a)) /\ j - Len(a) = i
    BY <1>1, <1>2
  <2>2. s[j] = b[i]
    BY <1>1, <1>2, <2>1
  <2> QED BY <2>1, <2>2 DEF ToSet
<1>6. ToSet(s) = ToSet(a) \cup ToSet(b)
  BY <1>3, <1>4, <1>5 DEF ToSet
<1> QED BY <1>1, <1>6 DEF s

\* Inserting moves what follows.
LEMMA InsertAtIs ==
  ASSUME NEW A, NEW list, NEW item, NEW k, list \in Seq(A), item \in A, k \in 1 .. Len(list) + 1
  PROVE  /\ InsertAt(list, k, item) \in Seq(A) /\ Len(InsertAt(list, k, item)) = Len(list) + 1
         /\ \A i \in 1 .. Len(list) + 1 :
              InsertAt(list, k, item)[i] = IF i < k THEN list[i] ELSE IF i = k THEN item ELSE list[i - 1]
<1> DEFINE N == Len(list)
           a == SubSeq(list, 1, k - 1)
           b == <<item>>
           d == SubSeq(list, k, N)
           ab == a \o b
           s == ab \o d
<1>0. N \in Nat /\ k \in Int /\ InsertAt(list, k, item) = s /\ k >= 1 /\ k <= N + 1
  BY DEF InsertAt
<1>1. a \in Seq(A) /\ Len(a) = k - 1 /\ \A i \in 1 .. k - 1 : a[i] = list[i]
  BY <1>0
<1>2. b \in Seq(A) /\ Len(b) = 1 /\ b[1] = item
  OBVIOUS
<1>3. d \in Seq(A) /\ Len(d) = N - k + 1 /\ \A i \in 1 .. N - k + 1 : d[i] = list[k + i - 1]
  <2>1. \A i \in k .. N : list[i] \in A
    BY <1>0
  <2> QED BY <1>0, <2>1, SubSeqProperties
<1> HIDE DEF N, a, b, d
<1>4. /\ ab \in Seq(A) /\ Len(ab) = k
      /\ \A i \in 1 .. k : ab[i] = IF i <= k - 1 THEN a[i] ELSE b[i - (k - 1)]
  <2>1. /\ a \o b \in Seq(A) /\ Len(a \o b) = Len(a) + Len(b)
        /\ \A i \in 1 .. Len(a) + Len(b) : (a \o b)[i] = IF i <= Len(a) THEN a[i] ELSE b[i - Len(a)]
    BY <1>1, <1>2, ConcatProperties
  <2> QED BY <1>0, <1>1, <1>2, <2>1
<1> HIDE DEF ab
<1>5. /\ s \in Seq(A) /\ Len(s) = N + 1
      /\ \A i \in 1 .. N + 1 : s[i] = IF i <= k THEN ab[i] ELSE d[i - k]
  <2>1. /\ ab \o d \in Seq(A) /\ Len(ab \o d) = Len(ab) + Len(d)
        /\ \A i \in 1 .. Len(ab) + Len(d) : (ab \o d)[i] = IF i <= Len(ab) THEN ab[i] ELSE d[i - Len(ab)]
    BY <1>3, <1>4, ConcatProperties
  <2> QED BY SMTT(30), <1>0, <1>3, <1>4, <2>1
<1> HIDE DEF s
<1>6. ASSUME NEW i \in 1 .. N + 1 PROVE s[i] = IF i < k THEN list[i] ELSE IF i = k THEN item ELSE list[i - 1]
  <2>1. CASE i < k
    <3>1. i \in 1 .. k - 1 /\ i \in 1 .. k
      BY <1>0, <2>1
    <3>2. s[i] = ab[i] /\ ab[i] = a[i] /\ a[i] = list[i]
      BY <1>0, <1>1, <1>4, <1>5, <3>1
    <3> QED BY <2>1, <3>2
  <2>2. CASE i = k
    <3>1. ab[k] = b[k - (k - 1)] /\ k - (k - 1) = 1
      BY <1>0, <1>4
    <3> QED BY <1>0, <1>2, <1>5, <2>2, <3>1
  <2>3. CASE i > k
    <3>1. i - k \in 1 .. N - k + 1 /\ k + (i - k) - 1 = i - 1
      BY <1>0, <2>3
    <3>2. d[i - k] = list[i - 1]
      BY <1>3, <3>1
    <3> QED BY <1>0, <1>5, <2>3, <3>2
  <2> QED BY <1>0, <2>1, <2>2, <2>3
<1> QED BY <1>0, <1>5, <1>6 DEF N

\* F has, at each place, the sequences up to there, put together.
Flattens(F, s, A) ==
  /\ F \in [0 .. Len(s) -> Seq(A)]
  /\ F[0] = <<>>
  /\ \A i \in 1 .. Len(s) : F[i] = F[i - 1] \o s[i]

\* FlattenSeq is the last of these.
LEMMA FlattenRuns ==
  ASSUME NEW s, NEW A, s \in Seq(Seq(A))
  PROVE  \E F : Flattens(F, s, A) /\ FlattenSeq(s) = F[Len(s)]
<1> DEFINE n == Len(s)
           none == <<>>
           Right(g) == g = [i \in 1 .. n |-> IF i = 1 THEN s[i] ELSE g[i - 1] \o s[i]]
           T == CHOOSE g : Right(g)
<1>1. n \in Nat /\ \A i \in 1 .. n : s[i] \in Seq(A)
  OBVIOUS
<1>2. none \in Seq(A)
  OBVIOUS
<1>3. n # 0 => FlattenSeq(s) = T[n]
  BY DEF FlattenSeq
<1>4. n = 0 => FlattenSeq(s) = none
  BY DEF FlattenSeq
<1>5. \A v \in Seq(A), i \in 1 .. n : v \o s[i] \in Seq(A)
  BY <1>1
<1>6. PICK F \in [0 .. n -> Seq(A)] : F[0] = none /\ \A i \in 1 .. n : F[i] = F[i - 1] \o s[i]
  <2> DEFINE step == [t \in Seq(A) \X (1 .. n) |-> t[1] \o s[t[2]]]
  <2> HIDE DEF n, none
  <2>1. \A v \in Seq(A), i \in 1 .. n : step[<<v, i>>] = v \o s[i] /\ step[<<v, i>>] \in Seq(A)
    BY <1>5
  <2> HIDE DEF step
  <2>2. IsIteration(Seq(A), n, none, step)
    BY <1>1, <1>2, <2>1 DEF IsIteration
  <2>3. PICK F \in [0 .. n -> Seq(A)] : F[0] = none /\ \A i \in 1 .. n : F[i] = step[<<F[i - 1], i>>]
    BY <2>2, Iteration
  <2>4. ASSUME NEW i \in 1 .. n PROVE F[i] = F[i - 1] \o s[i]
    <3>1. i - 1 \in 0 .. n
      BY <1>1
    <3> QED BY <2>1, <2>3, <3>1
  <2> QED BY <2>3, <2>4
<1>7. Flattens(F, s, A)
  BY <1>6 DEF Flattens, none
<1>8. CASE n = 0
  BY <1>4, <1>6, <1>7, <1>8
<1>9. CASE n # 0
  <2> DEFINE h == [i \in 1 .. n |-> F[i]]
  <2>1. ASSUME NEW i \in 1 .. n PROVE h[i] = IF i = 1 THEN s[i] ELSE h[i - 1] \o s[i]
    <3>1. CASE i = 1
      <4>0. 1 \in 1 .. n /\ 1 - 1 = 0
        BY <3>1
      <4>1. F[1] = none \o s[1] /\ s[1] \in Seq(A)
        <5> HIDE DEF none, n
        <5>1. F[1] = F[1 - 1] \o s[1] /\ F[0] = none
          BY <1>6, <4>0
        <5> QED BY <1>1, <4>0, <5>1
      <4>2. none \o s[1] = s[1]
        BY <4>1, ConcatEmptySeq DEF none
      <4> QED BY <3>1, <4>1, <4>2
    <3>2. CASE i # 1
      <4>1. i - 1 \in 1 .. n /\ h[i - 1] = F[i - 1] /\ h[i] = F[i]
        BY <1>1, <3>2
      <4> QED BY <1>6, <3>2, <4>1
    <3> QED BY <3>1, <3>2
  <2>2. h = [i \in 1 .. n |-> h[i]]
    OBVIOUS
  <2> HIDE DEF h, n
  <2>3. Right(h)
    BY <2>1, <2>2
  <2>4. Right(T)
    BY <2>3
  <2> HIDE DEF T
  <2>5. \A i \in 1 .. n : T[i] = IF i = 1 THEN s[i] ELSE T[i - 1] \o s[i]
    BY <2>4
  <2> HIDE DEF Right
  <2> DEFINE B == {i \in Nat : i \in 1 .. n => T[i] = F[i]}
  <2>6. 0 \in B
    OBVIOUS
  <2>7. ASSUME NEW i \in Nat, i \in B PROVE i + 1 \in B
    <3> SUFFICES ASSUME i + 1 \in 1 .. n PROVE T[i + 1] = F[i + 1]
      OBVIOUS
    <3>1. CASE i = 0
      <4>1. h[1] = s[1] /\ h[1] = F[1] /\ T[1] = s[1] /\ 1 \in 1 .. n
        <5>1. 1 \in 1 .. n
          BY <3>1
        <5>2. h[1] = s[1]
          BY <2>1, <5>1
        <5>3. T[1] = s[1]
          BY <2>5, <5>1
        <5> QED BY <5>1, <5>2, <5>3 DEF h
      <4> QED BY <3>1, <4>1
    <3>2. CASE i # 0
      <4>1. i \in 1 .. n /\ (i + 1) - 1 = i /\ i + 1 # 1
        BY <1>1, <3>2
      <4>2. T[i + 1] = T[i] \o s[i + 1]
        BY <2>5, <4>1
      <4>3. F[i + 1] = F[i] \o s[i + 1]
        BY <1>6, <4>1
      <4> QED BY <2>7, <4>1, <4>2, <4>3
    <3> QED BY <3>1, <3>2
  <2> HIDE DEF B
  <2>8. \A i \in Nat : i \in B
    BY <2>6, <2>7, Induction
  <2>9. n \in 1 .. n
    BY <1>1, <1>9
  <2>10. T[n] = F[n]
    BY <1>1, <2>8, <2>9 DEF B
  <2> QED BY <1>3, <1>7, <1>9, <2>10 DEF n
<1> QED BY <1>8, <1>9

\* Items that are put together are found where they should be.
LEMMA FlattenItems ==
  ASSUME NEW w, NEW A, NEW s, w \in Nat \ {0}, s \in Seq([1 .. w -> A])
  PROVE  /\ FlattenSeq(s) \in Seq(A) /\ Len(FlattenSeq(s)) = w * Len(s)
         /\ \A i \in 1 .. Len(s) : SubSeq(FlattenSeq(s), w * (i - 1) + 1, w * i) = s[i]
<1> DEFINE n == Len(s)
<1>0. n \in Nat /\ \A i \in 1 .. n : s[i] \in [1 .. w -> A] /\ s[i] \in Seq(A) /\ Len(s[i]) = w
  OBVIOUS
<1>1. n \in Nat /\ s \in Seq(Seq(A))
  <2>1. s = [i \in 1 .. n |-> s[i]]
    OBVIOUS
  <2> HIDE DEF n
  <2>2. s \in [1 .. n -> Seq(A)]
    BY <1>0, <2>1
  <2> QED BY <1>0, <2>2
<1>2. PICK F : Flattens(F, s, A) /\ FlattenSeq(s) = F[n]
  BY <1>1, FlattenRuns
<1>3. F[0] = <<>> /\ \A i \in 1 .. n : F[i] = F[i - 1] \o s[i]
  BY <1>2 DEF Flattens
<1> HIDE DEF n
<1> DEFINE Good(i) == /\ F[i] \in Seq(A) /\ Len(F[i]) = w * i
                      /\ \A m \in 1 .. i : SubSeq(F[i], w * (m - 1) + 1, w * m) = s[m]
           T == {i \in Nat : i \in 0 .. n => Good(i)}
<1>4. 0 \in T
  <2> SUFFICES Good(0)
    OBVIOUS
  <2>1. F[0] \in Seq(A) /\ Len(F[0]) = 0 /\ w * 0 = 0
    BY <1>3
  <2> QED BY <2>1
<1>5. ASSUME NEW i \in Nat, i \in T PROVE i + 1 \in T
  <2> SUFFICES ASSUME i + 1 \in 0 .. n PROVE Good(i + 1)
    OBVIOUS
  <2>0. i \in 0 .. n /\ i + 1 \in 1 .. n /\ (i + 1) - 1 = i
    BY <1>1
  <2>1. Good(i)
    BY <1>5, <2>0
  <2> DEFINE a == F[i]
             b == s[i + 1]
  <2>2. a \in Seq(A) /\ Len(a) = w * i /\ b \in Seq(A) /\ Len(b) = w
    BY <1>0, <2>0, <2>1
  <2>3. F[i + 1] = a \o b
    BY <1>3, <2>0
  <2> HIDE DEF a, b
  <2>4. a \o b \in Seq(A) /\ Len(a \o b) = w * i + w
    BY <2>2, ConcatProperties
  <2>5. w * (i + 1) = w * i + w /\ w * i \in Nat
    OBVIOUS
  <2>6. ASSUME NEW m \in 1 .. i PROVE SubSeq(a \o b, w * (m - 1) + 1, w * m) = s[m]
    <3>1. w * (m - 1) + 1 \in 1 .. w * i /\ w * m \in 1 .. w * i
      <4>1. m >= 1 /\ m <= i /\ w >= 1
        OBVIOUS
      <4>2. w * m <= w * i /\ w * 1 <= w * m
        BY <4>1, Product
      <4>3. w * (m - 1) + 1 = (w * m - w) + 1 /\ w * 1 = w /\ w * m \in Int /\ w * i \in Int
        OBVIOUS
      <4> DEFINE x == w * m
                 y == w * i
                 z == w * (m - 1) + 1
      <4>4. z = (x - w) + 1 /\ x \in Int /\ y \in Int /\ w <= x /\ x <= y
        BY <4>2, <4>3
      <4> HIDE DEF x, y, z
      <4>5. z \in 1 .. y /\ x \in 1 .. y
        BY <4>1, <4>4
      <4> QED BY <4>5 DEF x, y, z
    <3>2. SubSeq(a \o b, w * (m - 1) + 1, w * m) = SubSeq(a, w * (m - 1) + 1, w * m)
      <4> DEFINE x == w * m
                 z == w * (m - 1) + 1
      <4>1. z \in 1 .. Len(a) /\ x \in 1 .. Len(a)
        BY <2>2, <3>1
      <4> HIDE DEF x, z
      <4>2. SubSeq(a \o b, z, x) = SubSeq(a, z, x)
        BY <2>2, <4>1, SubSeqOfConcat1
      <4> QED BY <4>2 DEF x, z
    <3> QED BY <2>1, <3>2 DEF a
  <2>7. SubSeq(a \o b, w * i + 1, w * i + w) = b
    BY <2>2, <2>4, ConcatParts
  <2>8. ASSUME NEW m \in 1 .. i + 1 PROVE SubSeq(a \o b, w * (m - 1) + 1, w * m) = s[m]
    <3>1. CASE m = i + 1
      <4>1. m - 1 = i /\ w * m = w * i + w
        BY <3>1, <2>5
      <4> QED BY <2>7, <3>1, <4>1 DEF b
    <3>2. CASE m # i + 1
      <4>1. m \in 1 .. i
        BY <3>2
      <4> QED BY <2>6, <4>1
    <3> QED BY <3>1, <3>2
  <2> QED BY <2>3, <2>4, <2>5, <2>8
<1>6. \A i \in Nat : i \in T
  <2> HIDE DEF T
  <2> QED BY <1>4, <1>5, Induction
<1>7. Good(n)
  BY <1>1, <1>6
<1> QED BY <1>2, <1>7 DEF n

----------------------------------------------------------------------------
(* Sums *)

\* The sums of the numbers so far.
SumsOf(S, values, n) ==
  S \in [0 .. n -> Int] /\ S[0] = 0 /\ \A i \in 1 .. n : S[i] = S[i - 1] + values[i]

\* Total is the last of them.
LEMMA TotalIs ==
  ASSUME NEW values, values \in Seq(Int)
  PROVE  /\ \E S : SumsOf(S, values, Len(values))
         /\ \A S : SumsOf(S, values, Len(values)) => Total(values) = S[Len(values)]
         /\ Total(values) \in Int
<1> DEFINE n == Len(values)
           Right(g) == g = [k \in 0 .. n |-> IF k = 0 THEN 0 ELSE g[k - 1] + values[k]]
           T == CHOOSE g : Right(g)
<1>0. n \in Nat /\ \A k \in 1 .. n : values[k] \in Int
  OBVIOUS
<1>1. \E S : SumsOf(S, values, n)
  <2> DEFINE step == [t \in Int \X (1 .. n) |-> t[1] + values[t[2]]]
  <2>1. \A v \in Int, i \in 1 .. n : step[<<v, i>>] = v + values[i] /\ step[<<v, i>>] \in Int
    BY <1>0
  <2> HIDE DEF step, n
  <2>2. IsIteration(Int, n, 0, step)
    BY <1>0, <2>1 DEF IsIteration
  <2>3. PICK g \in [0 .. n -> Int] : g[0] = 0 /\ \A i \in 1 .. n : g[i] = step[<<g[i - 1], i>>]
    BY <2>2, Iteration
  <2>4. ASSUME NEW i \in 1 .. n PROVE g[i] = g[i - 1] + values[i]
    <3>1. i - 1 \in 0 .. n
      BY <1>0
    <3>2. g[i - 1] \in Int /\ g[i] = step[<<g[i - 1], i>>]
      BY <2>3, <3>1
    <3> QED BY <2>1, <3>2
  <2>5. SumsOf(g, values, n)
    BY <2>3, <2>4 DEF SumsOf
  <2> QED BY <2>5
<1>2. Total(values) = T[n]
  BY DEF Total
<1> HIDE DEF n
<1>3. ASSUME NEW S, SumsOf(S, values, n) PROVE Right(S)
  <2>1. \A k \in 0 .. n : k # 0 => k \in 1 .. n
    BY <1>0
  <2>2. \A k \in 0 .. n : S[k] = IF k = 0 THEN 0 ELSE S[k - 1] + values[k]
    BY <1>3, <2>1 DEF SumsOf
  <2> QED BY <1>3, <2>2 DEF SumsOf
<1>4. Right(T)
  BY <1>1, <1>3
<1> HIDE DEF T
<1>5. ASSUME NEW S, SumsOf(S, values, n) PROVE Total(values) = S[n]
  <2> DEFINE A == {k \in Nat : k \in 0 .. n => T[k] = S[k]}
  <2>1. 0 \in A
    BY <1>0, <1>4, <1>5 DEF SumsOf
  <2>2. ASSUME NEW k \in Nat, k \in A PROVE k + 1 \in A
    <3> SUFFICES ASSUME k + 1 \in 0 .. n PROVE T[k + 1] = S[k + 1]
      OBVIOUS
    <3>1. k \in 0 .. n /\ k + 1 \in 1 .. n /\ (k + 1) - 1 = k
      BY <1>0
    <3>2. T[k + 1] = T[k] + values[k + 1]
      BY <1>4, <3>1
    <3>3. S[k + 1] = S[k] + values[k + 1]
      BY <1>5, <3>1 DEF SumsOf
    <3> QED BY <2>2, <3>1, <3>2, <3>3
  <2> HIDE DEF A
  <2>3. \A k \in Nat : k \in A
    BY <2>1, <2>2, Induction
  <2> QED BY <1>0, <1>2, <2>3 DEF A
<1>6. Total(values) \in Int
  <2>1. PICK S : SumsOf(S, values, n)
    BY <1>1
  <2>2. Total(values) = S[n]
    BY <1>5, <2>1
  <2> QED BY <1>0, <2>1, <2>2 DEF SumsOf
<1> QED BY <1>1, <1>5, <1>6 DEF n

\* What is added one by one.
LEMMA TotalBy ==
  ASSUME NEW n, NEW values, NEW S, n \in Nat, values \in [1 .. n -> Int], SumsOf(S, values, n)
  PROVE  values \in Seq(Int) /\ Total(values) = S[n]
<1>1. values \in Seq(Int) /\ Len(values) = n
  OBVIOUS
<1> QED BY <1>1, TotalIs

\* There are such sums of numbers.
LEMMA SumsExist ==
  ASSUME NEW n, NEW values, n \in Nat, values \in [1 .. n -> Int]
  PROVE  \E S : SumsOf(S, values, n) /\ Total(values) = S[n]
<1>1. values \in Seq(Int) /\ Len(values) = n
  OBVIOUS
<1> QED BY <1>1, TotalIs

\* The sum of nothing but zeros.
LEMMA TotalZero ==
  ASSUME NEW n, n \in Nat PROVE Total([k \in 1 .. n |-> 0]) = 0
<1> DEFINE values == [k \in 1 .. n |-> 0]
           S == [k \in 0 .. n |-> 0]
<1>1. values \in [1 .. n -> Int] /\ SumsOf(S, values, n) /\ S[n] = 0
  BY DEF SumsOf
<1> HIDE DEF values, S
<1>2. Total(values) = 0
  BY <1>1, TotalBy
<1> QED BY <1>2 DEF values

\* Two sequences added place by place.
AddedUp(n, a, b, both) ==
  /\ n \in Nat /\ a \in [1 .. n -> Int] /\ b \in [1 .. n -> Int] /\ both \in [1 .. n -> Int]
  /\ \A k \in 1 .. n : both[k] = a[k] + b[k]

\* That adds their sums.
LEMMA TotalPlus ==
  ASSUME NEW n, NEW a, NEW b, NEW both, AddedUp(n, a, b, both)
  PROVE  Total(both) = Total(a) + Total(b)
<1> USE DEF AddedUp
<1>1. PICK A : SumsOf(A, a, n) /\ Total(a) = A[n]
  BY SumsExist
<1>2. PICK B : SumsOf(B, b, n) /\ Total(b) = B[n]
  BY SumsExist
<1> DEFINE S == [k \in 0 .. n |-> A[k] + B[k]]
<1>3. \A k \in 0 .. n : A[k] \in Int /\ B[k] \in Int /\ S[k] = A[k] + B[k]
  BY <1>1, <1>2 DEF SumsOf
<1>4. \A k \in 1 .. n : k \in 0 .. n /\ k - 1 \in 0 .. n /\ a[k] \in Int /\ b[k] \in Int /\ both[k] = a[k] + b[k]
  OBVIOUS
<1>5. \A k \in 1 .. n : A[k] = A[k - 1] + a[k] /\ B[k] = B[k - 1] + b[k]
  BY <1>1, <1>2 DEF SumsOf
<1>6. S \in [0 .. n -> Int] /\ both \in [1 .. n -> Int]
  BY <1>3, <1>4
<1>7. S[0] = 0 /\ S[n] = A[n] + B[n]
  BY <1>1, <1>2, <1>3 DEF SumsOf
<1> HIDE DEF S
<1>8. \A k \in 1 .. n : S[k] = S[k - 1] + both[k]
  <2> SUFFICES ASSUME NEW k \in 1 .. n PROVE S[k] = S[k - 1] + both[k]
    OBVIOUS
  <2>1. k \in 0 .. n /\ k - 1 \in 0 .. n /\ a[k] \in Int /\ b[k] \in Int /\ both[k] = a[k] + b[k]
    BY <1>4
  <2>2. S[k] = A[k] + B[k] /\ S[k - 1] = A[k - 1] + B[k - 1] /\ A[k - 1] \in Int /\ B[k - 1] \in Int
    BY <1>3, <2>1
  <2>3. A[k] = A[k - 1] + a[k] /\ B[k] = B[k - 1] + b[k]
    BY <1>5
  <2> QED BY <2>1, <2>2, <2>3
<1>9. SumsOf(S, both, n)
  BY <1>6, <1>7, <1>8 DEF SumsOf
<1>10. Total(both) = S[n]
  BY <1>6, <1>9, TotalBy
<1> QED BY <1>1, <1>2, <1>7, <1>10

\* n rows of m numbers: by rows and by columns, and the sums of each.
Crossed(n, m, w, v, rows, columns) ==
  /\ n \in Nat /\ m \in Nat
  /\ w \in [1 .. n -> [1 .. m -> Int]] /\ v \in [1 .. m -> [1 .. n -> Int]]
  /\ \A k \in 1 .. n : \A d \in 1 .. m : v[d][k] = w[k][d]
  /\ rows = [k \in 1 .. n |-> Total(w[k])] /\ columns = [d \in 1 .. m |-> Total(v[d])]

\* The rows and the columns have the same sum.
LEMMA TotalOfTotals ==
  ASSUME NEW n, NEW m, NEW w, NEW v, NEW rows, NEW columns, Crossed(n, m, w, v, rows, columns)
  PROVE  Total(rows) = Total(columns)
<1> USE DEF Crossed
<1> DEFINE column(d) == v[d]
           C == [d \in 1 .. m |-> CHOOSE S : SumsOf(S, column(d), n) /\ Total(column(d)) = S[n]]
           upTo(k) == [d \in 1 .. m |-> C[d][k]]
<1>1. ASSUME NEW d \in 1 .. m
      PROVE  /\ column(d) \in [1 .. n -> Int] /\ \A k \in 1 .. n : column(d)[k] = w[k][d]
             /\ SumsOf(C[d], column(d), n) /\ Total(column(d)) = C[d][n]
  <2>2. column(d) \in [1 .. n -> Int] /\ \A k \in 1 .. n : column(d)[k] = w[k][d]
    OBVIOUS
  <2> HIDE DEF column
  <2>3. \E S : SumsOf(S, column(d), n) /\ Total(column(d)) = S[n]
    BY <2>2, SumsExist
  <2> QED BY <2>2, <2>3
<1> HIDE DEF C, column
<1>2. ASSUME NEW k \in 1 .. n PROVE w[k] \in [1 .. m -> Int] /\ Total(w[k]) \in Int /\ rows[k] = Total(w[k])
  <2>1. w[k] \in [1 .. m -> Int]
    OBVIOUS
  <2>2. w[k] \in Seq(Int)
    BY <2>1
  <2> QED BY <2>1, <2>2, TotalIs
<1>3. rows \in [1 .. n -> Int]
  BY <1>2
<1>4. PICK A : SumsOf(A, rows, n) /\ Total(rows) = A[n]
  BY <1>3, SumsExist
<1>5. \A d \in 1 .. m : \A k \in 0 .. n : C[d][k] \in Int
  BY <1>1 DEF SumsOf
<1>6. ASSUME NEW k \in 0 .. n PROVE upTo(k) \in [1 .. m -> Int] /\ \A d \in 1 .. m : upTo(k)[d] = C[d][k]
  BY <1>5
<1> DEFINE T == {k \in Nat : k \in 0 .. n => A[k] = Total(upTo(k))}
<1>7. 0 \in T
  <2>1. \A d \in 1 .. m : C[d][0] = 0
    BY <1>1 DEF SumsOf
  <2>2. upTo(0) = [d \in 1 .. m |-> 0]
    BY <2>1
  <2>3. Total(upTo(0)) = 0 /\ A[0] = 0
    BY <1>4, <2>2, TotalZero DEF SumsOf
  <2> QED BY <2>3
<1>8. ASSUME NEW k \in Nat, k \in T PROVE k + 1 \in T
  <2> SUFFICES ASSUME k + 1 \in 0 .. n PROVE A[k + 1] = Total(upTo(k + 1))
    OBVIOUS
  <2>1. k \in 0 .. n /\ k + 1 \in 1 .. n /\ (k + 1) - 1 = k
    OBVIOUS
  <2>2. A[k + 1] = A[k] + Total(w[k + 1])
    BY <1>2, <1>4, <2>1 DEF SumsOf
  <2>3. \A d \in 1 .. m : C[d][k + 1] = C[d][k] + w[k + 1][d]
    BY <1>1, <2>1 DEF SumsOf
  <2> DEFINE a == upTo(k)
             b == w[k + 1]
  <2>4. a \in [1 .. m -> Int] /\ b \in [1 .. m -> Int] /\ \A d \in 1 .. m : a[d] = C[d][k]
    BY <1>2, <1>6, <2>1
  <2> DEFINE both == upTo(k + 1)
  <2>5. both \in [1 .. m -> Int] /\ \A d \in 1 .. m : both[d] = a[d] + b[d]
    BY <1>6, <2>3, <2>4
  <2> HIDE DEF a, b, upTo, both
  <2>6. Total(both) = Total(a) + Total(b)
    <3>1. AddedUp(m, a, b, both)
      BY <2>4, <2>5 DEF AddedUp
    <3> QED BY <3>1, TotalPlus
  <2>7. A[k] = Total(a)
    BY <1>8, <2>1 DEF a
  <2> QED BY <2>2, <2>6, <2>7 DEF b, both
<1>9. n \in T
  <2> HIDE DEF T
  <2> QED BY <1>7, <1>8, Induction
<1>10. upTo(n) = [d \in 1 .. m |-> Total(column(d))]
  BY <1>1
<1>11. Total(rows) = Total(upTo(n))
  BY <1>4, <1>9
<1> QED BY <1>10, <1>11 DEF column

\* The sums of the numbers at any places.
SumsOfSets(F, n, values) ==
  /\ F \in [SUBSET (1 .. n) -> Int] /\ F[{}] = 0
  /\ \A S \in SUBSET (1 .. n) : \A x \in S : F[S] = F[S \ {x}] + values[x]

\* There is such a sum for each set of places.
LEMMA SetSums ==
  ASSUME NEW n, NEW values, n \in Nat, values \in [1 .. n -> Int]
  PROVE  \E F : SumsOfSets(F, n, values)
<1> DEFINE Good(F, m) == /\ F \in [SUBSET (1 .. m) -> Int] /\ F[{}] = 0
                         /\ \A S \in SUBSET (1 .. m) : \A x \in S : F[S] = F[S \ {x}] + values[x]
           T == {m \in Nat : m <= n => \E F : Good(F, m)}
<1>1. 0 \in T
  <2> DEFINE F == [S \in SUBSET (1 .. 0) |-> 0]
  <2>1. \A S \in SUBSET (1 .. 0) : \A x \in S : FALSE
    OBVIOUS
  <2>2. Good(F, 0)
    BY <2>1
  <2> QED BY <2>2
<1>2. ASSUME NEW m \in Nat, m \in T PROVE m + 1 \in T
  <2> SUFFICES ASSUME m + 1 <= n PROVE \E G : Good(G, m + 1)
    <3> HIDE DEF Good
    <3> QED OBVIOUS
  <2>1. PICK F : Good(F, m)
    <3>1. m <= n
      OBVIOUS
    <3> HIDE DEF Good
    <3> QED BY <1>2, <3>1
  <2> DEFINE last == m + 1
             G == [S \in SUBSET (1 .. last) |-> IF last \in S THEN F[S \ {last}] + values[last] ELSE F[S]]
  <2>2. last \in 1 .. n /\ values[last] \in Int /\ last \notin 1 .. m /\ 1 .. last = 1 .. m \cup {last}
    OBVIOUS
  <2>3. \A x \in 1 .. m : values[x] \in Int
    BY <2>2
  <2> HIDE DEF last
  <2>4. ASSUME NEW S \in SUBSET (1 .. last)
        PROVE  /\ S \ {last} \in SUBSET (1 .. m) /\ F[S \ {last}] \in Int
               /\ last \notin S => F[S] \in Int /\ S \in SUBSET (1 .. m)
    <3>1. S \ {last} \in SUBSET (1 .. m) /\ (last \notin S => S \in SUBSET (1 .. m))
      BY <2>2
    <3> QED BY <2>1, <3>1
  <2>5. G \in [SUBSET (1 .. last) -> Int]
    <3>1. ASSUME NEW S \in SUBSET (1 .. last)
          PROVE  (IF last \in S THEN F[S \ {last}] + values[last] ELSE F[S]) \in Int
      <4>1. CASE last \in S
        <5>1. F[S \ {last}] \in Int /\ values[last] \in Int
          BY <2>2, <2>4
        <5>2. F[S \ {last}] + values[last] \in Int
          BY <5>1
        <5> QED BY <4>1, <5>2
      <4>2. CASE last \notin S
        BY <2>4, <4>2
      <4> QED BY <4>1, <4>2
    <3> QED BY <3>1
  <2>6. G[{}] = 0
    BY <2>1
  <2>7. ASSUME NEW S \in SUBSET (1 .. last), NEW x \in S PROVE G[S] = G[S \ {x}] + values[x]
    <3>1. S \ {x} \in SUBSET (1 .. last)
      OBVIOUS
    <3>2. CASE x = last
      BY <3>1, <3>2
    <3>3. CASE x # last /\ last \notin S
      BY <2>1, <2>4, <3>1, <3>3
    <3>4. CASE x # last /\ last \in S
      <4> DEFINE R == S \ {last}
      <4>1. R \in SUBSET (1 .. m) /\ x \in R /\ x \in 1 .. m
        BY <2>2, <2>4, <3>4
      <4>2. F[R] = F[R \ {x}] + values[x]
        BY <2>1, <4>1
      <4>3. (S \ {x}) \ {last} = R \ {x} /\ last \in S \ {x}
        BY <3>4
      <4>4. G[S] = F[R] + values[last] /\ G[S \ {x}] = F[R \ {x}] + values[last]
        BY <3>1, <3>4, <4>3
      <4>5. F[R] \in Int /\ F[R \ {x}] \in Int /\ values[x] \in Int
        BY <2>1, <2>3, <4>1
      <4> HIDE DEF R, G
      <4> QED BY <2>2, <4>2, <4>4, <4>5
    <3> QED BY <3>2, <3>3, <3>4
  <2> HIDE DEF G
  <2>8. Good(G, last)
    BY <2>5, <2>6, <2>7
  <2> HIDE DEF Good
  <2> QED BY <2>8 DEF last
<1>3. n \in T
  <2> HIDE DEF T
  <2> QED BY <1>1, <1>2, Induction
<1>4. \E F : Good(F, n)
  <2> HIDE DEF Good
  <2> QED BY <1>3
<1> QED BY <1>4 DEF SumsOfSets

\* there has values in another order.
Rearranged(there, values, order, n) ==
  /\ there = [k \in 1 .. n |-> values[order[k]]]
  /\ order \in [1 .. n -> 1 .. n]
  /\ \A i, j \in 1 .. n : i < j => order[i] # order[j]
  /\ \A x \in 1 .. n : \E i \in 1 .. n : order[i] = x

\* In another order the numbers have the same sum.
LEMMA TotalPermuted ==
  ASSUME NEW n, NEW values, NEW order, NEW there, n \in Nat, values \in [1 .. n -> Int],
         Rearranged(there, values, order, n)
  PROVE  Total(there) = Total(values)
<1> USE DEF Rearranged
<1> DEFINE S(k) == {order[i] : i \in 1 .. k}
<1>0. PICK F : SumsOfSets(F, n, values)
  BY SetSums
<1>1. F \in [SUBSET (1 .. n) -> Int] /\ F[{}] = 0 /\
        \A R \in SUBSET (1 .. n) : \A x \in R : F[R] = F[R \ {x}] + values[x]
  BY <1>0 DEF SumsOfSets
<1> DEFINE A == [k \in 0 .. n |-> F[1 .. k]]
           B == [k \in 0 .. n |-> F[S(k)]]
<1>2. \A k \in 0 .. n : 1 .. k \in SUBSET (1 .. n) /\ S(k) \in SUBSET (1 .. n)
  OBVIOUS
<1>3. A \in [0 .. n -> Int] /\ B \in [0 .. n -> Int]
  BY <1>1, <1>2
<1>4. A[0] = 0 /\ B[0] = 0
  <2>1. 1 .. 0 = {} /\ S(0) = {} /\ 0 \in 0 .. n
    OBVIOUS
  <2>2. A[0] = F[1 .. 0] /\ B[0] = F[S(0)]
    BY <2>1
  <2> QED BY <1>1, <2>1, <2>2
<1>5. ASSUME NEW k \in 1 .. n PROVE A[k] = A[k - 1] + values[k]
  <2>0. k \in Nat \ {0} /\ k <= n
    OBVIOUS
  <2>1. k \in 1 .. k /\ (1 .. k) \ {k} = 1 .. k - 1 /\ k - 1 \in 0 .. n /\ k \in 0 .. n
    BY ONLY <2>0, n \in Nat
  <2>2. F[1 .. k] = F[(1 .. k) \ {k}] + values[k]
    BY <1>1, <1>2, <2>1
  <2> QED BY <2>1, <2>2
<1>6. ASSUME NEW k \in 1 .. n PROVE B[k] = B[k - 1] + there[k]
  <2>1. k - 1 \in 0 .. n /\ k \in 0 .. n /\ 1 .. k = (1 .. k - 1) \cup {k}
    OBVIOUS
  <2>2. \A i \in 1 .. k - 1 : order[i] # order[k]
    OBVIOUS
  <2>3. S(k) \ {order[k]} = S(k - 1) /\ order[k] \in S(k)
    <3>1. k \in 1 .. k /\ \A i \in 1 .. k : i = k \/ i \in 1 .. k - 1
      BY <2>1
    <3>2. \A i \in 1 .. k - 1 : i \in 1 .. k
      BY <2>1
    <3>3. order[k] \notin S(k - 1)
      BY <2>2
    <3>4. S(k) = S(k - 1) \cup {order[k]}
      <4>1. S(k) \subseteq S(k - 1) \cup {order[k]}
        BY <3>1
      <4>2. S(k - 1) \subseteq S(k) /\ order[k] \in S(k)
        BY <3>1, <3>2
      <4> HIDE DEF S
      <4> QED BY <4>1, <4>2
    <3> HIDE DEF S
    <3> QED BY <3>3, <3>4
  <2>4. F[S(k)] = F[S(k) \ {order[k]}] + values[order[k]]
    BY ZenonT(30), <1>1, <1>2, <2>1, <2>3
  <2> QED BY <2>1, <2>3, <2>4
<1>7. there \in [1 .. n -> Int]
  OBVIOUS
<1>8. SumsOf(A, values, n) /\ SumsOf(B, there, n)
  <2> HIDE DEF A, B
  <2> QED BY <1>3, <1>4, <1>5, <1>6 DEF SumsOf
<1>9. Total(values) = A[n]
  BY <1>8, TotalBy
<1>10. Total(there) = B[n]
  <2> HIDE DEF B
  <2> QED BY <1>7, <1>8, TotalBy
<1>11. S(n) = 1 .. n
  BY ZenonT(30)
<1>12. A[n] = B[n]
  <2>1. n \in 0 .. n
    OBVIOUS
  <2>2. A[n] = F[1 .. n] /\ B[n] = F[S(n)]
    BY <2>1
  <2> QED BY <1>11, <2>2
<1> QED BY <1>9, <1>10, <1>12

----------------------------------------------------------------------------
(* Sorting *)

\* The places of a list, each once, so that the numbers at them do not decrease.
IsSorting(order, n, key) ==
  /\ order \in [1 .. n -> 1 .. n]
  /\ \A i, j \in 1 .. n : i < j => order[i] # order[j] /\ key[order[i]] <= key[order[j]]
  /\ \A x \in 1 .. n : \E i \in 1 .. n : order[i] = x

\* A list can be sorted by any numbers.
LEMMA SortedPlacesAre ==
  ASSUME NEW n, NEW key, n \in Nat, key \in [1 .. n -> Int]
  PROVE  IsSorting(SortedPlaces(key), n, key)
<1> DEFINE S == 1 .. n
           before == {p \in S \X S : key[p[1]] < key[p[2]] \/ (key[p[1]] = key[p[2]] /\ p[1] < p[2])}
           order == SortedBy(S, before)
<1>1. SortedPlaces(key) = order
  <2>1. DOMAIN key = S
    OBVIOUS
  <2> QED BY <2>1 DEF SortedPlaces
<1>2. IsFiniteSet(S) /\ Cardinality(S) = n
  BY FS_Interval
<1>3. \A x, y \in S : /\ key[x] \in Int /\ x \in Int
                      /\ <<x, y>> \in before <=> key[x] < key[y] \/ (key[x] = key[y] /\ x < y)
  OBVIOUS
<1> HIDE DEF before
<1>4. StrictOrder(S, before)
  <2> HIDE DEF S
  <2>1. \A x \in S : <<x, x>> \notin before
    BY <1>3
  <2>2. ASSUME NEW x \in S, NEW y \in S, NEW z \in S, <<x, y>> \in before, <<y, z>> \in before
        PROVE  <<x, z>> \in before
    <3>1. key[x] \in Int /\ key[y] \in Int /\ key[z] \in Int /\ x \in Int /\ y \in Int /\ z \in Int
      BY <1>3
    <3>2. key[x] < key[y] \/ (key[x] = key[y] /\ x < y)
      BY <1>3, <2>2
    <3>3. key[y] < key[z] \/ (key[y] = key[z] /\ y < z)
      BY <1>3, <2>2
    <3>4. key[x] < key[z] \/ (key[x] = key[z] /\ x < z)
      BY ONLY <3>1, <3>2, <3>3
    <3> QED BY <1>3, <3>4
  <2>3. ASSUME NEW x \in S, NEW y \in S PROVE x = y \/ <<x, y>> \in before \/ <<y, x>> \in before
    <3>1. key[x] \in Int /\ key[y] \in Int /\ x \in Int /\ y \in Int
      BY <1>3
    <3>2. \/ x = y \/ key[x] < key[y] \/ (key[x] = key[y] /\ x < y)
          \/ key[y] < key[x] \/ (key[y] = key[x] /\ y < x)
      BY ONLY <3>1
    <3> QED BY <1>3, <3>2
  <2> QED BY <2>1, <2>2, <2>3 DEF StrictOrder
<1>5. /\ order \in Seq(S) /\ Len(order) = Cardinality(S) /\ InOrder(order, before)
      /\ \A x \in S : \E k \in 1 .. Cardinality(S) : order[k] = x
  <2> HIDE DEF S
  <2> QED BY <1>2, <1>4, SortedByOrder
<1> HIDE DEF order
<1>6. order \in [1 .. n -> 1 .. n] /\ Len(order) = n
  <2>1. order \in [1 .. Len(order) -> S]
    BY SMTT(30), <1>5
  <2> QED BY <1>2, <1>5, <2>1
<1>7. ASSUME NEW i \in 1 .. n, NEW j \in 1 .. n, i < j
      PROVE  order[i] # order[j] /\ key[order[i]] <= key[order[j]]
  <2>1. <<order[i], order[j]>> \in before
    BY <1>5, <1>6, <1>7 DEF InOrder
  <2>2. order[i] \in S /\ order[j] \in S
    BY <1>6
  <2> QED BY SMTT(30), <1>3, <2>1, <2>2
<1>8. \A x \in 1 .. n : \E i \in 1 .. n : order[i] = x
  BY <1>2, <1>5
<1> QED BY <1>1, <1>6, <1>7, <1>8 DEF IsSorting
=============================================================================
