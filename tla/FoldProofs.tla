----------------------------- MODULE FoldProofs -----------------------------
(***************************************************************************)
(* Facts about finite sets and about the folds by which the modules add up *)
(* and run through them.                                                   *)
(*                                                                         *)
(* A finite set is one that a function on an interval lists, and the facts *)
(* about finite sets follow by induction over the natural numbers.         *)
(*                                                                         *)
(* SumFunctionOnSet is the sum of a function's values over a finite set,   *)
(* by which balances, deposits and periods are added up.  It is defined by *)
(* recursion over an arbitrary choice of elements; its facts are proved by *)
(* induction over the subsets of the set.                                  *)
(*                                                                         *)
(* A fold over a set may also take the elements in an order of their own,  *)
(* as the entries of a queue are worked off: TakesExist says that such a   *)
(* fold is defined.                                                        *)
(***************************************************************************)
EXTENDS Integers, Sequences, FiniteSets, Functions, WellFoundedInduction, TLAPS

-----------------------------------------------------------------------------
(* Finite sets.                                                            *)

\* Induction over the natural numbers, for membership in a set.
LEMMA NatSetInduction ==
    ASSUME NEW G, 0 \in G, \A n \in Nat : n \in G => n + 1 \in G
    PROVE  \A n \in Nat : n \in G
<1> DEFINE R == OpToRel(<, Nat)
           B == {n \in Nat : n \notin G}
<1> SUFFICES ASSUME B # {} PROVE FALSE
  OBVIOUS
<1>1. /\ IsWellFoundedOn(R, Nat)
      /\ \A e, d \in Nat : e < d => <<e, d>> \in R
  <2>1. \A e, d \in Nat : e < d => <<e, d>> \in R
    BY DEF OpToRel
  <2>. QED
    BY <2>1, NatLessThanWellFounded, Zenon
<1> HIDE DEF R
<1>2. PICK d \in B : \A e \in B : ~(<<e, d>> \in R)
  <2>1. B \subseteq Nat
    OBVIOUS
  <2>2. IsWellFoundedOn(R, Nat)
    BY <1>1
  <2> HIDE DEF B
  <2>. QED
    BY <2>1, <2>2, WFMin, Zenon
<1>3. d \in Nat /\ d # 0 /\ d \notin G
  BY <1>2, Zenon, Zenon
<1>4. d - 1 \in Nat /\ d - 1 < d /\ (d - 1) + 1 = d
  BY <1>3
<1>5. d - 1 \in B
  BY <1>3, <1>4, Zenon
<1>. QED
  BY <1>1, <1>2, <1>3, <1>4, <1>5, Zenon

\* The values of f at 1..n include all of S.
Lists(f, n, S) == \A x \in S : \E i \in 1..n : f[i] = x

\* A finite set is one that a function on an interval lists.
LEMMA ListedIsFinite ==
    ASSUME NEW S, NEW n \in Nat, NEW f, Lists(f, n, S)
    PROVE  IsFiniteSet(S)
<1>1. CASE S = {}
  <2>1. << >> \in Seq(S)
    OBVIOUS
  <2>. QED
    BY <1>1, <2>1, Zenon DEF IsFiniteSet
<1>2. ASSUME NEW z \in S PROVE IsFiniteSet(S)
  <2> DEFINE g == [i \in 1..n |-> IF f[i] \in S THEN f[i] ELSE z]
  <2>1. g \in Seq(S) /\ Len(g) = n
    OBVIOUS
  <2>2. \A i \in 1..n : f[i] \in S => g[i] = f[i]
    BY Zenon
  <2> HIDE DEF g
  <2>3. \A x \in S : \E i \in 1..Len(g) : g[i] = x
    BY <2>1, <2>2, Zenon DEF Lists
  <2>. QED
    BY <2>1, <2>3, Zenon DEF IsFiniteSet
<1>. QED
  BY <1>1, <1>2, Zenon

\* And every finite set is listed.
LEMMA FiniteIsListed ==
    ASSUME NEW S, IsFiniteSet(S)
    PROVE  \E n \in Nat : \E f : Lists(f, n, S)
<1>1. PICK f \in Seq(S) : \A x \in S : \E i \in 1..Len(f) : f[i] = x
  BY Zenon DEF IsFiniteSet
<1>2. Len(f) \in Nat
  OBVIOUS
<1>. QED
  BY <1>1, <1>2, Zenon DEF Lists

\* An interval is finite.
LEMMA FiniteInterval == ASSUME NEW a \in Int, NEW b \in Int PROVE IsFiniteSet(a..b)
<1> DEFINE n == IF a <= b THEN b - a + 1 ELSE 0
           f == [i \in 1..n |-> a + i - 1]
<1>1. n \in Nat /\ \A x \in a..b : x - a + 1 \in 1..n /\ f[x - a + 1] = x
  OBVIOUS
<1> HIDE DEF n, f
<1>. QED
  BY <1>1, ListedIsFinite, Zenon DEF Lists

\* The empty set is finite.
LEMMA FiniteEmpty == IsFiniteSet({})
<1>1. 0 \in Nat
  OBVIOUS
<1>. QED
  BY <1>1, ListedIsFinite, Zenon DEF Lists

\* A set of one element is finite.
LEMMA FiniteSingleton == \A x : IsFiniteSet({x})
<1> TAKE x
<1> DEFINE f == [i \in 1..1 |-> x]
<1>1. 1 \in Nat /\ 1 \in 1..1 /\ f[1] = x
  OBVIOUS
<1> HIDE DEF f
<1>2. Lists(f, 1, {x})
  BY <1>1, Zenon DEF Lists
<1>. QED
  BY <1>1, <1>2, ListedIsFinite, Zenon

\* The subsets of a finite set are finite.
LEMMA FiniteSubset == ASSUME NEW S, IsFiniteSet(S), NEW T \in SUBSET S PROVE IsFiniteSet(T)
<1>1. PICK n \in Nat : \E f : Lists(f, n, S)
  BY FiniteIsListed, Zenon
<1>. QED
  BY <1>1, ListedIsFinite, Zenon DEF Lists

\* The union of two finite sets is finite.
LEMMA FiniteUnion ==
    ASSUME NEW S, IsFiniteSet(S), NEW T, IsFiniteSet(T)
    PROVE  IsFiniteSet(S \cup T)
<1>1. PICK n \in Nat : \E f : Lists(f, n, S)
  BY FiniteIsListed, Zenon
<1>2. PICK f : Lists(f, n, S)
  BY <1>1, Zenon
<1>3. PICK m \in Nat : \E g : Lists(g, m, T)
  BY FiniteIsListed, Zenon
<1>4. PICK g : Lists(g, m, T)
  BY <1>3, Zenon
<1> DEFINE h == [i \in 1..(n + m) |-> IF i <= n THEN f[i] ELSE g[i - n]]
<1>5. n + m \in Nat /\ \A i \in 1..n : i \in 1..(n + m) /\ h[i] = f[i]
  OBVIOUS
<1>6. \A i \in 1..m : i + n \in 1..(n + m) /\ h[i + n] = g[i]
  OBVIOUS
<1> HIDE DEF h
<1>7. Lists(h, n + m, S \cup T)
  <2> SUFFICES ASSUME NEW x \in S \cup T PROVE \E i \in 1..(n + m) : h[i] = x
    BY Zenon DEF Lists
  <2>1. CASE x \in S
    BY <1>2, <1>5, <2>1, Zenon DEF Lists
  <2>2. CASE x \in T
    BY <1>4, <1>6, <2>2, Zenon DEF Lists
  <2>. QED
    BY <2>1, <2>2, Zenon
<1>. QED
  BY <1>5, <1>7, ListedIsFinite, Zenon

\* A set from which a function into a finite set tells the elements apart is
\* finite.
LEMMA FiniteInjection ==
    ASSUME NEW S, NEW T, IsFiniteSet(T), NEW f,
           \A x \in S : f[x] \in T, \A x, y \in S : f[x] = f[y] => x = y
    PROVE  IsFiniteSet(S)
<1>1. PICK n \in Nat : \E g : Lists(g, n, T)
  BY FiniteIsListed, Zenon
<1>2. PICK g : Lists(g, n, T)
  BY <1>1, Zenon
<1> DEFINE h == [i \in 1..n |-> CHOOSE x \in S : f[x] = g[i]]
<1>3. \A x \in S : \A i \in 1..n : g[i] = f[x] => h[i] = x
  <2> SUFFICES ASSUME NEW x \in S, NEW i \in 1..n, g[i] = f[x] PROVE h[i] = x
    BY Zenon
  <2>1. h[i] = CHOOSE y \in S : f[y] = g[i]
    BY Zenon
  <2>2. h[i] \in S /\ f[h[i]] = g[i]
    BY <2>1, Zenon
  <2>. QED
    BY <2>2, Zenon
<1> HIDE DEF h
<1>4. \A x \in S : \E i \in 1..n : h[i] = x
  <2> SUFFICES ASSUME NEW x \in S PROVE \E i \in 1..n : h[i] = x
    BY Zenon
  <2>1. f[x] \in T
    BY Zenon
  <2>2. PICK i \in 1..n : g[i] = f[x]
    BY <1>2, <2>1, Zenon DEF Lists
  <2>. QED
    BY <1>3, <2>2, Zenon
<1>5. Lists(h, n, S)
  BY <1>4, Zenon DEF Lists
<1>. QED
  BY <1>5, ListedIsFinite, Zenon

\* Induction over the subsets of a finite set: a family that has each subset of
\* which it has all smaller ones has them all.
LEMMA SubsetInduction ==
    ASSUME NEW S, IsFiniteSet(S), NEW G,
           \A U \in SUBSET S : (\A V \in SUBSET U : V # U => V \in G) => U \in G
    PROVE  S \in G
<1> DEFINE P(n) == \A U \in SUBSET S : \A f : Lists(f, n, U) => U \in G
           K == {n \in Nat : P(n)}
<1>1. 0 \in K
  <2>1. ASSUME NEW U \in SUBSET S, NEW f, Lists(f, 0, U) PROVE U \in G
    <3>1. \A i \in 1..0 : FALSE
      OBVIOUS
    <3>2. U = {}
      BY <2>1, <3>1, Zenon DEF Lists
    <3>3. \A V \in SUBSET U : V = U
      BY <3>2, Zenon
    <3>. QED
      BY <3>3, Zenon
  <2>2. 0 \in Nat
    OBVIOUS
  <2>. QED
    BY <2>1, <2>2, Zenon
<1>2. ASSUME NEW n \in Nat, n \in K PROVE n + 1 \in K
  <2>1. ASSUME NEW U \in SUBSET S, NEW f, Lists(f, n + 1, U), NEW V \in SUBSET U, V # U
        PROVE  V \in G
    <3>1. PICK x \in U : x \notin V
      BY <2>1, Zenon
    <3>2. PICK j \in 1..(n + 1) : f[j] = x
      BY <2>1, <3>1, Zenon DEF Lists
    <3> DEFINE g == [i \in 1..n |-> IF i < j THEN f[i] ELSE f[i + 1]]
    <3>3. \A i \in 1..(n + 1) : i # j => \E k \in 1..n : g[k] = f[i]
      <4> SUFFICES ASSUME NEW i \in 1..(n + 1), i # j PROVE \E k \in 1..n : g[k] = f[i]
        BY Zenon
      <4>1. CASE i < j
        <5>1. i \in 1..n /\ g[i] = f[i]
          BY <4>1
        <5>. QED
          BY <5>1, Zenon
      <4>2. CASE i > j
        <5>1. i - 1 \in 1..n /\ g[i - 1] = f[i]
          BY <4>2
        <5>. QED
          BY <5>1, Zenon
      <4>. QED
        BY <4>1, <4>2
    <3> HIDE DEF g
    <3>4. Lists(g, n, V)
      BY <2>1, <3>1, <3>2, <3>3, Zenon DEF Lists
    <3>. QED
      BY <1>2, <3>4, Zenon
  <2>2. n + 1 \in Nat
    OBVIOUS
  <2>. QED
    BY <2>1, <2>2, Zenon
<1>3. \A n \in Nat : n \in K
  <2> HIDE DEF K
  <2>. QED
    BY <1>1, <1>2, NatSetInduction, Zenon
<1>. QED
  BY <1>3, FiniteIsListed, Zenon

\* The product of two finite sets is finite.
LEMMA FiniteProduct ==
    ASSUME NEW S, IsFiniteSet(S), NEW T, IsFiniteSet(T)
    PROVE  IsFiniteSet(S \X T)
<1> DEFINE G == {U \in SUBSET S : IsFiniteSet(U \X T)}
<1>1. ASSUME NEW U \in SUBSET S, \A V \in SUBSET U : V # U => V \in G
      PROVE  U \in G
  <2>1. CASE U = {}
    <3>1. U \X T = {}
      BY <2>1
    <3>. QED
      BY <3>1, FiniteEmpty, Zenon
  <2>2. ASSUME NEW y \in U PROVE U \in G
    <3>1. U \ {y} \in G
      BY <1>1, <2>2, Zenon
    <3>2. IsFiniteSet({y} \X T)
      <4> DEFINE f == [p \in {y} \X T |-> p[2]]
      <4>1. /\ \A p \in {y} \X T : f[p] \in T
            /\ \A p, q \in {y} \X T : f[p] = f[q] => p = q
        OBVIOUS
      <4> HIDE DEF f
      <4> DEFINE R == {y} \X T
      <4>2. (\A p \in R : f[p] \in T) /\ (\A p, q \in R : f[p] = f[q] => p = q)
        BY <4>1, Zenon
      <4> HIDE DEF R
      <4>3. IsFiniteSet(R)
        BY <4>2, FiniteInjection, Zenon
      <4>. QED
        BY <4>3, Zenon DEF R
    <3>3. U \X T = ({y} \X T) \cup ((U \ {y}) \X T)
      OBVIOUS
    <3>4. IsFiniteSet((U \ {y}) \X T)
      BY <3>1, Zenon
    <3>5. IsFiniteSet(({y} \X T) \cup ((U \ {y}) \X T))
      BY <3>2, <3>4, FiniteUnion, Zenon
    <3>. QED
      BY <3>3, <3>5, Zenon
  <2>. QED
    BY <2>1, <2>2, Zenon
<1>2. S \in G
  <2> HIDE DEF G
  <2>. QED
    BY <1>1, SubsetInduction, Zenon
<1>. QED
  BY <1>2, Zenon

-----------------------------------------------------------------------------
(* Sums over finite sets.                                                  *)

\* The element of a set that a fold takes first; and that g is the function
\* by which SumFunctionOnSet is defined.
Pick(s) == CHOOSE x \in s : TRUE
Adds(g, f, S) == g = [s \in SUBSET S |-> IF s = {} THEN 0 ELSE f[Pick(s)] + g[s \ {Pick(s)}]]

\* The choice is an element.
LEMMA PickIn == ASSUME NEW s, s # {} PROVE Pick(s) \in s
  BY Zenon DEF Pick

\* Two such functions agree where both are defined.
LEMMA AddsUnique ==
    ASSUME NEW S, IsFiniteSet(S), NEW T, NEW f, NEW g, NEW h, Adds(g, f, S), Adds(h, f, T), S \subseteq T
    PROVE  g[S] = h[S]
<1> DEFINE G == {U \in SUBSET S : g[U] = h[U]}
<1>1. ASSUME NEW U \in SUBSET S, \A V \in SUBSET U : V # U => V \in G
      PROVE  U \in G
  <2>1. CASE U = {}
    BY <2>1 DEF Adds
  <2>2. CASE U # {}
    <3>1. U \ {Pick(U)} \in G
      BY <1>1, <2>2, PickIn
    <3>2. g[U] = f[Pick(U)] + g[U \ {Pick(U)}] /\ h[U] = f[Pick(U)] + h[U \ {Pick(U)}]
      BY <2>2, Zenon DEF Adds
    <3>. QED
      BY <3>1, <3>2
  <2>. QED
    BY <2>1, <2>2
<1>2. S \in G
  <2> HIDE DEF G
  <2>. QED
    BY <1>1, SubsetInduction
<1>. QED
  BY <1>2

\* Over a finite set there is one.
LEMMA AddsExists ==
    ASSUME NEW S, IsFiniteSet(S), NEW f
    PROVE  \E g : Adds(g, f, S)
<1> DEFINE G == {U \in SUBSET S : \E g : Adds(g, f, U)}
           F(V) == CHOOSE g : Adds(g, f, V)
<1>1. ASSUME NEW U \in SUBSET S, \A V \in SUBSET U : V # U => V \in G
      PROVE  U \in G
  <2>1. \A V \in SUBSET U : V # U => Adds(F(V), f, V)
    BY <1>1
  <2> HIDE DEF F
  <2> DEFINE g == [V \in SUBSET U |->
                      IF V = {} THEN 0
                      ELSE IF V # U THEN F(V)[V]
                      ELSE f[Pick(U)] + F(U \ {Pick(U)})[U \ {Pick(U)}]]
  <2>2. \A V \in SUBSET U : V # U => g[V] = F(V)[V]
    <3> SUFFICES ASSUME NEW V \in SUBSET U, V # U PROVE g[V] = F(V)[V]
      BY Zenon
    <3>1. CASE V = {}
      BY <2>1, <3>1, Zenon DEF Adds
    <3>. QED
      BY <3>1
  <2>3. \A V \in SUBSET U : V # {} => g[V] = f[Pick(V)] + g[V \ {Pick(V)}]
    <3> SUFFICES ASSUME NEW V \in SUBSET U, V # {} PROVE g[V] = f[Pick(V)] + g[V \ {Pick(V)}]
      BY Zenon
    <3> DEFINE W == V \ {Pick(V)}
    <3>1. W \in SUBSET U /\ W # U /\ W # V /\ W \subseteq V
      BY PickIn
    <3>2. g[W] = F(W)[W]
      BY <2>2, <3>1, Zenon
    <3>3. CASE V = U
      <4>1. g[U] = f[Pick(U)] + F(W)[W]
        BY <3>3
      <4>. QED
        BY <3>2, <3>3, <4>1
    <3>4. CASE V # U
      <4>1. g[V] = F(V)[V]
        BY <2>2, <3>4
      <4>2. Adds(F(V), f, V) /\ Adds(F(W), f, W)
        BY <2>1, <3>1, <3>4
      <4>3. F(V)[V] = f[Pick(V)] + F(V)[W]
        BY <4>2, Zenon DEF Adds
      <4>4. IsFiniteSet(W)
        BY FiniteSubset
      <4>5. F(V)[W] = F(W)[W]
        BY <3>1, <4>2, <4>4, AddsUnique
      <4>. QED
        BY <3>2, <4>1, <4>3, <4>5
    <3>. QED
      BY <3>3, <3>4
  <2>4. Adds(g, f, U)
    <3> DEFINE h == [s \in SUBSET U |-> IF s = {} THEN 0 ELSE f[Pick(s)] + g[s \ {Pick(s)}]]
    <3>1. g[{}] = 0
      OBVIOUS
    <3>2. \A V \in SUBSET U : g[V] = h[V]
      BY <2>3, <3>1, Zenon
    <3>3. g = [V \in SUBSET U |-> g[V]] /\ h = [V \in SUBSET U |-> h[V]]
      OBVIOUS
    <3>4. g = h
      <4> HIDE DEF g, h
      <4>. QED
        BY <3>2, <3>3, Zenon
    <3> HIDE DEF g
    <3>. QED
      BY <3>4, Zenon DEF Adds
  <2>. QED
    BY <2>4
<1>2. S \in G
  <2> HIDE DEF G
  <2>. QED
    BY <1>1, SubsetInduction
<1>. QED
  BY <1>2

\* SumFunctionOnSet, which is defined with CHOOSE, is the value of such a
\* function.
LEMMA SumIs ==
    ASSUME NEW S, IsFiniteSet(S), NEW f
    PROVE  \E g : Adds(g, f, S) /\ SumFunctionOnSet(f, S) = g[S]
<1> DEFINE g == CHOOSE iter : Adds(iter, f, S)
<1>1. Adds(g, f, S)
  BY AddsExists
<1>2. SumFunctionOnSet(f, S) = g[S]
  BY Zenon DEF SumFunctionOnSet, FoldFunctionOnSet, MapThenFoldSet, Adds, Pick
<1>. QED
  BY <1>1, <1>2, Zenon

\* The equations of a sum.
LEMMA SumEmpty == \A f : SumFunctionOnSet(f, {}) = 0
  BY SumIs, FiniteEmpty, Zenon DEF Adds

\* A sum is an element's value and the sum over the others.
LEMMA SumPick ==
    ASSUME NEW S, IsFiniteSet(S), S # {}, NEW f
    PROVE  /\ Pick(S) \in S
           /\ IsFiniteSet(S \ {Pick(S)})
           /\ SumFunctionOnSet(f, S) = f[Pick(S)] + SumFunctionOnSet(f, S \ {Pick(S)})
<1> DEFINE R == S \ {Pick(S)}
<1>1. PICK g : Adds(g, f, S) /\ SumFunctionOnSet(f, S) = g[S]
  BY SumIs, Zenon
<1>2. IsFiniteSet(R)
  BY FiniteSubset
<1>3. PICK h : Adds(h, f, R) /\ SumFunctionOnSet(f, R) = h[R]
  BY SumIs, <1>2, Zenon
<1>4. h[R] = g[R]
  BY AddsUnique, <1>1, <1>2, <1>3
<1>5. g[S] = f[Pick(S)] + g[R]
  BY <1>1, Zenon DEF Adds
<1>. QED
  BY <1>1, <1>2, <1>3, <1>4, <1>5, PickIn

\* The sum of integers is one, of natural numbers too.
LEMMA SumInt ==
    ASSUME NEW S, IsFiniteSet(S), NEW f, \A x \in S : f[x] \in Int
    PROVE  /\ SumFunctionOnSet(f, S) \in Int
           /\ (\A x \in S : f[x] \in Nat) => SumFunctionOnSet(f, S) \in Nat
<1> DEFINE P(U) == /\ SumFunctionOnSet(f, U) \in Int
                   /\ (\A x \in S : f[x] \in Nat) => SumFunctionOnSet(f, U) \in Nat
           G == {U \in SUBSET S : P(U)}
<1>1. ASSUME NEW U \in SUBSET S, \A V \in SUBSET U : V # U => V \in G
      PROVE  U \in G
  <2>1. CASE U = {}
    BY <2>1, SumEmpty
  <2>2. CASE U # {}
    <3> DEFINE R == U \ {Pick(U)}
    <3>1. IsFiniteSet(U)
      BY FiniteSubset
    <3>2. Pick(U) \in U /\ SumFunctionOnSet(f, U) = f[Pick(U)] + SumFunctionOnSet(f, R)
      BY <2>2, <3>1, SumPick
    <3>3. P(R)
      BY <1>1, <3>2
    <3> HIDE DEF R
    <3>. QED
      BY <3>2, <3>3
  <2>. QED
    BY <2>1, <2>2
<1>2. S \in G
  <2> HIDE DEF G
  <2>. QED
    BY <1>1, SubsetInduction
<1>. QED
  BY <1>2

\* A sum may start with any element.
LEMMA SumRemove ==
    ASSUME NEW S, IsFiniteSet(S), NEW f, \A x \in S : f[x] \in Int
    PROVE  \A x \in S : SumFunctionOnSet(f, S) = f[x] + SumFunctionOnSet(f, S \ {x})
<1> DEFINE P(U) == \A x \in U : SumFunctionOnSet(f, U) = f[x] + SumFunctionOnSet(f, U \ {x})
           G == {U \in SUBSET S : P(U)}
<1>1. ASSUME NEW U \in SUBSET S, \A V \in SUBSET U : V # U => V \in G
      PROVE  U \in G
  <2> SUFFICES ASSUME NEW x \in U PROVE SumFunctionOnSet(f, U) = f[x] + SumFunctionOnSet(f, U \ {x})
    OBVIOUS
  <2> DEFINE y == Pick(U)
  <2>1. IsFiniteSet(U)
    BY FiniteSubset
  <2>2. y \in U /\ SumFunctionOnSet(f, U) = f[y] + SumFunctionOnSet(f, U \ {y})
    BY <2>1, SumPick, Zenon
  <2>3. P(U \ {x}) /\ P(U \ {y})
    BY <1>1, <2>2
  <2> HIDE DEF y
  <2>4. CASE x = y
    BY <2>2, <2>4
  <2>5. CASE x # y
    <3> DEFINE W == (U \ {y}) \ {x}
    <3>1. SumFunctionOnSet(f, U \ {y}) = f[x] + SumFunctionOnSet(f, W)
      BY <2>3, <2>5
    <3>2. SumFunctionOnSet(f, U \ {x}) = f[y] + SumFunctionOnSet(f, (U \ {x}) \ {y})
      BY <2>2, <2>3, <2>5
    <3>3. (U \ {x}) \ {y} = W
      BY Zenon
    <3>4. IsFiniteSet(W)
      BY <2>1, FiniteSubset
    <3>5. SumFunctionOnSet(f, W) \in Int
      BY <3>4, SumInt
    <3>6. f[x] \in Int /\ f[y] \in Int
      BY <2>2
    <3>7. SumFunctionOnSet(f, U \ {x}) = f[y] + SumFunctionOnSet(f, W)
      BY <3>2, <3>3, Zenon
    <3>8. f[y] + (f[x] + SumFunctionOnSet(f, W)) = f[x] + (f[y] + SumFunctionOnSet(f, W))
      BY <3>5, <3>6, SMT
    <3>. QED
      BY <2>2, <3>1, <3>7, <3>8, Zenon
  <2>. QED
    BY <2>4, <2>5
<1>2. S \in G
  <2> HIDE DEF G
  <2>. QED
    BY <1>1, SubsetInduction
<1>. QED
  BY <1>2

\* It depends on the values at the elements only.
LEMMA SumSame ==
    ASSUME NEW S, IsFiniteSet(S), NEW f, NEW g, \A x \in S : f[x] = g[x]
    PROVE  SumFunctionOnSet(f, S) = SumFunctionOnSet(g, S)
<1> DEFINE G == {U \in SUBSET S : SumFunctionOnSet(f, U) = SumFunctionOnSet(g, U)}
<1>1. ASSUME NEW U \in SUBSET S, \A V \in SUBSET U : V # U => V \in G
      PROVE  U \in G
  <2>1. CASE U = {}
    BY <2>1, SumEmpty
  <2>2. CASE U # {}
    <3> DEFINE R == U \ {Pick(U)}
    <3>1. IsFiniteSet(U)
      BY FiniteSubset
    <3>2. /\ Pick(U) \in U
          /\ SumFunctionOnSet(f, U) = f[Pick(U)] + SumFunctionOnSet(f, R)
          /\ SumFunctionOnSet(g, U) = g[Pick(U)] + SumFunctionOnSet(g, R)
      BY <2>2, <3>1, SumPick
    <3>3. SumFunctionOnSet(f, R) = SumFunctionOnSet(g, R)
      BY <1>1, <3>2
    <3> HIDE DEF R
    <3>. QED
      BY <3>2, <3>3
  <2>. QED
    BY <2>1, <2>2
<1>2. S \in G
  <2> HIDE DEF G
  <2>. QED
    BY <1>1, SubsetInduction
<1>. QED
  BY <1>2

\* Sums add up pointwise.
LEMMA SumPlus ==
    ASSUME NEW S, IsFiniteSet(S), NEW f, NEW g, NEW h,
           \A x \in S : f[x] \in Int /\ g[x] \in Int /\ h[x] = f[x] + g[x]
    PROVE  SumFunctionOnSet(h, S) = SumFunctionOnSet(f, S) + SumFunctionOnSet(g, S)
<1> DEFINE P(U) == SumFunctionOnSet(h, U) = SumFunctionOnSet(f, U) + SumFunctionOnSet(g, U)
           G == {U \in SUBSET S : P(U)}
<1>1. ASSUME NEW U \in SUBSET S, \A V \in SUBSET U : V # U => V \in G
      PROVE  U \in G
  <2>1. CASE U = {}
    BY <2>1, SumEmpty
  <2>2. CASE U # {}
    <3> DEFINE R == U \ {Pick(U)}
               y == Pick(U)
    <3>1. IsFiniteSet(U)
      BY FiniteSubset
    <3>2. /\ y \in U
          /\ IsFiniteSet(R)
          /\ SumFunctionOnSet(f, U) = f[y] + SumFunctionOnSet(f, R)
          /\ SumFunctionOnSet(g, U) = g[y] + SumFunctionOnSet(g, R)
          /\ SumFunctionOnSet(h, U) = h[y] + SumFunctionOnSet(h, R)
      BY <2>2, <3>1, SumPick
    <3>3. P(R)
      BY <1>1, <3>2
    <3>4. SumFunctionOnSet(f, R) \in Int /\ SumFunctionOnSet(g, R) \in Int
      BY <3>2, SumInt
    <3>5. f[y] \in Int /\ g[y] \in Int /\ h[y] = f[y] + g[y]
      BY <3>2
    <3> HIDE DEF R, y
    <3>. QED
      BY <3>2, <3>3, <3>4, <3>5
  <2>. QED
    BY <2>1, <2>2
<1>2. S \in G
  <2> HIDE DEF G
  <2>. QED
    BY <1>1, SubsetInduction
<1>. QED
  BY <1>2

\* A sum of zeros is zero.
LEMMA SumZero ==
    ASSUME NEW S, IsFiniteSet(S), NEW f, \A x \in S : f[x] = 0
    PROVE  SumFunctionOnSet(f, S) = 0
<1>1. SumFunctionOnSet(f, S) \in Int
  BY SumInt
<1>2. \A x \in S : f[x] \in Int /\ f[x] \in Int /\ f[x] = f[x] + f[x]
  OBVIOUS
<1>3. SumFunctionOnSet(f, S) = SumFunctionOnSet(f, S) + SumFunctionOnSet(f, S)
  BY <1>2, SumPlus, Zenon
<1>4. \A n \in Int : n = n + n => n = 0
  BY SMT
<1>. QED
  BY <1>1, <1>3, <1>4, Zenon

\* One value changes.
ChangesAt(f, g, x, S) == \A y \in S : f[y] \in Int /\ g[y] \in Int /\ (y # x => g[y] = f[y])

\* A sum changes by what the one value changes.
LEMMA SumUpdate ==
    ASSUME NEW S, IsFiniteSet(S), NEW f, NEW g, NEW x \in S, ChangesAt(f, g, x, S)
    PROVE  SumFunctionOnSet(g, S) = SumFunctionOnSet(f, S) - f[x] + g[x]
<1> USE DEF ChangesAt
<1> DEFINE R == S \ {x}
<1>1. IsFiniteSet(R)
  BY FiniteSubset
<1>2. SumFunctionOnSet(f, R) = SumFunctionOnSet(g, R)
  BY <1>1, SumSame
<1>3. SumFunctionOnSet(f, R) \in Int
  BY <1>1, SumInt
<1>4. SumFunctionOnSet(f, S) = f[x] + SumFunctionOnSet(f, R)
  BY SumRemove
<1>5. SumFunctionOnSet(g, S) = g[x] + SumFunctionOnSet(g, R)
  BY SumRemove
<1>6. f[x] \in Int /\ g[x] \in Int
  OBVIOUS
<1> HIDE DEF R
<1>. QED
  BY <1>2, <1>3, <1>4, <1>5, <1>6

\* The sum over two disjoint sets.
LEMMA SumUnion ==
    ASSUME NEW S, IsFiniteSet(S), NEW T, IsFiniteSet(T), S \cap T = {},
           NEW f, \A x \in S \cup T : f[x] \in Int
    PROVE  SumFunctionOnSet(f, S \cup T) = SumFunctionOnSet(f, S) + SumFunctionOnSet(f, T)
<1> DEFINE P(U) == SumFunctionOnSet(f, U \cup T) = SumFunctionOnSet(f, U) + SumFunctionOnSet(f, T)
           G == {U \in SUBSET S : P(U)}
<1>0. SumFunctionOnSet(f, T) \in Int
  BY SumInt
<1>1. ASSUME NEW U \in SUBSET S, \A V \in SUBSET U : V # U => V \in G
      PROVE  U \in G
  <2>1. CASE U = {}
    <3>1. U \cup T = T
      BY <2>1
    <3>. QED
      BY <1>0, <2>1, <3>1, SumEmpty
  <2>2. CASE U # {}
    <3> DEFINE R == U \ {Pick(U)}
               y == Pick(U)
    <3>1. IsFiniteSet(U) /\ IsFiniteSet(U \cup T)
      BY FiniteSubset, FiniteUnion, Zenon
    <3>2. y \in U /\ IsFiniteSet(R) /\ SumFunctionOnSet(f, U) = f[y] + SumFunctionOnSet(f, R)
      BY <2>2, <3>1, SumPick, Zenon
    <3>3. P(R)
      BY <1>1, <3>2
    <3>4. SumFunctionOnSet(f, U \cup T) = f[y] + SumFunctionOnSet(f, (U \cup T) \ {y})
      <4>1. \A x \in U \cup T : f[x] \in Int
        OBVIOUS
      <4>. QED
        BY <3>1, <3>2, <4>1, SumRemove
    <3>5. (U \cup T) \ {y} = R \cup T
      BY <3>2
    <3>6. SumFunctionOnSet(f, R) \in Int
      BY <3>2, SumInt
    <3>7. f[y] \in Int
      BY <3>2
    <3>8. SumFunctionOnSet(f, U \cup T) = f[y] + (SumFunctionOnSet(f, R) + SumFunctionOnSet(f, T))
      BY <3>3, <3>4, <3>5, Zenon
    <3> HIDE DEF R, y
    <3>. QED
      BY <1>0, <3>2, <3>6, <3>7, <3>8
  <2>. QED
    BY <2>1, <2>2
<1>2. S \in G
  <2> HIDE DEF G
  <2>. QED
    BY <1>1, SubsetInduction
<1>. QED
  BY <1>2

\* A smaller set of natural numbers has no larger sum.
LEMMA SumSubset ==
    ASSUME NEW S, IsFiniteSet(S), NEW T \in SUBSET S, NEW f, \A x \in S : f[x] \in Nat
    PROVE  /\ SumFunctionOnSet(f, T) \in Nat
           /\ SumFunctionOnSet(f, T) <= SumFunctionOnSet(f, S)
<1>1. IsFiniteSet(T) /\ IsFiniteSet(S \ T)
  BY FiniteSubset
<1>2. SumFunctionOnSet(f, T) \in Nat /\ SumFunctionOnSet(f, S \ T) \in Nat
  BY <1>1, SumInt
<1>3. SumFunctionOnSet(f, T \cup (S \ T)) = SumFunctionOnSet(f, T) + SumFunctionOnSet(f, S \ T)
  <2>1. T \cap (S \ T) = {} /\ \A x \in T \cup (S \ T) : f[x] \in Int
    OBVIOUS
  <2>. QED
    BY <1>1, <2>1, SumUnion
<1>4. T \cup (S \ T) = S
  OBVIOUS
<1>5. \A n, k \in Nat : n <= n + k
  BY SMT
<1>. QED
  BY <1>2, <1>3, <1>4, <1>5, Zenon

\* The sum over pairs, row by row.
IsRow(row, f, m, T) == \A i \in T : f[<<m, i>>] \in Int /\ row[i] = f[<<m, i>>]

\* The sum over one row.
LEMMA SumRow ==
    ASSUME NEW m, NEW T, IsFiniteSet(T), NEW f, NEW row, IsRow(row, f, m, T)
    PROVE  SumFunctionOnSet(f, {m} \X T) = SumFunctionOnSet(row, T)
<1> DEFINE P(U) == SumFunctionOnSet(f, {m} \X U) = SumFunctionOnSet(row, U)
           G == {U \in SUBSET T : P(U)}
<1>0. \A U \in SUBSET T : IsFiniteSet({m} \X U)
  BY FiniteSubset, FiniteSingleton, FiniteProduct, Zenon
<1>1. ASSUME NEW U \in SUBSET T, \A V \in SUBSET U : V # U => V \in G
      PROVE  U \in G
  <2>1. CASE U = {}
    <3>1. {m} \X U = {}
      BY <2>1
    <3>. QED
      BY <2>1, <3>1, SumEmpty
  <2>2. CASE U # {}
    <3> DEFINE R == U \ {Pick(U)}
               y == Pick(U)
    <3>1. IsFiniteSet(U)
      BY FiniteSubset
    <3>2. y \in U /\ SumFunctionOnSet(row, U) = row[y] + SumFunctionOnSet(row, R)
      BY <2>2, <3>1, SumPick, Zenon
    <3>3. P(R)
      BY <1>1, <3>2
    <3>4. SumFunctionOnSet(f, {m} \X U) = f[<<m, y>>] + SumFunctionOnSet(f, ({m} \X U) \ {<<m, y>>})
      <4>1. \A x \in {m} \X U : f[x] \in Int
        BY DEF IsRow
      <4>2. <<m, y>> \in {m} \X U
        BY <3>2
      <4>3. IsFiniteSet({m} \X U)
        BY <1>0
      <4>. QED
        BY <4>1, <4>2, <4>3, SumRemove
    <3>5. ({m} \X U) \ {<<m, y>>} = {m} \X R
      BY <3>2
    <3>6. row[y] = f[<<m, y>>]
      BY <3>2 DEF IsRow
    <3>. QED
      BY <3>2, <3>3, <3>4, <3>5, <3>6, Zenon
  <2>. QED
    BY <2>1, <2>2
<1>2. T \in G
  <2> HIDE DEF G
  <2>. QED
    BY <1>1, SubsetInduction
<1>. QED
  BY <1>0, <1>2

RowSums(rows, f, S, T) ==
    /\ \A x \in S \X T : f[x] \in Int
    /\ \A m \in S : rows[m] = SumFunctionOnSet([i \in T |-> f[<<m, i>>]], T)

\* The sum over all pairs is the sum of the rows' sums.
LEMMA SumProduct ==
    ASSUME NEW S, IsFiniteSet(S), NEW T, IsFiniteSet(T), NEW f, NEW rows, RowSums(rows, f, S, T)
    PROVE  SumFunctionOnSet(f, S \X T) = SumFunctionOnSet(rows, S)
<1> USE DEF RowSums
<1> DEFINE P(U) == SumFunctionOnSet(f, U \X T) = SumFunctionOnSet(rows, U)
           G == {U \in SUBSET S : P(U)}
<1>1. ASSUME NEW U \in SUBSET S, \A V \in SUBSET U : V # U => V \in G
      PROVE  U \in G
  <2>1. CASE U = {}
    <3>1. U \X T = {}
      BY <2>1
    <3>. QED
      BY <2>1, <3>1, SumEmpty
  <2>2. CASE U # {}
    <3> DEFINE R == U \ {Pick(U)}
               y == Pick(U)
               row == [i \in T |-> f[<<y, i>>]]
    <3>1. IsFiniteSet(U)
      BY FiniteSubset
    <3>2. y \in U /\ IsFiniteSet(R) /\ SumFunctionOnSet(rows, U) = rows[y] + SumFunctionOnSet(rows, R)
      BY <2>2, <3>1, SumPick, Zenon
    <3>3. P(R)
      BY <1>1, <3>2
    <3>4. SumFunctionOnSet(f, {y} \X T) = SumFunctionOnSet(row, T)
      <4>1. IsRow(row, f, y, T)
        BY <3>2 DEF IsRow
      <4> HIDE DEF row, y
      <4>. QED
        BY <4>1, SumRow
    <3>5. SumFunctionOnSet(f, ({y} \X T) \cup (R \X T)) = SumFunctionOnSet(f, {y} \X T) + SumFunctionOnSet(f, R \X T)
      <4>1. \A x \in ({y} \X T) \cup (R \X T) : f[x] \in Int
        BY <3>2
      <4>2. ({y} \X T) \cap (R \X T) = {}
        OBVIOUS
      <4>3. IsFiniteSet({y} \X T) /\ IsFiniteSet(R \X T)
        BY <3>2, FiniteSingleton, FiniteProduct, Zenon
      <4>. QED
        BY <4>1, <4>2, <4>3, SumUnion, ZenonT(60)
    <3>6. ({y} \X T) \cup (R \X T) = U \X T
      <4>1. U = {y} \cup R
        BY <3>2
      <4> HIDE DEF y, R
      <4>. QED
        BY <4>1
    <3>7. rows[y] = SumFunctionOnSet(row, T)
      BY <3>2
    <3> HIDE DEF row
    <3>. QED
      BY <3>2, <3>3, <3>4, <3>5, <3>6, <3>7, Zenon
  <2>. QED
    BY <2>1, <2>2
<1>2. S \in G
  <2> HIDE DEF G
  <2>. QED
    BY <1>1, SubsetInduction
<1>. QED
  BY <1>2

\* A finite set of integers has a greatest.
LEMMA HasGreatest ==
    ASSUME NEW S, IsFiniteSet(S), S # {}, S \subseteq Int
    PROVE  \E x \in S : \A y \in S : x >= y
<1> DEFINE P(U) == U # {} => \E x \in U : \A y \in U : x >= y
           G == {U \in SUBSET S : P(U)}
<1>1. ASSUME NEW U \in SUBSET S, \A V \in SUBSET U : V # U => V \in G
      PROVE  U \in G
  <2> SUFFICES ASSUME NEW z \in U PROVE \E x \in U : \A y \in U : x >= y
    BY Zenon
  <2>1. P(U \ {z})
    <3>1. U \ {z} \in SUBSET U /\ U \ {z} # U
      BY Zenon
    <3>2. U \ {z} \in G
      BY <1>1, <3>1, Zenon
    <3>. QED
      BY <3>2, Zenon
  <2>2. CASE U = {z}
    BY <2>2
  <2>3. CASE U # {z}
    <3>1. PICK x \in U \ {z} : \A y \in U \ {z} : x >= y
      BY <2>1, <2>3
    <3>2. x \in Int /\ z \in Int
      OBVIOUS
    <3>3. CASE x >= z
      BY <3>1, <3>3
    <3>4. CASE z > x
      <4>1. \A y \in U \ {z} : y \in Int
        OBVIOUS
      <4>. QED
        BY <3>1, <3>2, <3>4, <4>1
    <3>. QED
      BY <3>2, <3>3, <3>4
  <2>. QED
    BY <2>2, <2>3
<1>2. S \in G
  <2> HIDE DEF G
  <2>. QED
    BY <1>1, SubsetInduction, Zenon
<1>. QED
  BY <1>2

-----------------------------------------------------------------------------
(* Folds over sets whose elements are taken in an order of their own.      *)

\* g folds f over the subsets of S, the element c chooses last.
Takes(g, f, c, base, S) ==
    g = [s \in SUBSET S |-> IF s = {} THEN base ELSE f[<<g[s \ {c[s]}], c[s]>>]]

Chooses(c, S) == \A s \in SUBSET S : s # {} => c[s] \in s

\* Two such functions agree where both are defined.
LEMMA TakesUnique ==
    ASSUME NEW S, IsFiniteSet(S), NEW T, S \in SUBSET T, NEW c, Chooses(c, T), NEW f, NEW base,
           NEW g, NEW h, Takes(g, f, c, base, S), Takes(h, f, c, base, T)
    PROVE  g[S] = h[S]
<1> DEFINE G == {U \in SUBSET S : g[U] = h[U]}
<1>1. ASSUME NEW U \in SUBSET S, \A V \in SUBSET U : V # U => V \in G
      PROVE  U \in G
  <2>1. CASE U = {}
    BY <2>1, Zenon DEF Takes
  <2>2. CASE U # {}
    <3> DEFINE m == c[U]
               W == U \ {m}
    <3>1. m \in U
      BY <2>2, Zenon DEF Chooses
    <3>2. g[W] = h[W]
      BY <1>1, <3>1, Zenon
    <3>3. g[U] = f[<<g[W], m>>] /\ h[U] = f[<<h[W], m>>]
      BY <2>2, Zenon DEF Takes
    <3>. QED
      BY <3>2, <3>3, Zenon
  <2>. QED
    BY <2>1, <2>2
<1>2. S \in G
  <2> HIDE DEF G
  <2>. QED
    BY <1>1, SubsetInduction, Zenon
<1>. QED
  BY <1>2

\* Over a finite set there is one.
LEMMA TakesExist ==
    ASSUME NEW S, IsFiniteSet(S), NEW c, Chooses(c, S), NEW f, NEW base
    PROVE  \E g : Takes(g, f, c, base, S)
<1> DEFINE G == {U \in SUBSET S : \E g : Takes(g, f, c, base, U)}
           F(V) == CHOOSE g : Takes(g, f, c, base, V)
<1>1. ASSUME NEW U \in SUBSET S, \A V \in SUBSET U : V # U => V \in G
      PROVE  U \in G
  <2>1. \A V \in SUBSET U : V # U => Takes(F(V), f, c, base, V)
    BY <1>1, Zenon
  <2> HIDE DEF F
  <2> DEFINE g == [V \in SUBSET U |->
                      IF V = {} THEN base
                      ELSE IF V # U THEN F(V)[V]
                      ELSE f[<<F(U \ {c[U]})[U \ {c[U]}], c[U]>>]]
             h == [s \in SUBSET U |-> IF s = {} THEN base ELSE f[<<g[s \ {c[s]}], c[s]>>]]
  <2>2. \A V \in SUBSET U : V # U => g[V] = F(V)[V]
    <3> SUFFICES ASSUME NEW V \in SUBSET U, V # U PROVE g[V] = F(V)[V]
      BY Zenon
    <3>1. CASE V = {}
      BY <2>1, <3>1, Zenon DEF Takes
    <3>. QED
      BY <3>1, Zenon
  <2>3. \A V \in SUBSET U : V # {} => g[V] = f[<<g[V \ {c[V]}], c[V]>>]
    <3> SUFFICES ASSUME NEW V \in SUBSET U, V # {} PROVE g[V] = f[<<g[V \ {c[V]}], c[V]>>]
      BY Zenon
    <3> DEFINE W == V \ {c[V]}
    <3>1. c[V] \in V
      BY Zenon DEF Chooses
    <3>2. W \in SUBSET U /\ W # U /\ W # V /\ W \subseteq V
      BY <3>1, Zenon
    <3>3. g[W] = F(W)[W]
      BY <2>2, <3>2, Zenon
    <3>4. CASE V = U
      <4>1. g[U] = f[<<F(W)[W], c[U]>>]
        BY <3>4, Zenon
      <4>. QED
        BY <3>3, <3>4, <4>1, Zenon
    <3>5. CASE V # U
      <4>1. g[V] = F(V)[V]
        BY <2>2, <3>5, Zenon
      <4>2. Takes(F(V), f, c, base, V) /\ Takes(F(W), f, c, base, W)
        BY <2>1, <3>2, <3>5, Zenon
      <4>3. F(V)[V] = f[<<F(V)[W], c[V]>>]
        BY <4>2, Zenon DEF Takes
      <4>4. IsFiniteSet(W) /\ W \in SUBSET V /\ Chooses(c, V)
        BY <3>2, FiniteSubset, Zenon DEF Chooses
      <4>5. F(V)[W] = F(W)[W]
        <5> HIDE DEF W
        <5>. QED
          BY <4>2, <4>4, TakesUnique, SMT
      <4>. QED
        BY <3>3, <4>1, <4>3, <4>5, Zenon
    <3>. QED
      BY <3>4, <3>5, Zenon
  <2>4. \A V \in SUBSET U : g[V] = h[V]
    <3>1. g[{}] = base
      BY Zenon
    <3>. QED
      BY <2>3, <3>1, Zenon
  <2>5. g = [V \in SUBSET U |-> g[V]] /\ h = [V \in SUBSET U |-> h[V]]
    BY Zenon
  <2>6. g = h
    <3> HIDE DEF g, h
    <3>. QED
      BY <2>4, <2>5, Zenon
  <2>7. Takes(g, f, c, base, U)
    <3> HIDE DEF g
    <3>. QED
      BY <2>6, Zenon DEF Takes
  <2>. QED
    BY <2>7, Zenon
<1>2. S \in G
  <2> HIDE DEF G
  <2>. QED
    BY <1>1, SubsetInduction, Zenon
<1>. QED
  BY <1>2

=============================================================================
