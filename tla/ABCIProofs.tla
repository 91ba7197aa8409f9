----------------------------- MODULE ABCIProofs -----------------------------
(***************************************************************************)
(* The application behind ABCI and its state store, for any accounts,      *)
(* transactions, blocks and number of crashes.                             *)
(*                                                                         *)
(* AppInv says where the working states stand: between blocks they rest on *)
(* the committed data and the check state has every sequence number used;  *)
(* from FinalizeBlock to Commit the deliver state is what the block makes  *)
(* of them, and the announced hash is its.  The committed data are those of*)
(* the decided blocks up to the committed height.  StoreInv adds the store:*)
(* what waits, what is applied and what the log holds are changes between  *)
(* the decided states of two heights, in order and none missing.           *)
(***************************************************************************)
EXTENDS StateStore, FoldProofs

\* One more element after a prefix of a sequence.
LEMMA PrefixGrows ==
    ASSUME NEW S, NEW s \in Seq(S), NEW n \in Nat, Len(s) = n + 1, NEW b, s[n + 1] = b
    PROVE  /\ SubSeq(s, 1, n) \in Seq(S)
           /\ SubSeq(s, 1, n + 1) = Append(SubSeq(s, 1, n), b)
OBVIOUS

-----------------------------------------------------------------------------
(* The greatest of a set of numbers.                                       *)

\* A finite set of integers has a greatest.
LEMMA MaxIn ==
    ASSUME NEW S, IsFiniteSet(S), S # {}, S \subseteq Int
    PROVE  Max(S) \in S /\ \A y \in S : Max(S) >= y
  BY HasGreatest, Zenon DEF Max

\* The elements up to a number.
UpTo(D, v) == {w \in D : w <= v}

\* The number itself is the greatest of them if it is one.
Climbs(D, v) ==
    /\ UpTo(D, 0) = {}
    /\ v + 1 \in D => UpTo(D, v + 1) # {} /\ Max(UpTo(D, v + 1)) = v + 1
    /\ v + 1 \notin D => UpTo(D, v + 1) = UpTo(D, v)

\* So it is in any set of numbers from one to a bound.
LEMMA MaxBelow ==
    ASSUME NEW N \in Nat, NEW D \in SUBSET (1..N), NEW v \in Nat
    PROVE  Climbs(D, v)
<1> DEFINE T == {w \in D : w <= v + 1}
<1>0. /\ \A w \in 1..N : w \in Int /\ ~(w <= 0) /\ (w # v + 1 => (w <= v + 1 <=> w <= v))
      /\ v + 1 <= v + 1
  OBVIOUS
<1>1. {w \in D : w <= 0} = {}
  BY <1>0, Zenon
<1>2. ASSUME v + 1 \notin D PROVE T = {w \in D : w <= v}
  BY <1>0, <1>2, Zenon
<1>3. ASSUME v + 1 \in D PROVE T # {} /\ Max(T) = v + 1
  <2>1. T \subseteq 1..N /\ v + 1 \in T /\ \A w \in T : w <= v + 1
    BY <1>0, <1>3, Zenon
  <2> HIDE DEF T
  <2>2. IsFiniteSet(T)
    <3>1. IsFiniteSet(1..N)
      BY FiniteInterval
    <3> QED
      BY <2>1, <3>1, FiniteSubset, Zenon
  <2>3. T # {} /\ T \subseteq Int
    BY <1>0, <2>1, Zenon
  <2>4. Max(T) \in T /\ \A y \in T : Max(T) >= y
    BY <2>2, <2>3, MaxIn, Zenon
  <2> DEFINE m == Max(T)
  <2>5. m \in Int /\ m <= v + 1 /\ m >= v + 1
    BY <2>1, <2>3, <2>4, Zenon
  <2> HIDE DEF m
  <2>6. m = v + 1
    BY <2>5
  <2> QED
    BY <2>3, <2>6, Zenon DEF m
<1> QED
  BY <1>1, <1>2, <1>3, Zenon DEF UpTo, Climbs

\* So n is the greatest of the numbers up to n.
LEMMA MaxUpTo ==
    ASSUME NEW n \in Nat, n # 0
    PROVE  Max(1..n) = n /\ (1..n) \ {n} = 1..(n - 1)
<1>1. Max(1..n) \in 1..n /\ \A y \in 1..n : Max(1..n) >= y
  <2>1. IsFiniteSet(1..n) /\ n \in 1..n
    BY FiniteInterval
  <2>2. 1..n # {} /\ 1..n \subseteq Int
    BY <2>1
  <2>. QED
    BY <2>1, <2>2, MaxIn, Zenon
<1> DEFINE m == Max(1..n)
<1>2. m \in 1..n /\ m >= n
  BY <1>1
<1> HIDE DEF m
<1>3. m = n
  BY <1>2
<1>. QED
  BY <1>3 DEF m

-----------------------------------------------------------------------------
(* Folds over sequences.                                                   *)

\* g folds f over the subsets of S, the greatest element last.
Steps(g, f, base, S) ==
    g = [s \in SUBSET S |-> IF s = {} THEN base ELSE f[<<g[s \ {Max(s)}], Max(s)>>]]

\* Sets of which every subset but the empty one has a greatest element.
FiniteInts == {S \in SUBSET Int : IsFiniteSet(S)}

\* Two such functions agree where both are defined.
LEMMA StepsUnique ==
    ASSUME NEW S \in FiniteInts, NEW T, S \in SUBSET T, NEW f, NEW base, NEW g, NEW h,
           Steps(g, f, base, S), Steps(h, f, base, T)
    PROVE  g[S] = h[S]
<1> DEFINE G == {U \in SUBSET S : g[U] = h[U]}
<1>1. ASSUME NEW U \in SUBSET S, \A V \in SUBSET U : V # U => V \in G
      PROVE  U \in G
  <2>1. CASE U = {}
    BY <2>1, Zenon DEF Steps
  <2>2. CASE U # {}
    <3> DEFINE m == Max(U)
               W == U \ {m}
    <3>1. m \in U
      <4>1. IsFiniteSet(U) /\ U \subseteq Int
        BY FiniteSubset, Zenon DEF FiniteInts
      <4>. QED
        BY <2>2, <4>1, MaxIn, Zenon
    <3>2. g[W] = h[W]
      BY <1>1, <3>1, Zenon
    <3>3. g[U] = f[<<g[W], m>>] /\ h[U] = f[<<h[W], m>>]
      BY <2>2, Zenon DEF Steps
    <3>. QED
      BY <3>2, <3>3, Zenon
  <2>. QED
    BY <2>1, <2>2
<1>2. S \in G
  <2> HIDE DEF G
  <2>. QED
    BY <1>1, SubsetInduction, Zenon DEF FiniteInts
<1>. QED
  BY <1>2

\* Over a finite set there is one.
LEMMA StepsExist ==
    ASSUME NEW S \in FiniteInts, NEW f, NEW base
    PROVE  \E g : Steps(g, f, base, S)
<1> DEFINE G == {U \in SUBSET S : \E g : Steps(g, f, base, U)}
           F(V) == CHOOSE g : Steps(g, f, base, V)
<1>1. ASSUME NEW U \in SUBSET S, \A V \in SUBSET U : V # U => V \in G
      PROVE  U \in G
  <2>1. \A V \in SUBSET U : V # U => Steps(F(V), f, base, V)
    BY <1>1, Zenon
  <2> HIDE DEF F
  <2> DEFINE g == [V \in SUBSET U |->
                      IF V = {} THEN base
                      ELSE IF V # U THEN F(V)[V]
                      ELSE f[<<F(U \ {Max(U)})[U \ {Max(U)}], Max(U)>>]]
             h == [s \in SUBSET U |-> IF s = {} THEN base ELSE f[<<g[s \ {Max(s)}], Max(s)>>]]
  <2>2. \A V \in SUBSET U : V # U => g[V] = F(V)[V]
    <3> SUFFICES ASSUME NEW V \in SUBSET U, V # U PROVE g[V] = F(V)[V]
      BY Zenon
    <3>1. CASE V = {}
      BY <2>1, <3>1, Zenon DEF Steps
    <3>. QED
      BY <3>1, Zenon
  <2>3. \A V \in SUBSET U : V # {} => g[V] = f[<<g[V \ {Max(V)}], Max(V)>>]
    <3> SUFFICES ASSUME NEW V \in SUBSET U, V # {} PROVE g[V] = f[<<g[V \ {Max(V)}], Max(V)>>]
      BY Zenon
    <3> DEFINE W == V \ {Max(V)}
    <3>1. Max(V) \in V
      <4>1. IsFiniteSet(V) /\ V \subseteq Int
        BY FiniteSubset, Zenon DEF FiniteInts
      <4>. QED
        BY <4>1, MaxIn, Zenon
    <3>2. W \in SUBSET U /\ W # U /\ W # V /\ W \subseteq V
      BY <3>1, Zenon
    <3>3. g[W] = F(W)[W]
      BY <2>2, <3>2, Zenon
    <3>4. CASE V = U
      <4>1. g[U] = f[<<F(W)[W], Max(U)>>]
        BY <3>4, Zenon
      <4>. QED
        BY <3>3, <3>4, <4>1, Zenon
    <3>5. CASE V # U
      <4>1. g[V] = F(V)[V]
        BY <2>2, <3>5, Zenon
      <4>2. Steps(F(V), f, base, V) /\ Steps(F(W), f, base, W)
        BY <2>1, <3>2, <3>5, Zenon
      <4>3. F(V)[V] = f[<<F(V)[W], Max(V)>>]
        BY <4>2, Zenon DEF Steps
      <4>4. W \in FiniteInts /\ W \in SUBSET V
        BY <3>2, FiniteSubset, Zenon DEF FiniteInts
      <4>5. F(V)[W] = F(W)[W]
        <5> HIDE DEF W
        <5>. QED
          BY <4>2, <4>4, StepsUnique, SMT
      <4>. QED
        BY <3>3, <4>1, <4>3, <4>5, Zenon
    <3>. QED
      BY <3>4, <3>5, Zenon
  <2>4. \A V \in SUBSET U : g[V] = h[V]
    <3>1. g[{}] = base
      BY Zenon
    <3>. QED
      BY <2>3, <3>1, Zenon
  <2>5. g = [V \in SUBSET U |-> g[V]] /\ h = [V \in SUBSET U |-> h[V]]
    BY Zenon
  <2>6. g = h
    <3> HIDE DEF g, h
    <3>. QED
      BY <2>4, <2>5, Zenon
  <2>7. Steps(g, f, base, U)
    <3> HIDE DEF g
    <3>. QED
      BY <2>6, Zenon DEF Steps
  <2>. QED
    BY <2>7, Zenon
<1>2. S \in G
  <2> HIDE DEF G
  <2>. QED
    BY <1>1, SubsetInduction, Zenon DEF FiniteInts
<1>. QED
  BY <1>2

\* The values of g are in D; and f does not lead from one in D out of it.
Within(g, D, S) == \A U \in SUBSET S : g[U] \in D
Stays(g, f, D, S) == \A U \in SUBSET S : \A i \in S : g[U] \in D => f[<<g[U], i>>] \in D

\* A fold stays in a set that its steps do not leave.
LEMMA StepsTyped ==
    ASSUME NEW S \in FiniteInts, NEW f, NEW D, NEW base \in D, NEW g, Steps(g, f, base, S),
           Stays(g, f, D, S)
    PROVE  Within(g, D, S)
<1> DEFINE G == {U \in SUBSET S : g[U] \in D}
<1>1. ASSUME NEW T \in SUBSET S, NEW U \in SUBSET T, \A V \in SUBSET U : V # U => V \in G
      PROVE  U \in G
  <2>1. CASE U = {}
    BY <2>1, Zenon DEF Steps
  <2>2. CASE U # {}
    <3> DEFINE m == Max(U)
               W == U \ {m}
    <3>1. m \in U
      <4>1. IsFiniteSet(U) /\ U \subseteq Int
        BY FiniteSubset, Zenon DEF FiniteInts
      <4>. QED
        BY <2>2, <4>1, MaxIn, Zenon
    <3>2. g[W] \in D
      BY <1>1, <3>1, Zenon
    <3>3. g[U] = f[<<g[W], m>>]
      BY <2>2, Zenon DEF Steps
    <3>. QED
      BY <3>1, <3>2, <3>3, Zenon DEF Stays
  <2>. QED
    BY <2>1, <2>2
<1>2. ASSUME NEW T \in SUBSET S
      PROVE  T \in G
  <2>1. IsFiniteSet(T)
    BY FiniteSubset, Zenon DEF FiniteInts
  <2> HIDE DEF G
  <2>. QED
    BY <1>1, <2>1, SubsetInduction
<1>. QED
  BY <1>2, Zenon DEF Within

\* The value after n steps.
Iter(f, base, n) == (CHOOSE g : Steps(g, f, base, 1..n))[1..n]

\* It is the one of any function that folds f.
LEMMA IterIs ==
    ASSUME NEW n \in Nat, NEW f, NEW base, NEW g, Steps(g, f, base, 1..n)
    PROVE  Iter(f, base, n) = g[1..n]
<1> DEFINE h == CHOOSE x : Steps(x, f, base, 1..n)
           S == 1..n
<1>1. Steps(h, f, base, 1..n)
  BY Zenon
<1>2. S \in FiniteInts
  BY FiniteInterval DEF FiniteInts
<1> HIDE DEF h
<1>3. h[S] = g[S]
  <2> HIDE DEF S
  <2>1. Steps(h, f, base, S) /\ Steps(g, f, base, S) /\ S \in SUBSET S
    BY <1>1, Zenon DEF S
  <2>. QED
    BY <1>2, <2>1, StepsUnique, SMT
<1>. QED
  BY <1>3, Zenon DEF Iter, h

\* No step gives the base, one more applies f.
LEMMA IterSteps ==
    ASSUME NEW f, NEW base
    PROVE  /\ Iter(f, base, 0) = base
           /\ \A n \in Nat : Iter(f, base, n + 1) = f[<<Iter(f, base, n), n + 1>>]
<1>1. \A n \in Nat : \E g : Steps(g, f, base, 1..n)
  <2> SUFFICES ASSUME NEW n \in Nat PROVE \E g : Steps(g, f, base, 1..n)
    BY Zenon
  <2> DEFINE S == 1..n
  <2>1. S \in FiniteInts
    BY FiniteInterval DEF FiniteInts
  <2> HIDE DEF S
  <2>2. \E g : Steps(g, f, base, S)
    BY <2>1, StepsExist, Zenon
  <2>. QED
    BY <2>2, Zenon DEF S
<1>2. Iter(f, base, 0) = base
  <2>1. 1..0 = {}
    OBVIOUS
  <2>2. PICK g : Steps(g, f, base, 1..0)
    BY <1>1
  <2>3. g[{}] = base
    BY <2>2, Zenon DEF Steps
  <2>. QED
    BY <2>1, <2>2, <2>3, IterIs
<1>3. ASSUME NEW n \in Nat
      PROVE  Iter(f, base, n + 1) = f[<<Iter(f, base, n), n + 1>>]
  <2> DEFINE S == 1..n
             T == 1..(n + 1)
  <2>1. PICK g : Steps(g, f, base, T)
    BY <1>1
  <2>2. PICK h : Steps(h, f, base, S)
    BY <1>1
  <2>3. Iter(f, base, n + 1) = g[T] /\ Iter(f, base, n) = h[S]
    <3>1. n + 1 \in Nat
      OBVIOUS
    <3>. QED
      BY <2>1, <2>2, <3>1, IterIs, Zenon
  <2>4. S \in FiniteInts /\ S \in SUBSET T /\ T # {}
    <3>1. S \in FiniteInts
      BY FiniteInterval DEF FiniteInts
    <3>2. S \in SUBSET T /\ n + 1 \in T
      OBVIOUS
    <3>. QED
      BY <3>1, <3>2, Zenon
  <2>5. Max(T) = n + 1 /\ T \ {Max(T)} = S
    <3>1. n + 1 \in Nat /\ n + 1 # 0 /\ (n + 1) - 1 = n
      OBVIOUS
    <3>. QED
      BY <3>1, MaxUpTo, Zenon
  <2> HIDE DEF S, T
  <2>6. h[S] = g[S]
    BY <2>1, <2>2, <2>4, StepsUnique, SMT
  <2>7. g[T] = f[<<g[T \ {Max(T)}], Max(T)>>]
    BY <2>1, <2>4, Zenon DEF Steps
  <2>8. g[T] = f[<<g[S], n + 1>>]
    BY <2>5, <2>7, Zenon
  <2>. QED
    BY <2>3, <2>6, <2>8, Zenon
<1>. QED
  BY <1>2, <1>3, Zenon

\* It stays in a set that f does not leave, and depends on f there only.
LEMMA IterSame ==
    ASSUME NEW D, NEW base \in D, NEW f, NEW h, NEW n \in Nat,
           \A x \in D : \A i \in 1..n : f[<<x, i>>] \in D /\ h[<<x, i>>] = f[<<x, i>>]
    PROVE  Iter(f, base, n) \in D /\ Iter(h, base, n) = Iter(f, base, n)
<1> DEFINE P(m) == m <= n => Iter(f, base, m) \in D /\ Iter(h, base, m) = Iter(f, base, m)
           G == {m \in Nat : P(m)}
<1>1. 0 \in G
  BY IterSteps
<1>2. ASSUME NEW m \in Nat, m \in G
      PROVE  m + 1 \in G
  <2> SUFFICES ASSUME m + 1 <= n PROVE P(m + 1)
    OBVIOUS
  <2>1. m <= n /\ m + 1 \in 1..n
    OBVIOUS
  <2>2. Iter(f, base, m) \in D /\ Iter(h, base, m) = Iter(f, base, m)
    BY <1>2, <2>1
  <2>3. /\ Iter(f, base, m + 1) = f[<<Iter(f, base, m), m + 1>>]
        /\ Iter(h, base, m + 1) = h[<<Iter(h, base, m), m + 1>>]
    BY IterSteps, ZenonT(60)
  <2>. QED
    BY <2>1, <2>2, <2>3, Zenon
<1>3. n \in G
  <2> HIDE DEF G
  <2>. QED
    BY <1>1, <1>2, NatSetInduction
<1>. QED
  BY <1>3

-----------------------------------------------------------------------------
(* The data of the application.                                            *)

Data == [Accounts -> Values]
Caches == [Accounts -> Values \cup {Unset}]

\* What a cache over some data shows.
Flat(s, base) == [a \in Accounts |-> Shown(s, base, a)]

-----------------------------------------------------------------------------
(* Running transactions.                                                   *)

\* The mark of what a cache does not hold is no value.
LEMMA UnsetIsNoValue == Unset \notin Values /\ Data \subseteq Caches
<1>1. DOMAIN Unset = {"unset"} /\ \A v \in Values : DOMAIN v = {"exists", "seq", "done"}
  BY DEF Unset, Values
<1>2. Unset \notin Values
  BY <1>1
<1> QED
  BY <1>2 DEF Data, Caches

\* What is shown of an account is a value.
LEMMA ShownIsValue ==
    ASSUME NEW s \in Caches, NEW base \in Data, NEW a \in Accounts
    PROVE  Shown(s, base, a) \in Values /\ Flat(s, base) \in Data
BY DEF Shown, Caches, Data, Flat

\* The value that a transaction leaves.
After(v, tx, deliver) ==
    IF ~v.exists \/ v.seq # tx.seq THEN v
    ELSE [v EXCEPT !.seq = @ + 1, !.done = IF deliver /\ tx.ok THEN @ + 1 ELSE @]

\* It is a value, of an account that exists iff it did, and with no lower
\* sequence number.
LEMMA AfterIsValue ==
    ASSUME NEW v \in Values, NEW tx, NEW deliver \in BOOLEAN
    PROVE  /\ After(v, tx, deliver) \in Values
           /\ After(v, tx, deliver).exists = v.exists
           /\ After(v, tx, deliver).seq >= v.seq
<1>1. v.exists \in BOOLEAN /\ v.seq \in Nat /\ v.done \in Nat
  BY DEF Values
<1>2. v.seq + 1 \in Nat /\ v.done + 1 \in Nat /\ v.seq + 1 >= v.seq /\ v.seq >= v.seq
  BY <1>1
<1>3. CASE ~v.exists \/ v.seq # tx.seq
  BY <1>2, <1>3, Zenon DEF After
<1>4. CASE ~(~v.exists \/ v.seq # tx.seq)
  <2> DEFINE s == v.seq + 1
             d == IF deliver /\ tx.ok THEN v.done + 1 ELSE v.done
  <2>1. After(v, tx, deliver) = [v EXCEPT !.seq = s, !.done = d]
    BY <1>4, Zenon DEF After
  <2>2. s \in Nat /\ d \in Nat
    BY <1>1, <1>2
  <2> HIDE DEF s, d
  <2>3. /\ [v EXCEPT !.seq = s, !.done = d] \in Values
        /\ [v EXCEPT !.seq = s, !.done = d].exists = v.exists
        /\ [v EXCEPT !.seq = s, !.done = d].seq = s
    BY <2>2, Zenon DEF Values
  <2>4. s >= v.seq
    BY <1>2, Zenon DEF s
  <2> QED
    BY <2>1, <2>3, <2>4, Zenon
<1> QED
  BY <1>3, <1>4

\* A transaction changes its account's entry in the cache, to what it makes of
\* what is shown.
LEMMA RunTxIs ==
    ASSUME NEW s, NEW base, NEW tx, NEW deliver
    PROVE  RunTx(s, base, tx, deliver) = [s EXCEPT ![tx.acc] = After(Shown(s, base, tx.acc), tx, deliver)]
BY Zenon DEF RunTx, After

\* On a cache it makes a cache, which shows what it makes of the shown data.
LEMMA RunTxShows ==
    ASSUME NEW s \in Caches, NEW base \in Data, NEW tx \in Txs, NEW deliver \in BOOLEAN
    PROVE  /\ RunTx(s, base, tx, deliver) \in Caches
           /\ Flat(RunTx(s, base, tx, deliver), base)
                = RunTx(Flat(s, base), Flat(s, base), tx, deliver)
<1> DEFINE v == Shown(s, base, tx.acc)
           w == After(v, tx, deliver)
           f == Flat(s, base)
<1>1. tx.acc \in Accounts /\ v \in Values /\ w \in Values
  BY ABCIAssumption, ShownIsValue, AfterIsValue, Zenon
<1>2. RunTx(s, base, tx, deliver) = [s EXCEPT ![tx.acc] = w]
  BY RunTxIs, Zenon
<1>3. f \in Data /\ f[tx.acc] = v /\ Shown(f, f, tx.acc) = v
  BY <1>1, ShownIsValue, Zenon DEF Flat, Shown
<1>4. RunTx(f, f, tx, deliver) = [f EXCEPT ![tx.acc] = w]
  BY <1>3, RunTxIs, Zenon
<1> HIDE DEF v, w
<1>5. [s EXCEPT ![tx.acc] = w] \in Caches
  BY <1>1 DEF Caches
<1>6. \A a \in Accounts : Shown([s EXCEPT ![tx.acc] = w], base, a) = [f EXCEPT ![tx.acc] = w][a]
  <2> SUFFICES ASSUME NEW a \in Accounts
               PROVE  Shown([s EXCEPT ![tx.acc] = w], base, a) = [f EXCEPT ![tx.acc] = w][a]
    BY Zenon
  <2>1. CASE a = tx.acc
    BY <1>1, <1>3, <2>1, UnsetIsNoValue, Zenon DEF Shown, Caches, Data
  <2>2. CASE a # tx.acc
    BY <2>2, <1>1 DEF Shown, Flat, Caches, Data
  <2> QED
    BY <2>1, <2>2
<1>7. Flat([s EXCEPT ![tx.acc] = w], base) = [f EXCEPT ![tx.acc] = w]
  <2> HIDE DEF f
  <2> QED
    BY <1>3, <1>6, Zenon DEF Flat, Data
<1> QED
  BY <1>2, <1>4, <1>5, <1>7, Zenon

\* On data it makes data, whatever is below.
LEMMA RunTxOnData ==
    ASSUME NEW s \in Data, NEW base, NEW other, NEW tx \in Txs, NEW deliver \in BOOLEAN
    PROVE  /\ RunTx(s, base, tx, deliver) \in Data
           /\ RunTx(s, base, tx, deliver) = RunTx(s, other, tx, deliver)
<1>1. tx.acc \in Accounts /\ s[tx.acc] \in Values /\ s[tx.acc] # Unset
  BY ABCIAssumption, UnsetIsNoValue DEF Data
<1>2. Shown(s, base, tx.acc) = s[tx.acc] /\ Shown(s, other, tx.acc) = s[tx.acc]
  BY <1>1, Zenon DEF Shown
<1>3. After(s[tx.acc], tx, deliver) \in Values
  BY <1>1, AfterIsValue, Zenon
<1>4. RunTx(s, base, tx, deliver) = [s EXCEPT ![tx.acc] = After(s[tx.acc], tx, deliver)]
      /\ RunTx(s, other, tx, deliver) = [s EXCEPT ![tx.acc] = After(s[tx.acc], tx, deliver)]
  BY <1>2, RunTxIs, Zenon
<1> QED
  BY <1>1, <1>3, <1>4, Zenon DEF Data

-----------------------------------------------------------------------------
(* Running blocks.                                                         *)

\* A block is a sequence of transactions.
LEMMA BlockType ==
    ASSUME NEW block \in Blocks
    PROVE  /\ block \in Seq(Txs) /\ Len(block) \in Nat
           /\ DOMAIN block = 1..Len(block)
           /\ \A i \in 1..Len(block) : block[i] \in Txs
<1>1. PICK n \in 0..MaxBlockTxs : block \in [1..n -> Txs]
  BY Zenon DEF Blocks
<1>2. n \in Nat
  BY <1>1, ABCIAssumption
<1>3. block \in Seq(Txs) /\ Len(block) = n
  BY <1>1, <1>2
<1> QED
  BY <1>1, <1>2, <1>3

\* g is the function by which RunBlock is defined; and its step, as a function.
Runs(g, s, base, block) ==
    g = [u \in SUBSET (DOMAIN block) |->
            IF u = {} THEN s ELSE RunTx(g[u \ {Max(u)}], base, block[Max(u)], TRUE)]
TxStep(D, base, block) ==
    [z \in D \X (1..Len(block)) |-> RunTx(z[1], base, block[z[2]], TRUE)]

\* Transactions do not lead out of D.
Closed(D, base) == \A x \in D : \A tx \in Txs : RunTx(x, base, tx, TRUE) \in D

\* The steps are those of the block, and stay in D.
IsStep(f, D, base, block) ==
    \A x \in D : \A i \in 1..Len(block) :
        f[<<x, i>>] = RunTx(x, base, block[i], TRUE) /\ f[<<x, i>>] \in D

\* So they are, if transactions stay in D.
LEMMA TxStepIs ==
    ASSUME NEW D, NEW base, NEW block \in Blocks, Closed(D, base)
    PROVE  IsStep(TxStep(D, base, block), D, base, block)
<1> SUFFICES ASSUME NEW x \in D, NEW i \in 1..Len(block)
             PROVE  /\ TxStep(D, base, block)[<<x, i>>] = RunTx(x, base, block[i], TRUE)
                    /\ TxStep(D, base, block)[<<x, i>>] \in D
  BY Zenon DEF IsStep
<1>1. block[i] \in Txs
  BY BlockType, Zenon
<1>2. <<x, i>> \in D \X (1..Len(block)) /\ <<x, i>>[1] = x /\ <<x, i>>[2] = i
  BY Zenon
<1>3. TxStep(D, base, block)[<<x, i>>] = RunTx(x, base, block[i], TRUE)
  BY <1>2, Zenon DEF TxStep
<1> QED
  BY <1>1, <1>3, Zenon DEF Closed

\* A block is run step by step.
LEMMA RunBlockIs ==
    ASSUME NEW D, NEW s \in D, NEW base, NEW block \in Blocks, Closed(D, base)
    PROVE  RunBlock(s, base, block) = Iter(TxStep(D, base, block), s, Len(block))
<1> DEFINE n == Len(block)
           S == 1..n
           f == TxStep(D, base, block)
           k == CHOOSE g : Runs(g, s, base, block)
<1>1. n \in Nat /\ DOMAIN block = S /\ S \in FiniteInts
  BY BlockType, FiniteInterval DEF FiniteInts
<1>2. \A x \in D : \A i \in S : f[<<x, i>>] = RunTx(x, base, block[i], TRUE) /\ f[<<x, i>>] \in D
  BY TxStepIs, Zenon DEF IsStep
<1>3. \A U \in SUBSET S : U # {} => Max(U) \in S
  <2> SUFFICES ASSUME NEW U \in SUBSET S, U # {} PROVE Max(U) \in S
    BY Zenon
  <2>1. IsFiniteSet(U) /\ U \subseteq Int
    BY <1>1, FiniteSubset, Zenon DEF FiniteInts
  <2> QED
    BY <2>1, MaxIn, Zenon
<1>4. RunBlock(s, base, block) = k[S]
  BY <1>1, Zenon DEF RunBlock, MapThenFoldSet, Runs
<1> HIDE DEF n, S, f
<1>5. ASSUME NEW g, \A U \in SUBSET S : g[U] \in D
      PROVE  Steps(g, f, s, S) <=> Runs(g, s, base, block)
  <2> DEFINE A(U) == IF U = {} THEN s ELSE f[<<g[U \ {Max(U)}], Max(U)>>]
             B(U) == IF U = {} THEN s ELSE RunTx(g[U \ {Max(U)}], base, block[Max(U)], TRUE)
  <2>1. \A U \in SUBSET S : A(U) = B(U)
    <3> SUFFICES ASSUME NEW U \in SUBSET S, U # {} PROVE A(U) = B(U)
      BY Zenon
    <3>1. g[U \ {Max(U)}] \in D /\ Max(U) \in S
      BY <1>3, <1>5, Zenon
    <3> QED
      BY <1>2, <3>1, Zenon
  <2>2. [U \in SUBSET S |-> A(U)] = [U \in SUBSET S |-> B(U)]
    <3> HIDE DEF A, B
    <3> QED
      BY <2>1, Zenon
  <2> QED
    BY <1>1, <2>2, Zenon DEF Steps, Runs
<1>6. \E g : Runs(g, s, base, block)
  <2>1. PICK g : Steps(g, f, s, S)
    BY <1>1, StepsExist, Zenon
  <2>2. Stays(g, f, D, S)
    BY <1>2, Zenon DEF Stays
  <2>3. Within(g, D, S)
    BY <1>1, <2>1, <2>2, StepsTyped, Zenon
  <2> QED
    BY <1>5, <2>1, <2>3, Zenon DEF Within
<1>7. Runs(k, s, base, block)
  BY <1>6, Zenon
<1> HIDE DEF k
<1>8. \A U \in SUBSET S : k[U] \in D
  <2> DEFINE h == [z \in {k[U] : U \in SUBSET S} \X S |-> RunTx(z[1], base, block[z[2]], TRUE)]
  <2>1. \A U \in SUBSET S : \A i \in S : h[<<k[U], i>>] = RunTx(k[U], base, block[i], TRUE)
    <3> SUFFICES ASSUME NEW U \in SUBSET S, NEW i \in S
                 PROVE  h[<<k[U], i>>] = RunTx(k[U], base, block[i], TRUE)
      BY Zenon
    <3>1. <<k[U], i>> \in {k[V] : V \in SUBSET S} \X S /\ <<k[U], i>>[1] = k[U] /\ <<k[U], i>>[2] = i
      BY Zenon
    <3> QED
      BY <3>1, Zenon
  <2>2. Steps(k, h, s, S)
    <3> DEFINE A(U) == IF U = {} THEN s ELSE h[<<k[U \ {Max(U)}], Max(U)>>]
               B(U) == IF U = {} THEN s ELSE RunTx(k[U \ {Max(U)}], base, block[Max(U)], TRUE)
    <3>1. \A U \in SUBSET S : A(U) = B(U)
      <4> HIDE DEF h
      <4> SUFFICES ASSUME NEW U \in SUBSET S, U # {} PROVE A(U) = B(U)
        BY Zenon
      <4>1. U \ {Max(U)} \in SUBSET S /\ Max(U) \in S
        BY <1>3, Zenon
      <4> QED
        BY <2>1, <4>1, Zenon
    <3>2. [U \in SUBSET S |-> A(U)] = [U \in SUBSET S |-> B(U)]
      <4> HIDE DEF A, B
      <4> QED
        BY <3>1, Zenon
    <3> HIDE DEF h
    <3> QED
      BY <1>1, <1>7, <3>2, Zenon DEF Steps, Runs
  <2>3. \A i \in S : block[i] \in Txs
    BY BlockType, Zenon DEF S, n
  <2> HIDE DEF h
  <2>4. Stays(k, h, D, S)
    BY <2>1, <2>3, Zenon DEF Stays, Closed
  <2>5. Within(k, D, S)
    BY <1>1, <2>2, <2>4, StepsTyped, Zenon
  <2> QED
    BY <2>5, Zenon DEF Within
<1>9. Steps(k, f, s, S)
  BY <1>5, <1>7, <1>8, Zenon
<1>10. Iter(f, s, n) = k[S]
  BY <1>1, <1>9, IterIs, Zenon DEF S
<1> QED
  BY <1>4, <1>10, Zenon DEF f, n

\* A block that is run on a cache shows what it makes of the shown data.
LEMMA RunBlockShows ==
    ASSUME NEW s \in Caches, NEW base \in Data, NEW block \in Blocks
    PROVE  /\ RunBlock(s, base, block) \in Caches
           /\ Flat(RunBlock(s, base, block), base) = RunBlock(Flat(s, base), Flat(s, base), block)
<1> DEFINE F == Flat(s, base)
           n == Len(block)
           f == TxStep(Caches, base, block)
           h == TxStep(Data, F, block)
           P(m) == m <= n => /\ Iter(f, s, m) \in Caches /\ Iter(h, F, m) \in Data
                             /\ Flat(Iter(f, s, m), base) = Iter(h, F, m)
           G == {m \in Nat : P(m)}
<1>1. F \in Data /\ n \in Nat
  BY ABCIAssumption, ShownIsValue, BlockType
<1> HIDE DEF F, n
<1>2. Closed(Caches, base) /\ Closed(Data, F)
  BY RunTxShows, RunTxOnData, Zenon DEF Closed
<1>3. RunBlock(s, base, block) = Iter(f, s, n) /\ RunBlock(F, F, block) = Iter(h, F, n)
  BY <1>1, <1>2, RunBlockIs, Zenon DEF n
<1>4. \A i \in 1..n : /\ block[i] \in Txs
                      /\ \A x \in Caches : f[<<x, i>>] = RunTx(x, base, block[i], TRUE)
                      /\ \A x \in Data : h[<<x, i>>] = RunTx(x, F, block[i], TRUE)
  <2>1. \A i \in 1..n : block[i] \in Txs
    BY BlockType, Zenon DEF n
  <2>2. \A i \in 1..n : \A x \in Caches : f[<<x, i>>] = RunTx(x, base, block[i], TRUE)
    <3>1. IsStep(f, Caches, base, block)
      BY <1>2, TxStepIs, Zenon
    <3> QED
      BY <3>1, Zenon DEF IsStep, n
  <2>3. \A i \in 1..n : \A x \in Data : h[<<x, i>>] = RunTx(x, F, block[i], TRUE)
    <3>1. IsStep(h, Data, F, block)
      BY <1>2, TxStepIs, Zenon
    <3> QED
      BY <3>1, Zenon DEF IsStep, n
  <2> QED
    BY <2>1, <2>2, <2>3, Zenon
<1> HIDE DEF f, h
<1>5. 0 \in G
  <2>1. Iter(f, s, 0) = s /\ Iter(h, F, 0) = F
    BY IterSteps, ZenonT(60)
  <2>2. P(0)
    BY <1>1, <2>1, Zenon DEF F
  <2> QED
    BY <2>2
<1>6. ASSUME NEW m \in Nat, m \in G
      PROVE  m + 1 \in G
  <2> SUFFICES ASSUME m + 1 <= n PROVE P(m + 1)
    OBVIOUS
  <2> DEFINE x == Iter(f, s, m)
             y == Iter(h, F, m)
             tx == block[m + 1]
  <2>1. m <= n /\ m + 1 \in 1..n
    BY <1>1
  <2>2. x \in Caches /\ y \in Data /\ Flat(x, base) = y /\ tx \in Txs
    BY <1>4, <1>6, <2>1, Zenon
  <2>3. Iter(f, s, m + 1) = f[<<x, m + 1>>] /\ Iter(h, F, m + 1) = h[<<y, m + 1>>]
    BY IterSteps, ZenonT(60)
  <2> HIDE DEF x, y
  <2>4. f[<<x, m + 1>>] = RunTx(x, base, tx, TRUE) /\ h[<<y, m + 1>>] = RunTx(y, F, tx, TRUE)
    BY <1>4, <2>1, <2>2, Zenon
  <2> HIDE DEF tx
  <2>5. RunTx(x, base, tx, TRUE) \in Caches /\ Flat(RunTx(x, base, tx, TRUE), base) = RunTx(y, y, tx, TRUE)
    BY <2>2, RunTxShows, Zenon
  <2>6. RunTx(y, y, tx, TRUE) = RunTx(y, F, tx, TRUE) /\ RunTx(y, F, tx, TRUE) \in Data
    BY <2>2, RunTxOnData, Zenon
  <2> QED
    BY <2>3, <2>4, <2>5, <2>6, Zenon
<1>7. n \in G
  <2> HIDE DEF G
  <2> QED
    BY <1>1, <1>5, <1>6, NatSetInduction, Zenon
<1> QED
  BY <1>1, <1>3, <1>7 DEF F

\* Data in which every account exists.
Live == {d \in Data : \A a \in Accounts : d[a].exists}

\* A block makes of such data such data.
LEMMA RunBlockLives ==
    ASSUME NEW s \in Live, NEW block \in Blocks
    PROVE  RunBlock(s, s, block) \in Live
<1>1. ASSUME NEW x \in Live, NEW tx \in Txs
      PROVE  RunTx(x, s, tx, TRUE) \in Live
  <2> DEFINE b == tx.acc
             w == After(x[b], tx, TRUE)
  <2>1. x \in Data /\ b \in Accounts /\ x[b] \in Values /\ x[b].exists /\ x[b] # Unset
    BY ABCIAssumption, UnsetIsNoValue, Zenon DEF Live, Data
  <2>2. w \in Values /\ w.exists
    BY <2>1, AfterIsValue, Zenon
  <2>3. Shown(x, s, b) = x[b]
    BY <2>1, Zenon DEF Shown
  <2>4. RunTx(x, s, tx, TRUE) = [x EXCEPT ![b] = w]
    BY <2>3, RunTxIs, Zenon
  <2> HIDE DEF b, w
  <2>5. [x EXCEPT ![b] = w] \in Live
    BY <2>1, <2>2, Zenon DEF Live, Data
  <2> QED
    BY <2>4, <2>5, Zenon
<1> DEFINE f == TxStep(Live, s, block)
           n == Len(block)
<1>2. Closed(Live, s)
  BY <1>1, Zenon DEF Closed
<1>3. n \in Nat /\ \A x \in Live : \A i \in 1..n : f[<<x, i>>] \in Live /\ f[<<x, i>>] = f[<<x, i>>]
  <2>1. IsStep(f, Live, s, block)
    BY <1>2, TxStepIs, Zenon
  <2> QED
    BY <2>1, BlockType, Zenon DEF IsStep
<1>4. RunBlock(s, s, block) = Iter(f, s, n)
  BY <1>2, RunBlockIs, Zenon
<1> HIDE DEF f, n
<1>5. Iter(f, s, n) \in Live
  BY <1>3, IterSame
<1> QED
  BY <1>4, <1>5, Zenon

-----------------------------------------------------------------------------
(* Running the chain.                                                      *)

\* g is the function by which Outcome is defined; and its step, as a function.
ChainRuns(g, c) ==
    g = [u \in SUBSET (DOMAIN c) |->
            IF u = {} THEN Genesis ELSE RunBlock(g[u \ {Max(u)}], g[u \ {Max(u)}], c[Max(u)])]
BlockStep(c) == [z \in Live \X (1..Len(c)) |-> RunBlock(z[1], z[1], c[z[2]])]

\* A step runs the next block, and all accounts exist after it.
IsBlockStep(f, c) ==
    \A x \in Live : \A i \in 1..Len(c) : f[<<x, i>>] = RunBlock(x, x, c[i]) /\ f[<<x, i>>] \in Live

\* So it does.
LEMMA BlockStepIs == ASSUME NEW c \in Seq(Blocks) PROVE IsBlockStep(BlockStep(c), c)
<1> SUFFICES ASSUME NEW x \in Live, NEW i \in 1..Len(c)
             PROVE  BlockStep(c)[<<x, i>>] = RunBlock(x, x, c[i]) /\ BlockStep(c)[<<x, i>>] \in Live
  BY Zenon DEF IsBlockStep
<1>1. c[i] \in Blocks
  OBVIOUS
<1>2. <<x, i>> \in Live \X (1..Len(c)) /\ <<x, i>>[1] = x /\ <<x, i>>[2] = i
  BY Zenon
<1>3. BlockStep(c)[<<x, i>>] = RunBlock(x, x, c[i])
  BY <1>2, Zenon DEF BlockStep
<1> QED
  BY <1>1, <1>3, RunBlockLives, Zenon

\* The accounts of the genesis exist.
LEMMA GenesisLives == Genesis \in Live
BY DEF Genesis, Live, Data, Values

\* A chain is run block by block.
LEMMA OutcomeIs ==
    ASSUME NEW c \in Seq(Blocks)
    PROVE  Outcome(c) = Iter(BlockStep(c), Genesis, Len(c))
<1> DEFINE n == Len(c)
           S == 1..n
           f == BlockStep(c)
           k == CHOOSE g : ChainRuns(g, c)
<1>1. n \in Nat /\ DOMAIN c = S /\ S \in FiniteInts
  BY FiniteInterval DEF FiniteInts
<1>2. \A x \in Live : \A i \in S : f[<<x, i>>] = RunBlock(x, x, c[i]) /\ f[<<x, i>>] \in Live
  BY BlockStepIs, Zenon DEF IsBlockStep
<1>3. \A U \in SUBSET S : U # {} => Max(U) \in S
  <2> SUFFICES ASSUME NEW U \in SUBSET S, U # {} PROVE Max(U) \in S
    BY Zenon
  <2>1. IsFiniteSet(U) /\ U \subseteq Int
    BY <1>1, FiniteSubset, Zenon DEF FiniteInts
  <2> QED
    BY <2>1, MaxIn, Zenon
<1>4. Outcome(c) = k[S]
  BY <1>1, Zenon DEF Outcome, MapThenFoldSet, ChainRuns
<1>5. \A i \in S : c[i] \in Blocks
  OBVIOUS
<1> HIDE DEF n, S, f
<1>6. ASSUME NEW g, \A U \in SUBSET S : g[U] \in Live
      PROVE  Steps(g, f, Genesis, S) <=> ChainRuns(g, c)
  <2> DEFINE A(U) == IF U = {} THEN Genesis ELSE f[<<g[U \ {Max(U)}], Max(U)>>]
             B(U) == IF U = {} THEN Genesis ELSE RunBlock(g[U \ {Max(U)}], g[U \ {Max(U)}], c[Max(U)])
  <2>1. \A U \in SUBSET S : A(U) = B(U)
    <3> SUFFICES ASSUME NEW U \in SUBSET S, U # {} PROVE A(U) = B(U)
      BY Zenon
    <3>1. g[U \ {Max(U)}] \in Live /\ Max(U) \in S
      BY <1>3, <1>6, Zenon
    <3> QED
      BY <1>2, <3>1, Zenon
  <2>2. [U \in SUBSET S |-> A(U)] = [U \in SUBSET S |-> B(U)]
    <3> HIDE DEF A, B
    <3> QED
      BY <2>1, Zenon
  <2> QED
    BY <1>1, <2>2, Zenon DEF Steps, ChainRuns
<1>7. \E g : ChainRuns(g, c)
  <2>1. PICK g : Steps(g, f, Genesis, S)
    BY <1>1, StepsExist, Zenon
  <2>2. Stays(g, f, Live, S)
    BY <1>2, Zenon DEF Stays
  <2>3. Within(g, Live, S)
    BY <1>1, <2>1, <2>2, GenesisLives, StepsTyped, Zenon
  <2> QED
    BY <1>6, <2>1, <2>3, Zenon DEF Within
<1>8. ChainRuns(k, c)
  BY <1>7, Zenon
<1> HIDE DEF k
<1>9. \A U \in SUBSET S : k[U] \in Live
  <2> DEFINE h == [z \in {k[U] : U \in SUBSET S} \X S |-> RunBlock(z[1], z[1], c[z[2]])]
  <2>1. \A U \in SUBSET S : \A i \in S : h[<<k[U], i>>] = RunBlock(k[U], k[U], c[i])
    <3> SUFFICES ASSUME NEW U \in SUBSET S, NEW i \in S
                 PROVE  h[<<k[U], i>>] = RunBlock(k[U], k[U], c[i])
      BY Zenon
    <3>1. <<k[U], i>> \in {k[V] : V \in SUBSET S} \X S /\ <<k[U], i>>[1] = k[U] /\ <<k[U], i>>[2] = i
      BY Zenon
    <3> QED
      BY <3>1, Zenon
  <2>2. Steps(k, h, Genesis, S)
    <3> DEFINE A(U) == IF U = {} THEN Genesis ELSE h[<<k[U \ {Max(U)}], Max(U)>>]
               B(U) == IF U = {} THEN Genesis ELSE RunBlock(k[U \ {Max(U)}], k[U \ {Max(U)}], c[Max(U)])
    <3>1. \A U \in SUBSET S : A(U) = B(U)
      <4> HIDE DEF h
      <4> SUFFICES ASSUME NEW U \in SUBSET S, U # {} PROVE A(U) = B(U)
        BY Zenon
      <4>1. U \ {Max(U)} \in SUBSET S /\ Max(U) \in S
        BY <1>3, Zenon
      <4> QED
        BY <2>1, <4>1, Zenon
    <3>2. [U \in SUBSET S |-> A(U)] = [U \in SUBSET S |-> B(U)]
      <4> HIDE DEF A, B
      <4> QED
        BY <3>1, Zenon
    <3> HIDE DEF h
    <3> QED
      BY <1>1, <1>8, <3>2, Zenon DEF Steps, ChainRuns
  <2> HIDE DEF h
  <2>3. Stays(k, h, Live, S)
    BY <1>5, <2>1, RunBlockLives, Zenon DEF Stays
  <2>4. Within(k, Live, S)
    BY <1>1, <2>2, <2>3, GenesisLives, StepsTyped, Zenon
  <2> QED
    BY <2>4, Zenon DEF Within
<1>10. Steps(k, f, Genesis, S)
  BY <1>6, <1>8, <1>9, Zenon
<1>11. Iter(f, Genesis, n) = k[S]
  BY <1>1, <1>10, IterIs, Zenon DEF S
<1> QED
  BY <1>4, <1>11, Zenon DEF f, n

\* The empty chain leaves the genesis, one block more is run on the outcome.
LEMMA OutcomeNext ==
    ASSUME NEW c \in Seq(Blocks)
    PROVE  /\ Outcome(c) \in Live
           /\ c = <<>> => Outcome(c) = Genesis
           /\ \A block \in Blocks : Outcome(Append(c, block)) = RunBlock(Outcome(c), Outcome(c), block)
<1> DEFINE n == Len(c)
           f == BlockStep(c)
<1>1. n \in Nat /\ (c = <<>> => n = 0)
  OBVIOUS
<1>2. Outcome(c) = Iter(f, Genesis, n)
  BY OutcomeIs, Zenon
<1>3. IsBlockStep(f, c)
  BY BlockStepIs, Zenon
<1>4. Iter(f, Genesis, n) \in Live
  <2>1. \A x \in Live : \A i \in 1..n : f[<<x, i>>] \in Live /\ f[<<x, i>>] = f[<<x, i>>]
    BY <1>3, Zenon DEF IsBlockStep
  <2> HIDE DEF f, n
  <2> QED
    BY <1>1, <2>1, GenesisLives, IterSame
<1>5. c = <<>> => Outcome(c) = Genesis
  BY <1>1, <1>2, IterSteps, Zenon
<1>6. ASSUME NEW block \in Blocks
      PROVE  Outcome(Append(c, block)) = RunBlock(Outcome(c), Outcome(c), block)
  <2> DEFINE d == Append(c, block)
             h == BlockStep(d)
             x == Iter(f, Genesis, n)
  <2>1. d \in Seq(Blocks) /\ Len(d) = n + 1 /\ d[n + 1] = block /\ n + 1 \in 1..(n + 1)
        /\ \A i \in 1..n : i \in 1..(n + 1) /\ d[i] = c[i]
    OBVIOUS
  <2> HIDE DEF d
  <2>2. Outcome(d) = Iter(h, Genesis, n + 1) /\ IsBlockStep(h, d)
    BY <2>1, OutcomeIs, BlockStepIs, Zenon
  <2>3. \A y \in Live : \A i \in 1..n : f[<<y, i>>] \in Live /\ h[<<y, i>>] = f[<<y, i>>]
    <3> HIDE DEF f, h
    <3> SUFFICES ASSUME NEW y \in Live, NEW i \in 1..n
                 PROVE  f[<<y, i>>] \in Live /\ h[<<y, i>>] = f[<<y, i>>]
      BY Zenon
    <3>1. i \in 1..Len(d) /\ d[i] = c[i]
      BY <2>1, Zenon
    <3>2. h[<<y, i>>] = RunBlock(y, y, d[i])
      BY <2>2, <3>1, Zenon DEF IsBlockStep
    <3>3. f[<<y, i>>] = RunBlock(y, y, c[i]) /\ f[<<y, i>>] \in Live
      BY <1>3, Zenon DEF IsBlockStep
    <3> QED
      BY <3>1, <3>2, <3>3, Zenon
  <2>4. Iter(h, Genesis, n + 1) = h[<<Iter(h, Genesis, n), n + 1>>]
    BY <1>1, IterSteps, Zenon
  <2> HIDE DEF f, h, n
  <2>5. Iter(h, Genesis, n) = x
    BY <1>1, <2>3, GenesisLives, IterSame
  <2>6. x \in Live
    BY <1>4, Zenon
  <2> HIDE DEF x
  <2>7. h[<<x, n + 1>>] = RunBlock(x, x, block)
    BY <2>1, <2>2, <2>6, Zenon DEF IsBlockStep
  <2> QED
    BY <1>2, <2>2, <2>4, <2>5, <2>7, Zenon DEF x, d
<1> QED
  BY <1>2, <1>4, <1>5, <1>6, Zenon

-----------------------------------------------------------------------------
(* The handlers.                                                           *)

\* Types; there always is a check state, and consensus is at most one block
\* ahead.
AppType ==
    /\ committed \in [height : Nat, data : Data] /\ working \in Data
    /\ state \in [Modes -> Caches \cup {Nil}] /\ state["check"] \in Caches
    /\ inited \in BOOLEAN
    /\ chain \in Seq(Blocks) /\ Len(chain) <= MaxHeight
    /\ committed.height <= Len(chain) /\ Len(chain) <= committed.height + 1

\* Between blocks the working set is the committed one, and only the first
\* block finds a deliver state.
Resting ==
    /\ working = committed.data
    /\ inited /\ committed.height = 0 => state["deliver"] = Genesis /\ toCommit = "deliver"
    /\ ~(inited /\ committed.height = 0) => state["deliver"] = Nil /\ toCommit = "none"

\* After FinalizeBlock it has the decided block, and nothing is left to write.
Finalized ==
    /\ Len(chain) = committed.height + 1
    /\ working = Decided(committed.height + 1) /\ announced = <<working>>
    /\ state["deliver"] = Fresh /\ toCommit = "deliver" /\ inited

\* The check state has counted every sequence number at least as far.
CheckKeepsUp ==
    \A a \in Accounts :
        committed.data[a].exists /\ state["check"][a] # Unset => state["check"][a].seq >= committed.data[a].seq

\* The inductive invariant.
AppInv ==
    /\ AppType
    /\ announced = NoHash => Resting /\ CheckKeepsUp
    /\ announced # NoHash => Finalized
    /\ committed.height = 0 => committed.data = NoData
    /\ committed.height > 0 => committed.data = Decided(committed.height) /\ inited

\* Decided, block by block.
LEMMA DecidedNext ==
    ASSUME chain \in Seq(Blocks)
    PROVE  /\ \A h \in 0..Len(chain) : Decided(h) \in Live
           /\ Decided(0) = Genesis
           /\ \A h \in Nat : h < Len(chain) => Decided(h + 1) = RunBlock(Decided(h), Decided(h), chain[h + 1])
<1>1. \A h : Decided(h) = Outcome(SubSeq(chain, 1, h))
  BY Zenon DEF Decided
<1>2. \A h \in 0..Len(chain) : SubSeq(chain, 1, h) \in Seq(Blocks)
  OBVIOUS
<1>3. SubSeq(chain, 1, 0) = <<>> /\ <<>> \in Seq(Blocks)
  OBVIOUS
<1>4. ASSUME NEW h \in Nat, h < Len(chain)
      PROVE  /\ chain[h + 1] \in Blocks /\ h \in 0..Len(chain)
             /\ SubSeq(chain, 1, h + 1) = Append(SubSeq(chain, 1, h), chain[h + 1])
  BY <1>4
<1>5. ASSUME NEW h \in Nat, h < Len(chain)
      PROVE  Decided(h + 1) = RunBlock(Decided(h), Decided(h), chain[h + 1])
  BY <1>1, <1>2, <1>4, <1>5, OutcomeNext, Zenon
<1>6. Decided(0) = Genesis
  BY <1>1, <1>3, OutcomeNext, ZenonT(60)
<1>7. \A h \in 0..Len(chain) : Decided(h) \in Live
  BY <1>1, <1>2, OutcomeNext, Zenon
<1> QED
  BY <1>5, <1>6, <1>7, Zenon

\* What has been decided stays when a block more is.
LEMMA DecidedStays ==
    ASSUME chain \in Seq(Blocks), NEW block \in Blocks, chain' = Append(chain, block)
    PROVE  \A h \in 0..Len(chain) : Decided(h)' = Decided(h)
<1>1. \A h \in 0..Len(chain) : SubSeq(chain', 1, h) = SubSeq(chain, 1, h)
  OBVIOUS
<1>2. \A h : Decided(h) = Outcome(SubSeq(chain, 1, h)) /\ Decided(h)' = Outcome(SubSeq(chain', 1, h))
  BY Zenon DEF Decided
<1> QED
  BY <1>1, <1>2, Zenon

\* What a new branch, the genesis and no state are.
LEMMA States ==
    /\ Fresh \in Caches /\ Genesis \in Caches /\ NoData \in Data
    /\ Nil \notin Caches
    /\ \A d \in Data : Flat(Fresh, d) = d /\ Flat(Genesis, d) = Genesis
<1>1. Fresh \in Caches /\ Genesis \in Data /\ NoData \in Data
  BY DEF Fresh, Genesis, NoData, Absent, Caches, Data, Values
<1>2. Nil \notin Caches
  <2>1. DOMAIN Nil = {}
    BY DEF Nil
  <2>2. \A s \in Caches : DOMAIN s = Accounts
    BY DEF Caches
  <2> QED
    BY <2>1, <2>2, ABCIAssumption
<1>3. ASSUME NEW d \in Data
      PROVE  Flat(Fresh, d) = d
  BY DEF Flat, Fresh, Shown, Data
<1>4. ASSUME NEW d \in Data
      PROVE  Flat(Genesis, d) = Genesis
  <2>1. \A a \in Accounts : Genesis[a] # Unset
    BY <1>1, UnsetIsNoValue DEF Data
  <2>2. Genesis = [a \in Accounts |-> Genesis[a]]
    BY <1>1 DEF Data
  <2> QED
    BY <2>1, <2>2, Zenon DEF Flat, Shown
<1> QED
  BY <1>1, <1>2, <1>3, <1>4, UnsetIsNoValue, Zenon

\* The first state satisfies the invariant.
LEMMA AppInit == ASSUME Init PROVE AppInv
<1>1. /\ committed.height = 0 /\ committed.data = NoData /\ committed \in [height : Nat, data : Data]
      /\ working = NoData /\ toCommit = "none" /\ inited = FALSE /\ announced = NoHash /\ chain = <<>>
  BY States, Zenon DEF Init
<1>2. state \in [Modes -> Caches \cup {Nil}] /\ state["check"] = Fresh /\ state["deliver"] = Nil
  BY States, Zenon DEF Init, Modes
<1>3. chain \in Seq(Blocks) /\ Len(chain) = 0
  BY <1>1
<1>4. AppType
  <2>1. 0 <= 0 /\ 0 <= 0 + 1 /\ 0 <= MaxHeight
    BY ABCIAssumption
  <2> QED
    BY <1>1, <1>2, <1>3, <2>1, States, Zenon DEF AppType
<1>5. CheckKeepsUp
  <2>1. \A a \in Accounts : ~NoData[a].exists
    BY DEF NoData, Absent
  <2> QED
    BY <1>1, <2>1, Zenon DEF CheckKeepsUp
<1>6. Resting /\ ~(committed.height > 0)
  BY <1>1, <1>2 DEF Resting
<1> QED
  BY <1>1, <1>4, <1>5, <1>6, Zenon DEF AppInv

\* InitChain keeps the invariant.
LEMMA InitChainStep == ASSUME AppInv, InitChain PROVE AppInv'
<1>1. /\ ~inited /\ committed.height = 0 /\ inited' = TRUE /\ toCommit' = "deliver"
      /\ state' = [m \in Modes |-> IF m = "check" THEN Fresh ELSE Genesis]
      /\ UNCHANGED <<committed, working, announced, chain, crashes>>
  BY Zenon DEF InitChain
<1>2. state' \in [Modes -> Caches \cup {Nil}] /\ state'["check"] = Fresh /\ state'["deliver"] = Genesis
  BY <1>1, States, Zenon DEF Modes
<1>3. announced = NoHash
  BY <1>1, Zenon DEF AppInv, Finalized
<1>4. AppType'
  BY <1>1, <1>2, States, Zenon DEF AppInv, AppType
<1>5. Resting'
  BY <1>1, <1>2, <1>3, Zenon DEF AppInv, Resting
<1>6. CheckKeepsUp'
  BY <1>2, Zenon DEF CheckKeepsUp, Fresh
<1>7. \A h : Decided(h)' = Decided(h)
  BY <1>1, Zenon DEF Decided
<1> QED
  BY <1>1, <1>3, <1>4, <1>5, <1>6, <1>7, Zenon DEF AppInv

\* A state that is not the one to deliver may change, the check state too if
\* it keeps up.
LEMMA OtherStates ==
    ASSUME AppInv, NEW m \in Modes \ {"deliver"}, NEW s \in Caches,
           state' = [state EXCEPT ![m] = s],
           UNCHANGED <<committed, working, toCommit, inited, announced, chain, crashes>>,
           announced = NoHash => CheckKeepsUp'
    PROVE  AppInv'
<1>1. /\ state' \in [Modes -> Caches \cup {Nil}] /\ state'["deliver"] = state["deliver"]
      /\ state'["check"] \in Caches
  BY Zenon DEF AppInv, AppType, Modes
<1>2. AppType'
  BY <1>1, Zenon DEF AppInv, AppType
<1>3. \A h : Decided(h)' = Decided(h)
  BY Zenon DEF Decided
<1>4. (Resting => Resting') /\ (Finalized => Finalized')
  BY <1>1, <1>3, Zenon DEF Resting, Finalized
<1> QED
  BY <1>2, <1>3, <1>4, Zenon DEF AppInv

\* CheckTx keeps it: a sequence number only grows.
LEMMA CheckTxStep == ASSUME AppInv, NEW tx \in Txs, CheckTx(tx) PROVE AppInv'
<1> DEFINE c == state["check"]
           b == tx.acc
           v == Shown(c, working, b)
           w == After(v, tx, FALSE)
<1>1. c \in Caches /\ working \in Data /\ committed.data \in Data /\ b \in Accounts
  BY ABCIAssumption, Zenon DEF AppInv, AppType
<1>2. v \in Values /\ w \in Values /\ w.seq >= v.seq
  BY <1>1, ShownIsValue, AfterIsValue, Zenon
<1>3. /\ state' = [state EXCEPT !["check"] = [c EXCEPT ![b] = w]]
      /\ UNCHANGED <<committed, working, toCommit, inited, announced, chain, crashes>>
  BY RunTxIs, Zenon DEF CheckTx
<1>4. [c EXCEPT ![b] = w] \in Caches /\ state'["check"] = [c EXCEPT ![b] = w]
  <2>1. "check" \in Modes /\ state \in [Modes -> Caches \cup {Nil}]
    BY Zenon DEF Modes, AppInv, AppType
  <2> HIDE DEF c, w
  <2> QED
    BY <1>1, <1>2, <1>3, <2>1, Zenon DEF Caches
<1>5. ASSUME announced = NoHash
      PROVE  CheckKeepsUp'
  <2>1. working = committed.data /\ CheckKeepsUp
    BY <1>5, Zenon DEF AppInv, Resting
  <2> SUFFICES ASSUME NEW a \in Accounts, committed.data[a].exists, [c EXCEPT ![b] = w][a] # Unset
               PROVE  [c EXCEPT ![b] = w][a].seq >= committed.data[a].seq
    BY <1>3, <1>4, Zenon DEF CheckKeepsUp
  <2>2. CASE a # b
    <3>1. [c EXCEPT ![b] = w][a] = c[a]
      BY <1>1, <2>2, Zenon DEF Caches
    <3> QED
      BY <2>1, <3>1, Zenon DEF CheckKeepsUp
  <2>3. CASE a = b
    <3>1. [c EXCEPT ![b] = w][a] = w
      BY <1>1, <2>3, Zenon DEF Caches
    <3>2. committed.data[a] \in Values /\ committed.data[a].seq \in Nat
      BY <1>1 DEF Data, Values
    <3>3. v.seq >= committed.data[a].seq
      <4>1. CASE c[b] = Unset
        <5>1. v = committed.data[a]
          BY <2>1, <2>3, <4>1, Zenon DEF Shown
        <5> QED
          BY <3>2, <5>1
      <4>2. CASE c[b] # Unset
        BY <2>1, <2>3, <4>2, Zenon DEF Shown, CheckKeepsUp
      <4> QED
        BY <4>1, <4>2, Zenon
    <3>4. v.seq \in Nat /\ w.seq \in Nat
      BY <1>2, Zenon DEF Values
    <3> HIDE DEF v, w
    <3>5. w.seq >= committed.data[a].seq
      BY <1>2, <3>2, <3>3, <3>4
    <3> QED
      BY <3>1, <3>5, Zenon
  <2> QED
    BY <2>2, <2>3, Zenon
<1> HIDE DEF c, b, w
<1>6. "check" \in Modes \ {"deliver"}
  BY DEF Modes
<1> QED
  BY <1>3, <1>4, <1>5, <1>6, OtherStates, Zenon

\* The proposals keep it.
LEMMA ProposalStep ==
    ASSUME AppInv, NEW m \in {"prepare", "process"}, NEW block \in Blocks, NEW runs \in BOOLEAN,
           Proposal(m, block, runs)
    PROVE  AppInv'
<1> DEFINE s == IF state[m] = Nil THEN Fresh ELSE state[m]
           x == IF runs THEN RunBlock(s, working, block) ELSE s
<1>1. m \in Modes \ {"deliver"} /\ m \in Modes /\ m # "check"
  BY DEF Modes
<1>2. s \in Caches /\ working \in Data
  BY <1>1, States, Zenon DEF AppInv, AppType
<1>3. x \in Caches
  BY <1>2, RunBlockShows, Zenon
<1>4. /\ state' = [state EXCEPT ![m] = x]
      /\ UNCHANGED <<committed, working, toCommit, inited, announced, chain, crashes>>
  BY Zenon DEF Proposal
<1> HIDE DEF s, x
<1>5. announced = NoHash => CheckKeepsUp'
  <2>1. state'["check"] = state["check"]
    BY <1>1, <1>4, Zenon DEF AppInv, AppType, Modes
  <2> QED
    BY <1>4, <2>1, Zenon DEF AppInv, CheckKeepsUp
<1> QED
  BY <1>1, <1>3, <1>4, <1>5, OtherStates, Zenon

\* What the node runs a decided block on shows the blocks before it.
LEMMA FinalizeIs ==
    ASSUME AppInv, inited, announced = NoHash, NEW block \in Blocks
    PROVE  LET s == IF state["deliver"] = Nil THEN Fresh ELSE state["deliver"]
               d == Decided(committed.height)
           IN Written(RunBlock(s, working, block)) = RunBlock(d, d, block)
<1> DEFINE s == IF state["deliver"] = Nil THEN Fresh ELSE state["deliver"]
           d == Decided(committed.height)
<1>1. Resting /\ AppType
  BY Zenon DEF AppInv
<1>2. working \in Data /\ committed.height \in Nat /\ chain \in Seq(Blocks)
  BY <1>1, Zenon DEF AppType
<1>3. s \in Caches /\ Flat(s, working) = d
  <2>1. CASE committed.height = 0
    <3>1. state["deliver"] = Genesis /\ Genesis # Nil
      BY <1>1, <2>1, States, Zenon DEF Resting
    <3>2. d = Genesis
      BY <1>2, <2>1, DecidedNext, Zenon
    <3> QED
      BY <1>2, <3>1, <3>2, States, Zenon
  <2>2. CASE committed.height # 0
    <3>1. state["deliver"] = Nil /\ working = committed.data
      BY <1>1, <2>2, Zenon DEF Resting
    <3>2. committed.height > 0
      BY <1>2, <2>2
    <3>3. working = d
      BY <3>1, <3>2, Zenon DEF AppInv
    <3> QED
      BY <1>2, <3>1, <3>3, States, Zenon
  <2> QED
    BY <2>1, <2>2
<1> HIDE DEF s, d
<1>4. Flat(RunBlock(s, working, block), working) = RunBlock(Flat(s, working), Flat(s, working), block)
  BY <1>2, <1>3, RunBlockShows, Zenon
<1>5. \A x : Written(x) = Flat(x, working)
  BY Zenon DEF Written, Flat
<1>6. Written(RunBlock(s, working, block)) = RunBlock(d, d, block)
  BY <1>3, <1>4, <1>5, Zenon
<1> QED
  BY <1>6, Zenon DEF s, d

\* FinalizeBlock makes the next decided state, and what was decided stays.
LEMMA FinalizeEffect ==
    ASSUME AppInv, NEW block \in Blocks, FinalizeBlock(block)
    PROVE  /\ inited /\ announced = NoHash
           /\ chain' \in Seq(Blocks) /\ Len(chain') = committed.height + 1 /\ Len(chain') <= MaxHeight
           /\ \A h \in 0..Len(chain) : Decided(h)' = Decided(h)
           /\ working' = Decided(committed.height + 1)' /\ working' \in Live
<1> DEFINE s == IF state["deliver"] = Nil THEN Fresh ELSE state["deliver"]
           d == Decided(committed.height)
           n == committed.height
           more == Len(chain) > n
<1>1. /\ inited /\ announced = NoHash /\ working' = Written(RunBlock(s, working, block))
      /\ more => block = chain[n + 1] /\ chain' = chain
      /\ ~more => n < MaxHeight /\ chain' = Append(chain, block)
  BY Zenon DEF FinalizeBlock
<1>2. /\ chain \in Seq(Blocks) /\ n \in Nat /\ n <= Len(chain) /\ Len(chain) <= n + 1
      /\ Len(chain) <= MaxHeight /\ MaxHeight \in Nat
  BY ABCIAssumption, Zenon DEF AppInv, AppType
<1>3. working' = RunBlock(d, d, block)
  BY <1>1, FinalizeIs, Zenon
<1>4. /\ chain' \in Seq(Blocks) /\ Len(chain') = n + 1 /\ Len(chain') <= MaxHeight
      /\ chain'[n + 1] = block
  <2> HIDE DEF n, s
  <2>1. CASE more
    <3>1. block = chain[n + 1] /\ chain' = chain
      BY <1>1, <2>1, Zenon
    <3> QED
      BY <1>2, <2>1, <3>1
  <2>2. CASE ~more
    <3>1. n < MaxHeight /\ chain' = Append(chain, block)
      BY <1>1, <2>2, Zenon
    <3> QED
      BY <1>2, <2>2, <3>1
  <2> QED
    BY <2>1, <2>2, Zenon
<1>5. \A h \in 0..Len(chain) : Decided(h)' = Decided(h)
  <2>1. CASE more
    BY <1>1, <2>1, Zenon DEF Decided
  <2>2. CASE ~more
    BY <1>1, <1>2, <2>2, DecidedStays, Zenon
  <2> QED
    BY <2>1, <2>2, Zenon
<1>6. /\ SubSeq(chain', 1, n) \in Seq(Blocks)
      /\ SubSeq(chain', 1, n + 1) = Append(SubSeq(chain', 1, n), block)
      /\ n \in 0..Len(chain)
  <2> HIDE DEF n
  <2>1. n \in 0..Len(chain)
    BY <1>2
  <2> QED
    BY <1>2, <1>4, <2>1, PrefixGrows, Zenon
<1>7. Decided(n + 1)' = RunBlock(Decided(n)', Decided(n)', block) /\ Decided(n)' \in Live
  <2>1. Decided(n)' = Outcome(SubSeq(chain', 1, n)) /\ Decided(n + 1)' = Outcome(SubSeq(chain', 1, n + 1))
    <3>1. n' = n
      BY Zenon DEF FinalizeBlock
    <3> QED
      BY <3>1, Zenon DEF Decided
  <2> HIDE DEF n
  <2> QED
    BY <1>6, <2>1, OutcomeNext, Zenon
<1>8. Decided(n)' = d
  <2>1. n' = n
    BY Zenon DEF FinalizeBlock
  <2> QED
    BY <1>5, <1>6, <2>1, Zenon DEF Decided
<1>9. working' = Decided(n + 1)' /\ working' \in Live
  BY <1>3, <1>7, <1>8, RunBlockLives, Zenon
<1> QED
  BY <1>1, <1>4, <1>5, <1>9, Zenon

\* FinalizeBlock keeps the invariant.
LEMMA FinalizeStep == ASSUME AppInv, NEW block \in Blocks, FinalizeBlock(block) PROVE AppInv'
<1>1. /\ state' = [state EXCEPT !["deliver"] = Fresh] /\ toCommit' = "deliver"
      /\ announced' = <<working'>> /\ committed' = committed /\ inited' = inited
  BY Zenon DEF FinalizeBlock
<1>2. /\ inited /\ announced = NoHash
      /\ chain' \in Seq(Blocks) /\ Len(chain') = committed.height + 1 /\ Len(chain') <= MaxHeight
      /\ \A h \in 0..Len(chain) : Decided(h)' = Decided(h)
      /\ working' = Decided(committed.height + 1)' /\ working' \in Live
  BY FinalizeEffect, Zenon
<1>3. /\ state' \in [Modes -> Caches \cup {Nil}] /\ state'["check"] = state["check"]
      /\ state'["deliver"] = Fresh
  BY <1>1, States, Zenon DEF AppInv, AppType, Modes
<1>4. committed.height \in 0..Len(chain) /\ committed.height <= committed.height + 1
      /\ committed.height + 1 <= committed.height + 1
  <2>1. committed.height \in Nat /\ chain \in Seq(Blocks) /\ committed.height <= Len(chain)
    BY Zenon DEF AppInv, AppType
  <2> QED
    BY <2>1
<1>5. AppType'
  BY <1>1, <1>2, <1>3, <1>4, Zenon DEF AppInv, AppType, Live
<1>6. Finalized'
  <2>1. committed'.height + 1 = committed.height + 1
    BY <1>1, Zenon
  <2> QED
    BY <1>1, <1>2, <1>3, <2>1, Zenon DEF Finalized
<1>7. announced' # NoHash
  BY <1>1 DEF NoHash
<1>8. Decided(committed.height)' = Decided(committed.height)
  BY <1>1, <1>2, <1>4, Zenon DEF Decided
<1> QED
  BY <1>1, <1>5, <1>6, <1>7, <1>8, Zenon DEF AppInv

\* Commit finds nothing to write that is not written, and commits the block.
LEMMA CommitEffect ==
    ASSUME AppInv, Commit
    PROVE  /\ announced = <<working>> /\ working' = working /\ committed'.data = working
           /\ committed'.height = committed.height + 1 /\ committed' \in [height : Nat, data : Data]
           /\ Len(chain) = committed.height + 1 /\ working = Decided(committed.height + 1)
<1>1. announced # NoHash /\ working' = Written(state[toCommit])
      /\ committed' = [height |-> committed.height + 1, data |-> working']
  BY Zenon DEF Commit
<1>2. Finalized /\ working \in Data /\ committed.height \in Nat
  BY <1>1, Zenon DEF AppInv, AppType
<1>3. working' = working
  <2>1. \A x : Written(x) = Flat(x, working)
    BY Zenon DEF Written, Flat
  <2>2. state[toCommit] = Fresh
    BY <1>2, Zenon DEF Finalized
  <2> QED
    BY <1>1, <1>2, <2>1, <2>2, States, Zenon
<1>4. committed.height + 1 \in Nat
  BY <1>2
<1> QED
  BY <1>1, <1>2, <1>3, <1>4, Zenon DEF Finalized

\* The states of a node after a commit or a start.
LEMMA NewStates ==
    ASSUME state' = [m \in Modes |-> IF m = "check" THEN Fresh ELSE Nil]
    PROVE  /\ state' \in [Modes -> Caches \cup {Nil}] /\ state'["check"] = Fresh /\ state'["deliver"] = Nil
           /\ CheckKeepsUp'
<1>1. state' \in [Modes -> Caches \cup {Nil}] /\ state'["check"] = Fresh /\ state'["deliver"] = Nil
  BY States, Zenon DEF Modes
<1>2. CheckKeepsUp'
  BY <1>1, Zenon DEF CheckKeepsUp, Fresh
<1> QED
  BY <1>1, <1>2, Zenon

\* Commit keeps the invariant.
LEMMA CommitStep == ASSUME AppInv, Commit PROVE AppInv'
<1>1. /\ state' = [m \in Modes |-> IF m = "check" THEN Fresh ELSE Nil]
      /\ toCommit' = "none" /\ announced' = NoHash /\ inited' = inited /\ chain' = chain
  BY Zenon DEF Commit
<1>2. /\ announced = <<working>> /\ working' = working /\ committed'.data = working
      /\ committed'.height = committed.height + 1 /\ committed' \in [height : Nat, data : Data]
      /\ Len(chain) = committed.height + 1 /\ working = Decided(committed.height + 1)
  BY CommitEffect, Zenon
<1>3. /\ state' \in [Modes -> Caches \cup {Nil}] /\ state'["check"] = Fresh /\ state'["deliver"] = Nil
      /\ CheckKeepsUp'
  BY <1>1, NewStates, Zenon
<1>4. committed.height + 1 <= Len(chain) /\ Len(chain) <= committed.height + 1 + 1 /\ committed.height + 1 # 0
  <2>1. committed.height \in Nat
    BY Zenon DEF AppInv, AppType
  <2> QED
    BY <1>2, <2>1
<1>5. AppType'
  BY <1>1, <1>2, <1>3, <1>4, States, Zenon DEF AppInv, AppType
<1>6. Resting'
  BY <1>1, <1>2, <1>3, <1>4, Zenon DEF Resting
<1>7. Decided(committed.height)' = Decided(committed.height + 1)
  BY <1>1, <1>2, Zenon DEF Decided
<1>8. inited
  BY Zenon DEF Commit, AppInv, Finalized
<1> QED
  BY <1>1, <1>2, <1>3, <1>4, <1>5, <1>6, <1>7, <1>8, Zenon DEF AppInv

\* A crash and a start keep it.
LEMMA RestartStep == ASSUME AppInv, Restart PROVE AppInv'
<1>1. /\ state' = [m \in Modes |-> IF m = "check" THEN Fresh ELSE Nil]
      /\ toCommit' = "none" /\ announced' = NoHash /\ inited' = (committed.height > 0)
      /\ chain' = chain /\ committed' = committed /\ working' = committed.data
  BY Zenon DEF Restart
<1>2. /\ state' \in [Modes -> Caches \cup {Nil}] /\ state'["check"] = Fresh /\ state'["deliver"] = Nil
      /\ CheckKeepsUp'
  BY <1>1, NewStates, Zenon
<1>3. committed.height \in Nat /\ committed.data \in Data
  BY Zenon DEF AppInv, AppType
<1>4. inited' \in BOOLEAN /\ ~(inited' /\ committed.height = 0)
  <2>1. ~(committed.height > 0 /\ committed.height = 0)
    BY <1>3
  <2>2. (committed.height > 0) \in BOOLEAN
    BY <1>3
  <2> QED
    BY <1>1, <2>1, <2>2, Zenon
<1>5. AppType'
  BY <1>1, <1>2, <1>3, <1>4, States, Zenon DEF AppInv, AppType
<1>6. Resting'
  BY <1>1, <1>2, <1>4, Zenon DEF Resting
<1>7. \A h : Decided(h)' = Decided(h)
  BY <1>1, Zenon DEF Decided
<1> QED
  BY <1>1, <1>2, <1>5, <1>6, <1>7, Zenon DEF AppInv

\* The invariant is inductive.
LEMMA AppNext == ASSUME AppInv, [Next]_vars PROVE AppInv'
<1>1. CASE InitChain
  BY <1>1, InitChainStep, Zenon
<1>2. ASSUME NEW tx \in Txs, CheckTx(tx) PROVE AppInv'
  BY <1>2, CheckTxStep, Zenon
<1>3. ASSUME NEW m \in {"prepare", "process"}, NEW block \in Blocks, NEW runs \in BOOLEAN,
             Proposal(m, block, runs)
      PROVE  AppInv'
  BY <1>3, ProposalStep, Zenon
<1>4. CASE Finalize
  BY <1>4, FinalizeStep, Zenon DEF Finalize
<1>5. CASE Commit
  BY <1>5, CommitStep, Zenon
<1>6. CASE Restart
  BY <1>6, RestartStep, Zenon
<1>7. CASE UNCHANGED vars
  <2>1. UNCHANGED <<committed, working, state, toCommit, inited, announced, chain>>
    BY <1>7, Zenon DEF vars
  <2>2. \A h : Decided(h)' = Decided(h)
    BY <2>1, Zenon DEF Decided
  <2>3. AppType' = AppType /\ Resting' = Resting /\ Finalized' = Finalized /\ CheckKeepsUp' = CheckKeepsUp
    BY <2>1, <2>2, Zenon DEF AppType, Resting, Finalized, CheckKeepsUp
  <2> QED
    BY <2>1, <2>2, <2>3, Zenon DEF AppInv
<1> QED
  BY <1>1, <1>2, <1>3, <1>4, <1>5, <1>6, <1>7, Zenon DEF Next

-----------------------------------------------------------------------------
(* What the application promises consensus and the mempool.                *)

\* What the invariant says of the properties.
LEMMA AppInvGives == ASSUME AppInv PROVE TypeOK /\ CommittedIsDecided /\ CheckIsNotBehind
<1>1. TypeOK
  <2>1. \A m \in Modes : state[m] = Nil \/ state[m] \in [Accounts -> Values \cup {Unset}]
    BY Zenon DEF AppInv, AppType, Caches
  <2>2. toCommit \in {"none", "process", "deliver"} /\ (toCommit # "none" => state[toCommit] # Nil)
    BY States, Zenon DEF AppInv, Resting, Finalized
  <2> QED
    BY <2>1, <2>2, Zenon DEF AppInv, AppType, TypeOK, Data
<1>2. CommittedIsDecided
  BY Zenon DEF AppInv, CommittedIsDecided
<1>3. ASSUME announced = NoHash, NEW a \in Accounts, committed.data[a].exists
      PROVE  Shown(state["check"], working, a).seq >= committed.data[a].seq
  <2>1. committed.data \in Data /\ working = committed.data /\ CheckKeepsUp
    BY <1>3, Zenon DEF AppInv, AppType, Resting
  <2>2. CASE state["check"][a] = Unset
    <3>1. committed.data[a].seq >= committed.data[a].seq
      BY <2>1 DEF Data, Values
    <3> QED
      BY <2>1, <2>2, <3>1, Zenon DEF Shown
  <2>3. CASE state["check"][a] # Unset
    BY <1>3, <2>1, <2>3, Zenon DEF Shown, CheckKeepsUp
  <2> QED
    BY <2>2, <2>3, Zenon
<1> QED
  BY <1>1, <1>2, <1>3, Zenon DEF CheckIsNotBehind

\* The application commits the decided blocks, each run once and in order on the
\* genesis: what was checked and proposed, how often the node crashed and which
\* blocks were replayed makes no difference.
THEOREM CommitsTheChain == Spec => []CommittedIsDecided
<1>1. Init => AppInv
  BY AppInit
<1>2. AppInv /\ [Next]_vars => AppInv'
  BY AppNext
<1>3. AppInv => CommittedIsDecided
  BY AppInvGives
<1> QED
  BY <1>1, <1>2, <1>3, PTL DEF Spec

\* Between blocks CheckTx has counted every sequence number that a committed
\* transaction has used.
THEOREM UsedSequencesAreKnown == Spec => []CheckIsNotBehind
<1>1. Init => AppInv
  BY AppInit
<1>2. AppInv /\ [Next]_vars => AppInv'
  BY AppNext
<1>3. AppInv => CheckIsNotBehind
  BY AppInvGives
<1> QED
  BY <1>1, <1>2, <1>3, PTL DEF Spec

\* Commit stores the state whose hash FinalizeBlock has answered with.
THEOREM HashesAreHonoured == Spec => CommitsWhatWasAnnounced
<1>1. Init => AppInv
  BY AppInit
<1>2. AppInv /\ [Next]_vars => AppInv'
  BY AppNext
<1>3. AppInv /\ [Next]_vars => [committed' # committed => <<committed'.data>> = announced]_vars
  <2> SUFFICES ASSUME AppInv, [Next]_vars, committed' # committed
               PROVE  <<committed'.data>> = announced
    BY Zenon
  <2>1. Commit
    BY Zenon DEF Next, vars, InitChain, CheckTx, Proposal, Finalize, FinalizeBlock, Restart
  <2> QED
    BY <2>1, CommitEffect, Zenon
<1> QED
  BY <1>1, <1>2, <1>3, PTL DEF Spec, CommitsWhatWasAnnounced

-----------------------------------------------------------------------------
(* The state store: the inductive invariant.                               *)

Writes == UNION {[S -> Values] : S \in SUBSET Accounts}
Batches == [version : Nat, writes : Writes]
Histories == UNION {[S -> Values] : S \in SUBSET (1..MaxHeight)}

\* The data of a version, and the last version that was flushed.
At(v) == IF v = 0 THEN NoData ELSE Decided(v)
Top == IF announced = NoHash THEN committed.height ELSE committed.height + 1

\* Types; the queue is bounded.
StoreType ==
    /\ pending \in Seq(Batches) /\ Len(pending) <= Capacity
    /\ inHand \in Batches
    /\ history \in [Accounts -> Histories]
    /\ log \in Seq(Writes)
    /\ refused \in BOOLEAN

\* A batch in the queue has all changes of its version, and the versions do not
\* go down.
Queued ==
    \A i \in DOMAIN pending :
        /\ pending[i].version \in 1..Top /\ pending[i].writes # NoWrites
        /\ pending[i].writes = Changes(At(pending[i].version - 1), At(pending[i].version))
        /\ \A j \in DOMAIN pending : i <= j => pending[i].version <= pending[j].version

\* What is being applied is what is left of such a batch.
Applied ==
    inHand # Nothing =>
        /\ inHand.version \in 1..Top
        /\ \A a \in DOMAIN inHand.writes : inHand.writes[a] = At(inHand.version)[a]
        /\ \A i \in DOMAIN pending : inHand.version <= pending[i].version

\* The state store has values of the decided chain, and is not ahead of what it
\* has still to apply.
Stored ==
    \A a \in Accounts : \A v \in DOMAIN history[a] :
        /\ v <= Len(chain) /\ history[a][v] = At(v)[a]
        /\ \A i \in DOMAIN pending : v <= pending[i].version
        /\ inHand # Nothing => v <= inHand.version

\* The log has the changes of every committed version.
Logged ==
    /\ Len(log) = committed.height
    /\ \A v \in 1..committed.height : log[v] = Changes(At(v - 1), At(v))

\* Every change up to the last flush is in the state store or waits.
Kept(a, v) ==
    \/ v \in DOMAIN history[a]
    \/ v = inHand.version /\ a \in DOMAIN inHand.writes
    \/ \E i \in DOMAIN pending : v = pending[i].version

Complete == ~refused => \A a \in Accounts : \A v \in 1..Top : At(v - 1)[a] # At(v)[a] => Kept(a, v)

StoreInv == AppInv /\ StoreType /\ Queued /\ Applied /\ Stored /\ Logged /\ Complete

\* The sets of writes and of histories.
LEMMA WritesAre ==
    /\ \A w \in Writes : DOMAIN w \in SUBSET Accounts /\ w \in [DOMAIN w -> Values]
    /\ \A S \in SUBSET Accounts : \A w \in [S -> Values] : w \in Writes
    /\ \A h \in Histories : DOMAIN h \in SUBSET (1..MaxHeight) /\ h \in [DOMAIN h -> Values]
    /\ \A S \in SUBSET (1..MaxHeight) : \A h \in [S -> Values] : h \in Histories
<1>1. ASSUME NEW w \in Writes PROVE DOMAIN w \in SUBSET Accounts /\ w \in [DOMAIN w -> Values]
  <2>1. PICK S \in SUBSET Accounts : w \in [S -> Values]
    BY Zenon DEF Writes
  <2> QED
    BY <2>1
<1>2. ASSUME NEW h \in Histories PROVE DOMAIN h \in SUBSET (1..MaxHeight) /\ h \in [DOMAIN h -> Values]
  <2>1. PICK S \in SUBSET (1..MaxHeight) : h \in [S -> Values]
    BY Zenon DEF Histories
  <2> QED
    BY <2>1, Zenon
<1>3. \A S \in SUBSET Accounts : \A w \in [S -> Values] : w \in Writes
  BY Zenon DEF Writes
<1>4. \A S \in SUBSET (1..MaxHeight) : \A h \in [S -> Values] : h \in Histories
  BY Zenon DEF Histories
<1> QED
  BY <1>1, <1>2, <1>3, <1>4, Zenon

\* No writes, and no batch.
LEMMA NothingIs ==
    /\ DOMAIN NoWrites = {} /\ NoWrites \in Writes /\ \A w \in Writes : DOMAIN w = {} => w = NoWrites
    /\ Nothing \in Batches /\ Nothing.version = 0 /\ Nothing.writes = NoWrites
<1>1. DOMAIN NoWrites = {} /\ NoWrites \in [{} -> Values]
  BY DEF NoWrites
<1>2. NoWrites \in Writes
  BY <1>1, WritesAre, Zenon
<1>3. ASSUME NEW w \in Writes, DOMAIN w = {} PROVE w = NoWrites
  <2>1. w \in [{} -> Values]
    BY <1>3, WritesAre, Zenon
  <2> QED
    BY <1>1, <2>1
<1>4. Nothing.version = 0 /\ Nothing.writes = NoWrites
  BY DEF Nothing
<1>5. Nothing \in Batches
  BY <1>2, Zenon DEF Nothing, Batches
<1> QED
  BY <1>1, <1>2, <1>3, <1>4, <1>5, Zenon

\* The changes from one state to another.
LEMMA ChangesAre ==
    ASSUME NEW old, NEW new \in Data
    PROVE  /\ Changes(old, new) \in Writes
           /\ \A a \in Accounts : a \in DOMAIN Changes(old, new) <=> old[a] # new[a]
           /\ \A a \in DOMAIN Changes(old, new) : a \in Accounts /\ Changes(old, new)[a] = new[a]
           /\ Changes(old, new) = NoWrites <=> \A a \in Accounts : old[a] = new[a]
<1> DEFINE S == {b \in Accounts : old[b] # new[b]}
           w == Changes(old, new)
<1>1. DOMAIN w = S /\ \A a \in S : w[a] = new[a]
  BY Zenon DEF Changes
<1>2. w \in [S -> Values] /\ S \in SUBSET Accounts
  <2>1. \A a \in S : new[a] \in Values
    BY Zenon DEF Data
  <2> QED
    BY <2>1, Zenon DEF Changes
<1>3. w \in Writes
  BY <1>2, WritesAre, Zenon
<1>4. w = NoWrites <=> S = {}
  BY <1>1, <1>3, NothingIs, Zenon
<1> QED
  BY <1>1, <1>3, <1>4, Zenon

\* The data of the versions.
LEMMA VersionsAre ==
    ASSUME AppInv
    PROVE  /\ committed.height \in Nat /\ Len(chain) \in Nat /\ Len(chain) <= MaxHeight /\ MaxHeight \in Nat
           /\ Top \in Nat /\ Top <= Len(chain) /\ committed.height <= Top
           /\ \A v \in 0..Len(chain) : At(v) \in Data
           /\ At(0) = NoData /\ \A v \in Nat : v > 0 => At(v) = Decided(v)
           /\ working = At(Top) /\ committed.data = At(committed.height)
<1>1. /\ committed.height \in Nat /\ chain \in Seq(Blocks) /\ committed.height <= Len(chain)
      /\ Len(chain) <= MaxHeight /\ MaxHeight \in Nat
  BY ABCIAssumption, Zenon DEF AppInv, AppType
<1>2. announced # NoHash => Len(chain) = committed.height + 1 /\ working = Decided(committed.height + 1)
  BY Zenon DEF AppInv, Finalized
<1>3. Len(chain) \in Nat /\ Top \in Nat /\ Top <= Len(chain) /\ committed.height <= Top
  BY <1>1, <1>2 DEF Top
<1>4. \A v \in 0..Len(chain) : At(v) \in Data
  BY <1>1, DecidedNext, States, Zenon DEF At, Live
<1>5. At(0) = NoData
  BY Zenon DEF At
<1>6. \A v \in Nat : v > 0 => v # 0
  OBVIOUS
<1>7. \A v \in Nat : v > 0 => At(v) = Decided(v)
  BY <1>6, Zenon DEF At
<1>8. committed.data = At(committed.height)
  <2>1. CASE committed.height = 0
    BY <1>5, <2>1, Zenon DEF AppInv
  <2>2. CASE committed.height # 0
    <3>1. committed.height > 0
      BY <1>1, <2>2
    <3> QED
      BY <1>1, <1>7, <3>1, Zenon DEF AppInv
  <2> QED
    BY <2>1, <2>2, Zenon
<1>9. working = At(Top)
  <2>1. CASE announced = NoHash
    BY <1>8, <2>1, Zenon DEF AppInv, Resting, Top
  <2>2. CASE announced # NoHash
    <3>1. committed.height + 1 \in Nat /\ committed.height + 1 > 0
      BY <1>1
    <3> QED
      BY <1>2, <1>7, <2>2, <3>1, Zenon DEF Top
  <2> QED
    BY <2>1, <2>2, Zenon
<1> QED
  BY <1>1, <1>3, <1>4, <1>5, <1>7, <1>8, <1>9, Zenon

\* At the start.
LEMMA StoreInit == ASSUME NodeInit PROVE StoreInv
<1>1. /\ Init /\ pending = <<>> /\ inHand = Nothing /\ log = <<>> /\ refused = FALSE
      /\ history = [a \in Accounts |-> [v \in {} |-> Absent]]
  BY Zenon DEF NodeInit
<1>2. AppInv /\ committed.height = 0 /\ announced = NoHash /\ Top = 0
  BY <1>1, AppInit, Zenon DEF Init, Top
<1>3. \A a \in Accounts : DOMAIN history[a] = {} /\ history[a] \in [{} -> Values]
  BY <1>1, Zenon
<1>4. \A a \in Accounts : history[a] \in Histories
  <2>1. {} \in SUBSET (1..MaxHeight)
    BY Zenon
  <2> QED
    BY <1>3, <2>1, WritesAre, Zenon
<1>5. pending \in Seq(Batches) /\ Len(pending) <= Capacity /\ DOMAIN pending = {} /\ log \in Seq(Writes)
      /\ Len(log) = 0 /\ 1..0 = {}
  BY <1>1, StateStoreAssumption
<1>6. StoreType
  <2>1. history \in [Accounts -> Histories]
    BY <1>1, <1>4, Zenon
  <2> QED
    BY <1>1, <1>5, <2>1, NothingIs, Zenon DEF StoreType
<1>7. Queued /\ Applied /\ Stored /\ Logged /\ Complete
  BY <1>1, <1>2, <1>3, <1>5, Zenon DEF Queued, Applied, Stored, Logged, Complete
<1> QED
  BY <1>2, <1>6, <1>7, Zenon DEF StoreInv

\* A step that leaves the store, the chain and what is committed and announced.
LEMMA StoreRests ==
    ASSUME StoreInv, AppInv', UNCHANGED storeVars, UNCHANGED <<committed, announced, chain>>
    PROVE  StoreInv'
<1>1. UNCHANGED <<pending, inHand, history, log, refused>>
  BY Zenon DEF storeVars
<1>2. \A v : At(v)' = At(v)
  BY Zenon DEF At, Decided
<1>3. Top' = Top
  BY Zenon DEF Top
<1>4. Complete'
  BY <1>1, <1>2, <1>3, Zenon DEF StoreInv, Complete, Kept
<1>5. StoreType' /\ Applied' /\ Stored' /\ Logged'
  BY <1>1, <1>2, <1>3, Zenon DEF StoreInv, StoreType, Applied, Stored, Logged
<1>6. Queued'
  BY <1>1, <1>2, <1>3, Zenon DEF StoreInv, Queued
<1> QED
  BY <1>4, <1>5, <1>6, Zenon DEF StoreInv

\* A flush of changes adds a batch, one without changes leaves the queue.
LEMMA FlushIs ==
    ASSUME pending \in Seq(Batches), Len(pending) <= Capacity, working' \in Data, committed.height \in Nat,
           Flush
    PROVE  LET cs == Changes(working, working')
               e == [version |-> committed.height + 1, writes |-> cs]
           IN /\ pending' \in Seq(Batches) /\ Len(pending') <= Capacity
              /\ \A i \in DOMAIN pending : i \in DOMAIN pending' /\ pending'[i] = pending[i]
              /\ \A i \in DOMAIN pending' :
                     \/ i \in DOMAIN pending /\ pending'[i] = pending[i]
                     \/ cs # NoWrites /\ pending'[i] = e /\ i = Len(pending) + 1
              /\ cs # NoWrites => \E i \in DOMAIN pending' : pending'[i] = e
<1> DEFINE cs == Changes(working, working')
           e == [version |-> committed.height + 1, writes |-> cs]
<1>1. cs \in Writes
  BY ChangesAre, Zenon
<1>2. e \in Batches
  <2>1. committed.height + 1 \in Nat
    OBVIOUS
  <2> QED
    BY <1>1, <2>1, Zenon DEF Batches
<1>3. /\ cs = NoWrites => pending' = pending
      /\ cs # NoWrites => Len(pending) < Capacity /\ pending' = Append(pending, e)
  BY Zenon DEF Flush
<1>4. Len(pending) \in Nat /\ Capacity \in Nat
  BY StateStoreAssumption
<1> HIDE DEF cs, e
<1>5. CASE cs = NoWrites
  BY <1>3, <1>5, Zenon DEF e, cs
<1>6. CASE cs # NoWrites
  <2>1. pending' = Append(pending, e) /\ Len(pending) < Capacity
    BY <1>3, <1>6, Zenon
  <2>2. /\ pending' \in Seq(Batches) /\ Len(pending') <= Capacity
        /\ \A i \in DOMAIN pending : i \in DOMAIN pending' /\ pending'[i] = pending[i]
        /\ \A i \in DOMAIN pending' :
               \/ i \in DOMAIN pending /\ pending'[i] = pending[i]
               \/ pending'[i] = e /\ i = Len(pending) + 1
        /\ Len(pending) + 1 \in DOMAIN pending' /\ pending'[Len(pending) + 1] = e
    BY <1>2, <1>4, <2>1
  <2> QED
    BY <1>6, <2>2, Zenon DEF e, cs
<1> QED
  BY <1>5, <1>6, Zenon

\* FinalizeBlock flushes the changes of the next version.
LEMMA NodeFinalizeStep == ASSUME StoreInv, NodeFinalize PROVE StoreInv'
<1> DEFINE n == committed.height
           cs == Changes(working, working')
           e == [version |-> n + 1, writes |-> cs]
<1>1. PICK block \in Blocks : FinalizeBlock(block)
  BY Zenon DEF NodeFinalize, Finalize
<1>2. /\ AppInv /\ AppInv' /\ Flush /\ UNCHANGED <<inHand, history, log, refused>>
      /\ committed' = committed /\ announced' = <<working'>>
  BY <1>1, FinalizeStep, Zenon DEF NodeFinalize, StoreInv, FinalizeBlock
<1>3. /\ announced = NoHash
      /\ chain' \in Seq(Blocks) /\ Len(chain') = n + 1 /\ Len(chain') <= MaxHeight
      /\ \A h \in 0..Len(chain) : Decided(h)' = Decided(h)
      /\ working' = Decided(committed.height + 1)' /\ working' \in Live
  BY <1>1, <1>2, FinalizeEffect, Zenon
<1>4. /\ n \in Nat /\ Len(chain) \in Nat /\ n <= Len(chain) /\ Len(chain) <= n + 1
      /\ working = At(n) /\ Top = n
  <2>1. Top = n
    BY <1>3, Zenon DEF Top
  <2>2. Len(chain) <= n + 1 /\ n <= Len(chain)
    BY <1>2, Zenon DEF AppInv, AppType
  <2> QED
    BY <1>2, <2>1, <2>2, VersionsAre, Zenon
<1>5. Top' = n + 1
  <2>1. announced' # NoHash
    BY <1>2 DEF NoHash
  <2> QED
    BY <1>2, <2>1, Zenon DEF Top
<1>6. \A v \in 0..n : At(v)' = At(v)
  <2>1. \A v \in 0..n : v \in 0..Len(chain)
    BY <1>4
  <2> QED
    BY <1>3, <2>1, Zenon DEF At
<1>7. At(n + 1)' = working' /\ At(n)' = working
  <2>1. n + 1 # 0 /\ n \in 0..n /\ n' + 1 = n + 1
    BY <1>2, <1>4
  <2>2. At(n + 1)' = Decided(committed.height + 1)'
    BY <2>1, Zenon DEF At
  <2>3. At(n)' = At(n)
    BY <1>2, <1>6, <2>1, Zenon DEF At, Decided
  <2> QED
    BY <1>3, <1>4, <2>2, <2>3, Zenon
<1>8. working' \in Data /\ pending \in Seq(Batches) /\ Len(pending) <= Capacity
  BY <1>3, Zenon DEF Live, StoreInv, StoreType
<1>9. /\ pending' \in Seq(Batches) /\ Len(pending') <= Capacity
      /\ \A i \in DOMAIN pending : i \in DOMAIN pending' /\ pending'[i] = pending[i]
      /\ \A i \in DOMAIN pending' :
             \/ i \in DOMAIN pending /\ pending'[i] = pending[i]
             \/ cs # NoWrites /\ pending'[i] = e /\ i = Len(pending) + 1
      /\ cs # NoWrites => \E i \in DOMAIN pending' : pending'[i] = e
  BY <1>2, <1>4, <1>8, FlushIs, Zenon
<1>10. e.version = n + 1 /\ e.writes = cs
  BY Zenon
<1>11. \A v \in 1..n : v \in 0..n /\ v - 1 \in 0..n /\ v \in 1..n + 1 /\ v <= n + 1
  BY <1>4
<1> HIDE DEF e, cs
<1>12. StoreType'
  BY <1>2, <1>9, Zenon DEF StoreInv, StoreType
<1>13. Queued'
  <2> SUFFICES ASSUME NEW i \in DOMAIN pending', NEW v, NEW w, v = pending'[i].version, w = pending'[i].writes
               PROVE  /\ v \in 1..n + 1 /\ w # NoWrites
                      /\ w = Changes(At(v - 1)', At(v)')
                      /\ \A j \in DOMAIN pending' : i <= j => v <= pending'[j].version
    BY <1>5, Zenon DEF Queued
  <2>1. CASE i \in DOMAIN pending /\ pending'[i] = pending[i]
    <3>1. /\ v \in 1..n /\ w # NoWrites /\ w = Changes(At(v - 1), At(v))
          /\ \A j \in DOMAIN pending : i <= j => v <= pending[j].version
      BY <1>4, <2>1, Zenon DEF StoreInv, Queued
    <3>2. \A j \in DOMAIN pending' : i <= j => v <= pending'[j].version
      BY <1>9, <1>10, <1>11, <3>1, Zenon
    <3> QED
      BY <1>6, <1>11, <3>1, <3>2, Zenon
  <2>2. CASE cs # NoWrites /\ pending'[i] = e /\ i = Len(pending) + 1
    <3>1. v = n + 1 /\ w = cs
      BY <1>10, <2>2, Zenon
    <3>2. v \in 1..n + 1 /\ v - 1 = n /\ v <= v
      BY <1>4, <3>1
    <3>3. w = Changes(At(v - 1)', At(v)')
      <4>1. At(v - 1)' = working /\ At(v)' = working'
        BY <1>2, <1>7, <3>1, <3>2, Zenon DEF At, Decided
      <4> QED
        BY <3>1, <4>1, Zenon DEF cs
    <3>4. ASSUME NEW j \in DOMAIN pending', i <= j PROVE v <= pending'[j].version
      <4>1. j \notin DOMAIN pending
        BY <1>8, <2>2, <3>4
      <4> QED
        BY <1>9, <1>10, <3>1, <3>2, <4>1, Zenon
    <3> QED
      BY <2>2, <3>1, <3>2, <3>3, <3>4, Zenon
  <2> QED
    BY <1>9, <2>1, <2>2, Zenon
<1>14. Applied'
  <2> SUFFICES ASSUME inHand # Nothing
               PROVE  /\ inHand.version \in 1..n + 1
                      /\ \A a \in DOMAIN inHand.writes : inHand.writes[a] = At(inHand.version)'[a]
                      /\ \A i \in DOMAIN pending' : inHand.version <= pending'[i].version
    BY <1>2, <1>5, Zenon DEF Applied
  <2> DEFINE v == inHand.version
  <2>1. /\ v \in 1..n /\ \A a \in DOMAIN inHand.writes : inHand.writes[a] = At(v)[a]
        /\ \A i \in DOMAIN pending : v <= pending[i].version
    BY <1>4, Zenon DEF StoreInv, Applied
  <2>2. At(v)' = At(v)
    BY <1>2, <1>6, <1>11, <2>1, Zenon DEF At, Decided
  <2> QED
    BY <1>9, <1>10, <1>11, <2>1, <2>2, Zenon
<1>15. Stored'
  <2> SUFFICES ASSUME NEW a \in Accounts, NEW v \in DOMAIN history[a]
               PROVE  /\ v <= n + 1 /\ history[a][v] = At(v)'[a]
                      /\ \A i \in DOMAIN pending' : v <= pending'[i].version
                      /\ inHand # Nothing => v <= inHand.version
    BY <1>2, <1>3, Zenon DEF Stored
  <2>1. /\ v <= Len(chain) /\ history[a][v] = At(v)[a]
        /\ \A i \in DOMAIN pending : v <= pending[i].version
        /\ inHand # Nothing => v <= inHand.version
    BY Zenon DEF StoreInv, Stored
  <2>2. v \in 1..MaxHeight
    BY WritesAre, Zenon DEF StoreInv, StoreType
  <2>3. v \in 0..Len(chain) /\ v <= n + 1
    BY <1>4, <2>1, <2>2
  <2>4. At(v)' = At(v)
    BY <1>3, <2>3, Zenon DEF At
  <2> QED
    BY <1>9, <1>10, <2>1, <2>3, <2>4, Zenon
<1>16. Logged'
  <2>1. /\ Len(log) = n /\ \A v \in 1..n : log[v] = Changes(At(v - 1), At(v))
    BY Zenon DEF StoreInv, Logged
  <2> QED
    BY <1>2, <1>6, <1>11, <2>1, Zenon DEF Logged
<1>17. Complete'
  <2> SUFFICES ASSUME ~refused, NEW a \in Accounts, NEW v \in 1..n + 1, At(v - 1)'[a] # At(v)'[a]
               PROVE  Kept(a, v)'
    BY <1>2, <1>5, Zenon DEF Complete
  <2>1. CASE v \in 1..n
    <3>1. At(v - 1)[a] # At(v)[a]
      BY <1>6, <1>11, <2>1, Zenon
    <3>2. Kept(a, v)
      BY <1>4, <2>1, <3>1, Zenon DEF StoreInv, Complete
    <3> QED
      BY <1>2, <1>9, <3>2, Zenon DEF Kept
  <2>2. CASE v \notin 1..n
    <3>1. v = n + 1 /\ v - 1 = n
      BY <1>4, <2>2
    <3>2. working[a] # working'[a]
      BY <1>2, <1>7, <3>1, Zenon DEF At, Decided
    <3>3. cs # NoWrites
      <4>1. cs = NoWrites <=> \A b \in Accounts : working[b] = working'[b]
        BY <1>8, ChangesAre, ZenonT(60) DEF cs
      <4> QED
        BY <3>2, <4>1, Zenon
    <3>4. PICK i \in DOMAIN pending' : pending'[i] = e
      BY <1>9, <3>3, Zenon
    <3>5. v = pending'[i].version
      BY <1>10, <3>1, <3>4, Zenon
    <3> QED
      BY <3>4, <3>5, Zenon DEF Kept
  <2> QED
    BY <2>1, <2>2, Zenon
<1> QED
  BY <1>2, <1>12, <1>13, <1>14, <1>15, <1>16, <1>17, Zenon DEF StoreInv

\* Commit flushes nothing, and logs the changes of the version.
LEMMA NodeCommitStep == ASSUME StoreInv, NodeCommit PROVE StoreInv'
<1> DEFINE n == committed.height
<1>1. /\ AppInv /\ Commit /\ Flush /\ UNCHANGED <<inHand, history, refused, chain>> /\ announced' = NoHash
      /\ log' = Append(log, Changes(committed.data, committed'.data))
  BY Zenon DEF NodeCommit, StoreInv, Commit
<1>2. AppInv'
  BY <1>1, CommitStep, Zenon
<1>3. /\ announced = <<working>> /\ working' = working /\ committed'.data = working
      /\ committed'.height = n + 1 /\ working = Decided(n + 1)
  BY <1>1, CommitEffect, Zenon
<1>4. n \in Nat /\ working \in Data /\ committed.data = At(n)
  BY <1>1, VersionsAre, Zenon DEF AppInv, AppType
<1>5. Top = n + 1 /\ Top' = n + 1
  <2>1. announced # NoHash
    BY <1>3 DEF NoHash
  <2> QED
    BY <1>1, <1>3, <2>1, Zenon DEF Top
<1>6. \A v : At(v)' = At(v)
  BY <1>1, Zenon DEF At, Decided
<1>7. pending' = pending
  <2>1. Changes(working, working') = NoWrites
    BY <1>3, <1>4, ChangesAre, Zenon
  <2> QED
    BY <1>1, <2>1, Zenon DEF Flush
<1>8. Changes(committed.data, committed'.data) = Changes(At(n), At(n + 1))
      /\ Changes(At(n), At(n + 1)) \in Writes
  <2>1. n + 1 # 0
    BY <1>4
  <2>2. At(n + 1) = working
    BY <1>3, <2>1, Zenon DEF At
  <2> QED
    BY <1>3, <1>4, <2>2, ChangesAre, Zenon
<1>9. log' \in Seq(Writes) /\ Len(log') = n + 1 /\ \A v \in 1..n + 1 : log'[v] = Changes(At(v - 1), At(v))
  <2> DEFINE c == Changes(At(n), At(n + 1))
  <2>1. log \in Seq(Writes) /\ Len(log) = n /\ \A v \in 1..n : log[v] = Changes(At(v - 1), At(v))
    BY Zenon DEF StoreInv, StoreType, Logged
  <2>2. log' = Append(log, c) /\ c \in Writes
    BY <1>1, <1>8, Zenon
  <2> HIDE DEF c, n
  <2>3. /\ log' \in Seq(Writes) /\ Len(log') = n + 1
        /\ \A v \in 1..n : log'[v] = log[v]
        /\ log'[n + 1] = c
    BY <1>4, <2>1, <2>2
  <2>4. \A v \in 1..n + 1 : v \in 1..n \/ (v = n + 1 /\ v - 1 = n)
    BY <1>4
  <2> QED
    BY <2>1, <2>3, <2>4, Zenon DEF c
<1>10. StoreType' /\ Applied' /\ Queued'
  BY <1>1, <1>5, <1>6, <1>7, <1>9, Zenon DEF StoreInv, StoreType, Applied, Queued
<1>11. Stored'
  BY <1>1, <1>6, <1>7, Zenon DEF StoreInv, Stored
<1>12. Logged'
  BY <1>3, <1>6, <1>9, Zenon DEF Logged
<1>13. Complete'
  BY <1>1, <1>5, <1>6, <1>7, ZenonT(60) DEF StoreInv, Complete, Kept
<1> QED
  BY <1>2, <1>10, <1>11, <1>12, <1>13, Zenon DEF StoreInv

\* A batch is taken from the queue with all that it has to write.
LEMMA TakePendingStep == ASSUME StoreInv, TakePending PROVE StoreInv'
<1>1. /\ pending # <<>> /\ inHand = Nothing /\ inHand' = Head(pending) /\ pending' = Tail(pending)
      /\ UNCHANGED <<vars, history, log, refused>>
  BY Zenon DEF TakePending
<1>2. AppInv /\ AppInv' /\ UNCHANGED <<committed, announced, chain>>
  <2>1. AppInv /\ [Next]_vars
    BY <1>1, Zenon DEF StoreInv
  <2> QED
    BY <1>1, <2>1, AppNext, Zenon DEF vars
<1>3. (\A v : At(v)' = At(v)) /\ Top' = Top
  BY <1>2, Zenon DEF At, Decided, Top
<1>4. /\ pending \in Seq(Batches) /\ Len(pending) <= Capacity
  BY Zenon DEF StoreInv, StoreType
<1>5. /\ 1 \in DOMAIN pending /\ inHand' = pending[1] /\ inHand' \in Batches
      /\ pending' \in Seq(Batches) /\ Len(pending') <= Capacity
      /\ \A i \in DOMAIN pending' : i + 1 \in DOMAIN pending /\ pending'[i] = pending[i + 1] /\ 1 <= i + 1
      /\ \A i \in DOMAIN pending : i = 1 \/ (i - 1 \in DOMAIN pending' /\ pending'[i - 1] = pending[i])
      /\ \A i, j \in DOMAIN pending' : i <= j => i + 1 <= j + 1
  BY <1>1, <1>4, StateStoreAssumption
<1>6. StoreType'
  BY <1>1, <1>5, Zenon DEF StoreInv, StoreType
<1>7. Queued'
  <2> SUFFICES ASSUME NEW i \in DOMAIN pending', NEW b, b = pending'[i]
               PROVE  /\ b.version \in 1..Top /\ b.writes # NoWrites
                      /\ b.writes = Changes(At(b.version - 1), At(b.version))
                      /\ \A j \in DOMAIN pending' : i <= j => b.version <= pending'[j].version
    BY <1>3, Zenon DEF Queued
  <2>1. /\ b.version \in 1..Top /\ b.writes # NoWrites
        /\ b.writes = Changes(At(b.version - 1), At(b.version))
        /\ \A j \in DOMAIN pending : i + 1 <= j => b.version <= pending[j].version
    BY <1>5, Zenon DEF StoreInv, Queued
  <2> QED
    BY <1>5, <2>1, Zenon
<1>8. /\ inHand'.version \in 1..Top
      /\ inHand'.writes = Changes(At(inHand'.version - 1), At(inHand'.version))
      /\ \A i \in DOMAIN pending' : inHand'.version <= pending'[i].version
  <2>1. /\ inHand'.version \in 1..Top
        /\ inHand'.writes = Changes(At(inHand'.version - 1), At(inHand'.version))
        /\ \A j \in DOMAIN pending : 1 <= j => inHand'.version <= pending[j].version
    BY <1>5, Zenon DEF StoreInv, Queued
  <2> QED
    BY <1>5, <2>1, Zenon
<1>9. At(inHand'.version) \in Data
  <2>1. inHand'.version \in 0..Len(chain)
    <3>1. Top \in Nat /\ Len(chain) \in Nat /\ Top <= Len(chain)
      BY <1>2, VersionsAre, Zenon
    <3> QED
      BY <1>8, <3>1
  <2> QED
    BY <1>2, <2>1, VersionsAre, Zenon
<1> DEFINE old == At(inHand'.version - 1)
           new == At(inHand'.version)
<1>9a. /\ \A a \in Accounts : a \in DOMAIN inHand'.writes <=> old[a] # new[a]
       /\ \A a \in DOMAIN inHand'.writes : inHand'.writes[a] = new[a]
  <2>1. inHand'.writes = Changes(old, new) /\ new \in Data
    BY <1>8, <1>9, Zenon
  <2> HIDE DEF old, new
  <2>2. /\ \A a \in Accounts : a \in DOMAIN Changes(old, new) <=> old[a] # new[a]
        /\ \A a \in DOMAIN Changes(old, new) : Changes(old, new)[a] = new[a]
    BY <2>1, ChangesAre, Zenon
  <2> QED
    BY <2>1, <2>2, Zenon
<1>10. Applied'
  <2>1. \A a \in DOMAIN inHand'.writes : inHand'.writes[a] = At(inHand'.version)[a]
    BY <1>9a, Zenon
  <2>2. At(inHand.version)' = At(inHand'.version)
    BY <1>2, Zenon DEF At, Decided
  <2> QED
    BY <1>3, <1>8, <2>1, <2>2, Zenon DEF Applied
<1>11. Stored'
  <2> SUFFICES ASSUME NEW a \in Accounts, NEW v \in DOMAIN history[a]
               PROVE  /\ v <= Len(chain) /\ history[a][v] = At(v)[a]
                      /\ \A i \in DOMAIN pending' : v <= pending'[i].version
                      /\ v <= inHand'.version
    BY <1>1, <1>2, <1>3, Zenon DEF Stored
  <2> QED
    BY <1>5, Zenon DEF StoreInv, Stored
<1>12. Logged'
  BY <1>1, <1>2, <1>3, Zenon DEF StoreInv, Logged
<1>13. Complete'
  <2> SUFFICES ASSUME ~refused, NEW a \in Accounts, NEW v \in 1..Top, At(v - 1)[a] # At(v)[a]
               PROVE  Kept(a, v)'
    BY <1>1, <1>3, Zenon DEF Complete
  <2>1. Kept(a, v)
    BY Zenon DEF StoreInv, Complete
  <2>2. CASE v \in DOMAIN history[a]
    BY <1>1, <2>2, Zenon DEF Kept
  <2>3. ASSUME NEW i \in DOMAIN pending, v = pending[i].version PROVE Kept(a, v)'
    <3>1. CASE i = 1
      <4>1. v = inHand'.version /\ a \in DOMAIN inHand'.writes
        BY <1>5, <1>9a, <2>3, <3>1, Zenon
      <4> QED
        BY <4>1, Zenon DEF Kept
    <3>2. CASE i # 1
      BY <1>5, <2>3, <3>2, Zenon DEF Kept
    <3> QED
      BY <3>1, <3>2, Zenon
  <2>4. ~(a \in DOMAIN inHand.writes)
    BY <1>1, NothingIs, Zenon
  <2> QED
    BY <2>1, <2>2, <2>3, <2>4, Zenon DEF Kept
<1> QED
  BY <1>2, <1>6, <1>7, <1>10, <1>11, <1>12, <1>13, Zenon DEF StoreInv

\* A write of the batch is applied.
LEMMA ApplyChangesetStep == ASSUME StoreInv, NEW a \in Accounts, ApplyChangeset(a) PROVE StoreInv'
<1> DEFINE u == inHand.version
           x == inHand.writes[a]
           rest == [b \in DOMAIN inHand.writes \ {a} |-> inHand.writes[b]]
           g == Put(history[a], u, x)
<1>1. /\ a \in DOMAIN inHand.writes /\ history' = [history EXCEPT ![a] = g]
      /\ inHand' = IF rest = NoWrites THEN Nothing ELSE [inHand EXCEPT !.writes = rest]
      /\ UNCHANGED <<vars, pending, log, refused>>
  BY Zenon DEF ApplyChangeset
<1>2. AppInv /\ AppInv' /\ UNCHANGED <<committed, announced, chain>>
  <2>1. AppInv /\ [Next]_vars
    BY <1>1, Zenon DEF StoreInv
  <2> QED
    BY <1>1, <2>1, AppNext, Zenon DEF vars
<1>3. (\A v : At(v)' = At(v)) /\ Top' = Top
  BY <1>2, Zenon DEF At, Decided, Top
<1>4. /\ inHand \in Batches /\ inHand.writes \in Writes /\ u \in Nat /\ history \in [Accounts -> Histories]
  BY Zenon DEF StoreInv, StoreType, Batches
<1>5. inHand # Nothing
  BY <1>1, NothingIs, Zenon
<1>6. /\ u \in 1..Top /\ \A b \in DOMAIN inHand.writes : inHand.writes[b] = At(u)[b]
      /\ \A i \in DOMAIN pending : u <= pending[i].version
  BY <1>5, Zenon DEF StoreInv, Applied
<1>7. u \in 1..MaxHeight /\ u <= Len(chain) /\ u <= u
  <2>1. Top \in Nat /\ Len(chain) \in Nat /\ Top <= Len(chain) /\ Len(chain) <= MaxHeight /\ MaxHeight \in Nat
    BY <1>2, VersionsAre, Zenon
  <2> QED
    BY <1>6, <2>1
<1>8. /\ rest \in Writes /\ DOMAIN rest = DOMAIN inHand.writes \ {a}
      /\ \A b \in DOMAIN rest : rest[b] = inHand.writes[b]
  <2> DEFINE S == DOMAIN inHand.writes \ {a}
  <2>1. S \in SUBSET Accounts /\ rest \in [S -> Values]
    BY <1>4, WritesAre, Zenon
  <2> QED
    BY <2>1, WritesAre, Zenon
<1>9. x \in Values
  BY <1>1, <1>4, WritesAre, Zenon
<1>10. /\ DOMAIN g = DOMAIN history[a] \cup {u} /\ g[u] = x
       /\ \A v \in DOMAIN history[a] : v = u \/ g[v] = history[a][v]
       /\ g \in Histories
  <2> DEFINE S == DOMAIN history[a] \cup {u}
  <2>1. history[a] \in Histories
    BY <1>4, Zenon
  <2>2. DOMAIN history[a] \in SUBSET (1..MaxHeight) /\ history[a] \in [DOMAIN history[a] -> Values]
    BY <2>1, WritesAre, Zenon
  <2> HIDE DEF u, x
  <2>3. S \in SUBSET (1..MaxHeight)
    BY <1>7, <2>2, Zenon
  <2>4. \A v \in S : (IF v = u THEN x ELSE history[a][v]) \in Values
    BY <1>9, <2>2, Zenon
  <2>5. g = [v \in S |-> IF v = u THEN x ELSE history[a][v]]
    BY Zenon DEF Put
  <2>6. g \in [S -> Values]
    BY <2>4, <2>5, Zenon
  <2>7. g \in Histories
    BY <2>3, <2>6, WritesAre, Zenon
  <2>8. \A v \in S : g[v] = IF v = u THEN x ELSE history[a][v]
    BY <2>5, Zenon
  <2> HIDE DEF g
  <2> QED
    BY <2>6, <2>7, <2>8, Zenon
<1> HIDE DEF rest, g
<1>11. /\ inHand' \in Batches /\ inHand'.writes = rest
       /\ inHand' # Nothing => inHand'.version = u
       /\ rest # NoWrites => inHand'.version = u
  <2>1. CASE rest = NoWrites
    BY <1>1, <2>1, NothingIs, Zenon
  <2>2. CASE rest # NoWrites
    BY <1>1, <1>4, <1>8, <2>2, Zenon DEF Batches
  <2> QED
    BY <2>1, <2>2, Zenon
<1>12. /\ history' \in [Accounts -> Histories] /\ history'[a] = g
       /\ \A b \in Accounts : b # a => history'[b] = history[b]
  BY <1>1, <1>4, <1>10, Zenon
<1>13. StoreType'
  BY <1>1, <1>11, <1>12, Zenon DEF StoreInv, StoreType
<1>14. Queued'
  BY <1>1, <1>3, Zenon DEF StoreInv, Queued
<1>15. Applied'
  <2> SUFFICES ASSUME inHand' # Nothing
               PROVE  /\ u \in 1..Top
                      /\ \A b \in DOMAIN rest : rest[b] = At(u)[b]
                      /\ \A i \in DOMAIN pending : u <= pending[i].version
    <3>1. inHand' # Nothing => At(inHand.version)' = At(inHand'.version)
      BY <1>2, Zenon DEF At, Decided
    <3> QED
      BY <1>1, <1>3, <1>11, <3>1, Zenon DEF Applied
  <2> QED
    BY <1>6, <1>8, Zenon
<1>16. Stored'
  <2> SUFFICES ASSUME NEW b \in Accounts, NEW v \in DOMAIN history'[b]
               PROVE  /\ v <= Len(chain) /\ history'[b][v] = At(v)[b]
                      /\ \A i \in DOMAIN pending : v <= pending[i].version
                      /\ inHand' # Nothing => v <= inHand'.version
    <3>1. UNCHANGED <<pending, chain>>
      BY <1>1, <1>2, Zenon
    <3> QED
      BY <1>3, <3>1, Zenon DEF Stored
  <2>1. ASSUME NEW w \in DOMAIN history[b]
        PROVE  /\ w <= Len(chain) /\ history[b][w] = At(w)[b]
               /\ \A i \in DOMAIN pending : w <= pending[i].version
               /\ w <= u
    BY <1>5, Zenon DEF StoreInv, Stored
  <2>2. CASE b = a /\ v = u
    <3>1. history'[b][v] = At(v)[b]
      BY <1>1, <1>6, <1>10, <1>12, <2>2, Zenon
    <3> QED
      BY <1>6, <1>7, <1>11, <2>2, <3>1, Zenon
  <2>3. CASE b # a \/ v # u
    <3>1. v \in DOMAIN history[b] /\ history'[b][v] = history[b][v]
      BY <1>10, <1>12, <2>3, Zenon
    <3> QED
      BY <1>11, <2>1, <3>1, Zenon
  <2> QED
    BY <2>2, <2>3, Zenon
<1>17. Logged'
  BY <1>1, <1>2, <1>3, Zenon DEF StoreInv, Logged
<1>18. Complete'
  <2> SUFFICES ASSUME ~refused, NEW b \in Accounts, NEW v \in 1..Top, At(v - 1)[b] # At(v)[b]
               PROVE  Kept(b, v)'
    BY <1>1, <1>3, Zenon DEF Complete
  <2>1. Kept(b, v)
    BY Zenon DEF StoreInv, Complete
  <2>2. CASE v \in DOMAIN history[b]
    <3>1. v \in DOMAIN history'[b]
      BY <1>10, <1>12, <2>2, Zenon
    <3> QED
      BY <3>1, Zenon DEF Kept
  <2>3. CASE v = u /\ b \in DOMAIN inHand.writes
    <3>1. CASE b = a
      <4>1. v \in DOMAIN history'[b]
        BY <1>10, <1>12, <2>3, <3>1, Zenon
      <4> QED
        BY <4>1, Zenon DEF Kept
    <3>2. CASE b # a
      <4>1. b \in DOMAIN rest /\ rest # NoWrites
        BY <1>8, <2>3, <3>2, NothingIs, Zenon
      <4>2. v = inHand'.version /\ b \in DOMAIN inHand'.writes
        BY <1>11, <2>3, <4>1, Zenon
      <4> QED
        BY <4>2, Zenon DEF Kept
    <3> QED
      BY <3>1, <3>2, Zenon
  <2>4. CASE \E i \in DOMAIN pending : v = pending[i].version
    BY <1>1, <2>4, Zenon DEF Kept
  <2> QED
    BY <2>1, <2>2, <2>3, <2>4, Zenon DEF Kept
<1> QED
  BY <1>2, <1>13, <1>14, <1>15, <1>16, <1>17, <1>18, Zenon DEF StoreInv

\* The latest version of the state store is one of its versions.
LEMMA LatestVersionIs ==
    ASSUME StoreInv
    PROVE  /\ LatestVersion \in Nat
           /\ LatestVersion = 0 \/ \E a \in Accounts : LatestVersion \in DOMAIN history[a]
<1> DEFINE S == {0} \cup UNION {DOMAIN history[a] : a \in Accounts}
<1>1. \A a \in Accounts : DOMAIN history[a] \in SUBSET (1..MaxHeight)
  BY WritesAre, Zenon DEF StoreInv, StoreType
<1>2. S \in SUBSET (0..MaxHeight) /\ 0 \in S
  BY <1>1, ABCIAssumption
<1>3. \A v \in S : v = 0 \/ \E a \in Accounts : v \in DOMAIN history[a]
  BY Zenon
<1>4. LatestVersion = Max(S)
  BY Zenon DEF LatestVersion
<1> HIDE DEF S
<1>5. IsFiniteSet(S) /\ S # {} /\ S \subseteq Int
  <2>1. IsFiniteSet(0..MaxHeight)
    BY ABCIAssumption, FiniteInterval
  <2>2. IsFiniteSet(S)
    BY <1>2, <2>1, FiniteSubset, Zenon
  <2> QED
    BY <1>2, <2>2, ABCIAssumption
<1>6. Max(S) \in S /\ \A y \in S : Max(S) >= y
  BY <1>5, MaxIn, Zenon
<1>7. Max(S) \in Nat
  <2>1. \A v \in 0..MaxHeight : v \in Nat
    OBVIOUS
  <2> QED
    BY <1>2, <1>6, <2>1, Zenon
<1> QED
  BY <1>3, <1>4, <1>6, <1>7, Zenon

\* The state store is brought up to the log: what it holds below its latest
\* version is complete, and the log has the rest.
LEMMA NodeRestartStep == ASSUME StoreInv, NodeRestart PROVE StoreInv'
<1> DEFINE n == committed.height
           L == LatestVersion
           vs(a) == {v \in DOMAIN log : v >= L /\ a \in DOMAIN log[v]}
<1>1. /\ AppInv /\ Restart /\ pending' = <<>> /\ inHand' = Nothing /\ log' = log
      /\ UNCHANGED <<committed, chain>> /\ announced' = NoHash
      /\ \/ refused' = TRUE /\ history' = history
         \/ refused' = refused /\ history' = RecoverStateStore
  BY Zenon DEF NodeRestart, StoreInv, Restart
<1>2. AppInv'
  BY <1>1, RestartStep, Zenon
<1>3. (\A v : At(v)' = At(v)) /\ Top' = n
  BY <1>1, Zenon DEF At, Decided, Top
<1>4. /\ n \in Nat /\ Top \in Nat /\ n <= Top /\ Len(chain) \in Nat /\ Top <= Len(chain)
      /\ Len(chain) <= MaxHeight /\ MaxHeight \in Nat
      /\ \A v \in 0..Len(chain) : At(v) \in Data
  BY <1>1, VersionsAre, Zenon
<1>5. /\ log \in Seq(Writes) /\ Len(log) = n /\ history \in [Accounts -> Histories] /\ refused \in BOOLEAN
      /\ \A v \in 1..n : log[v] = Changes(At(v - 1), At(v))
  BY Zenon DEF StoreInv, StoreType, Logged
<1>6. DOMAIN log = 1..n /\ DOMAIN pending' = {} /\ pending' \in Seq(Batches) /\ Len(pending') <= Capacity
  BY <1>1, <1>5, StateStoreAssumption
<1>7. \A v \in 1..n : v \in 1..MaxHeight /\ v <= Len(chain) /\ v \in 1..Top /\ v \in 0..Len(chain)
  BY <1>4
<1>8. ASSUME NEW v \in 1..n
      PROVE  /\ \A a \in Accounts : a \in DOMAIN log[v] <=> At(v - 1)[a] # At(v)[a]
             /\ \A a \in DOMAIN log[v] : log[v][a] = At(v)[a]
  <2> DEFINE old == At(v - 1)
             new == At(v)
  <2>1. log[v] = Changes(old, new) /\ new \in Data
    BY <1>4, <1>5, <1>7, Zenon
  <2> HIDE DEF old, new
  <2>2. /\ \A a \in Accounts : a \in DOMAIN Changes(old, new) <=> old[a] # new[a]
        /\ \A a \in DOMAIN Changes(old, new) : Changes(old, new)[a] = new[a]
    BY <2>1, ChangesAre, Zenon
  <2> QED
    BY <2>1, <2>2, Zenon DEF old, new
<1>9. ASSUME NEW a \in Accounts
      PROVE  /\ DOMAIN history[a] \in SUBSET (1..MaxHeight)
             /\ \A v \in DOMAIN history[a] : v <= Len(chain) /\ history[a][v] = At(v)[a]
  BY <1>5, WritesAre, Zenon DEF StoreInv, Stored
<1>10. ASSUME history' = RecoverStateStore, NEW a \in Accounts
       PROVE  /\ DOMAIN history'[a] = DOMAIN history[a] \cup vs(a)
              /\ \A v \in DOMAIN history'[a] : v \in 1..MaxHeight /\ v <= Len(chain) /\ history'[a][v] = At(v)[a]
  <2> DEFINE S == DOMAIN history[a] \cup vs(a)
  <2>1. history'[a] = [v \in S |-> IF v \in vs(a) THEN log[v][a] ELSE history[a][v]]
    BY <1>10, Zenon DEF RecoverStateStore
  <2>2. \A v \in vs(a) : v \in 1..n /\ a \in DOMAIN log[v]
    BY <1>6, Zenon
  <2>3. \A v \in S : v \in vs(a) \/ v \in DOMAIN history[a]
    BY Zenon
  <2> HIDE DEF vs
  <2>4. DOMAIN history'[a] = S
    BY <2>1, Zenon
  <2>5. \A v \in S : history'[a][v] = IF v \in vs(a) THEN log[v][a] ELSE history[a][v]
    BY <2>1, Zenon
  <2> HIDE DEF S
  <2>6. ASSUME NEW v \in S PROVE v \in 1..MaxHeight /\ v <= Len(chain) /\ history'[a][v] = At(v)[a]
    <3>1. CASE v \in vs(a)
      BY <1>7, <1>8, <2>2, <2>5, <3>1, Zenon
    <3>2. CASE v \notin vs(a)
      BY <1>9, <2>3, <2>5, <3>2, Zenon
    <3> QED
      BY <3>1, <3>2, Zenon
  <2> QED
    BY <2>4, <2>6, Zenon DEF S
<1>11. ASSUME NEW a \in Accounts, NEW v \in DOMAIN history'[a]
       PROVE  v \in 1..MaxHeight /\ v <= Len(chain) /\ history'[a][v] = At(v)[a]
  <2>1. CASE history' = history
    BY <1>9, <2>1, Zenon
  <2>2. CASE history' = RecoverStateStore
    BY <1>10, <2>2, Zenon
  <2> QED
    BY <1>1, <2>1, <2>2, Zenon
<1> HIDE DEF vs
<1>12. history' \in [Accounts -> Histories]
  <2>1. CASE history' = history
    BY <1>5, <2>1, Zenon
  <2>2. CASE history' = RecoverStateStore
    <3>1. ASSUME NEW a \in Accounts PROVE history'[a] \in Histories
      <4> DEFINE S == DOMAIN history[a] \cup vs(a)
                 f(v) == IF v \in vs(a) THEN log[v][a] ELSE history[a][v]
      <4>1. history'[a] = [v \in S |-> f(v)]
        BY <2>2, Zenon DEF RecoverStateStore, vs
      <4>2. DOMAIN history'[a] = S /\ \A v \in S : history'[a][v] = f(v)
        BY <4>1, Zenon
      <4>3. \A v \in S : v \in 1..MaxHeight /\ v <= Len(chain) /\ history'[a][v] = At(v)[a]
        BY <1>11, <4>2, Zenon
      <4> HIDE DEF S, f
      <4>4. \A v \in S : At(v)[a] \in Values
        <5>1. \A v \in 1..MaxHeight : v <= Len(chain) => v \in 0..Len(chain)
          BY <1>4
        <5> QED
          BY <1>4, <4>3, <5>1, Zenon DEF Data
      <4>5. \A v \in S : f(v) \in Values
        BY <4>2, <4>3, <4>4, Zenon
      <4>6. history'[a] \in [S -> Values]
        BY <4>1, <4>5, Zenon
      <4>7. S \in SUBSET (1..MaxHeight)
        BY <4>3, Zenon
      <4> QED
        BY <4>6, <4>7, WritesAre, Zenon
    <3>2. history' = [a \in Accounts |-> history'[a]]
      BY <2>2, Zenon DEF RecoverStateStore
    <3> QED
      BY <3>1, <3>2, Zenon
  <2> QED
    BY <1>1, <2>1, <2>2, Zenon
<1>13. StoreType'
  <2>1. refused' \in BOOLEAN
    BY <1>1, <1>5, Zenon
  <2> QED
    BY <1>1, <1>5, <1>6, <1>12, <2>1, NothingIs, Zenon DEF StoreType
<1>14. Queued' /\ Applied'
  BY <1>1, <1>6, Zenon DEF Queued, Applied
<1>15. Stored'
  BY <1>1, <1>3, <1>6, <1>11, Zenon DEF Stored
<1>16. Logged'
  BY <1>1, <1>3, Zenon DEF StoreInv, Logged
<1>17. Complete'
  <2> SUFFICES ASSUME ~refused', NEW a \in Accounts, NEW v \in 1..n, At(v - 1)[a] # At(v)[a]
               PROVE  v \in DOMAIN history'[a]
    BY <1>1, <1>3, Zenon DEF Complete, Kept
  <2>1. ~refused /\ history' = RecoverStateStore
    <3>1. CASE refused' = TRUE
      BY <3>1
    <3>2. CASE refused' = refused /\ history' = RecoverStateStore
      BY <3>2, Zenon
    <3> QED
      BY <1>1, <3>1, <3>2, Zenon
  <2>2. CASE v >= L
    <3>1. v \in vs(a)
      BY <1>6, <1>8, <2>2, Zenon DEF vs
    <3> QED
      BY <1>10, <2>1, <3>1, Zenon
  <2>3. CASE ~(v >= L)
    <3>1. Kept(a, v)
      BY <1>7, <2>1, Zenon DEF StoreInv, Complete
    <3>2. L \in Nat /\ L # 0 /\ ~(L <= v)
      BY <2>3, LatestVersionIs
    <3>4. PICK b \in Accounts : L \in DOMAIN history[b]
      BY <3>2, LatestVersionIs, Zenon
    <3>3. /\ \A i \in DOMAIN pending : L <= pending[i].version
          /\ inHand # Nothing => L <= inHand.version
      BY <3>4, Zenon DEF StoreInv, Stored
    <3>5. a \notin DOMAIN Nothing.writes
      BY NothingIs, Zenon
    <3>6. v \in DOMAIN history[a]
      BY <3>1, <3>2, <3>3, <3>5, Zenon DEF Kept
    <3> QED
      BY <1>10, <2>1, <3>6, Zenon
  <2> QED
    BY <2>2, <2>3, Zenon
<1> QED
  BY <1>2, <1>13, <1>14, <1>15, <1>16, <1>17, Zenon DEF StoreInv

\* The invariant is inductive.
LEMMA StoreNext == ASSUME StoreInv, [NodeNext]_nodeVars PROVE StoreInv'
<1>1. ASSUME [Next]_vars, UNCHANGED storeVars, UNCHANGED <<committed, announced, chain>> PROVE StoreInv'
  <2>1. AppInv'
    BY <1>1, AppNext, Zenon DEF StoreInv
  <2> QED
    BY <1>1, <2>1, StoreRests, Zenon
<1>2. CASE InitChain /\ UNCHANGED storeVars
  BY <1>1, <1>2, Zenon DEF Next, InitChain
<1>3. ASSUME NEW tx \in Txs, CheckTx(tx), UNCHANGED storeVars PROVE StoreInv'
  BY <1>1, <1>3, Zenon DEF Next, CheckTx
<1>4. ASSUME NEW m \in {"prepare", "process"}, NEW block \in Blocks, NEW runs \in BOOLEAN,
             Proposal(m, block, runs), UNCHANGED storeVars
      PROVE  StoreInv'
  <2>1. Next
    BY <1>4, Zenon DEF Next
  <2>2. UNCHANGED <<committed, announced, chain>>
    BY <1>4, Zenon DEF Proposal
  <2> QED
    BY <1>1, <1>4, <2>1, <2>2, Zenon
<1>5. CASE NodeFinalize
  BY <1>5, NodeFinalizeStep, Zenon
<1>6. CASE NodeCommit
  BY <1>6, NodeCommitStep, Zenon
<1>7. CASE NodeRestart
  BY <1>7, NodeRestartStep, Zenon
<1>8. CASE StateStoreCommit
  BY <1>8, TakePendingStep, ApplyChangesetStep, Zenon DEF StateStoreCommit
<1>9. CASE UNCHANGED nodeVars
  <2>1. UNCHANGED vars /\ UNCHANGED storeVars
    BY <1>9, Zenon DEF nodeVars
  <2>2. UNCHANGED <<committed, announced, chain>>
    BY <2>1, Zenon DEF vars
  <2> QED
    BY <1>1, <2>1, <2>2, Zenon
<1> QED
  BY <1>2, <1>3, <1>4, <1>5, <1>6, <1>7, <1>8, <1>9, Zenon DEF NodeNext

-----------------------------------------------------------------------------
(* What the state store promises its readers.                              *)

\* A read of the state store at a version finds the write of the version, or
\* what a read at the version before finds.
LEMMA ReadAtNext ==
    ASSUME StoreInv, NEW a \in Accounts, NEW v \in Nat
    PROVE  /\ ReadAt(a, 0) = Absent
           /\ v + 1 \in DOMAIN history[a] => ReadAt(a, v + 1) = history[a][v + 1]
           /\ v + 1 \notin DOMAIN history[a] => ReadAt(a, v + 1) = ReadAt(a, v)
<1> DEFINE D == DOMAIN history[a]
<1>1. D \in SUBSET (1..MaxHeight) /\ MaxHeight \in Nat
  BY WritesAre, ABCIAssumption, Zenon DEF StoreInv, StoreType
<1>2. \A u : ReadAt(a, u) = IF UpTo(D, u) = {} THEN Absent ELSE history[a][Max(UpTo(D, u))]
  BY Zenon DEF ReadAt, UpTo
<1> HIDE DEF D
<1>3. /\ UpTo(D, 0) = {}
      /\ v + 1 \in D => UpTo(D, v + 1) # {} /\ Max(UpTo(D, v + 1)) = v + 1
      /\ v + 1 \notin D => UpTo(D, v + 1) = UpTo(D, v)
  <2>1. Climbs(D, v)
    BY <1>1, MaxBelow, Zenon
  <2> QED
    BY <2>1, Zenon DEF Climbs
<1> QED
  BY <1>2, <1>3, Zenon DEF D

\* Up to a version for which nothing waits, a read finds the data of its
\* version.
LEMMA ReadsAre ==
    ASSUME StoreInv, ~refused, NEW a \in Accounts, NEW v \in 1..committed.height,
           \A i \in DOMAIN pending : pending[i].version > v,
           inHand.version > v \/ inHand = Nothing
    PROVE  ReadAt(a, v) = At(v)[a]
<1> DEFINE G == {u \in Nat : u <= v => ReadAt(a, u) = At(u)[a]}
<1>1. /\ committed.height \in Nat /\ Top \in Nat /\ committed.height <= Top /\ Top <= Len(chain)
      /\ Len(chain) \in Nat /\ At(0) = NoData
  BY VersionsAre, Zenon DEF StoreInv
<1>2. v \in Nat /\ v <= Top
  BY <1>1
<1>3. 0 \in G
  <2>1. ReadAt(a, 0) = Absent /\ NoData[a] = Absent
    BY ReadAtNext, Zenon DEF NoData
  <2> QED
    BY <1>1, <2>1
<1>4. ASSUME NEW u \in Nat, u \in G PROVE u + 1 \in G
  <2>5. u + 1 \in Nat
    OBVIOUS
  <2> SUFFICES ASSUME u + 1 <= v PROVE ReadAt(a, u + 1) = At(u + 1)[a]
    BY <2>5, Zenon
  <2>1. u <= v /\ u + 1 \in 1..Top /\ (u + 1) - 1 = u
    BY <1>1, <1>2
  <2>2. ReadAt(a, u) = At(u)[a]
    BY <1>4, <2>1, Zenon
  <2>3. CASE u + 1 \in DOMAIN history[a]
    <3>1. history[a][u + 1] = At(u + 1)[a]
      BY <2>3, Zenon DEF StoreInv, Stored
    <3> QED
      BY <2>3, <3>1, ReadAtNext, Zenon
  <2>4. CASE u + 1 \notin DOMAIN history[a]
    <3>1. \A i \in DOMAIN pending : u + 1 # pending[i].version
      <4> SUFFICES ASSUME NEW i \in DOMAIN pending PROVE u + 1 # pending[i].version
        BY Zenon
      <4>1. pending[i].version > v
        OBVIOUS
      <4>2. pending[i].version \in 1..Top
        BY Zenon DEF StoreInv, Queued
      <4> QED
        BY <1>2, <4>1, <4>2
    <3>2. ~(u + 1 = inHand.version /\ a \in DOMAIN inHand.writes)
      <4>1. CASE inHand = Nothing
        BY <4>1, NothingIs, Zenon
      <4>2. CASE inHand.version > v
        <5>1. inHand.version \in Nat
          BY Zenon DEF StoreInv, StoreType, Batches
        <5> QED
          BY <1>2, <4>2, <5>1
      <4> QED
        BY <4>1, <4>2, Zenon
    <3>3. ~Kept(a, u + 1)
      BY <2>4, <3>1, <3>2, Zenon DEF Kept
    <3>4. At((u + 1) - 1)[a] = At(u + 1)[a]
      <4>1. \A w \in 1..Top : At(w - 1)[a] # At(w)[a] => Kept(a, w)
        BY Zenon DEF StoreInv, Complete
      <4> QED
        BY <2>1, <3>3, <4>1, Zenon
    <3> QED
      BY <2>1, <2>2, <2>4, <3>4, ReadAtNext, Zenon
  <2> QED
    BY <2>3, <2>4, Zenon
<1> HIDE DEF G
<1>5. v \in G
  BY <1>2, <1>3, <1>4, NatSetInduction, Zenon
<1>6. v <= v
  BY <1>2
<1> QED
  BY <1>5, <1>6, Zenon DEF G

\* What the invariant says of the history.
LEMMA StoreInvGives == ASSUME StoreInv PROVE HistoryIsExact
<1>1. /\ committed.height \in Nat /\ Len(chain) \in Nat /\ Len(chain) <= MaxHeight /\ MaxHeight \in Nat
      /\ Top \in Nat /\ Top <= Len(chain)
      /\ \A v \in 0..Len(chain) : At(v) \in Data
      /\ \A v \in Nat : v > 0 => At(v) = Decided(v)
  BY VersionsAre, Zenon DEF StoreInv
<1>2. committed.height <= Len(chain)
  BY Zenon DEF StoreInv, AppInv, AppType
<1>3. StateStoreTypeOK
  <2>1. \A v \in 1..Top : v \in 0..MaxHeight
    BY <1>1
  <2>2. \A v \in 1..MaxHeight : v \in 0..MaxHeight
    OBVIOUS
  <2>3. 0 \in 0..MaxHeight
    BY <1>1
  <2>4. \A i \in DOMAIN pending : pending[i].version \in 0..MaxHeight /\ pending[i].writes # NoWrites
    BY <2>1, Zenon DEF StoreInv, Queued
  <2>5. inHand.version \in 0..MaxHeight
    BY <2>1, <2>3, NothingIs, Zenon DEF StoreInv, Applied
  <2>6. \A a \in Accounts : DOMAIN history[a] \subseteq 0..MaxHeight
    BY <2>2, WritesAre, Zenon DEF StoreInv, StoreType
  <2> QED
    BY <2>4, <2>5, <2>6, Zenon DEF StateStoreTypeOK, StoreInv, StoreType, Logged
<1>4. HistoryIsDecided
  <2> SUFFICES ASSUME NEW a \in Accounts, NEW v \in DOMAIN history[a]
               PROVE  v <= Len(chain) /\ history[a][v] = Decided(v)[a]
    BY Zenon DEF HistoryIsDecided
  <2>1. v <= Len(chain) /\ history[a][v] = At(v)[a]
    BY Zenon DEF StoreInv, Stored
  <2>2. v \in 1..MaxHeight
    BY WritesAre, Zenon DEF StoreInv, StoreType
  <2>3. v \in Nat /\ v > 0
    BY <2>2
  <2> QED
    BY <1>1, <2>1, <2>3, Zenon
<1>5. NothingIsMissing
  <2> SUFFICES ASSUME NEW v \in 1..committed.height - 1, ~refused,
                      \A i \in DOMAIN pending : pending[i].version > v,
                      inHand.version > v \/ inHand = Nothing
               PROVE  CacheMultiStoreWithVersion(v) = Decided(v)
    BY Zenon DEF NothingIsMissing
  <2>1. /\ v \in 1..committed.height /\ v # committed.height /\ v \in Nat /\ v > 0
        /\ v \in 0..Len(chain)
    BY <1>1, <1>2
  <2>2. CacheMultiStoreWithVersion(v) = [a \in Accounts |-> ReadAt(a, v)]
    BY <2>1, Zenon DEF CacheMultiStoreWithVersion
  <2>3. \A a \in Accounts : ReadAt(a, v) = Decided(v)[a]
    BY <1>1, <2>1, ReadsAre, Zenon
  <2>4. Decided(v) \in [Accounts -> Values]
    BY <1>1, <2>1, Zenon DEF Data
  <2> DEFINE d == Decided(v)
  <2> HIDE DEF d
  <2>5. d = [a \in Accounts |-> d[a]]
    BY <2>4, Zenon DEF d
  <2>6. [a \in Accounts |-> ReadAt(a, v)] = [a \in Accounts |-> d[a]]
    BY <2>3, Zenon DEF d
  <2> QED
    BY <2>2, <2>5, <2>6, Zenon DEF d
<1> QED
  BY <1>3, <1>4, <1>5, AppInvGives, Zenon DEF StoreInv, HistoryIsExact

\* The state store holds of every version what the decided blocks made, and a
\* query is answered with the state of its height as soon as nothing up to it
\* waits, although the changes are applied in the background, are sent before
\* the commit and are lost with a crash.
THEOREM QueriesAreExact == NodeSpec => []HistoryIsExact
<1>1. NodeInit => StoreInv
  BY StoreInit
<1>2. StoreInv /\ [NodeNext]_nodeVars => StoreInv'
  BY StoreNext
<1>3. StoreInv => HistoryIsExact
  BY StoreInvGives
<1> QED
  BY <1>1, <1>2, <1>3, PTL DEF NodeSpec

=============================================================================
