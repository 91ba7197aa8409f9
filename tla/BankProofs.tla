----------------------------- MODULE BankProofs -----------------------------
(***************************************************************************)
(* Proofs about the bank: no operation makes or loses coins, and vesting   *)
(* accounts hold what they have locked.  Balances and deposits are added   *)
(* up with SumFunctionOnSet, whose facts are in FoldProofs.                *)
(***************************************************************************)
EXTENDS Bank, FoldProofs

-----------------------------------------------------------------------------
(* Arithmetic.                                                             *)

\* Quotient and remainder, as the provers need them.
LEMMA DivMod ==
    ASSUME NEW n \in Int, NEW d \in Int, d > 0
    PROVE  n = d * (n \div d) + (n % d)
  BY SMTT(20)

\* The ranges of quotient and remainder, for what SplitUseiWeiAmount divides.
LEMMA Division ==
    ASSUME NEW n \in Nat, NEW d \in Nat \ {0}
    PROVE  /\ n \div d \in Nat /\ n % d \in Nat /\ n % d < d
           /\ n = d * (n \div d) + (n % d)
<1>1. n % d \in Nat /\ n % d < d
  OBVIOUS
<1>2. n \div d \in Nat
  OBVIOUS
<1>3. n \in Int /\ d \in Int /\ d > 0
  OBVIOUS
<1>. QED
  BY <1>1, <1>2, <1>3, DivMod, Zenon

\* A product with a sum.
LEMMA Distribute ==
    ASSUME NEW d \in Int, NEW x \in Int, NEW y \in Int
    PROVE  /\ d * (x + y) = d * x + d * y /\ d * (x - y) = d * x - d * y
           /\ d * x \in Int /\ d * x = x * d
  OBVIOUS

\* Dividing a multiple gives the factor and no remainder.
LEMMA WholeMultiple ==
    ASSUME NEW d \in Nat \ {0}, NEW q \in Int, NEW w \in Int, w = d * q
    PROVE  w % d = 0 /\ w \div d = q
  OBVIOUS

-----------------------------------------------------------------------------
(* Holdings.                                                               *)

Holding == [coins : Nat, wei : Nat]
Coins(H) == SumFunctionOnSet([h \in Holders |-> H[h].coins], Holders)
Wei(H) == SumFunctionOnSet([h \in Holders |-> H[h].wei], Holders)
Waiting(D) == SumFunctionOnSet(D, ModuleAccounts \X Txs)

\* All that the accounts have, in wei.
Worth(H) == OneUseiInWei * Coins(H) + Wei(H)

\* The accounts and the entries of the deferred cache are finitely many.
LEMMA FiniteHolders == IsFiniteSet(Holders) /\ IsFiniteSet(Txs) /\ IsFiniteSet(ModuleAccounts \X Txs)
<1>1. IsFiniteSet(Users) /\ IsFiniteSet(ModuleAccounts) /\ MaxTx \in Nat
  BY BankAssumption
<1>2. IsFiniteSet(Txs)
  BY <1>1, FiniteInterval DEF Txs
<1>. QED
  BY <1>1, <1>2, FiniteUnion, FiniteProduct, Zenon DEF Holders

\* All coins, all wei and their worth are natural numbers.
LEMMA SumsAreNat ==
    ASSUME NEW H \in [Holders -> Holding]
    PROVE  Coins(H) \in Nat /\ Wei(H) \in Nat /\ Worth(H) \in Nat
<1>1. Coins(H) \in Nat /\ Wei(H) \in Nat
  BY FiniteHolders, SumInt DEF Coins, Wei, Holding
<1>2. OneUseiInWei \in Nat
  BY BankAssumption
<1>. QED
  BY <1>1, <1>2 DEF Worth

\* One account's holding changes.
Sets(K, H, a, r) == K = [H EXCEPT ![a] = r]

\* The totals change by what one account's balance changes.
LEMMA SetHolding ==
    ASSUME NEW H \in [Holders -> Holding], NEW a \in Holders, NEW r \in Holding,
           NEW K, Sets(K, H, a, r)
    PROVE  /\ K \in [Holders -> Holding]
           /\ Coins(K) = Coins(H) - H[a].coins + r.coins
           /\ Wei(K) = Wei(H) - H[a].wei + r.wei
<1>1. K \in [Holders -> Holding] /\ K[a] = r /\ \A h \in Holders : h # a => K[h] = H[h]
  BY DEF Sets
<1>2. Coins(K) = Coins(H) - H[a].coins + r.coins
  <2> DEFINE f == [h \in Holders |-> H[h].coins]
             g == [h \in Holders |-> K[h].coins]
  <2>1. ChangesAt(f, g, a, Holders)
    BY <1>1 DEF ChangesAt, Holding
  <2>2. f[a] = H[a].coins /\ g[a] = r.coins
    BY <1>1
  <2>3. Coins(H) = SumFunctionOnSet(f, Holders) /\ Coins(K) = SumFunctionOnSet(g, Holders)
    BY DEF Coins
  <2> HIDE DEF f, g
  <2>4. SumFunctionOnSet(g, Holders) = SumFunctionOnSet(f, Holders) - f[a] + g[a]
    BY <2>1, FiniteHolders, SumUpdate
  <2>. QED
    BY <2>2, <2>3, <2>4
<1>3. Wei(K) = Wei(H) - H[a].wei + r.wei
  <2> DEFINE f == [h \in Holders |-> H[h].wei]
             g == [h \in Holders |-> K[h].wei]
  <2>1. ChangesAt(f, g, a, Holders)
    BY <1>1 DEF ChangesAt, Holding
  <2>2. f[a] = H[a].wei /\ g[a] = r.wei
    BY <1>1
  <2>3. Wei(H) = SumFunctionOnSet(f, Holders) /\ Wei(K) = SumFunctionOnSet(g, Holders)
    BY DEF Wei
  <2> HIDE DEF f, g
  <2>4. SumFunctionOnSet(g, Holders) = SumFunctionOnSet(f, Holders) - f[a] + g[a]
    BY <2>1, FiniteHolders, SumUpdate
  <2>. QED
    BY <2>2, <2>3, <2>4
<1>. QED
  BY <1>1, <1>2, <1>3

\* SubUnlockedCoins takes n coins from one account and no wei.
LEMMA SubIsSound ==
    ASSUME NEW H \in [Holders -> Holding], NEW a \in Holders, NEW n \in Nat, n <= H[a].coins
    PROVE  LET K == SubUnlockedCoins(H, a, n)
           IN /\ K \in [Holders -> Holding]
              /\ Coins(K) = Coins(H) - n /\ Wei(K) = Wei(H)
              /\ \A h \in Holders : K[h].wei = H[h].wei
<1> DEFINE r == [H[a] EXCEPT !.coins = @ - n]
           K == SubUnlockedCoins(H, a, n)
<1>1. Sets(K, H, a, r)
  BY DEF SubUnlockedCoins, Sets
<1>2. \A h \in Holders : K[h].wei = H[h].wei
  BY <1>1 DEF Sets, Holding
<1>3. r.coins = H[a].coins - n /\ r.wei = H[a].wei /\ H[a].coins \in Nat /\ H[a].wei \in Nat /\ r \in Holding
  BY DEF Holding
<1> HIDE DEF r, K
<1>4. /\ K \in [Holders -> Holding]
      /\ Coins(K) = Coins(H) - H[a].coins + r.coins
      /\ Wei(K) = Wei(H) - H[a].wei + r.wei
  BY <1>1, <1>3, SetHolding
<1>5. Coins(H) \in Nat /\ Wei(H) \in Nat
  BY SumsAreNat
<1>. QED
  BY <1>2, <1>3, <1>4, <1>5 DEF K

\* AddCoins gives n coins to one account and no wei.
LEMMA AddIsSound ==
    ASSUME NEW H \in [Holders -> Holding], NEW a \in Holders, NEW n \in Nat
    PROVE  LET K == AddCoins(H, a, n)
           IN /\ K \in [Holders -> Holding]
              /\ Coins(K) = Coins(H) + n /\ Wei(K) = Wei(H)
              /\ \A h \in Holders : K[h].wei = H[h].wei
<1> DEFINE r == [H[a] EXCEPT !.coins = @ + n]
           K == AddCoins(H, a, n)
<1>1. Sets(K, H, a, r)
  BY DEF AddCoins, Sets
<1>2. \A h \in Holders : K[h].wei = H[h].wei
  BY <1>1 DEF Sets, Holding
<1>3. r.coins = H[a].coins + n /\ r.wei = H[a].wei /\ H[a].coins \in Nat /\ H[a].wei \in Nat /\ r \in Holding
  BY DEF Holding
<1> HIDE DEF r, K
<1>4. /\ K \in [Holders -> Holding]
      /\ Coins(K) = Coins(H) - H[a].coins + r.coins
      /\ Wei(K) = Wei(H) - H[a].wei + r.wei
  BY <1>1, <1>3, SetHolding
<1>5. Coins(H) \in Nat /\ Wei(H) \in Nat
  BY SumsAreNat
<1>. QED
  BY <1>2, <1>3, <1>4, <1>5 DEF K

\* SendCoins, and every other move of coins between two accounts.
LEMMA MoveIsSound ==
    ASSUME NEW H \in [Holders -> Holding], NEW a \in Holders, NEW b \in Holders,
           NEW n \in Nat, n <= H[a].coins
    PROVE  LET K == AddCoins(SubUnlockedCoins(H, a, n), b, n)
           IN /\ K \in [Holders -> Holding]
              /\ Coins(K) = Coins(H) /\ Wei(K) = Wei(H)
              /\ \A h \in Holders : K[h].wei = H[h].wei
<1> DEFINE S == SubUnlockedCoins(H, a, n)
           K == AddCoins(S, b, n)
<1>1. /\ S \in [Holders -> Holding]
      /\ Coins(S) = Coins(H) - n /\ Wei(S) = Wei(H)
      /\ \A h \in Holders : S[h].wei = H[h].wei
  BY SubIsSound
<1> HIDE DEF S
<1>2. /\ K \in [Holders -> Holding]
      /\ Coins(K) = Coins(S) + n /\ Wei(K) = Wei(S)
      /\ \A h \in Holders : K[h].wei = S[h].wei
  BY <1>1, AddIsSound
<1>3. Coins(H) \in Nat
  BY SumsAreNat
<1> HIDE DEF K
<1>. QED
  BY <1>1, <1>2, <1>3 DEF K, S

\* SubWei takes exactly w, borrowing from the coins, and AddWei gives exactly w.
InWei(r) == OneUseiInWei * r.coins + r.wei

\* The worth of a balance is a natural number.
LEMMA InWeiIsNat == ASSUME NEW r \in Holding PROVE InWei(r) \in Nat
  BY BankAssumption DEF InWei, Holding

\* SplitUseiWeiAmount loses nothing and leaves less than a coin in wei.
LEMMA SplitIsExact ==
    ASSUME NEW n \in Nat
    PROVE  LET r == SplitUseiWeiAmount(n)
           IN r \in Holding /\ r.wei < OneUseiInWei /\ InWei(r) = n
<1>1. OneUseiInWei \in Nat \ {0}
  BY BankAssumption
<1> DEFINE q == n \div OneUseiInWei
           m == n % OneUseiInWei
<1>3. SplitUseiWeiAmount(n) = [coins |-> q, wei |-> m]
  BY DEF SplitUseiWeiAmount
<1>4. q \in Nat /\ m \in Nat /\ m < OneUseiInWei /\ n = OneUseiInWei * q + m
  BY <1>1, Division, Zenon
<1> HIDE DEF q, m
<1> DEFINE r == SplitUseiWeiAmount(n)
<1>5. r.coins = q /\ r.wei = m /\ r \in Holding
  BY <1>3, <1>4 DEF Holding
<1> HIDE DEF r
<1>6. InWei(r) = n
  BY <1>4, <1>5 DEF InWei
<1>. QED
  BY <1>4, <1>5, <1>6 DEF r

\* SubWei takes w wei, breaking up coins where it must.
LEMMA SubWeiIsExact ==
    ASSUME NEW r \in Holding, r.wei < OneUseiInWei, NEW w \in Nat, w <= r.coins * OneUseiInWei + r.wei
    PROVE  SubWei(r, w) \in Holding /\ SubWei(r, w).wei < OneUseiInWei /\ InWei(SubWei(r, w)) = InWei(r) - w
<1>1. OneUseiInWei \in Nat /\ r.coins \in Nat /\ r.wei \in Nat
  BY BankAssumption DEF Holding
<1>2. r.coins * OneUseiInWei = OneUseiInWei * r.coins /\ OneUseiInWei * r.coins \in Nat
  BY <1>1
<1>3. CASE w <= r.wei
  <2>1. SubWei(r, w) = [r EXCEPT !.wei = @ - w]
    BY <1>3 DEF SubWei
  <2>2. SubWei(r, w) = [coins |-> r.coins, wei |-> r.wei - w]
    BY <2>1 DEF Holding
  <2>. QED
    BY <1>1, <1>2, <1>3, <2>2 DEF Holding, InWei
<1>4. CASE ~(w <= r.wei)
  <2> DEFINE n == r.coins * OneUseiInWei + r.wei - w
  <2>1. n \in Nat /\ n = InWei(r) - w
    BY <1>1, <1>2 DEF InWei
  <2>2. SubWei(r, w) = SplitUseiWeiAmount(n)
    BY <1>4 DEF SubWei
  <2> HIDE DEF n
  <2>. QED
    BY <2>1, <2>2, SplitIsExact
<1>. QED
  BY <1>3, <1>4

\* AddWei gives w wei, carrying whole coins over.
LEMMA AddWeiIsExact ==
    ASSUME NEW r \in Holding, r.wei < OneUseiInWei, NEW w \in Nat
    PROVE  AddWei(r, w) \in Holding /\ AddWei(r, w).wei < OneUseiInWei /\ InWei(AddWei(r, w)) = InWei(r) + w
<1>1. OneUseiInWei \in Nat /\ r.coins \in Nat /\ r.wei \in Nat
  BY BankAssumption DEF Holding
<1>2. OneUseiInWei * r.coins \in Nat
  BY <1>1
<1>3. CASE r.wei + w < OneUseiInWei
  <2>1. AddWei(r, w) = [r EXCEPT !.wei = @ + w]
    BY <1>3 DEF AddWei
  <2>2. AddWei(r, w) = [coins |-> r.coins, wei |-> r.wei + w]
    BY <2>1 DEF Holding
  <2>. QED
    BY <1>1, <1>2, <1>3, <2>2 DEF Holding, InWei
<1>4. CASE ~(r.wei + w < OneUseiInWei)
  <2> DEFINE s == SplitUseiWeiAmount(r.wei + w)
  <2>1. AddWei(r, w) = [coins |-> r.coins + s.coins, wei |-> s.wei]
    BY <1>4 DEF AddWei
  <2>2. s \in Holding /\ s.wei < OneUseiInWei /\ InWei(s) = r.wei + w
    <3>1. r.wei + w \in Nat
      BY <1>1
    <3>. QED
      BY <3>1, SplitIsExact
  <2> HIDE DEF s
  <2>3. s.coins \in Nat /\ s.wei \in Nat
    BY <2>2 DEF Holding
  <2>4. OneUseiInWei * (r.coins + s.coins) = OneUseiInWei * r.coins + OneUseiInWei * s.coins /\ OneUseiInWei * s.coins \in Int
    BY <1>1, <2>3, Distribute
  <2>5. AddWei(r, w).coins = r.coins + s.coins /\ AddWei(r, w).wei = s.wei /\ AddWei(r, w) \in Holding
    BY <1>1, <2>1, <2>3 DEF Holding
  <2>6. OneUseiInWei * s.coins + s.wei = r.wei + w
    BY <2>2 DEF InWei
  <2> DEFINE x == OneUseiInWei * r.coins
             y == OneUseiInWei * s.coins
  <2>7. x \in Nat /\ y \in Int /\ y + s.wei = r.wei + w /\ InWei(r) = x + r.wei
    BY <1>2, <2>4, <2>6, Zenon DEF InWei
  <2>8. InWei(AddWei(r, w)) = (x + y) + s.wei
    BY <2>4, <2>5, Zenon DEF InWei
  <2> HIDE DEF x, y
  <2>9. (x + y) + s.wei = (x + r.wei) + w
    <3>1. w \in Nat
      OBVIOUS
    <3>. QED
      BY ONLY <1>1, <2>3, <2>7, <3>1
  <2>. QED
    BY <2>2, <2>5, <2>7, <2>8, <2>9, Zenon
<1>. QED
  BY <1>3, <1>4

\* The worth of all balances changes by that of the one that is set.
LEMMA SetWorth ==
    ASSUME NEW H \in [Holders -> Holding], NEW a \in Holders, NEW r \in Holding,
           NEW K, Sets(K, H, a, r)
    PROVE  Worth(K) = Worth(H) - InWei(H[a]) + InWei(r)
<1>1. /\ Coins(K) = Coins(H) - H[a].coins + r.coins
      /\ Wei(K) = Wei(H) - H[a].wei + r.wei
  BY SetHolding
<1>2. /\ Coins(H) \in Int /\ Wei(H) \in Int /\ OneUseiInWei \in Int
      /\ H[a].coins \in Int /\ H[a].wei \in Int /\ r.coins \in Int /\ r.wei \in Int
  BY SumsAreNat, BankAssumption DEF Holding
<1>3. OneUseiInWei * Coins(K) = OneUseiInWei * Coins(H) - OneUseiInWei * H[a].coins + OneUseiInWei * r.coins
  <2>1. Coins(H) - H[a].coins \in Int
    BY <1>2
  <2>. QED
    BY <1>1, <1>2, <2>1, Distribute
<1>4. OneUseiInWei * Coins(H) \in Int /\ OneUseiInWei * H[a].coins \in Int /\ OneUseiInWei * r.coins \in Int
  BY <1>2
<1>. QED
  BY <1>1, <1>2, <1>3, <1>4 DEF Worth, InWei

\* The coins and the wei of all accounts and what waits in the deferred cache
\* make up the supply s.
Conserved(H, D, s) == Worth(H) + OneUseiInWei * Waiting(D) = OneUseiInWei * s

Deferrals == [ModuleAccounts \X Txs -> Nat]

\* Without wei and with nothing deferred, the supply is the sum of the balances.
LEMMA WorthOfCoins ==
    ASSUME NEW H, NEW D, NEW s \in Nat, Coins(H) = s, Wei(H) = 0, Waiting(D) = 0
    PROVE  Conserved(H, D, s)
<1>1. OneUseiInWei \in Nat
  BY BankAssumption, Zenon
<1>. QED
  BY <1>1 DEF Conserved, Worth

\* What waits in the deferred cache is a natural number.
LEMMA WaitingIsNat == ASSUME NEW D \in Deferrals PROVE Waiting(D) \in Nat
  BY FiniteHolders, SumInt DEF Waiting, Deferrals

\* Coins, deferred coins and supply may change together by amounts that add up.
LEMMA Balanced ==
    ASSUME NEW H \in [Holders -> Holding], NEW K \in [Holders -> Holding],
           NEW D \in Deferrals, NEW E \in Deferrals, NEW s \in Int, NEW t \in Int,
           NEW i \in Int, NEW j \in Int,
           Conserved(H, D, s),
           Coins(K) = Coins(H) + i, Wei(K) = Wei(H), Waiting(E) = Waiting(D) + j, t = s + i + j
    PROVE  Conserved(K, E, t)
<1> DEFINE o == OneUseiInWei
           c == Coins(H)
           w == Wei(H)
           d == Waiting(D)
<1>1. o \in Int /\ c \in Int /\ w \in Int /\ d \in Int
  BY SumsAreNat, WaitingIsNat, BankAssumption
<1>2. (o * c + w) + o * d = o * s
  BY DEF Conserved, Worth
<1>3. /\ Worth(K) = o * (c + i) + w /\ Waiting(E) = d + j
  BY DEF Worth
<1>4. Conserved(K, E, t) <=> (o * (c + i) + w) + o * (d + j) = o * ((s + i) + j)
  BY <1>3, Zenon DEF Conserved
<1> HIDE DEF o, c, w, d
<1>5. o * (c + i) = o * c + o * i /\ o * (d + j) = o * d + o * j /\ o * ((s + i) + j) = (o * s + o * i) + o * j
  <2>1. s + i \in Int
    OBVIOUS
  <2>. QED
    BY <1>1, <2>1, Distribute
<1>6. o * c \in Int /\ o * i \in Int /\ o * d \in Int /\ o * j \in Int /\ o * s \in Int
  BY <1>1, Distribute
<1>7. (o * (c + i) + w) + o * (d + j) = o * ((s + i) + j)
  <2> DEFINE oc == o * c
             oi == o * i
             od == o * d
             oj == o * j
             os == o * s
  <2>1. oc \in Int /\ oi \in Int /\ od \in Int /\ oj \in Int /\ os \in Int /\ w \in Int /\ (oc + w) + od = os
    BY <1>1, <1>2, <1>6
  <2>2. ((oc + oi) + w) + (od + oj) = (os + oi) + oj
    <3> HIDE DEF oc, oi, od, oj, os
    <3>. QED
      BY ONLY <2>1
  <2>. QED
    BY ONLY <1>5, <2>2
<1>. QED
  BY <1>4, <1>7

\* The invariant of the module follows.
LEMMA ConservedIsTotal ==
    ASSUME NEW H \in [Holders -> Holding], NEW D \in Deferrals, NEW s \in Int, Conserved(H, D, s)
    PROVE  /\ s \in Nat
           /\ Wei(H) % OneUseiInWei = 0
           /\ s = Coins(H) + Waiting(D) + Wei(H) \div OneUseiInWei
<1> DEFINE o == OneUseiInWei
           c == Coins(H)
           w == Wei(H)
           d == Waiting(D)
<1>1. o \in Nat \ {0} /\ c \in Nat /\ w \in Nat /\ d \in Nat
  BY SumsAreNat, WaitingIsNat, BankAssumption
<1>2. (o * c + w) + o * d = o * s
  BY DEF Conserved, Worth
<1> HIDE DEF o, c, w, d
<1>3. w = o * ((s - c) - d)
  <2>1. o * ((s - c) - d) = (o * s - o * c) - o * d
    <3>1. o \in Int /\ c \in Int /\ d \in Int /\ s - c \in Int
      BY <1>1
    <3>. QED
      BY <3>1, Distribute
  <2>2. o * c \in Int /\ o * d \in Int /\ o * s \in Int
    BY <1>1
  <2> DEFINE oc == o * c
             od == o * d
             os == o * s
  <2>3. w = (os - oc) - od
    <3>1. oc \in Int /\ od \in Int /\ os \in Int /\ w \in Int /\ (oc + w) + od = os
      BY <1>1, <1>2, <2>2
    <3> HIDE DEF oc, od, os
    <3>. QED
      BY ONLY <3>1
  <2>. QED
    BY ONLY <2>1, <2>3
<1>4. w % o = 0 /\ w \div o = (s - c) - d
  <2>1. (s - c) - d \in Int /\ w \in Int
    BY <1>1
  <2>. QED
    BY <1>1, <1>3, <2>1, WholeMultiple
<1>5. w \div o \in Nat
  BY <1>1
<1>6. s = (c + d) + w \div o /\ s \in Nat
  <2> DEFINE q == w \div o
  <2>1. q \in Nat /\ q = (s - c) - d
    BY <1>4, <1>5
  <2> HIDE DEF q
  <2>2. s = (c + d) + q /\ s \in Nat
    BY <1>1, <2>1
  <2>. QED
    BY <2>2 DEF q
<1>. QED
  BY <1>4, <1>6, Zenon DEF o, c, d, w

-----------------------------------------------------------------------------
(* Vesting accounts.                                                       *)

\* Dec.RoundInt of a natural number is one.
LEMMA RoundIntIsNat ==
    ASSUME NEW n \in Nat, NEW d \in Nat \ {0}
    PROVE  RoundInt(n, d) \in Nat
<1>1. n \div d \in Nat /\ n % d \in Nat
  BY Division
<1>. QED
  BY <1>1 DEF RoundInt

\* An element of a sequence.
LEMMA ElementOf == ASSUME NEW X, NEW p \in Seq(X), NEW i \in 1..Len(p) PROVE p[i] \in X
  OBVIOUS

\* Some periods of an account have no more than all of them.
LEMMA PeriodAmountIsNat ==
    ASSUME NEW acc \in Accounts, NEW S \in SUBSET (1..Len(acc.periods))
    PROVE  /\ IsFiniteSet(S)
           /\ PeriodAmount(acc.periods, S) \in Nat /\ PeriodLength(acc.periods, S) \in Nat
           /\ PeriodAmount(acc.periods, S) <= PeriodAmount(acc.periods, 1..Len(acc.periods))
           /\ PeriodLength(acc.periods, S) <= PeriodLength(acc.periods, 1..Len(acc.periods))
<1> DEFINE p == acc.periods
           L == [i \in DOMAIN p |-> p[i].length]
           A == [i \in DOMAIN p |-> p[i].amount]
           I == 1..Len(p)
<1>1. p \in Seq([length : Nat, amount : Nat])
  BY DEF Accounts, Periods
<1>2. DOMAIN p = I /\ Len(p) \in Nat
  BY <1>1
<1>3. \A i \in I : L[i] \in Nat /\ A[i] \in Nat
  <2>1. \A i \in DOMAIN p : p[i] \in [length : Nat, amount : Nat]
    <3> HIDE DEF p
    <3>. QED
      BY <1>1, <1>2, ElementOf, Zenon
  <2>2. \A i \in I : L[i] = p[i].length /\ A[i] = p[i].amount
    BY <1>2
  <2> HIDE DEF p, I, L, A
  <2>. QED
    BY <1>2, <2>1, <2>2
<1>4. IsFiniteSet(I) /\ IsFiniteSet(S)
  <2>1. IsFiniteSet(I)
    <3>1. 1 \in Int /\ Len(p) \in Int
      BY <1>2
    <3> HIDE DEF p
    <3> QED
      BY <3>1, FiniteInterval, Zenon
  <2>. QED
    BY <2>1, FiniteSubset, Zenon
<1>5. S \subseteq I
  OBVIOUS
<1>6. /\ PeriodAmount(p, S) = SumFunctionOnSet(A, S) /\ PeriodAmount(p, I) = SumFunctionOnSet(A, I)
      /\ PeriodLength(p, S) = SumFunctionOnSet(L, S) /\ PeriodLength(p, I) = SumFunctionOnSet(L, I)
  BY DEF PeriodAmount, PeriodLength
<1> HIDE DEF p, I, A, L
<1>7. /\ SumFunctionOnSet(A, S) \in Nat /\ SumFunctionOnSet(A, S) <= SumFunctionOnSet(A, I)
      /\ SumFunctionOnSet(L, S) \in Nat /\ SumFunctionOnSet(L, S) <= SumFunctionOnSet(L, I)
  BY <1>3, <1>4, <1>5, SumSubset, Zenon
<1>8. /\ PeriodAmount(p, S) \in Nat /\ PeriodLength(p, S) \in Nat
      /\ PeriodAmount(p, S) <= PeriodAmount(p, I)
      /\ PeriodLength(p, S) <= PeriodLength(p, I)
  BY <1>6, <1>7
<1>. QED
  BY <1>4, <1>8 DEF p, I

\* What a continuous account has vested is a natural number.
LEMMA ContinuousIsNat ==
    ASSUME NEW acc \in Accounts, NEW t \in Nat
    PROVE  ContinuousVested(acc, t) \in Nat
<1>1. acc.ov \in Nat /\ acc.start \in Nat /\ acc.end \in Nat
  BY DEF Accounts
<1>2. CASE acc.start < t /\ t < acc.end
  <2>1. acc.ov * (t - acc.start) \in Nat /\ acc.end - acc.start \in Nat \ {0}
    BY <1>1, <1>2
  <2>. QED
    BY <1>1, <2>1, RoundIntIsNat DEF ContinuousVested
<1>. QED
  BY <1>1, <1>2 DEF ContinuousVested

\* What any account has vested is a natural number.
LEMMA VestedIsNat ==
    ASSUME NEW acc \in Accounts, NEW t \in Nat
    PROVE  GetVestedCoins(acc, t) \in Nat
<1>1. acc.ov \in Nat /\ acc.start \in Nat /\ acc.end \in Nat /\ acc.kind \in Kinds
  BY DEF Accounts
<1>2. ContinuousVested(acc, t) \in Nat
  BY ContinuousIsNat
<1>3. PeriodicVested(acc, t) \in Nat
  <2>1. PeriodsOver(acc.periods, t - acc.start) \in SUBSET (1..Len(acc.periods))
    BY DEF PeriodsOver
  <2>2. PeriodAmount(acc.periods, PeriodsOver(acc.periods, t - acc.start)) \in Nat
    BY <2>1, PeriodAmountIsNat, Zenon
  <2>. QED
    BY <1>1, <2>2 DEF PeriodicVested
<1>4. DelayedVested(acc, t) \in Nat
  BY <1>1 DEF DelayedVested
<1>. QED
  BY <1>2, <1>3, <1>4 DEF GetVestedCoins

\* LockedCoins never returns a negative amount.
LEMMA LockedIsNat ==
    ASSUME NEW acc \in Accounts, NEW t \in Nat
    PROVE  GetVestingCoins(acc, t) \in Int /\ LockedCoins(acc, t) \in Nat
<1>1. GetVestedCoins(acc, t) \in Nat /\ acc.ov \in Nat /\ acc.dv \in Nat
  BY VestedIsNat DEF Accounts
<1>. QED
  BY <1>1 DEF GetVestingCoins, LockedCoins, Least

\* An account remains one when its delegated amounts change.
LEMMA AccountUpdate ==
    ASSUME NEW acc \in Accounts, NEW v \in Nat, NEW w \in Nat
    PROVE  [acc EXCEPT !.dv = v, !.df = w] \in Accounts /\ [acc EXCEPT !.df = w, !.dv = v] \in Accounts
  BY Zenon DEF Accounts

\* What of a delegation TrackDelegation takes from the locked coins.
LockedShare(acc, t, n) == Least(Most(GetVestingCoins(acc, t) - acc.dv, 0), n)

\* TrackDelegation adds the delegated amount, part of it to the locked coins.
LEMMA TrackDelegationIs ==
    ASSUME NEW acc \in Accounts, NEW t \in Nat, NEW n \in Nat
    PROVE  /\ TrackDelegation(acc, t, n) \in Accounts
           /\ LockedShare(acc, t, n) \in 0..n
           /\ TrackDelegation(acc, t, n) =
                  [acc EXCEPT !.dv = acc.dv + LockedShare(acc, t, n), !.df = acc.df + (n - LockedShare(acc, t, n))]
<1> DEFINE x == LockedShare(acc, t, n)
<1>1. GetVestingCoins(acc, t) \in Int
  BY LockedIsNat
<1>2. x \in 0..n
  BY <1>1 DEF LockedShare, Least, Most, Accounts
<1>3. TrackDelegation(acc, t, n) = [acc EXCEPT !.dv = acc.dv + x, !.df = acc.df + (n - x)]
  BY DEF TrackDelegation, LockedShare
<1> HIDE DEF x
<1>4. acc.dv + x \in Nat /\ acc.df + (n - x) \in Nat
  BY <1>2 DEF Accounts
<1>5. [acc EXCEPT !.dv = acc.dv + x, !.df = acc.df + (n - x)] \in Accounts
  BY <1>4, AccountUpdate, Zenon
<1>. QED
  BY <1>2, <1>3, <1>5, Zenon DEF x

\* TrackUndelegation takes no more than there is, from the free coins first.
LEMMA TrackUndelegationIs ==
    ASSUME NEW acc \in Accounts, NEW n \in Nat
    PROVE  LET acc2 == TrackUndelegation(acc, n)
               x == Least(acc.df, n)
               y == Least(acc.dv, n - x)
           IN /\ acc2 \in Accounts
              /\ x \in 0..n /\ y \in 0..(n - x) /\ acc2.dv = acc.dv - y /\ acc2.df = acc.df - x
              /\ acc2 = [acc EXCEPT !.df = acc.df - x, !.dv = acc.dv - y]
<1> DEFINE x == Least(acc.df, n)
           y == Least(acc.dv, n - x)
<1>1. acc.dv \in Nat /\ acc.df \in Nat
  BY DEF Accounts
<1>2. x \in 0..n /\ y \in 0..(n - x) /\ x <= acc.df /\ y <= acc.dv
  BY <1>1 DEF Least
<1>3. TrackUndelegation(acc, n) = [acc EXCEPT !.df = acc.df - x, !.dv = acc.dv - y]
  BY DEF TrackUndelegation
<1> HIDE DEF x, y
<1>4. [acc EXCEPT !.df = acc.df - x, !.dv = acc.dv - y] \in Accounts
  <2>1. acc.df - x \in Nat /\ acc.dv - y \in Nat
    BY <1>1, <1>2
  <2>. QED
    BY <2>1, AccountUpdate, Zenon
<1>5. /\ [acc EXCEPT !.df = acc.df - x, !.dv = acc.dv - y].dv = acc.dv - y
      /\ [acc EXCEPT !.df = acc.df - x, !.dv = acc.dv - y].df = acc.df - x
  BY DEF Accounts
<1>. QED
  BY <1>2, <1>3, <1>4, <1>5, Zenon DEF x, y

-----------------------------------------------------------------------------
(* Coins are conserved.                                                    *)

BInv ==
    /\ BankTypeOK
    /\ WeiIsAFraction
    /\ Conserved(hold, deferred, supply)

\* The types that the bank's helpers need.
LEMMA Types ==
    ASSUME BankTypeOK
    PROVE  /\ hold \in [Holders -> Holding] /\ deferred \in Deferrals
           /\ accounts \in [Users -> Accounts] /\ time \in Nat /\ supply \in Nat
  BY BankAssumption DEF BankTypeOK, Holding, Deferrals

\* A user's account is not a module's.
LEMMA UserIsHolder == ASSUME NEW u \in Users PROVE u \in Holders /\ u \notin ModuleAccounts
  BY BankAssumption DEF Holders

\* The constants are what their names say.
LEMMA ConstantTypes ==
    /\ MaxTime \in Nat /\ 0..MaxTime \subseteq Nat /\ 0 \in 0..MaxTime
    /\ MaxEntry \in Nat /\ 0..MaxEntry \subseteq Nat
    /\ 0 \in Txs
    /\ \A n \in Amounts : n \in Nat /\ n > 0
    /\ 0..MaxAmount \subseteq Nat
    /\ OneUseiInWei \in Nat \ {0} /\ 1..OneUseiInWei \subseteq Nat /\ 0 < OneUseiInWei
    /\ Pool \in ModuleAccounts /\ Pool \in Holders
    /\ ModuleAccounts \subseteq Holders
<1>1. {MaxAmount, MaxEntry, MaxTx, MaxTime} \subseteq Nat /\ OneUseiInWei \in Nat \ {0} /\ Pool \in ModuleAccounts
  BY BankAssumption, Zenon
<1>. QED
  BY <1>1 DEF Amounts, Txs, Holders

\* The types of what the vesting argument reads.
LEMMA VestingTypes ==
    ASSUME BankTypeOK
    PROVE  /\ hold \in [Holders -> Holding] /\ accounts \in [Users -> Accounts] /\ staked \in [Users -> Nat]
           /\ time \in 0..MaxTime
           /\ setup.weiSenders \subseteq Users /\ setup.creators \subseteq Users /\ setup.delegators \subseteq Users
  BY BankAssumption, Zenon DEF BankTypeOK, Holding

\* Who gets more has no less.
LEMMA StillMore == ASSUME NEW c \in Nat, NEW d \in Nat, NEW n \in Nat, d >= c PROVE c <= d + n
  OBVIOUS

\* Who had n coins, or gets them, has them.
LEMMA Received ==
    ASSUME NEW c \in Nat, NEW n \in Nat, NEW d, d = c \/ d = c + n, n <= c \/ d = c + n
    PROVE  d \in Nat /\ n <= d
  OBVIOUS

\* A stake that is slashed by no more than it is does not grow.
LEMMA Slashed ==
    ASSUME NEW s \in Nat, NEW n \in Nat, NEW r, r = s \/ (r = s - n /\ s >= n)
    PROVE  r \in Nat /\ r <= s
  OBVIOUS

\* A stake that covers a positive amount is positive.
LEMMA AtLeast == ASSUME NEW s \in Nat, NEW n \in Nat, n > 0, s >= n PROVE n <= s /\ s # 0
  OBVIOUS

\* Who keeps its coins, or spends what is not locked, has what is.
LEMMA SpentFrom ==
    ASSUME NEW c \in Nat, NEW l \in Nat, NEW n \in Nat, NEW d, l <= c, d = c \/ (d = c - n /\ n <= c - l)
    PROVE  d \in Nat /\ l <= d
  OBVIOUS

\* A range from 0 starts with 0.
LEMMA ZeroIsLeast == ASSUME NEW n \in Nat PROVE 0 \in 0..n
  OBVIOUS

\* A second passes, up to MaxTime.
LEMMA NextTime ==
    ASSUME NEW t \in 0..MaxTime
    PROVE  /\ Least(t + 1, MaxTime) \in 0..MaxTime
           /\ Least(t + 1, MaxTime) = t \/ Least(t + 1, MaxTime) = t + 1
  BY ConstantTypes DEF Least

\* What is left after spending n of c coins, l of them locked, and receiving m.
LEMMA SpendingKeepsLocked ==
    ASSUME NEW c \in Nat, NEW l \in Nat, NEW n \in Nat, NEW m \in Nat, l <= c, n > 0 => n <= c - l
    PROVE  c - n + m \in Nat /\ l <= c - n + m
  OBVIOUS

\* The coins of the holders after a move.
LEMMA MovedCoins ==
    ASSUME NEW H \in [Holders -> Holding], NEW a \in Holders, NEW b \in Holders, NEW n \in Nat
    PROVE  \A h \in Holders :
               AddCoins(SubUnlockedCoins(H, a, n), b, n)[h].coins
                 = H[h].coins - (IF h = a THEN n ELSE 0) + (IF h = b THEN n ELSE 0)
<1> SUFFICES ASSUME NEW h \in Holders
             PROVE  AddCoins(SubUnlockedCoins(H, a, n), b, n)[h].coins
                      = H[h].coins - (IF h = a THEN n ELSE 0) + (IF h = b THEN n ELSE 0)
  OBVIOUS
<1> DEFINE S == SubUnlockedCoins(H, a, n)
<1>1. /\ S[h].coins = H[h].coins - (IF h = a THEN n ELSE 0) /\ H[h].coins \in Nat
      /\ DOMAIN S = Holders /\ "coins" \in DOMAIN S[h]
  BY DEF SubUnlockedCoins, Holding
<1> HIDE DEF S
<1>2. AddCoins(S, b, n)[h].coins = S[h].coins + (IF h = b THEN n ELSE 0)
  BY <1>1 DEF AddCoins
<1>. QED
  BY <1>1, <1>2 DEF S

\* K is H after a move of n coins from a to b.
Moves(H, K, a, b, n) ==
    /\ H \in [Holders -> Holding] /\ a \in Holders /\ b \in Holders /\ n \in Nat
    /\ K = AddCoins(SubUnlockedCoins(H, a, n), b, n)

\* What h has in K, if K is H after such a move.
MovedAt(H, K, a, b, n, h) ==
    /\ h # a /\ h # b => K[h].coins = H[h].coins
    /\ h = a /\ h # b => K[h].coins = H[h].coins - n
    /\ h # a /\ h = b => K[h].coins = H[h].coins + n
    /\ h = a /\ h = b => K[h].coins = H[h].coins

\* The same, holder by holder.
LEMMA MovedCoinsOf ==
    ASSUME NEW H, NEW K, NEW a, NEW b, NEW n, Moves(H, K, a, b, n), NEW h \in Holders
    PROVE  MovedAt(H, K, a, b, n, h)
<1> DEFINE c == K[h].coins
<1>0. /\ H \in [Holders -> Holding] /\ a \in Holders /\ b \in Holders /\ n \in Nat
      /\ K = AddCoins(SubUnlockedCoins(H, a, n), b, n)
  BY Zenon DEF Moves
<1>1. c = H[h].coins - (IF h = a THEN n ELSE 0) + (IF h = b THEN n ELSE 0)
  BY <1>0, MovedCoins
<1>2. H[h].coins \in Nat
  BY <1>0, Zenon DEF Holding
<1> HIDE DEF c
<1>3. /\ h # a /\ h # b => c = H[h].coins
      /\ h = a /\ h # b => c = H[h].coins - n
      /\ h # a /\ h = b => c = H[h].coins + n
      /\ h = a /\ h = b => c = H[h].coins
  BY <1>0, <1>1, <1>2
<1>. QED
  BY <1>3, Zenon DEF c, MovedAt

\* What SubUnlockedCoins lets an account spend it holds.
LEMMA SpendableIsHeld ==
    ASSUME BankTypeOK, NEW a \in Holders, NEW n \in Nat
    PROVE  /\ hold[a].coins \in Nat /\ Locked(a) \in Nat
           /\ CanSub(a, n) => n <= hold[a].coins
<1>1. hold[a].coins \in Nat
  BY Types DEF Holding
<1>2. Locked(a) \in Nat
  BY Types, LockedIsNat DEF Locked
<1>. QED
  BY <1>1, <1>2 DEF CanSub

\* An account remains one when its kind becomes base.
LEMMA BaseAccount ==
    ASSUME NEW acc \in Accounts
    PROVE  [acc EXCEPT !.kind = "base"] \in Accounts
<1>1. "base" \in Kinds
  BY DEF Kinds
<1>. QED
  BY <1>1, Zenon DEF Accounts

\* SendCoins leaves proper accounts.
LEMMA WithAccountType == ASSUME BankTypeOK, NEW b PROVE WithAccount(b) \in [Users -> Accounts]
<1>1. accounts \in [Users -> Accounts]
  BY Types
<1>2. CASE b \in Users /\ accounts[b].kind = "none"
  <2>1. WithAccount(b) = [accounts EXCEPT ![b] = [accounts[b] EXCEPT !.kind = "base"]]
    BY <1>2 DEF WithAccount
  <2>2. [accounts[b] EXCEPT !.kind = "base"] \in Accounts
    BY <1>1, <1>2, BaseAccount
  <2>. QED
    BY <1>1, <2>1, <2>2, Zenon
<1>. QED
  BY <1>1, <1>2 DEF WithAccount

\* A step that moves coins between accounts and leaves all else but the
\* accounts' records alone.
LEMMA MovedInv ==
    ASSUME BInv, NEW a \in Holders, NEW b \in Holders, NEW n \in Nat, n <= hold[a].coins,
           hold' = AddCoins(SubUnlockedCoins(hold, a, n), b, n),
           accounts' \in [Users -> Accounts], staked' \in [Users -> Nat],
           UNCHANGED <<setup, supply, deferred, time, txIndex, minted>>
    PROVE  BInv'
<1>1. hold \in [Holders -> Holding] /\ deferred \in Deferrals /\ supply \in Int
  BY Types DEF BInv
<1>2. /\ hold' \in [Holders -> Holding]
      /\ Coins(hold') = Coins(hold) /\ Wei(hold') = Wei(hold)
      /\ \A h \in Holders : hold'[h].wei = hold[h].wei
  BY <1>1, MoveIsSound
<1>3. WeiIsAFraction'
  BY <1>2 DEF BInv, WeiIsAFraction
<1>4. Conserved(hold', deferred', supply')
  <2>1. Coins(hold) \in Nat /\ Waiting(deferred) \in Nat
    BY <1>1, SumsAreNat, WaitingIsNat
  <2>2. Coins(hold') = Coins(hold) + 0 /\ Waiting(deferred') = Waiting(deferred) + 0 /\ supply' = supply + 0 + 0
    BY <1>1, <1>2, <2>1
  <2>3. Conserved(hold, deferred, supply) /\ deferred' \in Deferrals /\ supply' \in Int
    BY <1>1, Zenon DEF BInv
  <2>4. 0 \in Int
    OBVIOUS
  <2>. QED
    BY <1>1, <1>2, <2>2, <2>3, <2>4, Balanced, Zenon
<1>5. BankTypeOK'
  BY <1>2, Zenon DEF BInv, BankTypeOK, Holding
<1>. QED
  BY <1>3, <1>4, <1>5 DEF BInv

\* SendCoins keeps the invariant.
LEMMA SendCoinsInv ==
    ASSUME BInv, NEW a \in Holders, NEW b \in Holders, NEW n \in Amounts, SendCoins(a, b, n)
    PROVE  BInv'
<1>1. n \in Nat /\ BankTypeOK
  BY SMTT(30) DEF Amounts, BInv
<1>2. n <= hold[a].coins
  BY <1>1, SpendableIsHeld DEF SendCoins
<1>3. accounts' \in [Users -> Accounts] /\ staked' \in [Users -> Nat]
  BY <1>1, WithAccountType DEF SendCoins, BankTypeOK
<1>. QED
  BY <1>1, <1>2, <1>3, MovedInv DEF SendCoins

\* CreateVestingAccount keeps it.
LEMMA CreateInv ==
    ASSUME BInv, NEW a \in Users, NEW b \in Users, NEW n \in Amounts,
           NEW end \in 1..MaxTime, NEW delayed \in BOOLEAN,
           CreateVestingAccount(a, b, n, end, delayed)
    PROVE  BInv'
<1>1. n \in Nat /\ BankTypeOK /\ a \in Holders /\ b \in Holders
  BY DEF Amounts, BInv, Holders
<1>2. n <= hold[a].coins
  BY <1>1, SpendableIsHeld DEF CreateVestingAccount
<1>3. accounts' \in [Users -> Accounts]
  <2> DEFINE k == IF delayed THEN "delayed" ELSE "continuous"
             t == IF delayed THEN 0 ELSE time
             acc == [NoAccount EXCEPT !.kind = k, !.ov = n, !.start = t, !.end = end]
  <2>1. time \in Nat /\ end \in Nat /\ accounts \in [Users -> Accounts]
    BY <1>1, Types, BankAssumption
  <2>2. k \in Kinds /\ t \in Nat
    BY <2>1 DEF Kinds
  <2>3. NoAccount \in Accounts
    BY DEF NoAccount, Accounts, Kinds, Periods
  <2>4. acc \in Accounts
    <3> HIDE DEF k, t
    <3>. QED
      BY <1>1, <2>1, <2>2, <2>3, Zenon DEF Accounts
  <2>5. accounts' = [accounts EXCEPT ![b] = acc]
    BY DEF CreateVestingAccount
  <2> HIDE DEF acc
  <2>. QED
    BY <2>1, <2>4, <2>5, ZenonT(60)
<1>4. staked' \in [Users -> Nat]
  BY <1>1 DEF CreateVestingAccount, BankTypeOK
<1>. QED
  BY <1>1, <1>2, <1>3, <1>4, MovedInv, Zenon DEF CreateVestingAccount

\* DelegateCoins keeps it.
LEMMA DelegateInv ==
    ASSUME BInv, NEW u \in Users, NEW n \in Amounts, DelegateCoins(u, n)
    PROVE  BInv'
<1>1. n \in Nat /\ BankTypeOK /\ u \in Holders /\ Pool \in Holders
  BY BankAssumption DEF Amounts, BInv, Holders
<1>2. hold' = AddCoins(SubUnlockedCoins(hold, u, n), Pool, n)
  BY DEF DelegateCoins, SubUnlockedCoins
<1>3. n <= hold[u].coins
  BY DEF DelegateCoins
<1>4. accounts' \in [Users -> Accounts]
  <2>1. accounts \in [Users -> Accounts] /\ time \in Nat
    BY <1>1, Types
  <2>2. TrackDelegation(accounts[u], time, n) \in Accounts
    BY <1>1, <2>1, TrackDelegationIs, Zenon
  <2>. QED
    BY <2>1, <2>2 DEF DelegateCoins
<1>5. staked' \in [Users -> Nat]
  BY <1>1, SMTT(30) DEF DelegateCoins, BankTypeOK
<1>. QED
  BY <1>1, <1>2, <1>3, <1>4, <1>5, MovedInv, ZenonT(60) DEF DelegateCoins

\* UndelegateCoins keeps it.
LEMMA UndelegateInv ==
    ASSUME BInv, NEW u \in Users, NEW n \in Amounts, UndelegateCoins(u, n)
    PROVE  BInv'
<1>1. n \in Nat /\ BankTypeOK /\ u \in Holders /\ Pool \in Holders
  BY BankAssumption DEF Amounts, BInv, Holders
<1>2. n <= hold[Pool].coins
  BY <1>1, SpendableIsHeld DEF UndelegateCoins
<1>3. accounts' \in [Users -> Accounts]
  <2>1. accounts \in [Users -> Accounts]
    BY <1>1, Types, SMTT(30)
  <2>2. TrackUndelegation(accounts[u], n) \in Accounts
    BY <1>1, <2>1, TrackUndelegationIs, Zenon
  <2>. QED
    BY <2>1, <2>2 DEF UndelegateCoins
<1>4. staked' \in [Users -> Nat]
  BY <1>1 DEF UndelegateCoins, BankTypeOK
<1>. QED
  BY <1>1, <1>2, <1>3, <1>4, MovedInv, ZenonT(60) DEF UndelegateCoins

\* A balance whose coins change keeps its wei.
LEMMA HoldingUpdate ==
    ASSUME NEW r \in Holding, NEW c \in Nat
    PROVE  /\ [r EXCEPT !.coins = c] \in Holding
           /\ [r EXCEPT !.coins = c].coins = c /\ [r EXCEPT !.coins = c].wei = r.wei
  BY Zenon DEF Holding

\* A multi-send takes from all senders what it gives to all recipients.
LEMMA InputOutputInv ==
    ASSUME BInv, NEW in \in [Users -> 0..MaxEntry], NEW out \in [Users -> 0..MaxEntry],
           InputOutputCoins(in, out)
    PROVE  BInv'
<1>1. hold \in [Holders -> Holding] /\ deferred \in Deferrals /\ supply \in Int /\ BankTypeOK
      /\ accounts \in [Users -> Accounts]
  BY Types DEF BInv
<1>2. \A u \in Users : in[u] \in Nat /\ out[u] \in Nat /\ u \in Holders
  BY BankAssumption DEF Holders
<1>3. \A u \in Users : in[u] <= hold[u].coins
  <2> TAKE u \in Users
  <2>1. in[u] > 0 => CanSub(u, in[u])
    BY DEF InputOutputCoins
  <2>2. hold[u].coins \in Nat
    BY <1>1, <1>2, SpendableIsHeld
  <2>. QED
    BY <1>1, <1>2, <2>1, <2>2, SpendableIsHeld
<1>4. /\ \A h \in Users : hold'[h] = [hold[h] EXCEPT !.coins = hold[h].coins - in[h] + out[h]]
      /\ \A h \in ModuleAccounts : hold'[h] = hold[h]
      /\ DOMAIN hold' = Holders /\ hold' = [h \in Holders |-> hold'[h]]
  BY <1>2, BankAssumption DEF InputOutputCoins, Holders
<1>5. \A h \in Users : hold'[h] \in Holding /\ hold'[h].wei = hold[h].wei
                       /\ hold'[h].coins = hold[h].coins + (out[h] - in[h])
  <2> TAKE h \in Users
  <2> DEFINE c == hold[h].coins - in[h] + out[h]
  <2>1. hold[h] \in Holding /\ hold[h].coins \in Nat
    BY <1>1, <1>2, Zenon DEF Holding
  <2>2. c \in Nat /\ c = hold[h].coins + (out[h] - in[h])
    BY <1>2, <1>3, <2>1
  <2>3. hold'[h] = [hold[h] EXCEPT !.coins = c]
    BY <1>4
  <2> HIDE DEF c
  <2>. QED
    BY <2>1, <2>2, <2>3, HoldingUpdate
<1>6. hold' \in [Holders -> Holding] /\ \A h \in Holders : hold'[h].wei = hold[h].wei
  BY <1>1, <1>4, <1>5 DEF Holders
<1> DEFINE f == [h \in Holders |-> hold[h].coins]
           g == [h \in Holders |-> IF h \in Users THEN out[h] - in[h] ELSE 0]
           m == [u \in Users |-> -in[u]]
<1>7. SumFunctionOnSet(g, Holders) = 0
  <2>1. IsFiniteSet(Users) /\ IsFiniteSet(ModuleAccounts) /\ Users \cap ModuleAccounts = {}
    BY BankAssumption
  <2>2. \A h \in Holders : g[h] \in Int
    BY <1>2
  <2>3. SumFunctionOnSet(g, Holders) = SumFunctionOnSet(g, Users) + SumFunctionOnSet(g, ModuleAccounts)
    <3> HIDE DEF g
    <3>. QED
      BY <2>1, <2>2, SumUnion DEF Holders
  <2>4. SumFunctionOnSet(g, ModuleAccounts) = 0
    <3>1. \A h \in ModuleAccounts : g[h] = 0
      BY <2>1 DEF Holders
    <3> HIDE DEF g
    <3>. QED
      BY <2>1, <3>1, SumZero
  <2>5. SumFunctionOnSet(g, Users) + SumFunctionOnSet(in, Users) = SumFunctionOnSet(out, Users)
    <3>1. \A u \in Users : g[u] \in Int /\ in[u] \in Int /\ out[u] = g[u] + in[u]
      BY <1>2
    <3> HIDE DEF g
    <3>. QED
      BY <2>1, <3>1, SumPlus
  <2>6. SumFunctionOnSet(in, Users) = SumFunctionOnSet(out, Users)
    BY DEF InputOutputCoins
  <2>7. SumFunctionOnSet(in, Users) \in Int /\ SumFunctionOnSet(g, Users) \in Int
    <3>1. \A u \in Users : in[u] \in Int /\ g[u] \in Int
      BY <1>2
    <3> HIDE DEF g
    <3>. QED
      BY <2>1, <3>1, SumInt
  <2> HIDE DEF g
  <2>. QED
    BY ONLY <2>3, <2>4, <2>5, <2>6, <2>7, SMTT(30)
<1>8. Coins(hold') = Coins(hold)
  <2> DEFINE k == [h \in Holders |-> hold'[h].coins]
  <2>1. \A h \in Holders : f[h] \in Int /\ g[h] \in Int /\ k[h] = f[h] + g[h]
    <3> TAKE h \in Holders
    <3>1. CASE h \in Users
      BY <1>1, <1>2, <1>5, <3>1 DEF Holding
    <3>2. CASE h \notin Users
      BY <1>1, <1>4, <3>2 DEF Holding, Holders
    <3>. QED
      BY <3>1, <3>2, Zenon
  <2>2. Coins(hold') = SumFunctionOnSet(k, Holders) /\ Coins(hold) = SumFunctionOnSet(f, Holders)
    BY DEF Coins
  <2> HIDE DEF k, f, g
  <2>3. SumFunctionOnSet(k, Holders) = SumFunctionOnSet(f, Holders) + SumFunctionOnSet(g, Holders)
    BY <2>1, FiniteHolders, SumPlus
  <2>4. Coins(hold) \in Nat
    BY <1>1, SumsAreNat
  <2>. QED
    BY <1>7, <2>2, <2>3, <2>4, SMTT(30)
<1>9. Wei(hold') = Wei(hold)
  BY <1>6 DEF Wei
<1>10. Conserved(hold', deferred', supply')
  <2>1. Coins(hold) \in Nat /\ Waiting(deferred) \in Nat /\ deferred' = deferred /\ supply' = supply
    BY <1>1, SumsAreNat, WaitingIsNat, Zenon DEF InputOutputCoins
  <2>2. Coins(hold') = Coins(hold) + 0 /\ Waiting(deferred') = Waiting(deferred) + 0 /\ supply' = supply + 0 + 0
    BY <1>1, <1>8, <2>1
  <2>3. Conserved(hold, deferred, supply) /\ deferred' \in Deferrals /\ supply' \in Int /\ 0 \in Int
    BY <1>1, <2>1 DEF BInv
  <2>. QED
    BY <1>1, <1>6, <1>9, <2>2, <2>3, Balanced, Zenon
<1>11. accounts' \in [Users -> Accounts]
  BY <1>1, BaseAccount DEF InputOutputCoins
<1>12. BankTypeOK'
  BY <1>1, <1>6, <1>11 DEF BankTypeOK, Holding, InputOutputCoins
<1>. QED
  BY <1>6, <1>10, <1>12 DEF BInv, WeiIsAFraction

\* SendCoinsAndWei: what SubWei takes AddWei gives.
LEMMA SendWeiInv ==
    ASSUME BInv, NEW a \in Users, NEW b \in Users, NEW n \in 0..MaxAmount, NEW w \in 1..OneUseiInWei,
           SendCoinsAndWei(a, b, n, w)
    PROVE  BInv'
<1>1. /\ hold \in [Holders -> Holding] /\ deferred \in Deferrals /\ BankTypeOK
      /\ a \in Holders /\ b \in Holders /\ n \in Nat /\ w \in Nat /\ \A h \in Holders : hold[h].wei < OneUseiInWei
  BY Types, BankAssumption, SMTT(30) DEF BInv, Holders, WeiIsAFraction
<1> DEFINE r == SubWei(hold[a], w)
           H1 == [hold EXCEPT ![a] = r]
           q == AddWei(H1[b], w)
           H2 == [H1 EXCEPT ![b] = q]
<1>2. /\ n > 0 => n <= H2[a].coins - Locked(a)
      /\ hold' = AddCoins(SubUnlockedCoins(H2, a, n), b, n)
      /\ UNCHANGED <<setup, supply, deferred, accounts, time, txIndex, staked, minted>>
  BY DEF SendCoinsAndWei
<1>3. r \in Holding /\ r.wei < OneUseiInWei /\ InWei(r) = InWei(hold[a]) - w
  <2>1. w <= hold[a].coins * OneUseiInWei + hold[a].wei
    BY DEF SendCoinsAndWei, CanSubWei
  <2>2. hold[a] \in Holding /\ hold[a].wei < OneUseiInWei
    BY <1>1
  <2>. QED
    BY <1>1, <2>1, <2>2, SubWeiIsExact, Zenon
<1>4. Sets(H1, hold, a, r) /\ H1 \in [Holders -> Holding] /\ \A h \in Holders : H1[h].wei < OneUseiInWei
  <2>1. r \in Holding /\ r.wei < OneUseiInWei
    BY <1>3
  <2> HIDE DEF r
  <2>. QED
    BY <1>1, <2>1 DEF Sets
<1> HIDE DEF r, H1
<1>5. Worth(H1) = Worth(hold) - w
  <2>1. Worth(H1) = Worth(hold) - InWei(hold[a]) + InWei(r)
    BY <1>1, <1>3, <1>4, SetWorth
  <2>2. Worth(hold) \in Nat /\ InWei(hold[a]) \in Nat
    BY <1>1, SumsAreNat, InWeiIsNat, ZenonT(60)
  <2>. QED
    BY <1>1, <1>3, <2>1, <2>2
<1>6. q \in Holding /\ q.wei < OneUseiInWei /\ InWei(q) = InWei(H1[b]) + w
  <2>1. H1[b] \in Holding /\ H1[b].wei < OneUseiInWei
    BY <1>1, <1>4
  <2>. QED
    BY <1>1, <2>1, AddWeiIsExact
<1>7. Sets(H2, H1, b, q) /\ H2 \in [Holders -> Holding] /\ \A h \in Holders : H2[h].wei < OneUseiInWei
  <2>1. q \in Holding /\ q.wei < OneUseiInWei
    BY <1>6
  <2> HIDE DEF q
  <2>. QED
    BY <1>1, <1>4, <2>1, Zenon DEF Sets
<1> HIDE DEF q, H2
<1>8. Worth(H2) = Worth(hold)
  <2>1. Worth(H2) = Worth(H1) - InWei(H1[b]) + InWei(q)
    BY <1>1, <1>4, <1>6, <1>7, SetWorth, SMTT(30)
  <2>2. Worth(hold) \in Nat /\ InWei(H1[b]) \in Nat
    BY <1>1, <1>4, SumsAreNat, InWeiIsNat, ZenonT(60)
  <2>. QED
    BY <1>1, <1>5, <1>6, <2>1, <2>2, SMTT(30)
<1>9. n <= H2[a].coins
  <2>1. Locked(a) \in Nat /\ H2[a].coins \in Nat
    BY <1>1, <1>7, SpendableIsHeld, ZenonT(60) DEF Holding
  <2>. QED
    BY <1>1, <1>2, <2>1
<1>10. /\ hold' \in [Holders -> Holding] /\ Coins(hold') = Coins(H2) /\ Wei(hold') = Wei(H2)
       /\ \A h \in Holders : hold'[h].wei = H2[h].wei
  BY <1>1, <1>2, <1>7, <1>9, MoveIsSound, SMTT(30)
<1>11. Worth(hold') = Worth(hold)
  BY <1>8, <1>10, Zenon DEF Worth
<1>12. Conserved(hold', deferred', supply')
  BY <1>2, <1>11, Zenon DEF BInv, Conserved
<1>13. BankTypeOK'
  BY <1>1, <1>2, <1>10 DEF BankTypeOK, Holding
<1>14. WeiIsAFraction'
  BY <1>7, <1>10, ZenonT(60) DEF WeiIsAFraction
<1>. QED
  BY <1>12, <1>13, <1>14, Zenon DEF BInv

\* A fee goes from its payer to the deferred cache.
LEMMA DeferredSendInv ==
    ASSUME BInv, NEW a \in Users, NEW n \in Amounts, DeferredSend(a, n)
    PROVE  BInv'
<1>1. /\ hold \in [Holders -> Holding] /\ deferred \in Deferrals /\ BankTypeOK /\ supply \in Int
      /\ a \in Holders /\ n \in Nat
  BY Types, SMTT(30) DEF BInv, Holders, Amounts
<1>2. n <= hold[a].coins
  BY <1>1, SpendableIsHeld, Zenon DEF DeferredSend
<1>3. /\ hold' \in [Holders -> Holding]
      /\ Coins(hold') = Coins(hold) - n /\ Wei(hold') = Wei(hold)
      /\ \A h \in Holders : hold'[h].wei = hold[h].wei
  BY <1>1, <1>2, SubIsSound, Zenon DEF DeferredSend
<1> DEFINE x == <<FeeCollector, txIndex>>
<1>4. x \in ModuleAccounts \X Txs
  BY <1>1, BankAssumption, ZenonT(60) DEF BankTypeOK
<1>5. deferred' = [deferred EXCEPT ![x] = deferred[x] + n]
  BY DEF DeferredSend
<1>6. /\ deferred' \in Deferrals /\ deferred[x] \in Nat /\ deferred'[x] = deferred[x] + n
      /\ ChangesAt(deferred, deferred', x, ModuleAccounts \X Txs)
  <2> HIDE DEF x
  <2>. QED
    BY <1>1, <1>4, <1>5, SMTT(30) DEF Deferrals, ChangesAt
<1> HIDE DEF x
<1>7. Waiting(deferred') = Waiting(deferred) + n
  <2>1. Waiting(deferred') = Waiting(deferred) - deferred[x] + deferred'[x]
    <3> DEFINE P == ModuleAccounts \X Txs
    <3>1. IsFiniteSet(P) /\ x \in P /\ ChangesAt(deferred, deferred', x, P)
      BY <1>4, <1>6, FiniteHolders
    <3>2. Waiting(deferred) = SumFunctionOnSet(deferred, P) /\ Waiting(deferred') = SumFunctionOnSet(deferred', P)
      BY DEF Waiting
    <3> HIDE DEF P
    <3>. QED
      BY <3>1, <3>2, SumUpdate
  <2>2. Waiting(deferred) \in Nat
    BY <1>1, WaitingIsNat, Zenon
  <2>. QED
    BY <1>1, <1>6, <2>1, <2>2
<1>8. Conserved(hold', deferred', supply')
  <2>1. Coins(hold) \in Nat
    BY <1>1, SumsAreNat, ZenonT(60)
  <2> DEFINE k == -n
  <2>2. k \in Int /\ n \in Int /\ Coins(hold') = Coins(hold) + k /\ supply' = supply + k + n /\ supply' \in Int
    BY <1>1, <1>3, <2>1 DEF DeferredSend
  <2>3. Conserved(hold, deferred, supply)
    BY DEF BInv
  <2> HIDE DEF k
  <2>. QED
    BY <1>1, <1>3, <1>6, <1>7, <2>2, <2>3, Balanced, Zenon
<1>9. BankTypeOK'
  BY <1>1, <1>3, <1>6, ZenonT(60) DEF BankTypeOK, Holding, Deferrals, DeferredSend
<1>. QED
  BY <1>3, <1>8, <1>9 DEF BInv, WeiIsAFraction

\* WriteDeferredBalances pays out exactly what waits.
LEMMA EndBlockInv == ASSUME BInv, EndBlock PROVE BInv'
<1>1. hold \in [Holders -> Holding] /\ deferred \in Deferrals /\ supply \in Int /\ BankTypeOK
  BY Types DEF BInv
<1> DEFINE row(h) == [i \in Txs |-> deferred[<<h, i>>]]
           rows == [h \in ModuleAccounts |-> SumFunctionOnSet(row(h), Txs)]
           f == [h \in Holders |-> hold[h].coins]
           g == [h \in Holders |-> IF h \in ModuleAccounts THEN rows[h] ELSE 0]
<1>2. \A h \in ModuleAccounts : rows[h] \in Nat
  <2> SUFFICES ASSUME NEW h \in ModuleAccounts PROVE SumFunctionOnSet(row(h), Txs) \in Nat
    OBVIOUS
  <2>1. \A i \in Txs : row(h)[i] \in Nat
    BY <1>1 DEF Deferrals
  <2> HIDE DEF row
  <2>. QED
    BY <2>1, FiniteHolders, SumInt
<1>3. hold' = [h \in Holders |-> IF h \in ModuleAccounts THEN [hold[h] EXCEPT !.coins = hold[h].coins + rows[h]]
                                 ELSE hold[h]]
  BY DEF EndBlock, WriteDeferredBalances
<1>4. Waiting(deferred) = SumFunctionOnSet(rows, ModuleAccounts)
  <2>1. RowSums(rows, deferred, ModuleAccounts, Txs)
    BY <1>1, SMTT(30) DEF RowSums, Deferrals
  <2> HIDE DEF rows
  <2>. QED
    BY <2>1, FiniteHolders, BankAssumption, SumProduct DEF Waiting
<1> HIDE DEF row, rows
<1>5. \A h \in Holders : /\ hold'[h] \in Holding /\ hold'[h].wei = hold[h].wei
                         /\ f[h] \in Int /\ g[h] \in Int /\ hold'[h].coins = f[h] + g[h]
  <2> TAKE h \in Holders
  <2>1. hold[h] \in Holding /\ hold[h].coins \in Nat
    BY <1>1 DEF Holding
  <2>2. CASE h \in ModuleAccounts
    <3> DEFINE c == hold[h].coins + rows[h]
    <3>1. c \in Nat /\ hold'[h] = [hold[h] EXCEPT !.coins = c] /\ c = f[h] + g[h] /\ g[h] \in Int /\ f[h] \in Int
      BY <1>2, <1>3, <2>1, <2>2
    <3> HIDE DEF c, f, g
    <3>. QED
      BY <2>1, <3>1, HoldingUpdate
  <2>3. CASE h \notin ModuleAccounts
    BY <1>3, <2>1, <2>3
  <2>. QED
    BY <2>2, <2>3, ZenonT(60)
<1>6. hold' \in [Holders -> Holding]
  BY <1>3, <1>5
<1>7. SumFunctionOnSet(g, Holders) = Waiting(deferred)
  <2>1. IsFiniteSet(Users) /\ IsFiniteSet(ModuleAccounts) /\ Users \cap ModuleAccounts = {}
    BY BankAssumption
  <2>2. \A h \in Users \cup ModuleAccounts : g[h] \in Int
    BY <1>5, Zenon DEF Holders
  <2>3. \A h \in Users : g[h] = 0
    BY <2>1 DEF Holders
  <2>4. \A h \in ModuleAccounts : g[h] = rows[h] /\ g[h] \in Int
    BY <1>5, Zenon DEF Holders
  <2> HIDE DEF g
  <2>5. SumFunctionOnSet(g, Users \cup ModuleAccounts) = SumFunctionOnSet(g, Users) + SumFunctionOnSet(g, ModuleAccounts)
    BY <2>1, <2>2, SumUnion
  <2>6. SumFunctionOnSet(g, Users) = 0
    BY <2>1, <2>3, SumZero, Zenon
  <2>7. SumFunctionOnSet(g, ModuleAccounts) = SumFunctionOnSet(rows, ModuleAccounts)
    BY <2>1, <2>4, SumSame, Zenon
  <2>8. SumFunctionOnSet(g, ModuleAccounts) \in Int
    BY <2>1, <2>4, SumInt
  <2>. QED
    BY <1>4, <2>5, <2>6, <2>7, <2>8, SMTT(30) DEF Holders
<1>8. Coins(hold') = Coins(hold) + Waiting(deferred)
  <2> DEFINE k == [h \in Holders |-> hold'[h].coins]
  <2>1. \A h \in Holders : f[h] \in Int /\ g[h] \in Int /\ k[h] = f[h] + g[h]
    BY <1>5, Zenon
  <2>2. Coins(hold') = SumFunctionOnSet(k, Holders) /\ Coins(hold) = SumFunctionOnSet(f, Holders)
    BY DEF Coins
  <2> HIDE DEF k, f, g
  <2>3. SumFunctionOnSet(k, Holders) = SumFunctionOnSet(f, Holders) + SumFunctionOnSet(g, Holders)
    BY <2>1, FiniteHolders, SumPlus, Zenon
  <2>. QED
    BY <1>7, <2>2, <2>3, Zenon
<1>9. Wei(hold') = Wei(hold)
  BY <1>5 DEF Wei
<1>10. deferred' \in Deferrals /\ Waiting(deferred') = 0
  <2>1. deferred' = [d \in ModuleAccounts \X Txs |-> 0]
    BY DEF EndBlock, WriteDeferredBalances
  <2>2. \A d \in ModuleAccounts \X Txs : deferred'[d] = 0
    BY <2>1
  <2>3. Waiting(deferred') = 0
    BY <2>2, FiniteHolders, SumZero, Zenon DEF Waiting
  <2>. QED
    BY <2>1, <2>3 DEF Deferrals
<1>11. Conserved(hold', deferred', supply')
  <2> DEFINE w == Waiting(deferred)
             v == -Waiting(deferred)
  <2>1. Waiting(deferred) \in Nat
    BY <1>1, WaitingIsNat
  <2>2. /\ w \in Int /\ v \in Int /\ Coins(hold') = Coins(hold) + w /\ Waiting(deferred') = Waiting(deferred) + v
        /\ supply' = supply + w + v /\ supply' \in Int
    BY <1>1, <1>8, <1>10, <2>1 DEF EndBlock
  <2>3. Conserved(hold, deferred, supply)
    BY Zenon DEF BInv
  <2> HIDE DEF w, v
  <2>. QED
    BY <1>1, <1>6, <1>9, <1>10, <2>2, <2>3, Balanced, Zenon
<1>12. time' \in 0..MaxTime
  BY <1>1, NextTime, Zenon DEF EndBlock, BankTypeOK
<1>13. BankTypeOK'
  BY <1>1, <1>6, <1>10, <1>12, ConstantTypes, ZenonT(60) DEF BankTypeOK, Holding, Deferrals, EndBlock
<1>. QED
  BY <1>5, <1>11, <1>13 DEF BInv, WeiIsAFraction

\* MintCoins raises balance and supply alike.
LEMMA MintInv == ASSUME BInv, NEW m \in ModuleAccounts, NEW n \in Amounts, MintCoins(m, n) PROVE BInv'
<1>1. /\ hold \in [Holders -> Holding] /\ deferred \in Deferrals /\ supply \in Nat /\ BankTypeOK
      /\ n \in Nat /\ m \in Holders
  BY Types DEF BInv, Amounts, Holders
<1>2. /\ hold' \in [Holders -> Holding]
      /\ Coins(hold') = Coins(hold) + n /\ Wei(hold') = Wei(hold)
      /\ \A h \in Holders : hold'[h].wei = hold[h].wei
  BY <1>1, AddIsSound DEF MintCoins
<1>3. Conserved(hold', deferred', supply')
  <2>1. /\ n \in Int /\ 0 \in Int /\ supply' = supply + n + 0 /\ supply \in Int /\ supply' \in Int
        /\ deferred' \in Deferrals /\ Waiting(deferred') = Waiting(deferred) + 0
    <3>1. Waiting(deferred) \in Nat
      BY <1>1, WaitingIsNat, ZenonT(60)
    <3>. QED
      BY <1>1, <3>1 DEF MintCoins
  <2>2. Conserved(hold, deferred, supply)
    BY DEF BInv
  <2>. QED
    BY <1>1, <1>2, <2>1, <2>2, Balanced, ZenonT(60)
<1>4. minted' \in 0..setup'.maxMinted /\ supply' \in Nat
  BY <1>1, BankAssumption DEF MintCoins, BankTypeOK
<1>5. BankTypeOK'
  BY <1>1, <1>2, <1>4, Zenon DEF BankTypeOK, Holding, MintCoins
<1>. QED
  BY <1>2, <1>3, <1>5 DEF BInv, WeiIsAFraction

\* BurnCoins lowers both alike, and there is enough.
LEMMA BurnInv ==
    ASSUME BInv, NEW m \in ModuleAccounts, NEW n \in Amounts, NEW u \in Users, BurnCoins(m, n, u)
    PROVE  BInv'
<1>1. /\ hold \in [Holders -> Holding] /\ deferred \in Deferrals /\ supply \in Nat /\ BankTypeOK
      /\ n \in Nat /\ m \in Holders
  BY Types DEF BInv, Amounts, Holders
<1>2. n <= hold[m].coins
  BY <1>1, SpendableIsHeld, Zenon DEF BurnCoins
<1>3. /\ hold' \in [Holders -> Holding]
      /\ Coins(hold') = Coins(hold) - n /\ Wei(hold') = Wei(hold)
      /\ \A h \in Holders : hold'[h].wei = hold[h].wei
  BY <1>1, <1>2, SubIsSound DEF BurnCoins
<1>4. deferred' \in Deferrals /\ supply' \in Int /\ Conserved(hold', deferred', supply')
  <2> DEFINE k == -n
  <2>1. Waiting(deferred) \in Nat /\ Coins(hold) \in Nat
    BY <1>1, WaitingIsNat, SumsAreNat, Zenon
  <2>2. /\ k \in Int /\ 0 \in Int /\ supply' = supply + k + 0 /\ supply \in Int /\ supply' \in Int
        /\ Coins(hold') = Coins(hold) + k
        /\ deferred' \in Deferrals /\ Waiting(deferred') = Waiting(deferred) + 0
    BY <1>1, <1>3, <2>1 DEF BurnCoins
  <2>3. Conserved(hold, deferred, supply)
    BY DEF BInv
  <2> HIDE DEF k
  <2>. QED
    BY <1>1, <1>3, <2>2, <2>3, Balanced, Zenon
<1>5. supply' \in Nat
  BY <1>3, <1>4, ConservedIsTotal, Zenon
<1>6. staked' \in [Users -> Nat]
  BY <1>1, SMTT(30) DEF BurnCoins, BankTypeOK
<1>7. BankTypeOK'
  BY <1>1, <1>3, <1>5, <1>6, Zenon DEF BankTypeOK, Holding, BurnCoins
<1>. QED
  BY <1>3, <1>4, <1>7 DEF BInv, WeiIsAFraction

\* The genesis supply is the sum of the genesis balances.
LEMMA BankInitInv == BankInit => BInv
<1> SUFFICES ASSUME BankInit PROVE BInv
  BY Zenon
<1> USE DEF BankInit
<1>1. hold \in [Holders -> Holding] /\ \A h \in Holders : hold[h].wei = 0
  BY BankAssumption, Zenon DEF Holding
<1>2. Wei(hold) = 0
  BY <1>1, FiniteHolders, SumZero, Zenon DEF Wei
<1>3. deferred \in Deferrals /\ Waiting(deferred) = 0
  <2>1. \A d \in ModuleAccounts \X Txs : deferred[d] = 0
    BY SMTT(30)
  <2>2. Waiting(deferred) = 0
    BY <2>1, FiniteHolders, SumZero, Zenon DEF Waiting
  <2>. QED
    BY <2>2, SMTT(30) DEF Deferrals
<1>4. Coins(hold) = supply
  <2> DEFINE f == [h \in Holders |-> hold[h].coins]
  <2>1. IsFiniteSet(Users) /\ IsFiniteSet(ModuleAccounts) /\ Users \cap ModuleAccounts = {}
    BY BankAssumption, ZenonT(60)
  <2>2. /\ \A h \in Users \cup ModuleAccounts : f[h] \in Int
        /\ \A h \in Users : f[h] = GenesisCoins[h] /\ f[h] \in Int
        /\ \A h \in ModuleAccounts : f[h] = 0
    BY <2>1, BankAssumption, SMTT(30) DEF Holders
  <2>3. Coins(hold) = SumFunctionOnSet(f, Users \cup ModuleAccounts)
    BY Zenon DEF Coins, Holders
  <2> HIDE DEF f
  <2>4. SumFunctionOnSet(f, Users \cup ModuleAccounts) = SumFunctionOnSet(f, Users) + SumFunctionOnSet(f, ModuleAccounts)
    BY <2>1, <2>2, SumUnion, Zenon
  <2>5. SumFunctionOnSet(f, ModuleAccounts) = 0
    BY <2>1, <2>2, SumZero, Zenon
  <2>6. SumFunctionOnSet(f, Users) = SumFunctionOnSet(GenesisCoins, Users)
    BY <2>1, <2>2, SumSame, Zenon
  <2>7. SumFunctionOnSet(f, Users) \in Int
    BY <2>1, <2>2, SumInt, Zenon
  <2>. QED
    BY <2>3, <2>4, <2>5, <2>6, <2>7, SMTT(30)
<1>5. supply \in Nat
  BY <1>1, <1>4, SumsAreNat, ZenonT(60)
<1>6. Conserved(hold, deferred, supply)
  BY <1>2, <1>3, <1>4, <1>5, WorthOfCoins, Zenon
<1>7. BankTypeOK
  <2>1. setup \in Setups /\ accounts = setup.accounts /\ time = 0 /\ txIndex = 0 /\ minted = 0
    BY Zenon
  <2>2. staked \in [Users -> Nat]
    BY Zenon
  <2>3. accounts \in [Users -> Accounts] /\ setup.maxMinted \in Nat
    BY <2>1, BankAssumption, Zenon
  <2>4. minted \in 0..setup.maxMinted
    BY <2>1, <2>3, ZeroIsLeast, Zenon
  <2>. QED
    BY <1>1, <1>3, <1>5, <2>1, <2>2, <2>3, <2>4, ConstantTypes, Zenon DEF BankTypeOK, Holding, Deferrals
<1>8. WeiIsAFraction
  BY <1>1, ConstantTypes, Zenon DEF WeiIsAFraction
<1>. QED
  BY <1>6, <1>7, <1>8, Zenon DEF BInv

\* Every operation of the bank keeps the invariant.
LEMMA BankNextInv == BInv /\ [BankNext]_bankVars => BInv'
<1> SUFFICES ASSUME BInv, [BankNext]_bankVars PROVE BInv'
  BY ZenonT(60)
<1>0. setup \in Setups /\ {setup.weiSenders, setup.creators, setup.delegators} \subseteq SUBSET Users
  BY BankAssumption DEF BInv, BankTypeOK
<1>1. ASSUME NEW a \in Holders \ {Pool}, NEW b \in Holders \ {Pool}, NEW n \in Amounts, SendCoins(a, b, n)
      PROVE  BInv'
  BY <1>1, SendCoinsInv
<1>2. ASSUME NEW in \in [Users -> 0..MaxEntry], NEW out \in [Users -> 0..MaxEntry], InputOutputCoins(in, out)
      PROVE  BInv'
  BY <1>2, InputOutputInv, Zenon
<1>3. ASSUME NEW a \in setup.weiSenders, NEW b \in Users, NEW n \in 0..MaxAmount, NEW w \in 1..OneUseiInWei,
             SendCoinsAndWei(a, b, n, w)
      PROVE  BInv'
  BY <1>0, <1>3, SendWeiInv, Zenon
<1>4. ASSUME NEW a \in setup.creators, NEW b \in Users, NEW n \in Amounts, NEW end \in 1..MaxTime,
             NEW delayed \in BOOLEAN, CreateVestingAccount(a, b, n, end, delayed)
      PROVE  BInv'
  BY <1>0, <1>4, CreateInv
<1>5. ASSUME NEW a \in Users, NEW n \in Amounts, DeferredSend(a, n)
      PROVE  BInv'
  BY <1>5, DeferredSendInv
<1>6. CASE EndBlock
  BY <1>6, EndBlockInv, Zenon
<1>7. CASE NextTx
  <2>1. setup.maxTx \in Txs
    BY <1>0, BankAssumption, ZenonT(60)
  <2>2. BankTypeOK'
    BY <1>7, <2>1, BankAssumption, SMTT(30) DEF BInv, BankTypeOK, NextTx, Txs
  <2>. QED
    BY <1>7, <2>2, Zenon DEF BInv, NextTx, WeiIsAFraction
<1>8. ASSUME NEW m \in ModuleAccounts, NEW n \in Amounts, MintCoins(m, n)
      PROVE  BInv'
  BY <1>8, MintInv
<1>9. ASSUME NEW m \in ModuleAccounts, NEW n \in Amounts, NEW u \in setup.delegators, BurnCoins(m, n, u)
      PROVE  BInv'
  BY <1>0, <1>9, BurnInv, Zenon
<1>10. ASSUME NEW u \in setup.delegators, NEW n \in Amounts, DelegateCoins(u, n)
       PROVE  BInv'
  BY <1>0, <1>10, DelegateInv, Zenon
<1>11. ASSUME NEW u \in setup.delegators, NEW n \in Amounts, UndelegateCoins(u, n)
       PROVE  BInv'
  BY <1>0, <1>11, UndelegateInv, ZenonT(60)
<1>12. CASE UNCHANGED bankVars
  BY <1>12 DEF bankVars, BInv, BankTypeOK, WeiIsAFraction, Conserved
<1>. QED
  BY <1>1, <1>2, <1>3, <1>4, <1>5, <1>6, <1>7, <1>8, <1>9, <1>10, <1>11, <1>12, ZenonT(60) DEF BankNext

\* Whatever is sent, split into wei, deferred, minted, burned and delegated,
\* for any number of accounts and any amounts, the balances, the wei and the
\* deferred fees of the keepers make up the supply (the TotalSupply invariant
\* of x/bank), and no account has a whole coin in wei.
THEOREM CoinsAreConserved == BankSpec => []BankIsSound
<1>1. BInv => BankIsSound
  <2> SUFFICES ASSUME BInv PROVE BankIsSound
    OBVIOUS
  <2>1. hold \in [Holders -> Holding] /\ deferred \in Deferrals /\ supply \in Int
    BY Types DEF BInv
  <2>2. /\ Wei(hold) % OneUseiInWei = 0
        /\ supply = Coins(hold) + Waiting(deferred) + Wei(hold) \div OneUseiInWei
    BY <2>1, ConservedIsTotal DEF BInv
  <2>3. TotalSupply
    BY <2>2, Zenon DEF TotalSupply, Coins, Wei, Waiting
  <2>. QED
    BY <2>3 DEF BInv, BankIsSound
<1>. QED
  BY <1>1, BankInitInv, BankNextInv, PTL DEF BankSpec

-----------------------------------------------------------------------------
(* Locked coins are held.                                                  *)

\* A larger number has no smaller quotient.
LEMMA QuotientGrows ==
    ASSUME NEW n \in Nat, NEW m \in Nat, n <= m, NEW d \in Nat \ {0}
    PROVE  n \div d <= m \div d
  OBVIOUS

\* Rounding half to even keeps the order and is exact on multiples.
LEMMA RoundIntGrows ==
    ASSUME NEW n \in Nat, NEW m \in Nat, n <= m, NEW d \in Nat \ {0}
    PROVE  RoundInt(n, d) <= RoundInt(m, d)
<1> DEFINE p == n \div d
           q == m \div d
           r == n % d
           s == m % d
<1>1. p \in Nat /\ q \in Nat /\ r \in Nat /\ s \in Nat
  BY Division
<1>2. p <= q
  BY QuotientGrows
<1>3. r = n - d * p /\ s = m - d * q
  OBVIOUS
<1>4. RoundInt(n, d) = IF 2 * r > d \/ (2 * r = d /\ p % 2 = 1) THEN p + 1 ELSE p
  BY DEF RoundInt
<1>5. RoundInt(m, d) = IF 2 * s > d \/ (2 * s = d /\ q % 2 = 1) THEN q + 1 ELSE q
  BY DEF RoundInt
<1> HIDE DEF p, q, r, s
<1>6. CASE p = q
  <2>1. r <= s
    <3>1. d * p \in Int
      BY <1>1
    <3>. QED
      BY <1>3, <1>6, <3>1
  <2>. QED
    BY <1>1, <1>4, <1>5, <1>6, <2>1
<1>7. CASE p < q
  BY <1>1, <1>4, <1>5, <1>7
<1>. QED
  BY <1>1, <1>2, <1>6, <1>7

\* Rounding a multiple gives the factor.
LEMMA RoundIntExact ==
    ASSUME NEW q \in Nat, NEW d \in Nat \ {0}
    PROVE  RoundInt(q * d, d) = q
<1> DEFINE w == q * d
<1>1. w \in Int /\ w = d * q
  OBVIOUS
<1> HIDE DEF w
<1>2. w % d = 0 /\ w \div d = q
  BY <1>1, WholeMultiple
<1>3. RoundInt(w, d) = q
  BY <1>2 DEF RoundInt
<1>. QED
  BY <1>3 DEF w

\* What the schedule of an account that the bank meets looks like.
Schedule(acc) ==
    /\ acc.kind \notin VestingKinds => acc.ov = 0
    /\ acc.kind = "continuous" => acc.start <= MaxTime /\ acc.end <= MaxTime + 1
    /\ acc.kind = "delayed" => acc.end \in 1..(MaxTime + 1)
    /\ acc.kind = "periodic" =>
          /\ acc.start < acc.end /\ acc.end <= MaxTime + 1
          /\ acc.ov = PeriodAmount(acc.periods, 1..Len(acc.periods))

\* A continuous account vests no less a second later.
LEMMA ContinuousGrows ==
    ASSUME NEW acc \in Accounts, NEW t \in Nat
    PROVE  ContinuousVested(acc, t) <= ContinuousVested(acc, t + 1)
<1>1. acc.ov \in Nat /\ acc.start \in Nat /\ acc.end \in Nat
  BY DEF Accounts
<1>2. ContinuousVested(acc, t + 1) \in Nat
  BY ContinuousIsNat
<1>3. CASE t <= acc.start
  BY <1>2, <1>3 DEF ContinuousVested
<1>4. CASE ~(t <= acc.start) /\ t >= acc.end
  BY <1>1, <1>4 DEF ContinuousVested
<1>5. CASE ~(t <= acc.start) /\ ~(t >= acc.end)
  <2> DEFINE x == t - acc.start
             d == acc.end - acc.start
  <2>1. x \in Nat /\ d \in Nat \ {0} /\ x + 1 <= d /\ (t + 1) - acc.start = x + 1
    BY <1>1, <1>5
  <2>2. ContinuousVested(acc, t) = RoundInt(acc.ov * x, d)
    BY <1>5 DEF ContinuousVested
  <2>3. ContinuousVested(acc, t + 1) = IF t + 1 >= acc.end THEN acc.ov ELSE RoundInt(acc.ov * (x + 1), d)
    BY <1>1, <1>5, <2>1 DEF ContinuousVested
  <2> HIDE DEF x, d
  <2>4. acc.ov * x \in Nat /\ acc.ov * (x + 1) \in Nat /\ acc.ov * d \in Nat
    BY <1>1, <2>1
  <2>5. acc.ov * x <= acc.ov * (x + 1)
    BY <1>1, <2>1
  <2>6. acc.ov * x <= acc.ov * d
    BY <1>1, <2>1
  <2>7. RoundInt(acc.ov * x, d) <= acc.ov
    <3>1. RoundInt(acc.ov * x, d) <= RoundInt(acc.ov * d, d)
      BY <2>1, <2>4, <2>6, RoundIntGrows
    <3>. QED
      BY <1>1, <2>1, <3>1, RoundIntExact
  <2>8. RoundInt(acc.ov * x, d) <= RoundInt(acc.ov * (x + 1), d)
    BY <2>1, <2>4, <2>5, RoundIntGrows, Zenon
  <2>. QED
    BY <2>2, <2>3, <2>7, <2>8
<1>. QED
  BY <1>3, <1>4, <1>5

\* Nor does a periodic one.
LEMMA PeriodicGrows ==
    ASSUME NEW acc \in Accounts, acc.ov = PeriodAmount(acc.periods, 1..Len(acc.periods)), NEW t \in Nat
    PROVE  PeriodicVested(acc, t) <= PeriodicVested(acc, t + 1)
<1>1. acc.ov \in Nat /\ acc.start \in Nat /\ acc.end \in Nat /\ acc.periods \in Periods
  BY DEF Accounts
<1> DEFINE I == 1..Len(acc.periods)
           x == t - acc.start
           S == PeriodsOver(acc.periods, x)
           T == PeriodsOver(acc.periods, x + 1)
<1>2. x \in Int /\ (t + 1) - acc.start = x + 1
  BY <1>1
<1>3. S \subseteq T /\ T \subseteq I
  <2>1. \A i \in I : PeriodLength(acc.periods, 1..i) \in Nat
    <3> TAKE i \in I
    <3>1. 1..i \in SUBSET I
      BY <1>1 DEF Periods
    <3>. QED
      BY <3>1, PeriodAmountIsNat, ZenonT(60)
  <2> HIDE DEF x
  <2>. QED
    BY <1>2, <2>1 DEF PeriodsOver
<1>4. /\ PeriodAmount(acc.periods, S) \in Nat /\ PeriodAmount(acc.periods, T) \in Nat
      /\ PeriodAmount(acc.periods, S) <= acc.ov
  BY <1>3, PeriodAmountIsNat, ZenonT(60)
<1>5. PeriodAmount(acc.periods, S) <= PeriodAmount(acc.periods, T)
  <2> DEFINE A == [i \in DOMAIN acc.periods |-> acc.periods[i].amount]
  <2>1. IsFiniteSet(T)
    BY <1>3, PeriodAmountIsNat, Zenon
  <2>2. \A i \in T : A[i] \in Nat
    <3> SUFFICES ASSUME NEW i \in T PROVE A[i] \in Nat
      BY ZenonT(60)
    <3>1. acc.periods \in Seq([length : Nat, amount : Nat])
      BY <1>1 DEF Periods
    <3>2. i \in 1..Len(acc.periods) /\ DOMAIN acc.periods = 1..Len(acc.periods)
      BY <1>3, <3>1
    <3>3. acc.periods[i] \in [length : Nat, amount : Nat]
      BY <3>1, <3>2, ElementOf, ZenonT(60)
    <3>. QED
      BY <3>2, <3>3
  <2>3. PeriodAmount(acc.periods, S) = SumFunctionOnSet(A, S) /\ PeriodAmount(acc.periods, T) = SumFunctionOnSet(A, T)
    BY DEF PeriodAmount
  <2> HIDE DEF A, S, T
  <2>. QED
    BY <1>3, <2>1, <2>2, <2>3, SumSubset, ZenonT(60)
<1>6. PeriodicVested(acc, t) = IF t <= acc.start THEN 0 ELSE IF t >= acc.end THEN acc.ov ELSE PeriodAmount(acc.periods, S)
  BY DEF PeriodicVested
<1>7. PeriodicVested(acc, t + 1) = IF t + 1 <= acc.start THEN 0 ELSE IF t + 1 >= acc.end THEN acc.ov ELSE PeriodAmount(acc.periods, T)
  BY <1>2 DEF PeriodicVested
<1> HIDE DEF S, T, x
<1>. QED
  BY <1>1, <1>4, <1>5, <1>6, <1>7

\* GetVestedCoins never decreases with time.
LEMMA VestedGrows ==
    ASSUME NEW acc \in Accounts, Schedule(acc), NEW t \in Nat
    PROVE  GetVestedCoins(acc, t) <= GetVestedCoins(acc, t + 1)
<1>1. acc.ov \in Nat /\ acc.end \in Nat
  BY DEF Accounts
<1>2. DelayedVested(acc, t) <= DelayedVested(acc, t + 1)
  BY <1>1 DEF DelayedVested
<1>3. ContinuousVested(acc, t) <= ContinuousVested(acc, t + 1)
  BY ContinuousGrows
<1>4. acc.kind = "periodic" => PeriodicVested(acc, t) <= PeriodicVested(acc, t + 1)
  BY PeriodicGrows DEF Schedule
<1>. QED
  BY <1>2, <1>3, <1>4 DEF GetVestedCoins

\* Nothing has vested at genesis, and all but a permanent account's coins have
\* in the end.
LEMMA VestedEnds ==
    ASSUME NEW acc \in Accounts, Schedule(acc), acc.kind \in VestingKinds
    PROVE  /\ GetVestedCoins(acc, 0) = 0
           /\ acc.kind # "permanent" => GetVestedCoins(acc, MaxTime + 1) = acc.ov
<1>1. acc.ov \in Nat /\ acc.end \in Nat /\ acc.start \in Nat /\ MaxTime \in Nat
  BY BankAssumption DEF Accounts
<1>2. CASE acc.kind = "continuous"
  BY <1>1, <1>2 DEF GetVestedCoins, ContinuousVested, Schedule
<1>3. CASE acc.kind = "periodic"
  BY <1>1, <1>3 DEF GetVestedCoins, PeriodicVested, Schedule
<1>4. CASE acc.kind = "delayed"
  BY <1>1, <1>4 DEF GetVestedCoins, DelayedVested, Schedule
<1>5. CASE acc.kind = "permanent"
  BY <1>5 DEF GetVestedCoins
<1>. QED
  BY <1>2, <1>3, <1>4, <1>5, Zenon DEF VestingKinds, Kinds

\* Less is locked a second later.
LEMMA LockedShrinks ==
    ASSUME NEW acc \in Accounts, Schedule(acc), NEW t \in Nat
    PROVE  LockedCoins(acc, t + 1) <= LockedCoins(acc, t)
<1>1. GetVestedCoins(acc, t) <= GetVestedCoins(acc, t + 1)
  BY VestedGrows
<1>2. GetVestedCoins(acc, t) \in Nat /\ GetVestedCoins(acc, t + 1) \in Nat /\ acc.ov \in Nat /\ acc.dv \in Nat
  BY VestedIsNat DEF Accounts
<1>. QED
  BY <1>1, <1>2 DEF LockedCoins, GetVestingCoins, Least

\* An account with its coins and its stake, at a time.
Sound(acc, coins, stake, t) ==
    /\ Schedule(acc)
    /\ acc.kind = "none" => stake = 0
    /\ LockedCoins(acc, t) <= coins
    /\ acc.kind \in VestingKinds => stake <= acc.dv + acc.df /\ acc.dv <= acc.ov

AllSound == \A u \in Users : Sound(accounts[u], hold[u].coins, staked[u], time)

WeiSendersStayFree ==
    \A u \in setup.weiSenders :
        /\ accounts[u].kind \notin VestingKinds
        /\ accounts[u].kind = "none" => setup.creators = {}

VInv == BInv /\ AllSound /\ WeiSendersStayFree

\* An account that does not vest has nothing locked.
LEMMA NothingLocked ==
    ASSUME NEW acc \in Accounts, Schedule(acc), acc.kind \notin VestingKinds, NEW t \in Nat
    PROVE  LockedCoins(acc, t) = 0
<1>1. acc.ov = 0 /\ acc.dv \in Nat /\ acc.kind \in Kinds
  BY DEF Schedule, Accounts
<1>2. GetVestedCoins(acc, t) = 0
  BY <1>1 DEF GetVestedCoins, VestingKinds, Kinds
<1>. QED
  BY <1>1, <1>2 DEF LockedCoins, GetVestingCoins, Least

\* An account that SendCoins creates for a recipient is sound.
LEMMA BasedIsSound ==
    ASSUME NEW acc \in Accounts, acc.kind = "none", NEW c, NEW c2 \in Nat, NEW s, NEW t \in Nat,
           Sound(acc, c, s, t)
    PROVE  Sound([acc EXCEPT !.kind = "base"], c2, s, t)
<1> DEFINE b == [acc EXCEPT !.kind = "base"]
<1>1. b \in Accounts
  BY BaseAccount
<1>2. b.kind = "base" /\ b.ov = acc.ov
  BY DEF Accounts
<1>3. acc.ov = 0
  BY DEF Sound, Schedule, VestingKinds
<1> HIDE DEF b
<1>4. Schedule(b) /\ b.kind \notin VestingKinds
  BY <1>2, <1>3 DEF Schedule, VestingKinds
<1>5. LockedCoins(b, t) = 0
  BY <1>1, <1>4, NothingLocked
<1>6. Sound(b, c2, s, t)
  BY <1>2, <1>4, <1>5 DEF Sound
<1>. QED
  BY <1>6 DEF b

\* An account stays sound when it holds its locked coins and its stake does not
\* grow.
LEMMA RicherIsSound ==
    ASSUME NEW acc \in Accounts, NEW c \in Nat, NEW c2 \in Nat, NEW s \in Nat, NEW s2 \in Nat, NEW t \in Nat,
           Sound(acc, c, s, t), LockedCoins(acc, t) <= c2, s2 <= s
    PROVE  Sound(acc, c2, s2, t)
<1>1. acc.dv \in Nat /\ acc.df \in Nat
  BY DEF Accounts
<1>. QED
  BY <1>1 DEF Sound

\* The trackers leave the schedule alone.
SameTerms(acc, b) ==
    /\ b.kind = acc.kind /\ b.ov = acc.ov
    /\ b.start = acc.start /\ b.end = acc.end /\ b.periods = acc.periods

\* Accounts of the same terms have vested the same.
LEMMA SameSchedule ==
    ASSUME NEW acc, NEW b, NEW t, SameTerms(acc, b)
    PROVE  /\ Schedule(acc) => Schedule(b)
           /\ GetVestedCoins(b, t) = GetVestedCoins(acc, t)
<1>1. b.kind = acc.kind /\ b.ov = acc.ov /\ b.start = acc.start /\ b.end = acc.end /\ b.periods = acc.periods
  BY Zenon DEF SameTerms
<1>2. Schedule(acc) => Schedule(b)
  BY <1>1 DEF Schedule
<1>3. /\ ContinuousVested(b, t) = ContinuousVested(acc, t)
      /\ PeriodicVested(b, t) = PeriodicVested(acc, t)
      /\ DelayedVested(b, t) = DelayedVested(acc, t)
  BY <1>1, ZenonT(60) DEF ContinuousVested, PeriodicVested, DelayedVested
<1>. QED
  BY <1>1, <1>2, <1>3 DEF GetVestedCoins

\* TrackDelegation: of the delegated coins as many leave the lock as can, so
\* the rest holds what remains locked.
LEMMA DelegatedIsSound ==
    ASSUME NEW acc \in Accounts, NEW c \in Nat, NEW s \in Nat, NEW t \in Nat, NEW n \in Nat, n <= c,
           Sound(acc, c, s, t), acc.kind \in VestingKinds
    PROVE  Sound(TrackDelegation(acc, t, n), c - n, s + n, t)
<1> DEFINE b == TrackDelegation(acc, t, n)
           x == LockedShare(acc, t, n)
<1>1. /\ b \in Accounts /\ x \in 0..n /\ b.dv = acc.dv + x /\ b.df = acc.df + (n - x)
      /\ b = [acc EXCEPT !.dv = acc.dv + x, !.df = acc.df + (n - x)]
  <2>1. /\ b \in Accounts /\ x \in 0..n
        /\ b = [acc EXCEPT !.dv = acc.dv + x, !.df = acc.df + (n - x)]
    BY TrackDelegationIs, ZenonT(60)
  <2> HIDE DEF b, x
  <2>. QED
    BY <2>1, SMTT(20) DEF Accounts
<1>2. acc.dv \in Nat /\ acc.df \in Nat /\ acc.ov \in Nat /\ GetVestedCoins(acc, t) \in Nat
  BY VestedIsNat DEF Accounts
<1>3. x = Least(Most(acc.ov - GetVestedCoins(acc, t) - acc.dv, 0), n)
  BY DEF LockedShare, GetVestingCoins
<1> HIDE DEF b, x
<1>4. b.kind = acc.kind /\ b.ov = acc.ov /\ Schedule(b) /\ GetVestedCoins(b, t) = GetVestedCoins(acc, t)
  <2>1. SameTerms(acc, b)
    BY <1>1 DEF SameTerms, Accounts
  <2>. QED
    BY <2>1, SameSchedule DEF Sound, SameTerms
<1>5. LockedCoins(acc, t) <= c /\ s <= acc.dv + acc.df /\ acc.dv <= acc.ov
  BY DEF Sound
<1>6. LockedCoins(b, t) <= c - n
  BY <1>1, <1>2, <1>3, <1>4, <1>5 DEF LockedCoins, GetVestingCoins, Least, Most
<1>7. s + n <= b.dv + b.df
  BY <1>1, <1>2, <1>5
<1>8. b.dv <= b.ov
  BY <1>1, <1>2, <1>3, <1>4, <1>5 DEF Least, Most
<1>9. b.kind # "none"
  BY <1>4 DEF VestingKinds
<1>10. Sound(b, c - n, s + n, t)
  BY <1>4, <1>6, <1>7, <1>8, <1>9 DEF Sound
<1>. QED
  BY <1>10 DEF b

\* TrackUndelegation: no more coins become locked again than come back, and
\* what stays tracked covers the stake.
LEMMA UndelegatedIsSound ==
    ASSUME NEW acc \in Accounts, NEW c \in Nat, NEW s \in Nat, NEW t \in Nat, NEW n \in Nat, n <= s,
           Sound(acc, c, s, t), acc.kind \in VestingKinds
    PROVE  Sound(TrackUndelegation(acc, n), c + n, s - n, t)
<1> DEFINE b == TrackUndelegation(acc, n)
           x == Least(acc.df, n)
           y == Least(acc.dv, n - x)
<1>1. /\ b \in Accounts /\ x \in 0..n /\ y \in 0..(n - x) /\ b.dv = acc.dv - y /\ b.df = acc.df - x
      /\ b = [acc EXCEPT !.df = acc.df - x, !.dv = acc.dv - y]
  BY TrackUndelegationIs, ZenonT(60)
<1>2. acc.dv \in Nat /\ acc.df \in Nat /\ acc.ov \in Nat /\ GetVestedCoins(acc, t) \in Nat
  BY VestedIsNat DEF Accounts
<1>3. b.dv \in Nat /\ b.df \in Nat
  BY <1>1, ZenonT(60) DEF Accounts
<1> HIDE DEF b, x, y
<1>4. b.kind = acc.kind /\ b.ov = acc.ov /\ Schedule(b) /\ GetVestedCoins(b, t) = GetVestedCoins(acc, t)
  <2>1. SameTerms(acc, b)
    BY <1>1 DEF SameTerms, Accounts
  <2>. QED
    BY <2>1, SameSchedule DEF Sound, SameTerms
<1>5. LockedCoins(acc, t) <= c /\ s <= acc.dv + acc.df /\ acc.dv <= acc.ov
  BY DEF Sound
<1>6. LockedCoins(b, t) <= c + n
  BY <1>1, <1>2, <1>3, <1>4, <1>5 DEF LockedCoins, GetVestingCoins, Least
<1>7. s - n <= b.dv + b.df
  BY <1>1, <1>2, <1>5
<1>8. b.dv <= b.ov
  BY <1>1, <1>2, <1>4, <1>5
<1>9. b.kind # "none"
  BY <1>4 DEF VestingKinds
<1>10. Sound(b, c + n, s - n, t)
  BY <1>4, <1>6, <1>7, <1>8, <1>9, ZenonT(60) DEF Sound
<1>. QED
  BY <1>10 DEF b

\* The account CreateVestingAccount makes locks no more than it is given.
LEMMA CreatedIsSound ==
    ASSUME NEW n \in Nat, NEW t \in Nat, t <= MaxTime, NEW end \in 1..MaxTime, NEW delayed \in BOOLEAN,
           NEW c \in Nat, n <= c
    PROVE  LET acc == [NoAccount EXCEPT !.kind = IF delayed THEN "delayed" ELSE "continuous",
                           !.ov = n, !.start = IF delayed THEN 0 ELSE t, !.end = end]
           IN acc \in Accounts => Sound(acc, c, 0, t)
<1> DEFINE acc == [NoAccount EXCEPT !.kind = IF delayed THEN "delayed" ELSE "continuous",
                           !.ov = n, !.start = IF delayed THEN 0 ELSE t, !.end = end]
<1> SUFFICES ASSUME acc \in Accounts PROVE Sound(acc, c, 0, t)
  OBVIOUS
<1>1. /\ acc.kind = IF delayed THEN "delayed" ELSE "continuous"
      /\ acc.ov = n /\ acc.dv = 0 /\ acc.df = 0 /\ acc.end = end
      /\ acc.start = IF delayed THEN 0 ELSE t
  BY DEF NoAccount
<1> HIDE DEF acc
<1>2. MaxTime \in Nat
  BY BankAssumption
<1>3. Schedule(acc)
  BY <1>1, <1>2 DEF Schedule, VestingKinds, Kinds
<1>4. GetVestedCoins(acc, t) \in Nat
  BY VestedIsNat
<1>5. LockedCoins(acc, t) <= c
  BY <1>1, <1>4 DEF LockedCoins, GetVestingCoins, Least
<1>. QED
  BY <1>1, <1>3, <1>5 DEF Sound

\* A genesis account holds what it vests.
LEMMA GenesisIsSound ==
    ASSUME NEW acc \in Accounts, NEW c \in Nat, GenesisAccount(acc, c)
    PROVE  Sound(acc, c, 0, 0)
<1>1. acc.ov \in Nat /\ acc.dv = 0 /\ acc.df = 0 /\ acc.end \in Nat /\ acc.start \in Nat
  BY Zenon DEF Accounts, GenesisAccount
<1>2. Schedule(acc)
  BY <1>1, ConstantTypes DEF Schedule, GenesisAccount, Validate
<1>3. GetVestedCoins(acc, 0) \in Nat
  BY VestedIsNat, Zenon
<1>4. LockedCoins(acc, 0) <= acc.ov
  BY <1>1, <1>3 DEF LockedCoins, GetVestingCoins, Least
<1>5. acc.ov <= c /\ LockedCoins(acc, 0) \in Nat
  BY LockedIsNat, Zenon DEF GenesisAccount
<1>6. LockedCoins(acc, 0) <= c
  BY <1>1, <1>4, <1>5
<1>. QED
  BY <1>1, <1>2, <1>6 DEF Sound

\* Time passing only unlocks coins.
LEMMA LaterIsSound ==
    ASSUME NEW acc \in Accounts, NEW c \in Nat, NEW s \in Nat, NEW t \in Nat, Sound(acc, c, s, t)
    PROVE  Sound(acc, c, s, t + 1)
<1>1. LockedCoins(acc, t + 1) <= LockedCoins(acc, t)
  BY LockedShrinks, Zenon DEF Sound
<1>2. LockedCoins(acc, t + 1) \in Nat /\ LockedCoins(acc, t) \in Nat
  BY LockedIsNat
<1>3. LockedCoins(acc, t + 1) <= c
  <2>1. LockedCoins(acc, t) <= c
    BY Zenon DEF Sound
  <2>. QED
    BY <1>1, <1>2, <2>1
<1>. QED
  BY <1>3, Zenon DEF Sound

\* What the invariant says of one user.
LEMMA VTypes ==
    ASSUME VInv
    PROVE  /\ BankTypeOK
           /\ \A u \in Users : /\ u \in Holders /\ hold[u].coins \in Nat /\ staked[u] \in Nat /\ accounts[u] \in Accounts
                               /\ Sound(accounts[u], hold[u].coins, staked[u], time)
           /\ time \in Nat /\ time <= MaxTime
<1>1. BankTypeOK /\ AllSound
  BY Zenon DEF VInv, BInv
<1>2. time \in Nat /\ time <= MaxTime
  <2>1. time \in 0..MaxTime
    BY <1>1, VestingTypes, Zenon
  <2>. QED
    BY <2>1, ConstantTypes
<1>. QED
  BY <1>1, <1>2, VestingTypes, UserIsHolder, ZenonT(60) DEF AllSound, Holding

\* A user that spends what is not locked keeps what is.
LEMMA SpentIsSound ==
    ASSUME VInv, NEW u \in Users, NEW n \in Nat, NEW m \in Nat, n > 0 => CanSub(u, n)
    PROVE  Sound(accounts[u], hold[u].coins - n + m, staked[u], time) /\ hold[u].coins - n + m \in Nat
<1>1. /\ accounts[u] \in Accounts /\ hold[u].coins \in Nat /\ staked[u] \in Nat /\ time \in Nat
      /\ Sound(accounts[u], hold[u].coins, staked[u], time)
  BY VTypes, Zenon
<1>2. Locked(u) = LockedCoins(accounts[u], time) /\ Locked(u) \in Nat
  BY <1>1, LockedIsNat, Zenon DEF Locked
<1>3. Locked(u) <= hold[u].coins /\ (n > 0 => n <= hold[u].coins - Locked(u))
  BY <1>1, <1>2, Zenon DEF CanSub, Sound
<1> DEFINE c == hold[u].coins - n + m
<1>4. c \in Nat /\ LockedCoins(accounts[u], time) <= c
  BY <1>1, <1>2, <1>3, SpendingKeepsLocked, Zenon
<1> HIDE DEF c
<1>5. staked[u] <= staked[u]
  BY <1>1
<1>6. Sound(accounts[u], c, staked[u], time)
  BY <1>1, <1>4, <1>5, RicherIsSound, Zenon
<1>. QED
  BY <1>4, <1>6, Zenon DEF c

\* SendCoins makes a base account of a recipient without one.
LEMMA WithAccountIs ==
    ASSUME BankTypeOK, NEW b, NEW u \in Users
    PROVE  WithAccount(b)[u] = IF u = b /\ accounts[u].kind = "none" THEN [accounts[u] EXCEPT !.kind = "base"]
                               ELSE accounts[u]
  BY DEF WithAccount, BankTypeOK

\* Accounts that keep their kind, or become base accounts, leave the senders of
\* wei free.
LEMMA FreeAfterBase ==
    ASSUME VInv, UNCHANGED setup,
           \A u \in Users : \/ accounts'[u] = accounts[u]
                            \/ accounts'[u].kind = "base"
                            \/ accounts'[u].kind = accounts[u].kind
    PROVE  WeiSendersStayFree'
<1>1. setup.weiSenders \subseteq Users
  BY BankAssumption DEF VInv, BInv, BankTypeOK
<1>. QED
  BY <1>1, Zenon DEF VInv, WeiSendersStayFree, VestingKinds

\* SendCoins keeps locked coins held.
LEMMA SendCoinsSound ==
    ASSUME VInv, NEW a \in Holders, NEW b \in Holders, NEW n \in Amounts, SendCoins(a, b, n)
    PROVE  AllSound' /\ WeiSendersStayFree'
<1>1. n \in Nat /\ hold \in [Holders -> Holding] /\ BankTypeOK
  BY VestingTypes, ConstantTypes, Zenon DEF VInv, BInv
<1>2. ASSUME NEW u \in Users
      PROVE  Sound(accounts[u], hold'[u].coins, staked[u], time) /\ hold'[u].coins \in Nat
  <2> DEFINE x == IF u = a THEN n ELSE 0
             y == IF u = b THEN n ELSE 0
  <2>1. hold'[u].coins = hold[u].coins - x + y
    <3>1. u \in Holders /\ hold' = AddCoins(SubUnlockedCoins(hold, a, n), b, n)
      BY UserIsHolder, Zenon DEF SendCoins
    <3>. QED
      BY <1>1, <3>1, MovedCoins
  <2>2. x \in Nat /\ y \in Nat /\ (x > 0 => CanSub(u, x))
    <3>1. CanSub(a, n)
      BY Zenon DEF SendCoins
    <3>. QED
      BY <1>1, <3>1
  <2> HIDE DEF x, y
  <2>3. Sound(accounts[u], hold[u].coins - x + y, staked[u], time) /\ hold[u].coins - x + y \in Nat
    BY <2>2, SpentIsSound, Zenon
  <2>. QED
    BY <2>1, <2>3, Zenon
<1>3. ASSUME NEW u \in Users
      PROVE  accounts'[u] = IF u = b /\ accounts[u].kind = "none" THEN [accounts[u] EXCEPT !.kind = "base"]
                            ELSE accounts[u]
  BY <1>1, WithAccountIs DEF SendCoins
<1>4. ASSUME NEW u \in Users
      PROVE  Sound(accounts'[u], hold'[u].coins, staked'[u], time')
  <2>1. CASE u = b /\ accounts[u].kind = "none"
    <3>1. accounts[u] \in Accounts /\ time \in Nat
      BY VTypes
    <3>2. Sound([accounts[u] EXCEPT !.kind = "base"], hold'[u].coins, staked[u], time)
      BY <1>2, <2>1, <3>1, BasedIsSound
    <3>. QED
      BY <1>3, <2>1, <3>2, Zenon DEF SendCoins
  <2>. QED
    BY <1>2, <1>3, <2>1, ZenonT(60) DEF SendCoins
<1>5. \A u \in Users : accounts'[u] = accounts[u] \/ accounts'[u].kind = "base"
  BY <1>1, <1>3, ZenonT(60) DEF BankTypeOK, Accounts
<1>6. UNCHANGED setup
  BY DEF SendCoins
<1>. QED
  BY <1>4, <1>5, <1>6, FreeAfterBase, ZenonT(60) DEF AllSound

\* InputOutputCoins keeps them held.
LEMMA InputOutputSound ==
    ASSUME VInv, NEW in \in [Users -> 0..MaxEntry], NEW out \in [Users -> 0..MaxEntry],
           InputOutputCoins(in, out)
    PROVE  AllSound' /\ WeiSendersStayFree'
<1>1. hold \in [Holders -> Holding] /\ BankTypeOK /\ MaxEntry \in Nat
  BY Types, BankAssumption, ZenonT(60) DEF VInv, BInv
<1>2. ASSUME NEW u \in Users
      PROVE  Sound(accounts[u], hold'[u].coins, staked[u], time) /\ hold'[u].coins \in Nat
  <2>1. in[u] \in Nat /\ out[u] \in Nat /\ (in[u] > 0 => CanSub(u, in[u]))
    BY ConstantTypes, Zenon DEF InputOutputCoins
  <2>2. hold'[u].coins = hold[u].coins - in[u] + out[u]
    BY <1>1, Zenon DEF InputOutputCoins, Holders, Holding
  <2>3. /\ Sound(accounts[u], hold[u].coins - in[u] + out[u], staked[u], time)
        /\ hold[u].coins - in[u] + out[u] \in Nat
    BY <2>1, SpentIsSound, Zenon
  <2>. QED
    BY <2>2, <2>3, Zenon
<1>3. ASSUME NEW u \in Users
      PROVE  accounts'[u] = IF out[u] > 0 /\ accounts[u].kind = "none" THEN [accounts[u] EXCEPT !.kind = "base"]
                            ELSE accounts[u]
  BY DEF InputOutputCoins
<1>4. ASSUME NEW u \in Users
      PROVE  Sound(accounts'[u], hold'[u].coins, staked'[u], time')
  <2>1. CASE out[u] > 0 /\ accounts[u].kind = "none"
    <3>1. accounts[u] \in Accounts /\ time \in Nat
      BY VTypes
    <3>2. Sound([accounts[u] EXCEPT !.kind = "base"], hold'[u].coins, staked[u], time)
      BY <1>2, <2>1, <3>1, BasedIsSound, ZenonT(60)
    <3>. QED
      BY <1>3, <2>1, <3>2, ZenonT(60) DEF InputOutputCoins
  <2>. QED
    BY <1>2, <1>3, <2>1, ZenonT(60) DEF InputOutputCoins
<1>5. \A u \in Users : accounts'[u] = accounts[u] \/ accounts'[u].kind = "base"
  BY <1>1, <1>3, ZenonT(60) DEF BankTypeOK, Accounts
<1>6. UNCHANGED setup
  BY DEF InputOutputCoins
<1>. QED
  BY <1>4, <1>5, <1>6, FreeAfterBase, ZenonT(60) DEF AllSound

\* A step that changes balances only, and leaves each user what it has locked.
LEMMA StillSound ==
    ASSUME VInv, UNCHANGED <<setup, accounts, time>>,
           \A u \in Users : /\ hold'[u].coins \in Nat /\ Locked(u) <= hold'[u].coins
                            /\ staked'[u] \in Nat /\ staked'[u] <= staked[u]
    PROVE  AllSound' /\ WeiSendersStayFree'
<1>1. ASSUME NEW u \in Users
      PROVE  Sound(accounts[u], hold'[u].coins, staked'[u], time)
  <2>1. /\ accounts[u] \in Accounts /\ hold[u].coins \in Nat /\ staked[u] \in Nat /\ time \in Nat
        /\ Sound(accounts[u], hold[u].coins, staked[u], time)
    BY VTypes
  <2>2. LockedCoins(accounts[u], time) <= hold'[u].coins
    BY DEF Locked
  <2>. QED
    BY <2>1, <2>2, RicherIsSound, ZenonT(60)
<1>2. WeiSendersStayFree'
  BY FreeAfterBase, Zenon
<1>. QED
  BY <1>1, <1>2 DEF AllSound

\* SendCoinsAndWei breaks up coins of a sender that has none locked.
LEMMA SendWeiSound ==
    ASSUME VInv, BInv', NEW a \in setup.weiSenders, NEW b \in Users, NEW n \in 0..MaxAmount,
           NEW w \in 1..OneUseiInWei, SendCoinsAndWei(a, b, n, w)
    PROVE  AllSound' /\ WeiSendersStayFree'
<1>1. /\ hold \in [Holders -> Holding] /\ hold' \in [Holders -> Holding]
      /\ a \in Users /\ a \in Holders /\ b \in Holders /\ n \in Nat /\ w \in Nat /\ OneUseiInWei \in Nat \ {0}
  <2>1. BankTypeOK /\ BankTypeOK'
    BY Zenon DEF VInv, BInv
  <2>2. setup.weiSenders \subseteq Users /\ hold \in [Holders -> Holding]
    BY <2>1, VestingTypes, Zenon
  <2>3. hold' \in [Holders -> Holding]
    BY <2>1, Zenon DEF BankTypeOK, Holding
  <2>. QED
    BY <2>2, <2>3, UserIsHolder, ConstantTypes, Zenon
<1> DEFINE r == SubWei(hold[a], w)
           H1 == [hold EXCEPT ![a] = r]
           q == AddWei(H1[b], w)
           H2 == [H1 EXCEPT ![b] = q]
<1>2. hold' = AddCoins(SubUnlockedCoins(H2, a, n), b, n)
  BY ZenonT(60) DEF SendCoinsAndWei
<1>3. ASSUME NEW u \in Users, u # a
      PROVE  hold[u].coins <= hold'[u].coins
  <2>1. u \in Holders /\ hold[u] \in Holding
    BY <1>1, UserIsHolder
  <2>2. H1[u] = hold[u] /\ DOMAIN H1 = Holders
    BY <1>1, <1>3, <2>1, ZenonT(60)
  <2> HIDE DEF H1, r
  <2>3. CASE u = b
    <3>1. q.coins >= hold[u].coins /\ q.coins \in Nat
      <4> DEFINE h == hold[u]
      <4>1. h.coins \in Nat /\ h.wei \in Nat /\ q = AddWei(h, w)
        BY <2>1, <2>2, <2>3, ZenonT(60) DEF Holding
      <4>2. (h.wei + w) \div OneUseiInWei \in Nat
        BY <1>1, <4>1, Division
      <4>3. AddWei(h, w).coins = IF h.wei + w < OneUseiInWei THEN h.coins ELSE h.coins + ((h.wei + w) \div OneUseiInWei)
        BY <2>1 DEF AddWei, SplitUseiWeiAmount, Holding
      <4> HIDE DEF h, q
      <4>. QED
        BY <4>1, <4>2, <4>3 DEF h
    <3>2. H2[u] = q /\ DOMAIN H2 = Holders
      BY <1>1, <2>2, <2>3
    <3> HIDE DEF H2, q
    <3> DEFINE S == SubUnlockedCoins(H2, a, n)
    <3>3. S[u] = q /\ DOMAIN S = Holders
      BY <1>3, <2>1, <3>2 DEF SubUnlockedCoins
    <3>4. "coins" \in DOMAIN q
      <4>1. DOMAIN H1[b] = {"coins", "wei"}
        BY <1>1, <2>2, <2>3 DEF Holding
      <4>. QED
        BY <4>1 DEF q, AddWei
    <3> HIDE DEF S
    <3>5. AddCoins(S, b, n)[u].coins = q.coins + n
      BY <1>1, <2>3, <3>3, <3>4, ZenonT(60) DEF AddCoins
    <3>6. hold'[u].coins = q.coins + n
      BY <1>2, <3>5, ZenonT(60) DEF S
    <3>7. hold[u].coins \in Nat
      BY <2>1, ZenonT(60) DEF Holding
    <3>. QED
      BY <1>1, <3>1, <3>6, <3>7, StillMore, ZenonT(60)
  <2>4. CASE u # b
    <3>1. H2[u] = hold[u] /\ DOMAIN H2 = Holders
      BY <2>1, <2>2, <2>4
    <3> HIDE DEF H2
    <3>2. hold'[u] = hold[u]
      BY <1>2, <1>3, <2>1, <2>4, <3>1, ZenonT(60) DEF AddCoins, SubUnlockedCoins
    <3>. QED
      BY <2>1, <3>2 DEF Holding
  <2>. QED
    BY <2>3, <2>4, ZenonT(60)
<1> HIDE DEF H1, H2, r, q
<1>4. ASSUME NEW u \in Users
      PROVE  /\ hold'[u].coins \in Nat /\ Locked(u) <= hold'[u].coins
             /\ staked'[u] \in Nat /\ staked'[u] <= staked[u]
  <2>1. /\ accounts[u] \in Accounts /\ hold[u].coins \in Nat /\ staked[u] \in Nat /\ time \in Nat
        /\ Sound(accounts[u], hold[u].coins, staked[u], time)
    BY VTypes
  <2>2. hold'[u].coins \in Nat /\ staked' = staked
    BY <1>1, UserIsHolder, ZenonT(60) DEF Holding, SendCoinsAndWei
  <2>3. Locked(u) = LockedCoins(accounts[u], time) /\ Locked(u) \in Nat
    BY <2>1, LockedIsNat, ZenonT(60) DEF Locked
  <2>4. CASE u = a
    <3>1. Schedule(accounts[u]) /\ accounts[u].kind \notin VestingKinds
      BY <2>1, <2>4, ZenonT(60) DEF Sound, VInv, WeiSendersStayFree
    <3>2. Locked(u) = 0
      BY <2>1, <2>3, <3>1, NothingLocked, ZenonT(60)
    <3>. QED
      BY <2>1, <2>2, <3>2
  <2>5. CASE u # a
    <3>1. Locked(u) <= hold[u].coins /\ hold[u].coins <= hold'[u].coins
      BY <1>3, <2>1, <2>3, <2>5, Zenon DEF Sound
    <3>. QED
      BY <2>1, <2>2, <2>3, <3>1
  <2>. QED
    BY <2>4, <2>5, ZenonT(60)
<1>5. UNCHANGED <<setup, accounts, time>>
  BY Zenon DEF SendCoinsAndWei
<1>. QED
  BY <1>4, <1>5, StillSound, ZenonT(60)

\* CreateVestingAccount pays what it locks, and makes no sender of wei vest.
LEMMA CreateSound ==
    ASSUME VInv, NEW a \in setup.creators, NEW b \in Users, NEW n \in Amounts,
           NEW end \in 1..MaxTime, NEW delayed \in BOOLEAN,
           accounts' \in [Users -> Accounts],
           CreateVestingAccount(a, b, n, end, delayed)
    PROVE  AllSound' /\ WeiSendersStayFree'
<1>1. /\ hold \in [Holders -> Holding] /\ BankTypeOK /\ setup.creators \subseteq Users
      /\ setup.weiSenders \subseteq Users /\ a \in Users /\ n \in Nat /\ CanSub(a, n)
      /\ a \in Holders /\ b \in Holders
  <2>1. BankTypeOK /\ CanSub(a, n)
    BY Zenon DEF VInv, BInv, CreateVestingAccount
  <2>2. hold \in [Holders -> Holding] /\ setup.creators \subseteq Users /\ setup.weiSenders \subseteq Users
    BY <2>1, VestingTypes, ZenonT(60)
  <2>. QED
    BY <2>1, <2>2, UserIsHolder, ConstantTypes, ZenonT(60)
<1>2. ASSUME NEW u \in Users
      PROVE  hold'[u].coins = hold[u].coins - (IF u = a THEN n ELSE 0) + (IF u = b THEN n ELSE 0)
  <2>1. u \in Holders /\ hold' = AddCoins(SubUnlockedCoins(hold, a, n), b, n)
    BY UserIsHolder, ZenonT(60) DEF CreateVestingAccount
  <2>. QED
    BY <1>1, <2>1, MovedCoins
<1>3. ASSUME NEW u \in Users
      PROVE  Sound(accounts'[u], hold'[u].coins, staked[u], time)
  <2>1. CASE u = b
    <3> DEFINE acc == [NoAccount EXCEPT !.kind = IF delayed THEN "delayed" ELSE "continuous",
                           !.ov = n, !.start = IF delayed THEN 0 ELSE time, !.end = end]
    <3>1. accounts'[u] = acc /\ acc \in Accounts
      <4>1. accounts' = [accounts EXCEPT ![b] = acc] /\ accounts \in [Users -> Accounts]
        BY <1>1 DEF CreateVestingAccount, BankTypeOK
      <4> HIDE DEF acc
      <4>. QED
        BY <2>1, <4>1
    <3>2. hold[u].coins \in Nat /\ time \in Nat /\ time <= MaxTime /\ staked[u] = 0
      BY <2>1, VTypes, ZenonT(60) DEF CreateVestingAccount, Sound
    <3>3. hold'[u].coins \in Nat /\ n <= hold'[u].coins
      <4>1. u = a => n <= hold[u].coins
        BY <1>1, SpendableIsHeld, ZenonT(60)
      <4>2. Moves(hold, hold', a, b, n) /\ u \in Holders
        BY <1>1, UserIsHolder, Zenon DEF CreateVestingAccount, Moves
      <4>3. MovedAt(hold, hold', a, b, n, u)
        BY <4>2, MovedCoinsOf, Zenon
      <4>4. hold'[u].coins = hold[u].coins \/ hold'[u].coins = hold[u].coins + n
        BY <2>1, <4>3, Zenon DEF MovedAt
      <4>5. u # a => hold'[u].coins = hold[u].coins + n
        BY <2>1, <4>3, Zenon DEF MovedAt
      <4>. QED
        BY <1>1, <3>2, <4>1, <4>4, <4>5, Received, ZenonT(60)
    <3>4. Sound(acc, hold'[u].coins, 0, time)
      BY <1>1, <3>1, <3>2, <3>3, CreatedIsSound, ZenonT(60)
    <3> HIDE DEF acc
    <3>. QED
      BY <3>1, <3>2, <3>4, Zenon
  <2>2. CASE u # b
    <3> DEFINE x == IF u = a THEN n ELSE 0
    <3>1. accounts'[u] = accounts[u]
      BY <1>1, <2>2, ZenonT(60) DEF CreateVestingAccount, BankTypeOK
    <3>2. x \in Nat /\ 0 \in Nat /\ (x > 0 => CanSub(u, x))
      <4>1. n \in Nat /\ CanSub(a, n)
        BY <1>1, Zenon
      <4>. QED
        BY <4>1
    <3>3. hold'[u].coins = hold[u].coins - x + 0
      BY <1>2, <2>2, ZenonT(60)
    <3> HIDE DEF x
    <3>4. Sound(accounts[u], hold[u].coins - x + 0, staked[u], time)
      BY <3>2, SpentIsSound, Zenon
    <3>. QED
      BY <3>1, <3>3, <3>4, ZenonT(60)
  <2>. QED
    BY <2>1, <2>2, Zenon
<1>4. AllSound'
  BY <1>3 DEF AllSound, CreateVestingAccount
<1>5. WeiSendersStayFree'
  <2>1. b \notin setup.weiSenders
    BY DEF VInv, WeiSendersStayFree, CreateVestingAccount
  <2>2. \A u \in setup.weiSenders : accounts'[u] = accounts[u]
    BY <1>1, <2>1, ZenonT(60) DEF CreateVestingAccount, BankTypeOK
  <2>. QED
    BY <2>2 DEF VInv, WeiSendersStayFree, CreateVestingAccount
<1>. QED
  BY <1>4, <1>5

\* DeductFees spends what is not locked.
LEMMA FeeSound ==
    ASSUME VInv, NEW a \in Users, NEW n \in Amounts, DeferredSend(a, n)
    PROVE  AllSound' /\ WeiSendersStayFree'
<1>1. ASSUME NEW u \in Users
      PROVE  /\ hold'[u].coins \in Nat /\ Locked(u) <= hold'[u].coins
             /\ staked'[u] \in Nat /\ staked'[u] <= staked[u]
  <2>1. /\ accounts[u] \in Accounts /\ hold[u].coins \in Nat /\ staked[u] \in Nat /\ time \in Nat
        /\ Sound(accounts[u], hold[u].coins, staked[u], time) /\ u \in Holders
    BY VTypes, Zenon
  <2>2. Locked(u) = LockedCoins(accounts[u], time) /\ Locked(u) \in Nat
    BY <2>1, LockedIsNat, Zenon DEF Locked
  <2>3. hold \in [Holders -> Holding] /\ n \in Nat /\ staked' = staked
    BY VestingTypes, ConstantTypes, Zenon DEF VInv, BInv, DeferredSend
  <2>4. hold'[u].coins = IF u = a THEN hold[u].coins - n ELSE hold[u].coins
    BY <2>1, <2>3, ZenonT(60) DEF DeferredSend, SubUnlockedCoins, Holding
  <2>5. u = a => n <= hold[u].coins - Locked(u)
    BY Zenon DEF DeferredSend, CanSub
  <2>6. Locked(u) <= hold[u].coins
    BY <2>1, <2>2, Zenon DEF Sound
  <2>7. hold'[u].coins \in Nat /\ Locked(u) <= hold'[u].coins
    <3>1. hold'[u].coins = hold[u].coins \/ (hold'[u].coins = hold[u].coins - n /\ n <= hold[u].coins - Locked(u))
      BY <2>4, <2>5, Zenon
    <3>. QED
      BY <2>1, <2>2, <2>3, <2>6, <3>1, SpentFrom, Zenon
  <2>8. staked[u] <= staked[u]
    BY <2>1
  <2>. QED
    BY <2>1, <2>3, <2>7, <2>8, Zenon
<1>2. UNCHANGED <<setup, accounts, time>>
  BY DEF DeferredSend
<1>. QED
  BY <1>1, <1>2, StillSound, ZenonT(60)

\* A base account may delegate and hold anything.
LEMMA PlainIsSound ==
    ASSUME NEW acc \in Accounts, Schedule(acc), acc.kind \notin VestingKinds, acc.kind # "none",
           NEW c \in Nat, NEW s, NEW t \in Nat
    PROVE  Sound(acc, c, s, t)
<1>1. LockedCoins(acc, t) = 0
  BY NothingLocked
<1>. QED
  BY <1>1 DEF Sound

\* The settlement of fees touches no user, and a second passes.
LEMMA EndBlockSound == ASSUME VInv, EndBlock PROVE AllSound' /\ WeiSendersStayFree'
<1>1. ASSUME NEW u \in Users
      PROVE  Sound(accounts'[u], hold'[u].coins, staked'[u], time')
  <2>1. /\ accounts[u] \in Accounts /\ hold[u].coins \in Nat /\ staked[u] \in Nat /\ time \in Nat
        /\ Sound(accounts[u], hold[u].coins, staked[u], time) /\ u \in Holders /\ u \notin ModuleAccounts
        /\ time <= MaxTime /\ MaxTime \in Nat
    BY VTypes, UserIsHolder, ConstantTypes, Zenon
  <2>2. hold'[u] = hold[u] /\ accounts' = accounts /\ staked' = staked
    BY <2>1, ZenonT(60) DEF EndBlock, WriteDeferredBalances
  <2>3. time' = time \/ time' = time + 1
    BY NextTime, Zenon DEF EndBlock, VInv, BInv, BankTypeOK
  <2>4. Sound(accounts[u], hold[u].coins, staked[u], time + 1)
    BY <2>1, LaterIsSound, Zenon
  <2>. QED
    BY <2>1, <2>2, <2>3, <2>4, ZenonT(60)
<1>2. WeiSendersStayFree'
  BY FreeAfterBase DEF EndBlock
<1>. QED
  BY <1>1, <1>2 DEF AllSound

\* MintCoins and BurnCoins touch modules only, and slashing lowers a stake.
LEMMA SupplySound ==
    ASSUME VInv, NEW m \in ModuleAccounts, NEW n \in Amounts, NEW u \in Users,
           MintCoins(m, n) \/ BurnCoins(m, n, u)
    PROVE  AllSound' /\ WeiSendersStayFree'
<1>1. ASSUME NEW v \in Users
      PROVE  /\ hold'[v].coins \in Nat /\ Locked(v) <= hold'[v].coins
             /\ staked'[v] \in Nat /\ staked'[v] <= staked[v]
  <2>1. /\ accounts[v] \in Accounts /\ hold[v].coins \in Nat /\ staked[v] \in Nat /\ time \in Nat
        /\ Sound(accounts[v], hold[v].coins, staked[v], time) /\ v \in Holders /\ v # m
    BY VTypes, UserIsHolder, Zenon
  <2>2. Locked(v) = LockedCoins(accounts[v], time)
    BY Zenon DEF Locked
  <2>3. hold \in [Holders -> Holding] /\ n \in Nat /\ staked \in [Users -> Nat]
    BY VestingTypes, ConstantTypes, Zenon DEF VInv, BInv
  <2>4. hold'[v] = hold[v]
    BY <2>1, <2>3, ZenonT(60) DEF MintCoins, BurnCoins, SubUnlockedCoins, AddCoins
  <2>5. staked'[v] \in Nat /\ staked'[v] <= staked[v]
    <3>1. staked'[v] = staked[v] \/ (staked'[v] = staked[v] - n /\ staked[v] >= n)
      BY <2>3, Zenon DEF MintCoins, BurnCoins
    <3>. QED
      BY <2>1, <2>3, <3>1, Slashed, Zenon
  <2>. QED
    BY <2>1, <2>2, <2>4, <2>5, ZenonT(60) DEF Sound
<1>2. UNCHANGED <<setup, accounts, time>>
  BY DEF MintCoins, BurnCoins
<1>. QED
  BY <1>1, <1>2, StillSound, ZenonT(60)

\* DelegateCoins keeps locked coins held, or delegated.
LEMMA DelegateSound ==
    ASSUME VInv, NEW u \in Users, NEW n \in Amounts, DelegateCoins(u, n)
    PROVE  AllSound' /\ WeiSendersStayFree'
<1>1. /\ hold \in [Holders -> Holding] /\ n \in Nat /\ staked \in [Users -> Nat] /\ accounts \in [Users -> Accounts]
      /\ Pool \in ModuleAccounts /\ Pool \in Holders /\ u \in Holders
  <2>1. BankTypeOK
    BY Zenon DEF VInv, BInv
  <2>. QED
    BY <2>1, VestingTypes, UserIsHolder, ConstantTypes, ZenonT(60)
<1>2. ASSUME NEW v \in Users
      PROVE  /\ v # u => accounts'[v] = accounts[v] /\ hold'[v].coins = hold[v].coins /\ staked'[v] = staked[v]
             /\ v = u => /\ hold'[v].coins = hold[v].coins - n /\ staked'[v] = staked[v] + n
                         /\ accounts'[v] = IF accounts[v].kind \in VestingKinds THEN TrackDelegation(accounts[v], time, n)
                                           ELSE accounts[v]
  <2>1. v \in Holders /\ v # Pool
    BY <1>1, UserIsHolder, Zenon
  <2>2. Moves(hold, hold', u, Pool, n)
    BY <1>1, ZenonT(60) DEF DelegateCoins, SubUnlockedCoins, Moves
  <2>3. hold'[v].coins = IF v = u THEN hold[v].coins - n ELSE hold[v].coins
    <3>1. MovedAt(hold, hold', u, Pool, n, v)
      BY <2>1, <2>2, MovedCoinsOf, Zenon
    <3>. QED
      BY <2>1, <3>1, Zenon DEF MovedAt
  <2>4. staked'[v] = IF v = u THEN staked[v] + n ELSE staked[v]
    BY <1>1, Zenon DEF DelegateCoins
  <2>5. accounts'[v] = IF v = u /\ accounts[v].kind \in VestingKinds THEN TrackDelegation(accounts[v], time, n)
                       ELSE accounts[v]
    BY <1>1, ZenonT(60) DEF DelegateCoins
  <2>. QED
    BY <2>3, <2>4, <2>5, Zenon
<1>3. ASSUME NEW v \in Users
      PROVE  Sound(accounts'[v], hold'[v].coins, staked'[v], time)
  <2>1. /\ accounts[v] \in Accounts /\ hold[v].coins \in Nat /\ staked[v] \in Nat /\ time \in Nat
        /\ Sound(accounts[v], hold[v].coins, staked[v], time)
    BY VTypes
  <2>2. CASE v # u
    BY <1>2, <2>1, <2>2, ZenonT(60)
  <2>3. CASE v = u
    <3>1. n <= hold[v].coins /\ accounts[v].kind # "none"
      BY <2>3, ZenonT(60) DEF DelegateCoins
    <3>2. CASE accounts[v].kind \in VestingKinds
      BY <1>1, <1>2, <2>1, <2>3, <3>1, <3>2, DelegatedIsSound, ZenonT(60)
    <3>3. CASE accounts[v].kind \notin VestingKinds
      <4> DEFINE c == hold[v].coins - n
                 s == staked[v] + n
      <4>1. c \in Nat
        BY <1>1, <2>1, <3>1, Slashed, ZenonT(60)
      <4>2. Schedule(accounts[v])
        BY <2>1, Zenon DEF Sound
      <4> HIDE DEF c, s
      <4>3. Sound(accounts[v], c, s, time)
        BY <2>1, <3>1, <3>3, <4>1, <4>2, PlainIsSound, ZenonT(60)
      <4>. QED
        BY <1>2, <2>3, <3>3, <4>3, ZenonT(60) DEF c, s
    <3>. QED
      BY <3>2, <3>3
  <2>. QED
    BY <2>2, <2>3, ZenonT(60)
<1>4. ASSUME NEW v \in Users PROVE accounts'[v].kind = accounts[v].kind
  <2>1. accounts[v] \in Accounts /\ time \in Nat
    BY VTypes
  <2>2. TrackDelegation(accounts[v], time, n).kind = accounts[v].kind
    BY <2>1 DEF TrackDelegation, Accounts
  <2>. QED
    BY <1>2, <2>2, ZenonT(60)
<1>5. UNCHANGED <<setup, time>>
  BY ZenonT(60) DEF DelegateCoins
<1>. QED
  BY <1>3, <1>4, <1>5, FreeAfterBase, ZenonT(60) DEF AllSound

\* UndelegateCoins gives back what it may lock.
LEMMA UndelegateSound ==
    ASSUME VInv, NEW u \in Users, NEW n \in Amounts, UndelegateCoins(u, n)
    PROVE  AllSound' /\ WeiSendersStayFree'
<1>1. /\ hold \in [Holders -> Holding] /\ n \in Nat /\ staked \in [Users -> Nat] /\ accounts \in [Users -> Accounts]
      /\ Pool \in ModuleAccounts /\ Pool \in Holders /\ u \in Holders /\ n > 0
  <2>1. BankTypeOK
    BY Zenon DEF VInv, BInv
  <2>. QED
    BY <2>1, VestingTypes, UserIsHolder, ConstantTypes, ZenonT(60)
<1>2. ASSUME NEW v \in Users
      PROVE  /\ v # u => accounts'[v] = accounts[v] /\ hold'[v].coins = hold[v].coins /\ staked'[v] = staked[v]
             /\ v = u => /\ hold'[v].coins = hold[v].coins + n /\ staked'[v] = staked[v] - n
                         /\ accounts'[v] = IF accounts[v].kind \in VestingKinds THEN TrackUndelegation(accounts[v], n)
                                           ELSE accounts[v]
  <2>1. v \in Holders /\ v # Pool
    BY <1>1, UserIsHolder, Zenon
  <2>2. Moves(hold, hold', Pool, u, n)
    BY <1>1, ZenonT(60) DEF UndelegateCoins, Moves
  <2>3. hold'[v].coins = IF v = u THEN hold[v].coins + n ELSE hold[v].coins
    <3>1. MovedAt(hold, hold', Pool, u, n, v)
      BY <2>1, <2>2, MovedCoinsOf, Zenon
    <3>. QED
      BY <2>1, <3>1, Zenon DEF MovedAt
  <2>4. staked'[v] = IF v = u THEN staked[v] - n ELSE staked[v]
    BY <1>1, Zenon DEF UndelegateCoins
  <2>5. accounts'[v] = IF v = u /\ accounts[v].kind \in VestingKinds THEN TrackUndelegation(accounts[v], n)
                       ELSE accounts[v]
    BY <1>1, ZenonT(60) DEF UndelegateCoins
  <2>. QED
    BY <2>3, <2>4, <2>5, Zenon
<1>3. ASSUME NEW v \in Users
      PROVE  Sound(accounts'[v], hold'[v].coins, staked'[v], time)
  <2>1. /\ accounts[v] \in Accounts /\ hold[v].coins \in Nat /\ staked[v] \in Nat /\ time \in Nat
        /\ Sound(accounts[v], hold[v].coins, staked[v], time)
    BY VTypes
  <2>2. CASE v # u
    BY <1>2, <2>1, <2>2, ZenonT(60)
  <2>3. CASE v = u
    <3>1. n <= staked[v] /\ accounts[v].kind # "none"
      <4>1. staked[v] >= n /\ (accounts[v].kind = "none" => staked[v] = 0)
        BY <2>1, <2>3, Zenon DEF UndelegateCoins, Sound
      <4>2. n <= staked[v] /\ staked[v] # 0
        BY <1>1, <2>1, <4>1, AtLeast, Zenon
      <4>. QED
        BY <4>1, <4>2, Zenon
    <3>2. CASE accounts[v].kind \in VestingKinds
      BY <1>1, <1>2, <2>1, <2>3, <3>1, <3>2, UndelegatedIsSound, ZenonT(60)
    <3>3. CASE accounts[v].kind \notin VestingKinds
      <4> DEFINE c == hold[v].coins + n
                 s == staked[v] - n
      <4>1. c \in Nat
        BY <1>1, <2>1, Received, Zenon
      <4>2. Schedule(accounts[v])
        BY <2>1, Zenon DEF Sound
      <4> HIDE DEF c, s
      <4>3. Sound(accounts[v], c, s, time)
        BY <2>1, <3>1, <3>3, <4>1, <4>2, PlainIsSound, ZenonT(60)
      <4>. QED
        BY <1>2, <2>3, <3>3, <4>3, ZenonT(60) DEF c, s
    <3>. QED
      BY <3>2, <3>3
  <2>. QED
    BY <2>2, <2>3, ZenonT(60)
<1>4. ASSUME NEW v \in Users PROVE accounts'[v].kind = accounts[v].kind
  <2>1. accounts[v] \in Accounts
    BY VTypes
  <2>2. TrackUndelegation(accounts[v], n).kind = accounts[v].kind
    BY <2>1 DEF TrackUndelegation, Accounts
  <2>. QED
    BY <1>2, <2>2, ZenonT(60)
<1>5. UNCHANGED <<setup, time>>
  BY ZenonT(60) DEF UndelegateCoins
<1>. QED
  BY <1>3, <1>4, <1>5, FreeAfterBase, ZenonT(60) DEF AllSound

\* Genesis accounts hold what they vest.
LEMMA VestingInit == BankInit => VInv
<1> SUFFICES ASSUME BankInit PROVE VInv
  OBVIOUS
<1>1. BInv
  BY BankInitInv
<1>2. setup \in Setups /\ accounts = setup.accounts /\ time = 0
  BY ZenonT(60) DEF BankInit
<1>3. ASSUME NEW u \in Users
      PROVE  Sound(accounts[u], hold[u].coins, staked[u], time)
  <2>1. /\ accounts[u] \in Accounts /\ GenesisAccount(accounts[u], GenesisCoins[u])
        /\ GenesisCoins[u] \in Nat /\ MaxTime \in Nat
    BY <1>2, BankAssumption, ZenonT(60)
  <2>2. hold[u].coins = GenesisCoins[u] /\ staked[u] = 0
    BY UserIsHolder, Zenon DEF BankInit
  <2>. QED
    BY <1>2, <2>1, <2>2, GenesisIsSound, Zenon
<1>4. WeiSendersStayFree
  BY <1>2, WeiSendersDoNotVest, Zenon DEF WeiSendersStayFree
<1>. QED
  BY <1>1, <1>3, <1>4, ZenonT(60) DEF VInv, AllSound

\* Every operation of the bank keeps locked coins held.
LEMMA VestingNext == VInv /\ [BankNext]_bankVars => VInv'
<1> SUFFICES ASSUME VInv, [BankNext]_bankVars PROVE VInv'
  OBVIOUS
<1>0. BInv'
  BY BankNextInv, ZenonT(60) DEF VInv
<1>1. setup \in Setups /\ {setup.weiSenders, setup.creators, setup.delegators} \subseteq SUBSET Users
  BY BankAssumption, Zenon DEF VInv, BInv, BankTypeOK
<1>2. AllSound' /\ WeiSendersStayFree'
  <2>1. ASSUME NEW a \in Holders \ {Pool}, NEW b \in Holders \ {Pool}, NEW n \in Amounts, SendCoins(a, b, n)
        PROVE  AllSound' /\ WeiSendersStayFree'
    BY <2>1, SendCoinsSound, Zenon
  <2>2. ASSUME NEW in \in [Users -> 0..MaxEntry], NEW out \in [Users -> 0..MaxEntry], InputOutputCoins(in, out)
        PROVE  AllSound' /\ WeiSendersStayFree'
    BY <2>2, InputOutputSound, ZenonT(60)
  <2>3. ASSUME NEW a \in setup.weiSenders, NEW b \in Users, NEW n \in 0..MaxAmount, NEW w \in 1..OneUseiInWei,
               SendCoinsAndWei(a, b, n, w)
        PROVE  AllSound' /\ WeiSendersStayFree'
    BY <1>0, <2>3, SendWeiSound, ZenonT(60)
  <2>4. ASSUME NEW a \in setup.creators, NEW b \in Users, NEW n \in Amounts, NEW end \in 1..MaxTime,
               NEW delayed \in BOOLEAN, CreateVestingAccount(a, b, n, end, delayed)
        PROVE  AllSound' /\ WeiSendersStayFree'
    <3>1. accounts' \in [Users -> Accounts]
      BY <1>0 DEF BInv, BankTypeOK
    <3>. QED
      BY <2>4, <3>1, CreateSound, ZenonT(60)
  <2>5. ASSUME NEW a \in Users, NEW n \in Amounts, DeferredSend(a, n)
        PROVE  AllSound' /\ WeiSendersStayFree'
    BY <2>5, FeeSound, Zenon
  <2>6. CASE EndBlock
    BY <2>6, EndBlockSound, ZenonT(60)
  <2>7. CASE NextTx \/ UNCHANGED bankVars
    <3>1. UNCHANGED <<setup, hold, accounts, time, staked>>
      BY <2>7, Zenon DEF NextTx, bankVars
    <3>. QED
      BY <3>1, ZenonT(60) DEF VInv, AllSound, WeiSendersStayFree
  <2>8. ASSUME NEW m \in ModuleAccounts, NEW n \in Amounts, MintCoins(m, n)
        PROVE  AllSound' /\ WeiSendersStayFree'
    <3>1. CASE Users = {}
      <4>1. setup.weiSenders = {} /\ setup' = setup
        BY <1>1, <2>8, <3>1, ZenonT(60) DEF MintCoins
      <4>. QED
        BY <3>1, <4>1, ZenonT(60) DEF AllSound, WeiSendersStayFree
    <3>2. ASSUME NEW u \in Users PROVE AllSound' /\ WeiSendersStayFree'
      BY <2>8, SupplySound, ZenonT(60)
    <3>. QED
      BY <3>1, <3>2, ZenonT(60)
  <2>9. ASSUME NEW m \in ModuleAccounts, NEW n \in Amounts, NEW u \in setup.delegators, BurnCoins(m, n, u)
        PROVE  AllSound' /\ WeiSendersStayFree'
    BY <1>1, <2>9, SupplySound, ZenonT(60)
  <2>10. ASSUME NEW u \in setup.delegators, NEW n \in Amounts, DelegateCoins(u, n)
         PROVE  AllSound' /\ WeiSendersStayFree'
    BY <1>1, <2>10, DelegateSound, ZenonT(60)
  <2>11. ASSUME NEW u \in setup.delegators, NEW n \in Amounts, UndelegateCoins(u, n)
         PROVE  AllSound' /\ WeiSendersStayFree'
    BY <1>1, <2>11, UndelegateSound, ZenonT(60)
  <2>. QED
    BY <2>1, <2>2, <2>3, <2>4, <2>5, <2>6, <2>7, <2>8, <2>9, <2>10, <2>11, ZenonT(60) DEF BankNext
<1>. QED
  BY <1>0, <1>2, ZenonT(60) DEF VInv

\* For any vesting schedules and any sequence of transfers, fees, delegations,
\* slashes and blocks, an account holds its locked coins, so that
\* SubUnlockedCoins never panics on a negative amount; its delegations are
\* tracked; and what has vested only grows.
THEOREM LockedCoinsAreHeld == BankSpec => []VestingIsSound
<1>1. VInv => VestingIsSound
  <2> SUFFICES ASSUME VInv PROVE VestingIsSound
    BY Zenon
  <2>1. \A u \in Users : /\ accounts[u] \in Accounts
                         /\ Sound(accounts[u], hold[u].coins, staked[u], time)
                         /\ hold[u].coins \in Nat /\ accounts[u].dv \in Nat /\ accounts[u].df \in Nat /\ staked[u] \in Nat
                         /\ time \in Nat /\ LockedCoins(accounts[u], time) \in Nat
    BY VTypes, LockedIsNat, ZenonT(60) DEF Accounts
  <2>2. LockedIsHeld
    BY <2>1, ZenonT(60) DEF LockedIsHeld, Locked, Sound
  <2>3. DelegationsAreTracked
    BY <2>1, ZenonT(60) DEF DelegationsAreTracked, Sound
  <2>4. VestingIsMonotone
    <3>1. MaxTime \in Nat /\ 0..MaxTime \subseteq Nat
      BY ConstantTypes, Zenon
    <3>2. \A u \in Users : accounts[u] \in Accounts /\ Schedule(accounts[u])
      BY <2>1, Zenon DEF Sound
    <3>. QED
      BY <3>1, <3>2, VestedGrows, VestedEnds, ZenonT(60) DEF VestingIsMonotone
  <2>. QED
    BY <2>2, <2>3, <2>4, Zenon DEF VestingIsSound
<1>. QED
  BY <1>1, VestingInit, VestingNext, PTL DEF BankSpec

=============================================================================
