--------------------------- MODULE SlashingProofs ---------------------------
(***************************************************************************)
(* The bookkeeping of x/slashing, for any number of validators, any        *)
(* windows and any thresholds, as long as the window does not grow while a *)
(* ring is about to replace a set bit at its last index: the counter of    *)
(* missed blocks is the number of set bits, the bits are the latest votes, *)
(* and who is slashed deserves it.  And a tombstone is for ever.           *)
(*                                                                         *)
(* The counter alone is not inductive: that a vote changes it as it        *)
(* changes the ring needs the offset and the bits to be inside the ring    *)
(* (TypeOK), and that a ring which has yet to grow is not at its edge      *)
(* (NoEdge).                                                               *)
(***************************************************************************)
EXTENDS Slashing, FiniteSetTheorems, TLAPS

NoEdge == \A v \in Validators : ~AtEdge(v, window)

\* A ring and an info that agree with the window, and with each other.
Shape(r, i) ==
    /\ r \in RingType /\ r.found /\ r.size = window /\ r.missed \subseteq 0..(window - 1)
    /\ i \in InfoType /\ i.offset < window

Counts(r, i) == i.counter = Cardinality(r.missed)

\* A window has at least one index.
LEMMA WindowType == ASSUME window \in Windows PROVE window \in Nat /\ window > 0
BY SlashingAssumption

\* The votes of two blocks are those of the first, at the head, and of the second.
LEMMA FirstTwo ==
    ASSUME NEW S, NEW s \in Seq(S), Len(s) = 2
    PROVE  Head(s) \in S /\ s[2] \in S
<1>1. 1 \in 1..Len(s) /\ 2 \in 1..Len(s)
  OBVIOUS
<1>2. \A i \in 1..Len(s) : s[i] \in S
  OBVIOUS
<1>3. Head(s) = s[1]
  BY <1>1
<1> QED
  BY <1>1, <1>2, <1>3, Zenon

\* A ring has finitely many bits.
LEMMA BitsAreFinite ==
    ASSUME NEW n \in Nat, NEW S, S \subseteq 0..(n - 1)
    PROVE  IsFiniteSet(S)
<1>1. IsFiniteSet(0..(n - 1))
  BY FS_Interval
<1> QED
  BY <1>1, FS_Subset, Zenon

\* The bits of a ring that grows stay inside it.
LEMMA GrownIsInside ==
    ASSUME window \in Nat, NEW r \in RingType, r.size < window,
           r.missed \subseteq 0..(r.size - 1),
           NEW index \in Nat
    PROVE  Grown(r, index) \subseteq 0..(window - 1)
<1>1. r.size \in Nat /\ r.missed \subseteq Nat
  BY DEF RingType
<1> SUFFICES ASSUME NEW t \in Grown(r, index) PROVE t \in 0..(window - 1)
  OBVIOUS
<1>2. PICK j \in r.missed : t = j \/ t = j + (window - r.size)
  BY DEF Grown
<1>3. j \in 0..(r.size - 1)
  OBVIOUS
<1> QED
  BY <1>1, <1>2, <1>3

\* A ring that grows keeps its bits, except for one at its last index that is
\* next to be replaced.
LEMMA GrownKeepsBits ==
    ASSUME window \in Nat, NEW r \in RingType, r.size < window,
           r.missed \subseteq 0..(r.size - 1),
           NEW index \in Nat, index < r.size,
           ~(index + 1 = r.size /\ index \in r.missed)
    PROVE  Cardinality(Grown(r, index)) = Cardinality(r.missed)
<1> DEFINE d == window - r.size
           S == r.missed
           T == Grown(r, index)
           f == [j \in S |-> IF j < index THEN j ELSE j + d]
<1>1. r.size \in Nat /\ d \in Nat /\ d > 0 /\ S \subseteq Nat
  BY DEF RingType
<1>2. T = {j \in S : j < index} \cup {j + d : j \in {l \in S : l >= index}}
  <2>1. CASE index + 1 < r.size
    BY <2>1 DEF Grown
  <2>2. CASE ~(index + 1 < r.size)
    <3>1. index + 1 = r.size
      BY <1>1, <2>2
    <3>2. {l \in S : l >= index} = {}
      <4> SUFFICES ASSUME NEW l \in S, l >= index PROVE FALSE
        OBVIOUS
      <4>1. l \in 0..(r.size - 1)
        OBVIOUS
      <4>2. l = index
        BY <1>1, <3>1, <4>1
      <4> QED
        BY <3>1, <4>2
    <3> QED
      BY <2>2, <3>2 DEF Grown
  <2> QED
    BY <2>1, <2>2
<1>3. f \in [S -> T]
  <2> SUFFICES ASSUME NEW j \in S PROVE (IF j < index THEN j ELSE j + d) \in T
    OBVIOUS
  <2>1. j \in Nat
    BY <1>1
  <2> QED
    BY <1>2, <2>1
<1>4. \A j, l \in S : f[j] = f[l] => j = l
  BY <1>1
<1>5. \A t \in T : \E j \in S : f[j] = t
  <2> SUFFICES ASSUME NEW t \in T PROVE \E j \in S : f[j] = t
    OBVIOUS
  <2>1. CASE t \in {j \in S : j < index}
    BY <2>1
  <2>2. CASE t \in {j + d : j \in {l \in S : l >= index}}
    <3>1. PICK j \in {l \in S : l >= index} : t = j + d
      BY <2>2
    <3>2. ~(j < index)
      BY <1>1, <3>1
    <3> QED
      BY <3>1, <3>2
  <2> QED
    BY <1>2, <2>1, <2>2
<1>6. ExistsBijection(S, T)
  <2> HIDE DEF f, S, T
  <2>1. f \in Bijection(S, T)
    BY <1>3, <1>4, <1>5 DEF Bijection, Injection, Surjection, IsInjective
  <2> QED
    BY <2>1 DEF ExistsBijection
<1>7. IsFiniteSet(S)
  BY <1>1, BitsAreFinite
<1> HIDE DEF S, T
<1>8. Cardinality(T) = Cardinality(S)
  BY <1>6, <1>7, FS_Bijection
<1> QED
  BY <1>8 DEF S, T

-----------------------------------------------------------------------------
(* A vote.                                                                 *)

\* An array of the window's size, with bits inside it, agrees with an offset
\* inside it.
LEMMA ShapeIntro ==
    ASSUME window \in Nat,
           NEW bits, bits \subseteq 0..(window - 1),
           NEW i \in InfoType, i.offset < window
    PROVE  Shape(WithBits(bits), i)
<1>1. bits \subseteq Nat
  OBVIOUS
<1> QED
  BY <1>1 DEF Shape, RingType, WithBits

\* Another counter and offset change nothing else of a signing info.
LEMMA MovedInfo ==
    ASSUME NEW i \in InfoType, NEW c \in Int, NEW n \in Nat
    PROVE  /\ At(i, c, n) \in InfoType
           /\ At(i, c, n).offset = n /\ At(i, c, n).counter = c
           /\ At(i, c, n).tombstoned = i.tombstoned /\ At(i, c, n).found = i.found
BY Zenon DEF InfoType, At

\* The resizing of a ring whose size is not the window.
LEMMA ResizeCases ==
    ASSUME TypeOK, NEW v \in Validators, ring[v].found, ring[v].size # window
    PROVE  \/ /\ ring[v].size < window
              /\ Sized(v) = [ring |-> WithBits(Grown(ring[v], info[v].offset)), info |-> info[v]]
           \/ /\ ring[v].size > window
              /\ Sized(v) = [ring |-> WithBits({}), info |-> At(info[v], 0, 0)]
<1> DEFINE r == ring[v]
           i == info[v]
<1>1. Sized(v) = ResizeMissedBlockArray(r, i)
  BY DEF Sized
<1>2. window \in Nat /\ r.size \in Nat
  BY WindowType DEF TypeOK, RingType
<1> HIDE DEF r, i
<1>3. CASE r.size < window
  <2>1. ResizeMissedBlockArray(r, i) = [ring |-> WithBits(Grown(r, i.offset)), info |-> i]
    BY <1>3 DEF ResizeMissedBlockArray
  <2> QED
    BY <1>1, <1>3, <2>1 DEF r, i
<1>4. CASE r.size > window
  <2>1. ResizeMissedBlockArray(r, i) = [ring |-> WithBits({}), info |-> At(i, 0, 0)]
    BY <1>2, <1>4 DEF ResizeMissedBlockArray
  <2> QED
    BY <1>1, <1>4, <2>1 DEF r, i
<1>5. r.size # window
  BY DEF r
<1> QED
  BY <1>2, <1>3, <1>4, <1>5

\* The ring a vote starts from, resized or not, is inside the window.
LEMMA SizedShape ==
    ASSUME TypeOK, NEW v \in Validators
    PROVE  /\ Shape(Sized(v).ring, Sized(v).info)
           /\ Sized(v).info.tombstoned = info[v].tombstoned
           /\ Sized(v).info.found = info[v].found
<1> DEFINE r == ring[v]
           i == info[v]
<1>1. window \in Nat /\ window > 0
  BY WindowType DEF TypeOK
<1>2. r \in RingType /\ i \in InfoType
  BY DEF TypeOK
<1>3. CASE ~r.found
  <2>1. i.offset = 0
    BY <1>3 DEF TypeOK
  <2>2. Sized(v) = [ring |-> WithBits({}), info |-> i]
    BY <1>3 DEF Sized
  <2>3. Shape(WithBits({}), i)
    BY <1>1, <1>2, <2>1, ShapeIntro
  <2> QED
    BY <2>2, <2>3
<1>4. CASE r.found
  <2>1. /\ r.size \in Nat /\ i.offset \in Nat /\ i.offset < r.size
        /\ r.missed \subseteq 0..(r.size - 1)
    BY <1>2, <1>4, Zenon DEF TypeOK, RingType, InfoType
  <2>2. CASE r.size = window
    <3>1. Sized(v) = [ring |-> r, info |-> i]
      BY <1>4, <2>2 DEF Sized
    <3> QED
      BY <1>2, <1>4, <2>1, <2>2, <3>1 DEF Shape
  <2>3. CASE r.size < window /\ Sized(v) = [ring |-> WithBits(Grown(r, i.offset)), info |-> i]
    <3>1. Grown(r, i.offset) \subseteq 0..(window - 1)
      BY <1>1, <1>2, <2>1, <2>3, GrownIsInside
    <3>2. i.offset < window
      BY <1>1, <2>1, <2>3
    <3>3. Shape(WithBits(Grown(r, i.offset)), i)
      BY <1>1, <1>2, <3>1, <3>2, ShapeIntro
    <3> QED
      BY <2>3, <3>3
  <2>4. CASE Sized(v) = [ring |-> WithBits({}), info |-> At(i, 0, 0)]
    <3>1. /\ At(i, 0, 0) \in InfoType /\ At(i, 0, 0).offset = 0
          /\ At(i, 0, 0).tombstoned = i.tombstoned /\ At(i, 0, 0).found = i.found
      BY <1>2, MovedInfo
    <3>2. Shape(WithBits({}), At(i, 0, 0))
      BY <1>1, <3>1, ShapeIntro
    <3> QED
      BY <2>4, <3>1, <3>2
  <2> QED
    BY <1>4, <2>2, <2>3, <2>4, ResizeCases
<1> QED
  BY <1>3, <1>4

\* It agrees with its counter.
LEMMA SizedCounts ==
    ASSUME TypeOK, CounterIsSum, NoEdge, NEW v \in Validators
    PROVE  Counts(Sized(v).ring, Sized(v).info)
<1> DEFINE r == ring[v]
           i == info[v]
<1>1. window \in Nat /\ window > 0
  BY WindowType DEF TypeOK
<1>2. r \in RingType /\ i \in InfoType /\ i.counter = Cardinality(r.missed)
  BY DEF TypeOK, CounterIsSum
<1>3. Cardinality({}) = 0 /\ WithBits({}).missed = {}
  BY FS_EmptySet DEF WithBits
<1>4. CASE ~r.found
  <2>1. r.missed = {}
    BY <1>4 DEF TypeOK
  <2>2. Sized(v) = [ring |-> WithBits({}), info |-> i]
    BY <1>4 DEF Sized
  <2> QED
    BY <1>2, <1>3, <2>1, <2>2 DEF Counts
<1>5. CASE r.found
  <2>1. /\ r.size \in Nat /\ i.offset \in Nat /\ i.offset < r.size
        /\ r.missed \subseteq 0..(r.size - 1)
    BY <1>2, <1>5, Zenon DEF TypeOK, RingType, InfoType
  <2>2. CASE r.size = window
    <3>1. Sized(v) = [ring |-> r, info |-> i]
      BY <1>5, <2>2 DEF Sized
    <3> QED
      BY <1>2, <3>1 DEF Counts
  <2>3. CASE r.size < window /\ Sized(v) = [ring |-> WithBits(Grown(r, i.offset)), info |-> i]
    <3>1. ~(i.offset + 1 = r.size /\ i.offset \in r.missed)
      BY <1>5, <2>3 DEF NoEdge, AtEdge
    <3>2. Cardinality(Grown(r, i.offset)) = Cardinality(r.missed)
      BY <1>1, <1>2, <2>1, <2>3, <3>1, GrownKeepsBits
    <3>3. WithBits(Grown(r, i.offset)).missed = Grown(r, i.offset)
      BY DEF WithBits
    <3> QED
      BY <1>2, <2>3, <3>2, <3>3 DEF Counts
  <2>4. CASE Sized(v) = [ring |-> WithBits({}), info |-> At(i, 0, 0)]
    <3>1. At(i, 0, 0).counter = 0
      BY <1>2, MovedInfo
    <3> QED
      BY <1>3, <2>4, <3>1 DEF Counts
  <2> QED
    BY <1>5, <2>2, <2>3, <2>4, ResizeCases
<1> QED
  BY <1>4, <1>5

\* What a vote makes of the ring and the info it starts from.
Bits(r, i, missed) == IF missed THEN r.missed \cup {i.offset} ELSE r.missed \ {i.offset}

Sum(r, i, missed) ==
    IF i.offset \notin r.missed /\ missed THEN i.counter + 1
    ELSE IF i.offset \in r.missed /\ ~missed THEN i.counter - 1 ELSE i.counter

\* What HandleValidatorSignatureConcurrent makes of the resized ring.
LEMMA CountedIs ==
    ASSUME NEW v \in Validators, NEW missed \in BOOLEAN
    PROVE  LET r == Sized(v).ring
               i == Sized(v).info
           IN /\ Counted(v, missed).ring = WithBits(Bits(r, i, missed))
              /\ Counted(v, missed).info = At(i, Sum(r, i, missed), (i.offset + 1) % window)
BY DEF Counted, Bits, Sum

\* After a vote ring and signing info agree with the window.
LEMMA CountedShape ==
    ASSUME TypeOK, NEW v \in Validators, NEW missed \in BOOLEAN
    PROVE  /\ Shape(Counted(v, missed).ring, Counted(v, missed).info)
           /\ Counted(v, missed).info.tombstoned = info[v].tombstoned
           /\ Counted(v, missed).info.found = info[v].found
<1> DEFINE r == Sized(v).ring
           i == Sized(v).info
           n == (i.offset + 1) % window
           c == Sum(r, i, missed)
<1>1. window \in Nat /\ window > 0
  BY WindowType DEF TypeOK
<1>2. Shape(r, i) /\ i.tombstoned = info[v].tombstoned /\ i.found = info[v].found
  BY SizedShape
<1>3. /\ Counted(v, missed).ring = WithBits(Bits(r, i, missed))
      /\ Counted(v, missed).info = At(i, c, n)
  BY CountedIs
<1> HIDE DEF r, i
<1>4. i.offset \in Nat /\ i.counter \in Int /\ i.offset < window
  BY <1>2 DEF Shape, InfoType
<1>5. Bits(r, i, missed) \subseteq 0..(window - 1)
  BY <1>1, <1>2, <1>4 DEF Shape, Bits
<1>6. n \in Nat /\ n < window
  BY <1>1, <1>4
<1>7. c \in Int
  BY <1>4 DEF Sum
<1> HIDE DEF n, c
<1>8. /\ At(i, c, n) \in InfoType /\ At(i, c, n).offset = n
      /\ At(i, c, n).tombstoned = i.tombstoned /\ At(i, c, n).found = i.found
  BY <1>2, <1>6, <1>7, MovedInfo DEF Shape
<1>9. Shape(WithBits(Bits(r, i, missed)), At(i, c, n))
  BY <1>1, <1>5, <1>6, <1>8, ShapeIntro
<1> QED
  BY <1>2, <1>3, <1>8, <1>9

\* The vote changes the counter exactly as it changes the number of set bits.
LEMMA CountedCounts ==
    ASSUME TypeOK, CounterIsSum, NoEdge, NEW v \in Validators, NEW missed \in BOOLEAN
    PROVE  Counts(Counted(v, missed).ring, Counted(v, missed).info)
<1> DEFINE r == Sized(v).ring
           i == Sized(v).info
           n == (i.offset + 1) % window
           c == Sum(r, i, missed)
<1>1. window \in Nat /\ window > 0
  BY WindowType DEF TypeOK
<1>2. Shape(r, i) /\ i.counter = Cardinality(r.missed)
  BY SizedShape, SizedCounts DEF Counts
<1>3. /\ Counted(v, missed).ring = WithBits(Bits(r, i, missed))
      /\ Counted(v, missed).info = At(i, c, n)
  BY CountedIs
<1> HIDE DEF r, i
<1>4. IsFiniteSet(r.missed) /\ i \in InfoType /\ i.offset \in Nat /\ i.counter \in Int
  BY <1>1, <1>2, BitsAreFinite DEF Shape, InfoType
<1>5. c = Cardinality(Bits(r, i, missed))
  <2>1. CASE missed
    <3>1. Cardinality(r.missed \cup {i.offset}) =
            IF i.offset \in r.missed THEN Cardinality(r.missed) ELSE Cardinality(r.missed) + 1
      BY <1>4, FS_AddElement, Zenon
    <3> QED
      BY <1>2, <1>4, <2>1, <3>1 DEF Bits, Sum
  <2>2. CASE ~missed
    <3>1. Cardinality(r.missed \ {i.offset}) =
            IF i.offset \in r.missed THEN Cardinality(r.missed) - 1 ELSE Cardinality(r.missed)
      BY <1>4, FS_RemoveElement, Zenon
    <3> QED
      BY <1>2, <1>4, <2>2, <3>1 DEF Bits, Sum
  <2> QED
    BY <2>1, <2>2
<1>6. n \in Nat /\ c \in Int
  BY <1>1, <1>4 DEF Sum
<1>7. WithBits(Bits(r, i, missed)).missed = Bits(r, i, missed)
  BY DEF WithBits
<1> HIDE DEF n, c
<1>8. At(i, c, n).counter = c
  BY <1>4, <1>6, MovedInfo
<1> QED
  BY <1>3, <1>5, <1>7, <1>8 DEF Counts

-----------------------------------------------------------------------------
(* The block.                                                              *)

\* The part of TypeOK about one validator.
Good(r, i) ==
    /\ r \in RingType /\ i \in InfoType
    /\ IF r.found
       THEN r.size \in Windows /\ i.offset < r.size /\ r.missed \subseteq 0..(r.size - 1)
       ELSE r.missed = {} /\ i.offset = 0

\* The info of a validator that is slashed.
Jailing(i, h) == [At(i, 0, 0) EXCEPT !.until = h + JailDuration]

\* A slash clears counter and offset, and leaves the tombstone alone.
LEMMA JailingInfo ==
    ASSUME NEW i \in InfoType, NEW h \in Nat
    PROVE  /\ Jailing(i, h) \in InfoType
           /\ Jailing(i, h).offset = 0 /\ Jailing(i, h).counter = 0
           /\ Jailing(i, h).tombstoned = i.tombstoned /\ Jailing(i, h).found = i.found
<1> DEFINE u == h + JailDuration
           j == At(i, 0, 0)
<1>1. u \in Nat
  BY SlashingAssumption
<1>2. /\ j \in InfoType /\ j.offset = 0 /\ j.counter = 0
      /\ j.tombstoned = i.tombstoned /\ j.found = i.found
  BY MovedInfo
<1> HIDE DEF u, j
<1>3. /\ [j EXCEPT !.until = u] \in InfoType
      /\ [j EXCEPT !.until = u].offset = j.offset /\ [j EXCEPT !.until = u].counter = j.counter
      /\ [j EXCEPT !.until = u].tombstoned = j.tombstoned
      /\ [j EXCEPT !.until = u].found = j.found
  BY <1>1, <1>2 DEF InfoType
<1>4. Jailing(i, h) = [j EXCEPT !.until = u]
  BY DEF Jailing, j, u
<1> QED
  BY <1>2, <1>3, <1>4

\* A block leaves a validator alone, counts its vote, or slashes it.
LEMMA BlockCases ==
    ASSUME TypeOK, NEW absent, BeginBlock(absent), NEW v \in Validators
    PROVE  LET c == Counted(v, v \in absent)
           IN \/ ring'[v] = ring[v] /\ info'[v] = info[v]
              \/ ring'[v] = c.ring /\ info'[v] = c.info
              \/ ring'[v] = NoRing /\ info'[v] = Jailing(c.info, height + 1)
BY DEF BeginBlock, Jailing

\* BeginBlocker leaves each ring and signing info in agreement.
LEMMA BlockKeepsGood ==
    ASSUME TypeOK, NEW absent, BeginBlock(absent), NEW v \in Validators
    PROVE  /\ Good(ring'[v], info'[v])
           /\ info'[v].tombstoned = info[v].tombstoned /\ info'[v].found = info[v].found
<1> DEFINE c == Counted(v, v \in absent)
<1>1. /\ Shape(c.ring, c.info) /\ c.info.tombstoned = info[v].tombstoned
      /\ c.info.found = info[v].found
  <2>1. (v \in absent) \in BOOLEAN
    OBVIOUS
  <2> QED
    BY <2>1, CountedShape, Zenon
<1>2. window \in Windows /\ height + 1 \in Nat
  BY DEF TypeOK
<1> HIDE DEF c
<1>3. CASE ring'[v] = ring[v] /\ info'[v] = info[v]
  BY <1>3 DEF TypeOK, Good
<1>4. CASE ring'[v] = c.ring /\ info'[v] = c.info
  BY <1>1, <1>2, <1>4 DEF Shape, Good
<1>5. CASE ring'[v] = NoRing /\ info'[v] = Jailing(c.info, height + 1)
  <2>1. NoRing \in RingType /\ ~NoRing.found /\ NoRing.missed = {}
    BY DEF NoRing, RingType
  <2>2. /\ Jailing(c.info, height + 1) \in InfoType
        /\ Jailing(c.info, height + 1).offset = 0
        /\ Jailing(c.info, height + 1).tombstoned = c.info.tombstoned
        /\ Jailing(c.info, height + 1).found = c.info.found
    BY <1>1, <1>2, JailingInfo, Zenon DEF Shape
  <2> QED
    BY <1>1, <1>5, <2>1, <2>2 DEF Good
<1> QED
  BY <1>3, <1>4, <1>5, BlockCases DEF c

\* BeginBlocker keeps the state well typed.
LEMMA BlockKeepsType ==
    ASSUME TypeOK, NEW absent, BeginBlock(absent)
    PROVE  TypeOK'
<1>1. \A v \in Validators : Good(ring'[v], info'[v])
  BY BlockKeepsGood
<1>2. /\ DOMAIN ring' = Validators /\ ring' = [v \in Validators |-> ring'[v]]
      /\ DOMAIN info' = Validators /\ info' = [v \in Validators |-> info'[v]]
  BY DEF BeginBlock
<1>3. ring' \in [Validators -> RingType] /\ info' \in [Validators -> InfoType]
  BY <1>1, <1>2 DEF Good
<1>4. height' \in Nat /\ window' \in Windows
  BY DEF TypeOK, BeginBlock
<1>5. jailed' \subseteq Validators /\ bonded' \subseteq Validators
  <2>1. votes \in Seq(SUBSET Validators) /\ Len(votes) = 2
    BY Zenon DEF TypeOK
  <2>2. Head(votes) \in SUBSET Validators
    BY <2>1, FirstTwo, Zenon
  <2> QED
    BY <2>2 DEF TypeOK, BeginBlock
<1>6. votes' \in Seq(SUBSET Validators) /\ Len(votes') = 2
  <2>0. votes \in Seq(SUBSET Validators) /\ Len(votes) = 2 /\ bonded \in SUBSET Validators
    BY Zenon DEF TypeOK
  <2>1. votes[2] \in SUBSET Validators /\ bonded \in SUBSET Validators
    BY <2>0, FirstTwo, Zenon
  <2> QED
    BY <2>1 DEF BeginBlock
<1> QED
  BY <1>1, <1>3, <1>4, <1>5, <1>6 DEF TypeOK, Good

\* BeginBlocker changes each counter as it changes the ring.
LEMMA BlockKeepsCount ==
    ASSUME TypeOK, CounterIsSum, NoEdge, NEW absent, BeginBlock(absent)
    PROVE  CounterIsSum' /\ NoEdge'
<1> SUFFICES ASSUME NEW v \in Validators
             PROVE  Counts(ring'[v], info'[v]) /\ ~AtEdge(v, window)'
  BY Zenon DEF CounterIsSum, NoEdge, Counts, BeginBlock
<1> DEFINE c == Counted(v, v \in absent)
<1>1. Shape(c.ring, c.info) /\ Counts(c.ring, c.info)
  <2>1. (v \in absent) \in BOOLEAN
    OBVIOUS
  <2> QED
    BY <2>1, CountedShape, CountedCounts, Zenon
<1>2. window' = window /\ window \in Nat /\ height + 1 \in Nat
  BY WindowType DEF TypeOK, BeginBlock
<1> HIDE DEF c
<1>3. CASE ring'[v] = ring[v] /\ info'[v] = info[v]
  BY <1>2, <1>3 DEF CounterIsSum, Counts, NoEdge, AtEdge
<1>4. CASE ring'[v] = c.ring /\ info'[v] = c.info
  BY <1>1, <1>2, <1>4 DEF Shape, AtEdge
<1>5. CASE ring'[v] = NoRing /\ info'[v] = Jailing(c.info, height + 1)
  <2>1. Jailing(c.info, height + 1).counter = 0
    BY <1>1, <1>2, JailingInfo, Zenon DEF Shape
  <2>2. Cardinality(NoRing.missed) = 0 /\ ~NoRing.found
    BY FS_EmptySet DEF NoRing
  <2> QED
    BY <1>5, <2>1, <2>2 DEF Counts, AtEdge
<1> QED
  BY <1>3, <1>4, <1>5, BlockCases DEF c

-----------------------------------------------------------------------------
(* The other steps, and the invariants.                                    *)

\* At genesis there is nothing to count.
LEMMA InitHolds == Init => TypeOK /\ CounterIsSum /\ NoEdge
<1> SUFFICES ASSUME Init PROVE TypeOK /\ CounterIsSum /\ NoEdge
  OBVIOUS
<1>1. NoInfo \in InfoType /\ NoInfo.offset = 0 /\ NoInfo.counter = 0
  BY DEF NoInfo, InfoType
<1>2. NoRing \in RingType /\ ~NoRing.found /\ NoRing.missed = {}
  BY DEF NoRing, RingType
<1>3. TypeOK
  <2>1. votes \in Seq(SUBSET Validators) /\ Len(votes) = 2
    BY DEF Init
  <2> QED
    BY <1>1, <1>2, <2>1 DEF Init, TypeOK
<1>4. CounterIsSum
  BY <1>1, <1>2, FS_EmptySet, Zenon DEF Init, CounterIsSum
<1>5. NoEdge
  BY <1>2 DEF Init, NoEdge, AtEdge
<1> QED
  BY <1>3, <1>4, <1>5

\* Evidence changes the jail and the tombstone only.
LEMMA EvidenceKeepsInfo ==
    ASSUME TypeOK, NEW v \in Validators, HandleEquivocation(v), NEW w \in Validators
    PROVE  /\ info' \in [Validators -> InfoType]
           /\ info'[w].offset = info[w].offset /\ info'[w].counter = info[w].counter
           /\ info'[w].found = info[w].found
           /\ info'[w].tombstoned => info[w].tombstoned \/ w = v
<1> DEFINE i == [info[v] EXCEPT !.until = Forever, !.tombstoned = TRUE]
<1>1. info \in [Validators -> InfoType] /\ info[v] \in InfoType
  BY DEF TypeOK
<1>2. Forever \in Nat
  BY SlashingAssumption DEF Forever
<1>3. info' = [info EXCEPT ![v] = i]
  BY Zenon DEF HandleEquivocation
<1>4. /\ i \in InfoType /\ i.offset = info[v].offset /\ i.counter = info[v].counter
      /\ i.found = info[v].found
  BY <1>1, <1>2, Zenon DEF InfoType
<1> HIDE DEF i
<1> QED
  BY <1>1, <1>3, <1>4

\* A validator that is bonded for the first time gets an empty info.
LEMMA BondKeepsInfo ==
    ASSUME TypeOK, NEW v \in Validators, Bond(v), NEW w \in Validators
    PROVE  /\ info' \in [Validators -> InfoType] /\ info'[v].found
           /\ \/ info'[w] = info[w]
              \/ /\ w = v /\ ~info[v].found
                 /\ info'[w].offset = 0 /\ info'[w].counter = 0
                 /\ info'[w].found /\ ~info'[w].tombstoned
<1>1. info \in [Validators -> InfoType] /\ height \in Nat
  BY DEF TypeOK
<1>2. NewInfo \in InfoType
  BY <1>1 DEF NewInfo, InfoType
<1>3. NewInfo.offset = 0 /\ NewInfo.counter = 0 /\ NewInfo.found /\ ~NewInfo.tombstoned
  BY DEF NewInfo
<1>4. info' = IF info[v].found THEN info ELSE [info EXCEPT ![v] = NewInfo]
  BY DEF Bond
<1> QED
  BY <1>1, <1>2, <1>3, <1>4

-----------------------------------------------------------------------------
(* The invariants.                                                         *)

\* Whoever is or was in the set has an info; without an info there is no ring.
Known ==
    /\ \A v \in bonded \cup votes[1] \cup votes[2] : info[v].found
    /\ \A v \in Validators : ring[v].found => info[v].found

TypeInv == TypeOK /\ Known

CountInv == CounterIsSum /\ NoEdge

\* The sets that vote in the next two blocks.
LEMMA VotesType ==
    ASSUME TypeOK
    PROVE  votes[1] \subseteq Validators /\ votes[2] \subseteq Validators /\ Head(votes) = votes[1]
<1>1. votes \in Seq(SUBSET Validators) /\ Len(votes) = 2
  BY DEF TypeOK
<1>2. 1 \in 1..Len(votes) /\ 2 \in 1..Len(votes)
  BY <1>1
<1>3. votes[1] \in SUBSET Validators /\ votes[2] \in SUBSET Validators
  BY <1>1, <1>2
<1>4. Head(votes) = votes[1]
  BY <1>1
<1> QED
  BY <1>3, <1>4

\* BeginBlocker asks only validators with a signing info.
LEMMA BlockKeepsKnown ==
    ASSUME TypeInv, NEW absent, BeginBlock(absent)
    PROVE  Known'
<1>1. \A v \in Validators : info'[v].found = info[v].found
  BY BlockKeepsGood DEF TypeInv
<1>2. bonded \subseteq Validators /\ votes[1] \subseteq Validators /\ votes[2] \subseteq Validators
  BY VotesType DEF TypeInv, TypeOK
<1>3. Head(votes) = votes[1]
  BY VotesType DEF TypeInv
<1>4. votes'[1] = votes[2] /\ votes'[2] = bonded /\ bonded' \subseteq bonded
  BY DEF BeginBlock
<1>5. ASSUME NEW v \in Validators, ring'[v].found PROVE info[v].found
  <2>1. CASE v \in Head(votes)
    BY <1>3, <2>1 DEF TypeInv, Known
  <2>2. CASE v \notin Head(votes)
    <3>1. ring'[v] = ring[v]
      BY <2>2 DEF BeginBlock
    <3> QED
      BY <1>5, <3>1 DEF TypeInv, Known
  <2> QED
    BY <2>1, <2>2
<1> QED
  BY <1>1, <1>2, <1>4, <1>5 DEF TypeInv, Known

\* Every step keeps the state well typed, and gives a validator that enters the
\* set its signing info.
LEMMA TypeInvStep == TypeInv /\ [Next]_vars => TypeInv'
<1> SUFFICES ASSUME TypeInv, [Next]_vars PROVE TypeInv'
  OBVIOUS
<1> USE DEF TypeInv
<1>1. ASSUME NEW absent, BeginBlock(absent) PROVE TypeInv'
  BY <1>1, BlockKeepsType, BlockKeepsKnown
<1>2. ASSUME NEW v \in Validators, HandleEquivocation(v) PROVE TypeInv'
  <2>1. /\ info' \in [Validators -> InfoType]
        /\ \A w \in Validators : info'[w].offset = info[w].offset /\ info'[w].found = info[w].found
    BY <1>2, EvidenceKeepsInfo
  <2>2. TypeOK'
    BY <1>2, <2>1 DEF HandleEquivocation, TypeOK, chain
  <2>3. Known'
    <3>1. votes[1] \subseteq Validators /\ votes[2] \subseteq Validators
      BY VotesType
    <3> QED
      BY <1>2, <2>1, <3>1 DEF HandleEquivocation, TypeOK, Known
  <2> QED
    BY <2>2, <2>3
<1>3. ASSUME NEW v \in Validators, Unjail(v) PROVE TypeInv'
  BY <1>3 DEF Unjail, TypeOK, Known, chain
<1>4. ASSUME NEW v \in Validators, Bond(v) PROVE TypeInv'
  <2>1. /\ info' \in [Validators -> InfoType]
        /\ \A w \in Validators :
              \/ info'[w] = info[w]
              \/ w = v /\ ~info[v].found /\ info'[w].offset = 0 /\ info'[w].found
    BY <1>4, BondKeepsInfo
  <2>2. TypeOK'
    <3>1. ASSUME NEW w \in Validators, ~info[w].found PROVE ~ring[w].found
      BY <3>1 DEF Known
    <3> QED
      BY <1>4, <2>1, <3>1 DEF Bond, TypeOK, chain
  <2>3. Known'
    <3>1. votes[1] \subseteq Validators /\ votes[2] \subseteq Validators
      BY VotesType
    <3>2. info'[v].found
      BY <1>4, BondKeepsInfo
    <3> QED
      BY <1>4, <2>1, <3>1, <3>2 DEF Bond, TypeOK, Known
  <2> QED
    BY <2>2, <2>3
<1>5. ASSUME NEW v \in Validators, Unbond(v) PROVE TypeInv'
  BY <1>5 DEF Unbond, TypeOK, Known, chain
<1>6. ASSUME NEW v \in Validators, JailForSelfBond(v) PROVE TypeInv'
  BY <1>6 DEF JailForSelfBond, TypeOK, Known, chain
<1>7. ASSUME NEW w \in Windows, ChangeWindow(w) PROVE TypeInv'
  BY <1>7, Zenon DEF ChangeWindow, TypeOK, Known
<1>8. CASE UNCHANGED vars
  BY <1>8 DEF vars, chain, TypeOK, Known
<1> QED
  BY <1>1, <1>2, <1>3, <1>4, <1>5, <1>6, <1>7, <1>8 DEF Next

\* Every step keeps counters and rings together.
LEMMA CountInvStep ==
    ASSUME ~GrowAnywhere
    PROVE  TypeInv /\ CountInv /\ [Next]_vars => CountInv'
<1> SUFFICES ASSUME TypeInv, CountInv, [Next]_vars PROVE CountInv'
  OBVIOUS
<1> USE DEF TypeInv, CountInv
<1>1. ASSUME NEW absent, BeginBlock(absent) PROVE CountInv'
  BY <1>1, BlockKeepsCount
<1>2. ASSUME NEW v \in Validators, HandleEquivocation(v) PROVE CountInv'
  <2>1. \A w \in Validators :
            info'[w].offset = info[w].offset /\ info'[w].counter = info[w].counter
    BY <1>2, EvidenceKeepsInfo
  <2>2. ring' = ring /\ window' = window
    BY <1>2 DEF HandleEquivocation, chain
  <2> QED
    BY <2>1, <2>2 DEF CounterIsSum, NoEdge, AtEdge
<1>3. ASSUME NEW v \in Validators, Unjail(v) PROVE CountInv'
  BY <1>3 DEF Unjail, CounterIsSum, NoEdge, AtEdge, chain
<1>4. ASSUME NEW v \in Validators, Bond(v) PROVE CountInv'
  <2> SUFFICES ASSUME NEW w \in Validators
               PROVE  info'[w].counter = Cardinality(ring'[w].missed) /\ ~AtEdge(w, window)'
    BY DEF CounterIsSum, NoEdge
  <2>1. ring' = ring /\ window' = window
    BY <1>4 DEF Bond, chain
  <2>2. CASE info'[w] = info[w]
    BY <2>1, <2>2 DEF CounterIsSum, NoEdge, AtEdge
  <2>3. CASE w = v /\ ~info[v].found /\ info'[w].counter = 0
    <3>1. ~ring[w].found
      BY <2>3 DEF Known
    <3>2. ring[w].missed = {}
      BY <3>1 DEF TypeOK
    <3> QED
      BY <2>1, <2>3, <3>1, <3>2, FS_EmptySet DEF AtEdge
  <2> QED
    BY <1>4, <2>2, <2>3, BondKeepsInfo
<1>5. ASSUME NEW v \in Validators, Unbond(v) PROVE CountInv'
  BY <1>5 DEF Unbond, CounterIsSum, NoEdge, AtEdge, chain
<1>6. ASSUME NEW v \in Validators, JailForSelfBond(v) PROVE CountInv'
  BY <1>6 DEF JailForSelfBond, CounterIsSum, NoEdge, AtEdge, chain
<1>7. ASSUME NEW w \in Windows, ChangeWindow(w) PROVE CountInv'
  BY <1>7 DEF ChangeWindow, CounterIsSum, NoEdge, AtEdge
<1>8. CASE UNCHANGED vars
  BY <1>8 DEF vars, chain, CounterIsSum, NoEdge, AtEdge
<1> QED
  BY <1>1, <1>2, <1>3, <1>4, <1>5, <1>6, <1>7, <1>8 DEF Next

\* Only a validator with an info is tombstoned.
TombInv == TombstonedStaysJailed /\ \A v \in Validators : info[v].tombstoned => info[v].found

\* Every step leaves tombstoned validators jailed and out of the set.
LEMMA TombInvStep == TypeInv /\ TombInv /\ [Next]_vars => TombInv'
<1> SUFFICES ASSUME TypeInv, TombInv, [Next]_vars,
                    NEW w \in Validators, info'[w].tombstoned
             PROVE  info'[w].found /\ w \in jailed' /\ w \notin bonded'
  BY DEF TombInv, TombstonedStaysJailed
<1> USE DEF TypeInv, TombInv, TombstonedStaysJailed
<1>1. ASSUME NEW absent, BeginBlock(absent) PROVE info'[w].found /\ w \in jailed' /\ w \notin bonded'
  <2>1. info[w].tombstoned /\ info'[w].found = info[w].found
    BY <1>1, BlockKeepsGood
  <2> QED
    BY <1>1, <2>1 DEF BeginBlock
<1>2. ASSUME NEW v \in Validators, HandleEquivocation(v)
      PROVE  info'[w].found /\ w \in jailed' /\ w \notin bonded'
  <2>1. info'[w].found = info[w].found /\ (info[w].tombstoned \/ w = v)
    BY <1>2, EvidenceKeepsInfo
  <2> QED
    BY <1>2, <2>1 DEF HandleEquivocation
<1>3. ASSUME NEW v \in Validators, Unjail(v) PROVE info'[w].found /\ w \in jailed' /\ w \notin bonded'
  BY <1>3 DEF Unjail
<1>4. ASSUME NEW v \in Validators, Bond(v) PROVE info'[w].found /\ w \in jailed' /\ w \notin bonded'
  <2>1. info'[w] = info[w]
    BY <1>4, BondKeepsInfo
  <2> QED
    BY <1>4, <2>1 DEF Bond
<1>5. ASSUME NEW v \in Validators, Unbond(v) PROVE info'[w].found /\ w \in jailed' /\ w \notin bonded'
  BY <1>5 DEF Unbond
<1>6. ASSUME NEW v \in Validators, JailForSelfBond(v)
      PROVE  info'[w].found /\ w \in jailed' /\ w \notin bonded'
  BY <1>6 DEF JailForSelfBond
<1>7. ASSUME NEW n \in Windows, ChangeWindow(n) PROVE info'[w].found /\ w \in jailed' /\ w \notin bonded'
  BY <1>7 DEF ChangeWindow
<1>8. CASE UNCHANGED vars
  BY <1>8 DEF vars, chain
<1> QED
  BY <1>1, <1>2, <1>3, <1>4, <1>5, <1>6, <1>7, <1>8, Zenon DEF Next

\* At genesis nobody is tombstoned.
LEMMA InitTypeInv == Init => TypeInv /\ TombInv
<1> SUFFICES ASSUME Init PROVE TypeInv /\ TombInv
  OBVIOUS
<1>1. ~NoRing.found /\ ~NoInfo.tombstoned
  BY DEF NoRing, NoInfo
<1>2. votes[1] = {} /\ votes[2] = {} /\ bonded = {}
  BY DEF Init
<1>3. \A v \in Validators : ring[v] = NoRing /\ info[v] = NoInfo
  BY DEF Init
<1> QED
  BY <1>1, <1>2, <1>3, InitHolds DEF TypeInv, Known, TombInv, TombstonedStaysJailed

\* The state stays well typed, and whoever votes has a signing info and a ring
\* that its offset is inside of.
THEOREM SlashingTypes == Spec => []TypeInv
<1> QED
  BY InitTypeInv, TypeInvStep, PTL DEF Spec

\* A tombstoned validator never leaves jail and is never in the set again.
THEOREM TombstonedForever == Spec => []TombstonedStaysJailed
<1>1. TypeInv /\ TombInv => TombstonedStaysJailed
  BY DEF TombInv
<1> QED
  BY <1>1, InitTypeInv, TypeInvStep, TombInvStep, PTL DEF Spec

\* If the window never grows while a ring is about to replace a set bit at its
\* last index, the counter of missed blocks is the number of set bits.
THEOREM MissedBlocksAreCounted ==
    ASSUME ~GrowAnywhere
    PROVE  Spec => []CounterIsSum
<1>1. Init => CountInv
  BY InitHolds DEF CountInv
<1>2. CountInv => CounterIsSum
  BY DEF CountInv
<1> QED
  BY <1>1, <1>2, InitTypeInv, TypeInvStep, CountInvStep, PTL DEF Spec

-----------------------------------------------------------------------------
(* The ring and the latest votes.  RingIsHistory says where the bit of each *)
(* vote is; turned round, it says how old the vote of each bit is.          *)

\* In a ring of size n whose next index is o, the vote that the bit at p is of,
\* the latest being 1, and the place of the j-th latest vote.
Age(o, p, n) == IF p < o THEN o - p ELSE o - p + n
Place(o, j, n) == IF j <= o THEN o - j ELSE o - j + n

Matches(r, o, h) ==
    /\ h \in Seq(BOOLEAN) /\ Len(h) <= r.size
    /\ r.missed = {p \in 0..(r.size - 1) : Age(o, p, r.size) <= Len(h) /\ h[Age(o, p, r.size)]}

\* The place is what RingIsHistory computes with a remainder.
LEMMA PlaceIsRemainder ==
    ASSUME NEW n \in Nat, NEW o \in 0..(n - 1), NEW j \in 1..n
    PROVE  (o - j) % n = Place(o, j, n)
<1>1. CASE j <= o
  <2>1. o - j \in 0..(n - 1)
    BY <1>1
  <2> QED
    BY <1>1, <2>1 DEF Place
<1>2. CASE ~(j <= o)
  <2>1. o - j + n \in 0..(n - 1) /\ (o - j + n) + (-1) * n = o - j
    BY <1>2
  <2>2. ASSUME NEW x \in 0..(n - 1) PROVE (x - n) % n = x
    BY <2>2
  <2> QED
    BY <1>2, <2>1, <2>2 DEF Place
<1> QED
  BY <1>1, <1>2

\* Places and ages are inverse to each other.
LEMMA PlaceAge ==
    ASSUME NEW n \in Nat, NEW o \in 0..(n - 1)
    PROVE  /\ \A j \in 1..n : Place(o, j, n) \in 0..(n - 1) /\ Age(o, Place(o, j, n), n) = j
           /\ \A p \in 0..(n - 1) : Age(o, p, n) \in 1..n /\ Place(o, Age(o, p, n), n) = p
BY DEF Place, Age

\* The next index after a vote.
LEMMA NextIndex ==
    ASSUME NEW n \in Nat, NEW o \in 0..(n - 1)
    PROVE  (o + 1) % n = IF o + 1 = n THEN 0 ELSE o + 1
<1>1. CASE o + 1 = n
  BY <1>1
<1>2. CASE o + 1 # n
  <2>1. o + 1 \in 0..(n - 1)
    BY <1>2
  <2> QED
    BY <1>2, <2>1
<1> QED
  BY <1>1, <1>2

\* A vote moves the index on: its own bit is the latest, the others age by one.
LEMMA AgeAfterVote ==
    ASSUME NEW n \in Nat, NEW o \in 0..(n - 1), NEW p \in 0..(n - 1)
    PROVE  /\ Age((o + 1) % n, o, n) = 1
           /\ p # o => Age((o + 1) % n, p, n) = Age(o, p, n) + 1 /\ Age(o, p, n) \in 1..(n - 1)
<1> DEFINE q == (o + 1) % n
<1>1. q = IF o + 1 = n THEN 0 ELSE o + 1
  BY NextIndex
<1> HIDE DEF q
<1>2. Age(q, o, n) = 1 /\ (p # o => Age(q, p, n) = Age(o, p, n) + 1 /\ Age(o, p, n) \in 1..(n - 1))
  BY <1>1 DEF Age
<1> QED
  BY <1>2 DEF q

\* The form in which the property states it.
LEMMA MatchesIsPlaces ==
    ASSUME NEW r \in RingType, NEW o \in 0..(r.size - 1), NEW h, Matches(r, o, h)
    PROVE  r.missed = {(o - j) % r.size : j \in Misses(h)}
<1>0. r.size \in Nat /\ h \in Seq(BOOLEAN) /\ Len(h) \in Nat /\ Len(h) <= r.size
  BY DEF RingType, Matches
<1> DEFINE n == r.size
<1>1. \A j \in 1..n : (o - j) % n = Place(o, j, n)
  BY <1>0, PlaceIsRemainder
<1>2. /\ \A j \in 1..n : Place(o, j, n) \in 0..(n - 1) /\ Age(o, Place(o, j, n), n) = j
      /\ \A p \in 0..(n - 1) : Age(o, p, n) \in 1..n /\ Place(o, Age(o, p, n), n) = p
  BY <1>0, PlaceAge, Zenon
<1>3. ASSUME NEW p \in r.missed PROVE \E j \in Misses(h) : p = (o - j) % n
  <2>1. p \in 0..(n - 1) /\ Age(o, p, n) <= Len(h) /\ h[Age(o, p, n)]
    BY <1>3, Zenon DEF Matches
  <2>2. Age(o, p, n) \in 1..n /\ Place(o, Age(o, p, n), n) = p
    BY <1>2, <2>1
  <2>3. Age(o, p, n) \in Misses(h)
    BY <1>0, <2>1, <2>2 DEF Misses
  <2> QED
    BY <1>1, <2>2, <2>3, Zenon
<1>4. ASSUME NEW j \in Misses(h) PROVE (o - j) % n \in r.missed
  <2>1. j \in 1..n /\ j <= Len(h) /\ h[j]
    BY <1>0 DEF Misses
  <2>2. (o - j) % n = Place(o, j, n) /\ Place(o, j, n) \in 0..(n - 1) /\ Age(o, Place(o, j, n), n) = j
    BY <1>1, <1>2, <2>1
  <2> QED
    BY <2>1, <2>2, Zenon DEF Matches
<1> QED
  BY <1>3, <1>4, Zenon

\* As many bits are set as votes were missed.
LEMMA MatchesCounts ==
    ASSUME NEW r \in RingType, NEW o \in 0..(r.size - 1), NEW h, Matches(r, o, h)
    PROVE  Cardinality(r.missed) = Cardinality(Misses(h))
<1>0. r.size \in Nat /\ h \in Seq(BOOLEAN) /\ Len(h) \in Nat /\ Len(h) <= r.size
  BY DEF RingType, Matches
<1> DEFINE n == r.size
           M == Misses(h)
           f == [j \in M |-> (o - j) % n]
<1>1. r.missed = {(o - j) % n : j \in M}
  BY MatchesIsPlaces
<1>2. M \subseteq 1..n /\ IsFiniteSet(M)
  <2>1. M \subseteq 1..Len(h) /\ M \subseteq 1..n
    BY <1>0 DEF Misses
  <2>2. IsFiniteSet(1..Len(h))
    BY <1>0, FS_Interval
  <2> QED
    BY <1>0, <2>1, <2>2, FS_Subset, Zenon
<1>3. ASSUME NEW i \in M, NEW j \in M, (o - i) % n = (o - j) % n PROVE i = j
  <2>1. i \in 1..n /\ j \in 1..n
    BY <1>2
  <2>2. Place(o, i, n) = Place(o, j, n)
    BY <1>0, <1>3, <2>1, PlaceIsRemainder, Zenon
  <2> QED
    BY <1>0, <2>1, <2>2, PlaceAge, Zenon
<1>4. /\ f \in [M -> r.missed]
      /\ \A i, j \in M : f[i] = f[j] => i = j
      /\ \A p \in r.missed : \E j \in M : f[j] = p
  BY <1>1, <1>3, Zenon
<1> HIDE DEF M, f
<1>5. ExistsBijection(M, r.missed)
  <2>1. f \in Bijection(M, r.missed)
    BY <1>4 DEF Bijection, Injection, Surjection, IsInjective
  <2> QED
    BY <2>1 DEF ExistsBijection
<1>6. Cardinality(r.missed) = Cardinality(M)
  BY <1>2, <1>5, FS_Bijection
<1> QED
  BY <1>6 DEF M

-----------------------------------------------------------------------------
(* A vote.                                                                 *)

\* The votes that count when v votes next.
Kept(v) ==
    IF hist[v].spent \/ (ring[v].found /\ ring[v].size > window) THEN <<>> ELSE hist[v].votes

\* A ring is the history of its validator; one that was removed belongs to a
\* validator that has been slashed for its votes, or has none.
Recorded(r, i, h) ==
    /\ h.votes \in Seq(BOOLEAN) /\ h.spent \in BOOLEAN
    /\ r.found => ~h.spent /\ Matches(r, i.offset, h.votes)
    /\ ~r.found => h.spent \/ h.votes = <<>>

\* No bit is set and no vote is remembered.
LEMMA EmptyMatches ==
    ASSUME window \in Nat
    PROVE  Matches(WithBits({}), 0, <<>>)
<1>1. WithBits({}).size = window /\ WithBits({}).missed = {}
  BY DEF WithBits
<1>2. ASSUME NEW p \in 0..(window - 1) PROVE ~(Age(0, p, window) <= Len(<<>>))
  BY DEF Age
<1>3. << >> \in Seq(BOOLEAN) /\ Len(<<>>) <= window
  OBVIOUS
<1> QED
  BY <1>1, <1>2, <1>3, Zenon DEF Matches

\* A ring that grows still has the latest votes: its new bits are older than any.
LEMMA GrownMatches ==
    ASSUME window \in Nat, NEW r \in RingType, r.size < window,
           NEW o \in 0..(r.size - 1), ~(o + 1 = r.size /\ o \in r.missed),
           NEW h, Matches(r, o, h)
    PROVE  Matches(WithBits(Grown(r, o)), o, h)
<1> DEFINE n == r.size
           d == window - n
           g == WithBits(Grown(r, o))
           Old(p) == Age(o, p, n) <= Len(h) /\ h[Age(o, p, n)]
           New(p) == Age(o, p, window) <= Len(h) /\ h[Age(o, p, window)]
<1>0. n \in Nat /\ h \in Seq(BOOLEAN) /\ Len(h) \in Nat /\ Len(h) <= n /\ d \in Nat /\ n + d = window
  BY DEF RingType, Matches
<1>1. g.size = window /\ g.missed = Grown(r, o)
  BY DEF WithBits
<1>2. \A p : p \in r.missed <=> p \in 0..(n - 1) /\ Old(p)
  BY Zenon DEF Matches
<1>3. \A p : p \in Grown(r, o) <=> \/ p \in r.missed /\ p < o
                                   \/ \E l \in r.missed : l >= o /\ p = l + d
  <2>1. CASE o + 1 < n
    BY <2>1 DEF Grown
  <2>2. CASE ~(o + 1 < n)
    <3>1. ASSUME NEW l \in r.missed, l >= o PROVE FALSE
      BY <1>0, <1>2, <2>2, <3>1
    <3>2. Grown(r, o) = {j \in r.missed : j < o}
      BY <2>2 DEF Grown
    <3> QED
      BY <3>1, <3>2, Zenon
  <2> QED
    BY <2>1, <2>2
<1>4. ASSUME NEW p \in 0..(window - 1), p < o
      PROVE  p \in 0..(n - 1) /\ Age(o, p, window) = Age(o, p, n)
  BY <1>0, <1>4 DEF Age
<1>5. ASSUME NEW l \in 0..(n - 1), l >= o
      PROVE  l + d \in 0..(window - 1) /\ ~(l + d < o) /\ Age(o, l + d, window) = Age(o, l, n)
  <2> HIDE DEF d, n
  <2>1. l + d \in 0..(window - 1) /\ ~(l + d < o) /\ ~(l < o) /\ o - (l + d) + window = o - l + n
    BY <1>0, <1>5
  <2> QED
    BY <2>1, Zenon DEF Age
<1>6. ASSUME NEW p \in 0..(window - 1), ~(p < o), Age(o, p, window) <= Len(h)
      PROVE  p - d \in 0..(n - 1) /\ p - d >= o /\ p = (p - d) + d
  <2>1. Age(o, p, window) = o - p + window
    BY <1>6, Zenon DEF Age
  <2> HIDE DEF d, n
  <2> QED
    BY <1>0, <1>6, <2>1
<1> HIDE DEF d, n
<1>7. ASSUME NEW p \in Grown(r, o) PROVE p \in 0..(window - 1) /\ New(p)
  <2>1. CASE p \in r.missed /\ p < o
    <3>1. p \in 0..(window - 1)
      BY <1>0, <1>2, <2>1
    <3> QED
      BY <1>2, <1>4, <2>1, <3>1, Zenon
  <2>2. CASE \E l \in r.missed : l >= o /\ p = l + d
    BY <1>2, <1>5, <2>2, Zenon
  <2> QED
    BY <1>3, <1>7, <2>1, <2>2, Zenon
<1>8. ASSUME NEW p \in 0..(window - 1), New(p) PROVE p \in Grown(r, o)
  <2>1. CASE p < o
    BY <1>2, <1>3, <1>4, <1>8, <2>1, Zenon
  <2>2. CASE ~(p < o)
    <3>1. p - d \in 0..(n - 1) /\ p - d >= o /\ p = (p - d) + d
      BY <1>6, <1>8, <2>2, Zenon
    <3>2. Age(o, p, window) = Age(o, p - d, n)
      BY <1>5, <3>1, Zenon
    <3>3. p - d \in r.missed
      BY <1>2, <1>8, <3>1, <3>2, Zenon
    <3> QED
      BY <1>3, <3>1, <3>3, Zenon
  <2> QED
    BY <2>1, <2>2, Zenon
<1>9. Grown(r, o) = {p \in 0..(window - 1) : New(p)}
  BY <1>7, <1>8, Zenon
<1>10. Len(h) <= window
  BY <1>0
<1> QED
  BY <1>0, <1>1, <1>9, <1>10, Zenon DEF Matches

\* The ring that a vote starts from has the votes that still count.
LEMMA SizedMatches ==
    ASSUME TypeOK, NoEdge, NEW v \in Validators, Recorded(ring[v], info[v], hist[v])
    PROVE  Matches(Sized(v).ring, Sized(v).info.offset, Kept(v))
<1> DEFINE r == ring[v]
           i == info[v]
<1>1. window \in Nat /\ r \in RingType /\ i \in InfoType /\ r.size \in Nat /\ i.offset \in Nat
  BY WindowType DEF TypeOK, RingType, InfoType
<1>2. CASE ~r.found
  <2>1. i.offset = 0 /\ Kept(v) = <<>>
    BY <1>2, Zenon DEF TypeOK, Recorded, Kept
  <2>2. Sized(v).ring = WithBits({}) /\ Sized(v).info = i
    BY <1>2 DEF Sized
  <2> QED
    BY <1>1, <2>1, <2>2, EmptyMatches, Zenon
<1>3. CASE r.found /\ r.size = window
  <2>1. Sized(v).ring = r /\ Sized(v).info = i
    BY <1>3 DEF Sized
  <2>2. ~(r.size > window)
    BY <1>1, <1>3
  <2>3. Kept(v) = hist[v].votes
    BY <1>3, <2>2, Zenon DEF Recorded, Kept
  <2> QED
    BY <1>3, <2>1, <2>3, Zenon DEF Recorded
<1>4. CASE r.found /\ r.size > window
  <2>1. Kept(v) = <<>>
    BY <1>4, Zenon DEF Kept
  <2>2. Sized(v).ring = WithBits({}) /\ Sized(v).info = At(i, 0, 0)
    BY <1>1, <1>4, ResizeCases
  <2>3. At(i, 0, 0).offset = 0
    BY <1>1, Zenon DEF At, InfoType
  <2> QED
    BY <1>1, <2>1, <2>2, <2>3, EmptyMatches, Zenon
<1>5. CASE r.found /\ r.size < window
  <2>1. Sized(v).ring = WithBits(Grown(r, i.offset)) /\ Sized(v).info = i
    BY <1>1, <1>5, ResizeCases
  <2>2. ~(r.size > window)
    BY <1>1, <1>5
  <2>3. Kept(v) = hist[v].votes
    BY <1>5, <2>2, Zenon DEF Recorded, Kept
  <2>4. Matches(r, i.offset, hist[v].votes)
    BY <1>5, Zenon DEF Recorded
  <2>5. i.offset < r.size /\ ~(i.offset + 1 = r.size /\ i.offset \in r.missed)
    BY <1>5, Zenon DEF TypeOK, NoEdge, AtEdge
  <2>6. i.offset \in 0..(r.size - 1)
    BY <1>1, <2>5
  <2>7. Matches(WithBits(Grown(r, i.offset)), i.offset, hist[v].votes)
    BY <1>1, <1>5, <2>4, <2>5, <2>6, GrownMatches, Zenon
  <2> QED
    BY <2>1, <2>3, <2>7, Zenon
<1> QED
  BY <1>1, <1>2, <1>3, <1>4, <1>5

\* A vote keeps the ring and the history in step: it replaces the oldest bit.
LEMMA VoteMatches ==
    ASSUME TypeOK, NoEdge, NEW v \in Validators, NEW missed \in BOOLEAN,
           Recorded(ring[v], info[v], hist[v])
    PROVE  Matches(Counted(v, missed).ring, Counted(v, missed).info.offset, Latest(v, missed))
<1> DEFINE r == Sized(v).ring
           i == Sized(v).info
           o == i.offset
           k == Kept(v)
           w == window
           q == (o + 1) % w
           h == Latest(v, missed)
           bits == Bits(r, i, missed)
<1>1. w \in Nat /\ w > 0
  BY WindowType DEF TypeOK
<1>2. Shape(r, i) /\ Matches(r, o, k)
  BY SizedShape, SizedMatches, Zenon
<1>3. /\ r.size = w /\ o \in 0..(w - 1) /\ k \in Seq(BOOLEAN) /\ Len(k) \in Nat /\ Len(k) <= w
      /\ i \in InfoType
  BY <1>1, <1>2 DEF Shape, Matches, InfoType
<1>4. r.missed = {p \in 0..(w - 1) : Age(o, p, w) <= Len(k) /\ k[Age(o, p, w)]}
  BY <1>2, <1>3, Zenon DEF Matches
<1>5. /\ Counted(v, missed).ring.missed = bits /\ Counted(v, missed).ring.size = w
      /\ Counted(v, missed).info.offset = q
  <2>1. /\ Counted(v, missed).ring = WithBits(bits)
        /\ Counted(v, missed).info = At(i, Sum(r, i, missed), q)
    BY CountedIs
  <2>2. At(i, Sum(r, i, missed), q).offset = q
    BY <1>3, Zenon DEF At, InfoType
  <2>3. WithBits(bits).missed = bits /\ WithBits(bits).size = w
    BY Zenon DEF WithBits
  <2> QED
    BY <2>1, <2>2, <2>3, ZenonT(60)
<1>6. /\ h \in Seq(BOOLEAN) /\ Len(h) \in Nat /\ Len(h) <= w /\ Len(h) >= 1 /\ h[1] = missed
      /\ Len(h) = w \/ Len(h) = Len(k) + 1
      /\ \A j \in 1..(w - 1) : j <= Len(k) => j + 1 <= Len(h) /\ h[j + 1] = k[j]
      /\ \A j \in 1..(w - 1) : j + 1 <= Len(h) => j <= Len(k)
  <2> DEFINE now == <<missed>> \o k
  <2>1. h = IF Len(now) > w THEN SubSeq(now, 1, w) ELSE now
    BY Zenon DEF Latest, Kept
  <2>2. /\ now \in Seq(BOOLEAN) /\ Len(now) = Len(k) + 1 /\ now[1] = missed
        /\ \A j \in 1..Len(k) : now[j + 1] = k[j]
    BY <1>3
  <2> HIDE DEF h, now, k, w
  <2>3. CASE Len(now) > w
    <3>1. /\ h \in Seq(BOOLEAN) /\ Len(h) = w
          /\ \A j \in 1..w : h[j] = now[j]
      BY <1>1, <2>1, <2>2, <2>3
    <3> QED
      BY <1>1, <1>3, <2>2, <2>3, <3>1
  <2>4. CASE ~(Len(now) > w)
    <3>1. h = now
      BY <2>1, <2>4
    <3> QED
      BY <1>1, <1>3, <2>2, <2>4, <3>1
  <2> QED
    BY <2>3, <2>4
<1>7. \A p \in 0..(w - 1) :
         /\ Age(q, o, w) = 1
         /\ p # o => Age(q, p, w) = Age(o, p, w) + 1 /\ Age(o, p, w) \in 1..(w - 1)
  BY <1>1, <1>3, AgeAfterVote, Zenon
<1> HIDE DEF w, h, k
<1>8. ASSUME NEW p \in 0..(w - 1)
      PROVE  p \in bits <=> Age(q, p, w) <= Len(h) /\ h[Age(q, p, w)]
  <2>1. CASE p = o
    <3>1. p \in bits <=> missed
      BY <2>1, Zenon DEF Bits
    <3>2. Age(q, p, w) = 1
      BY <1>7, <2>1, Zenon
    <3> QED
      BY <1>6, <3>1, <3>2
  <2>2. CASE p # o
    <3>1. p \in bits <=> p \in r.missed
      BY <2>2, Zenon DEF Bits
    <3>2. p \in r.missed <=> Age(o, p, w) <= Len(k) /\ k[Age(o, p, w)]
      BY <1>4, Zenon
    <3>3. Age(q, p, w) = Age(o, p, w) + 1 /\ Age(o, p, w) \in 1..(w - 1)
      BY <1>7, <2>2, Zenon
    <3>4. /\ Age(o, p, w) <= Len(k) =>
                 Age(o, p, w) + 1 <= Len(h) /\ h[Age(o, p, w) + 1] = k[Age(o, p, w)]
          /\ Age(o, p, w) + 1 <= Len(h) => Age(o, p, w) <= Len(k)
      BY <1>6, <3>3, Zenon
    <3> QED
      BY <3>1, <3>2, <3>3, <3>4, Zenon
  <2> QED
    BY <2>1, <2>2, Zenon
<1>9. bits \subseteq 0..(w - 1)
  BY <1>3, <1>4 DEF Bits
<1>10. bits = {p \in 0..(w - 1) : Age(q, p, w) <= Len(h) /\ h[Age(q, p, w)]}
  BY <1>8, <1>9, Zenon
<1> QED
  BY <1>5, <1>6, <1>10, Zenon DEF Matches, h

\* What every step keeps: the ring of each validator is its history.
HistoryInv == \A v \in Validators : Recorded(ring[v], info[v], hist[v])

\* BeginBlocker's three cases, with the history.
LEMMA BlockHistory ==
    ASSUME TypeOK, NEW absent, BeginBlock(absent), NEW v \in Validators
    PROVE  LET c == Counted(v, v \in absent)
           IN \/ ring'[v] = ring[v] /\ info'[v] = info[v] /\ hist'[v] = hist[v]
              \/ /\ ring'[v] = c.ring /\ info'[v] = c.info
                 /\ hist'[v] = [votes |-> Latest(v, v \in absent), spent |-> FALSE]
              \/ /\ ShouldSlash(v, c.info, height + 1)
                 /\ ring'[v] = NoRing /\ info'[v] = Jailing(c.info, height + 1)
                 /\ hist'[v] = [votes |-> Latest(v, v \in absent), spent |-> TRUE]
<1> DEFINE voters == Head(votes)
           d == [u \in voters |-> Counted(u, u \in absent)]
           slashed == {u \in voters : ShouldSlash(u, d[u].info, height + 1)}
           c == Counted(v, v \in absent)
<1>1. /\ ring'[v] = IF v \in slashed THEN NoRing ELSE IF v \in voters THEN d[v].ring ELSE ring[v]
      /\ info'[v] = IF v \in slashed THEN Jailing(d[v].info, height + 1)
                    ELSE IF v \in voters THEN d[v].info ELSE info[v]
      /\ hist'[v] = IF v \in voters
                    THEN [votes |-> Latest(v, v \in absent), spent |-> v \in slashed] ELSE hist[v]
  BY Zenon DEF BeginBlock, Jailing
<1>2. v \in voters => d[v] = c
  BY Zenon
<1>3. v \in slashed <=> v \in voters /\ ShouldSlash(v, d[v].info, height + 1)
  BY Zenon
<1> HIDE DEF voters, d, slashed, c
<1>4. CASE v \notin voters
  BY <1>1, <1>3, <1>4, Zenon
<1>5. CASE v \in voters /\ v \notin slashed
  <2>1. (v \in slashed) = FALSE
    BY <1>5
  <2>2. hist'[v] = [votes |-> Latest(v, v \in absent), spent |-> FALSE]
    BY <1>1, <1>5, <2>1, Zenon
  <2> QED
    BY <1>1, <1>2, <1>5, <2>2, Zenon DEF c
<1>6. CASE v \in slashed
  <2>1. (v \in slashed) = TRUE
    BY <1>6
  <2>2. hist'[v] = [votes |-> Latest(v, v \in absent), spent |-> TRUE]
    BY <1>1, <1>3, <1>6, <2>1, ZenonT(60)
  <2> QED
    BY <1>1, <1>2, <1>3, <1>6, <2>2, Zenon DEF c
<1> QED
  BY <1>4, <1>5, <1>6, Zenon

\* A block keeps the rings and the histories together.
LEMMA BlockKeepsHistory ==
    ASSUME TypeOK, NoEdge, HistoryInv, NEW absent, BeginBlock(absent)
    PROVE  HistoryInv'
<1> SUFFICES ASSUME NEW v \in Validators PROVE Recorded(ring'[v], info'[v], hist'[v])
  BY Zenon DEF HistoryInv
<1> DEFINE c == Counted(v, v \in absent)
           h == Latest(v, v \in absent)
<1>0. Recorded(ring[v], info[v], hist[v]) /\ (v \in absent) \in BOOLEAN
  BY DEF HistoryInv
<1>1. Shape(c.ring, c.info) /\ Matches(c.ring, c.info.offset, h)
  BY <1>0, CountedShape, VoteMatches, Zenon
<1>2. c.ring.found /\ h \in Seq(BOOLEAN)
  BY <1>1, Zenon DEF Shape, Matches
<1>3. \/ ring'[v] = ring[v] /\ info'[v] = info[v] /\ hist'[v] = hist[v]
      \/ /\ ring'[v] = c.ring /\ info'[v] = c.info
         /\ hist'[v] = [votes |-> h, spent |-> FALSE]
      \/ ring'[v] = NoRing /\ hist'[v] = [votes |-> h, spent |-> TRUE]
  BY BlockHistory, Zenon
<1>4. ~NoRing.found
  BY DEF NoRing
<1> HIDE DEF c, h
<1>5. CASE ring'[v] = ring[v] /\ info'[v] = info[v] /\ hist'[v] = hist[v]
  BY <1>0, <1>5, Zenon
<1>6. CASE /\ ring'[v] = c.ring /\ info'[v] = c.info
           /\ hist'[v] = [votes |-> h, spent |-> FALSE]
  BY <1>1, <1>2, <1>6 DEF Recorded
<1>7. CASE ring'[v] = NoRing /\ hist'[v] = [votes |-> h, spent |-> TRUE]
  BY <1>2, <1>4, <1>7 DEF Recorded
<1> QED
  BY <1>3, <1>5, <1>6, <1>7

\* So does every other step, as it changes neither, or gives its first signing
\* info to a validator that has no ring.
LEMMA HistoryInvStep == TypeInv /\ NoEdge /\ HistoryInv /\ [Next]_vars => HistoryInv'
<1> SUFFICES ASSUME TypeInv, NoEdge, HistoryInv, [Next]_vars PROVE HistoryInv'
  OBVIOUS
<1> USE DEF TypeInv
<1>1. ASSUME NEW absent, BeginBlock(absent) PROVE HistoryInv'
  BY <1>1, BlockKeepsHistory
<1>0. ASSUME ring' = ring, hist' = hist,
             \A w \in Validators : ring[w].found => info'[w].offset = info[w].offset
      PROVE  HistoryInv'
  BY <1>0, Zenon DEF HistoryInv, Recorded
<1>2. ASSUME NEW v \in Validators, HandleEquivocation(v) PROVE HistoryInv'
  <2>1. \A w \in Validators : info'[w].offset = info[w].offset
    BY <1>2, EvidenceKeepsInfo
  <2> QED
    BY <1>0, <1>2, <2>1, Zenon DEF HandleEquivocation
<1>3. ASSUME NEW v \in Validators, Unjail(v) PROVE HistoryInv'
  BY <1>0, <1>3, Zenon DEF Unjail
<1>4. ASSUME NEW v \in Validators, Bond(v) PROVE HistoryInv'
  <2>1. \A w \in Validators : info'[w] = info[w] \/ (w = v /\ ~info[v].found)
    BY <1>4, BondKeepsInfo
  <2>2. \A w \in Validators : ring[w].found => info'[w].offset = info[w].offset
    BY <2>1, Zenon DEF Known
  <2> QED
    BY <1>0, <1>4, <2>2, Zenon DEF Bond
<1>5. ASSUME NEW v \in Validators, Unbond(v) PROVE HistoryInv'
  BY <1>0, <1>5, Zenon DEF Unbond
<1>6. ASSUME NEW v \in Validators, JailForSelfBond(v) PROVE HistoryInv'
  BY <1>0, <1>6, Zenon DEF JailForSelfBond
<1>7. ASSUME NEW w \in Windows, ChangeWindow(w) PROVE HistoryInv'
  BY <1>0, <1>7, Zenon DEF ChangeWindow
<1>8. CASE UNCHANGED vars
  BY <1>0, <1>8, Zenon DEF vars
<1> QED
  BY <1>1, <1>2, <1>3, <1>4, <1>5, <1>6, <1>7, <1>8, Zenon DEF Next

\* At genesis there are no rings and no votes.
LEMMA HistoryInit == Init => HistoryInv
<1> SUFFICES ASSUME Init, NEW v \in Validators PROVE Recorded(ring[v], info[v], hist[v])
  BY DEF HistoryInv
<1>1. ~ring[v].found
  BY DEF Init, NoRing
<1>2. hist[v] = [votes |-> << >>, spent |-> FALSE] /\ << >> \in Seq(BOOLEAN)
  BY DEF Init
<1> QED
  BY <1>1, <1>2 DEF Recorded

\* If the window never grows while a ring is about to replace a set bit at its
\* last index, the bits of a ring are the latest votes of its validator, in
\* their order, through every resizing, slash and absence.
THEOREM RingsAreHistories ==
    ASSUME ~GrowAnywhere
    PROVE  Spec => []RingIsHistory
<1>1. Init => CountInv
  BY InitHolds DEF CountInv
<1>2. TypeInv /\ CountInv /\ HistoryInv => RingIsHistory
  <2> SUFFICES ASSUME TypeInv, HistoryInv, NEW v \in Validators, ring[v].found
               PROVE  ring[v].missed = {(info[v].offset - i) % ring[v].size : i \in Misses(hist[v].votes)}
    BY Zenon DEF RingIsHistory
  <2>1. ring[v] \in RingType /\ info[v].offset \in 0..(ring[v].size - 1)
    BY DEF TypeInv, TypeOK, InfoType, RingType
  <2>2. Matches(ring[v], info[v].offset, hist[v].votes)
    BY Zenon DEF HistoryInv, Recorded
  <2> QED
    BY <2>1, <2>2, MatchesIsPlaces, Zenon
<1>3. TypeInv /\ CountInv /\ HistoryInv /\ [Next]_vars => HistoryInv'
  BY HistoryInvStep DEF CountInv
<1> QED
  BY <1>1, <1>2, <1>3, InitTypeInv, TypeInvStep, CountInvStep, HistoryInit, PTL DEF Spec

\* A vote leaves the start height and the jail time of its signing info alone.
LEMMA CountedKeepsTerms ==
    ASSUME TypeOK, NEW v \in Validators, NEW missed \in BOOLEAN
    PROVE  /\ Counted(v, missed).info.start = info[v].start
           /\ Counted(v, missed).info.until = info[v].until
<1>1. info[v] \in InfoType
  BY DEF TypeOK
<1>2. \A i \in InfoType : \A x, y : At(i, x, y).start = i.start /\ At(i, x, y).until = i.until
  BY Zenon DEF At, InfoType
<1>3. Sized(v).info.start = info[v].start /\ Sized(v).info.until = info[v].until
  <2>1. CASE ~ring[v].found \/ ring[v].size = window
    <3>1. Sized(v).info = info[v]
      BY <2>1 DEF Sized
    <3> QED
      BY <3>1, Zenon
  <2>2. CASE ring[v].found /\ ring[v].size # window
    <3>1. Sized(v).info = info[v] \/ Sized(v).info = At(info[v], 0, 0)
      BY <2>2, ResizeCases
    <3>2. /\ At(info[v], 0, 0).start = info[v].start
          /\ At(info[v], 0, 0).until = info[v].until
      BY <1>1, <1>2
    <3> QED
      BY <3>1, <3>2, Zenon
  <2> QED
    BY <2>1, <2>2, Zenon
<1>4. Sized(v).info \in InfoType
  BY SizedShape, Zenon DEF Shape
<1>5. PICK x, y : Counted(v, missed).info = At(Sized(v).info, x, y)
  BY CountedIs, Zenon
<1>6. /\ At(Sized(v).info, x, y).start = Sized(v).info.start
      /\ At(Sized(v).info, x, y).until = Sized(v).info.until
  BY <1>2, <1>4
<1> QED
  BY <1>3, <1>5, <1>6, Zenon

\* The verdict of a block on a validator whose jail time it moves.
LEMMA VerdictIsJust ==
    ASSUME TypeOK, CounterIsSum, NoEdge, HistoryInv, NEW absent, BeginBlock(absent),
           NEW v \in Validators, info'[v].until > info[v].until
    PROVE  Cardinality(Misses(hist'[v].votes)) > MaxMissed /\ height' > info[v].start + window
<1> DEFINE m == v \in absent
           c == Counted(v, m)
           h == Latest(v, m)
<1>0. m \in BOOLEAN /\ Recorded(ring[v], info[v], hist[v]) /\ info[v].until \in Nat
  BY DEF HistoryInv, TypeOK, InfoType
<1>1. c.info.start = info[v].start /\ c.info.until = info[v].until
  BY <1>0, CountedKeepsTerms, Zenon
<1>2. ShouldSlash(v, c.info, height + 1) /\ hist'[v] = [votes |-> h, spent |-> TRUE]
  <2>1. ~(info[v].until > info[v].until)
    BY <1>0
  <2> QED
    BY <1>1, <2>1, BlockHistory, Zenon
<1>3. c.info.counter > MaxMissed /\ height + 1 > info[v].start + window
  BY <1>1, <1>2, Zenon DEF ShouldSlash
<1>4. Shape(c.ring, c.info) /\ Counts(c.ring, c.info) /\ Matches(c.ring, c.info.offset, h)
  BY <1>0, CountedShape, CountedCounts, VoteMatches, Zenon
<1> HIDE DEF c, h
<1>5. c.ring \in RingType /\ c.info.offset \in 0..(c.ring.size - 1)
  BY <1>4, WindowType DEF Shape, InfoType, TypeOK
<1>6. Cardinality(c.ring.missed) = Cardinality(Misses(h))
  BY <1>4, <1>5, MatchesCounts, Zenon
<1>7. hist'[v].votes = h /\ c.info.counter = Cardinality(c.ring.missed)
  BY <1>2, <1>4 DEF Counts
<1>8. height' = height + 1
  BY Zenon DEF BeginBlock
<1> QED
  BY <1>3, <1>6, <1>7, <1>8, Zenon

\* Under the same condition, a validator is slashed for downtime only if it has
\* missed more of its latest votes, as many as the window, than it may, none of
\* which it was slashed for before, and has been known for a window.
THEOREM SlashesAreDeserved ==
    ASSUME ~GrowAnywhere
    PROVE  Spec => SlashedForMisses
<1> DEFINE Moved(v) == info'[v].until > info[v].until /\ ~info'[v].tombstoned
           Just(v) == /\ Cardinality(Misses(hist'[v].votes)) > MaxMissed
                      /\ height' > info[v].start + window
<1>1. ASSUME TypeInv, CountInv, HistoryInv, Next, NEW v \in Validators, Moved(v) PROVE Just(v)
  <2>0. info[v] \in InfoType /\ info[v].until \in Nat
    BY <1>1 DEF TypeInv, TypeOK, InfoType
  <2>1. ASSUME NEW absent, BeginBlock(absent) PROVE Just(v)
    BY <1>1, <2>1, VerdictIsJust, Zenon DEF TypeInv, CountInv
  <2>2. ASSUME info'[v] = info[v] PROVE FALSE
    <3>1. ~(info[v].until > info[v].until)
      BY <2>0
    <3> QED
      BY <1>1, <2>2, <3>1, Zenon
  <2>3. ASSUME NEW u \in Validators, HandleEquivocation(u) PROVE FALSE
    <3>1. info \in [Validators -> InfoType]
      BY <1>1 DEF TypeInv, TypeOK
    <3>2. u # v => info'[v] = info[v]
      BY <2>3, <3>1 DEF HandleEquivocation
    <3>3. u = v => info'[v].tombstoned
      BY <2>3, <3>1, Zenon DEF HandleEquivocation, InfoType
    <3> QED
      BY <1>1, <2>2, <3>2, <3>3, Zenon
  <2>4. ASSUME NEW u \in Validators, Bond(u) PROVE FALSE
    <3>1. info \in [Validators -> InfoType]
      BY <1>1 DEF TypeInv, TypeOK
    <3>2. info'[v] = info[v] \/ info'[v] = NewInfo
      BY <2>4, <3>1, Zenon DEF Bond
    <3>3. info'[v] = NewInfo => info'[v].until = 0
      BY DEF NewInfo
    <3>4. ~(0 > info[v].until)
      BY <2>0
    <3> QED
      BY <1>1, <2>2, <3>2, <3>3, <3>4, Zenon
  <2> QED
    BY <1>1, <2>1, <2>2, <2>3, <2>4, Zenon DEF Next, Unjail, Unbond, JailForSelfBond, ChangeWindow
<1>2. TypeInv /\ CountInv /\ HistoryInv /\ [Next]_vars =>
          [\A v \in Validators : Moved(v) => Just(v)]_vars
  BY <1>1, Zenon
<1>3. Init => CountInv
  BY InitHolds DEF CountInv
<1>4. TypeInv /\ CountInv /\ HistoryInv /\ [Next]_vars => HistoryInv'
  BY HistoryInvStep DEF CountInv
<1> QED
  BY <1>2, <1>3, <1>4, InitTypeInv, TypeInvStep, CountInvStep, HistoryInit, PTL
     DEF Spec, SlashedForMisses

=============================================================================
