--------------------------- MODULE CacheKVProofs ---------------------------
(***************************************************************************)
(* The cache store implements a plain map over its parent, for any keys,   *)
(* values and domains, as long as DeleteAll is called with an end.         *)
(*                                                                         *)
(* The argument rests on one fact about the cache: a key is in `deleted`   *)
(* exactly when its cached value is nil.  With it Write, which decides by  *)
(* `deleted`, makes the parent what Get returned.                          *)
(*                                                                         *)
(* A walk of an iterator is exact, whatever is written to the store while  *)
(* it is open.  That is not inductive: a key which the walk has yet to     *)
(* come to must be in the two halves as it was when the iterator was       *)
(* opened (Unvisited), which needs the sorted cache to agree with the      *)
(* cache (SortedAgrees); and the key the iterator stands at must be found  *)
(* again even if it was deleted meanwhile (Position).                      *)
(***************************************************************************)
EXTENDS CacheKV, FiniteSetTheorems, WellFoundedInduction, TLAPS

\* The part of the type invariant that the refinement needs, and the agreement
\* of the cache with `deleted`.
CacheInv ==
    /\ parent \in [Keys -> Vals \cup {Nil}]
    /\ cache \in [Keys -> Vals \cup {Nil, Absent}]
    /\ deleted = {k \in Keys : cache[k] = Nil}

view == [k \in Keys |-> Get(k)]

\* Every step of setCacheValue keeps the invariant and writes the map.
LEMMA SetCacheValuesInv ==
    ASSUME CacheInv, NEW D \in SUBSET Keys, NEW v \in Vals \cup {Nil}, SetCacheValues(D, v)
    PROVE  /\ CacheInv'
           /\ parent' = parent
           /\ view' = [k \in Keys |-> IF k \in D THEN v ELSE view[k]]
<1>1. v # Absent /\ Nil # Absent
  BY CacheAssumption
<1>2. cache' \in [Keys -> Vals \cup {Nil, Absent}]
  BY DEF SetCacheValues, CacheInv
<1>3. deleted' = {k \in Keys : cache'[k] = Nil}
  <2>1. CASE v = Nil
    BY <2>1 DEF SetCacheValues, CacheInv
  <2>2. CASE v # Nil
    BY <2>2 DEF SetCacheValues, CacheInv
  <2> QED
    BY <2>1, <2>2
<1>4. parent' = parent
  BY DEF SetCacheValues
<1>5. ASSUME NEW k \in Keys
      PROVE  Get(k)' = IF k \in D THEN v ELSE Get(k)
  BY <1>1 DEF SetCacheValues, Get
<1> QED
  BY <1>2, <1>3, <1>4, <1>5 DEF CacheInv, view

\* Write keeps the invariant, leaves the map as it is and makes the parent the
\* map.
LEMMA WriteInv ==
    ASSUME CacheInv, Write
    PROVE  /\ CacheInv'
           /\ parent' = view
           /\ view' = view
<1>1. Nil # Absent /\ Absent \notin Vals
  BY CacheAssumption
<1>2. ASSUME NEW k \in Keys
      PROVE  parent'[k] = Get(k)
  BY <1>1 DEF CacheInv, Write, Get
<1>3. parent' = view
  BY <1>2 DEF view, Write
<1>4. view \in [Keys -> Vals \cup {Nil}]
  BY DEF view, Get, CacheInv
<1>5. CacheInv'
  BY <1>1, <1>3, <1>4 DEF CacheInv, Write, Nothing
<1>6. ASSUME NEW k \in Keys
      PROVE  Get(k)' = Get(k)
  BY <1>2 DEF Write, Get, Nothing
<1> QED
  BY <1>3, <1>5, <1>6 DEF view

\* With an end, the keys that DeleteAll finds are those of the domain that have
\* a value.
LEMMA KeysInRangeIsDomain ==
    ASSUME CacheInv, NEW d \in Ranges, d.end # 0
    PROVE  KeysInRange(d) = {k \in Domain(d) : Get(k) # Nil}
<1>1. d.start \in Nat /\ d.end \in Nat /\ Keys \subseteq Nat
  BY CacheAssumption DEF DomainType
<1>2. \A k \in Keys : k >= d.start /\ k < d.end <=> k \in Domain(d)
  BY <1>1 DEF Domain, InDomain
<1>3. Nil # Absent
  BY CacheAssumption
<1> QED
  BY <1>2, <1>3 DEF KeysInRange, Get, CacheInv, Domain

\* Every step of the cache store is one of the map, or none: DeleteAll deletes
\* what Get shows in the range, and Write hands the same map to the parent.
LEMMA StepImplements ==
    ASSUME CacheInv, [CacheNext]_cacheVars, \A d \in Ranges : d.end # 0
    PROVE  CacheInv' /\ [Map!Next]_(Map!vars)
<1>0. CASE UNCHANGED <<store, writes>>
  BY <1>0 DEF CacheInv, store, Map!vars, Get
<1>1. ASSUME NEW k \in Keys, NEW v \in Vals, Set(k, v)
      PROVE  CacheInv' /\ Map!Set(k, v)
  <2>1. SetCacheValues({k}, v)
    BY <1>1 DEF Set
  <2>2. /\ CacheInv'
        /\ parent' = parent
        /\ view' = [l \in Keys |-> IF l \in {k} THEN v ELSE view[l]]
    BY <2>1, SetCacheValuesInv, SMTT(30)
  <2>3. view' = [view EXCEPT ![k] = v]
    BY <2>2, Zenon DEF view
  <2> QED
    BY <2>2, <2>3 DEF Map!Set, view
<1>2. ASSUME NEW k \in Keys, Delete(k)
      PROVE  CacheInv' /\ Map!Set(k, Nil)
  <2>1. SetCacheValues({k}, Nil)
    BY <1>2 DEF Delete
  <2>2. /\ CacheInv'
        /\ parent' = parent
        /\ view' = [l \in Keys |-> IF l \in {k} THEN Nil ELSE view[l]]
    BY <2>1, SetCacheValuesInv
  <2>3. view' = [view EXCEPT ![k] = Nil]
    BY <2>2, Zenon DEF view
  <2> QED
    BY <2>2, <2>3 DEF Map!Set, view
<1>3. ASSUME NEW d \in Ranges, DeleteAll(d)
      PROVE  CacheInv' /\ Map!DeleteAll(Domain(d))
  <2>1. SetCacheValues(KeysInRange(d), Nil) /\ KeysInRange(d) = {k \in Domain(d) : Get(k) # Nil}
    BY <1>3, KeysInRangeIsDomain DEF DeleteAll
  <2>2. KeysInRange(d) \in SUBSET Keys
    BY <2>1 DEF Domain
  <2>3. /\ CacheInv'
        /\ parent' = parent
        /\ view' = [k \in Keys |-> IF k \in KeysInRange(d) THEN Nil ELSE view[k]]
    BY <2>1, <2>2, SetCacheValuesInv
  <2>4. view' = [k \in Keys |-> IF k \in Domain(d) THEN Nil ELSE view[k]]
    BY <2>1, <2>3 DEF view
  <2> QED
    BY <2>3, <2>4 DEF Map!DeleteAll, view
<1>4. CASE Write
  BY <1>4, WriteInv DEF Map!Write, Map!Next, view
<1>5. ASSUME NEW d \in Domains, NEW asc \in BOOLEAN, Open(d, asc)
      PROVE  CacheInv' /\ UNCHANGED Map!vars
  BY <1>5 DEF Open, CacheInv, Map!vars, Get
<1>6. CASE Visit \/ Advance \/ Close
  BY <1>0, <1>6 DEF Visit, Advance, Close
<1>7. CASE UNCHANGED cacheVars
  BY <1>0, <1>7 DEF cacheVars
<1> QED
  BY <1>1, <1>2, <1>3, <1>4, <1>5, <1>6, <1>7 DEF CacheNext, Map!Next

\* The cache store is a map over its parent: Get, Set, Delete, DeleteAll with
\* an end, and Write of store/cachekv behave like those of KVStore, and opening
\* and moving iterators changes nothing that they see.
THEOREM CacheIsMap ==
    ASSUME \A d \in Ranges : d.end # 0
    PROVE  CacheSpec => ImplementsMap
<1>1. CacheInit => CacheInv /\ Map!Init
  <2> SUFFICES ASSUME CacheInit PROVE CacheInv /\ Map!Init
    OBVIOUS
  <2>1. Nil # Absent
    BY CacheAssumption
  <2>2. parent \in [Keys -> Vals \cup {Nil}]
    BY CacheAssumption DEF CacheInit
  <2>3. [k \in Keys |-> Get(k)] = parent
    BY <2>2 DEF CacheInit, Get, Nothing
  <2> QED
    BY <2>1, <2>2, <2>3 DEF CacheInit, CacheInv, Nothing, Map!Init, Map!Maps
<1>2. CacheInv /\ [CacheNext]_cacheVars => CacheInv' /\ [Map!Next]_(Map!vars)
  BY StepImplements
<1> QED
  BY <1>1, <1>2, PTL DEF CacheSpec, ImplementsMap, Map!Spec

-----------------------------------------------------------------------------
(* Walks.                                                                  *)

\* Before is a strict order in either direction.
LEMMA BeforeOrder ==
    ASSUME NEW i, NEW k \in Keys, NEW l \in Keys
    PROVE  /\ ~Before(i, k, k)
           /\ Before(i, k, l) => ~Before(i, l, k) /\ k # l
           /\ k # l => Before(i, k, l) \/ Before(i, l, k)
           /\ \A m \in Keys : Before(i, k, l) /\ Before(i, l, m) => Before(i, k, m)
BY CacheAssumption DEF Before

\* There is a first one of the keys S.
HasFirst(i, S) == \E k \in S : \A l \in S \ {k} : Before(i, k, l)

\* Every set of keys that is not empty has a first one, as there are finitely
\* many.
LEMMA FirstExists ==
    ASSUME NEW i, NEW S \in SUBSET Keys, S # {}
    PROVE  HasFirst(i, S)
<1> DEFINE B == {U \in SUBSET Keys : U # {} /\ ~HasFirst(i, U)}
<1>1. IsWellFoundedOn(StrictSubsetOrdering(Keys), SUBSET Keys)
  BY CacheAssumption, FS_StrictSubsetOrderingWellFounded, FS_FiniteSubsetsOfFinite, ZenonT(60)
<1> SUFFICES ASSUME B # {} PROVE FALSE
  OBVIOUS
<1>2. PICK U \in B : \A V \in B : ~(<<V, U>> \in StrictSubsetOrdering(Keys))
  <2>1. B \subseteq SUBSET Keys
    OBVIOUS
  <2> HIDE DEF B
  <2> QED
    BY <1>1, <2>1, WFMin, SMT
<1>3. U \in SUBSET Keys /\ U # {} /\ ~HasFirst(i, U)
  BY <1>2
<1>4. PICK x \in U : TRUE
  BY <1>3
<1>5. U \ {x} \notin B
  BY <1>2, <1>3, <1>4, Zenon DEF StrictSubsetOrdering
<1>6. CASE U \ {x} = {}
  BY <1>3, <1>4, <1>6 DEF HasFirst
<1>7. CASE HasFirst(i, U \ {x})
  <2>1. PICK k \in U \ {x} : \A l \in (U \ {x}) \ {k} : Before(i, k, l)
    BY <1>7 DEF HasFirst
  <2>2. k \in Keys /\ x \in Keys /\ k # x
    BY <1>3, <1>4, <2>1
  <2>3. CASE Before(i, k, x)
    <3>1. \A l \in U \ {k} : Before(i, k, l)
      BY <2>1, <2>3
    <3> QED
      BY <3>1, <1>3, <2>1 DEF HasFirst
  <2>4. CASE Before(i, x, k)
    <3>1. \A l \in U \ {x} : Before(i, x, l)
      BY <2>1, <2>2, <2>4, <1>3, BeforeOrder, Zenon
    <3> QED
      BY <3>1, <1>3, <1>4 DEF HasFirst
  <2> QED
    BY <2>2, <2>3, <2>4, BeforeOrder, Zenon
<1> QED
  BY <1>3, <1>5, <1>6, <1>7

\* First finds it.
LEMMA FirstIs ==
    ASSUME NEW i, NEW S \in SUBSET Keys, S # {}
    PROVE  First(i, S) \in S /\ \A l \in S \ {First(i, S)} : Before(i, First(i, S), l)
<1>1. \E k \in S : \A l \in S \ {k} : Before(i, k, l)
  BY FirstExists DEF HasFirst
<1> QED
  BY <1>1, Zenon DEF First

\* It is the only one.
LEMMA FirstUnique ==
    ASSUME NEW i, NEW S \in SUBSET Keys, NEW c \in S, \A l \in S \ {c} : Before(i, c, l)
    PROVE  First(i, S) = c
<1>1. First(i, S) \in S /\ \A l \in S \ {First(i, S)} : Before(i, First(i, S), l)
  BY FirstIs
<1>2. c \in Keys /\ First(i, S) \in Keys
  BY <1>1
<1> QED
  BY <1>1, <1>2, BeforeOrder

\* The cached keys that skipCacheDeletes passes over, those of them before c,
\* and the keys at which an iterator may stop.
Gone(i) == {k \in i.mem : MemValue(i, k) = Nil}
Skipped(i, c) == {k \in Gone(i) : Before(i, k, c)}
Rest(i) == (i.par \cup i.mem) \ Gone(i)

\* j is i, moved up to the key c.
IsSkipped(i, j, c) ==
    /\ c \in Rest(i) /\ \A l \in Rest(i) \ {c} : Before(i, c, l)
    /\ j \in Iterators
    /\ j.st = i.st /\ j.dom = i.dom /\ j.ascending = i.ascending /\ j.vals = i.vals /\ j.pos = i.pos
    /\ j.par = i.par \ Skipped(i, c) /\ j.mem = i.mem \ Skipped(i, c)
    /\ j.last \in {i.last} \cup (i.mem \ Gone(i))
    /\ c \in i.mem => j.last = c
    /\ Skipped(i, c) = {} /\ c \notin i.mem => j.last = i.last

\* skipUntilExistsOrInvalid with nothing ahead ends the walk.
LEMMA SkipEnds ==
    ASSUME NEW i \in Iterators, Rest(i) = {}
    PROVE  Skip(i) = [i EXCEPT !.par = {}, !.mem = {}, !.st = "end"]
BY Zenon DEF Skip, Rest, Gone

\* Otherwise it stops at the first key that has a value in either half.
LEMMA SkipStops ==
    ASSUME NEW i \in Iterators, Rest(i) # {}
    PROVE  /\ IsSkipped(i, Skip(i), First(i, Rest(i)))
           /\ First(Skip(i), Skip(i).par \cup Skip(i).mem) = First(i, Rest(i))
<1> DEFINE c == First(i, Rest(i))
           behind == {k \in i.mem : Before(i, c, k)}
           peeks == Skipped(i, c) # {} /\ behind # {} /\ First(i, behind) \notin Gone(i)
                      /\ \E k \in Skipped(i, c) \ i.par : \A l \in Skipped(i, c) : ~Before(i, k, l)
           last == IF c \in i.mem THEN c ELSE IF peeks THEN First(i, behind) ELSE i.last
           j == [i EXCEPT !.par = @ \ Skipped(i, c), !.mem = @ \ Skipped(i, c), !.last = last]
<1>1. Skip(i) = j
  BY Zenon DEF Skip, Rest, Gone, Skipped
<1>2. i.par \in SUBSET Keys /\ i.mem \in SUBSET Keys /\ i.last \in Keys \cup {NoKey}
  BY Zenon DEF Iterators
<1>3. Gone(i) \in SUBSET i.mem /\ Skipped(i, c) \in SUBSET Gone(i) /\ Rest(i) \in SUBSET Keys /\ behind \in SUBSET i.mem
  BY <1>2 DEF Gone, Skipped, Rest
<1>4. c \in Rest(i) /\ \A l \in Rest(i) \ {c} : Before(i, c, l)
  BY <1>3, FirstIs, Zenon
<1>5. c \in Keys /\ c \notin Gone(i) /\ c \in i.par \cup i.mem
  BY <1>3, <1>4, Zenon DEF Rest
<1>6. peeks => First(i, behind) \in behind
  BY <1>2, <1>3, FirstIs, Zenon
<1>7. last \in {i.last} \cup (i.mem \ Gone(i)) /\ last \in Keys \cup {NoKey}
  BY <1>2, <1>3, <1>5, <1>6
<1>8. /\ c \in i.mem => last = c
      /\ Skipped(i, c) = {} /\ c \notin i.mem => last = i.last
  OBVIOUS
<1>9. i.par \ Skipped(i, c) \in SUBSET Keys /\ i.mem \ Skipped(i, c) \in SUBSET Keys
  BY <1>2
<1> DEFINE P == i.par \ Skipped(i, c)
           M == i.mem \ Skipped(i, c)
<1> HIDE DEF last, P, M
<1>10. /\ j \in Iterators
       /\ j.st = i.st /\ j.dom = i.dom /\ j.ascending = i.ascending /\ j.vals = i.vals /\ j.pos = i.pos
       /\ j.par = P /\ j.mem = M /\ j.last = last
  <2>1. j = [i EXCEPT !.par = P, !.mem = M, !.last = last]
    BY Zenon DEF P, M
  <2>2. P \in SUBSET Keys /\ M \in SUBSET Keys
    BY <1>9 DEF P, M
  <2> QED
    BY <2>1, <2>2, <1>7, Zenon DEF Iterators
<1> HIDE DEF j
<1>11. IsSkipped(i, j, c)
  BY <1>4, <1>7, <1>8, <1>10, Zenon DEF IsSkipped, P, M
<1>12. First(j, j.par \cup j.mem) = c
  <2>1. \A k, l \in Keys : Before(j, k, l) <=> Before(i, k, l)
    BY <1>10 DEF Before
  <2>2. c \in P \cup M
    BY <1>3, <1>5 DEF P, M
  <2>3. ASSUME NEW l \in (P \cup M) \ {c} PROVE Before(j, c, l)
    <3>1. l \in Keys /\ l \in i.par \cup i.mem /\ l \notin Skipped(i, c)
      BY <1>2 DEF P, M
    <3>2. CASE l \in Gone(i)
      BY <3>1, <3>2, <2>1, <1>5, BeforeOrder DEF Skipped
    <3>3. CASE l \notin Gone(i)
      BY <3>1, <3>3, <2>1, <1>4, <1>5 DEF Rest
    <3> QED
      BY <3>2, <3>3
  <2>4. P \cup M \in SUBSET Keys
    BY <1>9 DEF P, M
  <2> QED
    BY <1>10, <2>2, <2>3, <2>4, FirstUnique
<1> QED
  BY <1>1, <1>11, <1>12

\* The sorted cache is that of the keys that are not waiting to be sorted.
Coded(k) == IF cache[k] = Nil THEN Empty ELSE cache[k]
SortedAgrees == \A k \in Keys : k \notin unsorted => sorted[k] = Coded(k)

\* A key that the walk has yet to come to, and that has not been written, is as
\* it was when the iterator was opened, in both halves.
Unvisited(k) ==
    /\ snap[k] = Get(k)
    /\ k \in it.par <=> parent[k] # Nil
    /\ k \in it.mem <=> cache[k] # Absent
    /\ k \in it.mem /\ cache[k] # Nil => it.vals[k] = cache[k]
    /\ seen[k] = Absent
    /\ k \in deleted => it.last # k

\* What the walk has made of a key that it has passed.
IsExact(k) == seen[k] = IF snap[k] = Nil THEN Absent ELSE snap[k]

\* Where the iterator stands.
Position ==
    /\ it.st = "at" /\ it.pos # NoKey => \A l \in it.par \cup it.mem : Before(it, it.pos, l)
    /\ it.st = "visited" =>
           /\ it.pos \in it.par \cup it.mem
           /\ \A l \in (it.par \cup it.mem) \ {it.pos} : Before(it, it.pos, l)
           /\ it.pos \in it.mem => it.last = it.pos

\* The keys of the domain that were not written ahead of the walk.
Untouched == Domain(it.dom) \ touched

\* The inductive invariant of a walk.
WalkInv ==
    /\ CacheTypeOK
    /\ deleted = {k \in Keys : cache[k] = Nil}
    /\ SortedAgrees
    /\ it.st # "panic"
    /\ it.st # "none" =>
           /\ it.par \cup it.mem \subseteq Domain(it.dom)
           /\ \A k \in Untouched : IF Passed(k) THEN IsExact(k) ELSE Unvisited(k)
           /\ Position

\* The values of the ordered cache are never nil, so what is passed over are
\* deleted keys.
LEMMA GoneIs ==
    ASSUME CacheTypeOK
    PROVE  Gone(it) = {k \in it.mem : k \in deleted /\ k # it.last}
<1>1. it.vals \in [Keys -> Vals \cup {Absent}] /\ it.mem \in SUBSET Keys
  BY Zenon DEF CacheTypeOK, Iterators
<1>2. \A k \in Keys : it.vals[k] # Nil
  BY <1>1, CacheAssumption
<1> QED
  BY <1>1, <1>2 DEF Gone, MemValue

\* The walk leaves out a key it has yet to come to only if there was none, and
\* otherwise has its value.
LEMMA UnvisitedValue ==
    ASSUME WalkInv, NEW k \in Keys, Unvisited(k)
    PROVE  /\ k \notin Rest(it) => snap[k] = Nil
           /\ k \in Rest(it) => /\ snap[k] # Nil
                                /\ snap[k] = IF k \in it.mem THEN it.vals[k] ELSE parent[k]
<1>1. Nil # Absent
  BY CacheAssumption
<1>2. k \in deleted <=> cache[k] = Nil
  BY DEF WalkInv
<1>3. k \in Gone(it) <=> k \in it.mem /\ cache[k] = Nil
  BY <1>2, GoneIs DEF WalkInv, Unvisited
<1>4. k \in Rest(it) <=> (k \in it.par \/ k \in it.mem) /\ k \notin Gone(it)
  BY DEF Rest
<1> QED
  BY <1>1, <1>3, <1>4 DEF Unvisited, Get

\* Set, Delete and DeleteAll keep the invariant while an iterator is open.
LEMMA WriteStepInv ==
    ASSUME WalkInv, NEW D \in SUBSET Keys, NEW v \in Vals \cup {Nil}, SetCacheValues(D, v)
    PROVE  WalkInv'
<1>0. Nil # Absent
  BY CacheAssumption
<1>1. /\ parent' = parent /\ sorted' = sorted /\ it' = it /\ seen' = seen /\ snap' = snap
      /\ cache' = [k \in Keys |-> IF k \in D THEN v ELSE cache[k]]
      /\ deleted' = IF v = Nil THEN deleted \cup D ELSE deleted \ D
      /\ unsorted' = unsorted \cup D
      /\ writes' = writes + 1 /\ writes < MaxWrites
  BY DEF SetCacheValues
<1>2. cache' \in [Keys -> Vals \cup {Nil, Absent}]
  BY <1>1 DEF WalkInv, CacheTypeOK
<1>3. deleted' = {k \in Keys : cache'[k] = Nil}
  BY <1>1 DEF WalkInv
<1>4. SortedAgrees'
  BY <1>1 DEF WalkInv, SortedAgrees, Coded
<1>5. held' \in [Keys -> SUBSET (Vals \cup {Nil})] /\ touched' \subseteq Keys
  BY DEF SetCacheValues, WalkInv, CacheTypeOK
<1>6. CacheTypeOK'
  <2>1. deleted' \subseteq Keys /\ unsorted' \subseteq Keys
    BY <1>1, <1>3 DEF WalkInv, CacheTypeOK
  <2>2. writes' \in 0 .. MaxWrites
    BY <1>1, CacheAssumption, SMTT(30) DEF WalkInv, CacheTypeOK
  <2> QED
    BY <1>1, <1>2, <1>5, <2>1, <2>2 DEF WalkInv, CacheTypeOK
<1>7. ASSUME it.st # "none"
      PROVE  \A k \in Untouched' : IF Passed(k)' THEN IsExact(k)' ELSE Unvisited(k)'
  <2> SUFFICES ASSUME NEW k \in Untouched' PROVE IF Passed(k)' THEN IsExact(k)' ELSE Unvisited(k)'
    OBVIOUS
  <2>1. touched' = touched \cup {l \in D : ~Passed(l)}
    BY <1>7 DEF SetCacheValues
  <2>2. k \in Untouched /\ k \in Keys /\ (Passed(k)' <=> Passed(k)) /\ (~Passed(k) => k \notin D)
    BY <1>1, <2>1 DEF Untouched, Passed, Before, Domain
  <2>3. IF Passed(k) THEN IsExact(k) ELSE Unvisited(k)
    BY <2>2, <1>7 DEF WalkInv
  <2>4. k \notin D => cache'[k] = cache[k] /\ (k \in deleted' <=> k \in deleted)
    BY <1>1, <2>2
  <2> QED
    BY <1>1, <2>2, <2>3, <2>4 DEF IsExact, Unvisited, Get
<1>8. it.st # "none" => Position'
  BY <1>1, Zenon DEF WalkInv, Position, Before
<1> QED
  BY <1>1, <1>3, <1>4, <1>6, <1>7, <1>8 DEF WalkInv

\* Write keeps the invariant.
LEMMA WriteKeepsWalk == ASSUME WalkInv, Write PROVE WalkInv'
<1>1. /\ parent' = view /\ CacheInv'
  <2>1. CacheInv
    BY DEF WalkInv, CacheInv, CacheTypeOK
  <2> QED
    BY <2>1, WriteInv
<1>2. /\ cache' = Nothing /\ deleted' = {} /\ unsorted' = {} /\ sorted' = Nothing
      /\ it' = it /\ seen' = seen /\ snap' = snap /\ held' = held /\ touched' = touched /\ writes' = writes
      /\ it.st = "none"
  BY DEF Write, walk
<1>3. SortedAgrees'
  BY <1>2, CacheAssumption DEF SortedAgrees, Coded, Nothing
<1>4. CacheTypeOK'
  BY <1>1, <1>2, ZenonT(60) DEF WalkInv, CacheTypeOK, CacheInv, Nothing
<1> QED
  BY <1>1, <1>2, <1>3, <1>4 DEF WalkInv, CacheInv

\* Opening an iterator makes every key of its domain one to come to.
LEMMA OpenKeepsWalk ==
    ASSUME WalkInv, NEW d \in Domains, NEW asc \in BOOLEAN, Open(d, asc)
    PROVE  WalkInv'
<1>0. Nil # Absent /\ Empty # Absent /\ Empty \in Vals /\ Nil \notin Vals /\ Absent \notin Vals /\ NoKey \notin Keys
  BY CacheAssumption, Zenon
<1> DEFINE par == {k \in Domain(d) : parent[k] # Nil}
           inmem == {k \in Domain(d) : Sorted(d)[k] # Absent}
<1>1. /\ parent' = parent /\ cache' = cache /\ deleted' = deleted /\ writes' = writes
      /\ sorted' = Sorted(d) /\ unsorted' = unsorted \ Domain(d)
      /\ seen' = Nothing /\ snap' = [k \in Keys |-> Get(k)]
      /\ held' = [k \in Keys |-> {Get(k)}] /\ touched' = {}
      /\ it' = [st |-> "at", dom |-> d, ascending |-> asc, par |-> par, mem |-> inmem,
                vals |-> Sorted(d), last |-> NoKey, pos |-> NoKey]
  BY Zenon DEF Open
<1>2. /\ it'.st = "at" /\ it'.dom = d /\ it'.par = par /\ it'.mem = inmem
      /\ it'.vals = Sorted(d) /\ it'.last = NoKey /\ it'.pos = NoKey
  BY <1>1, Zenon
<1>3. Sorted(d) \in [Keys -> Vals \cup {Absent}]
  BY <1>0 DEF Sorted, WalkInv, CacheTypeOK
<1>4. \A k \in Keys : k \in Domain(d) \/ k \notin unsorted => Sorted(d)[k] = Coded(k)
  BY Zenon DEF Sorted, Coded, WalkInv, SortedAgrees
<1>5. SortedAgrees'
  BY <1>1, <1>4 DEF SortedAgrees, Coded
<1>6. Domain(d) \subseteq Keys /\ d \in DomainType /\ par \in SUBSET Domain(d) /\ inmem \in SUBSET Domain(d)
  BY CacheAssumption DEF Domain
<1>7. it' \in Iterators
  <2>1. par \in SUBSET Keys /\ inmem \in SUBSET Keys
    BY <1>6
  <2> HIDE DEF par, inmem
  <2> QED
    BY <1>1, <1>3, <1>6, <2>1 DEF Iterators
<1> HIDE DEF par, inmem
<1>8. \A k \in Keys : Get(k) \in Vals \cup {Nil}
  BY <1>0 DEF WalkInv, CacheTypeOK, Get
<1>9. CacheTypeOK'
  <2>1. snap' \in [Keys -> Vals \cup {Nil}] /\ held' \in [Keys -> SUBSET (Vals \cup {Nil})]
    BY <1>1, <1>8
  <2>2. seen' \in [Keys -> Vals \cup {Nil, Absent}]
    BY <1>1, Zenon DEF Nothing
  <2> QED
    BY <1>1, <1>3, <1>7, <2>1, <2>2 DEF WalkInv, CacheTypeOK
<1>10. ASSUME NEW k \in Domain(d) PROVE ~Passed(k)' /\ Unvisited(k)'
  <2>1. k \in Keys /\ Sorted(d)[k] = Coded(k)
    BY <1>4, <1>6
  <2>2. ~Passed(k)'
    BY <1>2, ZenonT(60) DEF Passed
  <2>3. snap'[k] = Get(k) /\ Get(k)' = Get(k) /\ seen'[k] = Absent
    BY <1>1, <2>1, Zenon DEF Get, Nothing
  <2>4. (k \in par <=> parent[k] # Nil) /\ (k \in inmem <=> Coded(k) # Absent)
    BY <2>1 DEF par, inmem
  <2>5. (Coded(k) # Absent <=> cache[k] # Absent) /\ (cache[k] # Nil => Coded(k) = cache[k])
    BY <1>0 DEF Coded
  <2> QED
    BY <1>0, <1>1, <1>2, <2>1, <2>2, <2>3, <2>4, <2>5, Zenon DEF Unvisited
<1>11. Position'
  BY <1>2 DEF Position
<1>12. Untouched' = Domain(d)
  BY <1>1, <1>2 DEF Untouched, Domain, InDomain
<1>13. (it.par \cup it.mem \subseteq Domain(it.dom))'
  BY <1>2, <1>6, Zenon DEF Domain, InDomain
<1> QED
  BY <1>1, <1>2, <1>5, <1>9, <1>10, <1>11, <1>12, <1>13 DEF WalkInv

\* Closing an iterator keeps the invariant.
LEMMA CloseKeepsWalk == ASSUME WalkInv, Close PROVE WalkInv'
<1>1. NoIterator \in Iterators /\ NoIterator.st = "none"
  BY DEF NoIterator, Iterators, DomainType, Nothing
<1>2. CacheTypeOK'
  BY <1>1, Zenon DEF Close, store, WalkInv, CacheTypeOK, Nothing
<1> QED
  BY <1>1, <1>2, Zenon DEF Close, store, WalkInv, SortedAgrees, Coded

\* The walk ends: whatever it has not returned was not there.
LEMMA VisitEnds ==
    ASSUME WalkInv, Visit, Rest(it) = {}
    PROVE  WalkInv'
<1>1. it \in Iterators /\ it.st = "at"
  BY DEF Visit, WalkInv, CacheTypeOK
<1>2. Skip(it) = [it EXCEPT !.par = {}, !.mem = {}, !.st = "end"]
  BY <1>1, SkipEnds, Zenon
<1>3. Skip(it).st = "end" /\ Skip(it).par = {} /\ Skip(it).mem = {} /\ Skip(it).dom = it.dom /\ Skip(it) \in Iterators
  BY <1>1, <1>2, Zenon DEF Iterators
<1>4. it' = Skip(it) /\ seen' = seen /\ UNCHANGED <<parent, cache, deleted, unsorted, sorted, writes, snap, held, touched>>
  BY <1>3 DEF Visit, store
<1>5. CacheTypeOK'
  BY <1>3, <1>4 DEF WalkInv, CacheTypeOK
<1>6. Untouched' = Untouched /\ Untouched \subseteq Keys
  BY <1>3, <1>4 DEF Untouched, Domain, InDomain
<1>7. ASSUME NEW k \in Untouched PROVE Passed(k)' /\ IsExact(k)'
  <2>1. Passed(k)'
    BY <1>3, <1>4 DEF Passed
  <2>2. CASE Passed(k)
    BY <2>1, <2>2, <1>1, <1>4 DEF WalkInv, IsExact
  <2>3. CASE ~Passed(k)
    <3>1. Unvisited(k)
      BY <2>3, <1>1 DEF WalkInv
    <3>2. snap[k] = Nil /\ seen[k] = Absent
      BY <3>1, <1>6, UnvisitedValue, Zenon DEF Unvisited
    <3> QED
      BY <2>1, <3>2, <1>4 DEF IsExact
  <2> QED
    BY <2>2, <2>3
<1>8. SortedAgrees' /\ Position'
  BY <1>3, <1>4 DEF WalkInv, SortedAgrees, Coded, Position
<1> QED
  BY <1>3, <1>4, <1>5, <1>6, <1>7, <1>8 DEF WalkInv

\* The iterator stops at the key c, which nothing that was there lies before.
LEMMA VisitStops ==
    ASSUME WalkInv, Visit, Rest(it) # {}
    PROVE  WalkInv'
<1> DEFINE i == Skip(it)
           c == First(it, Rest(it))
           x == IF c \in i.mem THEN MemValue(i, c) ELSE parent[c]
<1>1. it \in Iterators /\ it.st = "at"
  BY DEF Visit, WalkInv, CacheTypeOK
<1>2. IsSkipped(it, i, c) /\ First(i, i.par \cup i.mem) = c
  BY <1>1, SkipStops
<1>3. i.st = "at" /\ i \in Iterators
  BY <1>1, <1>2, Zenon DEF IsSkipped
<1>4. /\ it' = [i EXCEPT !.st = "visited", !.pos = c]
      /\ seen' = [seen EXCEPT ![c] = x]
      /\ parent' = parent /\ cache' = cache /\ deleted' = deleted /\ unsorted' = unsorted /\ sorted' = sorted
      /\ writes' = writes /\ snap' = snap /\ held' = held /\ touched' = touched
  <2>1. i.st # "end"
    BY <1>3
  <2> QED
    BY <1>2, <2>1, Zenon DEF Visit, store
<1> HIDE DEF i, c
<1>5. Rest(it) \subseteq it.par \cup it.mem /\ it.par \cup it.mem \subseteq Keys
  BY <1>1, Zenon DEF Rest, Iterators
<1>6. c \in Rest(it) /\ c \in Keys /\ \A l \in Rest(it) \ {c} : Before(it, c, l)
  BY <1>2, <1>5, Zenon DEF IsSkipped
<1>7. /\ it' \in Iterators
      /\ it'.st = "visited" /\ it'.pos = c /\ it'.dom = it.dom /\ it'.ascending = it.ascending /\ it'.vals = it.vals
      /\ it'.par = it.par \ Skipped(it, c) /\ it'.mem = it.mem \ Skipped(it, c) /\ it'.last = i.last
  <2>1. /\ it' \in Iterators /\ it'.st = "visited" /\ it'.pos = c
        /\ it'.dom = i.dom /\ it'.ascending = i.ascending /\ it'.vals = i.vals
        /\ it'.par = i.par /\ it'.mem = i.mem /\ it'.last = i.last
    BY <1>3, <1>4, <1>6, Zenon DEF Iterators
  <2> QED
    BY <1>2, <2>1, Zenon DEF IsSkipped
<1>8. /\ i.last \in {it.last} \cup (it.mem \ Gone(it))
      /\ c \in it.mem => i.last = c
  BY <1>2, Zenon DEF IsSkipped
<1>9. c \notin Skipped(it, c) /\ (c \in i.mem <=> c \in it.mem) /\ i.vals = it.vals
  BY <1>2, <1>6, BeforeOrder DEF IsSkipped, Skipped
<1>10. x = IF c \in it.mem THEN it.vals[c] ELSE parent[c]
  BY <1>8, <1>9 DEF MemValue
<1> HIDE DEF x
<1>11. CacheTypeOK'
  <2>1. x \in Vals \cup {Nil, Absent}
    BY <1>1, <1>6, <1>10 DEF WalkInv, CacheTypeOK, Iterators
  <2>2. seen' \in [Keys -> Vals \cup {Nil, Absent}]
    BY <1>4, <2>1, Zenon DEF WalkInv, CacheTypeOK
  <2> QED
    BY <1>4, <1>7, <2>2 DEF WalkInv, CacheTypeOK
<1>12. \A k \in Keys : seen'[k] = IF k = c THEN x ELSE seen[k]
  BY <1>4 DEF WalkInv, CacheTypeOK
<1>13. \A k, l \in Keys : Before(it', k, l) <=> Before(it, k, l)
  BY <1>7, Zenon DEF Before
<1>14. \A k \in Keys : Passed(k)' <=> ~Before(it, c, k)
  BY <1>6, <1>7, <1>13, CacheAssumption DEF Passed
<1>15. \A k \in Keys : Passed(k) => ~Before(it, c, k) /\ k # c
  <2> SUFFICES ASSUME NEW k \in Keys, Passed(k) PROVE ~Before(it, c, k) /\ k # c
    OBVIOUS
  <2>1. it.pos # NoKey /\ ~Before(it, it.pos, k)
    BY <1>1 DEF Passed
  <2>2. Before(it, it.pos, c) /\ it.pos \in Keys
    BY <1>1, <1>5, <1>6, <2>1 DEF WalkInv, Position, Iterators
  <2> QED
    BY <2>1, <2>2, <1>6, BeforeOrder, Zenon
<1>16. Untouched' = Untouched /\ Untouched \subseteq Keys
  BY <1>4, <1>7 DEF Untouched, Domain, InDomain
<1>17. ASSUME NEW k \in Untouched PROVE IF Passed(k)' THEN IsExact(k)' ELSE Unvisited(k)'
  <2>0. k \in Keys
    BY <1>16
  <2>1. CASE Passed(k)
    <3>1. Passed(k)' /\ k # c
      BY <2>0, <2>1, <1>14, <1>15, Zenon
    <3>2. IsExact(k)
      BY <2>1, <1>1 DEF WalkInv
    <3> QED
      BY <2>0, <3>1, <3>2, <1>4, <1>12 DEF IsExact
  <2>2. CASE ~Passed(k) /\ Passed(k)'
    <3>1. Unvisited(k)
      BY <2>2, <1>1 DEF WalkInv
    <3>2. CASE k = c
      <4>1. snap[k] # Nil /\ snap[k] = x
        BY <3>1, <3>2, <2>0, <1>6, <1>10, UnvisitedValue
      <4> QED
        BY <4>1, <3>2, <2>0, <2>2, <1>4, <1>12, ZenonT(60) DEF IsExact
    <3>3. CASE k # c
      <4>1. k \notin Rest(it)
        BY <3>3, <2>0, <2>2, <1>6, <1>14, Zenon
      <4>2. snap[k] = Nil /\ seen[k] = Absent
        BY <4>1, <3>1, <2>0, UnvisitedValue DEF Unvisited
      <4> QED
        BY <4>2, <3>3, <2>0, <2>2, <1>4, <1>12 DEF IsExact
    <3> QED
      BY <3>2, <3>3
  <2>3. CASE ~Passed(k)'
    <3>1. Before(it, c, k) /\ ~Passed(k)
      BY <2>0, <2>3, <1>14, <1>15, Zenon
    <3>2. Unvisited(k)
      BY <3>1, <1>1 DEF WalkInv
    <3>3. k # c /\ k \notin Skipped(it, c)
      BY <3>1, <2>0, <1>6, BeforeOrder, Zenon DEF Skipped
    <3>4. k \in deleted => i.last # k
      <4>1. Gone(it) = {l \in it.mem : l \in deleted /\ l # it.last}
        BY GoneIs DEF WalkInv
      <4> QED
        BY <4>1, <3>2, <1>8, Zenon DEF Unvisited
    <3>5. Get(k)' = Get(k)
      BY <1>4, Zenon DEF Get
    <3> QED
      BY <2>0, <2>3, <3>2, <3>3, <3>4, <3>5, <1>4, <1>7, <1>12, Zenon DEF Unvisited
  <2> QED
    BY <2>1, <2>2, <2>3
<1>18. Position'
  <2>1. c \in it'.par \cup it'.mem /\ (c \in it'.mem => it'.last = c)
    BY <1>5, <1>6, <1>7, <1>8, <1>9, Zenon
  <2>2. ASSUME NEW l \in (it'.par \cup it'.mem) \ {c} PROVE Before(it', c, l)
    <3>1. l \in Keys /\ l \in it.par \cup it.mem /\ l \notin Skipped(it, c)
      BY <1>5, <1>7
    <3>2. l \in Gone(it) => ~Before(it, l, c)
      BY <3>1 DEF Skipped
    <3>3. l \notin Gone(it) => Before(it, c, l)
      BY <3>1, <1>6 DEF Rest
    <3> QED
      BY <3>1, <3>2, <3>3, <1>6, <1>13, BeforeOrder, Zenon
  <2> QED
    BY <2>1, <2>2, <1>7, Zenon DEF Position
<1>19. SortedAgrees' /\ (it.par \cup it.mem \subseteq Domain(it.dom))'
  BY <1>1, <1>4, <1>7 DEF WalkInv, SortedAgrees, Coded, Domain, InDomain
<1> QED
  BY <1>4, <1>7, <1>11, <1>16, <1>17, <1>18, <1>19 DEF WalkInv

\* Next finds the key it stands at, even if that was deleted meanwhile, and
\* leaves it.
LEMMA AdvanceKeepsWalk == ASSUME WalkInv, Advance PROVE WalkInv'
<1> DEFINE i == Skip(it)
           c == it.pos
<1>1. it \in Iterators /\ it.st = "visited"
  BY DEF Advance, WalkInv, CacheTypeOK
<1>2. /\ c \in it.par \cup it.mem /\ it.par \cup it.mem \subseteq Keys
      /\ \A l \in (it.par \cup it.mem) \ {c} : Before(it, c, l)
      /\ c \in it.mem => it.last = c
  BY <1>1 DEF WalkInv, Position, Iterators
<1>3. c \in Keys /\ c \notin Gone(it)
  BY <1>2, GoneIs DEF WalkInv
<1>4. c \in Rest(it) /\ Rest(it) \in SUBSET Keys /\ \A l \in Rest(it) \ {c} : Before(it, c, l)
  BY <1>2, <1>3 DEF Rest
<1>5. First(it, Rest(it)) = c
  BY <1>4, FirstUnique
<1>6. IsSkipped(it, i, c) /\ First(i, i.par \cup i.mem) = c
  BY <1>1, <1>4, <1>5, SkipStops
<1>7. Skipped(it, c) = {}
  BY <1>2, <1>3, BeforeOrder, Zenon DEF Skipped, Gone
<1>8. /\ i \in Iterators /\ i.st = "visited" /\ i.dom = it.dom /\ i.ascending = it.ascending /\ i.vals = it.vals
      /\ i.pos = c /\ i.par = it.par /\ i.mem = it.mem /\ i.last = it.last
  <2>1. i.par = it.par \ {} /\ i.mem = it.mem \ {} /\ i.last = it.last
    BY <1>1, <1>2, <1>6, <1>7, Zenon DEF IsSkipped
  <2>2. i.par = it.par /\ i.mem = it.mem
    BY <2>1
  <2> QED
    BY <1>1, <1>6, <2>1, <2>2, Zenon DEF IsSkipped
<1>9. /\ it' = [i EXCEPT !.st = "at", !.par = @ \ {c}, !.mem = @ \ {c}]
      /\ seen' = seen /\ snap' = snap /\ held' = held /\ touched' = touched /\ writes' = writes
      /\ parent' = parent /\ cache' = cache /\ deleted' = deleted /\ unsorted' = unsorted /\ sorted' = sorted
  <2>1. i.st # "end"
    BY <1>8
  <2> QED
    BY <1>6, <2>1, Zenon DEF Advance, store
<1> HIDE DEF i, c
<1>10. /\ it' \in Iterators
       /\ it'.st = "at" /\ it'.pos = c /\ it'.dom = it.dom /\ it'.ascending = it.ascending /\ it'.vals = it.vals
       /\ it'.par = it.par \ {c} /\ it'.mem = it.mem \ {c} /\ it'.last = it.last
  <2> DEFINE P == i.par \ {c}
             M == i.mem \ {c}
  <2>1. it' = [i EXCEPT !.st = "at", !.par = P, !.mem = M]
    BY <1>9, Zenon
  <2>2. P \in SUBSET Keys /\ M \in SUBSET Keys
    BY <1>2, <1>8
  <2>3. P = it.par \ {c} /\ M = it.mem \ {c}
    BY <1>8
  <2> HIDE DEF P, M
  <2> QED
    BY <1>8, <2>1, <2>2, <2>3, Zenon DEF Iterators
<1>11. CacheTypeOK'
  BY <1>9, <1>10 DEF WalkInv, CacheTypeOK
<1>12. \A k, l \in Keys : Before(it', k, l) <=> Before(it, k, l)
  BY <1>10 DEF Before
<1>13. \A k \in Keys : (Passed(k)' <=> Passed(k)) /\ (~Passed(k) => k # c)
  BY <1>1, <1>3, <1>10, <1>12, BeforeOrder, CacheAssumption, Zenon DEF Passed, c
<1>14. Untouched' = Untouched /\ Untouched \subseteq Keys
  BY <1>9, <1>10 DEF Untouched, Domain, InDomain
<1>15. ASSUME NEW k \in Untouched PROVE IF Passed(k)' THEN IsExact(k)' ELSE Unvisited(k)'
  <2>1. k \in Keys /\ (IF Passed(k) THEN IsExact(k) ELSE Unvisited(k))
    BY <1>1, <1>14 DEF WalkInv
  <2>2. CASE Passed(k)
    BY <2>1, <2>2, <1>9, <1>13 DEF IsExact
  <2>3. CASE ~Passed(k)
    <3>1. k # c /\ ~Passed(k)' /\ Unvisited(k)
      BY <2>1, <2>3, <1>13, Zenon
    <3> QED
      BY <2>1, <3>1, <1>9, <1>10 DEF Unvisited, Get
  <2> QED
    BY <2>2, <2>3
<1>16. Position'
  BY <1>2, <1>3, <1>10, <1>12 DEF Position
<1>17. SortedAgrees' /\ (it.par \cup it.mem \subseteq Domain(it.dom))'
  BY <1>1, <1>9, <1>10 DEF WalkInv, SortedAgrees, Coded, Domain, InDomain
<1> QED
  BY <1>9, <1>10, <1>11, <1>14, <1>15, <1>16, <1>17 DEF WalkInv

\* The invariant holds at the start.
LEMMA WalkInvInit == CacheInit => WalkInv
<1> SUFFICES ASSUME CacheInit PROVE WalkInv
  BY Zenon
<1>1. NoIterator \in Iterators /\ NoIterator.st = "none"
  BY DEF NoIterator, Iterators, DomainType, Nothing
<1>2. Nil # Absent
  BY CacheAssumption
<1>3. CacheTypeOK
  BY <1>1, CacheAssumption DEF CacheInit, CacheTypeOK, Nothing
<1>4. SortedAgrees /\ deleted = {k \in Keys : cache[k] = Nil}
  BY <1>2 DEF CacheInit, SortedAgrees, Coded, Nothing
<1> QED
  BY <1>1, <1>3, <1>4 DEF CacheInit, WalkInv

\* Every step keeps the invariant.
LEMMA WalkInvStep == WalkInv /\ [CacheNext]_cacheVars => WalkInv'
<1> SUFFICES ASSUME WalkInv, [CacheNext]_cacheVars PROVE WalkInv'
  OBVIOUS
<1>1. ASSUME NEW k \in Keys, NEW v \in Vals, Set(k, v) PROVE WalkInv'
  BY <1>1, WriteStepInv DEF Set
<1>2. ASSUME NEW k \in Keys, Delete(k) PROVE WalkInv'
  BY <1>2, WriteStepInv DEF Delete
<1>3. ASSUME NEW d \in Ranges, DeleteAll(d) PROVE WalkInv'
  <2>1. KeysInRange(d) \in SUBSET Keys
    BY DEF KeysInRange, Domain
  <2> QED
    BY <1>3, <2>1, WriteStepInv DEF DeleteAll
<1>4. CASE Write
  BY <1>4, WriteKeepsWalk
<1>5. ASSUME NEW d \in Domains, NEW asc \in BOOLEAN, Open(d, asc) PROVE WalkInv'
  BY <1>5, OpenKeepsWalk
<1>6. CASE Visit
  BY <1>6, VisitEnds, VisitStops, ZenonT(60)
<1>7. CASE Advance
  BY <1>7, AdvanceKeepsWalk
<1>8. CASE Close
  BY <1>8, CloseKeepsWalk
<1>9. CASE UNCHANGED cacheVars
  BY <1>9 DEF cacheVars, store, walk, WalkInv, CacheTypeOK, SortedAgrees, Coded, Untouched, Domain, InDomain, Passed,
              Before, IsExact, Unvisited, Get, Position
<1> QED
  BY <1>1, <1>2, <1>3, <1>4, <1>5, <1>6, <1>7, <1>8, <1>9 DEF CacheNext

\* An iterator of the cache store returns every key of its domain with the value
\* that it had when the iterator was opened, and nothing for a key that had
\* none, except for the keys that were written before it came to them; writing
\* to the key it stands at disturbs nothing, and Next never panics.  For any
\* finite set of keys, any values, domains and number of writes.
THEOREM WalksStayExact == CacheSpec => []WalksAreExact
<1>1. WalkInv => WalksAreExact
  BY DEF WalkInv, WalksAreExact, WalkIsExact, Untouched, IsExact
<1> QED
  BY <1>1, WalkInvInit, WalkInvStep, PTL DEF CacheSpec

=============================================================================
