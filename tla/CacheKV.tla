------------------------------ MODULE CacheKV ------------------------------
(***************************************************************************)
(* The branched key-value store of store/cachekv: writes go to a cache,    *)
(* Write passes them to the parent, and an iterator merges the parent's    *)
(* keys with the cached ones.                                              *)
(*                                                                         *)
(* The cache is kept twice.  `cache`, `deleted` and `unsorted` take every  *)
(* write; opening an iterator moves the dirty keys of its domain into      *)
(* `sorted`, an ordered map, and the iterator walks that.  Keys are        *)
(* numbers, in the order of the store.  An iterator of the ordered map     *)
(* (tm-db's MemDB) or of the parent walks what was there when it was       *)
(* opened.  The store is written to while an iterator is open, which the   *)
(* KVStore interface allows for this store.                                *)
(***************************************************************************)
EXTENDS Naturals, FiniteSets

CONSTANTS
    Keys,
    Vals,       \* values that can be set
    Nil,        \* the value of a key that is not there
    Empty,      \* the empty byte slice, one of Vals
    Absent,     \* not cached
    Parents,    \* the parents considered
    Domains,    \* the domains of iterators
    Ranges,     \* the domains of DeleteAll
    MaxWrites   \* bound on the writes that are explored

\* A domain [start, end); an end of 0 stands for nil.
DomainType == [start : Nat, end : Nat]
NoKey == 0

ASSUME CacheAssumption ==
    /\ Keys \subseteq Nat \ {NoKey} /\ IsFiniteSet(Keys)
    /\ Empty \in Vals
    /\ Nil \notin Vals
    /\ Absent \notin Vals \cup {Nil}
    /\ Parents \subseteq [Keys -> Vals \cup {Nil}]
    /\ Domains \subseteq DomainType
    /\ Ranges \subseteq DomainType
    /\ MaxWrites \in Nat

VARIABLES
    parent,
    cache,      \* Store.cache: a value, Nil for a deleted key, or Absent
    deleted,    \* Store.deleted
    unsorted,   \* Store.unsortedCache
    sorted,     \* Store.sortedCache
    writes,     \* writes so far
    it,         \* the iterator, if one is open
    seen,       \* what the iterator has returned for each key
    snap,       \* what the store held when the iterator was opened
    held,       \* the values a key has had since then
    touched     \* keys written since then that the iterator had not passed

store == <<parent, cache, deleted, unsorted, sorted>>
walk == <<it, seen, snap, held, touched>>
cacheVars == <<store, writes, walk>>

InDomain(k, d) == k >= d.start /\ (d.end # 0 => k < d.end)
Domain(d) == {k \in Keys : InDomain(k, d)}

\* getFromCache.
Get(k) == IF cache[k] # Absent THEN cache[k] ELSE parent[k]

Nothing == [k \in Keys |-> Absent]

\* An iterator: the keys its two halves have ahead, the values of the cached
\* half, memIterator.lastKey, and the key that was visited last.
Iterators ==
    [st : {"none", "at", "visited", "end", "panic"}, dom : DomainType, ascending : BOOLEAN,
     par : SUBSET Keys, mem : SUBSET Keys, vals : [Keys -> Vals \cup {Absent}],
     last : Keys \cup {NoKey}, pos : Keys \cup {NoKey}]
NoIterator ==
    [st |-> "none", dom |-> [start |-> 0, end |-> 0], ascending |-> TRUE,
     par |-> {}, mem |-> {}, vals |-> Nothing, last |-> NoKey, pos |-> NoKey]

CacheInit ==
    /\ parent \in Parents
    /\ cache = Nothing
    /\ deleted = {}
    /\ unsorted = {}
    /\ sorted = Nothing
    /\ writes = 0
    /\ it = NoIterator
    /\ seen = Nothing
    /\ snap = [k \in Keys |-> Nil]
    /\ held = [k \in Keys |-> {}]
    /\ touched = {}

-----------------------------------------------------------------------------
(* Writes.                                                                 *)

Before(i, k, l) == IF i.ascending THEN k < l ELSE k > l
First(i, S) == CHOOSE k \in S : \A l \in S \ {k} : Before(i, k, l)

\* Keys the iterator has visited or gone past.
Passed(k) == it.st = "end" \/ (it.pos # NoKey /\ ~Before(it, it.pos, k))

\* Faulty variant: a key that is set again stays marked as deleted.
SetCacheValuesKeepDeleted(D, v) ==
    /\ writes < MaxWrites
    /\ writes' = writes + 1
    /\ cache' = [k \in Keys |-> IF k \in D THEN v ELSE cache[k]]
    /\ deleted' = IF v = Nil THEN deleted \cup D ELSE deleted
    /\ unsorted' = unsorted \cup D
    /\ IF it.st = "none"
       THEN UNCHANGED <<held, touched>>
       ELSE /\ held' = [k \in Keys |-> IF k \in D THEN held[k] \cup {v} ELSE held[k]]
            /\ touched' = touched \cup {k \in D : ~Passed(k)}
    /\ UNCHANGED <<parent, sorted, it, seen, snap>>

\* setCacheValue for each key of D, with the iterator's history kept.
SetCacheValues(D, v) ==
    /\ writes < MaxWrites
    /\ writes' = writes + 1
    /\ cache' = [k \in Keys |-> IF k \in D THEN v ELSE cache[k]]
    /\ deleted' = IF v = Nil THEN deleted \cup D ELSE deleted \ D
    /\ unsorted' = unsorted \cup D
    /\ IF it.st = "none"
       THEN UNCHANGED <<held, touched>>
       ELSE /\ held' = [k \in Keys |-> IF k \in D THEN held[k] \cup {v} ELSE held[k]]
            /\ touched' = touched \cup {k \in D : ~Passed(k)}
    /\ UNCHANGED <<parent, sorted, it, seen, snap>>

Set(k, v) == SetCacheValues({k}, v)

Delete(k) == SetCacheValues({k}, Nil)

\* GetAllKeyStrsInRange: the parent's keys, with the cached ones of the range
\* added or taken away; every key compares as beyond a nil end.
KeysInRange(d) ==
    LET cached == {k \in Keys : cache[k] # Absent /\ k >= d.start /\ k < d.end}
    IN ({k \in Domain(d) : parent[k] # Nil} \ {k \in cached : cache[k] = Nil})
         \cup {k \in cached : cache[k] # Nil}

DeleteAll(d) == SetCacheValues(KeysInRange(d), Nil)

\* Write: deletes and sets of the dirty keys, then the cache starts afresh.
Write ==
    /\ it.st = "none"
    /\ cache # Nothing
    /\ parent' = [k \in Keys |-> IF cache[k] = Absent THEN parent[k]
                                 ELSE IF k \in deleted THEN Nil
                                 ELSE IF cache[k] # Nil THEN cache[k] ELSE parent[k]]
    /\ cache' = Nothing
    /\ deleted' = {}
    /\ unsorted' = {}
    /\ sorted' = Nothing
    /\ UNCHANGED <<writes, walk>>

-----------------------------------------------------------------------------
(* Iterators.                                                              *)

\* dirtyItems: the unsorted keys of the domain go into the sorted cache, a
\* deleted one with the empty value.
Sorted(d) ==
    [k \in Keys |-> IF k \notin unsorted \cap Domain(d) THEN sorted[k]
                    ELSE IF cache[k] = Nil THEN Empty ELSE cache[k]]

Open(d, asc) ==
    /\ it.st = "none"
    /\ sorted' = Sorted(d)
    /\ unsorted' = unsorted \ Domain(d)
    /\ it' = [st |-> "at", dom |-> d, ascending |-> asc,
              par |-> {k \in Domain(d) : parent[k] # Nil},
              mem |-> {k \in Domain(d) : Sorted(d)[k] # Absent},
              vals |-> Sorted(d), last |-> NoKey, pos |-> NoKey]
    /\ seen' = Nothing
    /\ snap' = [k \in Keys |-> Get(k)]
    /\ held' = [k \in Keys |-> {Get(k)}]
    /\ touched' = {}
    /\ UNCHANGED <<parent, cache, deleted, writes>>

\* Faulty variant: without lastKey.
MemValueNow(i, k) == IF k \in deleted THEN Nil ELSE i.vals[k]

\* memIterator.Value is nil for a key deleted meanwhile, unless it is the key
\* it returned last.
MemValue(i, k) == IF k \in deleted /\ k # i.last THEN Nil ELSE i.vals[k]

\* skipUntilExistsOrInvalid: cached deletes are passed over, in both halves.
\* skipCacheDeletes asks for the value of the cached key it stops at even if
\* that lies behind the parent's, and lastKey becomes that key.
Skip(i) ==
    LET gone == {k \in i.mem : MemValue(i, k) = Nil}
        rest == (i.par \cup i.mem) \ gone
        cur == First(i, rest)
        skipped == {k \in gone : Before(i, k, cur)}
        behind == {k \in i.mem : Before(i, cur, k)}
        peeks == skipped # {} /\ behind # {} /\ First(i, behind) \notin gone
                   /\ \E k \in skipped \ i.par : \A l \in skipped : ~Before(i, k, l)
    IN IF rest = {}
       THEN [i EXCEPT !.par = {}, !.mem = {}, !.st = "end"]
       ELSE [i EXCEPT !.par = @ \ skipped, !.mem = @ \ skipped,
                      !.last = IF cur \in i.mem THEN cur
                               ELSE IF peeks THEN First(i, behind) ELSE @]

\* Valid, Key and Value at the present position.
Visit ==
    /\ it.st = "at"
    /\ LET i == Skip(it)
           cur == First(i, i.par \cup i.mem)
       IN IF i.st = "end"
          THEN it' = i /\ UNCHANGED seen
          ELSE /\ it' = [i EXCEPT !.st = "visited", !.pos = cur]
               /\ seen' = [seen EXCEPT ![cur] = IF cur \in i.mem THEN MemValue(i, cur) ELSE parent[cur]]
    /\ UNCHANGED <<store, writes, snap, held, touched>>

\* Next, which looks for the position again and panics if there is none.
Advance ==
    /\ it.st = "visited"
    /\ LET i == Skip(it)
           cur == First(i, i.par \cup i.mem)
       IN it' = IF i.st = "end" THEN [i EXCEPT !.st = "panic"]
                ELSE [i EXCEPT !.st = "at", !.par = @ \ {cur}, !.mem = @ \ {cur}]
    /\ UNCHANGED <<store, writes, seen, snap, held, touched>>

Close ==
    /\ it.st # "none"
    /\ it' = NoIterator
    /\ seen' = Nothing
    /\ snap' = [k \in Keys |-> Nil]
    /\ held' = [k \in Keys |-> {}]
    /\ touched' = {}
    /\ UNCHANGED <<store, writes>>

CacheNext ==
    \/ \E k \in Keys, v \in Vals : Set(k, v)
    \/ \E k \in Keys : Delete(k)
    \/ \E d \in Ranges : DeleteAll(d)
    \/ Write
    \/ \E d \in Domains, asc \in BOOLEAN : Open(d, asc)
    \/ Visit \/ Advance \/ Close

CacheSpec == CacheInit /\ [][CacheNext]_cacheVars

-----------------------------------------------------------------------------
CacheTypeOK ==
    /\ parent \in [Keys -> Vals \cup {Nil}]
    /\ cache \in [Keys -> Vals \cup {Nil, Absent}]
    /\ deleted \subseteq Keys
    /\ unsorted \subseteq Keys
    /\ sorted \in [Keys -> Vals \cup {Absent}]
    /\ writes \in 0 .. MaxWrites
    /\ it \in Iterators
    /\ seen \in [Keys -> Vals \cup {Nil, Absent}]
    /\ snap \in [Keys -> Vals \cup {Nil}]
    /\ held \in [Keys -> SUBSET (Vals \cup {Nil})]
    /\ touched \subseteq Keys

\* A walk returns what the store held when the iterator was opened: for every
\* key of the domain that was not written before the walk came to it, the walk
\* has returned its value once it is past it, or nothing if there was none.
\* Deleting or setting the key the iterator stands at makes it neither return
\* that key again, nor leave out the next one, nor panic.
WalkIsExact ==
    /\ it.st # "panic"
    /\ it.st # "none" =>
         \A k \in Domain(it.dom) \ touched :
             Passed(k) => seen[k] = IF snap[k] = Nil THEN Absent ELSE snap[k]

\* The invariants of the cache as they are checked: a walk returns exactly what
\* was there when it began, without what was deleted ahead of it.
WalksAreExact == CacheTypeOK /\ WalkIsExact

\* A value that an iterator returns for a key is one that the key has had since
\* the iterator was opened, whatever is written meanwhile.
IteratedWasHeld == \A k \in Keys : seen[k] # Absent => seen[k] \in held[k]

\* The store implements a plain map over its parent: what Get returns, what
\* DeleteAll removes and what Write makes of the parent are those of the map.
Map == INSTANCE KVStore WITH
    Ranges <- {Domain(d) : d \in Ranges}, view <- [k \in Keys |-> Get(k)], base <- parent
ImplementsMap == Map!Spec

=============================================================================
