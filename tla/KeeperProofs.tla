---------------------------- MODULE KeeperProofs ----------------------------
(***************************************************************************)
(* Proofs about the keepers of x/capability and x/gov, which share no      *)
(* state, for any modules, names, proposals and depositors.                *)
(*                                                                         *)
(* x/capability: a module authenticates exactly the capabilities that it   *)
(* owns.  The inductive invariant (CapInv) says which stores agree with    *)
(* the Go map at which time.  The map is shared by all branches, so a step *)
(* of a delivered transaction has to leave the stores of the block in      *)
(* agreement with it as well, as the transaction may still fail.           *)
(*                                                                         *)
(* x/gov: the account holds the deposits, and the queues follow the        *)
(* proposals.  With its type the conjunction of the two is inductive       *)
(* (GovInv), but only for whole operations: while a proposal is closed its *)
(* deposits are gone and its status is not yet written.  So each operation *)
(* is shown to move coins and entries of one proposal only (Only) and to   *)
(* end in a store that is Sound.  EndBlocker works off a queue in the      *)
(* order of its entries; that each proposal has one entry there            *)
(* (DueEntries) is what keeps the later entries valid while the earlier    *)
(* are handled.                                                            *)
(***************************************************************************)
EXTENDS Capability, Gov, FoldProofs

-----------------------------------------------------------------------------
(* x/capability: the map and the stores.                                   *)

\* The map of a process that has just started.
NoMap == [i \in Indices |-> NoPointer]

\* What a step of a scoped keeper changes of the stores s to give t: the owners
\* of index i, the forward entry k and the reverse entry o.
IsUpdate(s, t, i, os, k, n, o, j) ==
    /\ t \in Stores
    /\ t.owners = [s.owners EXCEPT ![i] = os]
    /\ t.mem.initialized = s.mem.initialized
    /\ t.mem.fwd = [s.mem.fwd EXCEPT ![k] = n]
    /\ t.mem.rev = [s.mem.rev EXCEPT ![o] = j]

\* t is s with these parts set.
IsEdit(s, t, i, os, k, n, o, j) ==
    t = [s EXCEPT !.owners[i] = os, !.mem.fwd[k] = n, !.mem.rev[o] = j]

\* A record edited by a claim or by a release is well typed, and has these
\* parts.
LEMMA UpdateIs ==
    ASSUME NEW s \in Stores, NEW i \in Indices, NEW os \in SUBSET Owners, NEW k \in Modules \X Pointers,
           NEW n \in Names \cup {0}, NEW o \in Owners, NEW j \in Indices \cup {0},
           NEW t, IsEdit(s, t, i, os, k, n, o, j)
    PROVE  IsUpdate(s, t, i, os, k, n, o, j) /\ t.index = s.index
BY Zenon DEF IsEdit, IsUpdate, Stores

\* t is s with a capability of owner o at the next index.
IsCreation(s, t, k, n, o) ==
    t = [s EXCEPT !.index = @ + 1, !.owners[s.index] = @ \cup {o}, !.mem.fwd[k] = n, !.mem.rev[o] = s.index]

\* The keys of the forward map.
FwdKeys == Modules \X Pointers

\* So is one edited by a creation.
LEMMA CreationIs ==
    ASSUME NEW s \in Stores, s.index \in Indices, NEW k \in FwdKeys,
           NEW n \in Names \cup {0}, NEW o \in Owners, NEW t, IsCreation(s, t, k, n, o)
    PROVE  IsUpdate(s, t, s.index, s.owners[s.index] \cup {o}, k, n, o, s.index) /\ t.index = s.index + 1
<1> DEFINE os == s.owners[s.index] \cup {o}
           x == s.index + 1
<1>1. os \in SUBSET Owners
  BY Zenon DEF Stores
<1>2. x \in Nat
  BY DEF Stores
<1>3. t = [s EXCEPT !.index = x, !.owners[s.index] = os, !.mem.fwd[k] = n, !.mem.rev[o] = s.index]
  BY Zenon DEF IsCreation
<1> HIDE DEF os, x
<1>4. IsUpdate(s, t, s.index, os, k, n, o, s.index) /\ t.index = x
  BY <1>1, <1>2, <1>3, s.index \in Indices \cup {0}, Zenon DEF IsUpdate, Stores, FwdKeys
<1> QED
  BY <1>4, Zenon DEF os, x

\* The Go map, as a function on the indices.
Maps == [Indices -> Pointers \cup {NoPointer}]

\* No two indices have one pointer.
Injective(map) == \A i, j \in Indices : map[i] = map[j] /\ map[i] # NoPointer => i = j

\* The persistent part: an index in use is below the next one, an owner is the
\* owner of one capability, and has one name for it.
Consistent(s) ==
    /\ s \in Stores
    /\ \A i \in Indices : s.owners[i] # {} => i < s.index
    /\ \A i, j \in Indices : \A o \in s.owners[i] : o \in s.owners[j] => i = j
    /\ \A i \in Indices : \A o, q \in s.owners[i] : o[1] = q[1] => o = q

\* The memory store is that of the owners, at the pointers of map.
RevIsOwned(s, map) ==
    \A o \in Owners : s.mem.rev[o] # 0 => o \in s.owners[s.mem.rev[o]] /\ map[s.mem.rev[o]] \in Pointers
OwnedIsRev(s) ==
    s.mem.initialized => \A i \in Indices : \A o \in s.owners[i] : s.mem.rev[o] = i
OwnedIsFwd(s, map) ==
    s.mem.initialized =>
        \A i \in Indices : \A o \in s.owners[i] : map[i] \in Pointers /\ s.mem.fwd[<<o[1], map[i]>>] = o[2]
FwdIsOwned(s, map) ==
    \A m \in Modules, p \in Pointers : s.mem.fwd[<<m, p>>] # 0 =>
        \E i \in Indices : map[i] = p /\ <<m, s.mem.fwd[<<m, p>>]>> \in s.owners[i]

Agrees(s, map) == RevIsOwned(s, map) /\ OwnedIsRev(s) /\ OwnedIsFwd(s, map) /\ FwdIsOwned(s, map)

\* Indices are positive.
LEMMA IndexFacts == Indices \subseteq Nat /\ 0 \notin Indices
BY CapabilityAssumption DEF Indices

\* A release by m of index i, which it holds as held: rest are the other owners.
IsRelease(s, map, m, held, i, p, n, rest, map2) ==
    /\ i = s.mem.rev[<<m, held>>] /\ i # 0
    /\ p = map[i]
    /\ n = s.mem.fwd[<<m, p>>]
    /\ rest = s.owners[i] \ {<<m, n>>}
    /\ map2 = IF rest = {} THEN [map EXCEPT ![i] = NoPointer] ELSE map

\* After a release the stores still agree with the map, which loses the pointer
\* if nobody owns the capability any more.
LEMMA ReleaseKeeps ==
    ASSUME NEW s, NEW map \in Maps, Consistent(s), Agrees(s, map), Injective(map), s.mem.initialized,
           NEW m \in Modules, NEW held \in Names, NEW i, NEW p, NEW n, NEW rest, NEW map2,
           IsRelease(s, map, m, held, i, p, n, rest, map2),
           NEW t, IsUpdate(s, t, i, rest, <<m, p>>, 0, <<m, n>>, 0), t.index = s.index
    PROVE  Consistent(t) /\ Agrees(t, map2) /\ Injective(map2) /\ map2 \in Maps
<1>1. <<m, held>> \in Owners /\ <<m, held>> \in s.owners[i] /\ i \in Indices /\ p \in Pointers
  BY IndexFacts, Zenon DEF IsRelease, Agrees, RevIsOwned, Consistent, Stores, Owners
<1>0. map[i] = p
  BY Zenon DEF IsRelease
<1>2. n = held
  BY <1>1, Zenon DEF IsRelease, Agrees, OwnedIsFwd
<1>3. /\ \A j \in Indices : j # i => t.owners[j] = s.owners[j]
      /\ t.owners[i] = rest /\ rest = s.owners[i] \ {<<m, n>>}
      /\ \A j \in Indices : t.owners[j] \subseteq s.owners[j]
  <2>1. rest = s.owners[i] \ {<<m, n>>}
    BY Zenon DEF IsRelease
  <2>2. t.owners = [s.owners EXCEPT ![i] = rest] /\ s.owners \in [Indices -> SUBSET Owners]
    BY Zenon DEF IsUpdate, Consistent, Stores
  <2> QED
    BY <1>1, <2>1, <2>2
<1>4. \A o \in Owners : t.mem.rev[o] = IF o = <<m, n>> THEN 0 ELSE s.mem.rev[o]
  BY DEF IsUpdate, Consistent, Stores
<1>5. \A m1 \in Modules, p1 \in Pointers :
          t.mem.fwd[<<m1, p1>>] = IF m1 = m /\ p1 = p THEN 0 ELSE s.mem.fwd[<<m1, p1>>]
  BY <1>1, SMTT(30) DEF IsUpdate, Consistent, Stores
<1>6. \A j \in Indices : map2[j] = IF rest = {} /\ j = i THEN NoPointer ELSE map[j]
  BY <1>1, Zenon DEF IsRelease, Maps
<1>7. Consistent(t)
  BY <1>3 DEF Consistent, IsUpdate
<1>8. Injective(map2) /\ map2 \in Maps
  <2>1. map2 \in Maps
    BY <1>1, Zenon DEF IsRelease, Maps
  <2> QED
    BY <2>1, <1>6 DEF Injective
<1>9. RevIsOwned(t, map2)
  <2> SUFFICES ASSUME NEW o \in Owners, t.mem.rev[o] # 0
               PROVE  o \in t.owners[t.mem.rev[o]] /\ map2[t.mem.rev[o]] \in Pointers
    BY DEF RevIsOwned
  <2>1. o # <<m, n>> /\ t.mem.rev[o] = s.mem.rev[o]
    BY <1>4
  <2>2. o \in s.owners[s.mem.rev[o]] /\ map[s.mem.rev[o]] \in Pointers /\ s.mem.rev[o] \in Indices
    BY <2>1 DEF Agrees, RevIsOwned, Consistent, Stores
  <2> QED
    BY <2>1, <2>2, <1>3, <1>6
<1>10. OwnedIsRev(t)
  <2> SUFFICES ASSUME NEW j \in Indices, NEW o \in t.owners[j]
               PROVE  t.mem.rev[o] = j
    BY DEF OwnedIsRev
  <2>1. o \in s.owners[j] /\ o \in Owners
    BY <1>3 DEF Consistent, Stores
  <2>2. s.mem.rev[o] = j /\ s.mem.rev[<<m, n>>] = i
    BY <2>1, <1>1, <1>2, Zenon DEF Agrees, OwnedIsRev
  <2>3. o # <<m, n>>
    BY <2>2, <1>3
  <2> QED
    BY <2>1, <2>2, <2>3, <1>4
<1>11. OwnedIsFwd(t, map2)
  <2> SUFFICES ASSUME NEW j \in Indices, NEW o \in t.owners[j]
               PROVE  map2[j] \in Pointers /\ t.mem.fwd[<<o[1], map2[j]>>] = o[2]
    BY DEF OwnedIsFwd
  <2>1. o \in s.owners[j] /\ o \in Owners /\ o[1] \in Modules
    BY <1>3 DEF Consistent, Stores, Owners
  <2>2. map[j] \in Pointers /\ s.mem.fwd[<<o[1], map[j]>>] = o[2]
    BY <2>1 DEF Agrees, OwnedIsFwd
  <2>3. map2[j] = map[j]
    BY <1>3, <1>6
  <2>4. ~(o[1] = m /\ map[j] = p)
    <3> SUFFICES ASSUME o[1] = m, map[j] = p PROVE FALSE
      OBVIOUS
    <3>1. j = i
      BY <1>0, <1>1, <2>2, CapabilityAssumption DEF Injective
    <3>2. o = <<m, n>>
      BY <3>1, <1>1, <1>2, <2>1 DEF Consistent
    <3> QED
      BY <3>1, <3>2, <1>3
  <2> QED
    BY <2>1, <2>2, <2>3, <2>4, <1>5
<1>12. FwdIsOwned(t, map2)
  <2> SUFFICES ASSUME NEW m1 \in Modules, NEW p1 \in Pointers, t.mem.fwd[<<m1, p1>>] # 0
               PROVE  \E j \in Indices : map2[j] = p1 /\ <<m1, t.mem.fwd[<<m1, p1>>]>> \in t.owners[j]
    BY DEF FwdIsOwned
  <2>1. ~(m1 = m /\ p1 = p) /\ t.mem.fwd[<<m1, p1>>] = s.mem.fwd[<<m1, p1>>]
    BY <1>5
  <2>2. PICK j \in Indices : map[j] = p1 /\ <<m1, s.mem.fwd[<<m1, p1>>]>> \in s.owners[j]
    BY <2>1 DEF Agrees, FwdIsOwned
  <2>3. <<m1, s.mem.fwd[<<m1, p1>>]>> \in t.owners[j]
    <3>1. CASE j = i
      <4>1. m1 # m
        BY <3>1, <2>1, <2>2, <1>0
      <4> QED
        BY <4>1, <3>1, <2>2, <1>3
    <3>2. CASE j # i
      BY <3>2, <2>2, <1>3
    <3> QED
      BY <3>1, <3>2
  <2>4. map2[j] = p1
    BY <2>2, <2>3, <1>3, <1>6
  <2> QED
    BY <2>1, <2>3, <2>4
<1> QED
  BY <1>7, <1>8, <1>9, <1>10, <1>11, <1>12 DEF Agrees

\* An owner more at index i, in the stores t and the map map2.
LEMMA OwnerAdded ==
    ASSUME NEW s, NEW map \in Maps, Consistent(s), Agrees(s, map), s.mem.initialized,
           NEW m \in Modules, NEW n \in Names, NEW i \in Indices, NEW p \in Pointers,
           NEW map2 \in Maps, Injective(map2), map2[i] = p, \A j \in Indices : j # i => map2[j] = map[j],
           s.owners[i] # {} => map[i] = p,
           s.mem.rev[<<m, n>>] = 0, \A o \in s.owners[i] : o[1] # m,
           NEW t, IsUpdate(s, t, i, s.owners[i] \cup {<<m, n>>}, <<m, p>>, n, <<m, n>>, i),
           t.index \in Nat, i < t.index, s.index <= t.index
    PROVE  Consistent(t) /\ Agrees(t, map2)
<1>1. <<m, n>> \in Owners /\ n # 0 /\ n \in Nat
  BY CapabilityAssumption DEF Owners
<1>2. s.owners \in [Indices -> SUBSET Owners] /\ t.owners = [s.owners EXCEPT ![i] = s.owners[i] \cup {<<m, n>>}]
  BY Zenon DEF IsUpdate, Consistent, Stores
<1>3. \A j \in Indices : t.owners[j] = IF j = i THEN s.owners[i] \cup {<<m, n>>} ELSE s.owners[j]
  BY <1>2, Zenon
<1>4. \A o \in Owners : t.mem.rev[o] = IF o = <<m, n>> THEN i ELSE s.mem.rev[o]
  BY DEF IsUpdate, Consistent, Stores
<1>5. \A m1 \in Modules, p1 \in Pointers :
          t.mem.fwd[<<m1, p1>>] = IF m1 = m /\ p1 = p THEN n ELSE s.mem.fwd[<<m1, p1>>]
  BY SMTT(30) DEF IsUpdate, Consistent, Stores
<1>6. \A j \in Indices : \A o \in s.owners[j] : o \in Owners /\ o # <<m, n>> /\ s.mem.rev[o] = j
  <2> SUFFICES ASSUME NEW j \in Indices, NEW o \in s.owners[j]
               PROVE  o \in Owners /\ o # <<m, n>> /\ s.mem.rev[o] = j
    OBVIOUS
  <2>1. o \in Owners
    BY <1>2
  <2>2. s.mem.rev[o] = j
    BY Zenon DEF Agrees, OwnedIsRev
  <2> QED
    BY <2>1, <2>2, IndexFacts
<1>7. Consistent(t)
  <2>1. \A j \in Indices : t.owners[j] # {} => j < t.index
    BY <1>3, IndexFacts DEF Consistent, Stores
  <2>2. \A j, k \in Indices : \A o \in t.owners[j] : o \in t.owners[k] => j = k
    BY <1>3, <1>6
  <2>3. \A j \in Indices : \A o, q \in t.owners[j] : o[1] = q[1] => o = q
    BY <1>3 DEF Consistent
  <2> QED
    BY <2>1, <2>2, <2>3 DEF Consistent, IsUpdate
<1>8. RevIsOwned(t, map2)
  <2> SUFFICES ASSUME NEW o \in Owners, t.mem.rev[o] # 0
               PROVE  o \in t.owners[t.mem.rev[o]] /\ map2[t.mem.rev[o]] \in Pointers
    BY DEF RevIsOwned
  <2>1. CASE o = <<m, n>>
    BY <2>1, <1>3, <1>4
  <2>2. CASE o # <<m, n>>
    <3>1. t.mem.rev[o] = s.mem.rev[o]
      BY <2>2, <1>4
    <3>2. o \in s.owners[s.mem.rev[o]] /\ map[s.mem.rev[o]] \in Pointers /\ s.mem.rev[o] \in Indices
      BY <3>1 DEF Agrees, RevIsOwned, Consistent, Stores
    <3> QED
      BY <3>1, <3>2, <1>3
  <2> QED
    BY <2>1, <2>2
<1>9. OwnedIsRev(t)
  BY <1>1, <1>3, <1>4, <1>6 DEF OwnedIsRev
<1>10. OwnedIsFwd(t, map2)
  <2> SUFFICES ASSUME NEW j \in Indices, NEW o \in t.owners[j]
               PROVE  map2[j] \in Pointers /\ t.mem.fwd[<<o[1], map2[j]>>] = o[2]
    BY DEF OwnedIsFwd
  <2>1. CASE o = <<m, n>>
    <3>1. j = i
      BY <2>1, <1>3, <1>6
    <3> QED
      BY <3>1, <2>1, <1>5
  <2>2. CASE o # <<m, n>>
    <3>1. o \in s.owners[j] /\ o[1] \in Modules
      BY <2>2, <1>3, <1>2 DEF Owners
    <3>2. map[j] \in Pointers /\ s.mem.fwd[<<o[1], map[j]>>] = o[2]
      BY <3>1, Zenon DEF Agrees, OwnedIsFwd
    <3>3. map2[j] = map[j]
      BY <3>1
    <3>4. ~(o[1] = m /\ map[j] = p)
      BY <3>1, <3>3, CapabilityAssumption DEF Injective
    <3> QED
      BY <3>1, <3>2, <3>3, <3>4, <1>5
  <2> QED
    BY <2>1, <2>2
<1>11. FwdIsOwned(t, map2)
  <2> SUFFICES ASSUME NEW m1 \in Modules, NEW p1 \in Pointers, t.mem.fwd[<<m1, p1>>] # 0
               PROVE  \E j \in Indices : map2[j] = p1 /\ <<m1, t.mem.fwd[<<m1, p1>>]>> \in t.owners[j]
    BY DEF FwdIsOwned
  <2>1. CASE m1 = m /\ p1 = p
    BY <2>1, <1>3, <1>5
  <2>2. CASE ~(m1 = m /\ p1 = p)
    <3>1. t.mem.fwd[<<m1, p1>>] = s.mem.fwd[<<m1, p1>>]
      BY <2>2, <1>5
    <3>2. PICK j \in Indices : map[j] = p1 /\ <<m1, s.mem.fwd[<<m1, p1>>]>> \in s.owners[j]
      BY <3>1 DEF Agrees, FwdIsOwned
    <3>3. map2[j] = p1
      BY <3>2
    <3> QED
      BY <3>1, <3>2, <3>3, <1>3
  <2> QED
    BY <2>1, <2>2
<1> QED
  BY <1>7, <1>8, <1>9, <1>10, <1>11 DEF Agrees

\* What a creation does to the map is not seen by stores that do not have its
\* index.
LEMMA OthersKept ==
    ASSUME NEW s, NEW map \in Maps, Consistent(s), Agrees(s, map), NEW i \in Indices, s.index <= i,
           NEW map2 \in Maps, \A j \in Indices : j # i => map2[j] = map[j]
    PROVE  Agrees(s, map2)
<1>1. \A j \in Indices : s.owners[j] # {} => map2[j] = map[j]
  BY IndexFacts DEF Consistent, Stores
<1>2. RevIsOwned(s, map2)
  BY <1>1 DEF Agrees, RevIsOwned, Consistent, Stores
<1>3. OwnedIsFwd(s, map2)
  BY <1>1 DEF Agrees, OwnedIsFwd
<1>4. FwdIsOwned(s, map2)
  BY <1>1 DEF Agrees, FwdIsOwned
<1> QED
  BY <1>2, <1>3, <1>4 DEF Agrees

\* MemOf finds the only entry of a set that has at most one.
LEMMA MaxOrZeroOfOne ==
    ASSUME NEW S, S \subseteq Nat, \A x, y \in S : x = y
    PROVE  /\ S = {} => MaxOrZero(S) = 0
           /\ \A x \in S : MaxOrZero(S) = x
           /\ MaxOrZero(S) # 0 => MaxOrZero(S) \in S
<1>1. S = {} => MaxOrZero(S) = 0
  BY DEF MaxOrZero
<1>2. ASSUME NEW x \in S PROVE MaxOrZero(S) = x
  <2>1. MaxOrZero(S) = Max(S)
    BY DEF MaxOrZero
  <2>2. \A y \in S : x >= y
    OBVIOUS
  <2>3. Max(S) \in S
    BY <2>2, Zenon DEF Max
  <2> QED
    BY <2>1, <2>3, Zenon
<1> QED
  BY <1>1, <1>2

\* s and map are what InitMemStore makes of the stores c.
IsRebuilt(c, ptr, s, map) ==
    /\ s = [c EXCEPT !.mem = MemOf(c, ptr)]
    /\ map = [i \in Indices |-> IF i \in Persisted(c) THEN ptr[i] ELSE NoPointer]

\* InitMemStore gives the memory store of the owners.
LEMMA MemOfIsGood ==
    ASSUME NEW c, Consistent(c), NEW ptr \in [Indices -> Pointers],
           \A i, j \in Indices : ptr[i] = ptr[j] => i = j,
           NEW s, NEW map, IsRebuilt(c, ptr, s, map)
    PROVE  Consistent(s) /\ Agrees(s, map) /\ s.mem.initialized /\ Injective(map) /\ map \in Maps
<1> DEFINE F(m, p) == {n \in Names : \E i \in Persisted(c) : ptr[i] = p /\ <<m, n>> \in c.owners[i]}
           R(o) == {i \in Persisted(c) : o \in c.owners[i]}
<1>1. /\ c.owners \in [Indices -> SUBSET Owners]
      /\ s.owners = c.owners /\ s.index = c.index
      /\ s.mem = MemOf(c, ptr)
  BY Zenon DEF IsRebuilt, Consistent, Stores
<1>2. \A m \in Modules, p \in Pointers : MemOf(c, ptr).fwd[<<m, p>>] = MaxOrZero(F(m, p))
  BY DEF MemOf
<1>3. \A o \in Owners : MemOf(c, ptr).rev[o] = MaxOrZero(R(o))
  BY Zenon DEF MemOf
<1>4. s.mem.initialized
  BY <1>1 DEF MemOf
<1>5. \A i \in Persisted(c) : i \in Indices
  BY DEF Persisted
<1>6. \A i \in Indices : \A o \in c.owners[i] : i \in Persisted(c) /\ o \in Owners
  BY <1>1 DEF Persisted
<1>7. /\ \A i \in Persisted(c) : map[i] = ptr[i] /\ map[i] \in Pointers
      /\ \A i \in Indices : i \notin Persisted(c) => map[i] = NoPointer
  BY <1>5 DEF IsRebuilt
<1>8. Injective(map) /\ map \in Maps
  <2>1. map \in Maps
    BY <1>5 DEF IsRebuilt, Maps
  <2> QED
    BY <2>1, <1>5, <1>7, CapabilityAssumption DEF Injective
<1> HIDE DEF F, R
<1>9. ASSUME NEW m \in Modules, NEW p \in Pointers
      PROVE  /\ F(m, p) \subseteq Nat
             /\ \A x, y \in F(m, p) : x = y
  <2>1. F(m, p) \subseteq Nat
    BY CapabilityAssumption, Zenon DEF F
  <2>2. ASSUME NEW x \in F(m, p), NEW y \in F(m, p) PROVE x = y
    <3>1. PICK i \in Persisted(c) : ptr[i] = p /\ <<m, x>> \in c.owners[i]
      BY DEF F
    <3>2. PICK j \in Persisted(c) : ptr[j] = p /\ <<m, y>> \in c.owners[j]
      BY DEF F
    <3>3. i = j
      BY <3>1, <3>2, <1>5
    <3>4. <<m, x>>[1] = <<m, y>>[1]
      OBVIOUS
    <3>5. <<m, x>> = <<m, y>>
      BY <3>1, <3>2, <3>3, <3>4, <1>5 DEF Consistent
    <3> QED
      BY <3>5
  <2> QED
    BY <2>1, <2>2
<1>10. ASSUME NEW o \in Owners
       PROVE  /\ R(o) \subseteq Nat
              /\ \A x, y \in R(o) : x = y
  BY <1>5, IndexFacts, Zenon DEF R, Consistent
<1>11. s \in Stores
  <2>1. MemOf(c, ptr).fwd \in [Modules \X Pointers -> Names \cup {0}]
    <3>1. ASSUME NEW k \in Modules \X Pointers PROVE MaxOrZero(F(k[1], k[2])) \in Names \cup {0}
      <4>1. k[1] \in Modules /\ k[2] \in Pointers
        OBVIOUS
      <4>2. F(k[1], k[2]) \subseteq Names
        BY DEF F
      <4> QED
        BY <1>9, <4>1, <4>2, MaxOrZeroOfOne
    <3> QED
      BY <3>1, Zenon DEF MemOf, F
  <2>2. MemOf(c, ptr).rev \in [Owners -> Indices \cup {0}]
    <3>1. ASSUME NEW o \in Owners PROVE MaxOrZero(R(o)) \in Indices \cup {0}
      <4>1. R(o) \subseteq Indices
        BY <1>5 DEF R
      <4> QED
        BY <1>10, <4>1, MaxOrZeroOfOne
    <3> QED
      BY <3>1, Zenon DEF MemOf, R
  <2>3. MemOf(c, ptr) \in [initialized : BOOLEAN, fwd : [Modules \X Pointers -> Names \cup {0}],
                           rev : [Owners -> Indices \cup {0}]]
    BY <2>1, <2>2 DEF MemOf
  <2> QED
    BY <2>3, Zenon DEF IsRebuilt, Consistent, Stores
<1>12. Consistent(s)
  BY <1>1, <1>11 DEF Consistent
<1>13. RevIsOwned(s, map)
  <2> SUFFICES ASSUME NEW o \in Owners, MaxOrZero(R(o)) # 0
               PROVE  o \in c.owners[MaxOrZero(R(o))] /\ map[MaxOrZero(R(o))] \in Pointers
    BY <1>1, <1>3, Zenon DEF RevIsOwned
  <2>1. MaxOrZero(R(o)) \in R(o)
    BY <1>10, MaxOrZeroOfOne
  <2> QED
    BY <2>1, <1>7 DEF R
<1>14. OwnedIsRev(s)
  <2> SUFFICES ASSUME NEW i \in Indices, NEW o \in c.owners[i]
               PROVE  MaxOrZero(R(o)) = i
    BY <1>1, <1>3, <1>6, Zenon DEF OwnedIsRev
  <2>1. o \in Owners /\ i \in R(o)
    BY <1>6 DEF R
  <2> QED
    BY <2>1, <1>10, MaxOrZeroOfOne
<1>15. OwnedIsFwd(s, map)
  <2> SUFFICES ASSUME NEW i \in Indices, NEW o \in c.owners[i]
               PROVE  map[i] \in Pointers /\ s.mem.fwd[<<o[1], map[i]>>] = o[2]
    BY <1>1, Zenon DEF OwnedIsFwd
  <2>1. i \in Persisted(c) /\ o \in Owners /\ map[i] = ptr[i] /\ map[i] \in Pointers
    BY <1>6, <1>7
  <2>2. o[1] \in Modules /\ o[2] \in Names /\ o = <<o[1], o[2]>>
    BY <2>1 DEF Owners
  <2>3. o[2] \in F(o[1], map[i])
    BY <2>1, <2>2 DEF F
  <2>4. MaxOrZero(F(o[1], map[i])) = o[2]
    BY <2>1, <2>2, <2>3, <1>9, MaxOrZeroOfOne
  <2> QED
    BY <2>1, <2>2, <2>4, <1>1, <1>2
<1>16. FwdIsOwned(s, map)
  <2> SUFFICES ASSUME NEW m \in Modules, NEW p \in Pointers, MaxOrZero(F(m, p)) # 0
               PROVE  \E i \in Indices : map[i] = p /\ <<m, MaxOrZero(F(m, p))>> \in c.owners[i]
    <3>1. ASSUME NEW m \in Modules, NEW p \in Pointers PROVE s.mem.fwd[<<m, p>>] = MaxOrZero(F(m, p))
      <4>1. MemOf(c, ptr).fwd[<<m, p>>] = MaxOrZero(F(m, p))
        BY <1>2
      <4>2. s.mem = MemOf(c, ptr)
        BY <1>1
      <4> QED
        BY ONLY <4>1, <4>2
    <3> QED
      BY <3>1, <1>1 DEF FwdIsOwned
  <2>1. MaxOrZero(F(m, p)) \in F(m, p)
    BY <1>9, MaxOrZeroOfOne, Zenon
  <2>2. PICK i \in Persisted(c) : ptr[i] = p /\ <<m, MaxOrZero(F(m, p))>> \in c.owners[i]
    BY <2>1, Zenon DEF F
  <2> QED
    BY <2>2, <1>5, <1>7
<1> QED
  BY <1>4, <1>8, <1>12, <1>13, <1>14, <1>15, <1>16 DEF Agrees

\* Between blocks the committed stores agree with the map, in a block those of
\* the block, and in a transaction its own; those of the block as well, until
\* the transaction drops a capability.
CapInv ==
    /\ phase \in {"idle", "block", "tx"} /\ simulating \in BOOLEAN /\ dropped \in BOOLEAN
    /\ branch \in [Running -> Stores]
    /\ Consistent(committed) /\ Consistent(block) /\ Consistent(branch["deliver"])
    /\ capMap \in Maps /\ Injective(capMap)
    /\ phase = "idle" => /\ Agrees(committed, capMap)
                         /\ ~committed.mem.initialized => capMap = NoMap
    /\ phase # "idle" => block.mem.initialized
    /\ phase = "block" => Agrees(block, capMap)
    /\ phase = "tx" => /\ branch["deliver"].mem.initialized
                       /\ Agrees(branch["deliver"], capMap)
                       /\ block.index <= branch["deliver"].index
                       /\ ~dropped => Agrees(block, capMap)

\* An empty memory store is well typed.
LEMMA NoMemType ==
    NoMem \in [initialized : BOOLEAN, fwd : [Modules \X Pointers -> Names \cup {0}],
               rev : [Owners -> Indices \cup {0}]]
BY DEF NoMem

\* Stores with an empty memory store agree with any map.
LEMMA EmptyMemIsGood ==
    ASSUME NEW s, s.mem = NoMem, NEW map
    PROVE  Agrees(s, map)
<1>1. ~s.mem.initialized
  BY DEF NoMem
<1>2. \A o \in Owners : s.mem.rev[o] = 0
  BY DEF NoMem
<1>3. \A m \in Modules, p \in Pointers : s.mem.fwd[<<m, p>>] = 0
  BY DEF NoMem
<1> QED
  BY <1>1, <1>2, <1>3 DEF Agrees, RevIsOwned, OwnedIsRev, OwnedIsFwd, FwdIsOwned

\* The stores of a new chain are consistent.
LEMMA GenesisIsConsistent == Consistent(Genesis) /\ Genesis.mem = NoMem
<1>1. Genesis.owners = [i \in Indices |-> {}] /\ Genesis.index = 1 /\ Genesis.mem = NoMem
  BY Zenon DEF Genesis
<1>2. Genesis \in Stores
  BY NoMemType DEF Genesis, Stores
<1> QED
  BY <1>1, <1>2 DEF Consistent

\* An empty map is well typed, and no two indices have one pointer.
LEMMA NoMapFacts == NoMap \in Maps /\ Injective(NoMap)
BY DEF NoMap, Maps, Injective

\* The invariant holds at the start.
LEMMA CapInitHolds == CapabilityInit => CapInv
<1> SUFFICES ASSUME CapabilityInit PROVE CapInv
  OBVIOUS
<1>1. Genesis \in Stores
  BY GenesisIsConsistent DEF Consistent
<1>2. branch \in [Running -> Stores] /\ branch["deliver"] = Genesis
  BY <1>1 DEF CapabilityInit, Running
<1>3. Agrees(committed, capMap)
  BY GenesisIsConsistent, EmptyMemIsGood DEF CapabilityInit
<1>4. capMap = NoMap
  BY DEF CapabilityInit, NoMap
<1> QED
  BY <1>2, <1>3, <1>4, GenesisIsConsistent, NoMapFacts, Zenon DEF CapabilityInit, CapInv

\* A step of a simulation changes nothing but its own branch.
LEMMA SimulationStep ==
    ASSUME CapInv, NEW x \in Stores, branch' = [branch EXCEPT !["simulate"] = x], simulating' \in BOOLEAN,
           UNCHANGED <<committed, block, phase, capMap, dropped>>
    PROVE  CapInv'
<1>1. branch' \in [Running -> Stores] /\ branch'["deliver"] = branch["deliver"]
  BY DEF CapInv, Running
<1> QED
  BY <1>1 DEF CapInv

\* A delivered transaction changes its own branch and the map.
LEMMA DeliverStep ==
    ASSUME CapInv, phase = "tx", NEW x, branch' = [branch EXCEPT !["deliver"] = x],
           UNCHANGED <<committed, block, phase, simulating>>, dropped' \in BOOLEAN,
           capMap' \in Maps, Injective(capMap'),
           Consistent(x), Agrees(x, capMap'), x.mem.initialized, block.index <= x.index,
           ~dropped' => Agrees(block, capMap')
    PROVE  CapInv'
<1>1. x \in Stores
  BY DEF Consistent
<1>2. branch' \in [Running -> Stores] /\ branch'["deliver"] = x
  BY <1>1 DEF CapInv, Running
<1>3. Consistent(branch["deliver"])' /\ Agrees(branch["deliver"], capMap)'
  BY <1>2, Zenon
<1>4. Consistent(committed)' /\ Consistent(block)' /\ Injective(capMap)'
  BY Zenon DEF CapInv
<1>5. ~dropped' => Agrees(block, capMap)'
  BY Zenon
<1> QED
  BY <1>2, <1>3, <1>4, <1>5, Zenon DEF CapInv

\* GetCapability finds an index and its pointer.
LEMMA GetsFacts ==
    ASSUME CapInv, NEW t \in Running, NEW m \in Modules, NEW n \in Names, Gets(branch[t], m, n)
    PROVE  /\ branch[t] \in Stores
           /\ branch[t].mem.rev[<<m, n>>] \in Indices
           /\ capMap[branch[t].mem.rev[<<m, n>>]] \in Pointers
<1>1. branch[t] \in Stores /\ <<m, n>> \in Owners
  BY DEF CapInv, Owners
<1>2. branch[t].mem.rev[<<m, n>>] \in Indices \cup {0}
  BY <1>1 DEF Stores
<1>3. branch[t].mem.rev[<<m, n>>] \in Indices
  BY <1>2 DEF Gets
<1> QED
  BY <1>1, <1>3 DEF Gets, CapInv, Maps

\* ReleaseCapability keeps the invariant.
LEMMA ReleaseStep ==
    ASSUME CapInv, ~SimulationCreates, NEW t \in Running, NEW m \in Modules, NEW held \in Names,
           ReleaseCapability(t, m, held)
    PROVE  CapInv'
<1> DEFINE s == branch[t]
           i == s.mem.rev[<<m, held>>]
           p == capMap[i]
           n == s.mem.fwd[<<m, p>>]
           rest == s.owners[i] \ {<<m, n>>}
           x == [s EXCEPT !.owners[i] = rest, !.mem.fwd[<<m, p>>] = 0, !.mem.rev[<<m, n>>] = 0]
<1>1. /\ Active(t) /\ Gets(s, m, held) /\ n # 0
      /\ (rest = {} /\ t = "simulate") => SimulationCreates
      /\ branch' = [branch EXCEPT ![t] = x]
      /\ rest = {} => capMap' = [capMap EXCEPT ![i] = NoPointer] /\ dropped' = (dropped \/ t = "deliver")
      /\ rest # {} => UNCHANGED <<capMap, dropped>>
      /\ UNCHANGED <<committed, block, phase, simulating>>
  BY Zenon DEF ReleaseCapability
<1>2. s \in Stores /\ i \in Indices /\ p \in Pointers
  BY <1>1, GetsFacts, Zenon
<1>3. n \in Names /\ <<m, n>> \in Owners /\ <<m, p>> \in Modules \X Pointers
  <2>1. s.mem.fwd \in [Modules \X Pointers -> Names \cup {0}]
    BY <1>2, Zenon DEF Stores
  <2> QED
    <3>1. <<m, p>> \in Modules \X Pointers
      BY <1>2
    <3> QED
      BY <2>1, <3>1, <1>1, Zenon DEF Owners
<1>4. rest \in SUBSET Owners
  BY <1>2, Zenon DEF Stores
<1>5. IsUpdate(s, x, i, rest, <<m, p>>, 0, <<m, n>>, 0) /\ x.index = s.index
  <2>1. IsEdit(s, x, i, rest, <<m, p>>, 0, <<m, n>>, 0)
    BY Zenon DEF IsEdit
  <2>2. 0 \in Names \cup {0} /\ 0 \in Indices \cup {0}
    OBVIOUS
  <2> HIDE DEF rest, n, p, i, s, x
  <2> QED
    BY <2>1, <2>2, <1>2, <1>3, <1>4, UpdateIs
<1>6. rest # {} => IsRelease(s, capMap, m, held, i, p, n, rest, capMap)
  BY <1>2, IndexFacts, Zenon DEF IsRelease
<1>7. rest = {} => IsRelease(s, capMap, m, held, i, p, n, rest, [capMap EXCEPT ![i] = NoPointer])
  BY <1>2, IndexFacts, Zenon DEF IsRelease
<1> HIDE DEF x, rest, n, p, i
<1>8. x \in Stores
  BY <1>5 DEF IsUpdate
<1>9. CASE t = "simulate"
  BY <1>1, <1>8, <1>9, SimulationStep DEF CapInv
<1>10. CASE t = "deliver"
  <2>1. /\ Consistent(s) /\ Agrees(s, capMap) /\ s.mem.initialized /\ block.index <= s.index
        /\ capMap \in Maps /\ Injective(capMap) /\ phase = "tx" /\ dropped \in BOOLEAN
        /\ ~dropped => Agrees(block, capMap)
    BY <1>1, <1>10 DEF CapInv, Active
  <2>2. x.mem.initialized
    BY <1>5, <2>1 DEF IsUpdate
  <2> HIDE DEF s
  <2>3. CASE rest # {}
    <3>1. Consistent(x) /\ Agrees(x, capMap)
      BY <2>1, <2>3, <1>5, <1>6, ReleaseKeeps, Zenon
    <3>2. capMap' = capMap /\ dropped' = dropped
      BY <1>1, <2>3
    <3> QED
      BY <2>1, <2>2, <3>1, <3>2, <1>1, <1>5, <1>10, DeliverStep, Zenon
  <2>4. CASE rest = {}
    <3>1. capMap' = [capMap EXCEPT ![i] = NoPointer] /\ dropped' = TRUE
      BY <1>1, <1>10, <2>4, Zenon
    <3>2. Consistent(x) /\ Agrees(x, capMap') /\ Injective(capMap') /\ capMap' \in Maps
      BY <2>1, <2>4, <3>1, <1>5, <1>7, ReleaseKeeps
    <3> QED
      BY <2>1, <2>2, <3>1, <3>2, <1>1, <1>5, <1>10, DeliverStep, Zenon
  <2> QED
    BY <2>3, <2>4
<1> QED
  BY <1>9, <1>10 DEF Running

\* ClaimCapability keeps the invariant.
LEMMA ClaimStep ==
    ASSUME CapInv, ~ClaimsRepeat, NEW t \in Running, NEW from \in Owners, NEW m \in Modules, NEW n \in Names,
           ClaimCapability(t, from, m, n)
    PROVE  CapInv'
<1> DEFINE s == branch[t]
           i == s.mem.rev[from]
           p == capMap[i]
           os == s.owners[i] \cup {<<m, n>>}
           x == [s EXCEPT !.owners[i] = os, !.mem.fwd[<<m, p>>] = n, !.mem.rev[<<m, n>>] = i]
<1>1. /\ Active(t) /\ Gets(s, from[1], from[2])
      /\ s.mem.rev[<<m, n>>] = 0 /\ \A o \in s.owners[i] : o[1] # m
      /\ branch' = [branch EXCEPT ![t] = x]
      /\ UNCHANGED <<committed, block, phase, simulating, capMap, dropped>>
  BY Zenon DEF ClaimCapability
<1>2. from[1] \in Modules /\ from[2] \in Names /\ from = <<from[1], from[2]>>
  BY DEF Owners
<1>3. s \in Stores /\ i \in Indices /\ p \in Pointers
  BY <1>1, <1>2, GetsFacts, Zenon
<1>4. <<m, n>> \in Owners /\ <<m, p>> \in Modules \X Pointers
  BY <1>3, Zenon DEF Owners
<1>5. os \in SUBSET Owners
  BY <1>3, <1>4, Zenon DEF Stores
<1>6. IsUpdate(s, x, i, os, <<m, p>>, n, <<m, n>>, i) /\ x.index = s.index
  <2>1. IsEdit(s, x, i, os, <<m, p>>, n, <<m, n>>, i)
    BY Zenon DEF IsEdit
  <2> HIDE DEF os, p, i, s, x
  <2> QED
    BY <2>1, <1>3, <1>4, <1>5, UpdateIs
<1> HIDE DEF x
<1>7. x \in Stores
  BY <1>6, ZenonT(60) DEF IsUpdate
<1>8. CASE t = "simulate"
  <2> HIDE DEF os, p, i, s
  <2> QED
    BY <1>1, <1>7, <1>8, SimulationStep DEF CapInv
<1>9. CASE t = "deliver"
  <2>1. /\ Consistent(s) /\ Agrees(s, capMap) /\ s.mem.initialized /\ block.index <= s.index
        /\ capMap \in Maps /\ Injective(capMap) /\ phase = "tx" /\ dropped \in BOOLEAN
        /\ ~dropped => Agrees(block, capMap)
    BY <1>1, <1>9, Zenon DEF CapInv, Active
  <2>2. x.mem.initialized
    BY <1>6, <2>1, Zenon DEF IsUpdate
  <2>3. from \in s.owners[i] /\ capMap[i] = p
    BY <2>1, <1>3, IndexFacts, ZenonT(60) DEF Agrees, RevIsOwned
  <2>4. IsUpdate(s, x, i, s.owners[i] \cup {<<m, n>>}, <<m, p>>, n, <<m, n>>, i)
    BY <1>6, ZenonT(60)
  <2> HIDE DEF os, p, i, s
  <2>5. i < x.index /\ x.index \in Nat /\ s.index <= x.index
    BY <2>1, <2>3, <1>3, <1>6 DEF Consistent, Stores
  <2>6. Consistent(x) /\ Agrees(x, capMap)
    BY <2>1, <2>3, <2>4, <2>5, <1>1, <1>3, OwnerAdded, ZenonT(60)
  <2>7. capMap' = capMap /\ dropped' = dropped /\ UNCHANGED <<committed, block, phase, simulating>>
    BY <1>1, Zenon
  <2>8. branch' = [branch EXCEPT !["deliver"] = x] /\ block.index <= x.index
    <3>1. branch' = [branch EXCEPT !["deliver"] = x]
      BY <1>1, <1>9, Zenon
    <3>2. block.index <= s.index /\ x.index = s.index
      BY <1>6, <2>1, Zenon
    <3> QED
      BY <3>1, <3>2, Zenon
  <2>9. Consistent(x) /\ Agrees(x, capMap') /\ Injective(capMap') /\ capMap' \in Maps
        /\ dropped' \in BOOLEAN /\ (~dropped' => Agrees(block, capMap'))
    BY <2>1, <2>6, <2>7
  <2> QED
    BY <2>1, <2>2, <2>7, <2>8, <2>9, DeliverStep, Zenon
<1> QED
  BY <1>8, <1>9 DEF Running

\* NewCapability keeps the invariant.
LEMMA CreationStep ==
    ASSUME CapInv, ~SimulationCreates, NEW t \in Running, NEW m \in Modules, NEW n \in Names, NEW p \in Pointers,
           NewCapability(t, m, n, p)
    PROVE  CapInv'
<1> DEFINE s == branch[t]
           i == s.index
           x == [s EXCEPT !.index = @ + 1, !.owners[s.index] = @ \cup {<<m, n>>},
                          !.mem.fwd[<<m, p>>] = n, !.mem.rev[<<m, n>>] = s.index]
<1>1. /\ Active(t) /\ (t = "simulate" => SimulationCreates)
      /\ s.mem.rev[<<m, n>>] = 0 /\ i \in Indices
      /\ p \notin {capMap[j] : j \in Indices}
      /\ branch' = [branch EXCEPT ![t] = x]
      /\ capMap' = [capMap EXCEPT ![i] = p]
      /\ UNCHANGED <<committed, block, phase, simulating, dropped>>
  BY Zenon DEF NewCapability
<1>2. t = "deliver"
  BY <1>1 DEF Running
<1>3. IsCreation(s, x, <<m, p>>, n, <<m, n>>)
  BY Zenon DEF IsCreation
<1> HIDE DEF x
<1>4. /\ Consistent(s) /\ Agrees(s, capMap) /\ s.mem.initialized /\ block.index <= s.index
      /\ capMap \in Maps /\ Injective(capMap) /\ phase = "tx" /\ dropped \in BOOLEAN
      /\ ~dropped => Agrees(block, capMap)
      /\ Consistent(block)
  BY <1>1, <1>2, Zenon DEF CapInv, Active
<1>5. s \in Stores /\ <<m, n>> \in Owners /\ <<m, p>> \in Modules \X Pointers
  BY <1>4, Zenon DEF Consistent, Owners
<1>6. IsUpdate(s, x, i, s.owners[i] \cup {<<m, n>>}, <<m, p>>, n, <<m, n>>, i) /\ x.index = i + 1
  <2> DEFINE k == <<m, p>>
             o == <<m, n>>
  <2>1. s.index \in Indices /\ n \in Names \cup {0}
    BY <1>1
  <2>2. s \in Stores /\ o \in Owners /\ k \in FwdKeys /\ IsCreation(s, x, k, n, o)
    BY <1>3, <1>5, Zenon DEF FwdKeys
  <2> HIDE DEF s, k, o, i
  <2>3. IsUpdate(s, x, s.index, s.owners[s.index] \cup {o}, k, n, o, s.index) /\ x.index = s.index + 1
    BY <2>1, <2>2, CreationIs, Zenon
  <2> QED
    BY <2>3, Zenon DEF k, o, i
<1>7. x.mem.initialized
  BY <1>4, <1>6, Zenon DEF IsUpdate
<1> HIDE DEF s
<1>8. s.owners[i] = {}
  BY <1>1, <1>4, IndexFacts, SMTT(30) DEF Consistent, Stores
<1> HIDE DEF i
<1>9. capMap' \in Maps /\ capMap'[i] = p /\ \A j \in Indices : j # i => capMap'[j] = capMap[j]
  BY <1>1, <1>4 DEF Maps
<1>10. Injective(capMap')
  BY <1>1, <1>4, <1>9, SMTT(30) DEF Injective
<1>11. x.index \in Nat /\ i < x.index /\ s.index <= x.index /\ block.index <= x.index
  BY <1>1, <1>4, <1>6, IndexFacts DEF i, Consistent, Stores
<1>12. Consistent(x) /\ Agrees(x, capMap')
  BY <1>1, <1>4, <1>6, <1>8, <1>9, <1>10, <1>11, OwnerAdded, Zenon
<1>13. ~dropped => Agrees(block, capMap')
  <2>1. block.index <= i
    BY <1>4 DEF i
  <2> QED
    BY <2>1, <1>1, <1>4, <1>9, OthersKept, ZenonT(60)
<1> QED
  BY <1>1, <1>2, <1>4, <1>7, <1>9, <1>10, <1>11, <1>12, <1>13, DeliverStep, Zenon

\* InitMemStore keeps the invariant, after a restart as well.
LEMMA InitMemStoreStep ==
    ASSUME CapInv, NEW ptr \in [Indices -> Pointers], \A i, j \in Indices : ptr[i] = ptr[j] => i = j,
           InitMemStore(ptr)
    PROVE  CapInv'
<1>1. /\ phase = "idle" /\ phase' = "block"
      /\ committed.mem.initialized => block' = committed /\ capMap' = capMap
      /\ ~committed.mem.initialized =>
            /\ block' = [committed EXCEPT !.mem = MemOf(committed, ptr)]
            /\ capMap' = [i \in Indices |-> IF i \in Persisted(committed) THEN ptr[i] ELSE capMap[i]]
      /\ committed' = committed /\ branch' = branch /\ simulating' = simulating /\ dropped' = dropped
  BY DEF InitMemStore
<1>2. /\ Consistent(committed) /\ Agrees(committed, capMap) /\ capMap \in Maps /\ Injective(capMap)
      /\ ~committed.mem.initialized => capMap = NoMap
  BY <1>1 DEF CapInv
<1>3. Consistent(block') /\ Agrees(block', capMap') /\ block'.mem.initialized /\ Injective(capMap') /\ capMap' \in Maps
  <2>1. CASE committed.mem.initialized
    BY <2>1, <1>1, <1>2
  <2>2. CASE ~committed.mem.initialized
    <3>1. IsRebuilt(committed, ptr, block', capMap')
      BY <2>2, <1>1, <1>2 DEF NoMap, IsRebuilt
    <3> QED
      BY <3>1, <1>2, MemOfIsGood, Zenon
  <2> QED
    BY <2>1, <2>2
<1> QED
  BY <1>1, <1>3, Zenon DEF CapInv

\* A restart keeps the invariant.
LEMMA RestartStep == ASSUME CapInv, Restart PROVE CapInv'
<1>1. /\ committed' = [committed EXCEPT !.mem = NoMem] /\ block' = Genesis
      /\ branch' = [t \in Running |-> Genesis]
      /\ phase' = "idle" /\ simulating' = FALSE /\ dropped' = FALSE
      /\ capMap' = NoMap
  BY Zenon DEF Restart, NoMap
<1>2. committed \in Stores
  BY DEF CapInv, Consistent
<1>3. /\ committed'.owners = committed.owners /\ committed'.index = committed.index /\ committed'.mem = NoMem
      /\ committed' \in Stores
  BY <1>1, <1>2, NoMemType, ZenonT(60) DEF Stores
<1>4. Consistent(committed')
  BY <1>3, Zenon DEF CapInv, Consistent
<1>5. Agrees(committed', capMap')
  BY <1>3, EmptyMemIsGood
<1>6. branch' \in [Running -> Stores] /\ branch'["deliver"] = Genesis
  BY <1>1, GenesisIsConsistent DEF Running, Consistent
<1> QED
  BY <1>1, <1>4, <1>5, <1>6, GenesisIsConsistent, NoMapFacts, Zenon DEF CapInv

\* Every step keeps the invariant.
LEMMA CapStep ==
    ASSUME ~ReleaseMayFail, ~SimulationCreates, ~ClaimsRepeat, CapInv, [CapabilityNext]_capabilityVars
    PROVE  CapInv'
<1>0. Genesis \in Stores /\ Consistent(Genesis)
  BY GenesisIsConsistent DEF Consistent
<1>1. ASSUME NEW ptr \in {f \in [Indices -> Pointers] : \A i, j \in Indices : f[i] = f[j] => i = j},
             InitMemStore(ptr)
      PROVE  CapInv'
  BY <1>1, InitMemStoreStep
<1>2. ASSUME NEW t \in Running, NEW m \in Modules, NEW n \in Names, NEW p \in Pointers, NewCapability(t, m, n, p)
      PROVE  CapInv'
  BY <1>2, CreationStep
<1>3. ASSUME NEW t \in Running, NEW o \in Owners, NEW m \in Modules, NEW n \in Names, ClaimCapability(t, o, m, n)
      PROVE  CapInv'
  BY <1>3, ClaimStep
<1>4. ASSUME NEW t \in Running, NEW m \in Modules, NEW n \in Names, ReleaseCapability(t, m, n)
      PROVE  CapInv'
  BY <1>4, ReleaseStep
<1>5. CASE DeliverTx
  <2>1. block \in Stores
    BY DEF CapInv, Consistent
  <2>2. /\ phase = "block" /\ phase' = "tx" /\ committed' = committed /\ block' = block
        /\ simulating' = simulating /\ capMap' = capMap /\ dropped' = FALSE
        /\ branch' \in [Running -> Stores] /\ branch'["deliver"] = block
    BY <1>5, <2>1 DEF DeliverTx, CapInv, Running
  <2>3. block.index <= block.index
    BY <2>1 DEF Stores
  <2> QED
    BY <2>2, <2>3, Zenon DEF CapInv
<1>6. CASE Succeed
  <2>1. /\ phase = "tx" /\ phase' = "block" /\ committed' = committed /\ block' = branch["deliver"]
        /\ simulating' = simulating /\ capMap' = capMap /\ dropped' = FALSE
        /\ branch' \in [Running -> Stores] /\ branch'["deliver"] = Genesis
    BY <1>0, <1>6 DEF Succeed, CapInv, Running
  <2> QED
    BY <1>0, <2>1, Zenon DEF CapInv
<1>7. CASE Fail
  <2>1. /\ phase = "tx" /\ ~dropped /\ phase' = "block" /\ committed' = committed /\ block' = block
        /\ simulating' = simulating /\ capMap' = capMap /\ dropped' = FALSE
        /\ branch' \in [Running -> Stores] /\ branch'["deliver"] = Genesis
    BY <1>0, <1>7 DEF Fail, CapInv, Running
  <2> QED
    BY <1>0, <2>1, Zenon DEF CapInv
<1>8. CASE Simulate
  <2>1. committed \in Stores
    BY DEF CapInv, Consistent
  <2> QED
    BY <1>8, <2>1, SimulationStep, ZenonT(60) DEF Simulate
<1>9. CASE EndSimulation
  BY <1>0, <1>9, SimulationStep, Zenon DEF EndSimulation
<1>10. CASE Commit
  BY <1>0, <1>10 DEF Commit, CapInv
<1>11. CASE Restart
  BY <1>11, RestartStep
<1>12. CASE UNCHANGED capabilityVars
  BY <1>12 DEF capabilityVars, CapInv
<1> QED
  BY <1>1, <1>2, <1>3, <1>4, <1>5, <1>6, <1>7, <1>8, <1>9, <1>10, <1>11, <1>12, ZenonT(60) DEF CapabilityNext

\* The invariant is enough.
LEMMA CapInvIsEnough == CapInv => CapabilitiesAreOwned
<1> SUFFICES ASSUME CapInv PROVE CapabilitiesAreOwned
  OBVIOUS
<1>1. Consistent(Current) /\ Agrees(Current, capMap) /\ capMap \in Maps /\ Injective(capMap)
  BY DEF CapInv, Current
<1>2. CapabilityTypeOK
  <2>1. {committed, block, branch["deliver"], branch["simulate"]} \subseteq Stores
    BY DEF CapInv, Consistent, Running
  <2>2. \A i \in Persisted(Current) : i < Current.index
    BY <1>1, Zenon DEF Persisted, Consistent
  <2> QED
    BY <2>1, <2>2, ZenonT(60) DEF CapabilityTypeOK, CapInv, Maps
<1>3. NoneMissingFromMap
  BY <1>1, CapabilityAssumption, ZenonT(60) DEF NoneMissingFromMap, Agrees, RevIsOwned
<1>4. OwnersAuthenticate
  BY <1>1, ZenonT(60) DEF OwnersAuthenticate, Agrees, OwnedIsRev, OwnedIsFwd
<1>5. OnlyOwnersAuthenticate
  <2> SUFFICES ASSUME NEW m \in Modules, NEW i \in Indices, capMap[i] \in Pointers,
                      Current.mem.fwd[<<m, capMap[i]>>] # 0
               PROVE  <<m, Current.mem.fwd[<<m, capMap[i]>>]>> \in Current.owners[i]
    BY Zenon DEF OnlyOwnersAuthenticate
  <2>1. PICK j \in Indices : /\ capMap[j] = capMap[i]
                             /\ <<m, Current.mem.fwd[<<m, capMap[i]>>]>> \in Current.owners[j]
    BY <1>1, ZenonT(60) DEF Agrees, FwdIsOwned
  <2>2. j = i
    BY <2>1, <1>1, CapabilityAssumption DEF Injective
  <2> QED
    BY <2>1, <2>2
<1> QED
  BY <1>2, <1>3, <1>4, <1>5 DEF CapabilitiesAreOwned

\* If a transaction that dropped a capability does not fail, simulations neither
\* create nor drop one, and no module claims a name or a capability twice, then
\* a module authenticates exactly the capabilities that it owns and looking one
\* up never panics: after failed transactions, simulations and restarts, for
\* any modules, names, indices and pointers.
THEOREM CapabilitiesStayOwned ==
    ASSUME ~ReleaseMayFail, ~SimulationCreates, ~ClaimsRepeat
    PROVE  CapabilitySpec => []CapabilitiesAreOwned
<1>1. CapabilityInit => CapInv
  BY CapInitHolds
<1>2. CapInv /\ [CapabilityNext]_capabilityVars => CapInv'
  BY CapStep
<1>3. CapInv => CapabilitiesAreOwned
  BY CapInvIsEnough
<1> QED
  BY <1>1, <1>2, <1>3, PTL DEF CapabilitySpec

-----------------------------------------------------------------------------
(* x/gov: the store and its properties.                                    *)

Proposals ==
    [status : {"none", "deposit", "voting", "passed", "failed", "rejected", "deleted"},
     expedited : BOOLEAN, total : Int, depositEnd : Int, start : Int, end : Int]

ProposalMaps == [Ids -> Proposals]
Purses == [Depositors -> Int]
DepositMaps == [Ids -> Purses]
VoteMaps == [Ids -> [Delegators -> Options \cup {NoVote}]]
Queues == SUBSET (Int \X Ids)

GovStates ==
    [proposals : ProposalMaps, deposits : DepositMaps, votes : VoteMaps, inactive : Queues,
     active : Queues, period : VotingPeriods, purse : Purses, pot : Int, burned : Int]

\* The properties of a state of the store.
Totals(g) == [id \in Ids |-> Total(g, id)]
HeldFor(g, id) == Total(g, id) = IF Open(g, id) THEN g.proposals[id].total ELSE 0
Coins(g) == SumFunctionOnSet(g.purse, Depositors) + g.pot + g.burned
Held(g) ==
    /\ g.pot = SumFunctionOnSet(Totals(g), Ids)
    /\ \A id \in Ids : HeldFor(g, id)
    /\ Coins(g) = SumFunctionOnSet([d \in Depositors |-> Purse], Depositors)

QueuedAt(g, id) ==
    /\ \A t \in Int : /\ <<t, id>> \in g.inactive
                          <=> g.proposals[id].status = "deposit" /\ t = g.proposals[id].depositEnd
                      /\ <<t, id>> \in g.active
                          <=> g.proposals[id].status = "voting" /\ t = g.proposals[id].end
    /\ g.votes[id] # NoVotes => g.proposals[id].status = "voting"
Queued(g) == \A id \in Ids : QueuedAt(g, id)

Sound(g) == g \in GovStates /\ Held(g) /\ Queued(g)

\* Of one proposal to the next: r differs from g in the records of id only.
Only(r, g, id) ==
    \A i \in Ids \ {id} :
        /\ r.proposals[i] = g.proposals[i]
        /\ r.deposits[i] = g.deposits[i]
        /\ r.votes[i] = g.votes[i]
        /\ \A t \in Int : /\ <<t, i>> \in r.inactive <=> <<t, i>> \in g.inactive
                          /\ <<t, i>> \in r.active <=> <<t, i>> \in g.active

\* The sums are integers.
LEMMA SumsAreInt ==
    ASSUME NEW g \in GovStates
    PROVE  /\ \A id \in Ids : Total(g, id) \in Int
           /\ SumFunctionOnSet(Totals(g), Ids) \in Int
           /\ SumFunctionOnSet(g.purse, Depositors) \in Int
           /\ g.pot \in Int /\ g.burned \in Int
           /\ IsFiniteSet(Ids) /\ IsFiniteSet(Depositors)
<1>1. IsFiniteSet(Ids) /\ IsFiniteSet(Depositors)
  BY GovAssumption, FiniteInterval, 0 \in Int, 1 \in Int DEF Ids
<1>2. /\ \A id \in Ids : \A d \in Depositors : g.deposits[id][d] \in Int
      /\ \A d \in Depositors : g.purse[d] \in Int
      /\ g.pot \in Int /\ g.burned \in Int
  <2>1. g.deposits \in DepositMaps /\ g.purse \in Purses /\ g.pot \in Int /\ g.burned \in Int
    BY Zenon DEF GovStates
  <2> QED
    BY <2>1 DEF DepositMaps, Purses
<1>3. \A id \in Ids : Total(g, id) \in Int
  BY <1>1, <1>2, SumInt, Zenon DEF Total
<1>4. \A id \in Ids : Totals(g)[id] \in Int
  BY <1>3, Zenon DEF Totals
<1> QED
  BY <1>1, <1>2, <1>3, <1>4, SumInt, Zenon

\* A change of one proposal's deposits changes the sum of all by the difference.
LEMMA TotalsChange ==
    ASSUME NEW g \in GovStates, NEW r \in GovStates, NEW id \in Ids, Only(r, g, id)
    PROVE  /\ \A i \in Ids \ {id} : Total(r, i) = Total(g, i)
           /\ SumFunctionOnSet(Totals(r), Ids)
                = SumFunctionOnSet(Totals(g), Ids) - Total(g, id) + Total(r, id)
<1>1. \A i \in Ids \ {id} : Total(r, i) = Total(g, i)
  BY Zenon DEF Only, Total
<1>2. \A i \in Ids : Total(g, i) \in Int /\ Total(r, i) \in Int
  BY SumsAreInt, Zenon
<1>3. ChangesAt(Totals(g), Totals(r), id, Ids)
  BY <1>1, <1>2, Zenon DEF ChangesAt, Totals
<1>4. IsFiniteSet(Ids)
  BY SumsAreInt, Zenon
<1>5. Totals(g)[id] = Total(g, id) /\ Totals(r)[id] = Total(r, id)
  BY Zenon DEF Totals
<1>6. SumFunctionOnSet(Totals(r), Ids)
        = SumFunctionOnSet(Totals(g), Ids) - Totals(g)[id] + Totals(r)[id]
  BY <1>3, <1>4, SumUpdate, SMT
<1> QED
  BY <1>1, <1>5, <1>6, Zenon

\* The account follows a change of one proposal's deposits.
LEMMA HeldStep ==
    ASSUME NEW g \in GovStates, NEW r \in GovStates, NEW id \in Ids, Only(r, g, id), Held(g),
           HeldFor(r, id), r.pot = g.pot - Total(g, id) + Total(r, id), Coins(r) = Coins(g)
    PROVE  Held(r)
<1>1. r.pot = SumFunctionOnSet(Totals(r), Ids)
  <2>1. g.pot = SumFunctionOnSet(Totals(g), Ids)
    BY Zenon DEF Held
  <2>2. SumFunctionOnSet(Totals(r), Ids)
          = SumFunctionOnSet(Totals(g), Ids) - Total(g, id) + Total(r, id)
    BY TotalsChange, Zenon
  <2> QED
    BY <2>1, <2>2, Zenon
<1>2. \A i \in Ids : HeldFor(r, i)
  <2> SUFFICES ASSUME NEW i \in Ids \ {id} PROVE HeldFor(r, i)
    BY Zenon
  <2>1. HeldFor(g, i) /\ Total(r, i) = Total(g, i)
    BY TotalsChange, Zenon DEF Held
  <2>2. r.proposals[i] = g.proposals[i]
    BY Zenon DEF Only
  <2> QED
    BY <2>1, <2>2, Zenon DEF HeldFor, Open
<1> QED
  BY <1>1, <1>2, Zenon DEF Held

\* The queues follow a change of one proposal.
LEMMA QueuedStep ==
    ASSUME NEW g, NEW r, NEW id \in Ids, Only(r, g, id), Queued(g), QueuedAt(r, id)
    PROVE  Queued(r)
<1> SUFFICES ASSUME NEW i \in Ids \ {id} PROVE QueuedAt(r, i)
  BY Zenon DEF Queued
<1>1. QueuedAt(g, i)
  BY Zenon DEF Queued
<1>2. r.proposals[i] = g.proposals[i] /\ r.votes[i] = g.votes[i]
  BY Zenon DEF Only
<1>3. \A t \in Int : /\ <<t, i>> \in r.inactive <=> <<t, i>> \in g.inactive
                     /\ <<t, i>> \in r.active <=> <<t, i>> \in g.active
  BY Zenon DEF Only
<1> QED
  BY <1>1, <1>2, <1>3, Zenon DEF QueuedAt

-----------------------------------------------------------------------------
(* What the operations do to the store.                                    *)

\* The fields of a state.
LEMMA Fields ==
    ASSUME NEW g \in GovStates
    PROVE  /\ g.proposals \in ProposalMaps /\ g.deposits \in DepositMaps /\ g.votes \in VoteMaps
           /\ g.inactive \in Queues /\ g.active \in Queues /\ g.period \in VotingPeriods
           /\ g.purse \in Purses /\ g.pot \in Int /\ g.burned \in Int
  BY Zenon DEF GovStates

\* Entries of a queue are equal if their times and ids are.
LEMMA Entries == \A t, i, u, j : <<t, i>> = <<u, j>> <=> t = u /\ i = j
  BY Zenon

\* Deposits that are deleted are burned.
Burned(r, g, id) ==
    /\ r \in GovStates
    /\ r.pot = g.pot - Total(g, id) /\ r.burned = g.burned + Total(g, id)
    /\ r.deposits = [g.deposits EXCEPT ![id] = Cleared]
    /\ r.proposals = g.proposals /\ r.votes = g.votes /\ r.inactive = g.inactive
    /\ r.active = g.active /\ r.period = g.period /\ r.purse = g.purse

\* That is what DeleteDeposits does.
LEMMA DeleteDepositsIs ==
    ASSUME NEW g \in GovStates, NEW id \in Ids
    PROVE  Burned(DeleteDeposits(g, id), g, id)
<1> SUFFICES ASSUME NEW r, r = DeleteDeposits(g, id) PROVE Burned(r, g, id)
  BY Zenon
<1> DEFINE less == g.pot - Total(g, id)
           more == g.burned + Total(g, id)
           ds == [g.deposits EXCEPT ![id] = Cleared]
<1>1. less \in Int /\ more \in Int
  BY SumsAreInt
<1>2. ds \in DepositMaps
  BY Fields DEF Cleared, DepositMaps, Purses
<1>3. r = [g EXCEPT !.pot = less, !.burned = more, !.deposits = ds]
  BY Zenon DEF DeleteDeposits
<1> HIDE DEF less, more, ds
<1>4. /\ r.pot = less /\ r.burned = more /\ r.deposits = ds
      /\ r.proposals = g.proposals /\ r.votes = g.votes /\ r.inactive = g.inactive
      /\ r.active = g.active /\ r.period = g.period /\ r.purse = g.purse
  BY <1>3, Zenon DEF GovStates
<1>5. r \in GovStates
  BY <1>1, <1>2, <1>3, Zenon DEF GovStates
<1> QED
  BY <1>4, <1>5, Zenon DEF Burned, less, more, ds

\* Deposits that are refunded go back to their depositors.
Refunded(r, g, id) ==
    /\ r \in GovStates
    /\ r.pot = g.pot - Total(g, id) /\ r.burned = g.burned
    /\ r.deposits = [g.deposits EXCEPT ![id] = Cleared]
    /\ r.purse = [d \in Depositors |-> g.purse[d] + g.deposits[id][d]]
    /\ r.proposals = g.proposals /\ r.votes = g.votes /\ r.inactive = g.inactive
    /\ r.active = g.active /\ r.period = g.period

\* That is what RefundDeposits does.
LEMMA RefundDepositsIs ==
    ASSUME NEW g \in GovStates, NEW id \in Ids
    PROVE  Refunded(RefundDeposits(g, id), g, id)
<1> SUFFICES ASSUME NEW r, r = RefundDeposits(g, id) PROVE Refunded(r, g, id)
  BY Zenon
<1> DEFINE less == g.pot - Total(g, id)
           ds == [g.deposits EXCEPT ![id] = Cleared]
           ps == [d \in Depositors |-> g.purse[d] + g.deposits[id][d]]
<1>1. less \in Int
  BY SumsAreInt
<1>2. ds \in DepositMaps
  BY Fields DEF Cleared, DepositMaps, Purses
<1>3. ps \in Purses
  BY Fields DEF DepositMaps, Purses
<1>4. r = [g EXCEPT !.pot = less, !.deposits = ds, !.purse = ps]
  BY Zenon DEF RefundDeposits
<1> HIDE DEF less, ds, ps
<1>5. /\ r.pot = less /\ r.burned = g.burned /\ r.deposits = ds /\ r.purse = ps
      /\ r.proposals = g.proposals /\ r.votes = g.votes /\ r.inactive = g.inactive
      /\ r.active = g.active /\ r.period = g.period
  BY <1>4, Zenon DEF GovStates
<1>6. r \in GovStates
  BY <1>1, <1>2, <1>3, <1>4, Zenon DEF GovStates
<1> QED
  BY <1>5, <1>6, Zenon DEF Refunded, less, ds, ps

\* A proposal that is activated goes from one queue to the other.
Activated(g, id) ==
    [g.proposals[id] EXCEPT !.status = "voting", !.start = clock,
                            !.end = clock + GetVotingPeriod(g, g.proposals[id].expedited)]

\* So its record changes, and both queues.
LEMMA ActivateIs ==
    ASSUME NEW g \in GovStates, NEW id \in Ids, clock \in Int,
           NEW r, r = ActivateVotingPeriod(g, id)
    PROVE  /\ r \in GovStates
           /\ Activated(g, id) \in Proposals
           /\ r.proposals = [g.proposals EXCEPT ![id] = Activated(g, id)]
           /\ r.inactive = g.inactive \ {<<g.proposals[id].depositEnd, id>>}
           /\ r.active = g.active \cup {<<Activated(g, id).end, id>>}
           /\ r.pot = g.pot /\ r.burned = g.burned /\ r.deposits = g.deposits
           /\ r.votes = g.votes /\ r.period = g.period /\ r.purse = g.purse
<1> DEFINE p == g.proposals[id]
           end == clock + GetVotingPeriod(g, p.expedited)
           q == Activated(g, id)
           ps == [g.proposals EXCEPT ![id] = q]
           in == g.inactive \ {<<p.depositEnd, id>>}
           ac == g.active \cup {<<end, id>>}
<1>1. p \in Proposals
  BY Fields, Zenon DEF ProposalMaps
<1>2. end \in Int
  <2>1. g.period \in Int /\ ExpeditedVotingPeriod \in Int
    <3>1. g.period \in VotingPeriods
      BY Fields, Zenon
    <3>2. VotingPeriods \subseteq Nat /\ ExpeditedVotingPeriod \in Nat
      BY GovAssumption, Zenon
    <3>3. g.period \in Nat
      BY <3>1, <3>2, Zenon
    <3> QED
      BY <3>2, <3>3
  <2>2. GetVotingPeriod(g, p.expedited) \in Int
    BY <2>1, Zenon DEF GetVotingPeriod
  <2> QED
    BY <2>2
<1>3. q = [p EXCEPT !.status = "voting", !.start = clock, !.end = end]
  BY Zenon DEF Activated
<1> HIDE DEF end, q
<1>4. q \in Proposals /\ q.end = end
  <2> HIDE DEF p
  <2> QED
    BY <1>1, <1>2, <1>3, Zenon DEF Proposals
<1>5. ps \in ProposalMaps
  BY <1>4, Fields, Zenon DEF ProposalMaps
<1>6. in \in Queues /\ ac \in Queues
  <2>1. <<end, id>> \in Int \X Ids
    BY <1>2
  <2> QED
    BY <2>1, Fields, Zenon DEF Queues
<1>7. r = [g EXCEPT !.proposals = ps, !.inactive = in, !.active = ac]
  BY Zenon DEF ActivateVotingPeriod, q, end, Activated
<1> HIDE DEF ps, in, ac
<1>8. /\ r.proposals = ps /\ r.inactive = in /\ r.active = ac
      /\ r.pot = g.pot /\ r.burned = g.burned /\ r.deposits = g.deposits
      /\ r.votes = g.votes /\ r.period = g.period /\ r.purse = g.purse
  BY <1>7, Zenon DEF GovStates
<1>9. r \in GovStates
  BY <1>5, <1>6, <1>7, Zenon DEF GovStates
<1>10. ac = g.active \cup {<<q.end, id>>}
  BY <1>4, Zenon DEF ac
<1> QED
  BY <1>4, <1>8, <1>9, <1>10, Zenon DEF q, ps, in

\* The first part of AddDeposit, before the deposit is on record.
Paid(g, id, d, amount) ==
    [g EXCEPT !.purse[d] = @ - amount, !.pot = @ + amount, !.proposals[id].total = @ + amount]

\* It takes the coins and adds them to the proposal's total.
LEMMA PaidIs ==
    ASSUME NEW g \in GovStates, NEW id \in Ids, NEW d \in Depositors, NEW amount \in Int,
           NEW r, r = Paid(g, id, d, amount)
    PROVE  /\ r \in GovStates
           /\ r.pot = g.pot + amount
           /\ r.purse = [g.purse EXCEPT ![d] = @ - amount]
           /\ r.proposals[id] = [g.proposals[id] EXCEPT !.total = @ + amount]
           /\ \A i \in Ids \ {id} : r.proposals[i] = g.proposals[i]
           /\ r.burned = g.burned /\ r.deposits = g.deposits /\ r.votes = g.votes
           /\ r.inactive = g.inactive /\ r.active = g.active /\ r.period = g.period
<1> DEFINE more == g.pot + amount
           pu == [g.purse EXCEPT ![d] = @ - amount]
           p == g.proposals[id]
           q == [p EXCEPT !.total = @ + amount]
           ps == [g.proposals EXCEPT ![id] = q]
<1>1. more \in Int
  BY SumsAreInt
<1>2. pu \in Purses
  BY Fields DEF Purses
<1>3. q \in Proposals
  <2>1. p \in Proposals
    BY Fields, Zenon DEF ProposalMaps
  <2>2. p.total + amount \in Int
    <3>1. p.total \in Int
      BY <2>1, Zenon DEF Proposals
    <3> QED
      BY <3>1
  <2> HIDE DEF p
  <2> QED
    BY <2>1, <2>2, Zenon DEF Proposals
<1> HIDE DEF q
<1>4. ps \in ProposalMaps /\ ps[id] = q /\ \A i \in Ids \ {id} : ps[i] = g.proposals[i]
  BY <1>3, Fields, Zenon DEF ProposalMaps
<1>5. r = [g EXCEPT !.purse = pu, !.pot = more, !.proposals = ps]
  BY Zenon DEF Paid, q
<1> HIDE DEF more, pu, ps
<1>6. /\ r.proposals = ps /\ r.purse = pu /\ r.pot = more
      /\ r.burned = g.burned /\ r.deposits = g.deposits /\ r.votes = g.votes
      /\ r.inactive = g.inactive /\ r.active = g.active /\ r.period = g.period
  BY <1>5, Zenon DEF GovStates
<1>7. r \in GovStates
  BY <1>1, <1>2, <1>4, <1>5, Zenon DEF GovStates
<1> QED
  BY <1>4, <1>6, <1>7, Zenon DEF q, pu, more

\* Activation keeps the queues.
LEMMA ActivateQueued ==
    ASSUME NEW g \in GovStates, NEW id \in Ids, clock \in Int, QueuedAt(g, id),
           g.proposals[id].status = "deposit", NEW r, r = ActivateVotingPeriod(g, id)
    PROVE  /\ Only(r, g, id) /\ QueuedAt(r, id)
           /\ r.proposals[id].status = "voting" /\ r.proposals[id].total = g.proposals[id].total
           /\ r \in GovStates
           /\ r.pot = g.pot /\ r.burned = g.burned /\ r.deposits = g.deposits /\ r.purse = g.purse
<1> DEFINE p == g.proposals[id]
           q == Activated(g, id)
<1> HIDE DEF q
<1>1. /\ q \in Proposals
      /\ r.proposals = [g.proposals EXCEPT ![id] = q]
      /\ r.inactive = g.inactive \ {<<p.depositEnd, id>>}
      /\ r.active = g.active \cup {<<q.end, id>>}
      /\ r.deposits = g.deposits /\ r.votes = g.votes
      /\ r \in GovStates /\ r.pot = g.pot /\ r.burned = g.burned /\ r.purse = g.purse
  BY ActivateIs, SMTT(30) DEF q
<1>2. p \in Proposals
  BY Fields, Zenon DEF ProposalMaps
<1>3. q.status = "voting" /\ q.total = p.total
  BY <1>2, Zenon DEF q, Activated, Proposals
<1>4. r.proposals[id] = q /\ \A i \in Ids \ {id} : r.proposals[i] = g.proposals[i]
  BY <1>1, Fields, Zenon DEF ProposalMaps
<1>5. Only(r, g, id)
  <2>1. ASSUME NEW i \in Ids \ {id}, NEW t \in Int
        PROVE  /\ <<t, i>> \in r.inactive <=> <<t, i>> \in g.inactive
               /\ <<t, i>> \in r.active <=> <<t, i>> \in g.active
    <3>1. \A u : <<t, i>> # <<u, id>>
      BY Entries, Zenon
    <3>2. r.inactive = g.inactive \ {<<p.depositEnd, id>>} /\ r.active = g.active \cup {<<q.end, id>>}
      BY <1>1, Zenon
    <3> QED
      BY <3>1, <3>2, Zenon
  <2>2. r.deposits = g.deposits /\ r.votes = g.votes
    BY <1>1, Zenon
  <2> QED
    BY <1>4, <2>1, <2>2, Zenon DEF Only
<1>6. QueuedAt(r, id)
  <2>1. "voting" # "deposit"
    OBVIOUS
  <2>2. \A t \in Int : /\ <<t, id>> \in g.inactive <=> t = p.depositEnd
                       /\ ~(<<t, id>> \in g.active)
    BY <2>1, Zenon DEF QueuedAt
  <2> SUFFICES ASSUME NEW t \in Int
               PROVE  /\ ~(<<t, id>> \in r.inactive)
                      /\ <<t, id>> \in r.active <=> t = q.end
    BY <1>3, <1>4, <2>1, Zenon DEF QueuedAt
  <2> QED
    BY <1>1, <2>2, Entries, Zenon
<1> QED
  BY <1>1, <1>3, <1>4, <1>5, <1>6, ZenonT(60)

\* AddDeposit, once the coins are paid: a proposal with enough of them is activated.
Moved(g, id) ==
    IF g.proposals[id].status = "deposit"
        /\ g.proposals[id].total >= GetMinimumDeposit(g.proposals[id].expedited)
    THEN ActivateVotingPeriod(g, id) ELSE g

\* AddDeposit up to the deposit's record.
LEMMA PaidMoves ==
    ASSUME NEW g \in GovStates, Queued(g), NEW id \in Ids, NEW d \in Depositors, NEW amount \in Int,
           clock \in Int, Open(g, id), NEW r, r = Moved(Paid(g, id, d, amount), id)
    PROVE  /\ r \in GovStates /\ Only(r, g, id) /\ QueuedAt(r, id) /\ Open(r, id)
           /\ r.proposals[id].total = g.proposals[id].total + amount
           /\ r.pot = g.pot + amount /\ r.burned = g.burned
           /\ r.purse = [g.purse EXCEPT ![d] = @ - amount]
           /\ r.deposits = g.deposits
<1> DEFINE p == Paid(g, id, d, amount)
<1>1. /\ p \in GovStates
      /\ p.pot = g.pot + amount
      /\ p.purse = [g.purse EXCEPT ![d] = @ - amount]
      /\ p.proposals[id] = [g.proposals[id] EXCEPT !.total = @ + amount]
      /\ \A i \in Ids \ {id} : p.proposals[i] = g.proposals[i]
      /\ p.burned = g.burned /\ p.deposits = g.deposits /\ p.votes = g.votes
      /\ p.inactive = g.inactive /\ p.active = g.active /\ p.period = g.period
  BY PaidIs, SMTT(30)
<1> HIDE DEF p
<1>2. g.proposals[id] \in Proposals
  BY Fields, Zenon DEF ProposalMaps
<1>3. /\ p.proposals[id].status = g.proposals[id].status
      /\ p.proposals[id].total = g.proposals[id].total + amount
      /\ p.proposals[id].depositEnd = g.proposals[id].depositEnd
      /\ p.proposals[id].end = g.proposals[id].end
  <2> DEFINE q == g.proposals[id]
  <2>1. p.proposals[id] = [q EXCEPT !.total = @ + amount] /\ q \in Proposals
    BY <1>1, <1>2, Zenon
  <2> HIDE DEF q
  <2>2. /\ p.proposals[id].status = q.status
        /\ p.proposals[id].total = q.total + amount
        /\ p.proposals[id].depositEnd = q.depositEnd
        /\ p.proposals[id].end = q.end
    BY <2>1, Zenon DEF Proposals
  <2> QED
    BY <2>2, Zenon DEF q
<1>4. Only(p, g, id)
  BY <1>1, Zenon DEF Only
<1>5. QueuedAt(p, id)
  <2>1. QueuedAt(g, id)
    BY Zenon DEF Queued
  <2>2. p.inactive = g.inactive /\ p.active = g.active /\ p.votes = g.votes
    BY <1>1, Zenon
  <2> QED
    BY <1>3, <2>1, <2>2, Zenon DEF QueuedAt
<1>6. Open(p, id)
  BY <1>3, Zenon DEF Open
<1>7. r = p \/ (p.proposals[id].status = "deposit" /\ r = ActivateVotingPeriod(p, id))
  BY Zenon DEF Moved, p
<1>8. CASE r = p
  BY <1>1, <1>3, <1>4, <1>5, <1>6, <1>8, Zenon
<1>9. CASE p.proposals[id].status = "deposit" /\ r = ActivateVotingPeriod(p, id)
  <2>0. p \in GovStates
    BY <1>1, ZenonT(60)
  <2>2. /\ Only(r, p, id) /\ QueuedAt(r, id)
        /\ r.proposals[id].status = "voting" /\ r.proposals[id].total = p.proposals[id].total
        /\ r \in GovStates
        /\ r.pot = p.pot /\ r.burned = p.burned /\ r.deposits = p.deposits /\ r.purse = p.purse
    BY <2>0, <1>5, <1>9, ActivateQueued, SMTT(30)
  <2>3. Only(r, g, id)
    BY <1>4, <2>2, Zenon DEF Only
  <2>4. Open(r, id)
    BY <2>2, Zenon DEF Open
  <2>5. /\ r.pot = g.pot + amount /\ r.burned = g.burned
        /\ r.purse = [g.purse EXCEPT ![d] = @ - amount]
        /\ r.deposits = g.deposits
    BY <1>1, <2>2, Zenon
  <2>6. r.proposals[id].total = g.proposals[id].total + amount
    BY <1>3, <2>2, Zenon
  <2> QED
    BY <2>2, <2>3, <2>4, <2>5, <2>6, Zenon
<1> QED
  BY <1>7, <1>8, <1>9, Zenon

\* A deposit keeps the store sound.
LEMMA AddDepositSound ==
    ASSUME NEW g, Sound(g), NEW id \in Ids, NEW d \in Depositors, NEW amount \in Int,
           clock \in Int, Open(g, id)
    PROVE  Sound(AddDeposit(g, id, d, amount))
<1> DEFINE n == Moved(Paid(g, id, d, amount), id)
           row == [g.deposits[id] EXCEPT ![d] = @ + amount]
           ds == [g.deposits EXCEPT ![id] = row]
           r == AddDeposit(g, id, d, amount)
<1>1. g \in GovStates /\ Held(g) /\ Queued(g)
  BY ZenonT(60) DEF Sound
<1>2. /\ n \in GovStates /\ Only(n, g, id) /\ QueuedAt(n, id) /\ Open(n, id)
      /\ n.proposals[id].total = g.proposals[id].total + amount
      /\ n.pot = g.pot + amount /\ n.burned = g.burned
      /\ n.purse = [g.purse EXCEPT ![d] = @ - amount]
      /\ n.deposits = g.deposits
  <2>1. n = Moved(Paid(g, id, d, amount), id)
    BY Zenon
  <2> HIDE DEF n
  <2> QED
    BY <1>1, <2>1, PaidMoves, SMTT(30)
<1>3. r = [n EXCEPT !.deposits[id][d] = @ + amount]
  BY Zenon DEF AddDeposit, Moved, Paid
<1> HIDE DEF n, r
<1>4. /\ g.deposits \in DepositMaps /\ g.deposits[id] \in Purses /\ g.purse \in Purses
      /\ g.proposals[id] \in Proposals
  BY <1>1, Fields, ZenonT(60) DEF DepositMaps, ProposalMaps
<1>5. row \in Purses /\ row[d] = g.deposits[id][d] + amount
      /\ \A x \in Depositors \ {d} : row[x] = g.deposits[id][x]
  BY <1>4 DEF Purses
<1> HIDE DEF row
<1>6. ds \in DepositMaps /\ ds[id] = row /\ \A i \in Ids \ {id} : ds[i] = g.deposits[i]
  BY <1>4, <1>5, Zenon DEF DepositMaps
<1>7. r = [n EXCEPT !.deposits = ds]
  BY <1>2, <1>3, Zenon DEF row
<1> HIDE DEF ds
<1>8. /\ r.deposits = ds /\ r.proposals = n.proposals /\ r.votes = n.votes
      /\ r.inactive = n.inactive /\ r.active = n.active
      /\ r.purse = n.purse /\ r.pot = n.pot /\ r.burned = n.burned
  BY <1>2, <1>7, Zenon DEF GovStates
<1>9. r \in GovStates
  BY <1>2, <1>6, <1>7, Zenon DEF GovStates
<1>10. Only(r, g, id)
  BY <1>2, <1>6, <1>8, Zenon DEF Only
<1>11. QueuedAt(r, id) /\ Open(r, id)
  <2>1. QueuedAt(n, id) /\ Open(n, id)
    BY <1>2, Zenon
  <2> QED
    BY <1>8, <2>1, Zenon DEF QueuedAt, Open
<1>12. Total(r, id) = Total(g, id) + amount
  <2>1. ChangesAt(g.deposits[id], row, d, Depositors)
    BY <1>4, <1>5, ZenonT(60) DEF ChangesAt, Purses
  <2>2. SumFunctionOnSet(row, Depositors)
          = SumFunctionOnSet(g.deposits[id], Depositors) - g.deposits[id][d] + row[d]
    BY <1>1, <2>1, SumsAreInt, SumUpdate, SMT
  <2>3. g.deposits[id][d] \in Int /\ Total(g, id) \in Int
    BY <1>1, <1>4, SumsAreInt, Zenon DEF Purses
  <2>4. Total(r, id) = Total(g, id) - g.deposits[id][d] + (g.deposits[id][d] + amount)
    BY <1>5, <1>6, <1>8, <2>2, ZenonT(60) DEF Total
  <2> QED
    BY <2>3, <2>4
<1>13. SumFunctionOnSet(r.purse, Depositors) = SumFunctionOnSet(g.purse, Depositors) - amount
  <2>1. ChangesAt(g.purse, r.purse, d, Depositors) /\ r.purse[d] = g.purse[d] - amount
    <3>1. r.purse = [g.purse EXCEPT ![d] = @ - amount]
      BY <1>2, <1>8, ZenonT(60)
    <3> QED
      BY <1>4, <3>1 DEF ChangesAt, Purses
  <2>2. SumFunctionOnSet(r.purse, Depositors)
          = SumFunctionOnSet(g.purse, Depositors) - g.purse[d] + r.purse[d]
    BY <1>1, <2>1, SumsAreInt, SumUpdate, SMT
  <2>3. g.purse[d] \in Int /\ SumFunctionOnSet(g.purse, Depositors) \in Int
    BY <1>1, <1>4, SumsAreInt, Zenon DEF Purses
  <2> QED
    BY <2>1, <2>2, <2>3
<1>14. r.pot = g.pot + amount /\ r.burned = g.burned
  BY <1>2, <1>8, Zenon
<1>15. Coins(r) = Coins(g)
  <2>1. SumFunctionOnSet(g.purse, Depositors) \in Int /\ g.pot \in Int /\ g.burned \in Int
    BY <1>1, SumsAreInt, Zenon
  <2> QED
    BY <1>13, <1>14, <2>1, SMT DEF Coins
<1>16. r.pot = g.pot - Total(g, id) + Total(r, id)
  <2>1. g.pot \in Int /\ Total(g, id) \in Int
    BY <1>1, SumsAreInt, Zenon
  <2> QED
    BY <1>12, <1>14, <2>1
<1>17. HeldFor(r, id)
  <2>1. HeldFor(g, id)
    BY <1>1, Zenon DEF Held
  <2>2. Total(g, id) = g.proposals[id].total
    BY <2>1, Zenon DEF HeldFor
  <2>3. r.proposals[id].total = g.proposals[id].total + amount
    BY <1>2, <1>8, Zenon
  <2> QED
    BY <1>11, <1>12, <2>2, <2>3, Zenon DEF HeldFor
<1>18. Held(r)
  BY <1>1, <1>9, <1>10, <1>15, <1>16, <1>17, HeldStep, Zenon
<1>19. Queued(r)
  BY <1>1, <1>10, <1>11, QueuedStep, Zenon
<1> QED
  BY <1>9, <1>18, <1>19, Zenon DEF Sound, r

\* A new proposal waits for deposits.
Submitted(expedited) ==
    [NoProposal EXCEPT !.status = "deposit", !.expedited = expedited,
                       !.depositEnd = clock + MaxDepositPeriod]

\* The time for deposits ends at a time.
LEMMA DepositEndIsInt == clock \in Int => clock + MaxDepositPeriod \in Int
<1>1. MaxDepositPeriod \in Nat
  BY GovAssumption, Zenon
<1> QED
  BY <1>1

\* Its submission keeps the store sound.
LEMMA SubmitSound ==
    ASSUME NEW g, Sound(g), NEW id \in Ids, NEW expedited \in BOOLEAN, clock \in Int,
           g.proposals[id].status = "none"
    PROVE  /\ Sound(SubmitProposalWithExpedite(g, id, expedited))
           /\ Open(SubmitProposalWithExpedite(g, id, expedited), id)
           /\ SubmitProposalWithExpedite(g, id, expedited).purse = g.purse
<1> DEFINE end == clock + MaxDepositPeriod
           q == Submitted(expedited)
           ps == [g.proposals EXCEPT ![id] = q]
           in == g.inactive \cup {<<end, id>>}
           r == SubmitProposalWithExpedite(g, id, expedited)
<1>1. g \in GovStates /\ Held(g) /\ Queued(g)
  BY Zenon DEF Sound
<1>2. end \in Int
  BY DepositEndIsInt, Zenon
<1>3. r = [g EXCEPT !.proposals = ps, !.inactive = in]
  BY Zenon DEF SubmitProposalWithExpedite, Submitted
<1>4. q = [NoProposal EXCEPT !.status = "deposit", !.expedited = expedited, !.depositEnd = end]
  BY Zenon DEF Submitted
<1> HIDE DEF end, q, r
<1>5. q \in Proposals /\ q.status = "deposit" /\ q.total = 0 /\ q.depositEnd = end
  <2>1. NoProposal \in Proposals /\ NoProposal.total = 0
    BY DEF NoProposal, Proposals
  <2> QED
    BY <1>2, <1>4, <2>1, Zenon DEF Proposals
<1>6. ps \in ProposalMaps /\ ps[id] = q /\ \A i \in Ids \ {id} : ps[i] = g.proposals[i]
  <2>1. g.proposals \in ProposalMaps
    BY <1>1, Fields, Zenon
  <2> QED
    BY <1>5, <2>1, Zenon DEF ProposalMaps
<1>7. in \in Queues
  <2>1. <<end, id>> \in Int \X Ids
    BY <1>2
  <2> QED
    BY <1>1, <2>1, Fields, Zenon DEF Queues
<1>8. \A t \in Int : \A i \in Ids :
         <<t, i>> \in in <=> <<t, i>> \in g.inactive \/ (i = id /\ t = end)
  BY Entries, Zenon
<1> HIDE DEF ps, in
<1>9. /\ r.proposals = ps /\ r.inactive = in /\ r.active = g.active /\ r.votes = g.votes
      /\ r.deposits = g.deposits /\ r.purse = g.purse /\ r.pot = g.pot /\ r.burned = g.burned
  BY <1>1, <1>3, Zenon DEF GovStates
<1>10. r \in GovStates
  BY <1>1, <1>3, <1>6, <1>7, Zenon DEF GovStates
<1>11. Only(r, g, id)
  BY <1>6, <1>8, <1>9, Zenon DEF Only
<1>12. Open(r, id)
  BY <1>5, <1>6, <1>9, Zenon DEF Open
<1>13. Total(g, id) = 0 /\ Total(r, id) = Total(g, id)
  <2>1. HeldFor(g, id)
    BY <1>1, Zenon DEF Held
  <2>2. ~Open(g, id)
    BY DEF Open
  <2> QED
    BY <1>9, <2>1, <2>2, Zenon DEF HeldFor, Total
<1>14. HeldFor(r, id)
  BY <1>5, <1>6, <1>9, <1>12, <1>13, Zenon DEF HeldFor
<1>15. Coins(r) = Coins(g)
  BY <1>9, Zenon DEF Coins
<1>16. r.pot = g.pot - Total(g, id) + Total(r, id)
  <2>1. g.pot \in Int
    BY <1>1, Fields, Zenon
  <2> QED
    BY <1>9, <1>13, <2>1
<1>17. QueuedAt(r, id)
  <2>1. QueuedAt(g, id)
    BY <1>1, Zenon DEF Queued
  <2>2. "none" # "deposit" /\ "none" # "voting" /\ "deposit" # "voting"
    OBVIOUS
  <2>3. g.votes[id] = NoVotes /\ \A t \in Int : <<t, id>> \notin g.inactive /\ <<t, id>> \notin g.active
    BY <2>1, <2>2, Zenon DEF QueuedAt
  <2>4. r.proposals[id] = q /\ r.votes[id] = NoVotes
    BY <1>6, <1>9, <2>3, Zenon
  <2>5. \A t \in Int : <<t, id>> \notin r.active /\ (<<t, id>> \in r.inactive <=> t = q.depositEnd)
    BY <1>5, <1>8, <1>9, <2>3, Zenon
  <2> QED
    BY <1>5, <2>2, <2>4, <2>5, Zenon DEF QueuedAt
<1>18. Held(r) /\ Queued(r)
  BY <1>1, <1>10, <1>11, <1>14, <1>15, <1>16, <1>17, HeldStep, QueuedStep, Zenon
<1> QED
  BY <1>9, <1>10, <1>12, <1>18, Zenon DEF Sound, r

\* So does a vote on a proposal in its voting period.
LEMMA VoteSound ==
    ASSUME NEW g, Sound(g), NEW id \in Ids, NEW v \in Delegators, NEW option \in Options,
           g.proposals[id].status = "voting"
    PROVE  Sound([g EXCEPT !.votes[id][v] = option])
<1> DEFINE row == [g.votes[id] EXCEPT ![v] = option]
           vs == [g.votes EXCEPT ![id] = row]
           r == [g EXCEPT !.votes[id][v] = option]
<1>1. g \in GovStates /\ Held(g) /\ Queued(g)
  BY Zenon DEF Sound
<1>2. g.votes \in VoteMaps
  BY <1>1, Fields, Zenon
<1>3. vs \in VoteMaps /\ \A i \in Ids \ {id} : vs[i] = g.votes[i]
  BY <1>2, Zenon DEF VoteMaps
<1>4. r = [g EXCEPT !.votes = vs]
  BY Zenon
<1> HIDE DEF vs, r
<1>5. /\ r.votes = vs /\ r.proposals = g.proposals /\ r.inactive = g.inactive /\ r.active = g.active
      /\ r.deposits = g.deposits /\ r.purse = g.purse /\ r.pot = g.pot /\ r.burned = g.burned
  BY <1>1, <1>4, Zenon DEF GovStates
<1>6. r \in GovStates
  BY <1>1, <1>3, <1>4, Zenon DEF GovStates
<1>7. Only(r, g, id)
  BY <1>3, <1>5, Zenon DEF Only
<1>8. Total(r, id) = Total(g, id) /\ Coins(r) = Coins(g)
  BY <1>5, Zenon DEF Total, Coins
<1>9. HeldFor(r, id)
  <2>1. HeldFor(g, id)
    BY <1>1, Zenon DEF Held
  <2> QED
    BY <1>5, <1>8, <2>1, Zenon DEF HeldFor, Open
<1>10. r.pot = g.pot - Total(g, id) + Total(r, id)
  <2>1. g.pot \in Int /\ Total(g, id) \in Int
    BY <1>1, SumsAreInt, Zenon
  <2> QED
    BY <1>5, <1>8, <2>1
<1>11. QueuedAt(r, id)
  <2>1. QueuedAt(g, id)
    BY <1>1, Zenon DEF Queued
  <2> QED
    BY <1>5, <2>1, Zenon DEF QueuedAt
<1>12. Held(r) /\ Queued(r)
  BY <1>1, <1>6, <1>7, <1>8, <1>9, <1>10, <1>11, HeldStep, QueuedStep, Zenon
<1> QED
  BY <1>6, <1>12, Zenon DEF Sound, r

-----------------------------------------------------------------------------
(* The end of a proposal.                                                  *)

\* Deposits that are paid out, to whomever, leave the account and no coin is lost.
PaidFrom(r, g, id) ==
    /\ r \in GovStates
    /\ Total(r, id) = 0 /\ r.pot = g.pot - Total(g, id) /\ Coins(r) = Coins(g)
    /\ \A i \in Ids \ {id} : r.deposits[i] = g.deposits[i]
    /\ r.proposals = g.proposals /\ r.votes = g.votes /\ r.inactive = g.inactive
    /\ r.active = g.active /\ r.period = g.period

\* So do both ways of paying them out.
LEMMA PaidOut ==
    ASSUME NEW g \in GovStates, NEW id \in Ids, NEW r,
           r = DeleteDeposits(g, id) \/ r = RefundDeposits(g, id)
    PROVE  PaidFrom(r, g, id)
<1>1. /\ r \in GovStates
      /\ r.pot = g.pot - Total(g, id)
      /\ r.deposits = [g.deposits EXCEPT ![id] = Cleared]
      /\ r.proposals = g.proposals /\ r.votes = g.votes /\ r.inactive = g.inactive
      /\ r.active = g.active /\ r.period = g.period
  <2>1. CASE r = DeleteDeposits(g, id)
    BY <2>1, DeleteDepositsIs, Zenon DEF Burned
  <2>2. CASE r = RefundDeposits(g, id)
    BY <2>2, RefundDepositsIs, Zenon DEF Refunded
  <2> QED
    BY <2>1, <2>2, Zenon
<1>2. r.deposits[id] = Cleared /\ \A i \in Ids \ {id} : r.deposits[i] = g.deposits[i]
  <2>1. g.deposits \in DepositMaps
    BY Fields, Zenon
  <2> QED
    BY <1>1, <2>1, Zenon DEF DepositMaps
<1>3. Total(r, id) = 0
  <2>1. \A d \in Depositors : Cleared[d] = 0
    BY Zenon DEF Cleared
  <2>2. IsFiniteSet(Depositors)
    BY GovAssumption, Zenon
  <2>3. SumFunctionOnSet(Cleared, Depositors) = 0
    BY <2>1, <2>2, SumZero, Zenon
  <2> QED
    BY <1>2, <2>3, Zenon DEF Total
<1>4. Coins(r) = Coins(g)
  <2> DEFINE s == SumFunctionOnSet(g.purse, Depositors)
             n == Total(g, id)
  <2>1. s \in Int /\ n \in Int /\ g.pot \in Int /\ g.burned \in Int
    BY SumsAreInt, Zenon
  <2>2. CASE r = DeleteDeposits(g, id)
    <3>1. r.pot = g.pot - n /\ r.burned = g.burned + n /\ r.purse = g.purse
      BY <2>2, DeleteDepositsIs, Zenon DEF Burned
    <3>2. Coins(r) = s + (g.pot - n) + (g.burned + n) /\ Coins(g) = s + g.pot + g.burned
      BY <3>1, Zenon DEF Coins
    <3> HIDE DEF s, n
    <3> QED
      BY <2>1, <3>2
  <2>3. CASE r = RefundDeposits(g, id)
    <3>1. /\ r.pot = g.pot - n /\ r.burned = g.burned
          /\ r.purse = [d \in Depositors |-> g.purse[d] + g.deposits[id][d]]
      BY <2>3, RefundDepositsIs, Zenon DEF Refunded
    <3>2. \A d \in Depositors : /\ g.purse[d] \in Int /\ g.deposits[id][d] \in Int
                                /\ r.purse[d] = g.purse[d] + g.deposits[id][d]
      <4>1. g.purse \in Purses /\ g.deposits[id] \in Purses
        BY Fields, Zenon DEF DepositMaps
      <4> QED
        BY <3>1, <4>1, Zenon DEF Purses
    <3>3. IsFiniteSet(Depositors)
      BY GovAssumption, Zenon
    <3>4. SumFunctionOnSet(r.purse, Depositors) = s + n
      BY <3>2, <3>3, SumPlus, Zenon DEF Total
    <3>5. Coins(r) = (s + n) + (g.pot - n) + g.burned /\ Coins(g) = s + g.pot + g.burned
      BY <3>1, <3>4, Zenon DEF Coins
    <3> HIDE DEF s, n
    <3> QED
      BY <2>1, <3>5
  <2> QED
    BY <2>2, <2>3, Zenon
<1> QED
  BY <1>1, <1>2, <1>3, <1>4, Zenon DEF PaidFrom

\* A proposal that is done: its deposits are paid out, its votes are deleted
\* and no queue holds it.
Done(r, g, id) ==
    /\ r \in GovStates
    /\ Total(r, id) = 0 /\ r.pot = g.pot - Total(g, id) /\ Coins(r) = Coins(g)
    /\ r.proposals[id].status \notin {"deposit", "voting"}
    /\ r.votes[id] = NoVotes
    /\ Only(r, g, id)
    /\ \A t \in Int : <<t, id>> \notin r.inactive /\ <<t, id>> \notin r.active

\* It leaves a sound store.
LEMMA DoneSound ==
    ASSUME NEW g, Sound(g), NEW id \in Ids, NEW r, Done(r, g, id)
    PROVE  Sound(r)
<1>1. g \in GovStates /\ Held(g) /\ Queued(g)
  BY Zenon DEF Sound
<1>2. r \in GovStates /\ Only(r, g, id) /\ Coins(r) = Coins(g)
  BY Zenon DEF Done
<1>3. r.pot = g.pot - Total(g, id) + Total(r, id)
  <2>1. Total(r, id) = 0 /\ r.pot = g.pot - Total(g, id)
    BY Zenon DEF Done
  <2>2. g.pot \in Int /\ Total(g, id) \in Int
    BY <1>1, SumsAreInt, Zenon
  <2> QED
    BY <2>1, <2>2
<1>4. HeldFor(r, id)
  BY Zenon DEF Done, HeldFor, Open
<1>5. QueuedAt(r, id)
  BY Zenon DEF Done, QueuedAt
<1> QED
  BY <1>1, <1>2, <1>3, <1>4, <1>5, HeldStep, QueuedStep, Zenon DEF Sound

\* A proposal whose time for deposits is over is done.
LEMMA DropDone ==
    ASSUME NEW g \in GovStates, NEW id \in Ids
    PROVE  /\ Drop(g, id) \in GovStates
           /\ QueuedAt(g, id) /\ g.proposals[id].status = "deposit" => Done(Drop(g, id), g, id)
<1> DEFINE p == g.proposals[id]
           q == [NoProposal EXCEPT !.status = "deleted"]
           ps == [g.proposals EXCEPT ![id] = q]
           in == g.inactive \ {<<p.depositEnd, id>>}
           ac == g.active \ {<<p.end, id>>}
           h == [g EXCEPT !.proposals = ps, !.inactive = in, !.active = ac]
<1> SUFFICES ASSUME NEW r, r = DeleteDeposits(h, id)
             PROVE  r \in GovStates /\ (QueuedAt(g, id) /\ p.status = "deposit" => Done(r, g, id))
  BY Zenon DEF Drop
<1>1. q \in Proposals /\ q.status = "deleted"
  <2>1. NoProposal \in Proposals
    BY DEF NoProposal, Proposals
  <2> QED
    BY <2>1, Zenon DEF Proposals
<1> HIDE DEF q
<1>2. ps \in ProposalMaps /\ ps[id] = q /\ \A i \in Ids \ {id} : ps[i] = g.proposals[i]
  <2>1. g.proposals \in ProposalMaps
    BY Fields, Zenon
  <2> QED
    BY <1>1, <2>1, Zenon DEF ProposalMaps
<1>3. in \in Queues /\ ac \in Queues
  BY Fields, Zenon DEF Queues
<1>4. \A t \in Int : \A i \in Ids :
         /\ <<t, i>> \in in <=> <<t, i>> \in g.inactive /\ ~(t = p.depositEnd /\ i = id)
         /\ <<t, i>> \in ac <=> <<t, i>> \in g.active /\ ~(t = p.end /\ i = id)
  BY Entries, Zenon
<1> HIDE DEF ps, in, ac
<1>5. /\ h.proposals = ps /\ h.inactive = in /\ h.active = ac
      /\ h.deposits = g.deposits /\ h.votes = g.votes /\ h.pot = g.pot /\ h.burned = g.burned
      /\ h.purse = g.purse
  BY Zenon DEF GovStates
<1>6. h \in GovStates
  BY <1>2, <1>3, Zenon DEF GovStates
<1> HIDE DEF h
<1>7. /\ r \in GovStates
      /\ Total(r, id) = 0 /\ r.pot = h.pot - Total(h, id) /\ Coins(r) = Coins(h)
      /\ \A i \in Ids \ {id} : r.deposits[i] = h.deposits[i]
      /\ r.proposals = h.proposals /\ r.votes = h.votes /\ r.inactive = h.inactive
      /\ r.active = h.active
  <2>1. PaidFrom(r, h, id)
    BY <1>6, PaidOut, Zenon
  <2> QED
    BY <2>1, Zenon DEF PaidFrom
<1>8. ASSUME QueuedAt(g, id), p.status = "deposit"
      PROVE  Done(r, g, id)
  <2>1. Total(h, id) = Total(g, id) /\ Coins(h) = Coins(g)
    BY <1>5, Zenon DEF Total, Coins
  <2>2. r.pot = g.pot - Total(g, id) /\ Coins(r) = Coins(g)
    BY <1>5, <1>7, <2>1, Zenon
  <2>3. Only(r, g, id)
    <3>1. \A i \in Ids \ {id} : /\ r.proposals[i] = g.proposals[i] /\ r.votes[i] = g.votes[i]
                                /\ r.deposits[i] = g.deposits[i]
      BY <1>2, <1>5, <1>7, Zenon
    <3>2. r.inactive = in /\ r.active = ac
      BY <1>5, <1>7, Zenon
    <3> QED
      BY <1>4, <3>1, <3>2, Zenon DEF Only
  <2>4. r.proposals[id].status = "deleted" /\ r.votes[id] = g.votes[id]
    BY <1>1, <1>2, <1>5, <1>7, Zenon
  <2>5. g.votes[id] = NoVotes
    <3>1. "deposit" # "voting"
      OBVIOUS
    <3> QED
      BY <1>8, <3>1, Zenon DEF QueuedAt
  <2>6. \A t \in Int : <<t, id>> \notin r.inactive /\ <<t, id>> \notin r.active
    <3>1. \A t \in Int : /\ <<t, id>> \in g.inactive => t = p.depositEnd
                         /\ <<t, id>> \in g.active => t = p.end
      BY <1>8, Zenon DEF QueuedAt
    <3>2. r.inactive = in /\ r.active = ac
      BY <1>5, <1>7, Zenon
    <3> QED
      BY <1>4, <3>1, <3>2, Zenon
  <2>7. "deleted" \notin {"deposit", "voting"}
    OBVIOUS
  <2> QED
    BY <1>7, <2>2, <2>3, <2>4, <2>5, <2>6, <2>7, Zenon DEF Done
<1> QED
  BY <1>7, <1>8, Zenon

\* The votes are deleted, and the proposal leaves the queue.
Counted(g, id, t) == [g EXCEPT !.votes[id] = NoVotes, !.active = @ \ {<<t, id>>}]

\* Nothing else changes.
IsCounted(c, g, id, t) ==
    /\ c \in GovStates
    /\ c.votes[id] = NoVotes /\ \A i \in Ids \ {id} : c.votes[i] = g.votes[i]
    /\ c.active = g.active \ {<<t, id>>}
    /\ c.proposals = g.proposals /\ c.deposits = g.deposits /\ c.inactive = g.inactive
    /\ c.period = g.period /\ c.purse = g.purse /\ c.pot = g.pot /\ c.burned = g.burned

\* So it is.
LEMMA CountedIs ==
    ASSUME NEW g \in GovStates, NEW id \in Ids, NEW t
    PROVE  IsCounted(Counted(g, id, t), g, id, t)
<1> DEFINE vs == [g.votes EXCEPT ![id] = NoVotes]
           ac == g.active \ {<<t, id>>}
<1> SUFFICES ASSUME NEW c, c = [g EXCEPT !.votes = vs, !.active = ac] PROVE IsCounted(c, g, id, t)
  BY Zenon DEF Counted
<1>1. vs \in VoteMaps /\ vs[id] = NoVotes /\ \A i \in Ids \ {id} : vs[i] = g.votes[i]
  <2>1. g.votes \in VoteMaps
    BY Fields, Zenon
  <2>2. NoVotes \in [Delegators -> Options \cup {NoVote}]
    BY Zenon DEF NoVotes
  <2> QED
    BY <2>1, <2>2, Zenon DEF VoteMaps
<1>2. ac \in Queues
  BY Fields, Zenon DEF Queues
<1> HIDE DEF vs, ac
<1>3. /\ c.votes = vs /\ c.active = ac
      /\ c.proposals = g.proposals /\ c.deposits = g.deposits /\ c.inactive = g.inactive
      /\ c.period = g.period /\ c.purse = g.purse /\ c.pot = g.pot /\ c.burned = g.burned
  BY Zenon DEF GovStates
<1>4. c \in GovStates
  BY <1>1, <1>2, Zenon DEF GovStates
<1> QED
  BY <1>1, <1>3, <1>4, Zenon DEF IsCounted, ac

\* A proposal gets its last status, and the setting may change.
IsClosed(r, c, id, s) ==
    /\ r \in GovStates
    /\ r.proposals[id].status = s /\ \A i \in Ids \ {id} : r.proposals[i] = c.proposals[i]
    /\ r.votes = c.votes /\ r.active = c.active /\ r.deposits = c.deposits
    /\ r.inactive = c.inactive /\ r.purse = c.purse /\ r.pot = c.pot /\ r.burned = c.burned

\* So it does.
LEMMA ClosedIs ==
    ASSUME NEW c \in GovStates, NEW id \in Ids, NEW s \in {"passed", "failed", "rejected"},
           NEW n \in VotingPeriods
    PROVE  /\ IsClosed([c EXCEPT !.proposals[id].status = s], c, id, s)
           /\ IsClosed([c EXCEPT !.proposals[id].status = s, !.period = n], c, id, s)
<1> DEFINE p == c.proposals[id]
           q == [p EXCEPT !.status = s]
           ps == [c.proposals EXCEPT ![id] = q]
<1>1. c.proposals \in ProposalMaps /\ p \in Proposals
  BY Fields, Zenon DEF ProposalMaps
<1>2. q \in Proposals /\ q.status = s
  <2>1. s \in {"none", "deposit", "voting", "passed", "failed", "rejected", "deleted"}
    BY Zenon
  <2> HIDE DEF p
  <2> QED
    BY <1>1, <2>1, Zenon DEF Proposals
<1>3. ps \in ProposalMaps /\ ps[id].status = s /\ \A i \in Ids \ {id} : ps[i] = c.proposals[i]
  <2> HIDE DEF q
  <2> QED
    BY <1>1, <1>2, Zenon DEF ProposalMaps
<1>4. ASSUME NEW r, r = [c EXCEPT !.proposals = ps] \/ r = [c EXCEPT !.proposals = ps, !.period = n]
      PROVE  IsClosed(r, c, id, s)
  <2> HIDE DEF ps
  <2>1. r \in GovStates
    BY <1>3, <1>4, Zenon DEF GovStates
  <2>2. /\ r.proposals = ps /\ r.votes = c.votes /\ r.active = c.active /\ r.deposits = c.deposits
        /\ r.inactive = c.inactive /\ r.purse = c.purse /\ r.pot = c.pot /\ r.burned = c.burned
    BY <1>4, Zenon DEF GovStates
  <2> QED
    BY <1>3, <2>1, <2>2, Zenon DEF IsClosed
<1> QED
  BY <1>4, Zenon

\* A proposal whose votes are counted and whose deposits are paid out is done.
LEMMA ClosedDone ==
    ASSUME NEW g \in GovStates, NEW id \in Ids, NEW x, PaidFrom(x, g, id),
           NEW c, IsCounted(c, x, id, g.proposals[id].end),
           NEW s \in {"passed", "failed", "rejected"}, NEW r, IsClosed(r, c, id, s),
           QueuedAt(g, id), g.proposals[id].status = "voting"
    PROVE  Done(r, g, id)
<1> DEFINE t == g.proposals[id].end
<1>1. /\ r \in GovStates
      /\ r.deposits = x.deposits /\ r.inactive = x.inactive /\ r.purse = x.purse
      /\ r.pot = x.pot /\ r.burned = x.burned /\ r.votes = c.votes /\ r.active = c.active
  BY Zenon DEF IsClosed, IsCounted
<1>2. Total(r, id) = 0 /\ r.pot = g.pot - Total(g, id) /\ Coins(r) = Coins(g)
  <2>1. Total(r, id) = Total(x, id) /\ Coins(r) = Coins(x)
    BY <1>1, Zenon DEF Total, Coins
  <2> QED
    BY <1>1, <2>1, Zenon DEF PaidFrom
<1>3. r.proposals[id].status \notin {"deposit", "voting"}
  <2>1. s \notin {"deposit", "voting"}
    OBVIOUS
  <2> QED
    BY <2>1, Zenon DEF IsClosed
<1>4. r.votes[id] = NoVotes
  BY <1>1, Zenon DEF IsCounted
<1>5. r.inactive = g.inactive /\ r.active = g.active \ {<<t, id>>}
  BY <1>1, Zenon DEF IsCounted, PaidFrom
<1>6. \A u \in Int : \A i \in Ids :
         /\ <<u, i>> \in r.inactive <=> <<u, i>> \in g.inactive
         /\ <<u, i>> \in r.active <=> <<u, i>> \in g.active /\ ~(u = t /\ i = id)
  BY <1>5, Entries, Zenon
<1>7. Only(r, g, id)
  <2>1. \A i \in Ids \ {id} : r.proposals[i] = g.proposals[i] /\ r.votes[i] = g.votes[i]
    <3>1. \A i \in Ids \ {id} : r.proposals[i] = c.proposals[i] /\ c.votes[i] = x.votes[i]
      BY Zenon DEF IsClosed, IsCounted
    <3>2. c.proposals = x.proposals
      BY Zenon DEF IsCounted
    <3>3. x.proposals = g.proposals /\ x.votes = g.votes
      BY Zenon DEF PaidFrom
    <3> QED
      BY <1>1, <3>1, <3>2, <3>3, Zenon
  <2>2. \A i \in Ids \ {id} : r.deposits[i] = g.deposits[i]
    BY <1>1, Zenon DEF PaidFrom
  <2> QED
    BY <1>6, <2>1, <2>2, Zenon DEF Only
<1>8. \A u \in Int : <<u, id>> \notin r.inactive /\ <<u, id>> \notin r.active
  <2>1. "voting" # "deposit"
    OBVIOUS
  <2>2. \A u \in Int : <<u, id>> \notin g.inactive /\ (<<u, id>> \in g.active => u = t)
    BY <2>1, Zenon DEF QueuedAt
  <2> QED
    BY <1>6, <2>2, Zenon
<1> QED
  BY <1>1, <1>2, <1>3, <1>4, <1>7, <1>8, Zenon DEF Done

\* An expedited proposal that did not pass stays in its voting period, under
\* its new end, and keeps its deposits.
LEMMA ConvertSound ==
    ASSUME NEW g \in GovStates, NEW id \in Ids
    PROVE  LET r == Convert(Counted(g, id, g.proposals[id].end), id)
           IN /\ r \in GovStates
              /\ Sound(g) /\ g.proposals[id].status = "voting" => Sound(r) /\ Only(r, g, id)
<1> DEFINE p == g.proposals[id]
           c == Counted(g, id, p.end)
           end == p.start + g.period
           q == [p EXCEPT !.expedited = FALSE, !.end = end]
           ps == [g.proposals EXCEPT ![id] = q]
           ac == (g.active \ {<<p.end, id>>}) \cup {<<end, id>>}
<1>1. IsCounted(c, g, id, p.end)
  BY CountedIs, Zenon
<1>2. c.proposals = g.proposals /\ c.period = g.period /\ c.active = g.active \ {<<p.end, id>>}
  BY <1>1, Zenon DEF IsCounted
<1> HIDE DEF c
<1> SUFFICES ASSUME NEW r, r = [c EXCEPT !.proposals = ps, !.active = ac]
             PROVE  /\ r \in GovStates
                    /\ Sound(g) /\ p.status = "voting" => Sound(r) /\ Only(r, g, id)
  <2>1. Convert(c, id) = [c EXCEPT !.proposals = ps, !.active = ac]
    BY <1>2, Zenon DEF Convert
  <2> QED
    BY <2>1, Zenon DEF c
<1>3. g.proposals \in ProposalMaps /\ p \in Proposals
  BY Fields, Zenon DEF ProposalMaps
<1>4. end \in Int
  <2>1. p.start \in Int
    BY <1>3, Zenon DEF Proposals
  <2>2. g.period \in Nat
    BY Fields, GovAssumption, Zenon
  <2> HIDE DEF p
  <2> QED
    BY <2>1, <2>2
<1> HIDE DEF end
<1>5. q \in Proposals /\ q.status = p.status /\ q.total = p.total /\ q.end = end
  <2> HIDE DEF p
  <2> QED
    BY <1>3, <1>4, Zenon DEF Proposals
<1> HIDE DEF q
<1>6. ps \in ProposalMaps /\ ps[id] = q /\ \A i \in Ids \ {id} : ps[i] = g.proposals[i]
  BY <1>3, <1>5, Zenon DEF ProposalMaps
<1>7. ac \in Queues
  <2>1. <<end, id>> \in Int \X Ids
    BY <1>4
  <2> QED
    BY <2>1, Fields, Zenon DEF Queues
<1>8. \A t \in Int : \A i \in Ids :
         <<t, i>> \in ac <=> (<<t, i>> \in g.active /\ ~(t = p.end /\ i = id)) \/ (t = end /\ i = id)
  BY Entries, Zenon
<1> HIDE DEF ps, ac
<1>9. /\ r.proposals = ps /\ r.active = ac /\ r.votes = c.votes /\ r.deposits = c.deposits
      /\ r.inactive = c.inactive /\ r.purse = c.purse /\ r.pot = c.pot /\ r.burned = c.burned
  BY <1>1, Zenon DEF IsCounted, GovStates
<1>10. r \in GovStates
  BY <1>1, <1>6, <1>7, Zenon DEF IsCounted, GovStates
<1>11. /\ r.deposits = g.deposits /\ r.inactive = g.inactive /\ r.purse = g.purse
       /\ r.pot = g.pot /\ r.burned = g.burned
       /\ r.votes[id] = NoVotes /\ \A i \in Ids \ {id} : r.votes[i] = g.votes[i]
  BY <1>1, <1>9, Zenon DEF IsCounted
<1>12. Only(r, g, id)
  BY <1>6, <1>8, <1>9, <1>11, Zenon DEF Only
<1>13. ASSUME Sound(g), p.status = "voting" PROVE Sound(r)
  <2>1. Held(g) /\ Queued(g)
    BY <1>13, Zenon DEF Sound
  <2>2. Total(r, id) = Total(g, id) /\ Coins(r) = Coins(g)
    BY <1>11, Zenon DEF Total, Coins
  <2>3. r.pot = g.pot - Total(g, id) + Total(r, id)
    <3>1. g.pot \in Int /\ Total(g, id) \in Int
      BY SumsAreInt, Zenon
    <3> QED
      BY <1>11, <2>2, <3>1
  <2>4. r.proposals[id] = q
    BY <1>6, <1>9, Zenon
  <2>5. HeldFor(r, id)
    <3>1. HeldFor(g, id)
      BY <2>1, Zenon DEF Held
    <3> QED
      BY <1>5, <2>2, <2>4, <3>1, Zenon DEF HeldFor, Open
  <2>6. QueuedAt(r, id)
    <3>1. QueuedAt(g, id)
      BY <2>1, Zenon DEF Queued
    <3>2. "voting" # "deposit"
      OBVIOUS
    <3>3. \A t \in Int : <<t, id>> \notin g.inactive /\ (<<t, id>> \in g.active => t = p.end)
      BY <1>13, <3>1, <3>2, Zenon DEF QueuedAt
    <3>4. \A t \in Int : <<t, id>> \notin r.inactive /\ (<<t, id>> \in r.active <=> t = q.end)
      BY <1>5, <1>8, <1>9, <1>11, <3>3, Zenon
    <3>5. q.status = "voting"
      BY <1>5, <1>13, Zenon
    <3> QED
      BY <1>11, <2>4, <3>2, <3>4, <3>5, Zenon DEF QueuedAt
  <2>7. Held(r) /\ Queued(r)
    BY <1>10, <1>12, <2>1, <2>2, <2>3, <2>5, <2>6, HeldStep, QueuedStep, ZenonT(60)
  <2> QED
    BY <1>10, <2>7, Zenon DEF Sound
<1> QED
  BY <1>10, <1>12, <1>13, Zenon

\* A decision keeps the store sound.
LEMMA DecideSound ==
    ASSUME NEW g \in GovStates, NEW id \in Ids, NEW ok, NEW n \in VotingPeriods
    PROVE  /\ Decide(g, id, ok, n) \in GovStates
           /\ Sound(g) /\ g.proposals[id].status = "voting"
                => Sound(Decide(g, id, ok, n)) /\ Only(Decide(g, id, ok, n), g, id)
<1> DEFINE p == g.proposals[id]
           res == Tally(g.votes[id], p.expedited)
           x == IF res.burn THEN DeleteDeposits(g, id) ELSE RefundDeposits(g, id)
           c == Counted(x, id, p.end)
           r == Decide(g, id, ok, n)
<1>1. CASE p.expedited /\ ~res.passes
  <2>1. r = Convert(Counted(g, id, p.end), id)
    BY <1>1, Zenon DEF Decide, Counted
  <2> HIDE DEF r
  <2> QED
    BY <2>1, ConvertSound, Zenon DEF r
<1>2. CASE ~(p.expedited /\ ~res.passes)
  <2>1. \/ r = [c EXCEPT !.proposals[id].status = "passed", !.period = n]
        \/ r = [c EXCEPT !.proposals[id].status = "failed"]
        \/ r = [c EXCEPT !.proposals[id].status = "rejected"]
    BY <1>2, Zenon DEF Decide, Counted
  <2>2. PaidFrom(x, g, id)
    BY PaidOut, Zenon
  <2> HIDE DEF x
  <2>3. x \in GovStates
    BY <2>2, Zenon DEF PaidFrom
  <2>4. IsCounted(c, x, id, p.end)
    BY <2>3, CountedIs, Zenon
  <2> HIDE DEF c, r
  <2>5. c \in GovStates
    BY <2>4, Zenon DEF IsCounted
  <2>6. PICK s \in {"passed", "failed", "rejected"} : IsClosed(r, c, id, s)
    <3>1. CASE r = [c EXCEPT !.proposals[id].status = "passed", !.period = n]
      <4>1. IsClosed(r, c, id, "passed")
        BY <2>5, <3>1, ClosedIs, Zenon
      <4> QED
        BY <4>1, Zenon
    <3>2. CASE r = [c EXCEPT !.proposals[id].status = "failed"]
      <4>1. IsClosed(r, c, id, "failed")
        BY <2>5, <3>2, ClosedIs, Zenon
      <4> QED
        BY <4>1, Zenon
    <3>3. CASE r = [c EXCEPT !.proposals[id].status = "rejected"]
      <4>1. IsClosed(r, c, id, "rejected")
        BY <2>5, <3>3, ClosedIs, Zenon
      <4> QED
        BY <4>1, Zenon
    <3> QED
      BY <2>1, <3>1, <3>2, <3>3, Zenon
  <2>7. r \in GovStates
    BY <2>6, Zenon DEF IsClosed
  <2>8. ASSUME Sound(g), p.status = "voting" PROVE Sound(r) /\ Only(r, g, id)
    <3>1. QueuedAt(g, id)
      BY <2>8, Zenon DEF Sound, Queued
    <3>2. Done(r, g, id)
      BY <2>2, <2>4, <2>6, <2>8, <3>1, ClosedDone, Zenon
    <3> QED
      BY <2>8, <3>2, DoneSound, Zenon DEF Done
  <2> QED
    BY <2>7, <2>8, Zenon DEF r
<1> QED
  BY <1>1, <1>2, Zenon

-----------------------------------------------------------------------------
(* EndBlocker works off the queues.                                        *)

\* The order of a queue's entries.
Upto(x, e) == x[1] < e[1] \/ (x[1] = e[1] /\ x[2] <= e[2])

\* It is total.
LEMMA UptoIsTotal ==
    ASSUME NEW S, S \subseteq Int \X Ids
    PROVE  /\ \A x, y \in S : Upto(x, y) \/ Upto(y, x)
           /\ \A x, y, z \in S : Upto(x, y) /\ Upto(y, z) => Upto(x, z)
<1>1. \A x \in S : x[1] \in Int /\ x[2] \in Int
  BY GovAssumption DEF Ids
<1> QED
  BY <1>1 DEF Upto

\* A queue has a last entry.
LEMMA LastOfIn ==
    ASSUME NEW S, IsFiniteSet(S), S # {}, S \subseteq Int \X Ids
    PROVE  LastOf(S) \in S
<1> DEFINE P(U) == U # {} => \E e \in U : \A x \in U : Upto(x, e)
           G == {U \in SUBSET S : P(U)}
<1>0. /\ \A x, y \in S : Upto(x, y) \/ Upto(y, x)
      /\ \A x, y, z \in S : Upto(x, y) /\ Upto(y, z) => Upto(x, z)
  BY UptoIsTotal, Zenon
<1>1. ASSUME NEW U \in SUBSET S, \A V \in SUBSET U : V # U => V \in G
      PROVE  U \in G
  <2> SUFFICES ASSUME NEW z \in U PROVE \E e \in U : \A x \in U : Upto(x, e)
    BY Zenon
  <2>1. P(U \ {z})
    <3>1. U \ {z} \in SUBSET U /\ U \ {z} # U
      BY Zenon
    <3>2. U \ {z} \in G
      BY <1>1, <3>1, Zenon
    <3> QED
      BY <3>2, Zenon
  <2>2. CASE U = {z}
    BY <1>0, <2>2, Zenon
  <2>3. CASE U # {z}
    <3>1. PICK e \in U \ {z} : \A x \in U \ {z} : Upto(x, e)
      BY <2>1, <2>3, Zenon
    <3>2. CASE Upto(z, e)
      BY <3>1, <3>2, Zenon
    <3>3. CASE Upto(e, z)
      <4>1. Upto(z, z)
        BY <1>0, Zenon
      <4>2. \A x \in U \ {z} : Upto(x, z)
        BY <1>0, <3>1, <3>3, Zenon
      <4> QED
        BY <4>1, <4>2, Zenon
    <3> QED
      BY <1>0, <3>2, <3>3, Zenon
  <2> QED
    BY <2>2, <2>3, Zenon
<1>2. S \in G
  <2> HIDE DEF G
  <2> QED
    BY <1>1, SubsetInduction, Zenon
<1> QED
  BY <1>2, Zenon DEF LastOf, Upto

\* The handling of an entry of the one queue or the other; the status it is for.
Handle(m, g, id, ok, n) == IF m = "drop" THEN Drop(g, id) ELSE Decide(g, id, ok[id], n)
StatusOf(m) == IF m = "drop" THEN "deposit" ELSE "voting"

\* It keeps the store sound.
LEMMA HandleSound ==
    ASSUME NEW m, NEW g \in GovStates, NEW id \in Ids, NEW ok, NEW n \in VotingPeriods
    PROVE  /\ Handle(m, g, id, ok, n) \in GovStates
           /\ Sound(g) /\ g.proposals[id].status = StatusOf(m)
                => Sound(Handle(m, g, id, ok, n)) /\ Only(Handle(m, g, id, ok, n), g, id)
<1>1. CASE m = "drop"
  <2>1. Drop(g, id) \in GovStates
    BY DropDone, Zenon
  <2>2. ASSUME Sound(g), g.proposals[id].status = "deposit"
        PROVE  Sound(Drop(g, id)) /\ Only(Drop(g, id), g, id)
    <3>1. QueuedAt(g, id)
      BY <2>2, Zenon DEF Sound, Queued
    <3>2. Done(Drop(g, id), g, id)
      BY <2>2, <3>1, DropDone, Zenon
    <3> QED
      BY <2>2, <3>2, DoneSound, Zenon DEF Done
  <2> QED
    BY <1>1, <2>1, <2>2, Zenon DEF Handle, StatusOf
<1>2. CASE m # "drop"
  BY <1>2, DecideSound, Zenon DEF Handle, StatusOf
<1> QED
  BY <1>1, <1>2, Zenon

\* k handles the entries of the subsets of S, the last one last.
Handles(k, m, g, S, ok, n) ==
    k = [s \in SUBSET S |-> IF s = {} THEN g
                            ELSE Handle(m, k[s \ {LastOf(s)}], LastOf(s)[2], ok, n)]

\* The entries of one queue, or of a part of it.
Entered(S) == IsFiniteSet(S) /\ S \in SUBSET (Int \X Ids)

\* There is such a function.
LEMMA HandlesExist ==
    ASSUME NEW m, NEW g \in GovStates, NEW S, Entered(S), NEW ok, NEW n \in VotingPeriods
    PROVE  \E k : Handles(k, m, g, S, ok, n)
<1> DEFINE f == [z \in GovStates \X S |-> Handle(m, z[1], z[2][2], ok, n)]
           c == [s \in SUBSET S |-> LastOf(s)]
<1>1. \A s \in SUBSET S : s # {} => LastOf(s) \in s /\ LastOf(s) \in S /\ LastOf(s)[2] \in Ids
  <2> SUFFICES ASSUME NEW s \in SUBSET S, s # {}
               PROVE  LastOf(s) \in s /\ LastOf(s) \in S /\ LastOf(s)[2] \in Ids
    BY Zenon
  <2>1. IsFiniteSet(s) /\ s \subseteq Int \X Ids
    BY FiniteSubset, Zenon DEF Entered
  <2>2. LastOf(s) \in s
    BY <2>1, LastOfIn, Zenon
  <2>3. \A e \in Int \X Ids : e[2] \in Ids
    OBVIOUS
  <2> QED
    BY <2>1, <2>2, <2>3, Zenon
<1>2. Chooses(c, S)
  BY <1>1, Zenon DEF Chooses
<1>3. \A h \in GovStates : \A e \in S : f[<<h, e>>] = Handle(m, h, e[2], ok, n)
  <2> SUFFICES ASSUME NEW h \in GovStates, NEW e \in S
               PROVE  f[<<h, e>>] = Handle(m, h, e[2], ok, n)
    BY Zenon
  <2>1. <<h, e>> \in GovStates \X S /\ <<h, e>>[1] = h /\ <<h, e>>[2] = e
    BY Zenon
  <2> QED
    BY <2>1, Zenon
<1> HIDE DEF f
<1>4. PICK k : Takes(k, f, c, g, S)
  <2> HIDE DEF c
  <2> QED
    BY <1>2, TakesExist, Zenon DEF Entered
<1>5. k[{}] = g /\ \A s \in SUBSET S : s # {} => k[s] = f[<<k[s \ {LastOf(s)}], LastOf(s)>>]
  BY <1>4, Zenon DEF Takes
<1>6. \A U \in SUBSET S : k[U] \in GovStates
  <2> SUFFICES ASSUME NEW T \in SUBSET S PROVE k[T] \in GovStates
    BY Zenon
  <2> DEFINE G == {U \in SUBSET T : k[U] \in GovStates}
  <2>1. ASSUME NEW U \in SUBSET T, \A V \in SUBSET U : V # U => V \in G
        PROVE  U \in G
    <3>1. CASE U = {}
      BY <1>5, <3>1, Zenon
    <3>2. CASE U # {}
      <4> DEFINE e == LastOf(U)
                 W == U \ {e}
      <4>1. e \in U /\ e \in S /\ e[2] \in Ids
        BY <1>1, <3>2, Zenon
      <4>2. k[W] \in GovStates
        BY <2>1, <4>1, Zenon
      <4>3. k[U] = Handle(m, k[W], e[2], ok, n)
        BY <1>3, <1>5, <3>2, <4>1, <4>2, Zenon
      <4>4. Handle(m, k[W], e[2], ok, n) \in GovStates
        <5> HIDE DEF e, W
        <5> QED
          BY <4>1, <4>2, HandleSound, Zenon
      <4> QED
        BY <4>3, <4>4, Zenon
    <3> QED
      BY <3>1, <3>2, Zenon
  <2>2. T \in G
    <3>1. IsFiniteSet(T)
      BY FiniteSubset, Zenon DEF Entered
    <3> HIDE DEF G
    <3> QED
      BY <2>1, <3>1, SubsetInduction, Zenon
  <2> QED
    BY <2>2, Zenon
<1>7. Handles(k, m, g, S, ok, n)
  <2> DEFINE A(s) == IF s = {} THEN g ELSE f[<<k[s \ {c[s]}], c[s]>>]
             B(s) == IF s = {} THEN g ELSE Handle(m, k[s \ {LastOf(s)}], LastOf(s)[2], ok, n)
  <2>1. \A s \in SUBSET S : A(s) = B(s)
    <3> SUFFICES ASSUME NEW s \in SUBSET S, s # {} PROVE A(s) = B(s)
      BY Zenon
    <3>1. k[s \ {LastOf(s)}] \in GovStates /\ LastOf(s) \in S
      BY <1>1, <1>6, Zenon
    <3> QED
      BY <1>3, <3>1, Zenon
  <2>2. [s \in SUBSET S |-> A(s)] = [s \in SUBSET S |-> B(s)]
    <3> HIDE DEF A, B
    <3> QED
      BY <2>1, Zenon
  <2>3. k = [s \in SUBSET S |-> A(s)]
    BY <1>4, Zenon DEF Takes
  <2> QED
    BY <2>2, <2>3, Zenon DEF Handles
<1> QED
  BY <1>7, Zenon

\* The entries are of proposals of the status, one each.
EntriesOf(m, g, S) ==
    /\ \A e \in S : g.proposals[e[2]].status = StatusOf(m)
    /\ \A e, x \in S : e[2] = x[2] => e = x

\* To work off such entries keeps the store sound.
LEMMA HandlesSound ==
    ASSUME NEW m, NEW g, Sound(g), NEW S, Entered(S), EntriesOf(m, g, S), NEW ok,
           NEW n \in VotingPeriods, NEW k, Handles(k, m, g, S, ok, n)
    PROVE  Sound(k[S])
<1> DEFINE Waits(U) == \A e \in S \ U : k[U].proposals[e[2]] = g.proposals[e[2]]
           G == {U \in SUBSET S : Sound(k[U]) /\ Waits(U)}
<1>1. ASSUME NEW U \in SUBSET S, \A V \in SUBSET U : V # U => V \in G
      PROVE  U \in G
  <2>1. CASE U = {}
    <3>1. k[U] = g
      BY <2>1, Zenon DEF Handles
    <3> QED
      BY <3>1, Zenon
  <2>2. CASE U # {}
    <3> DEFINE e == LastOf(U)
               W == U \ {e}
               h == k[W]
    <3>1. e \in U
      <4>1. IsFiniteSet(U) /\ U \subseteq Int \X Ids
        BY FiniteSubset, Zenon DEF Entered
      <4> QED
        BY <2>2, <4>1, LastOfIn, Zenon
    <3>2. \A x \in S : x[2] \in Ids
      <4>1. \A x \in Int \X Ids : x[2] \in Ids
        OBVIOUS
      <4> QED
        BY <4>1, Zenon DEF Entered
    <3>3. Sound(h) /\ Waits(W)
      <4>1. W \in SUBSET U /\ W # U
        BY <3>1, Zenon
      <4>2. W \in G
        BY <1>1, <4>1, Zenon
      <4> QED
        BY <4>2, Zenon
    <3>4. k[U] = Handle(m, h, e[2], ok, n)
      BY <2>2, Zenon DEF Handles
    <3>5. h \in GovStates /\ h.proposals[e[2]].status = StatusOf(m)
      <4>1. h.proposals[e[2]] = g.proposals[e[2]]
        BY <3>1, <3>3, Zenon
      <4> QED
        BY <3>1, <3>3, <4>1, Zenon DEF EntriesOf, Sound
    <3> HIDE DEF h
    <3>6. Sound(k[U]) /\ Only(k[U], h, e[2])
      BY <3>1, <3>2, <3>3, <3>4, <3>5, HandleSound, Zenon
    <3>7. ASSUME NEW x \in S \ U PROVE k[U].proposals[x[2]] = g.proposals[x[2]]
      <4>1. x[2] \in Ids \ {e[2]} /\ x \in S \ W
        BY <3>1, <3>2, Zenon DEF EntriesOf
      <4>2. k[U].proposals[x[2]] = h.proposals[x[2]]
        BY <3>6, <4>1, Zenon DEF Only
      <4>3. h.proposals[x[2]] = g.proposals[x[2]]
        BY <3>3, <4>1, Zenon DEF h
      <4> QED
        BY <4>2, <4>3, Zenon
    <3> QED
      BY <3>6, <3>7, Zenon
  <2> QED
    BY <2>1, <2>2, Zenon
<1>2. S \in G
  <2> HIDE DEF G
  <2> QED
    BY <1>1, SubsetInduction, Zenon DEF Entered
<1> QED
  BY <1>2, Zenon

\* The folds of EndBlocker handle the entries that are due.
LEMMA DueAreHandled ==
    ASSUME NEW g \in GovStates, NEW ok, NEW n \in VotingPeriods
    PROVE  /\ Entered(Due(g.inactive))
                => \E k : /\ Handles(k, "drop", g, Due(g.inactive), ok, n)
                          /\ DropDue(g) = k[Due(g.inactive)]
           /\ Entered(Due(g.active))
                => \E k : /\ Handles(k, "decide", g, Due(g.active), ok, n)
                          /\ DecideDue(g, ok, n) = k[Due(g.active)]
<1>1. ASSUME Entered(Due(g.inactive))
      PROVE  \E k : /\ Handles(k, "drop", g, Due(g.inactive), ok, n)
                    /\ DropDue(g) = k[Due(g.inactive)]
  <2> DEFINE S == Due(g.inactive)
             Drops(k) == k = [s \in SUBSET S |-> IF s = {} THEN g
                                                 ELSE Drop(k[s \ {LastOf(s)}], LastOf(s)[2])]
             k1 == CHOOSE k : Drops(k)
  <2>1. DropDue(g) = k1[S]
    BY Zenon DEF DropDue, MapThenFoldSet
  <2> HIDE DEF S
  <2>2. \A k : Drops(k) <=> Handles(k, "drop", g, S, ok, n)
    BY Zenon DEF Handles, Handle
  <2> HIDE DEF Drops
  <2>3. \E k : Handles(k, "drop", g, S, ok, n)
    BY <1>1, HandlesExist, Zenon DEF S
  <2>4. Drops(k1)
    BY <2>2, <2>3, Zenon
  <2> HIDE DEF k1
  <2> QED
    BY <2>1, <2>2, <2>4, Zenon DEF S
<1>2. ASSUME Entered(Due(g.active))
      PROVE  \E k : /\ Handles(k, "decide", g, Due(g.active), ok, n)
                    /\ DecideDue(g, ok, n) = k[Due(g.active)]
  <2> DEFINE S == Due(g.active)
             Decides(k) == k = [s \in SUBSET S |->
                                  IF s = {} THEN g
                                  ELSE Decide(k[s \ {LastOf(s)}], LastOf(s)[2], ok[LastOf(s)[2]], n)]
             k2 == CHOOSE k : Decides(k)
  <2>1. DecideDue(g, ok, n) = k2[S]
    BY Zenon DEF DecideDue, MapThenFoldSet
  <2> HIDE DEF S
  <2>2. "decide" # "drop"
    OBVIOUS
  <2>3. \A k : Decides(k) <=> Handles(k, "decide", g, S, ok, n)
    BY <2>2, Zenon DEF Handles, Handle
  <2> HIDE DEF Decides
  <2>4. \E k : Handles(k, "decide", g, S, ok, n)
    BY <1>2, HandlesExist, Zenon DEF S
  <2>5. Decides(k2)
    BY <2>3, <2>4, Zenon
  <2> HIDE DEF k2
  <2> QED
    BY <2>1, <2>3, <2>5, Zenon DEF S
<1> QED
  BY <1>1, <1>2, Zenon

\* The queues hold entries of proposals of their status.
LEMMA DueEntries ==
    ASSUME NEW g, Sound(g)
    PROVE  /\ Entered(Due(g.inactive)) /\ EntriesOf("drop", g, Due(g.inactive))
           /\ Entered(Due(g.active)) /\ EntriesOf("decide", g, Due(g.active))
<1>1. g \in GovStates /\ Queued(g)
  BY Zenon DEF Sound
<1>2. Due(g.inactive) \in SUBSET (Int \X Ids) /\ Due(g.active) \in SUBSET (Int \X Ids)
  BY <1>1, Fields, Zenon DEF Queues, Due
<1>3. \A e \in Int \X Ids : e = <<e[1], e[2]>> /\ e[1] \in Int /\ e[2] \in Ids
  OBVIOUS
<1>4. \A e \in Due(g.inactive) : /\ g.proposals[e[2]].status = "deposit"
                                 /\ e[1] = g.proposals[e[2]].depositEnd
  <2> SUFFICES ASSUME NEW e \in Due(g.inactive)
               PROVE  /\ g.proposals[e[2]].status = "deposit"
                      /\ e[1] = g.proposals[e[2]].depositEnd
    BY Zenon
  <2>1. <<e[1], e[2]>> \in g.inactive /\ e[1] \in Int /\ e[2] \in Ids
    <3>1. e \in g.inactive /\ e \in Int \X Ids
      BY <1>2, Zenon DEF Due
    <3> QED
      BY <1>3, <3>1, Zenon
  <2>2. QueuedAt(g, e[2])
    BY <1>1, <2>1, Zenon DEF Queued
  <2> QED
    BY <2>1, <2>2, Zenon DEF QueuedAt
<1>5. \A e \in Due(g.active) : /\ g.proposals[e[2]].status = "voting"
                               /\ e[1] = g.proposals[e[2]].end
  <2> SUFFICES ASSUME NEW e \in Due(g.active)
               PROVE  /\ g.proposals[e[2]].status = "voting"
                      /\ e[1] = g.proposals[e[2]].end
    BY Zenon
  <2>1. <<e[1], e[2]>> \in g.active /\ e[1] \in Int /\ e[2] \in Ids
    <3>1. e \in g.active /\ e \in Int \X Ids
      BY <1>2, Zenon DEF Due
    <3> QED
      BY <1>3, <3>1, Zenon
  <2>2. QueuedAt(g, e[2])
    BY <1>1, <2>1, Zenon DEF Queued
  <2> QED
    BY <2>1, <2>2, Zenon DEF QueuedAt
<1>6. ASSUME NEW S \in SUBSET (Int \X Ids), \A e, x \in S : e[2] = x[2] => e[1] = x[1]
      PROVE  Entered(S) /\ \A e, x \in S : e[2] = x[2] => e = x
  <2>1. \A e, x \in S : e[2] = x[2] => e = x
    <3> SUFFICES ASSUME NEW e \in S, NEW x \in S, e[2] = x[2] PROVE e = x
      BY Zenon
    <3>1. e[1] = x[1]
      BY <1>6, Zenon
    <3>2. e = <<e[1], e[2]>> /\ x = <<x[1], x[2]>>
      BY <1>3, Zenon
    <3> QED
      BY <3>1, <3>2, Zenon
  <2> DEFINE f == [e \in S |-> e[2]]
  <2>2. f \in [S -> Ids]
    BY <1>3, Zenon
  <2>3. (\A e \in S : f[e] \in Ids) /\ (\A e, x \in S : f[e] = f[x] => e = x)
    BY <2>1, <2>2, Zenon
  <2>4. IsFiniteSet(Ids)
    BY <1>1, SumsAreInt, Zenon
  <2>5. IsFiniteSet(S)
    <3> HIDE DEF f
    <3> QED
      BY <2>3, <2>4, FiniteInjection, Zenon
  <2> QED
    BY <2>1, <2>5, Zenon DEF Entered
<1>7. /\ \A e, x \in Due(g.inactive) : e[2] = x[2] => e[1] = x[1]
      /\ \A e, x \in Due(g.active) : e[2] = x[2] => e[1] = x[1]
  BY <1>4, <1>5, ZenonT(60)
<1>8. StatusOf("drop") = "deposit" /\ StatusOf("decide") = "voting"
  BY DEF StatusOf
<1> QED
  BY <1>2, <1>4, <1>5, <1>6, <1>7, <1>8, Zenon DEF EntriesOf

-----------------------------------------------------------------------------
(* The invariant: the store has its type, the account holds the deposits   *)
(* and the queues follow the proposals.                                    *)

GovInv ==
    /\ clock \in Int /\ gov \in GovStates
    /\ DepositsAreHeld
    /\ QueuesFollowStatus

\* The invariant says that the store is sound.
LEMMA InvIsSound == GovInv <=> clock \in Int /\ Sound(gov)
<1> DEFINE ps == gov.proposals
           in == {<<ps[id].depositEnd, id>> : id \in {i \in Ids : ps[i].status = "deposit"}}
           ac == {<<ps[id].end, id>> : id \in {i \in Ids : ps[i].status = "voting"}}
<1>1. DepositsAreHeld <=> Held(gov)
  BY Zenon DEF DepositsAreHeld, Held, Totals, HeldFor, Coins
<1> SUFFICES ASSUME gov \in GovStates PROVE QueuesFollowStatus <=> Queued(gov)
  BY <1>1, Zenon DEF GovInv, Sound
<1>2. gov.inactive \in SUBSET (Int \X Ids) /\ gov.active \in SUBSET (Int \X Ids)
  BY Fields, Zenon DEF Queues
<1>3. \A id \in Ids : ps[id].depositEnd \in Int /\ ps[id].end \in Int
  <2>1. ps \in ProposalMaps
    BY Fields, Zenon
  <2> QED
    BY <2>1, Zenon DEF ProposalMaps, Proposals
<1>4. \A t \in Int : \A id \in Ids :
         /\ <<t, id>> \in in <=> ps[id].status = "deposit" /\ t = ps[id].depositEnd
         /\ <<t, id>> \in ac <=> ps[id].status = "voting" /\ t = ps[id].end
  BY Entries, Zenon
<1>5. in \in SUBSET (Int \X Ids) /\ ac \in SUBSET (Int \X Ids)
  <2>1. \A t \in Int : \A id \in Ids : <<t, id>> \in Int \X Ids
    OBVIOUS
  <2> QED
    BY <1>3, <2>1, ZenonT(60)
<1>6. QueuesFollowStatus <=> /\ gov.inactive = in /\ gov.active = ac
                             /\ \A id \in Ids : gov.votes[id] # NoVotes => ps[id].status = "voting"
  BY Zenon DEF QueuesFollowStatus
<1> HIDE DEF in, ac
<1>7. ASSUME NEW S \in SUBSET (Int \X Ids), NEW T \in SUBSET (Int \X Ids)
      PROVE  S = T <=> \A t \in Int : \A id \in Ids : <<t, id>> \in S <=> <<t, id>> \in T
  <2>1. \A e \in Int \X Ids : e = <<e[1], e[2]>> /\ e[1] \in Int /\ e[2] \in Ids
    OBVIOUS
  <2>2. ASSUME \A t \in Int : \A id \in Ids : <<t, id>> \in S <=> <<t, id>> \in T
        PROVE  S = T
    <3>1. ASSUME NEW e \in Int \X Ids PROVE e \in S <=> e \in T
      <4>1. <<e[1], e[2]>> \in S <=> <<e[1], e[2]>> \in T
        BY <2>1, <2>2, Zenon
      <4> QED
        BY <2>1, <4>1, Zenon
    <3> QED
      BY <3>1, Zenon
  <2> QED
    BY <2>2, Zenon
<1>8. gov.inactive = in <=> \A t \in Int : \A id \in Ids :
                               <<t, id>> \in gov.inactive
                                 <=> ps[id].status = "deposit" /\ t = ps[id].depositEnd
  <2>1. gov.inactive = in
          <=> \A t \in Int : \A id \in Ids : <<t, id>> \in gov.inactive <=> <<t, id>> \in in
    <3> DEFINE S == gov.inactive
    <3>1. S \in SUBSET (Int \X Ids) /\ in \in SUBSET (Int \X Ids)
      BY <1>2, <1>5, Zenon
    <3> HIDE DEF S
    <3>2. S = in <=> \A t \in Int : \A id \in Ids : <<t, id>> \in S <=> <<t, id>> \in in
      BY <1>7, <3>1, SMT
    <3> QED
      BY <3>2, Zenon DEF S
  <2> QED
    BY <1>4, <2>1, SMT
<1>9. gov.active = ac <=> \A t \in Int : \A id \in Ids :
                             <<t, id>> \in gov.active <=> ps[id].status = "voting" /\ t = ps[id].end
  <2>1. gov.active = ac
          <=> \A t \in Int : \A id \in Ids : <<t, id>> \in gov.active <=> <<t, id>> \in ac
    <3> DEFINE S == gov.active
    <3>1. S \in SUBSET (Int \X Ids) /\ ac \in SUBSET (Int \X Ids)
      BY <1>2, <1>5, ZenonT(60)
    <3> HIDE DEF S
    <3>2. S = ac <=> \A t \in Int : \A id \in Ids : <<t, id>> \in S <=> <<t, id>> \in ac
      BY <1>7, <3>1, SMT
    <3> QED
      BY <3>2, Zenon DEF S
  <2> QED
    BY <1>4, <2>1, SMT
<1>10. Queued(gov) <=> /\ \A t \in Int : \A id \in Ids :
                            <<t, id>> \in gov.inactive
                              <=> ps[id].status = "deposit" /\ t = ps[id].depositEnd
                       /\ \A t \in Int : \A id \in Ids :
                            <<t, id>> \in gov.active <=> ps[id].status = "voting" /\ t = ps[id].end
                       /\ \A id \in Ids : gov.votes[id] # NoVotes => ps[id].status = "voting"
  BY SMT DEF Queued, QueuedAt
<1> QED
  BY <1>6, <1>8, <1>9, <1>10, Zenon

\* It holds at genesis.
LEMMA GovInvInit == GovInit => GovInv
<1> SUFFICES ASSUME GovInit PROVE GovInv
  OBVIOUS
<1>1. PICK period \in VotingPeriods :
        gov = [proposals |-> [id \in Ids |-> NoProposal], deposits |-> [id \in Ids |-> Cleared],
               votes |-> [id \in Ids |-> NoVotes], inactive |-> {}, active |-> {},
               period |-> period, purse |-> [d \in Depositors |-> Purse], pot |-> 0, burned |-> 0]
  BY Zenon DEF GovInit
<1>2. /\ gov.proposals = [id \in Ids |-> NoProposal] /\ gov.deposits = [id \in Ids |-> Cleared]
      /\ gov.votes = [id \in Ids |-> NoVotes] /\ gov.inactive = {} /\ gov.active = {}
      /\ gov.purse = [d \in Depositors |-> Purse] /\ gov.pot = 0 /\ gov.burned = 0
  BY <1>1, Zenon
<1>3. gov \in GovStates
  <2>1. [id \in Ids |-> NoProposal] \in ProposalMaps
    <3>1. NoProposal \in Proposals
      BY DEF NoProposal, Proposals
    <3> QED
      BY <3>1, Zenon DEF ProposalMaps
  <2>2. [id \in Ids |-> Cleared] \in DepositMaps
    BY DEF Cleared, DepositMaps, Purses
  <2>3. [id \in Ids |-> NoVotes] \in VoteMaps
    BY Zenon DEF NoVotes, VoteMaps
  <2>4. {} \in Queues
    BY Zenon DEF Queues
  <2>5. [d \in Depositors |-> Purse] \in Purses
    <3>1. Purse \in Nat
      BY GovAssumption, Zenon
    <3> QED
      BY <3>1 DEF Purses
  <2>6. 0 \in Int
    OBVIOUS
  <2> QED
    BY <1>1, <2>1, <2>2, <2>3, <2>4, <2>5, <2>6, ZenonT(60) DEF GovStates
<1>4. \A id \in Ids : Total(gov, id) = 0
  <2>1. \A d \in Depositors : Cleared[d] = 0
    BY Zenon DEF Cleared
  <2>2. SumFunctionOnSet(Cleared, Depositors) = 0
    BY <1>3, <2>1, SumsAreInt, SumZero, Zenon
  <2> QED
    BY <1>2, <2>2, Zenon DEF Total
<1>5. SumFunctionOnSet(Totals(gov), Ids) = 0
  <2>1. \A id \in Ids : Totals(gov)[id] = 0
    BY <1>4, Zenon DEF Totals
  <2> QED
    BY <1>3, <2>1, SumsAreInt, SumZero, Zenon
<1>6. NoProposal.status = "none" /\ NoProposal.total = 0
  BY DEF NoProposal
<1>7. "none" # "deposit" /\ "none" # "voting"
  OBVIOUS
<1>8. Queued(gov)
  BY <1>2, <1>6, <1>7, Zenon DEF Queued, QueuedAt
<1>9. \A id \in Ids : HeldFor(gov, id)
  BY <1>2, <1>4, <1>6, ZenonT(60) DEF HeldFor, Open
<1>10. clock \in Int
  BY DEF GovInit
<1>11. Coins(gov) = SumFunctionOnSet([d \in Depositors |-> Purse], Depositors)
  <2>1. gov.purse = [d \in Depositors |-> Purse]
    BY <1>2, Zenon
  <2>2. SumFunctionOnSet(gov.purse, Depositors) \in Int
    BY <1>3, SumsAreInt, Zenon
  <2>3. Coins(gov) = SumFunctionOnSet(gov.purse, Depositors) + 0 + 0
    BY <1>2, Zenon DEF Coins
  <2>4. Coins(gov) = SumFunctionOnSet(gov.purse, Depositors)
    BY <2>2, <2>3
  <2> QED
    BY <2>1, <2>4, Zenon
<1> QED
  BY <1>2, <1>3, <1>5, <1>8, <1>9, <1>10, <1>11, InvIsSound, ZenonT(60) DEF Sound, Held

\* EndBlocker keeps the store sound.
LEMMA EndBlockSound ==
    ASSUME NEW g, Sound(g), NEW ok, NEW n \in VotingPeriods
    PROVE  Sound(DecideDue(DropDue(g), ok, n))
<1> DEFINE d == DropDue(g)
           r == DecideDue(d, ok, n)
<1>1. Sound(d)
  <2> DEFINE S == Due(g.inactive)
  <2>1. g \in GovStates /\ Entered(S) /\ EntriesOf("drop", g, S)
    BY DueEntries, Zenon DEF Sound
  <2>2. PICK k : Handles(k, "drop", g, S, ok, n) /\ d = k[S]
    BY <2>1, DueAreHandled, Zenon
  <2> HIDE DEF d, S
  <2>3. Sound(k[S])
    BY <2>1, <2>2, HandlesSound, Zenon
  <2> QED
    BY <2>2, <2>3, Zenon
<1> HIDE DEF d
<1>2. Sound(r)
  <2> DEFINE S == Due(d.active)
  <2>1. d \in GovStates /\ Entered(S) /\ EntriesOf("decide", d, S)
    BY <1>1, DueEntries, Zenon DEF Sound
  <2>2. PICK k : Handles(k, "decide", d, S, ok, n) /\ r = k[S]
    BY <2>1, DueAreHandled, Zenon
  <2> HIDE DEF r, S
  <2>3. Sound(k[S])
    BY <1>1, <2>1, <2>2, HandlesSound, Zenon
  <2> QED
    BY <2>2, <2>3, Zenon
<1> QED
  BY <1>2, Zenon DEF d

\* Every step keeps the invariant.
LEMMA GovInvNext == GovInv /\ [GovNext]_govVars => GovInv'
<1> SUFFICES ASSUME clock \in Int, Sound(gov), [GovNext]_govVars
             PROVE  clock' \in Int /\ Sound(gov')
  <2>1. GovInv <=> clock \in Int /\ Sound(gov)
    BY InvIsSound, Zenon
  <2>2. GovInv' <=> clock' \in Int /\ Sound(gov')
    <3>1. (GovInv <=> clock \in Int /\ Sound(gov))'
      BY InvIsSound, PTL
    <3> QED
      BY <3>1
  <2> QED
    BY <2>1, <2>2, Zenon
<1>1. gov \in GovStates /\ \A d \in Depositors : gov.purse[d] \in Int
  BY Fields, Zenon DEF Sound, Purses
<1>2. CASE Deposit
  <2>1. PICK id \in Ids, d \in Depositors :
          \E amount \in 1..gov.purse[d] : Open(gov, id) /\ gov' = AddDeposit(gov, id, d, amount)
    BY <1>2, Zenon DEF Deposit
  <2>2. PICK amount \in 1..gov.purse[d] : Open(gov, id) /\ gov' = AddDeposit(gov, id, d, amount)
    BY <2>1, Zenon
  <2>3. amount \in Int
    BY <1>1
  <2>4. Sound(AddDeposit(gov, id, d, amount))
    BY <2>2, <2>3, AddDepositSound, Zenon
  <2> QED
    BY <1>2, <2>2, <2>4, Zenon DEF Deposit
<1>3. CASE SubmitProposal
  <2>1. PICK id \in Ids, d \in Depositors, expedited \in BOOLEAN :
          \E amount \in 0..gov.purse[d] :
            /\ gov.proposals[id].status = "none"
            /\ gov' = AddDeposit(SubmitProposalWithExpedite(gov, id, expedited), id, d, amount)
    BY <1>3, Zenon DEF SubmitProposal
  <2> DEFINE h == SubmitProposalWithExpedite(gov, id, expedited)
  <2>2. PICK amount \in 0..gov.purse[d] :
          gov.proposals[id].status = "none" /\ gov' = AddDeposit(h, id, d, amount)
    BY <2>1, Zenon
  <2>3. amount \in Int
    BY <1>1
  <2>4. Sound(h) /\ Open(h, id)
    BY <2>2, SubmitSound, Zenon
  <2> HIDE DEF h
  <2>5. Sound(AddDeposit(h, id, d, amount))
    BY <2>3, <2>4, AddDepositSound, Zenon
  <2> QED
    BY <1>3, <2>2, <2>5, Zenon DEF SubmitProposal
<1>4. CASE Vote
  <2>1. PICK id \in Ids, v \in Delegators, option \in Options :
          /\ gov.proposals[id].status = "voting"
          /\ gov' = [gov EXCEPT !.votes[id][v] = option]
    BY <1>4, Zenon DEF Vote
  <2> QED
    BY <1>4, <2>1, VoteSound, Zenon DEF Vote
<1>5. CASE EndGovBlock
  <2>1. PICK ok \in [Ids -> BOOLEAN], n \in VotingPeriods, step \in 1..2 :
          /\ gov' = DecideDue(DropDue(gov), ok, n)
          /\ clock' = IF clock + step > MaxClock THEN MaxClock ELSE clock + step
    BY <1>5, Zenon DEF EndGovBlock
  <2>2. Sound(gov')
    BY <2>1, EndBlockSound, Zenon
  <2>3. clock' \in Int
    <3>1. MaxClock \in Nat
      BY GovAssumption, Zenon
    <3>2. clock' = MaxClock \/ clock' = clock + step
      BY <2>1, Zenon
    <3> QED
      BY <3>1, <3>2
  <2> QED
    BY <2>2, <2>3, Zenon
<1>6. CASE UNCHANGED govVars
  BY <1>6, Zenon DEF govVars
<1> QED
  BY <1>2, <1>3, <1>4, <1>5, <1>6, Zenon DEF GovNext

\* Whatever proposals, deposits, votes and periods there are, the module's
\* account holds exactly the deposits of the proposals in their deposit or
\* voting period (AddDeposit, RefundDeposits, DeleteDeposits), and no coin is
\* lost but the burned ones.
THEOREM DepositsStayHeld == GovSpec => []DepositsAreHeld
<1>1. GovInv => DepositsAreHeld
  BY Zenon DEF GovInv
<1> QED
  BY <1>1, GovInvInit, GovInvNext, PTL DEF GovSpec

\* And every proposal waits in the queue of its status, under its own end time,
\* and nowhere else, through activation, conversion, deletion and decision.
THEOREM QueuesStayExact == GovSpec => []QueuesFollowStatus
<1>1. GovInv => QueuesFollowStatus
  BY Zenon DEF GovInv
<1> QED
  BY <1>1, GovInvInit, GovInvNext, PTL DEF GovSpec

=============================================================================
