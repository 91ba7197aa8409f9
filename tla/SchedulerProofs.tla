-------------------------- MODULE SchedulerProofs ---------------------------
(***************************************************************************)
(* Proofs about Scheduler, for every number of transactions, every set of  *)
(* keys and every program: facts about the multi-version map and about     *)
(* transactions, the inductive invariant, its preservation by every step,  *)
(* and what follows: optimistic execution is serializable, it is never     *)
(* stuck, and the sequential fallback needs one pass.                      *)
(***************************************************************************)
EXTENDS Scheduler, WellFoundedInduction, TLAPS


(***************************************************************************)
(* Finding extremal elements.                                              *)
(***************************************************************************)

\* A non-empty set of naturals has a least element.
LEMMA LeastNatural ==
    ASSUME NEW D, D \subseteq Nat, D # {}
    PROVE  \E d \in D : \A e \in D : d <= e
<1> DEFINE R == OpToRel(<, Nat)
<1>1. PICK d \in D : \A e \in D : ~ (<<e, d>> \in R)
  <2> HIDE DEF R
  <2>1. IsWellFoundedOn(R, Nat)
    BY NatLessThanWellFounded, Zenon DEF R
  <2> QED
    BY <2>1, WFMin, Zenon
<1>2. \A e \in D : e < d => <<e, d>> \in R
  BY DEF OpToRel
<1>3. \A e \in D : ~ (e < d)
  <2> HIDE DEF R
  <2> QED
    BY <1>1, <1>2, Zenon
<1> QED
  BY <1>3

\* A non-empty set of indices below n has a greatest element, which is what
\* LatestBefore chooses.
LEMMA MaxBelow ==
    ASSUME NEW n \in Nat, NEW W, W \subseteq 0 .. n - 1, W # {}
    PROVE  \E j \in W : \A l \in W : l <= j
<1> DEFINE D == {n - j : j \in W}
<1>1. D \subseteq Nat /\ D # {}
  OBVIOUS
<1>2. PICK d \in D : \A e \in D : d <= e
  <2> HIDE DEF D
  <2> QED
    BY <1>1, LeastNatural, Zenon
<1>3. PICK j \in W : d = n - j
  BY <1>2
<1>4. \A l \in W : n - l \in D
  OBVIOUS
<1>5. \A l \in W : d <= n - l
  <2> HIDE DEF D
  <2> QED
    BY <1>2, <1>4
<1> QED
  BY <1>3, <1>5

(***************************************************************************)
(* Indices and sequences.                                                  *)
(***************************************************************************)

\* The indices below a task's are tasks.
LEMMA BelowTask ==
    ASSUME NEW t \in Txs
    PROVE  /\ t \in Nat /\ t \in 0 .. N /\ t \in 0 .. t /\ 0 .. t - 1 \subseteq Txs
           /\ \A u \in 0 .. t : u \in Txs /\ 0 .. u \subseteq 0 .. t
BY NAssumption DEF Txs

\* The last element of a sequence is one of its elements.
LEMMA LastIn ==
    ASSUME NEW S, NEW s \in Seq(S), s # << >>
    PROVE  Last(s) \in S
BY DEF Last

\* Each element of a sequence over S is in S.
LEMMA ElementIn ==
    ASSUME NEW S, NEW s \in Seq(S), NEW n \in 1 .. Len(s)
    PROVE  s[n] \in S
OBVIOUS

\* Append leaves what is there and adds the element at the end.
LEMMA Appended ==
    ASSUME NEW S, NEW s \in Seq(S), s # << >>, NEW e
    PROVE  /\ Len(s) \in Nat \ {0} /\ Len(Append(s, e)) = Len(s) + 1 /\ Append(s, e)[1] = s[1]
           /\ \A n \in 1 .. Len(s) : Append(s, e)[n] = s[n]
           /\ Append(s, e)[Len(s) + 1] = e
BY SMTT(30)

\* Append keeps the type of the elements.
LEMMA AppendType ==
    ASSUME NEW S, NEW s \in Seq(S), NEW e \in S
    PROVE  Append(s, e) \in Seq(S) /\ Append(s, e) # << >>
<1>1. Append(s, e) \in Seq(S)
  OBVIOUS
<1>2. Len(s) \in Nat /\ Len(Append(s, e)) = Len(s) + 1
  OBVIOUS
<1>3. Append(s, e) # << >>
  BY <1>2
<1> QED
  BY <1>1, <1>3

\* An index of a nonempty sequence is its last one, or it and its successor
\* are both indices.
LEMMA IndexOrLast ==
    ASSUME NEW m \in Nat \ {0}
    PROVE  /\ m \in 1 .. m
           /\ \A n \in 1 .. (m + 1) - 1 : n = m \/ n \in 1 .. m - 1
           /\ \A n \in 1 .. m - 1 : n \in 1 .. m /\ n + 1 \in 1 .. m
OBVIOUS

\* The last element of a sequence is the one at its length.
LEMMA LastAt ==
    ASSUME NEW s
    PROVE  Last(s) = s[Len(s)]
BY Zenon DEF Last

\* A task is not one of those above it.
LEMMA NotAboveItself ==
    ASSUME NEW t \in Txs
    PROVE  ~(t \in t + 1 .. N - 1)
BY NAssumption DEF Txs

\* The bound on the passes is a number.
LEMMA BoundIsNat == MaximumIterations \in Nat /\ 0 <= MaximumIterations
BY SchedulerAssumption

(***************************************************************************)
(* The multi-version map.                                                  *)
(***************************************************************************)

Map == [Keys -> [Txs -> Items]]

\* The latest index found is below the reader and has an item, and there is
\* none only if no lower index has an item.
LEMMA LatestBeforeWorks ==
    ASSUME NEW m, NEW i \in Nat, NEW k
    PROVE  LET j == LatestBefore(m, i, k)
           IN  \/ j = NoTx /\ \A l \in 0 .. i - 1 : m[k][l] = Absent
               \/ /\ j \in 0 .. i - 1 /\ m[k][j] # Absent
                  /\ \A l \in 0 .. i - 1 : m[k][l] # Absent => l <= j
<1> DEFINE W == {j \in 0 .. i - 1 : m[k][j] # Absent}
<1>1. CASE W = {}
  BY <1>1 DEF LatestBefore
<1>2. CASE W # {}
  <2>1. \E j \in W : \A l \in W : l <= j
    <3>1. W \subseteq 0 .. i - 1
      OBVIOUS
    <3> HIDE DEF W
    <3> QED
      BY <1>2, <3>1, MaxBelow, Zenon
  <2>2. LatestBefore(m, i, k) = CHOOSE j \in W : \A l \in W : l <= j
    BY <1>2 DEF LatestBefore
  <2>3. LatestBefore(m, i, k) \in W /\ \A l \in W : l <= LatestBefore(m, i, k)
    <3> HIDE DEF W
    <3> QED
      BY <2>1, <2>2
  <2> QED
    BY <2>3
<1> QED
  BY <1>1, <1>2

\* What a transaction sees depends only on the items of lower indices.
LEMMA ViewIsBelow ==
    ASSUME NEW m, NEW n, NEW par, NEW i \in Nat, NEW k,
           \A u \in 0 .. i - 1 : m[k][u] = n[k][u]
    PROVE  /\ LatestBefore(m, i, k) = LatestBefore(n, i, k)
           /\ GetLatestBeforeIndex(m, par, i, k) = GetLatestBeforeIndex(n, par, i, k)
<1>1. LatestBefore(m, i, k) = LatestBefore(n, i, k)
  <2> DEFINE j == LatestBefore(m, i, k)
  <2> DEFINE l == LatestBefore(n, i, k)
  <2>1. \/ j = NoTx /\ \A x \in 0 .. i - 1 : m[k][x] = Absent
        \/ /\ j \in 0 .. i - 1 /\ m[k][j] # Absent
           /\ \A x \in 0 .. i - 1 : m[k][x] # Absent => x <= j
    BY LatestBeforeWorks
  <2>2. \/ l = NoTx /\ \A x \in 0 .. i - 1 : n[k][x] = Absent
        \/ /\ l \in 0 .. i - 1 /\ n[k][l] # Absent
           /\ \A x \in 0 .. i - 1 : n[k][x] # Absent => x <= l
    BY LatestBeforeWorks
  <2> HIDE DEF j, l
  <2>3. j = l
    BY <2>1, <2>2 DEF NoTx
  <2> QED
    BY <2>3 DEF j, l
<1> QED
  BY <1>1, LatestBeforeWorks DEF GetLatestBeforeIndex, NoTx

\* Two maps that agree below an index on every key give it the same reads.
LEMMA ViewsAgree ==
    ASSUME NEW m, NEW n, NEW par, NEW i \in Nat,
           \A k \in Keys : \A u \in 0 .. i - 1 : m[k][u] = n[k][u]
    PROVE  \A k \in Keys : GetLatestBeforeIndex(m, par, i, k) = GetLatestBeforeIndex(n, par, i, k)
<1> TAKE k \in Keys
<1>1. \A u \in 0 .. i - 1 : m[k][u] = n[k][u]
  BY Zenon
<1> QED
  BY <1>1, ViewIsBelow

\* A read returns a value or an estimate, never "no item".
LEMMA ViewType ==
    ASSUME NEW m \in Map, NEW par \in [Keys -> V], NEW i \in 0 .. N, NEW k \in Keys
    PROVE  /\ LatestBefore(m, i, k) \in (0 .. i - 1) \cup {NoTx}
           /\ GetLatestBeforeIndex(m, par, i, k) \in V \cup {Estimate}
<1>1. i \in Nat /\ 0 .. i - 1 \subseteq Txs
  BY NAssumption DEF Txs
<1>2. LatestBefore(m, i, k) \in (0 .. i - 1) \cup {NoTx}
  BY <1>1, LatestBeforeWorks, Zenon
<1>3. CASE LatestBefore(m, i, k) = NoTx
  BY <1>3, <1>2 DEF GetLatestBeforeIndex
<1>4. CASE LatestBefore(m, i, k) # NoTx
  <2>1. LatestBefore(m, i, k) \in Txs /\ m[k][LatestBefore(m, i, k)] # Absent
    BY <1>1, <1>2, <1>4, LatestBeforeWorks
  <2> QED
    BY <1>2, <1>4, <2>1 DEF GetLatestBeforeIndex, Map, Items
<1> QED
  BY <1>3, <1>4

\* What a check reports: conflicts with lower indices only, and, where no lower
\* index has an estimate, success only if the value read is still the one to
\* be read.
LEMMA CheckReadWorks ==
    ASSUME NEW m \in Map, NEW par \in [Keys -> V], NEW i \in Txs, NEW k \in Keys, NEW v
    PROVE  LET c == CheckRead(m, par, i, k, v)
           IN  /\ c.ok \in BOOLEAN
               /\ c.conflicts \subseteq 0 .. i - 1
               /\ c.ok /\ (\A w \in 0 .. i - 1 : m[k][w] # Estimate) =>
                    BytesEqual(GetLatestBeforeIndex(m, par, i, k), v)
<1> DEFINE j == LatestBefore(m, i, k)
           cur == GetLatestBeforeIndex(m, par, i, k)
           ok == CASE cur = Estimate        -> TRUE
                   [] j # NoTx /\ cur = Nil -> v = Nil
                   [] OTHER                 -> BytesEqual(cur, v)
           bad == IF j # NoTx /\ (cur = Estimate \/ ~ok) THEN {j} ELSE {}
<1>1. CheckRead(m, par, i, k, v) = [ok |-> ok, conflicts |-> bad]
  BY DEF CheckRead
<1>2. i \in 0 .. N
  BY NAssumption DEF Txs
<1>3. j \in (0 .. i - 1) \cup {NoTx} /\ cur = IF j = NoTx THEN par[k] ELSE m[k][j]
  BY <1>2, ViewType DEF GetLatestBeforeIndex
<1>4. ok \in BOOLEAN
  BY Zenon DEF BytesEqual
<1>5. bad \subseteq 0 .. i - 1
  <2> HIDE DEF ok, cur, j
  <2> QED
    BY <1>3
<1>6. ASSUME ok, \A w \in 0 .. i - 1 : m[k][w] # Estimate PROVE BytesEqual(cur, v)
  <2>1. cur # Estimate
    <3> HIDE DEF ok, cur, j
    <3> QED
      BY <1>3, <1>6, ValueAssumption
  <2>2. CASE j # NoTx /\ cur = Nil
    BY <1>6, <2>1, <2>2 DEF BytesEqual
  <2>3. CASE ~(j # NoTx /\ cur = Nil)
    BY <1>6, <2>1, <2>3
  <2> QED
    BY <2>2, <2>3
<1> HIDE DEF ok, bad, cur
<1> QED
  BY <1>1, <1>4, <1>5, <1>6 DEF cur

\* WriteLatestToStore writes values.
LEMMA CommitType ==
    ASSUME NEW m \in Map, NEW par \in [Keys -> V], NEW k \in Keys
    PROVE  GetLatestNonEstimate(m, par, k) \in V
<1> DEFINE W == {j \in Txs : m[k][j] \notin {Absent, Estimate}}
<1>1. CASE W = {}
  BY <1>1 DEF GetLatestNonEstimate
<1>2. CASE W # {}
  <2>1. W \subseteq 0 .. N - 1 /\ N \in Nat
    BY NAssumption DEF Txs
  <2> DEFINE j == CHOOSE i \in W : \A l \in W : l <= i
  <2>2. j \in W
    <3> HIDE DEF W
    <3>1. \E i \in W : \A l \in W : l <= i
      BY <1>2, <2>1, MaxBelow, Zenon
    <3> QED
      BY <3>1
  <2>3. GetLatestNonEstimate(m, par, k) = m[k][j]
    BY <1>2 DEF GetLatestNonEstimate
  <2> HIDE DEF j
  <2> QED
    BY <2>2, <2>3 DEF Map, Items
<1> QED
  BY <1>1, <1>2

\* Where all items of a key are values, WriteLatestToStore writes what a
\* transaction after the whole block would read.
LEMMA CommitIsView ==
    ASSUME NEW m, NEW par, NEW k, \A j \in Txs : m[k][j] # Estimate
    PROVE  GetLatestNonEstimate(m, par, k) = GetLatestBeforeIndex(m, par, N, k)
<1> DEFINE W == {j \in Txs : m[k][j] \notin {Absent, Estimate}}
           U == {j \in 0 .. N - 1 : m[k][j] # Absent}
<1>1. W = U
  BY DEF Txs
<1>2. LatestBefore(m, N, k) = IF U = {} THEN NoTx ELSE CHOOSE j \in U : \A l \in U : l <= j
  BY DEF LatestBefore
<1>3. GetLatestNonEstimate(m, par, k)
        = IF W = {} THEN par[k] ELSE m[k][CHOOSE j \in W : \A l \in W : l <= j]
  BY DEF GetLatestNonEstimate
<1>4. U # {} => LatestBefore(m, N, k) # NoTx
  <2> DEFINE j == LatestBefore(m, N, k)
  <2>1. N \in Nat
    BY NAssumption
  <2>2. j = NoTx => \A l \in 0 .. N - 1 : m[k][l] = Absent
    BY <2>1, LatestBeforeWorks DEF NoTx
  <2> QED
    BY <2>2
<1> HIDE DEF W, U
<1> QED
  BY <1>1, <1>2, <1>3, <1>4 DEF GetLatestBeforeIndex

(***************************************************************************)
(* Transactions.                                                           *)
(***************************************************************************)

State == [loc : Locs, ws : [Keys -> V \cup {Absent}]]

\* An operation of a transaction has a key, a value or a response according to
\* its type (VersionIndexedStore.Get, Set and Delete).
LEMMA OpType ==
    ASSUME NEW p \in Programs, NEW l \in Locs
    PROVE  LET op == Op(p, l)
           IN  \/ op.type = "get" /\ op.key \in Keys
               \/ op.type = "set" /\ op.key \in Keys /\ op.val \in V
               \/ op.type = "done" /\ op.resp \in V
<1>1. Op(p, l) \in Ops
  BY ProgramAssumption
<1> QED
  BY <1>1 DEF Ops

\* A transaction that finds in the view every key it reads goes from one
\* local state to another.
LEMMA StepType ==
    ASSUME NEW p \in Programs, NEW s \in State, NEW view \in [Keys -> V \cup {Absent}],
           LET op == Op(p, s.loc)
           IN  op.type = "get" /\ s.ws[op.key] = Absent => view[op.key] # Absent
    PROVE  Step(p, s, view) \in State
<1> DEFINE op == Op(p, s.loc)
<1>0. s.loc \in Locs /\ s.ws \in [Keys -> V \cup {Absent}]
  BY DEF State
<1>1. \/ op.type = "get" /\ op.key \in Keys
      \/ op.type = "set" /\ op.key \in Keys /\ op.val \in V
      \/ op.type = "done"
  BY <1>0, OpType
<1> HIDE DEF op
<1>2. CASE op.type = "get"
  <2>1. op.key \in Keys
    BY <1>1, <1>2
  <2> DEFINE v == IF s.ws[op.key] # Absent THEN s.ws[op.key] ELSE view[op.key]
  <2>2. v \in V
    BY <1>0, <1>2, <2>1 DEF op
  <2>3. After(p, s.loc, v) \in Locs
    BY <1>0, <2>2, ProgramAssumption
  <2>4. Step(p, s, view) = [s EXCEPT !.loc = After(p, s.loc, v)]
    BY <1>2 DEF Step, op
  <2> QED
    BY <2>3, <2>4 DEF State
<1>3. CASE op.type = "set"
  <2>1. op.key \in Keys /\ op.val \in V
    BY <1>1, <1>3
  <2>2. After(p, s.loc, Nil) \in Locs
    BY <1>0, ProgramAssumption DEF V
  <2>3. Step(p, s, view) = [loc |-> After(p, s.loc, Nil), ws |-> [s.ws EXCEPT ![op.key] = op.val]]
    BY <1>3 DEF Step, op
  <2>4. [s.ws EXCEPT ![op.key] = op.val] \in [Keys -> V \cup {Absent}]
    BY <1>0, <2>1
  <2> QED
    BY <2>2, <2>3, <2>4 DEF State
<1>4. CASE op.type = "done"
  BY <1>4 DEF Step, op
<1> QED
  BY <1>1, <1>2, <1>3, <1>4

\* A step depends only on the key it reads.
LEMMA StepAgree ==
    ASSUME NEW p, NEW s, NEW view, NEW other,
           LET op == Op(p, s.loc)
           IN  op.type = "get" /\ s.ws[op.key] = Absent =>
                 After(p, s.loc, view[op.key]) = After(p, s.loc, other[op.key])
    PROVE  Step(p, s, view) = Step(p, s, other)
<1>1. CASE Op(p, s.loc).type = "get"
  BY <1>1 DEF Step
<1>2. CASE Op(p, s.loc).type # "get"
  BY <1>2 DEF Step
<1> QED
  BY <1>1, <1>2

\* A step on a view takes the same course on any other that has its values.
LEMMA StepOnMore ==
    ASSUME NEW p \in Programs, NEW s \in State, NEW view, NEW other,
           \A k \in Keys : view[k] # Absent => other[k] = view[k],
           LET op == Op(p, s.loc)
           IN  op.type = "get" /\ s.ws[op.key] = Absent => view[op.key] # Absent
    PROVE  /\ Step(p, s, view) = Step(p, s, other)
           /\ LET op == Op(p, s.loc)
              IN  op.type = "get" /\ s.ws[op.key] = Absent => other[op.key] # Absent
<1> DEFINE op == Op(p, s.loc)
<1>1. s.loc \in Locs
  BY DEF State
<1>2. op.type = "get" => op.key \in Keys
  BY <1>1, OpType, Zenon
<1> HIDE DEF op
<1>3. op.type = "get" /\ s.ws[op.key] = Absent
        => other[op.key] = view[op.key] /\ other[op.key] # Absent
  BY <1>2, Zenon DEF op
<1>4. op.type = "get" /\ s.ws[op.key] = Absent
        => After(p, s.loc, view[op.key]) = After(p, s.loc, other[op.key])
  BY <1>3, Zenon
<1>5. Step(p, s, view) = Step(p, s, other)
  BY <1>4, StepAgree, ZenonT(60) DEF op
<1> QED
  BY <1>3, <1>5, Zenon DEF op

-----------------------------------------------------------------------------
(* The invariant and the validation phase.                                 *)

\* While some task is not validated, FirstNonValidated is the first of them.
LEMMA FirstNonValidatedWorks ==
    ASSUME ~AllValidated
    PROVE  /\ FirstNonValidated \in Txs
           /\ status[FirstNonValidated] # "validated"
           /\ \A u \in 0 .. FirstNonValidated - 1 : status[u] = "validated"
<1> DEFINE D == {t \in Txs : status[t] # "validated"}
<1>1. D \subseteq Nat /\ D # {}
  BY NAssumption DEF AllValidated, Txs
<1>2. PICK d \in D : \A e \in D : d <= e
  <2> HIDE DEF D
  <2> QED
    BY <1>1, LeastNatural, Zenon
<1>3. \A u \in 0 .. d - 1 : status[u] = "validated"
  BY <1>2, NAssumption DEF Txs
<1> QED
  BY <1>3 DEF FirstNonValidated

(***************************************************************************)
(* The inductive invariant.                                                *)
(***************************************************************************)

Finished == {"executed", "validated"}

\* s is a run of p, so far, in which every read found its value in view.
RunOn(p, s, view) ==
    /\ s[1] = Begin(p)
    /\ \A n \in 1 .. Len(s) - 1 :
         LET op == Op(p, s[n].loc)
         IN  /\ op.type # "done"
             /\ op.type = "get" /\ s[n].ws[op.key] = Absent => view[op.key] # Absent
             /\ s[n + 1] = Step(p, s[n], view)

\* A run begins with no step taken.
LEMMA RunBegins ==
    ASSUME NEW p, NEW view
    PROVE  RunOn(p, <<Begin(p)>>, view)
<1> DEFINE s == <<Begin(p)>>
<1>1. s[1] = Begin(p) /\ 1 .. Len(s) - 1 = {}
  OBVIOUS
<1> HIDE DEF s
<1>2. RunOn(p, s, view)
  BY <1>1, Zenon DEF RunOn
<1> QED
  BY <1>2, Zenon DEF s

\* What is true of task t by itself: its transaction runs on its readset, its
\* items are those of its writeset once published, and txWritesetKeys covers
\* the items it has, so that none survives a rerun or an invalidation.
RunInv(t) ==
    /\ tr[t] # << >> => RunOn(block[t], tr[t], rs[t])
    /\ pc[t] \in ExecPcs => tr[t] # << >>
    /\ pc[t] = "run" => status[t] = "pending"
    /\ pc[t] = "publish" => status[t] = IF abort[t] = NoTx THEN "executed" ELSE "aborted"
    /\ status[t] \in Finished =>
         /\ tr[t] # << >>
         /\ Op(block[t], Last(tr[t]).loc).type = "done"
         /\ resp[t] = Op(block[t], Last(tr[t]).loc).resp

StoreInv(t) ==
    /\ status[t] \in Finished /\ pc[t] \in {"idle", "check"} =>
         /\ rset[t] = rs[t]
         /\ \A k \in Keys : mv[k][t] = Last(tr[t]).ws[k]
    /\ pc[t] # "publish" => \A k \in Keys : mv[k][t] # Absent => k \in wkeys[t]
    /\ pc[t] = "publish" =>
         \A k \in Keys \ todo[t] :
           /\ mv[k][t] # Absent => k \in Written(t)
           /\ abort[t] = NoTx => mv[k][t] = Last(tr[t]).ws[k]
    /\ pc[t] = "invalidate" => todo[t] \subseteq wkeys[t]

BelowInv(t) ==
    /\ deps[t] \subseteq 0 .. t - 1
    /\ conflicts[t] \subseteq 0 .. t - 1
    /\ abort[t] \in (0 .. t - 1) \cup {NoTx}

\* Which tasks a phase works on.  In particular a task of the validated
\* prefix is never executed again.
PhaseInv(t) ==
    /\ phase \in {"loop", "done"} => pc[t] = "idle"
    /\ phase = "execute" => pc[t] \in ExecPcs \cup {"idle"}
    /\ phase = "validate" => pc[t] \in CheckPcs \cup {"idle"}
    /\ phase \in {"loop", "validate"} /\ t \in toExecute =>
         status[t] = "pending" /\ pc[t] = "idle"
    /\ phase = "execute" /\ t \in toExecute =>
         /\ pc[t] = "idle"
         /\ synchronous \/ status[t] = "pending"
         /\ \E u \in 0 .. t : status[u] # "validated"

\* Task u has not been invalidated in this validation pass, so its items are
\* what they were when the pass began.
Clean(u) == pc[u] \in {"idle", "check"} /\ status[u] \in Finished

\* What t read under k is still what it would read.
Fresh(t, k) ==
    rset[t][k] # Absent => BytesEqual(GetLatestBeforeIndex(mv, parent, t, k), rset[t][k])

\* A check by t counts as long as no lower task has been invalidated since.
CheckInv(t) ==
    /\ phase = "validate" /\ (\A u \in 0 .. t - 1 : Clean(u)) =>
         /\ pc[t] = "idle" /\ status[t] = "validated" => \A k \in Keys : Fresh(t, k)
         /\ pc[t] = "check" /\ status[t] \in Finished /\ valid[t] =>
              \A k \in Keys \ todo[t] : Fresh(t, k)
    /\ phase \in {"loop", "execute"} /\ (\A u \in 0 .. t : status[u] = "validated") =>
         \A k \in Keys : Fresh(t, k)

IInv == /\ TypeOK
        /\ phase = "execute" => ~AllValidated
        /\ \A t \in Txs : RunInv(t) /\ StoreInv(t) /\ BelowInv(t) /\ PhaseInv(t) /\ CheckInv(t)

(***************************************************************************)
(* What a step of task t does to the other tasks.                          *)
(***************************************************************************)

\* The phases of ProcessAll do not overlap: a task at work tells which one it is.
LEMMA PhaseOfTask ==
    ASSUME IInv, NEW t \in Txs
    PROVE  /\ pc[t] \in ExecPcs => phase = "execute"
           /\ pc[t] \in CheckPcs => phase = "validate"
BY DEF IInv, TypeOK, PhaseInv, ExecPcs, CheckPcs

\* Nothing that belongs to u changes.
Same(u) ==
    /\ status'[u] = status[u] /\ deps'[u] = deps[u] /\ resp'[u] = resp[u]
    /\ wkeys'[u] = wkeys[u] /\ rset'[u] = rset[u] /\ \A k \in Keys : mv'[k][u] = mv[k][u]
    /\ pc'[u] = pc[u] /\ todo'[u] = todo[u]
    /\ rs'[u] = rs[u] /\ tr'[u] = tr[u] /\ abort'[u] = abort[u]
    /\ valid'[u] = valid[u] /\ conflicts'[u] = conflicts[u]

OnlyTask(t) ==
    /\ UNCHANGED <<block, parent, phase, iterations, synchronous, startIdx>>
    /\ \A u \in Txs \ {t} : Same(u)

\* A step of task t preserves what the invariant says of another task by itself.
LEMMA OthersLocal ==
    ASSUME IInv, NEW t \in Txs, OnlyTask(t), NEW u \in Txs, u # t
    PROVE  RunInv(u)' /\ StoreInv(u)' /\ BelowInv(u)'
<1>1. RunInv(u) /\ StoreInv(u) /\ BelowInv(u) /\ Same(u) /\ block' = block
  BY ZenonT(30) DEF IInv, OnlyTask
<1>2. RunInv(u)'
  BY <1>1, ZenonT(60) DEF RunInv, RunOn, Same
<1>3. StoreInv(u)'
  BY <1>1, ZenonT(60) DEF StoreInv, Written, Same
<1>4. BelowInv(u)'
  BY <1>1, ZenonT(60) DEF BelowInv, Same
<1> QED
  BY <1>2, <1>3, <1>4

\* An execution step disturbs no other task, and checks only of tasks above t,
\* which cannot be in the validated prefix.
LEMMA OthersExecute ==
    ASSUME IInv, TypeOK', NEW t \in Txs, OnlyTask(t),
           phase = "execute", pc'[t] \in ExecPcs \cup {"idle"},
           status'[t] # "validated", toExecute' \subseteq toExecute, t \notin toExecute',
           RunInv(t)', StoreInv(t)', BelowInv(t)'
    PROVE  IInv'
<1>0. phase' = "execute" /\ synchronous' = synchronous /\ parent' = parent
  BY DEF OnlyTask
<1>1. (phase = "execute" => ~AllValidated)'
  BY DEF AllValidated
<1>2. ASSUME NEW u \in Txs PROVE RunInv(u)' /\ StoreInv(u)' /\ BelowInv(u)'
  BY OthersLocal
<1>3. ASSUME NEW u \in Txs PROVE PhaseInv(u)'
  <2>1. CASE u = t
    BY <1>0, <2>1 DEF PhaseInv
  <2>2. CASE u # t
    <3>1. PhaseInv(u) /\ Same(u)
      BY <2>2, Zenon DEF IInv, OnlyTask
    <3>2. pc'[u] \in ExecPcs \cup {"idle"}
      BY <3>1 DEF PhaseInv, Same
    <3>3. ASSUME u \in toExecute'
          PROVE  /\ pc'[u] = "idle" /\ (synchronous' \/ status'[u] = "pending")
                 /\ \E w \in 0 .. u : status'[w] # "validated"
      <4>1. /\ pc'[u] = "idle" /\ (synchronous' \/ status'[u] = "pending")
            /\ \E w \in 0 .. u : status[w] # "validated"
        BY <1>0, <3>1, <3>3 DEF PhaseInv, Same
      <4>2. PICK w \in 0 .. u : status[w] # "validated"
        BY <4>1
      <4>3. w \in Txs
        BY NAssumption DEF Txs
      <4>4. status'[w] # "validated"
        BY <4>2, <4>3, Zenon DEF OnlyTask, Same
      <4> QED
        BY <4>1, <4>4, Zenon
    <3> QED
      BY <1>0, <3>2, <3>3, Zenon DEF PhaseInv
  <2> QED
    BY <2>1, <2>2
<1>4. ASSUME NEW u \in Txs PROVE CheckInv(u)'
  <2>1. SUFFICES ASSUME \A w \in 0 .. u : status'[w] = "validated", NEW k \in Keys
                 PROVE  Fresh(u, k)'
    BY <1>0 DEF CheckInv
  <2>2. ~(t \in 0 .. u) /\ u < t /\ \A w \in 0 .. u : w \in Txs \ {t}
    BY <2>1, NAssumption DEF Txs
  <2>3. \A w \in 0 .. u : Same(w)
    BY <2>2, Zenon DEF OnlyTask
  <2>4. Fresh(u, k)
    BY <2>1, <2>3 DEF IInv, CheckInv, Same
  <2>5. u \in Nat /\ u \in 0 .. u /\ 0 .. u - 1 \subseteq 0 .. u
    BY NAssumption DEF Txs
  <2>6. GetLatestBeforeIndex(mv', parent, u, k) = GetLatestBeforeIndex(mv, parent, u, k)
    <3>1. \A w \in 0 .. u - 1 : mv'[k][w] = mv[k][w]
      BY <2>3, <2>5, SMTT(30) DEF Same
    <3> QED
      BY <2>5, <3>1, ViewIsBelow
  <2> QED
    BY <1>0, <2>3, <2>4, <2>5, <2>6, Zenon DEF Fresh, Same
<1> QED
  BY <1>1, <1>2, <1>3, <1>4, Zenon DEF IInv

\* A validation step can spoil the checks of tasks above t only by invalidating
\* t, and an invalidated task is not clean again in this pass.
LEMMA OthersValidate ==
    ASSUME IInv, TypeOK', NEW t \in Txs, OnlyTask(t),
           phase = "validate", pc'[t] \in CheckPcs \cup {"idle"},
           toExecute' \subseteq toExecute \cup {t},
           t \in toExecute' => status'[t] = "pending" /\ pc'[t] = "idle",
           Clean(t)' => Clean(t) /\ \A k \in Keys : mv'[k][t] = mv[k][t],
           RunInv(t)', StoreInv(t)', BelowInv(t)',
           pc'[t] = "idle" /\ status'[t] = "validated" =>
             /\ rset'[t] = rset[t]
             /\ (\A w \in 0 .. t - 1 : Clean(w)) => \A k \in Keys : Fresh(t, k),
           pc'[t] = "check" /\ status'[t] \in Finished /\ valid'[t] =>
             /\ rset'[t] = rset[t]
             /\ (\A w \in 0 .. t - 1 : Clean(w)) => \A k \in Keys \ todo'[t] : Fresh(t, k)
    PROVE  IInv'
<1>0. phase' = "validate" /\ parent' = parent
  BY Zenon DEF OnlyTask
<1>1. (phase = "execute" => ~AllValidated)'
  BY <1>0, Zenon
<1>2. ASSUME NEW u \in Txs PROVE RunInv(u)' /\ StoreInv(u)' /\ BelowInv(u)'
  BY OthersLocal, Zenon
<1>3. ASSUME NEW u \in Txs PROVE PhaseInv(u)'
  <2>1. CASE u = t
    BY <1>0, <2>1, ZenonT(60) DEF PhaseInv
  <2>2. CASE u # t
    <3>1. PhaseInv(u) /\ Same(u)
      BY <2>2, ZenonT(30) DEF IInv, OnlyTask
    <3> QED
      BY <1>0, <2>2, <3>1, Zenon DEF PhaseInv, Same
  <2> QED
    BY <2>1, <2>2, SMTT(30)
<1>4. \A w \in Txs : Clean(w)' => Clean(w) /\ \A k \in Keys : mv'[k][w] = mv[k][w]
  BY ZenonT(30) DEF OnlyTask, Same, Clean
<1>5. ASSUME NEW u \in Txs PROVE CheckInv(u)'
  <2>1. SUFFICES ASSUME \A w \in 0 .. u - 1 : Clean(w)'
                 PROVE  /\ (pc[u] = "idle" /\ status[u] = "validated")' =>
                             \A k \in Keys : Fresh(u, k)'
                        /\ (pc[u] = "check" /\ status[u] \in Finished /\ valid[u])' =>
                             \A k \in Keys \ todo'[u] : Fresh(u, k)'
    BY <1>0, Zenon DEF CheckInv
  <2>2. u \in Nat /\ 0 .. u - 1 \subseteq Txs
    BY NAssumption, SMTT(30) DEF Txs
  <2>3. \A w \in 0 .. u - 1 : Clean(w) /\ \A k \in Keys : mv'[k][w] = mv[k][w]
    BY <1>4, <2>1, <2>2, Zenon
  <2>4. \A k \in Keys : GetLatestBeforeIndex(mv', parent, u, k)
                          = GetLatestBeforeIndex(mv, parent, u, k)
    <3> TAKE k \in Keys
    <3>1. \A w \in 0 .. u - 1 : mv'[k][w] = mv[k][w]
      BY <2>3, Zenon
    <3> QED
      BY <2>2, <3>1, ViewIsBelow
  <2>5. \A k \in Keys : rset'[u] = rset[u] /\ Fresh(u, k) => Fresh(u, k)'
    BY <1>0, <2>4, ZenonT(60) DEF Fresh
  <2>6. CASE u = t
    BY <2>3, <2>5, <2>6
  <2>7. CASE u # t
    <3>1. Same(u) /\ CheckInv(u)
      BY <2>7, ZenonT(60) DEF OnlyTask, IInv
    <3>2. /\ pc[u] = "idle" /\ status[u] = "validated" => \A k \in Keys : Fresh(u, k)
          /\ pc[u] = "check" /\ status[u] \in Finished /\ valid[u] =>
               \A k \in Keys \ todo[u] : Fresh(u, k)
      BY <2>3, <3>1, Zenon DEF CheckInv
    <3> QED
      BY <2>5, <3>1, <3>2, ZenonT(30) DEF Same
  <2> QED
    BY <2>6, <2>7, Zenon
<1> QED
  BY <1>1, <1>2, <1>3, <1>5, Zenon DEF IInv

(***************************************************************************)
(* Every action preserves the invariant.                                   *)
(***************************************************************************)

\* The items of a clean task are values.
LEMMA CleanHasValues ==
    ASSUME IInv, NEW u \in Txs, Clean(u), NEW k \in Keys
    PROVE  mv[k][u] \in V \cup {Absent} /\ mv[k][u] # Estimate
<1>1. tr[u] \in Seq(State) /\ tr[u] # << >> /\ mv[k][u] = Last(tr[u]).ws[k]
  BY Zenon DEF IInv, TypeOK, State, Clean, RunInv, StoreInv
<1>2. Last(tr[u]) \in State
  BY <1>1 DEF Last
<1> QED
  BY <1>1, <1>2, ValueAssumption DEF State

\* checkReadsetAtIndex preserves the invariant: it records what it compared.
LEMMA CheckReadsetInv ==
    ASSUME IInv, NEW t \in Txs, CheckReadset(t)
    PROVE  IInv'
<1>0. TypeOK /\ pc[t] = "check" /\ status[t] \in Finished /\ phase = "validate"
  BY PhaseOfTask DEF IInv, CheckReadset, CheckPcs, Finished
<1>1. PICK k \in todo[t] :
        /\ valid' = [valid EXCEPT ![t] = @ /\ CheckRead(mv, parent, t, k, rset[t][k]).ok]
        /\ conflicts' = [conflicts EXCEPT ![t] =
                           @ \cup CheckRead(mv, parent, t, k, rset[t][k]).conflicts]
        /\ todo' = [todo EXCEPT ![t] = @ \ {k}]
  BY Zenon DEF CheckReadset
<1> DEFINE c == CheckRead(mv, parent, t, k, rset[t][k])
<1>2. k \in Keys /\ mv \in Map /\ parent \in [Keys -> V]
  BY <1>0 DEF TypeOK, Map
<1>3. /\ c.ok \in BOOLEAN
      /\ c.conflicts \subseteq 0 .. t - 1
      /\ c.ok /\ (\A w \in 0 .. t - 1 : mv[k][w] # Estimate) => Fresh(t, k)
  BY <1>2, CheckReadWorks, ZenonT(60) DEF Fresh
<1> HIDE DEF c
<1>4. /\ valid' = [valid EXCEPT ![t] = valid[t] /\ c.ok]
      /\ conflicts' = [conflicts EXCEPT ![t] = conflicts[t] \cup c.conflicts]
      /\ todo' = [todo EXCEPT ![t] = todo[t] \ {k}]
  BY <1>1, ZenonT(60) DEF c
<1>5. UNCHANGED <<block, parent, loopVars, taskVars, storeVars, pc, visVars, wait>>
  BY DEF CheckReadset
<1>6. valid \in [Txs -> BOOLEAN] /\ valid' \in [Txs -> BOOLEAN]
  BY <1>0, <1>3, <1>4, Zenon DEF TypeOK
<1>7. valid'[t] => valid[t] /\ c.ok
  BY <1>4, <1>6, Zenon
<1>8. conflicts' \in [Txs -> SUBSET Txs] /\ todo' \in [Txs -> SUBSET Keys]
  <2>1. c.conflicts \subseteq Txs
    BY <1>3, NAssumption DEF Txs
  <2>2. conflicts \in [Txs -> SUBSET Txs] /\ todo \in [Txs -> SUBSET Keys]
    BY <1>0 DEF TypeOK
  <2> QED
    BY <2>1, <2>2, <1>4, Zenon
<1>9. TypeOK'
  BY <1>0, <1>5, <1>6, <1>8, ZenonT(60) DEF TypeOK, loopVars, taskVars, storeVars, visVars
<1>10. /\ conflicts'[t] = conflicts[t] \cup c.conflicts
       /\ todo'[t] = todo[t] \ {k}
       /\ \A u \in Txs \ {t} : conflicts'[u] = conflicts[u] /\ todo'[u] = todo[u]
  BY <1>0, <1>4 DEF TypeOK
<1>a. \A u \in Txs \ {t} : valid'[u] = valid[u]
  BY <1>4, <1>6, Zenon
<1>11. OnlyTask(t)
  BY <1>5, <1>10, <1>a DEF OnlyTask, Same, loopVars, taskVars, storeVars, visVars
<1>12. RunInv(t)' /\ StoreInv(t)' /\ BelowInv(t)'
  <2>1. RunInv(t) /\ StoreInv(t) /\ BelowInv(t)
    BY DEF IInv
  <2>2. RunInv(t)'
    BY <2>1, <1>5, Zenon DEF RunInv, RunOn, taskVars, visVars
  <2>3. StoreInv(t)'
    BY <2>1, <1>0, <1>5, Zenon DEF StoreInv, taskVars, storeVars, visVars
  <2>4. BelowInv(t)'
    BY <2>1, <1>3, <1>5, <1>10, ZenonT(60) DEF BelowInv, taskVars, visVars
  <2> QED
    BY <2>2, <2>3, <2>4
<1>13. ASSUME valid'[t], \A w \in 0 .. t - 1 : Clean(w)
       PROVE  \A l \in Keys \ todo'[t] : Fresh(t, l)
  <2>1. \A l \in Keys \ todo[t] : Fresh(t, l)
    BY <1>0, <1>7, <1>10, <1>13, Zenon DEF IInv, CheckInv
  <2>2. \A w \in 0 .. t - 1 : mv[k][w] # Estimate
    <3>1. 0 .. t - 1 \subseteq Txs
      BY NAssumption, SMTT(30) DEF Txs
    <3> QED
      BY <1>2, <1>13, <3>1, CleanHasValues, Zenon
  <2>3. Fresh(t, k)
    BY <1>3, <1>7, <1>13, <2>2, Zenon
  <2> QED
    BY <1>10, <2>1, <2>3, Zenon
<1>14. /\ phase' = phase /\ toExecute' = toExecute /\ pc' = pc /\ status' = status
       /\ mv' = mv /\ rset' = rset
  BY <1>5, Zenon DEF loopVars, taskVars, storeVars
<1>15. t \notin toExecute
  BY <1>0 DEF IInv, PhaseInv
<1>16. Clean(t)' => Clean(t) /\ \A l \in Keys : mv'[l][t] = mv[l][t]
  BY <1>14, ZenonT(30) DEF Clean
<1> QED
  BY <1>0, <1>9, <1>11, <1>12, <1>13, <1>14, <1>15, <1>16, OthersValidate, ZenonT(60) DEF CheckPcs

\* The verdict of findConflicts preserves the invariant.
LEMMA CheckDoneInv ==
    ASSUME IInv, NEW t \in Txs, CheckDone(t)
    PROVE  IInv'
<1>0. /\ TypeOK /\ pc[t] = "check" /\ status[t] \in Finished /\ todo[t] = {}
      /\ phase = "validate" /\ t \notin toExecute
  <2>1. pc[t] = "check" /\ status[t] \in Finished /\ todo[t] = {} /\ phase = "validate"
    BY PhaseOfTask, Zenon DEF IInv, CheckDone, CheckPcs, Finished
  <2> QED
    BY <2>1, Zenon DEF IInv, PhaseInv
<1>1. UNCHANGED <<block, parent, loopVars, deps, resp, incarnation, storeVars,
                  visVars, checkVars>>
  BY ZenonT(60) DEF CheckDone
<1>2. \/ /\ valid[t] /\ UNCHANGED todo
         /\ pc' = [pc EXCEPT ![t] = "idle"]
         /\ \/ conflicts[t] = {} /\ status' = [status EXCEPT ![t] = "validated"]
            \/ conflicts[t] # {} /\ status' = status
      \/ /\ pc' = [pc EXCEPT ![t] = "invalidate"] /\ status' = status
         /\ todo' = [todo EXCEPT ![t] = wkeys[t]]
  BY DEF CheckDone
<1>3. TypeOK'
  <2>1. /\ pc' \in [Txs -> ExecPcs \cup CheckPcs \cup {"idle"}]
        /\ status' \in [Txs -> Statuses] /\ todo' \in [Txs -> SUBSET Keys]
    <3>1. pc' \in [Txs -> ExecPcs \cup CheckPcs \cup {"idle"}]
      BY <1>0, <1>2, ZenonT(60) DEF TypeOK, ExecPcs, CheckPcs
    <3>2. status' \in [Txs -> Statuses]
      BY <1>0, <1>2 DEF TypeOK, Statuses
    <3>3. todo' \in [Txs -> SUBSET Keys]
      BY <1>0, <1>2, ZenonT(60) DEF TypeOK
    <3> QED
      BY <3>1, <3>2, <3>3
  <2> QED
    BY <1>0, <1>1, <2>1, Zenon DEF TypeOK, loopVars, storeVars, visVars, checkVars
<1>4. OnlyTask(t)
  BY <1>0, <1>1, <1>2, ZenonT(60) DEF OnlyTask, Same, TypeOK, loopVars, storeVars, visVars, checkVars
<1>5. /\ status'[t] \in Finished
      /\ \/ pc'[t] = "idle" /\ valid[t]
         \/ pc'[t] = "invalidate" /\ todo'[t] = wkeys[t]
  BY <1>0, <1>2 DEF TypeOK, Finished
<1>6. RunInv(t)' /\ StoreInv(t)' /\ BelowInv(t)'
  <2>1. RunInv(t) /\ StoreInv(t) /\ BelowInv(t)
    BY DEF IInv
  <2>2. RunInv(t)'
    BY <2>1, <1>0, <1>1, <1>5, Zenon DEF RunInv, RunOn, visVars, ExecPcs
  <2>3. StoreInv(t)'
    BY <2>1, <1>0, <1>1, <1>5, Zenon DEF StoreInv, storeVars, visVars
  <2>4. BelowInv(t)'
    BY <2>1, <1>1, Zenon DEF BelowInv, visVars, checkVars
  <2> QED
    BY <2>2, <2>3, <2>4
<1>7. toExecute' = toExecute /\ mv' = mv /\ rset' = rset
  BY <1>1 DEF loopVars, storeVars
<1>8. Clean(t)
  BY <1>0, Zenon DEF Clean
<1>9. ASSUME pc'[t] = "idle", \A w \in 0 .. t - 1 : Clean(w)
      PROVE  \A k \in Keys : Fresh(t, k)
  BY <1>0, <1>5, <1>9, Zenon DEF IInv, CheckInv
<1> QED
  BY <1>0, <1>3, <1>4, <1>5, <1>6, <1>7, <1>8, <1>9, OthersValidate, Zenon DEF CheckPcs

\* invalidateTask preserves the invariant: every item of the task is found
\* through its writeset keys.
LEMMA InvalidateInv ==
    ASSUME IInv, NEW t \in Txs, Invalidate(t)
    PROVE  IInv'
<1>0. TypeOK /\ pc[t] = "invalidate" /\ phase = "validate" /\ t \notin toExecute
  <2>1. pc[t] = "invalidate" /\ phase = "validate"
    BY PhaseOfTask DEF Invalidate, CheckPcs
  <2> QED
    BY <2>1 DEF IInv, PhaseInv
<1>1. RunInv(t) /\ StoreInv(t) /\ BelowInv(t)
  BY DEF IInv
<1>2. UNCHANGED <<block, parent, loopVars, status, resp, incarnation, wkeys,
                  visVars, valid, conflicts>>
  BY DEF Invalidate
<1>3. \/ /\ \E k \in todo[t] : /\ mv' = [mv EXCEPT ![k][t] = Estimate]
                               /\ todo' = [todo EXCEPT ![t] = @ \ {k}]
         /\ UNCHANGED <<rset, deps, pc, wait>>
      \/ /\ rset' = [rset EXCEPT ![t] = NoSet]
         /\ deps' = [deps EXCEPT ![t] = @ \cup conflicts[t]]
         /\ wait' = [wait EXCEPT ![t] = deps'[t]]
         /\ pc' = [pc EXCEPT ![t] = "deps"]
         /\ UNCHANGED <<mv, todo>>
  BY Zenon DEF Invalidate
<1>4. CASE UNCHANGED <<rset, deps, pc, wait>> /\ \E k \in todo[t] :
             /\ mv' = [mv EXCEPT ![k][t] = Estimate] /\ todo' = [todo EXCEPT ![t] = @ \ {k}]
  <2>1. PICK k \in todo[t] : /\ mv' = [mv EXCEPT ![k][t] = Estimate]
                             /\ todo' = [todo EXCEPT ![t] = @ \ {k}]
    BY <1>4, Zenon
  <2>2. k \in Keys /\ k \in wkeys[t]
    BY <1>0, <1>1, Zenon DEF TypeOK, StoreInv
  <2>3. mv' \in [Keys -> [Txs -> Items]] /\ todo' \in [Txs -> SUBSET Keys]
    BY <1>0, <2>1, <2>2 DEF TypeOK, Items
  <2>4. TypeOK'
    BY <1>0, <1>2, <1>4, <2>3, ZenonT(30) DEF TypeOK, loopVars, visVars
  <2>5. OnlyTask(t)
    BY <1>0, <1>2, <1>4, <2>1, <2>2, ZenonT(60) DEF OnlyTask, Same, TypeOK, loopVars, visVars
  <2>6. RunInv(t)' /\ BelowInv(t)'
    BY <1>1, <1>2, <1>4, ZenonT(30) DEF RunInv, RunOn, BelowInv, visVars
  <2>7. StoreInv(t)'
    BY <1>0, <1>1, <1>2, <1>4, <2>1, <2>2, ZenonT(60) DEF StoreInv, TypeOK
  <2> QED
    BY <1>0, <1>2, <1>4, <2>4, <2>5, <2>6, <2>7, OthersValidate, ZenonT(30) DEF CheckPcs, Clean, loopVars
<1>5. CASE /\ rset' = [rset EXCEPT ![t] = NoSet]
           /\ deps' = [deps EXCEPT ![t] = @ \cup conflicts[t]]
           /\ wait' = [wait EXCEPT ![t] = deps'[t]]
           /\ pc' = [pc EXCEPT ![t] = "deps"]
           /\ UNCHANGED <<mv, todo>>
  <2>1. /\ rset' \in [Txs -> [Keys -> V \cup {Absent}]]
        /\ deps' \in [Txs -> SUBSET Txs] /\ wait' \in [Txs -> SUBSET Txs]
    BY <1>0, <1>5, Zenon DEF TypeOK, NoSet
  <2>2. pc' \in [Txs -> ExecPcs \cup CheckPcs \cup {"idle"}] /\ pc'[t] = "deps"
    BY <1>0, <1>5 DEF TypeOK, ExecPcs, CheckPcs
  <2>3. TypeOK'
    BY <1>0, <1>2, <1>5, <2>1, <2>2, ZenonT(60) DEF TypeOK, loopVars, visVars
  <2>4. OnlyTask(t)
    BY <1>0, <1>2, <1>5 DEF OnlyTask, Same, TypeOK, loopVars, visVars
  <2>5. RunInv(t)'
    BY <1>1, <1>2, <2>2, Zenon DEF RunInv, RunOn, visVars, ExecPcs
  <2>6. StoreInv(t)'
    BY <1>0, <1>1, <1>2, <1>5, <2>2, Zenon DEF StoreInv
  <2>7. BelowInv(t)'
    BY <1>0, <1>1, <1>2, <1>5, ZenonT(30) DEF BelowInv, TypeOK, visVars
  <2> QED
    BY <1>0, <1>2, <2>2, <2>3, <2>4, <2>5, <2>6, <2>7, OthersValidate, Zenon
    DEF CheckPcs, Clean, loopVars
<1> QED
  BY <1>3, <1>4, <1>5, Zenon

\* Looking at a waiting task preserves the invariant.
LEMMA CheckWaitingInv ==
    ASSUME IInv, NEW t \in Txs, CheckWaiting(t)
    PROVE  IInv'
<1>0. /\ TypeOK /\ pc[t] = "check" /\ phase = "validate" /\ t \notin toExecute
      /\ status[t] = "waiting"
  <2>1. pc[t] = "check" /\ status[t] = "waiting" /\ phase = "validate"
    BY PhaseOfTask, ZenonT(30) DEF CheckWaiting, CheckPcs
  <2> QED
    BY <2>1, Zenon DEF IInv, PhaseInv
<1>1. RunInv(t) /\ StoreInv(t) /\ BelowInv(t)
  BY DEF IInv
<1>2. /\ UNCHANGED <<block, parent, loopVars, taskVars, storeVars, visVars, todo,
                     valid, conflicts>>
      /\ wait' = [wait EXCEPT ![t] = deps[t]]
      /\ pc' = [pc EXCEPT ![t] = "deps"]
  BY ZenonT(30) DEF CheckWaiting
<1>3. wait' \in [Txs -> SUBSET Txs]
  BY <1>0, <1>2, Zenon DEF TypeOK
<1>4. pc' \in [Txs -> ExecPcs \cup CheckPcs \cup {"idle"}] /\ pc'[t] = "deps"
  BY <1>0, <1>2 DEF TypeOK, ExecPcs, CheckPcs
<1>5. TypeOK'
  BY <1>0, <1>2, <1>3, <1>4, ZenonT(60) DEF TypeOK, loopVars, taskVars, storeVars, visVars
<1>6. OnlyTask(t)
  BY <1>0, <1>2 DEF OnlyTask, Same, TypeOK, loopVars, taskVars, storeVars, visVars
<1>7. RunInv(t)'
  BY <1>1, <1>2, <1>4, ZenonT(30) DEF RunInv, RunOn, taskVars, visVars, ExecPcs
<1>8. StoreInv(t)' /\ BelowInv(t)'
  BY <1>0, <1>1, <1>2, <1>4, Zenon DEF StoreInv, BelowInv, taskVars, storeVars, visVars
<1> QED
  BY <1>0, <1>2, <1>4, <1>5, <1>6, <1>7, <1>8, OthersValidate, Zenon DEF CheckPcs, Clean, loopVars

\* Task t goes back to the scheduler.
LEMMA RerunInv ==
    ASSUME IInv, NEW t \in Txs, phase = "validate", pc[t] \in {"check", "deps"}, Rerun(t),
           UNCHANGED <<block, parent, phase, iterations, synchronous, startIdx, deps,
                       storeVars, visVars, todo, checkVars>>
    PROVE  IInv'
<1>0. TypeOK /\ RunInv(t) /\ StoreInv(t) /\ BelowInv(t)
  BY DEF IInv
<1>1. /\ status' = [status EXCEPT ![t] = "pending"]
      /\ resp' = [resp EXCEPT ![t] = Absent]
      /\ incarnation' = [incarnation EXCEPT ![t] = @ + 1]
      /\ toExecute' = toExecute \cup {t}
      /\ pc' = [pc EXCEPT ![t] = "idle"]
  BY Zenon DEF Rerun, ResetAndIncrement
<1>2. /\ status' \in [Txs -> Statuses] /\ status'[t] = "pending"
      /\ resp' \in [Txs -> V \cup {Absent}]
      /\ incarnation' \in [Txs -> Nat]
      /\ toExecute' \subseteq Txs
  BY <1>0, <1>1, SMTT(30) DEF TypeOK, Statuses
<1>3. pc' \in [Txs -> ExecPcs \cup CheckPcs \cup {"idle"}] /\ pc'[t] = "idle"
  BY <1>0, <1>1 DEF TypeOK
<1>4. TypeOK'
  BY <1>0, <1>2, <1>3, ZenonT(60) DEF TypeOK, storeVars, visVars, checkVars
<1>5. OnlyTask(t)
  BY <1>0, <1>1 DEF OnlyTask, Same, TypeOK, storeVars, visVars, checkVars
<1>6. RunInv(t)'
  BY <1>0, <1>2, <1>3, Zenon DEF RunInv, RunOn, visVars, ExecPcs, Finished
<1>7. StoreInv(t)' /\ BelowInv(t)'
  BY <1>0, <1>2, <1>3, Zenon DEF StoreInv, BelowInv, storeVars, visVars, checkVars, Finished
<1> QED
  BY <1>1, <1>2, <1>3, <1>4, <1>5, <1>6, <1>7, OthersValidate, Zenon DEF Clean, Finished

\* dependenciesValidated preserves the invariant, whatever it reads of tasks
\* that are being validated at the same time.
LEMMA DependenciesValidatedInv ==
    ASSUME IInv, NEW t \in Txs, DependenciesValidated(t)
    PROVE  IInv'
<1>0. /\ TypeOK /\ pc[t] = "deps" /\ phase = "validate" /\ t \notin toExecute
      /\ RunInv(t) /\ StoreInv(t) /\ BelowInv(t)
  <2>1. pc[t] = "deps" /\ phase = "validate"
    BY PhaseOfTask, ZenonT(30) DEF DependenciesValidated, CheckPcs
  <2> QED
    BY <2>1, Zenon DEF IInv, PhaseInv
<1>1. UNCHANGED <<block, parent, phase, iterations, synchronous, startIdx, deps,
                  storeVars, visVars, todo, valid, conflicts>>
  BY ZenonT(30) DEF DependenciesValidated
<1>2. CASE Rerun(t) /\ UNCHANGED wait
  BY <1>0, <1>1, <1>2, RerunInv, ZenonT(30) DEF checkVars
<1>3. CASE \E d \in wait[t] : /\ wait' = [wait EXCEPT ![t] = @ \ {d}]
                              /\ UNCHANGED <<status, pc, resp, incarnation, toExecute>>
  <2>1. wait' \in [Txs -> SUBSET Txs]
    BY <1>0, <1>3 DEF TypeOK
  <2>2. TypeOK'
    BY <1>0, <1>1, <1>3, <2>1, Zenon DEF TypeOK, storeVars, visVars
  <2>3. OnlyTask(t)
    BY <1>0, <1>1, <1>3, Zenon DEF OnlyTask, Same, storeVars, visVars
  <2>4. RunInv(t)' /\ StoreInv(t)' /\ BelowInv(t)'
    BY <1>0, <1>1, <1>3, Zenon DEF RunInv, RunOn, StoreInv, BelowInv, storeVars, visVars
  <2> QED
    BY <1>0, <1>3, <2>2, <2>3, <2>4, OthersValidate, ZenonT(60) DEF CheckPcs, Clean
<1>4. CASE /\ status' = [status EXCEPT ![t] = "waiting"]
           /\ pc' = [pc EXCEPT ![t] = "idle"]
           /\ UNCHANGED <<wait, resp, incarnation, toExecute>>
  <2>1. status' \in [Txs -> Statuses] /\ status'[t] = "waiting"
    BY <1>0, <1>4, Zenon DEF TypeOK, Statuses
  <2>2. pc' \in [Txs -> ExecPcs \cup CheckPcs \cup {"idle"}] /\ pc'[t] = "idle"
    BY <1>0, <1>4 DEF TypeOK
  <2>3. TypeOK'
    BY <1>0, <1>1, <1>4, <2>1, <2>2, ZenonT(60) DEF TypeOK, storeVars, visVars
  <2>4. OnlyTask(t)
    BY <1>0, <1>1, <1>4 DEF OnlyTask, Same, TypeOK, storeVars, visVars
  <2>5. RunInv(t)'
    BY <1>0, <1>1, <1>4, <2>1, <2>2, Zenon DEF RunInv, RunOn, visVars, ExecPcs, Finished
  <2>6. StoreInv(t)' /\ BelowInv(t)'
    BY <1>0, <1>1, <2>1, <2>2, Zenon DEF StoreInv, BelowInv, storeVars, visVars, Finished
  <2> QED
    BY <1>0, <1>4, <2>1, <2>2, <2>3, <2>4, <2>5, <2>6, OthersValidate, ZenonT(60) DEF Clean, Finished
<1> QED
  BY <1>2, <1>3, <1>4, Zenon DEF DependenciesValidated

\* Sending an aborted task back preserves the invariant.
LEMMA RerunAbortedInv ==
    ASSUME IInv, NEW t \in Txs, RerunAborted(t)
    PROVE  IInv'
BY PhaseOfTask, RerunInv, Zenon DEF RerunAborted, CheckPcs


\* A block is made of programs.
LEMMA BlockType ==
    ASSUME TypeOK, NEW t \in Txs
    PROVE  block[t] \in Programs
BY SchedulerAssumption, Zenon DEF TypeOK

\* prepareTask preserves the invariant, and so does resetting a validated task
\* in the sequential fallback.
LEMMA StartTaskInv ==
    ASSUME IInv, NEW t \in Txs, StartTask(t)
    PROVE  IInv'
<1>0. /\ TypeOK /\ phase = "execute" /\ t \in toExecute
      /\ RunInv(t) /\ StoreInv(t) /\ BelowInv(t) /\ PhaseInv(t)
  BY Zenon DEF IInv, StartTask
<1>1. /\ toExecute' = toExecute \ {t}
      /\ rs' = [rs EXCEPT ![t] = NoSet]
      /\ tr' = [tr EXCEPT ![t] = <<Begin(block[t])>>]
      /\ abort' = [abort EXCEPT ![t] = NoTx]
      /\ pc' = [pc EXCEPT ![t] = "run"]
      /\ UNCHANGED <<block, parent, phase, iterations, synchronous, startIdx, deps,
                     wkeys, todo, checkVars>>
  BY Zenon DEF StartTask
<1>2. /\ status' \in [Txs -> Statuses] /\ status'[t] = "pending"
      /\ resp' \in [Txs -> V \cup {Absent}] /\ incarnation' \in [Txs -> Nat]
      /\ \A u \in Txs \ {t} : status'[u] = status[u] /\ resp'[u] = resp[u]
  <2>1. CASE ResetAndIncrement(t)
    BY <1>0, <2>1 DEF ResetAndIncrement, TypeOK, Statuses
  <2>2. CASE status[t] = "pending" /\ UNCHANGED <<status, resp, incarnation>>
    BY <1>0, <2>2, Zenon DEF TypeOK
  <2> QED
    BY <1>0, <2>1, <2>2, Zenon DEF StartTask, PhaseInv
<1>3. /\ mv' \in [Keys -> [Txs -> Items]] /\ rset' \in [Txs -> [Keys -> V \cup {Absent}]]
      /\ \A u \in Txs \ {t} : rset'[u] = rset[u] /\ \A k \in Keys : mv'[k][u] = mv[k][u]
      /\ \A k \in Keys : mv'[k][t] # Absent => mv[k][t] # Absent \/ k \in wkeys[t]
  <2>1. CASE InvalidateAtOnce(t)
    <3>1. \A k \in Keys : mv'[k] = IF k \in wkeys[t] THEN [mv[k] EXCEPT ![t] = Estimate]
                                                      ELSE mv[k]
      BY <2>1, Zenon DEF InvalidateAtOnce
    <3>2. mv' \in [Keys -> [Txs -> Items]]
      BY <1>0, <2>1, Zenon DEF InvalidateAtOnce, TypeOK, Items
    <3>3. rset' \in [Txs -> [Keys -> V \cup {Absent}]] /\ \A u \in Txs \ {t} : rset'[u] = rset[u]
      BY <1>0, <2>1 DEF InvalidateAtOnce, TypeOK, NoSet
    <3>4. \A u \in Txs \ {t} : \A k \in Keys : mv'[k][u] = mv[k][u]
      BY <1>0, <3>1, ZenonT(60) DEF TypeOK
    <3>5. \A k \in Keys : mv'[k][t] # Absent => mv[k][t] # Absent \/ k \in wkeys[t]
      BY <3>1, Zenon
    <3> QED
      BY <3>2, <3>3, <3>4, <3>5
  <2>2. CASE UNCHANGED <<mv, rset>>
    BY <1>0, <2>2 DEF TypeOK
  <2> QED
    BY <2>1, <2>2, ZenonT(60) DEF StartTask
<1>4. pc[t] = "idle"
  BY <1>0 DEF PhaseInv
<1>5. Begin(block[t]) \in State
  BY <1>0, BlockType, ProgramAssumption, ZenonT(60) DEF Begin, State, NoSet
<1>6. /\ tr' \in [Txs -> Seq(State)]
      /\ rs' \in [Txs -> [Keys -> V \cup {Absent}]] /\ abort' \in [Txs -> Txs \cup {NoTx}]
  <2>1. tr \in [Txs -> Seq(State)]
    BY <1>0, Zenon DEF TypeOK, State
  <2>2. <<Begin(block[t])>> \in Seq(State)
    BY <1>5
  <2>3. tr' \in [Txs -> Seq(State)]
    BY <1>1, <2>1, <2>2, ZenonT(60)
  <2> QED
    BY <1>0, <1>1, <2>3 DEF TypeOK, NoSet
<1>7. pc' \in [Txs -> ExecPcs \cup CheckPcs \cup {"idle"}] /\ pc'[t] = "run"
  BY <1>0, <1>1 DEF TypeOK, ExecPcs, CheckPcs
<1>8. TypeOK'
  BY <1>0, <1>1, <1>2, <1>3, <1>6, <1>7, ZenonT(60) DEF TypeOK, State, checkVars
<1>9. OnlyTask(t)
  BY <1>0, <1>1, <1>2, <1>3, Zenon DEF OnlyTask, Same, TypeOK, checkVars
<1>10. RunInv(t)'
  <2>1. tr'[t] = <<Begin(block[t])>> /\ block' = block
    BY <1>0, <1>1, Zenon DEF TypeOK
  <2>2. RunOn(block[t], <<Begin(block[t])>>, rs'[t])
    BY RunBegins, Zenon
  <2>3. <<Begin(block[t])>> # << >>
    OBVIOUS
  <2> QED
    BY <1>2, <1>7, <2>1, <2>2, <2>3, Zenon DEF RunInv, Finished
<1>11. StoreInv(t)'
  BY <1>0, <1>1, <1>2, <1>3, <1>4, <1>7, Zenon DEF StoreInv, Finished
<1>12. BelowInv(t)'
  BY <1>0, <1>1, Zenon DEF BelowInv, TypeOK, checkVars
<1> QED
  BY <1>0, <1>1, <1>2, <1>7, <1>8, <1>9, <1>10, <1>11, <1>12, OthersExecute, ZenonT(30) DEF ExecPcs

\* A transaction that has not finished takes its next step on its readset.
LEMMA RunExtends ==
    ASSUME NEW p \in Programs, NEW s \in Seq(State), s # << >>, NEW view, NEW other,
           RunOn(p, s, view),
           \A k \in Keys : view[k] # Absent => other[k] = view[k],
           LET op == Op(p, Last(s).loc)
           IN  /\ op.type # "done"
               /\ op.type = "get" /\ Last(s).ws[op.key] = Absent => other[op.key] # Absent
    PROVE  RunOn(p, Append(s, Step(p, Last(s), other)), other)
<1> DEFINE new == Append(s, Step(p, Last(s), other))
<1>1. /\ Len(s) \in Nat \ {0} /\ Len(new) = Len(s) + 1 /\ new[1] = s[1]
      /\ \A n \in 1 .. Len(s) : new[n] = s[n]
      /\ new[Len(s) + 1] = Step(p, Last(s), other)
  BY Appended, ZenonT(60)
<1> HIDE DEF new
<1>2. ASSUME NEW n \in 1 .. Len(new) - 1
      PROVE  LET op == Op(p, new[n].loc)
             IN  /\ op.type # "done"
                 /\ op.type = "get" /\ new[n].ws[op.key] = Absent => other[op.key] # Absent
                 /\ new[n + 1] = Step(p, new[n], other)
  <2>1. CASE n = Len(s)
    <3>1. new[n] = Last(s)
      BY <1>1, <2>1, LastAt, IndexOrLast, Zenon
    <3> QED
      BY <1>1, <2>1, <3>1, Zenon
  <2>2. CASE n \in 1 .. Len(s) - 1
    <3>1. new[n] = s[n] /\ new[n + 1] = s[n + 1] /\ n \in 1 .. Len(s)
      BY <1>1, <2>2, IndexOrLast, Zenon
    <3>2. LET op == Op(p, s[n].loc)
          IN  /\ op.type # "done"
              /\ op.type = "get" /\ s[n].ws[op.key] = Absent => view[op.key] # Absent
              /\ s[n + 1] = Step(p, s[n], view)
      BY <2>2, Zenon DEF RunOn
    <3>3. s[n] \in State
      BY <3>1, ElementIn, Zenon
    <3>4. /\ Step(p, s[n], view) = Step(p, s[n], other)
          /\ LET op == Op(p, s[n].loc)
             IN  op.type = "get" /\ s[n].ws[op.key] = Absent => other[op.key] # Absent
      BY <3>2, <3>3, StepOnMore, ZenonT(60)
    <3> QED
      BY <3>1, <3>2, <3>4, ZenonT(60)
  <2>3. n = Len(s) \/ n \in 1 .. Len(s) - 1
    BY <1>1, IndexOrLast, Zenon
  <2> QED
    BY <2>1, <2>2, <2>3, Zenon
<1> QED
  BY <1>1, <1>2, Zenon DEF RunOn, new

\* A store access of a running transaction preserves the invariant.
LEMMA StoreOpInv ==
    ASSUME IInv, NEW t \in Txs, StoreOp(t)
    PROVE  IInv'
<1>0. /\ TypeOK /\ pc[t] = "run" /\ phase = "execute" /\ abort[t] = NoTx
      /\ RunInv(t) /\ StoreInv(t) /\ BelowInv(t) /\ PhaseInv(t)
  BY PhaseOfTask, Zenon DEF IInv, StoreOp, ExecPcs
<1>1. UNCHANGED <<block, parent, loopVars, taskVars, storeVars, pc, todo, checkVars>>
  BY Zenon DEF StoreOp
<1> DEFINE p == block[t]
<1> DEFINE s == Last(tr[t])
<1> DEFINE op == Op(p, s.loc)
<1> DEFINE got == GetLatestBeforeIndex(mv, parent, t, op.key)
<1>2. p \in Programs
  BY <1>0, BlockType
<1>3. /\ tr \in [Txs -> Seq(State)] /\ tr[t] # << >> /\ status[t] = "pending"
      /\ rs \in [Txs -> [Keys -> V \cup {Absent}]]
      /\ RunOn(p, tr[t], rs[t]) /\ t \notin toExecute
  BY <1>0, Zenon DEF TypeOK, State, RunInv, PhaseInv, ExecPcs
<1>4. s \in State /\ s.loc \in Locs
  <2>1. s \in State
    BY <1>3, LastIn, Zenon
  <2> QED
    BY <2>1, Zenon DEF State
<1>5. op.type # "done" /\ (op.type = "get" => op.key \in Keys)
  BY <1>2, <1>4, OpType, ZenonT(60) DEF StoreOp
<1>6. \/ /\ op.type = "get" /\ s.ws[op.key] = Absent /\ rs[t][op.key] = Absent
         /\ got = Estimate
         /\ abort' = [abort EXCEPT ![t] = LatestBefore(mv, t, op.key)]
         /\ UNCHANGED <<rs, tr>>
      \/ /\ op.type = "get" /\ s.ws[op.key] = Absent /\ rs[t][op.key] = Absent
         /\ got # Estimate
         /\ rs' = [rs EXCEPT ![t][op.key] = got]
         /\ tr' = [tr EXCEPT ![t] = Append(@, Step(p, s, rs'[t]))]
         /\ UNCHANGED abort
      \/ /\ ~(op.type = "get" /\ s.ws[op.key] = Absent /\ rs[t][op.key] = Absent)
         /\ tr' = [tr EXCEPT ![t] = Append(@, Step(p, s, rs[t]))]
         /\ UNCHANGED <<rs, abort>>
  BY Zenon DEF StoreOp
<1> HIDE DEF op, s, p, got
<1>7. SUFFICES /\ tr' \in [Txs -> Seq(State)] /\ rs' \in [Txs -> [Keys -> V \cup {Absent}]]
               /\ abort' \in [Txs -> Txs \cup {NoTx}]
               /\ \A u \in Txs \ {t} : tr'[u] = tr[u] /\ rs'[u] = rs[u] /\ abort'[u] = abort[u]
               /\ tr'[t] # << >> /\ RunOn(p, tr'[t], rs'[t])
               /\ abort'[t] \in (0 .. t - 1) \cup {NoTx}
  <2>1. TypeOK'
    BY <1>0, <1>1, <1>7, Zenon DEF TypeOK, State, loopVars, taskVars, storeVars, checkVars
  <2>2. OnlyTask(t)
    BY <1>1, <1>7, ZenonT(60) DEF OnlyTask, Same, loopVars, taskVars, storeVars, checkVars
  <2>3. RunInv(t)'
    BY <1>0, <1>1, <1>3, <1>7, ZenonT(60) DEF RunInv, taskVars, Finished, p
  <2>4. StoreInv(t)' /\ BelowInv(t)'
    BY <1>0, <1>1, <1>3, <1>7, Zenon DEF StoreInv, BelowInv, taskVars, storeVars, checkVars, Finished
  <2> QED
    BY <1>0, <1>1, <1>3, <2>1, <2>2, <2>3, <2>4, OthersExecute, ZenonT(30) DEF ExecPcs, loopVars, taskVars
<1>8. CASE /\ op.type = "get" /\ got = Estimate
           /\ abort' = [abort EXCEPT ![t] = LatestBefore(mv, t, op.key)]
           /\ UNCHANGED <<rs, tr>>
  <2>1. mv \in Map /\ parent \in [Keys -> V] /\ t \in 0 .. N /\ 0 .. t - 1 \subseteq Txs
    BY <1>0, BelowTask, Zenon DEF TypeOK, Map
  <2>2. LatestBefore(mv, t, op.key) \in (0 .. t - 1) \cup {NoTx}
    BY <1>5, <1>8, <2>1, ViewType, ZenonT(30)
  <2> QED
    BY <1>0, <1>3, <1>8, <2>1, <2>2, Zenon DEF TypeOK
<1>9. CASE /\ op.type = "get" /\ s.ws[op.key] = Absent /\ rs[t][op.key] = Absent
           /\ got # Estimate
           /\ rs' = [rs EXCEPT ![t][op.key] = got]
           /\ tr' = [tr EXCEPT ![t] = Append(@, Step(p, s, rs'[t]))]
           /\ UNCHANGED abort
  <2>1. mv \in Map /\ parent \in [Keys -> V] /\ t \in 0 .. N /\ op.key \in Keys
    BY <1>0, <1>5, <1>9, BelowTask, ZenonT(60) DEF TypeOK, Map
  <2>2. got \in V /\ got # Absent
    BY <1>9, <2>1, ViewType, ValueAssumption DEF got
  <2>3. /\ rs' \in [Txs -> [Keys -> V \cup {Absent}]]
        /\ rs'[t][op.key] = got /\ rs'[t] = [rs[t] EXCEPT ![op.key] = got]
        /\ \A u \in Txs \ {t} : rs'[u] = rs[u]
    BY <1>3, <1>9, <2>1, <2>2, Zenon
  <2>4. \A k \in Keys : rs[t][k] # Absent => rs'[t][k] = rs[t][k]
    BY <1>3, <1>9, <2>1, <2>3, Zenon
  <2>5. Step(p, s, rs'[t]) \in State
    BY <1>2, <1>4, <2>2, <2>3, StepType, ZenonT(60) DEF op
  <2>6. /\ tr' \in [Txs -> Seq(State)] /\ tr'[t] = Append(tr[t], Step(p, s, rs'[t]))
        /\ tr'[t] # << >> /\ \A u \in Txs \ {t} : tr'[u] = tr[u]
    BY <1>3, <1>9, <2>5, AppendType, ZenonT(60)
  <2>7. RunOn(p, tr'[t], rs'[t])
    <3> DEFINE old == rs[t]
               new == rs'[t]
    <3>1. \A k \in Keys : old[k] # Absent => new[k] = old[k]
      BY <2>4, Zenon
    <3>2. new[op.key] # Absent
      BY <2>2, <2>3, Zenon
    <3>3. RunOn(p, tr[t], old) /\ tr[t] \in Seq(State) /\ tr[t] # << >>
      BY <1>3
    <3> HIDE DEF old, new
    <3>4. RunOn(p, Append(tr[t], Step(p, s, new)), new)
      BY <1>2, <1>5, <3>1, <3>2, <3>3, RunExtends, ZenonT(30) DEF op, s
    <3> QED
      BY <2>6, <3>4 DEF new
  <2> QED
    BY <1>0, <1>9, <2>3, <2>6, <2>7, ZenonT(60) DEF TypeOK, BelowInv
<1>10. CASE /\ ~(op.type = "get" /\ s.ws[op.key] = Absent /\ rs[t][op.key] = Absent)
            /\ tr' = [tr EXCEPT ![t] = Append(@, Step(p, s, rs[t]))]
            /\ UNCHANGED <<rs, abort>>
  <2>1. op.type = "get" /\ s.ws[op.key] = Absent => rs[t][op.key] # Absent
    BY <1>10
  <2>2. Step(p, s, rs[t]) \in State
    BY <1>2, <1>3, <1>4, <2>1, StepType, Zenon DEF op
  <2>3. /\ tr' \in [Txs -> Seq(State)] /\ tr'[t] = Append(tr[t], Step(p, s, rs[t]))
        /\ tr'[t] # << >> /\ \A u \in Txs \ {t} : tr'[u] = tr[u]
    BY <1>3, <1>10, <2>2, AppendType, ZenonT(30)
  <2>4. RunOn(p, tr'[t], rs'[t])
    BY <1>2, <1>3, <1>5, <1>10, <2>1, <2>3, RunExtends, ZenonT(60) DEF op, s
  <2> QED
    BY <1>0, <1>3, <1>10, <2>3, <2>4, ZenonT(60) DEF TypeOK, BelowInv
<1> QED
  BY <1>6, <1>8, <1>9, <1>10, ZenonT(60)

\* A task at work, and what is known of it.
LEMMA ExecutingTask ==
    ASSUME IInv, NEW t \in Txs, pc[t] \in ExecPcs
    PROVE  /\ TypeOK /\ phase = "execute" /\ t \notin toExecute
           /\ RunInv(t) /\ StoreInv(t) /\ BelowInv(t)
           /\ tr \in [Txs -> Seq(State)] /\ tr[t] # << >> /\ Last(tr[t]) \in State
<1>1. TypeOK /\ phase = "execute" /\ RunInv(t) /\ StoreInv(t) /\ BelowInv(t) /\ PhaseInv(t)
  BY PhaseOfTask DEF IInv
<1>2. tr \in [Txs -> Seq(State)] /\ tr[t] # << >> /\ t \notin toExecute
  BY <1>1, Zenon DEF TypeOK, State, RunInv, PhaseInv, ExecPcs
<1>3. Last(tr[t]) \in State
  BY <1>2 DEF Last
<1> QED
  BY <1>1, <1>2, <1>3, Zenon

\* The end of deliverTx preserves the invariant: every item of the task is of
\* its old writeset or of its new one.
LEMMA TxReturnsInv ==
    ASSUME IInv, NEW t \in Txs, TxReturns(t)
    PROVE  IInv'
<1>0. /\ TypeOK /\ phase = "execute" /\ t \notin toExecute /\ pc[t] = "run"
      /\ RunInv(t) /\ StoreInv(t) /\ BelowInv(t)
      /\ tr[t] # << >> /\ Last(tr[t]) \in State
  BY ExecutingTask, Zenon DEF TxReturns, ExecPcs
<1>1. /\ wkeys' = [wkeys EXCEPT ![t] = {}]
      /\ todo' = [todo EXCEPT ![t] = wkeys[t] \cup Written(t)]
      /\ pc' = [pc EXCEPT ![t] = "publish"]
      /\ UNCHANGED <<block, parent, loopVars, incarnation, mv, rset, visVars, checkVars>>
  BY ZenonT(60) DEF TxReturns
<1>2. /\ status' \in [Txs -> Statuses] /\ deps' \in [Txs -> SUBSET Txs]
      /\ resp' \in [Txs -> V \cup {Absent}]
      /\ \A u \in Txs \ {t} : status'[u] = status[u] /\ deps'[u] = deps[u] /\ resp'[u] = resp[u]
      /\ deps'[t] \subseteq 0 .. t - 1
      /\ \/ abort[t] # NoTx /\ status'[t] = "aborted"
         \/ /\ abort[t] = NoTx /\ status'[t] = "executed"
            /\ Op(block[t], Last(tr[t]).loc).type = "done"
            /\ resp'[t] = Op(block[t], Last(tr[t]).loc).resp
  <2>1. CASE abort[t] # NoTx
    <3>1. /\ status' = [status EXCEPT ![t] = "aborted"]
          /\ deps' = [deps EXCEPT ![t] = @ \cup {abort[t]}]
          /\ resp' = resp
      BY <2>1 DEF TxReturns
    <3>2. abort[t] \in 0 .. t - 1 /\ abort[t] \in Txs /\ deps[t] \subseteq 0 .. t - 1
      BY <1>0, <2>1, ZenonT(30) DEF BelowInv, TypeOK
    <3> QED
      BY <1>0, <2>1, <3>1, <3>2, ZenonT(60) DEF TypeOK, Statuses
  <2>2. CASE abort[t] = NoTx
    <3> DEFINE op == Op(block[t], Last(tr[t]).loc)
    <3>1. /\ op.type = "done"
          /\ status' = [status EXCEPT ![t] = "executed"]
          /\ resp' = [resp EXCEPT ![t] = op.resp]
          /\ deps' = deps
      BY <2>2, ZenonT(30) DEF TxReturns
    <3>2. op.resp \in V
      BY <1>0, <3>1, OpType, BlockType, ZenonT(60) DEF State
    <3> HIDE DEF op
    <3>3. /\ status' \in [Txs -> Statuses] /\ resp' \in [Txs -> V \cup {Absent}]
          /\ status'[t] = "executed" /\ resp'[t] = op.resp
          /\ \A u \in Txs \ {t} : status'[u] = status[u] /\ resp'[u] = resp[u]
      BY <1>0, <3>1, <3>2, Zenon DEF TypeOK, Statuses
    <3> QED
      BY <1>0, <2>2, <3>1, <3>3, ZenonT(30) DEF TypeOK, BelowInv, op
  <2> QED
    BY <2>1, <2>2, Zenon
<1>3. Written(t) \subseteq Keys
  BY SMTT(30) DEF Written
<1>4. /\ wkeys' \in [Txs -> SUBSET Keys] /\ todo' \in [Txs -> SUBSET Keys]
      /\ todo'[t] = wkeys[t] \cup Written(t)
      /\ \A u \in Txs \ {t} : wkeys'[u] = wkeys[u] /\ todo'[u] = todo[u]
  BY <1>0, <1>1, <1>3, ZenonT(60) DEF TypeOK
<1>5. /\ pc' \in [Txs -> ExecPcs \cup CheckPcs \cup {"idle"}] /\ pc'[t] = "publish"
      /\ \A u \in Txs \ {t} : pc'[u] = pc[u]
  BY <1>0, <1>1 DEF TypeOK, ExecPcs, CheckPcs
<1>6. TypeOK'
  BY <1>0, <1>1, <1>2, <1>4, <1>5, Zenon DEF TypeOK, loopVars, visVars, checkVars
<1>7. OnlyTask(t)
  BY <1>1, <1>2, <1>4, <1>5, Zenon DEF OnlyTask, Same, loopVars, visVars, checkVars
<1>8. RunInv(t)'
  BY <1>0, <1>1, <1>2, <1>5, Zenon DEF RunInv, RunOn, visVars, Finished
<1>9. StoreInv(t)'
  <2>1. \A k \in Keys \ todo'[t] : mv[k][t] = Absent /\ Last(tr[t]).ws[k] = Absent
    BY <1>0, <1>4, ZenonT(60) DEF StoreInv, Written
  <2> QED
    BY <1>1, <1>5, <2>1, ZenonT(60) DEF StoreInv, visVars
<1>10. BelowInv(t)'
  BY <1>0, <1>1, <1>2, Zenon DEF BelowInv, visVars, checkVars
<1> QED
  BY <1>0, <1>1, <1>2, <1>5, <1>6, <1>7, <1>8, <1>9, <1>10, OthersExecute, ZenonT(60)
  DEF ExecPcs, loopVars

\* While t publishes, only the keys it has dealt with are constrained.
LEMMA PublishingStore ==
    ASSUME NEW t \in Txs, pc[t] = "publish",
           UNCHANGED <<status, pc, wkeys, tr, abort>>,
           \A l \in Keys \ todo'[t] : /\ mv'[l][t] # Absent => l \in Written(t)
                                      /\ abort[t] = NoTx => mv'[l][t] = Last(tr[t]).ws[l]
    PROVE  StoreInv(t)'
<1>1. pc'[t] # "invalidate" /\ pc'[t] \notin {"idle", "check"} /\ pc'[t] = "publish"
  OBVIOUS
<1>2. Written(t)' = Written(t)
  BY Zenon DEF Written
<1>3. \A l \in Keys \ todo'[t] : /\ mv'[l][t] # Absent => l \in Written(t)'
                                 /\ abort'[t] = NoTx => mv'[l][t] = Last(tr'[t]).ws[l]
  BY <1>2, Zenon
<1> QED
  BY <1>1, <1>3, ZenonT(60) DEF StoreInv

\* One key of the writeset or of the previous one is dealt with.
LEMMA PublishKeyInv ==
    ASSUME IInv, NEW t \in Txs, pc[t] = "publish", NEW k \in todo[t], NEW item \in Items,
           item # Absent => k \in Written(t),
           abort[t] = NoTx => item = Last(tr[t]).ws[k],
           mv' = [mv EXCEPT ![k][t] = item],
           todo' = [todo EXCEPT ![t] = @ \ {k}],
           UNCHANGED <<block, parent, loopVars, taskVars, wkeys, rset, pc, visVars, checkVars>>
    PROVE  IInv'
<1>0. /\ TypeOK /\ phase = "execute" /\ t \notin toExecute
      /\ RunInv(t) /\ StoreInv(t) /\ BelowInv(t)
  BY ExecutingTask, SMTT(30) DEF ExecPcs
<1>1. k \in Keys
  BY <1>0, ZenonT(60) DEF TypeOK
<1>2. /\ mv' \in [Keys -> [Txs -> Items]] /\ todo' \in [Txs -> SUBSET Keys]
      /\ \A u \in Txs \ {t} : todo'[u] = todo[u] /\ \A l \in Keys : mv'[l][u] = mv[l][u]
      /\ todo'[t] = todo[t] \ {k} /\ mv'[k][t] = item
      /\ \A l \in Keys \ {k} : mv'[l][t] = mv[l][t]
  BY <1>0, <1>1 DEF TypeOK
<1>3. TypeOK'
  BY <1>0, <1>2, ZenonT(30) DEF TypeOK, loopVars, taskVars, visVars, checkVars
<1>4. OnlyTask(t)
  BY <1>2, Zenon DEF OnlyTask, Same, loopVars, taskVars, visVars, checkVars
<1>5. RunInv(t)' /\ BelowInv(t)'
  BY <1>0, ZenonT(30) DEF RunInv, RunOn, BelowInv, taskVars, visVars, checkVars
<1>6. StoreInv(t)'
  <2>1. /\ status' = status /\ pc' = pc /\ wkeys' = wkeys
        /\ tr' = tr /\ abort' = abort
    BY Zenon DEF taskVars, visVars
  <2>2. \A l \in Keys \ todo'[t] : l = k \/ l \in Keys \ todo[t]
    BY <1>1, <1>2, Zenon
  <2>3. \A l \in Keys \ todo'[t] : /\ mv'[l][t] # Absent => l \in Written(t)
                                   /\ abort[t] = NoTx => mv'[l][t] = Last(tr[t]).ws[l]
    BY <1>0, <1>2, <2>2, ZenonT(60) DEF StoreInv
  <2> QED
    BY <2>1, <2>3, PublishingStore, Zenon
<1>7. status[t] # "validated"
  BY <1>0 DEF RunInv
<1> QED
  BY <1>0, <1>3, <1>4, <1>5, <1>6, <1>7, OthersExecute, ZenonT(60) DEF ExecPcs, loopVars, taskVars

\* removeOldWriteset preserves the invariant.
LEMMA RemoveOldWritesetInv ==
    ASSUME IInv, NEW t \in Txs, RemoveOldWriteset(t)
    PROVE  IInv'
<1>1. PICK k \in todo[t] \ Written(t) : /\ mv' = [mv EXCEPT ![k][t] = Absent]
                                        /\ todo' = [todo EXCEPT ![t] = @ \ {k}]
  BY Zenon DEF RemoveOldWriteset
<1>2. k \in Keys /\ Last(tr[t]).ws[k] = Absent
  BY DEF IInv, TypeOK, Written
<1> QED
  BY <1>1, <1>2, PublishKeyInv, Zenon DEF RemoveOldWriteset, Items

\* SetWriteset and SetEstimatedWriteset preserve the invariant.
LEMMA SetWritesetInv ==
    ASSUME IInv, NEW t \in Txs, SetWriteset(t)
    PROVE  IInv'
<1> DEFINE item(k) == IF abort[t] # NoTx THEN Estimate ELSE Last(tr[t]).ws[k]
<1>1. PICK k \in todo[t] \cap Written(t) : /\ mv' = [mv EXCEPT ![k][t] = item(k)]
                                           /\ todo' = [todo EXCEPT ![t] = @ \ {k}]
  BY Zenon DEF SetWriteset
<1>2. k \in Keys /\ Last(tr[t]) \in State
  BY ExecutingTask DEF Written, SetWriteset, ExecPcs
<1>3. item(k) \in Items
  BY <1>2 DEF State, Items
<1>4. abort[t] = NoTx => item(k) = Last(tr[t]).ws[k]
  OBVIOUS
<1> HIDE DEF item
<1> QED
  BY <1>1, <1>3, <1>4, PublishKeyInv, Zenon DEF SetWriteset

\* Storing the writeset keys and the readset preserves the invariant.
LEMMA PublishDoneInv ==
    ASSUME IInv, NEW t \in Txs, PublishDone(t)
    PROVE  IInv'
<1>0. /\ TypeOK /\ phase = "execute" /\ t \notin toExecute /\ pc[t] = "publish"
      /\ RunInv(t) /\ StoreInv(t) /\ BelowInv(t)
  BY ExecutingTask, Zenon DEF PublishDone, ExecPcs
<1>1. /\ todo[t] = {}
      /\ wkeys' = [wkeys EXCEPT ![t] = Written(t)]
      /\ pc' = [pc EXCEPT ![t] = "idle"]
      /\ UNCHANGED <<block, parent, loopVars, taskVars, mv, visVars, todo, checkVars>>
  BY DEF PublishDone
<1>2. /\ rset' \in [Txs -> [Keys -> V \cup {Absent}]]
      /\ \A u \in Txs \ {t} : rset'[u] = rset[u]
      /\ abort[t] = NoTx => rset'[t] = rs[t]
  BY <1>0, Zenon DEF PublishDone, TypeOK
<1>3. /\ wkeys' \in [Txs -> SUBSET Keys] /\ wkeys'[t] = Written(t)
      /\ \A u \in Txs \ {t} : wkeys'[u] = wkeys[u]
  BY <1>0, <1>1, Zenon DEF TypeOK, Written
<1>4. /\ pc' \in [Txs -> ExecPcs \cup CheckPcs \cup {"idle"}] /\ pc'[t] = "idle"
      /\ \A u \in Txs \ {t} : pc'[u] = pc[u]
  BY <1>0, <1>1 DEF TypeOK
<1>5. TypeOK'
  BY <1>0, <1>1, <1>2, <1>3, <1>4, Zenon DEF TypeOK, loopVars, taskVars, visVars, checkVars
<1>6. OnlyTask(t)
  BY <1>1, <1>2, <1>3, <1>4, Zenon DEF OnlyTask, Same, loopVars, taskVars, visVars, checkVars
<1>7. RunInv(t)' /\ BelowInv(t)'
  BY <1>0, <1>1, <1>4, Zenon DEF RunInv, RunOn, BelowInv, taskVars, visVars, checkVars, ExecPcs
<1>8. StoreInv(t)'
  BY <1>0, <1>1, <1>2, <1>3, <1>4, Zenon DEF StoreInv, RunInv, taskVars, visVars, Finished
<1>9. status'[t] # "validated"
  BY <1>0, <1>1, ZenonT(60) DEF RunInv, taskVars
<1> QED
  BY <1>0, <1>1, <1>4, <1>5, <1>6, <1>7, <1>8, <1>9, OthersExecute, ZenonT(30) DEF loopVars

-----------------------------------------------------------------------------
(* ProcessAll, and the theorems.                                           *)

\* The steps of ProcessAll leave the tasks themselves alone.
LEMMA LocalUnchanged ==
    ASSUME NEW t \in Txs, RunInv(t), StoreInv(t), BelowInv(t),
           UNCHANGED <<block, taskVars, storeVars, pc, visVars, todo, conflicts>>
    PROVE  RunInv(t)' /\ StoreInv(t)' /\ BelowInv(t)'
BY ZenonT(60) DEF RunInv, RunOn, StoreInv, Written, BelowInv, taskVars, storeVars, visVars

\* executeAll starts on the right tasks, in the fallback too.
LEMMA BeginExecuteInv ==
    ASSUME IInv, BeginExecute
    PROVE  IInv'
<1>0. TypeOK /\ phase = "loop" /\ ~AllValidated /\ phase' = "execute"
  BY DEF IInv, BeginExecute
<1>1. UNCHANGED <<block, parent, iterations, startIdx, taskVars, storeVars, pc,
                  visVars, todo, checkVars>>
  BY DEF BeginExecute
<1>2. /\ FirstNonValidated \in Txs /\ status[FirstNonValidated] # "validated"
      /\ FirstNonValidated .. N - 1 \subseteq Txs
  BY <1>0, FirstNonValidatedWorks, NAssumption DEF Txs
<1>3. /\ toExecute' \subseteq Txs /\ synchronous' \in BOOLEAN
      /\ \/ toExecute' = toExecute
         \/ synchronous' /\ toExecute' = FirstNonValidated .. N - 1
  <2>1. CASE iterations >= MaximumIterations
    BY <1>0, <1>2, <2>1, ZenonT(60) DEF BeginExecute, TypeOK
  <2>2. CASE ~(iterations >= MaximumIterations)
    BY <1>0, <2>2 DEF BeginExecute, TypeOK
  <2> QED
    BY <2>1, <2>2
<1>4. TypeOK'
  BY <1>0, <1>1, <1>3, Zenon DEF TypeOK, taskVars, storeVars, visVars, checkVars
<1>5. ~AllValidated'
  BY <1>0, <1>1, Zenon DEF AllValidated, taskVars
<1>6. ASSUME NEW t \in Txs PROVE RunInv(t)' /\ StoreInv(t)' /\ BelowInv(t)'
  BY <1>1, LocalUnchanged DEF IInv, checkVars
<1>7. ASSUME NEW t \in Txs PROVE PhaseInv(t)'
  <2>1. pc[t] = "idle" /\ (t \in toExecute => status[t] = "pending")
    BY <1>0 DEF IInv, PhaseInv
  <2>2. ASSUME t \in toExecute' PROVE \E u \in 0 .. t : status[u] # "validated"
    <3>1. CASE t \in toExecute
      BY <2>1, <3>1, NAssumption DEF Txs
    <3>2. CASE t \in FirstNonValidated .. N - 1
      BY <1>2, <3>2, NAssumption DEF Txs
    <3> QED
      BY <1>3, <2>2, <3>1, <3>2, Zenon
  <2>3. t \in toExecute' => synchronous' \/ status[t] = "pending"
    BY <1>3, <2>1, Zenon
  <2> QED
    BY <1>0, <1>1, <2>1, <2>2, <2>3, ZenonT(60) DEF PhaseInv, taskVars
<1>8. ASSUME NEW t \in Txs PROVE CheckInv(t)'
  <2>1. (\A u \in 0 .. t : status[u] = "validated") => \A k \in Keys : Fresh(t, k)
    BY <1>0, Zenon DEF IInv, CheckInv
  <2> QED
    BY <1>0, <1>1, <2>1, ZenonT(60) DEF CheckInv, Fresh, taskVars, storeVars
<1> QED
  BY <1>4, <1>5, <1>6, <1>7, <1>8, Zenon DEF IInv

\* validateAll starts at the first task that is not validated: what is below it
\* needs no check.
LEMMA BeginValidateInv ==
    ASSUME IInv, BeginValidate
    PROVE  IInv'
<1> DEFINE f == FirstNonValidated
<1>0. /\ TypeOK /\ phase = "execute" /\ ~AllValidated /\ phase' = "validate"
      /\ toExecute = {} /\ \A t \in Txs : pc[t] = "idle"
  BY Zenon DEF IInv, BeginValidate
<1>1. /\ startIdx' = f
      /\ pc' = [t \in Txs |-> IF t >= f THEN "check" ELSE "idle"]
      /\ valid' = [t \in Txs |-> TRUE]
      /\ conflicts' = [t \in Txs |-> {}]
      /\ todo' = [t \in Txs |-> {k \in Keys : rset[t][k] # Absent}]
      /\ UNCHANGED <<block, parent, iterations, synchronous, toExecute, taskVars,
                     storeVars, visVars, wait>>
  BY DEF BeginValidate
<1>2. f \in Txs /\ \A u \in 0 .. f - 1 : status[u] = "validated"
  BY <1>0, FirstNonValidatedWorks
<1> HIDE DEF f
<1>3. TypeOK'
  <2>1. valid' \in [Txs -> BOOLEAN]
    BY <1>1, Zenon
  <2>2. pc' \in [Txs -> ExecPcs \cup CheckPcs \cup {"idle"}]
    BY <1>1 DEF CheckPcs, ExecPcs
  <2>3. conflicts' \in [Txs -> SUBSET Txs] /\ todo' \in [Txs -> SUBSET Keys]
    BY <1>1
  <2> QED
    BY <1>0, <1>1, <1>2, <2>1, <2>2, <2>3, Zenon DEF TypeOK, taskVars, storeVars, visVars
<1>4. (phase = "execute" => ~AllValidated)'
  BY <1>0
<1>5. ASSUME NEW t \in Txs PROVE RunInv(t)' /\ StoreInv(t)' /\ BelowInv(t)'
  <2>1. RunInv(t) /\ StoreInv(t) /\ BelowInv(t) /\ pc[t] = "idle" /\ pc'[t] \in {"idle", "check"}
    BY <1>0, <1>1, ZenonT(30) DEF IInv
  <2>2. RunInv(t)'
    BY <1>1, <2>1, ZenonT(60) DEF RunInv, RunOn, taskVars, visVars, ExecPcs
  <2>3. StoreInv(t)'
    BY <1>1, <2>1, ZenonT(60) DEF StoreInv, taskVars, storeVars, visVars
  <2>4. BelowInv(t)'
    BY <1>1, <2>1, Zenon DEF BelowInv, taskVars, visVars
  <2> QED
    BY <2>2, <2>3, <2>4
<1>6. ASSUME NEW t \in Txs PROVE PhaseInv(t)'
  BY <1>0, <1>1 DEF PhaseInv, CheckPcs
<1>7. ASSUME NEW t \in Txs PROVE CheckInv(t)'
  <2>1. CASE t >= f
    <3>1. pc'[t] = "check" /\ \A k \in Keys \ todo'[t] : rset[t][k] = Absent
      BY <1>1, <2>1, Zenon
    <3> QED
      BY <1>0, <1>1, <3>1 DEF CheckInv, Fresh, storeVars
  <2>2. CASE ~(t >= f)
    <3>1. pc'[t] = "idle" /\ \A u \in 0 .. t : status[u] = "validated"
      BY <1>1, <1>2, <2>2, NAssumption, SMTT(30) DEF Txs
    <3>2. \A k \in Keys : Fresh(t, k)
      BY <1>0, <3>1, ZenonT(60) DEF IInv, CheckInv
    <3> QED
      BY <1>0, <1>1, <3>1, <3>2, Zenon DEF CheckInv, Fresh, storeVars
  <2> QED
    BY <2>1, <2>2, ZenonT(60)
<1> QED
  BY <1>3, <1>4, <1>5, <1>6, <1>7, Zenon DEF IInv

\* The end of a validation pass preserves the invariant.
LEMMA EndValidateInv ==
    ASSUME IInv, EndValidate
    PROVE  IInv'
<1>0. /\ TypeOK /\ phase = "validate" /\ phase' = "loop" /\ \A t \in Txs : pc[t] = "idle"
      /\ iterations' = iterations + 1
      /\ UNCHANGED <<block, parent, synchronous, toExecute, startIdx, taskVars,
                     storeVars, pc, visVars, todo, checkVars>>
  BY DEF IInv, EndValidate
<1>1. TypeOK'
  <2>1. iterations' \in Nat
    BY <1>0 DEF TypeOK
  <2> QED
    BY <1>0, <2>1, ZenonT(60) DEF TypeOK, taskVars, storeVars, visVars, checkVars
<1>2. (phase = "execute" => ~AllValidated)'
  BY <1>0, Zenon
<1>3. ASSUME NEW t \in Txs PROVE RunInv(t)' /\ StoreInv(t)' /\ BelowInv(t)'
  BY <1>0, LocalUnchanged, SMTT(30) DEF IInv, checkVars
<1>4. ASSUME NEW t \in Txs PROVE PhaseInv(t)'
  BY <1>0, Zenon DEF IInv, PhaseInv, taskVars
<1>5. ASSUME NEW t \in Txs PROVE CheckInv(t)'
  <2>1. SUFFICES ASSUME \A u \in 0 .. t : status[u] = "validated", NEW k \in Keys
                 PROVE  Fresh(t, k)
    BY <1>0, Zenon DEF CheckInv, Fresh, taskVars, storeVars
  <2>2. \A u \in 0 .. t : u \in Txs /\ pc[u] = "idle" /\ Clean(u)
    BY <1>0, <2>1, NAssumption DEF Clean, Finished, Txs
  <2>3. t \in 0 .. t /\ 0 .. t - 1 \subseteq 0 .. t
    BY NAssumption, SMTT(30) DEF Txs
  <2> QED
    BY <1>0, <2>1, <2>2, <2>3, ZenonT(60) DEF IInv, CheckInv
<1> QED
  BY <1>1, <1>2, <1>3, <1>4, <1>5, Zenon DEF IInv

\* WriteLatestToStore preserves the invariant.
LEMMA FinishInv ==
    ASSUME IInv, Finish
    PROVE  IInv'
<1>0. /\ TypeOK /\ phase = "loop" /\ phase' = "done"
      /\ parent' = [k \in Keys |-> GetLatestNonEstimate(mv, parent, k)]
      /\ UNCHANGED <<block, iterations, synchronous, toExecute, startIdx, taskVars,
                     storeVars, pc, visVars, todo, checkVars>>
  BY DEF IInv, Finish
<1>1. TypeOK'
  <2>1. mv \in Map /\ parent \in [Keys -> V]
    BY <1>0 DEF TypeOK, Map
  <2>2. parent' \in [Keys -> V]
    BY <1>0, <2>1, CommitType, Zenon
  <2> QED
    BY <1>0, <2>2, ZenonT(60) DEF TypeOK, taskVars, storeVars, visVars, checkVars
<1>2. ASSUME NEW t \in Txs PROVE RunInv(t)' /\ StoreInv(t)' /\ BelowInv(t)'
  BY <1>0, LocalUnchanged, SMTT(30) DEF IInv, checkVars
<1>3. ASSUME NEW t \in Txs PROVE PhaseInv(t)' /\ CheckInv(t)'
  BY <1>0, Zenon DEF IInv, PhaseInv, CheckInv
<1> QED
  BY <1>0, <1>1, <1>2, <1>3, Zenon DEF IInv

\* A step that changes nothing preserves the invariant.
LEMMA StutterInv ==
    ASSUME IInv, UNCHANGED vars
    PROVE  IInv'
<1>0. UNCHANGED <<block, parent, loopVars, taskVars, storeVars, pc, visVars, todo, checkVars>>
  BY DEF vars
<1>1. TypeOK'
  BY <1>0, Zenon DEF IInv, TypeOK, loopVars, taskVars, storeVars, visVars, checkVars
<1>2. (phase = "execute" => ~AllValidated)'
  BY <1>0, Zenon DEF IInv, AllValidated, loopVars, taskVars
<1>3. ASSUME NEW t \in Txs PROVE RunInv(t)' /\ StoreInv(t)' /\ BelowInv(t)'
  BY <1>0, LocalUnchanged DEF IInv, checkVars
<1>4. ASSUME NEW t \in Txs PROVE PhaseInv(t)' /\ CheckInv(t)'
  <2>1. PhaseInv(t) /\ CheckInv(t)
    BY ZenonT(60) DEF IInv
  <2>2. PhaseInv(t)'
    BY <1>0, <2>1, SMTT(30) DEF PhaseInv, loopVars, taskVars
  <2>3. CheckInv(t)'
    BY <1>0, <2>1, Zenon DEF CheckInv, Clean, Fresh, loopVars, taskVars, storeVars, checkVars
  <2> QED
    BY <2>2, <2>3
<1> QED
  BY <1>1, <1>2, <1>3, <1>4, Zenon DEF IInv

\* The invariant holds when ProcessAll begins.
LEMMA InitInv ==
    ASSUME Init
    PROVE  IInv
<1>1. TypeOK
  <2>1. valid \in [Txs -> BOOLEAN]
    BY DEF Init
  <2>2. 0 \in Txs
    BY NAssumption DEF Txs
  <2>3. parent \in [Keys -> V]
    BY SchedulerAssumption, Zenon DEF Init
  <2>4. rset \in [Txs -> [Keys -> V \cup {Absent}]] /\ rs \in [Txs -> [Keys -> V \cup {Absent}]]
    BY Zenon DEF Init, NoSet
  <2>5. mv \in [Keys -> [Txs -> Items]]
    BY Zenon DEF Init, Items
  <2>6. tr \in [Txs -> Seq(State)]
    BY SMTT(30) DEF Init
  <2> QED
    BY <2>1, <2>2, <2>3, <2>4, <2>5, <2>6, ZenonT(60) DEF Init, TypeOK, State, Statuses, ExecPcs, CheckPcs
<1>2. ASSUME NEW t \in Txs PROVE RunInv(t) /\ StoreInv(t) /\ BelowInv(t)
  BY Zenon DEF Init, RunInv, StoreInv, BelowInv, ExecPcs, Finished
<1>3. ASSUME NEW t \in Txs PROVE PhaseInv(t)
  BY Zenon DEF Init, PhaseInv
<1>4. ASSUME NEW t \in Txs PROVE CheckInv(t)
  BY NAssumption, ZenonT(60) DEF Init, CheckInv, Txs, Fresh, NoSet
<1>5. phase = "execute" => ~AllValidated
  BY DEF Init
<1> QED
  BY <1>1, <1>2, <1>3, <1>4, <1>5, Zenon DEF IInv

\* Every step preserves the invariant.
LEMMA NextInv ==
    ASSUME IInv, [Next]_vars
    PROVE  IInv'
<1>1. CASE ProcessAll
  BY <1>1, BeginExecuteInv, BeginValidateInv, EndValidateInv, FinishInv, Zenon DEF ProcessAll
<1>2. ASSUME NEW t \in Txs, ExecuteTask(t) PROVE IInv'
  BY <1>2, StartTaskInv, StoreOpInv, TxReturnsInv, RemoveOldWritesetInv, SetWritesetInv,
     PublishDoneInv, Zenon DEF ExecuteTask
<1>3. ASSUME NEW t \in Txs, ValidateTask(t) PROVE IInv'
  BY <1>3, CheckReadsetInv, CheckDoneInv, InvalidateInv, CheckWaitingInv,
     DependenciesValidatedInv, RerunAbortedInv, Zenon DEF ValidateTask
<1>4. CASE UNCHANGED vars
  BY <1>4, StutterInv
<1> QED
  BY <1>1, <1>2, <1>3, <1>4 DEF Next, Terminated

\* The invariant holds in every reachable state.
THEOREM Inductive == Spec => []IInv
<1>1. Init => IInv
  BY InitInv
<1>2. IInv /\ [Next]_vars => IInv'
  BY NextInv
<1> QED
  BY <1>1, <1>2, PTL DEF Spec

(***************************************************************************)
(* The theorems.                                                           *)
(***************************************************************************)

\* Every variable keeps its type: in particular the multi-version map holds
\* only values, deletions and estimates, and every dependency is a task.
THEOREM TypeCorrect == Spec => []TypeOK
<1>1. IInv => TypeOK
  BY DEF IInv
<1> QED
  BY <1>1, Inductive, PTL

\* A task depends only on tasks of lower index, so tasks cannot wait for each
\* other in a circle (AppendDependencies, scheduler.go:62-68).
THEOREM DependenciesAreBelow == Spec => []DependenciesBelow
<1>1. IInv => DependenciesBelow
  BY DEF IInv, BelowInv, DependenciesBelow
<1> QED
  BY <1>1, Inductive, PTL

\* If empty values occur at all, no transaction tells them from no value.  It
\* is needed because checkReadsetAtIndex compares with bytes.Equal, which does
\* not either.
EmptyUnseen ==
    Empty \in Vals => \A p \in Programs, l \in Locs : After(p, l, Nil) = After(p, l, Empty)

\* The settled prefix is closed downwards, and what its tasks read is fresh.
LEMMA FinalPrefix ==
    ASSUME IInv, NEW t \in Final
    PROVE  /\ t \in Txs
           /\ \A u \in 0 .. t : u \in Txs /\ u \in Final /\ Settled(u)
           /\ \A u \in 0 .. t : phase # "done" => \A k \in Keys : Fresh(u, k)
<1>1. t \in Txs /\ \A u \in 0 .. t : Settled(u)
  BY DEF Final
<1>2. \A u \in 0 .. t : u \in Txs /\ u \in Final
  BY <1>1, BelowTask, Zenon DEF Final
<1>3. ASSUME NEW u \in 0 .. t, phase # "done" PROVE \A k \in Keys : Fresh(u, k)
  <2>1. u \in Txs /\ \A w \in 0 .. u : w \in 0 .. t /\ Settled(w)
    BY <1>1, <1>2, NAssumption, SMTT(30) DEF Txs
  <2>2. TypeOK /\ CheckInv(u)
    BY <2>1, SMTT(30) DEF IInv
  <2>3. CASE phase = "validate"
    <3>1. \A w \in 0 .. u : Clean(w) /\ pc[w] = "idle" /\ status[w] = "validated"
      BY <2>1, <2>3 DEF Settled, Clean, Finished
    <3>2. u \in 0 .. u /\ 0 .. u - 1 \subseteq 0 .. u
      BY <2>1, NAssumption, SMTT(30) DEF Txs
    <3> QED
      BY <2>2, <2>3, <3>1, <3>2, Zenon DEF CheckInv
  <2>4. CASE phase \in {"loop", "execute"}
    BY <2>1, <2>2, <2>4, Zenon DEF CheckInv, Settled
  <2> QED
    BY <1>3, <2>2, <2>3, <2>4, Zenon DEF TypeOK
<1> QED
  BY <1>1, <1>2, <1>3

\* A settled task has run to its end and published what it wrote.
LEMMA SettledIsClean ==
    ASSUME IInv, NEW t \in Txs, Settled(t)
    PROVE  /\ pc[t] = "idle" /\ status[t] \in Finished
           /\ RunOn(block[t], tr[t], rs[t]) /\ tr[t] # << >>
           /\ rset[t] = rs[t] /\ \A k \in Keys : mv[k][t] = Last(tr[t]).ws[k]
           /\ Op(block[t], Last(tr[t]).loc).type = "done"
           /\ resp[t] = Op(block[t], Last(tr[t]).loc).resp
<1>1. TypeOK /\ RunInv(t) /\ StoreInv(t) /\ PhaseInv(t) /\ status[t] = "validated"
  BY ZenonT(60) DEF IInv, Settled
<1>2. pc[t] = "idle"
  BY <1>1 DEF TypeOK, RunInv, PhaseInv, Settled, ExecPcs
<1> QED
  BY <1>1, <1>2, ZenonT(30) DEF RunInv, StoreInv, Finished

\* The tasks below a settled prefix left no estimates in it.
LEMMA FinalView ==
    ASSUME IInv, NEW t \in Final, NEW k \in Keys
    PROVE  View(t)[k] \in V
<1>0. t \in Txs /\ t \in Nat /\ t \in 0 .. N /\ TypeOK /\ mv \in Map /\ parent \in [Keys -> V]
  <2>1. t \in Txs
    BY FinalPrefix
  <2>2. t \in Nat /\ t \in 0 .. N
    BY <2>1, NAssumption, SMTT(30) DEF Txs
  <2> QED
    BY <2>1, <2>2, Zenon DEF IInv, TypeOK, Map
<1>1. \A u \in 0 .. t - 1 : mv[k][u] # Estimate
  <2> TAKE u \in 0 .. t - 1
  <2>1. u \in Txs /\ Settled(u)
    BY <1>0, FinalPrefix, SMTT(30)
  <2>2. Clean(u)
    BY <2>1, SettledIsClean, Zenon DEF Clean
  <2> QED
    BY <2>1, <2>2, CleanHasValues, Zenon
<1>2. GetLatestBeforeIndex(mv, parent, t, k) \in V \cup {Estimate}
  BY <1>0, ViewType, Zenon
<1>3. GetLatestBeforeIndex(mv, parent, t, k) # Estimate
  <2>1. LatestBefore(mv, t, k) \in (0 .. t - 1) \cup {NoTx}
    BY <1>0, ViewType
  <2>2. parent[k] # Estimate
    BY <1>0, ValueAssumption, ZenonT(30)
  <2> QED
    BY <1>1, <2>1, <2>2, Zenon DEF GetLatestBeforeIndex
<1> QED
  BY <1>2, <1>3 DEF View

\* A settled task whose reads are fresh ran serially.
LEMMA FreshIsSerial ==
    ASSUME EmptyUnseen, IInv, phase # "done", NEW t \in Final
    PROVE  RanSerially(t)
<1>0. t \in Txs /\ Settled(t) /\ TypeOK /\ \A k \in Keys : Fresh(t, k)
  <2>1. t \in Txs /\ t \in 0 .. t
    BY FinalPrefix, NAssumption DEF Txs
  <2> QED
    BY <2>1, FinalPrefix DEF IInv
<1>1. /\ RunOn(block[t], tr[t], rs[t]) /\ tr[t] # << >> /\ rset[t] = rs[t]
      /\ Op(block[t], Last(tr[t]).loc).type = "done"
      /\ tr[t] \in Seq(State) /\ block[t] \in Programs
  BY <1>0, SettledIsClean, BlockType, ZenonT(30) DEF TypeOK, State
<1>2. ASSUME NEW n \in 1 .. Len(tr[t]) - 1
      PROVE  /\ Op(block[t], tr[t][n].loc).type # "done"
             /\ tr[t][n + 1] = Step(block[t], tr[t][n], View(t))
  <2> DEFINE p == block[t]
             s == tr[t][n]
             op == Op(p, s.loc)
  <2>1. /\ op.type # "done"
        /\ op.type = "get" /\ s.ws[op.key] = Absent => rs[t][op.key] # Absent
        /\ tr[t][n + 1] = Step(p, s, rs[t])
    BY <1>1, ZenonT(60) DEF RunOn
  <2>2. s \in State
    BY <1>1, SMTT(30)
  <2>3. s.loc \in Locs
    BY <2>2, ZenonT(60) DEF State
  <2>4. op.type = "get" => op.key \in Keys
    BY <1>1, <2>3, OpType, Zenon
  <2>5. ASSUME op.type = "get", s.ws[op.key] = Absent
        PROVE  After(p, s.loc, rs[t][op.key]) = After(p, s.loc, View(t)[op.key])
    <3>1. BytesEqual(View(t)[op.key], rs[t][op.key])
      BY <1>0, <1>1, <2>1, <2>4, <2>5, Zenon DEF Fresh, View
    <3> DEFINE x == View(t)[op.key]
               y == rs[t][op.key]
    <3>2. x = y \/ (x = Nil /\ y = Empty) \/ (x = Empty /\ y = Nil)
      <4> HIDE DEF x, y
      <4>1. BytesEqual(x, y)
        BY <3>1, ZenonT(30) DEF x, y
      <4> QED
        BY <4>1 DEF BytesEqual
    <3>3. x \in V /\ y \in V
      <4>1. x \in V
        BY <2>4, <2>5, FinalView, Zenon
      <4>2. rs[t] \in [Keys -> V \cup {Absent}]
        BY <1>0, ZenonT(30) DEF TypeOK
      <4> QED
        BY <2>1, <2>4, <2>5, <4>1, <4>2, ZenonT(60)
    <3>4. Empty \in Vals => After(p, s.loc, Nil) = After(p, s.loc, Empty)
      BY <1>1, <2>3, Zenon DEF EmptyUnseen
    <3>5. x = y \/ Empty \in Vals
      <4> HIDE DEF x, y
      <4> QED
        BY <3>2, <3>3, Zenon DEF V
    <3> QED
      BY <3>2, <3>4, <3>5, Zenon
  <2>6. Step(p, s, rs[t]) = Step(p, s, View(t))
    BY <2>5, StepAgree, ZenonT(30)
  <2> QED
    BY <2>1, <2>6, Zenon
<1>3. IsRun(block[t], tr[t], View(t))
  BY <1>1, <1>2, Zenon DEF IsRun, RunOn, Last
<1> QED
  BY <1>0, <1>3, SettledIsClean, Zenon DEF RanSerially

\* Serializability of the validated prefix, for blocks of any length, any set
\* of keys and any transactions: the writes and responses of the tasks in it
\* are those of serial execution at every moment (shouldRerun,
\* scheduler.go:339-375).
THEOREM SerialPrefix ==
    ASSUME EmptyUnseen
    PROVE  Spec => []PrefixIsSerial
<1>1. IInv => PrefixIsSerial
  BY FreshIsSerial, Zenon DEF PrefixIsSerial
<1> QED
  BY <1>1, Inductive, PTL

\* When ProcessAll ends, every task is in the settled prefix.
LEMMA FinishIsSerial ==
    ASSUME EmptyUnseen, IInv, Finish
    PROVE  /\ \A t \in Txs : RanSerially(t)
           /\ \A k \in Keys : parent'[k] = GetLatestBeforeIndex(mv, parent, N, k)
<1>1. phase = "loop" /\ \A t \in Txs : status[t] = "validated"
  BY Zenon DEF Finish, AllValidated
<1>2. \A t \in Txs : Settled(t)
  BY <1>1, Zenon DEF Settled
<1>3. \A t \in Txs : t \in Final
  BY <1>2, NAssumption DEF Final, Txs
<1>4. \A t \in Txs : RanSerially(t)
  BY <1>1, <1>3, FreshIsSerial, ZenonT(60)
<1>5. \A k \in Keys : \A t \in Txs : mv[k][t] # Estimate
  BY <1>2, SettledIsClean, CleanHasValues, Zenon DEF Clean
<1>6. \A k \in Keys : parent'[k] = GetLatestNonEstimate(mv, parent, k)
  BY DEF Finish
<1> QED
  BY <1>4, <1>5, <1>6, CommitIsView, ZenonT(60)

\* What reaches the parent store is the outcome of serial execution, whatever
\* the number of workers and of reruns (WriteLatestToStore,
\* scheduler.go:329-331).
THEOREM CommitsSerially ==
    ASSUME EmptyUnseen
    PROVE  Spec => CommitIsSerial
<1> DEFINE A == phase # "done" /\ phase' = "done" =>
                  /\ \A t \in Txs : RanSerially(t)
                  /\ \A k \in Keys : parent'[k] = GetLatestBeforeIndex(mv, parent, N, k)
<1>1. ASSUME IInv, [Next]_vars PROVE [A]_vars
  <2>1. CASE Finish
    BY <1>1, <2>1, FinishIsSerial, Zenon
  <2>2. CASE phase' = phase \/ phase' # "done"
    BY <2>2
  <2>3. Finish \/ phase' = phase \/ phase' # "done"
    <3>1. CASE ProcessAll
      BY <3>1, ZenonT(30) DEF ProcessAll, BeginExecute, BeginValidate, EndValidate
    <3>2. ASSUME NEW t \in Txs, ExecuteTask(t) PROVE phase' = phase
      BY <3>2, ZenonT(60) DEF ExecuteTask, StartTask, StoreOp, TxReturns, RemoveOldWriteset, SetWriteset,
                  PublishDone, loopVars
    <3>3. ASSUME NEW t \in Txs, ValidateTask(t) PROVE phase' = phase
      BY <3>3, Zenon DEF ValidateTask, CheckReadset, CheckDone, Invalidate, CheckWaiting,
                  DependenciesValidated, RerunAborted, loopVars
    <3>4. CASE UNCHANGED vars
      BY <3>4, Zenon DEF vars, loopVars
    <3> QED
      BY <1>1, <3>1, <3>2, <3>3, <3>4, Zenon DEF Next, Terminated
  <2> QED
    BY <2>1, <2>2, <2>3, ZenonT(60)
<1>2. IInv /\ [Next]_vars => [A]_vars
  BY <1>1
<1> QED
  BY <1>2, Inductive, PTL DEF Spec, CommitIsSerial

\* A step of task t changes nothing of the other tasks.
LEMMA StepIsLocal ==
    ASSUME TypeOK, NEW t \in Txs, ExecuteTask(t) \/ ValidateTask(t)
    PROVE  OnlyTask(t)
<1> USE DEF TypeOK, OnlyTask, Same, loopVars, taskVars, storeVars, visVars, checkVars
<1>1. CASE StartTask(t)
  <2>0. /\ \/ mv' = mv /\ rset' = rset
           \/ InvalidateAtOnce(t)
        /\ \/ UNCHANGED <<status, resp, incarnation>>
           \/ ResetAndIncrement(t)
    BY <1>1, Zenon DEF StartTask
  <2>1. \A u \in Txs \ {t} : rset'[u] = rset[u] /\ \A k \in Keys : mv'[k][u] = mv[k][u]
    <3>1. CASE mv' = mv /\ rset' = rset
      BY <3>1, Zenon
    <3>2. CASE InvalidateAtOnce(t)
      <4>1. \A k \in Keys : mv'[k] = IF k \in wkeys[t] THEN [mv[k] EXCEPT ![t] = Estimate] ELSE mv[k]
        BY <3>2, Zenon DEF InvalidateAtOnce
      <4>2. \A k \in Keys : mv[k] \in [Txs -> Items]
        OBVIOUS
      <4>3. \A u \in Txs \ {t} : \A k \in Keys : mv'[k][u] = mv[k][u]
        <5> HIDE DEF TypeOK
        <5> QED
          BY <4>1, <4>2, ZenonT(60)
      <4>4. \A u \in Txs \ {t} : rset'[u] = rset[u]
        BY <3>2, ZenonT(60) DEF InvalidateAtOnce
      <4> QED
        BY <4>3, <4>4, Zenon
    <3> QED
      BY <2>0, <3>1, <3>2, Zenon
  <2>2. \A u \in Txs \ {t} : status'[u] = status[u] /\ resp'[u] = resp[u]
    BY <2>0, ZenonT(60) DEF ResetAndIncrement
  <2>3. \A u \in Txs \ {t} : rs'[u] = rs[u] /\ tr'[u] = tr[u] /\ abort'[u] = abort[u] /\ pc'[u] = pc[u]
    BY <1>1, ZenonT(60) DEF StartTask
  <2>4. UNCHANGED <<block, parent, phase, iterations, synchronous, startIdx, deps, wkeys, todo,
                    valid, conflicts>>
    BY <1>1, Zenon DEF StartTask
  <2> HIDE DEF TypeOK
  <2> QED
    BY <2>1, <2>2, <2>3, <2>4, ZenonT(60)
<1>2. CASE StoreOp(t)
  <2>1. \A u \in Txs \ {t} : rs'[u] = rs[u] /\ tr'[u] = tr[u] /\ abort'[u] = abort[u]
    BY <1>2, ZenonT(60) DEF StoreOp
  <2> QED
    BY <1>2, <2>1, ZenonT(60) DEF StoreOp
<1>3. CASE TxReturns(t)
  <2>1. \A u \in Txs \ {t} : status'[u] = status[u] /\ deps'[u] = deps[u] /\ resp'[u] = resp[u]
    BY <1>3, ZenonT(60) DEF TxReturns
  <2> QED
    BY <1>3, <2>1, ZenonT(60) DEF TxReturns
<1>4. CASE RemoveOldWriteset(t) \/ SetWriteset(t)
  <2>1. PICK k \in todo[t] : /\ \E x : mv' = [mv EXCEPT ![k][t] = x]
                             /\ todo' = [todo EXCEPT ![t] = @ \ {k}]
    BY <1>4, ZenonT(60) DEF RemoveOldWriteset, SetWriteset
  <2>2. PICK x : mv' = [mv EXCEPT ![k][t] = x]
    BY <2>1, Zenon
  <2>3. \A u \in Txs \ {t} : todo'[u] = todo[u] /\ \A l \in Keys : mv'[l][u] = mv[l][u]
    BY <2>1, <2>2, ZenonT(60)
  <2> QED
    BY <1>4, <2>3, ZenonT(60) DEF RemoveOldWriteset, SetWriteset
<1>5. CASE PublishDone(t)
  <2>1. \A u \in Txs \ {t} : rset'[u] = rset[u]
    BY <1>5, ZenonT(60) DEF PublishDone
  <2> QED
    BY <1>5, <2>1, ZenonT(60) DEF PublishDone
<1>6. CASE CheckReadset(t)
  BY <1>6, ZenonT(60) DEF CheckReadset
<1>7. CASE CheckDone(t)
  <2>1. \A u \in Txs \ {t} : status'[u] = status[u] /\ pc'[u] = pc[u] /\ todo'[u] = todo[u]
    BY <1>7, ZenonT(60) DEF CheckDone
  <2> QED
    BY <1>7, <2>1, ZenonT(60) DEF CheckDone
<1>8. CASE Invalidate(t)
  <2>1. CASE todo[t] # {}
    <3>1. PICK k \in todo[t] : /\ mv' = [mv EXCEPT ![k][t] = Estimate]
                               /\ todo' = [todo EXCEPT ![t] = @ \ {k}]
      BY <1>8, <2>1, ZenonT(60) DEF Invalidate
    <3>2. \A u \in Txs \ {t} : todo'[u] = todo[u] /\ \A l \in Keys : mv'[l][u] = mv[l][u]
      BY <3>1, ZenonT(60)
    <3> QED
      BY <1>8, <2>1, <3>2, ZenonT(60) DEF Invalidate
  <2>2. CASE todo[t] = {}
    BY <1>8, <2>2, ZenonT(60) DEF Invalidate
  <2> QED
    BY <2>1, <2>2, Zenon
<1>9. CASE CheckWaiting(t)
  BY <1>9, ZenonT(60) DEF CheckWaiting
<1>10. CASE DependenciesValidated(t)
  <2>1. \A u \in Txs \ {t} : status'[u] = status[u] /\ pc'[u] = pc[u] /\ resp'[u] = resp[u]
    BY <1>10, ZenonT(60) DEF DependenciesValidated, Rerun, ResetAndIncrement
  <2> QED
    BY <1>10, <2>1, ZenonT(60) DEF DependenciesValidated
<1>11. CASE RerunAborted(t)
  BY <1>11, ZenonT(60) DEF RerunAborted, Rerun, ResetAndIncrement
<1> HIDE DEF TypeOK, OnlyTask, Same, loopVars, taskVars, storeVars, visVars, checkVars
<1> QED
  BY <1>1, <1>2, <1>3, <1>4, <1>5, <1>6, <1>7, <1>8, <1>9, <1>10, <1>11, ZenonT(60)
  DEF ExecuteTask, ValidateTask

\* A task of the settled prefix takes no step.
LEMMA FinalIsIdle ==
    ASSUME IInv, NEW t \in Final
    PROVE  ~ExecuteTask(t) /\ ~ValidateTask(t)
<1>1. /\ t \in Txs /\ Settled(t) /\ TypeOK /\ PhaseInv(t)
      /\ \A u \in 0 .. t : status[u] = "validated"
  BY FinalPrefix, NAssumption DEF IInv, Settled, Txs
<1>2. pc[t] = "idle"
  BY <1>1, SettledIsClean, Zenon
<1>3. phase = "execute" => t \notin toExecute
  BY <1>1 DEF PhaseInv
<1> QED
  BY <1>2, <1>3, Zenon DEF ExecuteTask, StartTask, StoreOp, TxReturns, RemoveOldWriteset, SetWriteset,
     PublishDone, ValidateTask, CheckReadset, CheckDone, Invalidate, CheckWaiting,
     DependenciesValidated, RerunAborted

\* The validated prefix only grows, and what is in it never changes: neither
\* later validations nor the sequential fallback touch it
\* (scheduler.go:302-310).
THEOREM PrefixNeverChanges == Spec => PrefixIsStable
<1> DEFINE Kept(t) == resp'[t] = resp[t] /\ \A k \in Keys : mv'[k][t] = mv[k][t]
<1>1. ASSUME IInv, Next, NEW t \in Final, NEW u \in 0 .. t
      PROVE  Settled(u)' /\ Kept(u)
  <2>1. u \in Txs /\ u \in Final /\ Settled(u) /\ TypeOK
    BY <1>1, FinalPrefix DEF IInv
  <2>2. pc[u] = "idle" /\ status[u] = "validated"
    BY <1>1, <2>1, SettledIsClean, ZenonT(30) DEF Settled
  <2>3. ASSUME NEW w \in Txs, ExecuteTask(w) \/ ValidateTask(w) PROVE Settled(u)' /\ Kept(u)
    <3>1. w # u
      BY <1>1, <2>1, <2>3, FinalIsIdle, ZenonT(30)
    <3> QED
      BY <2>1, <2>2, <2>3, <3>1, StepIsLocal, ZenonT(30) DEF Settled, OnlyTask, Same
  <2>4. CASE BeginExecute \/ EndValidate \/ Finish \/ Terminated
    BY <2>2, <2>4, Zenon DEF BeginExecute, EndValidate, Finish, Terminated, Settled, vars, taskVars,
                      storeVars
  <2>5. CASE BeginValidate
    <3>1. ~AllValidated
      BY <1>1, <2>5, Zenon DEF IInv, BeginValidate
    <3>2. FirstNonValidated \in Txs /\ status[FirstNonValidated] # "validated"
      BY <3>1, FirstNonValidatedWorks, Zenon
    <3>3. ~(u >= FirstNonValidated)
      BY <1>1, <3>2, FinalPrefix, NAssumption, SMTT(30) DEF Txs, Settled
    <3> QED
      BY <2>1, <2>2, <2>5, <3>3, ZenonT(60) DEF BeginValidate, Settled, taskVars, storeVars
  <2> QED
    BY <1>1, <2>3, <2>4, <2>5, Zenon DEF Next, ProcessAll
<1>2. ASSUME IInv, Next, NEW t \in Final PROVE t \in Final' /\ Kept(t)
  <2>1. t \in Txs /\ t \in 0 .. t
    BY <1>2, FinalPrefix, BelowTask, Zenon
  <2> QED
    BY <1>1, <1>2, <2>1, Zenon DEF Final
<1>3. IInv /\ [Next]_vars => [KeepsPrefix]_vars
  BY <1>2, Zenon DEF KeepsPrefix
<1> QED
  BY <1>3, Inductive, PTL DEF Spec, PrefixIsStable

(***************************************************************************)
(* The head of the block is never stuck.                                   *)
(***************************************************************************)

\* Why no task is lost in a validation pass: below startIdx all are validated;
\* a task whose lower tasks have kept their items meets no estimate, so its
\* readset is either valid without conflicts or stale; a checked task is
\* validated, waits, runs again, or met an estimate.  After the pass, the first
\* task that is not validated has met none.
HeadInv(t) ==
    /\ phase = "validate" /\ t < startIdx => pc[t] = "idle" /\ status[t] = "validated"
    /\ phase = "validate" /\ (\A u \in 0 .. t - 1 : Clean(u)) /\ valid[t] => conflicts[t] = {}
    /\ phase = "validate" /\ pc[t] = "idle" =>
         \/ status[t] \in {"validated", "waiting"} \/ t \in toExecute
         \/ status[t] = "executed" /\ valid[t] /\ conflicts[t] # {}
    /\ phase = "loop" /\ (\A u \in 0 .. t - 1 : status[u] = "validated") =>
         status[t] \in {"validated", "waiting"} \/ t \in toExecute

HInv == \A t \in Txs : HeadInv(t)

\* Where no lower index has an estimate, a check that succeeds reports no
\* conflict, and it does succeed if the value read is the one to be read.
LEMMA CheckReadClean ==
    ASSUME NEW m \in Map, NEW par \in [Keys -> V], NEW i \in Txs, NEW k \in Keys, NEW v,
           \A w \in 0 .. i - 1 : m[k][w] # Estimate
    PROVE  LET c == CheckRead(m, par, i, k, v)
           IN  /\ c.ok => c.conflicts = {}
               /\ v = GetLatestBeforeIndex(m, par, i, k) => c.ok /\ c.conflicts = {}
<1> DEFINE j == LatestBefore(m, i, k)
           cur == GetLatestBeforeIndex(m, par, i, k)
           ok == CASE cur = Estimate        -> TRUE
                   [] j # NoTx /\ cur = Nil -> v = Nil
                   [] OTHER                 -> BytesEqual(cur, v)
           bad == IF j # NoTx /\ (cur = Estimate \/ ~ok) THEN {j} ELSE {}
<1>1. CheckRead(m, par, i, k, v) = [ok |-> ok, conflicts |-> bad]
  BY DEF CheckRead
<1>2. i \in 0 .. N
  BY BelowTask, Zenon
<1>3. j \in (0 .. i - 1) \cup {NoTx} /\ cur = IF j = NoTx THEN par[k] ELSE m[k][j]
  BY <1>2, ViewType, Zenon DEF GetLatestBeforeIndex
<1>4. cur # Estimate
  <2> HIDE DEF ok, cur, j
  <2> QED
    BY <1>3, ValueAssumption
<1>5. v = cur => ok
  BY <1>4, Zenon DEF BytesEqual
<1>6. ok => bad = {}
  <2> HIDE DEF ok, cur, j
  <2> QED
    BY <1>4, Zenon
<1> HIDE DEF ok, bad, cur
<1>7. CheckRead(m, par, i, k, v).ok = ok /\ CheckRead(m, par, i, k, v).conflicts = bad
  BY <1>1
<1> QED
  BY <1>5, <1>6, <1>7, Zenon DEF cur

\* A validation step collects tasks to run again and takes none back, and it
\* never makes a task clean.
LEMMA ValidateStep ==
    ASSUME IInv, NEW t \in Txs, ValidateTask(t)
    PROVE  /\ OnlyTask(t) /\ phase = "validate" /\ phase' = "validate"
           /\ pc[t] \in CheckPcs
           /\ toExecute \subseteq toExecute'
           /\ Clean(t)' => Clean(t)
<1>0. pc[t] \in CheckPcs /\ TypeOK
  BY Zenon DEF IInv, ValidateTask, CheckReadset, CheckDone, Invalidate, CheckWaiting,
     DependenciesValidated, RerunAborted, CheckPcs
<1>1. OnlyTask(t) /\ phase = "validate" /\ phase' = "validate"
  BY <1>0, PhaseOfTask, StepIsLocal, ZenonT(30) DEF OnlyTask
<1>2. pc \in [Txs -> ExecPcs \cup CheckPcs \cup {"idle"}] /\ status \in [Txs -> Statuses]
  BY <1>0, Zenon DEF TypeOK
<1>3. CASE CheckReadset(t) \/ CheckDone(t)
  <2>1. Clean(t) /\ toExecute' = toExecute
    BY <1>3, ZenonT(60) DEF CheckReadset, CheckDone, Clean, Finished, loopVars
  <2> QED
    BY <1>0, <1>1, <2>1, Zenon
<1>4. CASE Invalidate(t)
  <2>1. pc'[t] \in {"invalidate", "deps"} /\ toExecute' = toExecute
    BY <1>2, <1>4, ZenonT(60) DEF Invalidate, loopVars
  <2> QED
    BY <1>0, <1>1, <2>1 DEF Clean
<1>5. CASE CheckWaiting(t)
  <2>1. pc'[t] = "deps" /\ toExecute' = toExecute
    BY <1>2, <1>5, ZenonT(30) DEF CheckWaiting, loopVars
  <2> QED
    BY <1>0, <1>1, <2>1 DEF Clean
<1>6. ASSUME Rerun(t) PROVE toExecute \subseteq toExecute' /\ status'[t] = "pending"
  BY <1>2, <1>6, ZenonT(30) DEF Rerun, ResetAndIncrement
<1>7. CASE DependenciesValidated(t)
  <2>1. \/ Rerun(t)
        \/ toExecute' = toExecute /\ pc' = pc /\ pc[t] = "deps"
        \/ toExecute' = toExecute /\ status' = [status EXCEPT ![t] = "waiting"]
    BY <1>7, ZenonT(30) DEF DependenciesValidated
  <2>2. CASE toExecute' = toExecute /\ status' = [status EXCEPT ![t] = "waiting"]
    <3>1. status'[t] = "waiting"
      BY <1>2, <2>2, Zenon
    <3> QED
      BY <1>0, <1>1, <2>2, <3>1, Zenon DEF Clean, Finished
  <2> QED
    BY <1>0, <1>1, <1>6, <2>1, <2>2, Zenon DEF Clean, Finished
<1>8. CASE RerunAborted(t)
  BY <1>0, <1>1, <1>6, <1>8, Zenon DEF RerunAborted, Clean, Finished
<1> QED
  BY <1>3, <1>4, <1>5, <1>7, <1>8, Zenon DEF ValidateTask

\* What a validation step leaves to show about the tasks: it disturbs none but
\* its own.
LEMMA HeadOthers ==
    ASSUME IInv, HInv, NEW t \in Txs, ValidateTask(t), HeadInv(t)'
    PROVE  HInv'
<1>1. /\ OnlyTask(t) /\ phase = "validate" /\ phase' = "validate"
      /\ toExecute \subseteq toExecute' /\ (Clean(t)' => Clean(t))
  BY ValidateStep
<1>2. startIdx' = startIdx /\ \A u \in Txs \ {t} : Same(u)
  BY <1>1, Zenon DEF OnlyTask
<1>3. \A w \in Txs : Clean(w)' => Clean(w)
  BY <1>1, <1>2, ZenonT(30) DEF Same, Clean
<1>4. ASSUME NEW u \in Txs, u # t PROVE HeadInv(u)'
  <2>1. HeadInv(u) /\ Same(u) /\ 0 .. u - 1 \subseteq Txs
    BY <1>2, <1>4, NAssumption DEF HInv, Txs
  <2>2. (\A w \in 0 .. u - 1 : Clean(w)') => \A w \in 0 .. u - 1 : Clean(w)
    BY <1>3, <2>1, Zenon
  <2>3. /\ u < startIdx => pc[u] = "idle" /\ status[u] = "validated"
        /\ (\A w \in 0 .. u - 1 : Clean(w)) /\ valid[u] => conflicts[u] = {}
        /\ pc[u] = "idle" =>
             \/ status[u] \in {"validated", "waiting"} \/ u \in toExecute
             \/ status[u] = "executed" /\ valid[u] /\ conflicts[u] # {}
    BY <1>1, <2>1, Zenon DEF HeadInv
  <2> QED
    BY <1>1, <1>2, <2>1, <2>2, <2>3, ZenonT(60) DEF HeadInv, Same
<1> QED
  BY <1>4, Zenon DEF HInv

\* A task at work in a validation pass, after a step that leaves it at work or
\* decides about it.
LEMMA HeadOwn ==
    ASSUME IInv, HInv, NEW t \in Txs, ValidateTask(t),
           (\A u \in 0 .. t - 1 : Clean(u)) /\ valid'[t] => conflicts'[t] = {},
           pc'[t] = "idle" =>
             \/ status'[t] \in {"validated", "waiting"} \/ t \in toExecute'
             \/ status'[t] = "executed" /\ valid'[t] /\ conflicts'[t] # {}
    PROVE  HInv'
<1>1. OnlyTask(t) /\ phase = "validate" /\ phase' = "validate" /\ pc[t] \in CheckPcs
  BY ValidateStep
<1>2. ~(t < startIdx) /\ startIdx' = startIdx
  BY <1>1, Zenon DEF HInv, HeadInv, OnlyTask, CheckPcs
<1>3. (\A u \in 0 .. t - 1 : Clean(u)') => \A u \in 0 .. t - 1 : Clean(u)
  <2>1. \A u \in 0 .. t - 1 : u \in Txs \ {t}
    BY NAssumption DEF Txs
  <2> QED
    BY <1>1, <2>1, ZenonT(60) DEF OnlyTask, Same, Clean
<1>4. HeadInv(t)'
  BY <1>1, <1>2, <1>3, ZenonT(60) DEF HeadInv
<1> QED
  BY <1>4, HeadOthers, ZenonT(60)

\* Where the lower tasks are clean, no lower item is an estimate.
LEMMA NoEstimates ==
    ASSUME IInv, NEW t \in Txs, \A u \in 0 .. t - 1 : Clean(u), NEW k \in Keys
    PROVE  \A u \in 0 .. t - 1 : mv[k][u] # Estimate
<1>1. 0 .. t - 1 \subseteq Txs
  BY NAssumption DEF Txs
<1> QED
  BY <1>1, CleanHasValues, Zenon

\* checkReadsetAtIndex meets no estimate where the lower tasks are clean.
LEMMA CheckReadsetHead ==
    ASSUME IInv, HInv, NEW t \in Txs, CheckReadset(t)
    PROVE  HInv'
<1>1. PICK k \in todo[t] :
        LET c == CheckRead(mv, parent, t, k, rset[t][k])
        IN  /\ valid' = [valid EXCEPT ![t] = @ /\ c.ok]
            /\ conflicts' = [conflicts EXCEPT ![t] = @ \cup c.conflicts]
  BY Zenon DEF CheckReadset
<1> DEFINE c == CheckRead(mv, parent, t, k, rset[t][k])
<1>2. /\ k \in Keys /\ mv \in Map /\ parent \in [Keys -> V]
      /\ valid \in [Txs -> BOOLEAN] /\ conflicts \in [Txs -> SUBSET Txs]
  BY Zenon DEF IInv, TypeOK, Map
<1>3. valid'[t] = (valid[t] /\ c.ok) /\ conflicts'[t] = conflicts[t] \cup c.conflicts
  <2>1. valid'[t] = (valid[t] /\ c.ok)
    BY <1>1, <1>2, Zenon
  <2>2. conflicts'[t] = conflicts[t] \cup c.conflicts
    BY <1>1, <1>2, Zenon
  <2> QED
    BY <2>1, <2>2, Zenon
<1>4. ASSUME \A u \in 0 .. t - 1 : Clean(u), valid'[t] PROVE conflicts'[t] = {}
  <2>1. valid[t] /\ c.ok
    BY <1>3, <1>4, Zenon
  <2>2. c.conflicts = {}
    <3>1. \A u \in 0 .. t - 1 : mv[k][u] # Estimate
      BY <1>2, <1>4, NoEstimates, Zenon
    <3> QED
      BY <1>2, <2>1, <3>1, CheckReadClean, Zenon
  <2>3. conflicts[t] = {}
    BY <1>4, <2>1, ValidateStep, Zenon DEF HInv, HeadInv, ValidateTask
  <2> HIDE DEF c
  <2> QED
    BY <1>3, <2>2, <2>3, Zenon
<1>5. pc'[t] # "idle"
  BY Zenon DEF CheckReadset
<1> QED
  BY <1>4, <1>5, HeadOwn, Zenon DEF ValidateTask

\* The other steps of validateTask leave valid and conflicts alone.
LEMMA ValidateHead ==
    ASSUME IInv, HInv, NEW t \in Txs, ValidateTask(t)
    PROVE  HInv'
<1>0. pc \in [Txs -> ExecPcs \cup CheckPcs \cup {"idle"}] /\ status \in [Txs -> Statuses]
  BY Zenon DEF IInv, TypeOK
<1>1. CASE CheckReadset(t)
  BY <1>1, CheckReadsetHead, Zenon
<1>a. SUFFICES ASSUME ~CheckReadset(t) PROVE HInv'
  BY <1>1
<1>2. SUFFICES pc'[t] = "idle" =>
                 \/ status'[t] \in {"validated", "waiting"} \/ t \in toExecute'
                 \/ status'[t] = "executed" /\ valid'[t] /\ conflicts'[t] # {}
  <2>1. valid' = valid /\ conflicts' = conflicts
    BY <1>a, Zenon DEF ValidateTask, CheckDone, Invalidate, CheckWaiting,
       DependenciesValidated, RerunAborted, checkVars
  <2>2. (\A u \in 0 .. t - 1 : Clean(u)) /\ valid[t] => conflicts[t] = {}
    BY ValidateStep, Zenon DEF HInv, HeadInv
  <2> QED
    BY <1>2, <2>1, <2>2, HeadOwn, Zenon
<1>3. CASE CheckDone(t)
  <2>1. CASE valid[t] /\ conflicts[t] = {}
    <3>1. status'[t] = "validated"
      BY <1>0, <1>3, <2>1, Zenon DEF CheckDone
    <3> QED
      BY <3>1
  <2>2. CASE valid[t] /\ conflicts[t] # {}
    <3>1. status' = status /\ valid' = valid /\ conflicts' = conflicts /\ status[t] \in {"executed", "validated"}
      BY <1>3, <2>2, Zenon DEF CheckDone, checkVars
    <3> QED
      BY <2>2, <3>1, Zenon
  <2>3. CASE ~valid[t]
    <3>1. pc'[t] = "invalidate"
      BY <1>0, <1>3, <2>3, Zenon DEF CheckDone
    <3> QED
      BY <3>1
  <2> QED
    BY <2>1, <2>2, <2>3, Zenon
<1>4. CASE Invalidate(t)
  <2>1. pc'[t] \in {"invalidate", "deps"}
    BY <1>0, <1>4, ZenonT(30) DEF Invalidate
  <2> QED
    BY <2>1
<1>5. CASE CheckWaiting(t)
  <2>1. pc'[t] = "deps"
    BY <1>0, <1>5, Zenon DEF CheckWaiting
  <2> QED
    BY <2>1
<1>6. CASE Rerun(t)
  BY <1>6, Zenon DEF Rerun
<1>7. CASE DependenciesValidated(t)
  <2>1. \/ Rerun(t)
        \/ pc' = pc /\ pc[t] = "deps"
        \/ status' = [status EXCEPT ![t] = "waiting"]
    BY <1>7, ZenonT(30) DEF DependenciesValidated
  <2>2. CASE status' = [status EXCEPT ![t] = "waiting"]
    BY <1>0, <2>2, Zenon
  <2>3. CASE pc' = pc /\ pc[t] = "deps"
    BY <2>3
  <2> QED
    BY <1>6, <2>1, <2>2, <2>3, Zenon
<1> QED
  BY <1>a, <1>3, <1>4, <1>5, <1>6, <1>7, ZenonT(60) DEF ValidateTask, RerunAborted

\* Every step keeps the head from being stuck.
LEMMA HeadNext ==
    ASSUME IInv, HInv, [Next]_vars
    PROVE  HInv'
<1>0. TypeOK
  BY Zenon DEF IInv
<1>1. CASE BeginExecute
  BY <1>1, Zenon DEF BeginExecute, HInv, HeadInv
<1>2. CASE BeginValidate
  <2>1. ~AllValidated
    BY <1>2, Zenon DEF IInv, BeginValidate
  <2>2. /\ phase' = "validate" /\ startIdx' = FirstNonValidated /\ status' = status
        /\ pc' = [t \in Txs |-> IF t >= FirstNonValidated THEN "check" ELSE "idle"]
        /\ conflicts' = [t \in Txs |-> {}]
    BY <1>2 DEF BeginValidate, taskVars
  <2> DEFINE f == FirstNonValidated
  <2>3. f \in Txs /\ \A u \in 0 .. f - 1 : status[u] = "validated"
    BY <2>1, FirstNonValidatedWorks
  <2> HIDE DEF f
  <2>4. ASSUME NEW t \in Txs PROVE HeadInv(t)'
    <3>1. CASE t >= f
      <4>1. pc'[t] = "check" /\ conflicts'[t] = {} /\ ~(t < f)
        <5>1. ~(t < f)
          BY <2>3, <3>1, BelowTask
        <5> QED
          BY <2>2, <3>1, <5>1, Zenon DEF f
      <4> QED
        BY <2>2, <4>1, Zenon DEF HeadInv, f
    <3>2. CASE ~(t >= f)
      <4>1. pc'[t] = "idle" /\ conflicts'[t] = {} /\ t \in 0 .. f - 1
        <5>1. t \in 0 .. f - 1
          BY <2>3, <3>2, BelowTask
        <5> QED
          BY <2>2, <3>2, <5>1, Zenon DEF f
      <4>2. status'[t] = "validated"
        BY <2>2, <2>3, <4>1, Zenon
      <4> QED
        BY <2>2, <4>1, <4>2, Zenon DEF HeadInv
    <3> QED
      BY <3>1, <3>2, Zenon
  <2> QED
    BY <2>4, Zenon DEF HInv
<1>3. CASE EndValidate
  <2>1. /\ phase = "validate" /\ \A t \in Txs : pc[t] = "idle"
        /\ phase' = "loop" /\ toExecute' = toExecute /\ status' = status
    BY <1>3 DEF EndValidate, taskVars
  <2>2. ASSUME NEW t \in Txs, \A u \in 0 .. t - 1 : status[u] = "validated"
        PROVE  status[t] \in {"validated", "waiting"} \/ t \in toExecute
    <3>1. \A u \in 0 .. t - 1 : u \in Txs
      BY NAssumption DEF Txs
    <3>2. \A u \in 0 .. t - 1 : Clean(u)
      BY <2>1, <2>2, <3>1, Zenon DEF Clean, Finished
    <3> QED
      BY <2>1, <3>2, Zenon DEF HInv, HeadInv
  <2> QED
    BY <2>1, <2>2, Zenon DEF HInv, HeadInv
<1>4. CASE Finish \/ Terminated
  <2>1. phase' = "done"
    BY <1>4, Zenon DEF Finish, Terminated, vars, loopVars
  <2> QED
    BY <2>1, Zenon DEF HInv, HeadInv
<1>5. ASSUME NEW t \in Txs, ExecuteTask(t) PROVE HInv'
  <2>1. phase = "execute"
    BY <1>5, PhaseOfTask, Zenon DEF ExecuteTask, StartTask, StoreOp, TxReturns, RemoveOldWriteset,
       SetWriteset, PublishDone, ExecPcs
  <2>2. phase' = "execute"
    BY <1>0, <1>5, <2>1, StepIsLocal, Zenon DEF OnlyTask
  <2> QED
    BY <2>2, Zenon DEF HInv, HeadInv
<1>6. CASE UNCHANGED vars
  BY <1>6, ZenonT(30) DEF HInv, HeadInv, Clean, vars, loopVars, taskVars, checkVars
<1> QED
  BY <1>1, <1>2, <1>3, <1>4, <1>5, <1>6, ValidateHead, ZenonT(30) DEF Next, ProcessAll

\* Between passes the first task that is not validated is about to be rerun, or
\* waits for tasks that are all validated: no interleaving of validations leaves
\* it executed but unvalidated because of an estimate (scheduler.go:367-368), so
\* every pass makes progress.
THEOREM HeadNeverStuck == Spec => []HeadIsNotStuck
<1>1. Init => HInv
  BY DEF Init, HInv, HeadInv
<1>2. IInv /\ HInv /\ [Next]_vars => HInv'
  BY HeadNext, Zenon
<1>3. IInv /\ HInv => HeadIsNotStuck
  <2> SUFFICES ASSUME IInv, HInv, phase = "loop", ~AllValidated
               PROVE  LET f == FirstNonValidated
                      IN  \/ f \in toExecute
                          \/ status[f] = "waiting" /\ \A d \in deps[f] : status[d] = "validated"
    BY DEF HeadIsNotStuck
  <2> DEFINE f == FirstNonValidated
  <2>1. /\ f \in Txs /\ status[f] # "validated"
        /\ \A u \in 0 .. f - 1 : status[u] = "validated"
    BY FirstNonValidatedWorks
  <2> HIDE DEF f
  <2>2. status[f] = "waiting" \/ f \in toExecute
    BY <2>1, Zenon DEF HInv, HeadInv
  <2>3. deps[f] \subseteq 0 .. f - 1
    BY <2>1, Zenon DEF IInv, BelowInv
  <2> QED
    BY <2>1, <2>2, <2>3, Zenon DEF f
<1> QED
  BY <1>1, <1>2, <1>3, Inductive, PTL DEF Spec

(***************************************************************************)
(* The sequential fallback.                                                *)
(***************************************************************************)

\* What the readset s holds is what transaction t reads in m over par.
Exact(m, par, t, s) ==
    \A k \in Keys : s[k] # Absent => s[k] = GetLatestBeforeIndex(m, par, t, k)

\* The fallback starts when the passes are used up, and its pass is the last.
PassInv ==
    /\ phase \in {"execute", "validate"} =>
         iterations <= MaximumIterations /\ (synchronous <=> iterations = MaximumIterations)
    /\ phase = "loop" => \/ ~synchronous /\ iterations <= MaximumIterations
                         \/ AllValidated /\ iterations <= MaximumIterations + 1
    /\ phase = "done" => iterations <= MaximumIterations + 1

\* In the fallback the tasks are executed in index order: above a task that is
\* at work or still to come all are still to come, and what a task below read is
\* what the ones before it left.  So nothing is aborted and every check succeeds.
\* (That what it read is still equal in the sense of bytes.Equal, as in IInv,
\* would not do: checkReadsetAtIndex tells a deleted value from an empty one.)
RunsInOrder(t) ==
    /\ t \in toExecute \/ pc[t] # "idle" => t + 1 .. N - 1 \subseteq toExecute
    /\ pc[t] # "idle" => abort[t] = NoTx /\ Exact(mv, parent, t, rs[t])
    /\ t \notin toExecute /\ pc[t] = "idle" =>
         \/ \A u \in 0 .. t : status[u] = "validated"
         \/ status[t] = "executed" /\ Exact(mv, parent, t, rset[t])

ChecksOut(t) ==
    /\ pc[t] \in {"idle", "check"} /\ status[t] \in Finished
    /\ pc[t] = "idle" => status[t] = "validated"
    /\ pc[t] = "check" => /\ valid[t] /\ conflicts[t] = {} /\ Exact(mv, parent, t, rset[t])
                          /\ \A k \in todo[t] : rset[t][k] # Absent

FallbackInv(t) ==
    synchronous => /\ phase = "execute" => RunsInOrder(t)
                   /\ phase = "validate" => ChecksOut(t)

FInv == PassInv /\ \A t \in Txs : FallbackInv(t)

\* What t reads depends on the items below t only.
LEMMA ExactKept ==
    ASSUME NEW m, NEW n, NEW par, NEW t \in Txs, NEW s,
           \A k \in Keys : \A u \in 0 .. t - 1 : m[k][u] = n[k][u],
           Exact(m, par, t, s)
    PROVE  Exact(n, par, t, s)
<1>1. t \in Nat
  BY BelowTask, Zenon
<1>2. \A k \in Keys : GetLatestBeforeIndex(m, par, t, k) = GetLatestBeforeIndex(n, par, t, k)
  BY <1>1, ViewsAgree, ZenonT(60)
<1> QED
  BY <1>2, Zenon DEF Exact

\* Where the lower tasks are clean, t reads no estimate.
LEMMA ReadsNoEstimate ==
    ASSUME IInv, NEW t \in Txs, \A u \in 0 .. t - 1 : Clean(u), NEW k \in Keys
    PROVE  GetLatestBeforeIndex(mv, parent, t, k) # Estimate
<1>1. t \in Nat /\ parent[k] # Estimate
  <2>1. parent[k] \in V
    BY Zenon DEF IInv, TypeOK
  <2> QED
    BY <2>1, BelowTask, ValueAssumption, Zenon
<1>2. \A u \in 0 .. t - 1 : mv[k][u] # Estimate
  BY NoEstimates
<1> QED
  BY <1>1, <1>2, LatestBeforeWorks, Zenon DEF GetLatestBeforeIndex

\* In the fallback the tasks below one at work are done.
LEMMA DoneBelow ==
    ASSUME IInv, FInv, phase = "execute", synchronous, NEW t \in Txs, pc[t] # "idle"
    PROVE  /\ t \notin toExecute /\ t + 1 .. N - 1 \subseteq toExecute
           /\ \A u \in 0 .. t - 1 : u \notin toExecute /\ pc[u] = "idle" /\ Clean(u)
<1>1. RunsInOrder(t) /\ t \notin toExecute
  BY Zenon DEF IInv, PhaseInv, FInv, FallbackInv
<1>2. ASSUME NEW u \in 0 .. t - 1 PROVE u \notin toExecute /\ pc[u] = "idle" /\ Clean(u)
  <2>1. u \in Txs /\ t \in u + 1 .. N - 1 /\ u \in 0 .. u
    BY <1>2, NAssumption DEF Txs
  <2>2. RunsInOrder(u)
    BY <2>1, Zenon DEF FInv, FallbackInv
  <2>3. u \notin toExecute /\ pc[u] = "idle"
    BY <1>1, <2>1, <2>2, Zenon DEF RunsInOrder
  <2>4. status[u] = "validated" \/ status[u] = "executed"
    BY <2>1, <2>2, <2>3, Zenon DEF RunsInOrder
  <2> QED
    BY <2>3, <2>4, Zenon DEF Clean, Finished
<1> QED
  BY <1>1, <1>2, Zenon DEF RunsInOrder

\* A step of the task whose turn it is keeps the order.
LEMMA OrderKept ==
    ASSUME IInv, FInv, phase = "execute", synchronous, NEW t \in Txs, OnlyTask(t),
           toExecute' \subseteq toExecute, t \notin toExecute',
           t + 1 .. N - 1 \subseteq toExecute',
           \A u \in 0 .. t - 1 : u \notin toExecute /\ pc[u] = "idle",
           pc'[t] # "idle" => abort'[t] = NoTx /\ Exact(mv, parent, t, rs'[t]),
           pc'[t] = "idle" => status'[t] = "executed" /\ Exact(mv, parent, t, rset'[t])
    PROVE  FInv'
<1>0. /\ phase' = "execute" /\ synchronous' = synchronous /\ parent' = parent
      /\ iterations' = iterations
      /\ \A u \in Txs \ {t} : Same(u)
  BY ZenonT(60) DEF OnlyTask
<1>1. PassInv'
  BY <1>0 DEF FInv, PassInv
<1>2. ASSUME NEW u \in Txs, u <= t
      PROVE  /\ 0 .. u - 1 \subseteq Txs \ {t}
             /\ \A s : Exact(mv, parent, u, s) => Exact(mv', parent, u, s)
  <2>1. 0 .. u - 1 \subseteq Txs \ {t}
    BY <1>2, NAssumption DEF Txs
  <2>2. \A k \in Keys : \A w \in 0 .. u - 1 : mv[k][w] = mv'[k][w]
    BY <1>0, <2>1, ZenonT(60) DEF Same
  <2> QED
    BY <2>1, <2>2, ExactKept, ZenonT(60)
<1>3. ASSUME NEW u \in Txs PROVE RunsInOrder(u)'
  <2>1. CASE u = t
    <3>1. t <= t
      BY NAssumption DEF Txs
    <3>2. \A s : Exact(mv, parent, t, s) => Exact(mv', parent, t, s)
      BY <1>2, <3>1, Zenon
    <3> QED
      BY <1>0, <2>1, <3>2, ZenonT(60) DEF RunsInOrder
  <2>2. CASE u < t
    <3>1. u \in 0 .. t - 1 /\ u # t /\ u <= t /\ \A w \in 0 .. u : w \in Txs \ {t}
      BY <2>2, NAssumption DEF Txs
    <3>2. u \notin toExecute /\ pc[u] = "idle" /\ RunsInOrder(u) /\ Same(u)
      BY <1>0, <3>1, Zenon DEF FInv, FallbackInv
    <3>3. \/ \A w \in 0 .. u : status[w] = "validated"
          \/ status[u] = "executed" /\ Exact(mv, parent, u, rset[u])
      BY <3>2, Zenon DEF RunsInOrder
    <3>4. \/ \A w \in 0 .. u : status'[w] = "validated"
          \/ status'[u] = "executed" /\ Exact(mv', parent, u, rset'[u])
      <4>1. CASE \A w \in 0 .. u : status[w] = "validated"
        BY <1>0, <3>1, <4>1, ZenonT(60) DEF Same
      <4>2. CASE status[u] = "executed" /\ Exact(mv, parent, u, rset[u])
        BY <1>2, <3>1, <3>2, <4>2, ZenonT(60) DEF Same
      <4> QED
        BY <3>3, <4>1, <4>2, Zenon
    <3>5. u \notin toExecute' /\ pc'[u] = "idle"
      BY <3>2, Zenon DEF Same
    <3> QED
      BY <1>0, <3>4, <3>5, ZenonT(60) DEF RunsInOrder
  <2>3. CASE u > t
    <3>1. u # t /\ u \in t + 1 .. N - 1 /\ u + 1 .. N - 1 \subseteq t + 1 .. N - 1
      BY <2>3, NAssumption DEF Txs
    <3>2. u \in toExecute' /\ u \in toExecute /\ u + 1 .. N - 1 \subseteq toExecute'
      BY <3>1, Zenon
    <3>3. pc'[u] = "idle"
      BY <1>0, <3>1, <3>2, ZenonT(60) DEF IInv, PhaseInv, Same
    <3> QED
      BY <3>2, <3>3, ZenonT(60) DEF RunsInOrder
  <2> QED
    BY <2>1, <2>2, <2>3, NAssumption DEF Txs
<1> QED
  BY <1>0, <1>1, <1>3, Zenon DEF FInv, FallbackInv

\* The fallback's executions read what the tasks before them left and never
\* meet an estimate.
LEMMA ExecuteInOrder ==
    ASSUME IInv, FInv, NEW t \in Txs, ExecuteTask(t), synchronous
    PROVE  FInv'
<1>0. TypeOK
  BY DEF IInv
<1>1. OnlyTask(t)
  BY <1>0, StepIsLocal
<1>2. CASE StartTask(t)
  <2>1. /\ phase = "execute" /\ t \in toExecute /\ toExecute' = toExecute \ {t}
        /\ \A u \in Txs : pc[u] = "idle"
        /\ \A u \in toExecute : t <= u
    BY <1>2, Zenon DEF StartTask, MayStart
  <2>2. pc'[t] = "run" /\ abort'[t] = NoTx /\ rs'[t] = NoSet
    BY <1>0, <1>2, ZenonT(60) DEF StartTask, TypeOK
  <2>3. \A u \in 0 .. t - 1 : u \notin toExecute /\ pc[u] = "idle"
    BY <2>1, NAssumption DEF Txs
  <2>4. t + 1 .. N - 1 \subseteq toExecute'
    <3>1. t + 1 .. N - 1 \subseteq toExecute
      BY <2>1, Zenon DEF FInv, FallbackInv, RunsInOrder
    <3>2. ~(t \in t + 1 .. N - 1)
      BY NotAboveItself, Zenon
    <3> QED
      BY <2>1, <3>1, <3>2, Zenon
  <2>5. Exact(mv, parent, t, rs'[t])
    BY <2>2, Zenon DEF Exact, NoSet
  <2>6. toExecute' \subseteq toExecute /\ t \notin toExecute'
    BY <2>1, Zenon
  <2> QED
    BY <1>1, <2>1, <2>2, <2>3, <2>4, <2>5, <2>6, OrderKept, ZenonT(60)
<1>3. SUFFICES ASSUME ~StartTask(t) PROVE FInv'
  BY <1>2
<1>4. pc[t] \in ExecPcs /\ toExecute' = toExecute /\ pc[t] # "idle"
  BY <1>3, Zenon DEF ExecuteTask, StoreOp, TxReturns, RemoveOldWriteset, SetWriteset,
     PublishDone, ExecPcs, loopVars
<1>5. phase = "execute"
  BY <1>4, PhaseOfTask, Zenon
<1>6. /\ t \notin toExecute /\ t + 1 .. N - 1 \subseteq toExecute
      /\ \A u \in 0 .. t - 1 : u \notin toExecute /\ pc[u] = "idle" /\ Clean(u)
  BY <1>4, <1>5, DoneBelow, Zenon
<1>7. abort[t] = NoTx /\ Exact(mv, parent, t, rs[t])
  BY <1>4, <1>5, Zenon DEF FInv, FallbackInv, RunsInOrder
<1>8. SUFFICES /\ pc'[t] # "idle" => abort'[t] = NoTx /\ Exact(mv, parent, t, rs'[t])
               /\ pc'[t] = "idle" => status'[t] = "executed" /\ Exact(mv, parent, t, rset'[t])
  BY <1>1, <1>4, <1>5, <1>6, <1>8, OrderKept, Zenon
<1>9. CASE StoreOp(t)
  <2> DEFINE op == Op(block[t], Last(tr[t]).loc)
             got == GetLatestBeforeIndex(mv, parent, t, op.key)
  <2>1. pc' = pc
    BY <1>9 DEF StoreOp
  <2>2. op.type = "get" => op.key \in Keys
    <3>1. tr[t] \in Seq(State) /\ tr[t] # << >>
      BY <1>4, Zenon DEF IInv, TypeOK, State, RunInv
    <3>2. Last(tr[t]) \in State
      BY <3>1, LastIn, Zenon
    <3>3. Last(tr[t]).loc \in Locs /\ block[t] \in Programs
      BY <1>0, <3>2, BlockType, Zenon DEF State
    <3> QED
      BY <3>3, OpType, Zenon
  <2>3. \/ op.type = "get" /\ got = Estimate
        \/ op.type = "get" /\ rs' = [rs EXCEPT ![t][op.key] = got] /\ abort' = abort
        \/ rs' = rs /\ abort' = abort
    BY <1>9, Zenon DEF StoreOp
  <2>4. op.type = "get" => got # Estimate
    BY <1>6, <2>2, ReadsNoEstimate, Zenon
  <2> HIDE DEF op
  <2>5. CASE op.type = "get" /\ rs' = [rs EXCEPT ![t][op.key] = got] /\ abort' = abort
    <3>1. rs[t] \in [Keys -> V \cup {Absent}] /\ rs'[t] = [rs[t] EXCEPT ![op.key] = got]
      BY <1>0, <2>5, Zenon DEF TypeOK
    <3>2. Exact(mv, parent, t, rs'[t])
      <4>1. \A k \in Keys : rs'[t][k] = IF k = op.key THEN got ELSE rs[t][k]
        BY <3>1, Zenon
      <4> QED
        BY <1>7, <4>1, Zenon DEF Exact
    <3> QED
      BY <1>4, <1>7, <2>1, <2>5, <3>2, ZenonT(60)
  <2> QED
    BY <1>4, <1>7, <2>1, <2>3, <2>4, <2>5, ZenonT(60)
<1>10. CASE TxReturns(t)
  <2>1. pc'[t] = "publish" /\ rs' = rs /\ abort' = abort
    BY <1>0, <1>10, Zenon DEF TxReturns, TypeOK, visVars
  <2> QED
    BY <1>7, <2>1, Zenon
<1>11. CASE RemoveOldWriteset(t) \/ SetWriteset(t)
  <2>1. pc' = pc /\ rs' = rs /\ abort' = abort
    BY <1>11, Zenon DEF RemoveOldWriteset, SetWriteset, visVars
  <2> QED
    BY <1>4, <1>7, <2>1, Zenon
<1>12. CASE PublishDone(t)
  <2>1. pc[t] = "publish" /\ pc'[t] = "idle" /\ rset'[t] = rs[t] /\ status' = status
    BY <1>0, <1>7, <1>12, ZenonT(60) DEF PublishDone, TypeOK, taskVars
  <2>2. status[t] = "executed"
    BY <1>7, <2>1, Zenon DEF IInv, RunInv
  <2> QED
    BY <1>7, <2>1, <2>2, Zenon
<1> QED
  BY <1>3, <1>9, <1>10, <1>11, <1>12, ZenonT(60) DEF ExecuteTask

\* The fallback's checks all succeed.
LEMMA ValidateInOrder ==
    ASSUME IInv, FInv, NEW t \in Txs, ValidateTask(t), synchronous
    PROVE  FInv'
<1>0. OnlyTask(t) /\ phase = "validate" /\ phase' = "validate" /\ pc[t] \in CheckPcs /\ TypeOK
  BY ValidateStep DEF IInv
<1>1. \A u \in Txs : ChecksOut(u)
  BY <1>0, Zenon DEF FInv, FallbackInv
<1>2. pc[t] = "check" /\ status[t] \in Finished
  BY <1>0, <1>1, Zenon DEF ChecksOut, CheckPcs
<1>3. valid[t] /\ conflicts[t] = {} /\ Exact(mv, parent, t, rset[t])
      /\ \A k \in todo[t] : rset[t][k] # Absent
  BY <1>1, <1>2, Zenon DEF ChecksOut
<1>4. CheckReadset(t) \/ CheckDone(t)
  <2>1. ~Invalidate(t) /\ ~CheckWaiting(t) /\ ~DependenciesValidated(t) /\ ~RerunAborted(t)
    BY <1>2, Zenon DEF Invalidate, CheckWaiting, DependenciesValidated, RerunAborted, Finished
  <2> QED
    BY <2>1, Zenon DEF ValidateTask
<1>5. /\ parent' = parent /\ mv' = mv /\ rset' = rset
      /\ synchronous' = synchronous /\ iterations' = iterations
  BY <1>4, Zenon DEF CheckReadset, CheckDone, loopVars, storeVars
<1>6. SUFFICES ChecksOut(t)'
  <2>1. ASSUME NEW u \in Txs, u # t PROVE ChecksOut(u)'
    <3>1. Same(u) /\ ChecksOut(u)
      BY <1>0, <1>1, <2>1, Zenon DEF OnlyTask
    <3> QED
      BY <1>5, <3>1, ZenonT(30) DEF ChecksOut, Same
  <2>2. PassInv'
    BY <1>0, <1>5, Zenon DEF FInv, PassInv
  <2> QED
    BY <1>0, <1>6, <2>1, <2>2, ZenonT(60) DEF FInv, FallbackInv
<1>7. CASE CheckReadset(t)
  <2>1. PICK k \in todo[t] :
          LET c == CheckRead(mv, parent, t, k, rset[t][k])
          IN  /\ valid' = [valid EXCEPT ![t] = @ /\ c.ok]
              /\ conflicts' = [conflicts EXCEPT ![t] = @ \cup c.conflicts]
              /\ todo' = [todo EXCEPT ![t] = @ \ {k}]
    BY <1>7, ZenonT(60) DEF CheckReadset
  <2> DEFINE c == CheckRead(mv, parent, t, k, rset[t][k])
  <2>2. k \in Keys /\ mv \in Map /\ parent \in [Keys -> V]
    BY <1>0 DEF TypeOK, Map
  <2>3. \A u \in 0 .. t - 1 : Clean(u)
    <3>1. 0 .. t - 1 \subseteq Txs
      BY BelowTask, Zenon
    <3> QED
      BY <1>1, <3>1, Zenon DEF ChecksOut, Clean
  <2>4. c.ok /\ c.conflicts = {}
    <3>1. rset[t][k] = GetLatestBeforeIndex(mv, parent, t, k)
      BY <1>3, <2>2, Zenon DEF Exact
    <3>2. \A u \in 0 .. t - 1 : mv[k][u] # Estimate
      BY <2>2, <2>3, NoEstimates, Zenon
    <3> QED
      BY <2>2, <3>1, <3>2, CheckReadClean, ZenonT(60)
  <2>5. valid'[t] = (valid[t] /\ c.ok)
    BY <1>0, <2>1, Zenon DEF TypeOK
  <2>6. conflicts'[t] = conflicts[t] \cup c.conflicts
    BY <1>0, <2>1, Zenon DEF TypeOK
  <2>7. todo'[t] \subseteq todo[t]
    BY <1>0, <2>1, Zenon DEF TypeOK
  <2>8. pc' = pc /\ status' = status
    BY <1>7, Zenon DEF CheckReadset, taskVars
  <2> HIDE DEF c
  <2>9. valid'[t] /\ conflicts'[t] = {}
    <3>1. valid'[t]
      BY <1>3, <2>4, <2>5, Zenon
    <3>2. conflicts'[t] = {}
      BY <1>3, <2>4, <2>6, Zenon
    <3> QED
      BY <3>1, <3>2, Zenon
  <2>10. \A l \in todo'[t] : rset[t][l] # Absent
    BY <1>3, <2>7, Zenon
  <2> QED
    BY <1>2, <1>3, <1>5, <2>8, <2>9, <2>10, ZenonT(60) DEF ChecksOut
<1>8. CASE CheckDone(t)
  <2>1. status' = [status EXCEPT ![t] = "validated"] /\ pc' = [pc EXCEPT ![t] = "idle"]
    BY <1>3, <1>8, Zenon DEF CheckDone
  <2>2. status'[t] = "validated" /\ pc'[t] = "idle"
    BY <1>0, <2>1, Zenon DEF TypeOK
  <2> QED
    BY <2>2, Zenon DEF ChecksOut, Finished
<1> QED
  BY <1>4, <1>7, <1>8, ZenonT(60)

\* Every step keeps the fallback to one pass.
LEMMA FallbackNext ==
    ASSUME IInv, FInv, [Next]_vars
    PROVE  FInv'
<1>0. TypeOK /\ PassInv /\ iterations \in Nat /\ MaximumIterations \in Nat
  BY SchedulerAssumption, Zenon DEF IInv, FInv, TypeOK
<1>1. CASE BeginExecute
  <2> DEFINE f == FirstNonValidated
  <2>1. /\ phase = "loop" /\ ~AllValidated /\ phase' = "execute" /\ iterations' = iterations
        /\ pc' = pc /\ status' = status
    BY <1>1, Zenon DEF BeginExecute, taskVars
  <2>2. ~synchronous /\ iterations <= MaximumIterations
    BY <1>0, <2>1 DEF PassInv
  <2>3. synchronous' <=> (iterations >= MaximumIterations)
    BY <1>1, <2>2, Zenon DEF BeginExecute
  <2>4. PassInv'
    <3>1. (iterations >= MaximumIterations) <=> (iterations = MaximumIterations)
      BY <1>0, <2>2
    <3>2. synchronous' <=> iterations = MaximumIterations
      BY <2>3, <3>1, ZenonT(60)
    <3> QED
      BY <2>1, <2>2, <3>2, ZenonT(60) DEF PassInv
  <2>5. f \in Txs /\ \A u \in 0 .. f - 1 : status[u] = "validated"
    BY <2>1, FirstNonValidatedWorks
  <2>6. ASSUME NEW t \in Txs, synchronous' PROVE RunsInOrder(t)'
    <3>1. toExecute' = f .. N - 1
      BY <1>1, <2>3, <2>6, Zenon DEF BeginExecute
    <3>2. pc'[t] = "idle"
      BY <2>1, Zenon DEF IInv, PhaseInv
    <3> HIDE DEF f
    <3>3. t \in f .. N - 1 => t + 1 .. N - 1 \subseteq f .. N - 1
      BY <2>5, NAssumption DEF Txs
    <3>4. t \notin f .. N - 1 => 0 .. t \subseteq 0 .. f - 1
      BY <2>5, NAssumption DEF Txs
    <3>5. t \notin toExecute' => \A u \in 0 .. t : status'[u] = "validated"
      BY <2>1, <2>5, <3>1, <3>4, Zenon
    <3> QED
      BY <3>1, <3>2, <3>3, <3>5, Zenon DEF RunsInOrder
  <2> QED
    BY <2>1, <2>4, <2>6, Zenon DEF FInv, FallbackInv
<1>2. CASE BeginValidate
  <2> DEFINE f == FirstNonValidated
  <2>1. /\ phase = "execute" /\ phase' = "validate" /\ toExecute = {}
        /\ \A t \in Txs : pc[t] = "idle"
        /\ pc' = [t \in Txs |-> IF t >= f THEN "check" ELSE "idle"]
        /\ valid' = [t \in Txs |-> TRUE] /\ conflicts' = [t \in Txs |-> {}]
        /\ todo' = [t \in Txs |-> {k \in Keys : rset[t][k] # Absent}]
        /\ UNCHANGED <<parent, iterations, synchronous, status, mv, rset>>
    BY <1>2, Zenon DEF BeginValidate, taskVars, storeVars
  <2>2. PassInv'
    BY <1>0, <2>1, Zenon DEF PassInv
  <2>3. ~AllValidated
    BY <2>1, Zenon DEF IInv
  <2>4. /\ f \in Txs /\ status[f] # "validated"
        /\ \A u \in 0 .. f - 1 : status[u] = "validated"
    BY <2>3, FirstNonValidatedWorks, Zenon
  <2> HIDE DEF f
  <2>5. ASSUME NEW t \in Txs, synchronous PROVE ChecksOut(t)'
    <3>1. \/ \A u \in 0 .. t : status[u] = "validated"
          \/ status[t] = "executed" /\ Exact(mv, parent, t, rset[t])
      BY <2>1, <2>5, Zenon DEF FInv, FallbackInv, RunsInOrder
    <3>2. CASE t >= f
      <4>1. pc'[t] = "check" /\ f \in 0 .. t
        BY <2>1, <2>4, <3>2, NAssumption DEF Txs
      <4>2. status[t] = "executed" /\ Exact(mv, parent, t, rset[t])
        BY <2>4, <3>1, <4>1, Zenon
      <4>3. valid'[t] /\ conflicts'[t] = {} /\ \A k \in todo'[t] : rset[t][k] # Absent
        BY <2>1, Zenon
      <4> QED
        BY <2>1, <4>1, <4>2, <4>3, ZenonT(60) DEF ChecksOut, Finished
    <3>3. CASE ~(t >= f)
      <4>1. pc'[t] = "idle" /\ t \in 0 .. f - 1
        BY <2>1, <2>4, <3>3, NAssumption DEF Txs
      <4>2. status'[t] = "validated"
        BY <2>1, <2>4, <4>1, Zenon
      <4> QED
        BY <4>1, <4>2, ZenonT(60) DEF ChecksOut, Finished
    <3> QED
      BY <3>2, <3>3
  <2> QED
    BY <2>1, <2>2, <2>5, Zenon DEF FInv, FallbackInv
<1>3. CASE EndValidate
  <2>1. /\ phase = "validate" /\ phase' = "loop" /\ \A t \in Txs : pc[t] = "idle"
        /\ iterations' = iterations + 1 /\ synchronous' = synchronous /\ status' = status
    BY <1>3 DEF EndValidate, taskVars
  <2>2. iterations <= MaximumIterations /\ (synchronous <=> iterations = MaximumIterations)
    BY <1>0, <2>1, Zenon DEF PassInv
  <2>3. CASE synchronous
    <3>1. AllValidated'
      BY <2>1, <2>3, Zenon DEF FInv, FallbackInv, ChecksOut, AllValidated
    <3>2. iterations' <= MaximumIterations + 1
      <4>1. iterations + 1 <= MaximumIterations + 1
        BY <1>0, <2>2
      <4> QED
        BY <2>1, <4>1, Zenon
    <3> QED
      BY <2>1, <3>1, <3>2, Zenon DEF FInv, PassInv, FallbackInv
  <2>4. CASE ~synchronous
    <3>1. iterations' <= MaximumIterations
      <4>1. iterations \in Nat /\ MaximumIterations \in Nat /\ iterations # MaximumIterations
        BY <1>0, <2>2, <2>4, ZenonT(60)
      <4>2. iterations + 1 <= MaximumIterations
        BY <2>2, <4>1
      <4> QED
        BY <2>1, <4>2, Zenon
    <3> QED
      BY <2>1, <2>4, <3>1, Zenon DEF FInv, PassInv, FallbackInv
  <2> QED
    BY <2>3, <2>4, Zenon
<1>4. CASE Finish
  <2>1. phase = "loop" /\ phase' = "done" /\ iterations' = iterations
    BY <1>4, Zenon DEF Finish
  <2>2. iterations <= MaximumIterations + 1
    BY <1>0, <2>1 DEF PassInv
  <2> QED
    BY <2>1, <2>2, Zenon DEF FInv, PassInv, FallbackInv
<1>5. ASSUME NEW t \in Txs, ExecuteTask(t) PROVE FInv'
  <2>1. CASE synchronous
    BY <1>5, <2>1, ExecuteInOrder, Zenon
  <2>2. CASE ~synchronous
    <3>1. phase = "execute"
      BY <1>5, PhaseOfTask, Zenon DEF ExecuteTask, StartTask, StoreOp, TxReturns, RemoveOldWriteset,
         SetWriteset, PublishDone, ExecPcs
    <3>2. phase' = "execute" /\ synchronous' = synchronous /\ iterations' = iterations
      BY <1>0, <1>5, <3>1, StepIsLocal, Zenon DEF OnlyTask
    <3> QED
      BY <1>0, <2>2, <3>1, <3>2, ZenonT(60) DEF FInv, PassInv, FallbackInv
  <2> QED
    BY <2>1, <2>2, Zenon
<1>6. ASSUME NEW t \in Txs, ValidateTask(t) PROVE FInv'
  <2>1. CASE synchronous
    BY <1>6, <2>1, ValidateInOrder, Zenon
  <2>2. CASE ~synchronous
    <3>1. /\ phase = "validate" /\ phase' = "validate"
          /\ synchronous' = synchronous /\ iterations' = iterations
      BY <1>6, ValidateStep, Zenon DEF OnlyTask
    <3> QED
      BY <1>0, <2>2, <3>1, Zenon DEF FInv, PassInv, FallbackInv
  <2> QED
    BY <2>1, <2>2
<1>7. CASE Terminated \/ UNCHANGED vars
  <2>1. /\ UNCHANGED <<phase, iterations, synchronous, toExecute, status, pc, abort, rs, rset, mv>>
        /\ UNCHANGED <<parent, valid, conflicts, todo>>
    BY <1>7, ZenonT(60) DEF Terminated, vars, loopVars, taskVars, storeVars, visVars, checkVars
  <2>2. PassInv'
    BY <1>0, <2>1 DEF PassInv, AllValidated
  <2>3. ASSUME NEW t \in Txs PROVE FallbackInv(t)'
    BY <2>1, ZenonT(60) DEF FInv, FallbackInv, RunsInOrder, ChecksOut
  <2> QED
    BY <2>2, <2>3, Zenon DEF FInv
<1> QED
  BY <1>1, <1>2, <1>3, <1>4, <1>5, <1>6, <1>7, ZenonT(60) DEF Next, ProcessAll

\* The sequential fallback needs one pass, whatever state the optimistic passes
\* left the store in: no task aborts in it and all of them validate
\* (scheduler.go:301-310).  So ProcessAll makes at most MaximumIterations + 1
\* passes.
THEOREM FallbackIsOnePass == Spec => []FallbackTakesOnePass
<1>1. Init => FInv
  <2> SUFFICES ASSUME Init PROVE FInv
    OBVIOUS
  <2>1. phase = "loop" /\ ~synchronous /\ iterations <= MaximumIterations
    <3>1. phase = "loop" /\ ~synchronous /\ iterations = 0
      BY Zenon DEF Init
    <3>2. 0 <= MaximumIterations
      BY BoundIsNat, Zenon
    <3> QED
      BY <3>1, <3>2, Zenon
  <2> QED
    BY <2>1, Zenon DEF FInv, PassInv, FallbackInv
<1>2. IInv /\ FInv /\ [Next]_vars => FInv'
  BY FallbackNext, Zenon
<1>3. IInv /\ FInv => FallbackTakesOnePass
  BY SchedulerAssumption DEF IInv, TypeOK, FInv, PassInv, FallbackTakesOnePass
<1> QED
  BY <1>1, <1>2, <1>3, Inductive, PTL DEF Spec

=============================================================================
