---------------------------- MODULE MultiVersion ----------------------------
(***************************************************************************)
(* The data of optimistic parallel execution: the multi-version map that   *)
(* store/multiversion keeps for the transactions of one block.  Pure       *)
(* definitions only; Scheduler and MVIterator give them state and steps.   *)
(*                                                                         *)
(* A map m holds for every key and every transaction index at most one     *)
(* item: a value, Nil (the key was deleted) or Estimate (an earlier        *)
(* incarnation wrote the key and a later one is expected to).  Absent      *)
(* means there is no item.                                                 *)
(***************************************************************************)
EXTENDS Integers

CONSTANTS
    N,              \* number of transactions in the block
    Keys,           \* keys of the stores the block touches
    Vals,           \* values a key can hold
    Nil,            \* the nil byte slice: "no value"
    Empty,          \* the empty, non-nil byte slice; it may belong to Vals
    Absent,         \* no item / key not read / key not written
    Estimate        \* an item whose value is not known yet

Txs == 0 .. N - 1
NoTx == -1
V == Vals \cup {Nil}
Items == V \cup {Estimate, Absent}

ASSUME NAssumption == N \in Nat \ {0}
ASSUME ValueAssumption ==
    /\ Nil \notin Vals
    /\ Absent \notin V /\ Estimate \notin V
    /\ Absent # Estimate

NoSet == [k \in Keys |-> Absent]

\* bytes.Equal, which cannot tell nil from the empty slice.
BytesEqual(a, b) == a = b \/ {a, b} = {Nil, Empty}

\* Faulty variant: a transaction finds its own item.
LatestBefore_FindsItself(m, i, k) ==
    LET W == {j \in 0 .. i : j < N /\ m[k][j] # Absent}
    IN  IF W = {} THEN NoTx ELSE CHOOSE j \in W : \A l \in W : l <= j

\* Index of the item a transaction of index i finds under key k: the
\* greatest index below i that has one.
LatestBefore(m, i, k) ==
    LET W == {j \in 0 .. i - 1 : m[k][j] # Absent}
    IN  IF W = {} THEN NoTx ELSE CHOOSE j \in W : \A l \in W : l <= j

\* What transaction i sees under key k: the latest item below i, or the
\* value of the parent store when there is none.
GetLatestBeforeIndex(m, par, i, k) ==
    LET j == LatestBefore(m, i, k)
    IN  IF j = NoTx THEN par[k] ELSE m[k][j]

\* Faulty variant: a read from the parent store that went stale is reported
\* as a conflict with the index "none".
CheckRead_ReportsParent(m, par, i, k, v) ==
    LET j   == LatestBefore(m, i, k)
        cur == GetLatestBeforeIndex(m, par, i, k)
        ok  == CASE cur = Estimate           -> TRUE
                 [] j # NoTx /\ cur = Nil    -> v = Nil
                 [] OTHER                    -> BytesEqual(cur, v)
    IN  [ok |-> ok, conflicts |-> IF cur = Estimate \/ ~ok THEN {j} ELSE {}]

\* Faulty variant: a deletion by a lower transaction is no conflict.
CheckRead_IgnoresDeletes(m, par, i, k, v) ==
    LET j   == LatestBefore(m, i, k)
        cur == GetLatestBeforeIndex(m, par, i, k)
        ok  == cur \in {Estimate, Nil} \/ BytesEqual(cur, v)
    IN  [ok |-> ok, conflicts |-> IF j # NoTx /\ (cur = Estimate \/ ~ok) THEN {j} ELSE {}]

\* One iteration of the loop in checkReadsetAtIndex: is the value v that
\* transaction i read under k still what it would read, and which
\* transaction is in its way if not.
CheckRead(m, par, i, k, v) ==
    LET j   == LatestBefore(m, i, k)
        cur == GetLatestBeforeIndex(m, par, i, k)
        ok  == CASE cur = Estimate           -> TRUE
                 [] j # NoTx /\ cur = Nil    -> v = Nil
                 [] OTHER                    -> BytesEqual(cur, v)
    IN  [ok        |-> ok,
         conflicts |-> IF j # NoTx /\ (cur = Estimate \/ ~ok) THEN {j} ELSE {}]

\* Faulty variant: deletions do not reach the parent store.
GetLatestNonEstimate_SkipsDeletes(m, par, k) ==
    LET W == {j \in Txs : m[k][j] \notin {Absent, Estimate, Nil}}
    IN  IF W = {} THEN par[k] ELSE m[k][CHOOSE j \in W : \A l \in W : l <= j]

\* The value WriteLatestToStore leaves under k: that of the greatest index
\* whose item is not an estimate.
GetLatestNonEstimate(m, par, k) ==
    LET W == {j \in Txs : m[k][j] \notin {Absent, Estimate}}
    IN  IF W = {} THEN par[k] ELSE m[k][CHOOSE j \in W : \A l \in W : l <= j]

=============================================================================
