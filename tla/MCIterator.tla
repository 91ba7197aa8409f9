----------------------------- MODULE MCIterator -----------------------------
(***************************************************************************)
(* Small instances of MVIterator: one or two lower transactions and two    *)
(* keys.                                                                   *)
(***************************************************************************)
EXTENDS MVIterator

CONSTANTS v0, v1

\* One key is written or deleted, or two are.
W(f) == [k \in Keys |-> IF k \in DOMAIN f THEN f[k] ELSE Absent]
MCWriteSets == {NoSet, W(1 :> v1), W(2 :> Nil), W(1 :> Nil @@ 2 :> v1)}

MCParents == {[k \in Keys |-> IF k \in S THEN v0 ELSE Nil] : S \in {{1}, {2}}}

\* Walks in both directions, to the end or to the first key, over keys alone
\* or values too, with and without an own write in the range; and two that
\* begin with a read of a key.
Walks ==
    [before : {NoSet, W(2 :> v0)}, first : {NoKey}, ascending : BOOLEAN,
     limit : {1, 3}, values : BOOLEAN, after : {2}]
Lookups ==
    [before : {W(1 :> Nil)}, first : {1, 2}, ascending : {TRUE},
     limit : {3}, values : {TRUE}, after : {NoKey}]
MCIterations == Walks \cup Lookups

\* For two lower transactions.
FewWriteSets == {W(1 :> v1), W(1 :> Nil @@ 2 :> v1)}
FewWalks == {i \in Walks : i.limit = 3 /\ i.before = NoSet /\ i.ascending}

\* The iterator's own invariants as they are checked: a walk that no lower
\* transaction disturbed is validated.
UndisturbedPasses == TypeOK /\ UndisturbedIsValidated

=============================================================================
