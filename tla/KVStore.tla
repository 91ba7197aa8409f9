------------------------------ MODULE KVStore ------------------------------
(***************************************************************************)
(* What a branched key-value store promises: it reads like a map that      *)
(* starts as a copy of its parent and takes the writes made to it, and     *)
(* Write makes the parent that map.                                        *)
(***************************************************************************)
CONSTANTS
    Keys,
    Vals,
    Nil,
    Ranges  \* the sets of keys that can be deleted at once

VARIABLES
    view,   \* what the store holds
    base    \* what its parent holds

vars == <<view, base>>

Maps == [Keys -> Vals \cup {Nil}]

Init == base \in Maps /\ view = base

Set(k, v) == view' = [view EXCEPT ![k] = v] /\ UNCHANGED base

DeleteAll(D) ==
    /\ view' = [k \in Keys |-> IF k \in D THEN Nil ELSE view[k]]
    /\ UNCHANGED base

Write == base' = view /\ UNCHANGED view

Next ==
    \/ \E k \in Keys, v \in Vals : Set(k, v)
    \/ \E k \in Keys : Set(k, Nil)
    \/ \E D \in Ranges : DeleteAll(D)
    \/ Write

Spec == Init /\ [][Next]_vars

=============================================================================
