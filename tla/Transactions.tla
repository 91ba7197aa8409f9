---------------------------- MODULE Transactions ----------------------------
(***************************************************************************)
(* Transactions that read and write single keys of a store.                *)
(***************************************************************************)
EXTENDS MultiVersion, Sequences

CONSTANTS
    Programs,       \* the transactions a block is made of
    Locs,           \* local states of a running transaction
    Start(_),       \* first local state of a program
    Op(_, _),       \* the store operation a program performs in a local state
    After(_, _, _)  \* the local state after an operation that returned a value

(***************************************************************************)
(* A transaction is deterministic: in local state l it performs the one    *)
(* operation Op(p, l), and what it does next depends on l and the value    *)
(* returned.  Deleting a key is setting it to Nil.                         *)
(***************************************************************************)
Ops == [type : {"get"}, key : Keys]
         \cup [type : {"set"}, key : Keys, val : V]
         \cup [type : {"done"}, resp : V]

ASSUME ProgramAssumption ==
    /\ \A p \in Programs : Start(p) \in Locs
    /\ \A p \in Programs, l \in Locs : Op(p, l) \in Ops
    /\ \A p \in Programs, l \in Locs, v \in V : After(p, l, v) \in Locs

(***************************************************************************)
(* A transaction running alone on a store: s is its local state and the    *)
(* keys it wrote so far, view the store below it.                          *)
(***************************************************************************)
Begin(p) == [loc |-> Start(p), ws |-> NoSet]

Step(p, s, view) ==
    LET op == Op(p, s.loc)
    IN  CASE op.type = "get" ->
               [s EXCEPT !.loc = After(p, s.loc, IF s.ws[op.key] # Absent
                                                  THEN s.ws[op.key] ELSE view[op.key])]
          [] op.type = "set" ->
               [loc |-> After(p, s.loc, Nil),
                ws  |-> [s.ws EXCEPT ![op.key] = op.val]]
          [] OTHER -> s

\* tr is a complete run of p on the store view.
IsRun(p, tr, view) ==
    /\ tr # << >>
    /\ tr[1] = Begin(p)
    /\ \A n \in 1 .. Len(tr) - 1 :
          /\ Op(p, tr[n].loc).type # "done"
          /\ tr[n + 1] = Step(p, tr[n], view)
    /\ Op(p, tr[Len(tr)].loc).type = "done"

=============================================================================
