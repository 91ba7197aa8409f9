---------------------------- MODULE MCScheduler -----------------------------
(***************************************************************************)
(* Small blocks for Scheduler: three transactions over two keys.  A local  *)
(* state is the sequence of values the program's operations returned.      *)
(***************************************************************************)
EXTENDS Scheduler

CONSTANTS a, b, v0, v1

MCKeys == {a, b}
MCLocs == UNION {[1 .. n -> V] : n \in 0 .. 3}
MCStart(p) == << >>
MCAfter(p, l, v) == IF Len(l) < 3 THEN Append(l, v) ELSE l

Flip(v) == IF v = v0 THEN v1 ELSE v0
Get(k) == [type |-> "get", key |-> k]
Set(k, v) == [type |-> "set", key |-> k, val |-> v]
Done(v) == [type |-> "done", resp |-> v]

(* The programs.
     toggle   reads a and writes its complement back;
     copy     copies a to b, deleting b if a has no value;
     branch   reads b, and depending on it deletes a or rewrites b: the keys
              it writes change from one incarnation to the next;
     own      writes b, then reads back its own write and a;
     chase    reads b only if a has a certain value: a rerun reads a key the
              first run did not, and may find another task's estimate.      *)
Toggle(l) ==
    CASE Len(l) = 0 -> Get(a)
      [] Len(l) = 1 -> Set(a, Flip(l[1]))
      [] OTHER      -> Done(l[1])
Copy(l) ==
    CASE Len(l) = 0 -> Get(a)
      [] Len(l) = 1 -> Set(b, l[1])
      [] OTHER      -> Done(l[1])
Branch(l) ==
    CASE Len(l) = 0 -> Get(b)
      [] Len(l) = 1 -> IF l[1] = v1 THEN Set(a, Nil) ELSE Set(b, v1)
      [] OTHER      -> Done(l[1])
Own(l) ==
    CASE Len(l) = 0 -> Set(b, v0)
      [] Len(l) = 1 -> Get(b)
      [] Len(l) = 2 -> Get(a)
      [] OTHER      -> Done(l[3])
Chase(l) ==
    CASE Len(l) = 0 -> Get(a)
      [] Len(l) = 1 -> IF l[1] = v1 THEN Get(b) ELSE Done(l[1])
      [] Len(l) = 2 -> Set(b, Flip(l[2]))
      [] OTHER      -> Done(l[2])

MCPrograms == {"toggle", "copy", "branch", "own", "chase"}
MCOp(p, l) == CASE p = "toggle" -> Toggle(l)
                [] p = "copy"   -> Copy(l)
                [] p = "branch" -> Branch(l)
                [] p = "own"    -> Own(l)
                [] p = "chase"  -> Chase(l)

AllBlocks == [Txs -> MCPrograms]

\* With v1 under b, branch may take back a write that others have read, and
\* what they read comes from the parent store again.
TwoParents == {[k \in MCKeys |-> IF k = a THEN v0 ELSE w] : w \in {Nil, v1}}

=============================================================================
