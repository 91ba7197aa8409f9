---------------------------- MODULE MCEmptyValue ----------------------------
(***************************************************************************)
(* Blocks in which a transaction stores the empty value and another asks   *)
(* whether the key is there (VersionIndexedStore.Has: Get(key) != nil).    *)
(***************************************************************************)
EXTENDS MCScheduler

Clear(l) == IF Len(l) = 0 THEN Set(a, Empty) ELSE Done(Nil)
Probe(l) == IF Len(l) = 0 THEN Get(a) ELSE Done(IF l[1] = Nil THEN v0 ELSE v1)

EmptyPrograms == {"clear", "probe", "toggle"}
EmptyOp(p, l) == CASE p = "clear"  -> Clear(l)
                   [] p = "probe"  -> Probe(l)
                   [] p = "toggle" -> Toggle(l)

EmptyBlocks == [Txs -> EmptyPrograms]
NilParent == {[k \in MCKeys |-> Nil]}

=============================================================================
