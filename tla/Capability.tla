----------------------------- MODULE Capability -----------------------------
(***************************************************************************)
(* The object capabilities of x/capability.  A capability is an index in   *)
(* the persistent store with its owners, a pair of entries per owner in    *)
(* the memory store, and a pointer in the Go map capMap.  The two stores   *)
(* are branched and reverted with the transactions; the map is shared by   *)
(* all of them and is not.                                                 *)
(*                                                                         *)
(* A pointer is allocated where no capability of the map is, so the        *)
(* address of one that is garbage may come back.                           *)
(***************************************************************************)
EXTENDS Integers, FiniteSetsExt

CONSTANTS
    Modules,
    Names,              \* capability names, as positive numbers in the order of the strings
    Pointers,           \* addresses in the node's memory
    NoPointer,
    MaxIndex,           \* bound on the capabilities created
    ReleaseMayFail,     \* a transaction that dropped a capability may fail
    SimulationCreates,  \* a simulated transaction may create or drop one
    ClaimsRepeat        \* a module may claim one name, or one capability, twice

ASSUME CapabilityAssumption ==
    /\ Names \subseteq Nat \ {0}
    /\ NoPointer \notin Pointers
    /\ MaxIndex \in Nat \ {0}
    /\ {ReleaseMayFail, SimulationCreates, ClaimsRepeat} \subseteq BOOLEAN

Indices == 1..MaxIndex
Owners == Modules \X Names

VARIABLES
    committed,  \* the stores at the last commit
    block,      \* deliverState: the branch of the block
    branch,     \* the branches of the delivered and of the simulated transaction
    phase,      \* of the block: "idle", "block" or "tx"
    simulating,
    capMap,     \* Keeper.capMap
    dropped     \* the delivered transaction has deleted from capMap

capabilityVars == <<committed, block, branch, phase, simulating, capMap, dropped>>

Running == {"deliver", "simulate"}

\* An empty memory store, and the stores of a new chain.
NoMem == [initialized |-> FALSE,
          fwd |-> [k \in Modules \X Pointers |-> 0],
          rev |-> [o \in Owners |-> 0]]
Genesis == [index |-> 1, owners |-> [i \in Indices |-> {}], mem |-> NoMem]

CapabilityInit ==
    /\ committed = Genesis
    /\ block = Genesis
    /\ branch = [t \in Running |-> Genesis]
    /\ phase = "idle"
    /\ simulating = FALSE
    /\ capMap = [i \in Indices |-> NoPointer]
    /\ dropped = FALSE

-----------------------------------------------------------------------------
(* InitMemStore, at the first block of a process.                          *)

Persisted(s) == {i \in Indices : s.owners[i] # {}}

MaxOrZero(S) == IF S = {} THEN 0 ELSE Max(S)

\* The entries of all owners, with a new pointer per index; of two entries for
\* one key the later one stays.
MemOf(s, ptr) ==
    [initialized |-> TRUE,
     fwd |-> [k \in Modules \X Pointers |->
                 MaxOrZero({n \in Names : \E i \in Persisted(s) :
                                ptr[i] = k[2] /\ <<k[1], n>> \in s.owners[i]})],
     rev |-> [o \in Owners |-> MaxOrZero({i \in Persisted(s) : o \in s.owners[i]})]]

InitMemStore(ptr) ==
    /\ phase = "idle"
    /\ phase' = "block"
    /\ IF committed.mem.initialized
       THEN block' = committed /\ UNCHANGED capMap
       ELSE /\ block' = [committed EXCEPT !.mem = MemOf(committed, ptr)]
            /\ capMap' = [i \in Indices |-> IF i \in Persisted(committed) THEN ptr[i] ELSE capMap[i]]
    /\ UNCHANGED <<committed, branch, simulating, dropped>>

-----------------------------------------------------------------------------
(* The operations of a scoped keeper, in the branch of a transaction.      *)

Active(t) == IF t = "deliver" THEN phase = "tx" ELSE simulating

\* GetCapability: the entry is there and so is the pointer.  An entry without a
\* pointer is a panic, which fails the transaction.
Gets(s, m, n) == s.mem.rev[<<m, n>>] # 0 /\ capMap[s.mem.rev[<<m, n>>]] # NoPointer

NewCapability(t, m, n, p) ==
    LET s == branch[t] IN
    /\ Active(t) /\ (t = "simulate" => SimulationCreates)
    /\ s.mem.rev[<<m, n>>] = 0
    /\ s.index \in Indices
    /\ p \notin {capMap[i] : i \in Indices}
    /\ branch' = [branch EXCEPT ![t] =
           [s EXCEPT !.index = @ + 1, !.owners[s.index] = @ \cup {<<m, n>>},
                     !.mem.fwd[<<m, p>>] = n, !.mem.rev[<<m, n>>] = s.index]]
    /\ capMap' = [capMap EXCEPT ![s.index] = p]
    /\ UNCHANGED <<committed, block, phase, simulating, dropped>>

\* Module from looks its capability up and hands it to m, which claims it.
ClaimCapability(t, from, m, n) ==
    LET s == branch[t]
        i == s.mem.rev[from]
        p == capMap[i]
    IN /\ Active(t)
       /\ Gets(s, from[1], from[2])
       /\ <<m, n>> \notin s.owners[i]
       /\ ClaimsRepeat \/ (s.mem.rev[<<m, n>>] = 0 /\ \A o \in s.owners[i] : o[1] # m)
       /\ branch' = [branch EXCEPT ![t] =
              [s EXCEPT !.owners[i] = @ \cup {<<m, n>>},
                        !.mem.fwd[<<m, p>>] = n, !.mem.rev[<<m, n>>] = i]]
       /\ UNCHANGED <<committed, block, phase, simulating, capMap, dropped>>

\* Faulty variant: the forward entry stays.
ReleaseKeepFwd(t, m, held) ==
    LET s == branch[t]
        i == s.mem.rev[<<m, held>>]
        p == capMap[i]
        n == s.mem.fwd[<<m, p>>]
        rest == s.owners[i] \ {<<m, n>>}
    IN /\ Active(t)
       /\ Gets(s, m, held)
       /\ n # 0
       /\ (rest = {} /\ t = "simulate") => SimulationCreates
       /\ branch' = [branch EXCEPT ![t] = [s EXCEPT !.owners[i] = rest, !.mem.rev[<<m, n>>] = 0]]
       /\ IF rest = {}
          THEN capMap' = [capMap EXCEPT ![i] = NoPointer] /\ dropped' = (dropped \/ t = "deliver")
          ELSE UNCHANGED <<capMap, dropped>>
       /\ UNCHANGED <<committed, block, phase, simulating>>

\* Module m releases the capability that it holds under the name held: the
\* entries and the owner of the name the forward entry gives go.
ReleaseCapability(t, m, held) ==
    LET s == branch[t]
        i == s.mem.rev[<<m, held>>]
        p == capMap[i]
        n == s.mem.fwd[<<m, p>>]
        rest == s.owners[i] \ {<<m, n>>}
    IN /\ Active(t)
       /\ Gets(s, m, held)
       /\ n # 0
       /\ (rest = {} /\ t = "simulate") => SimulationCreates
       /\ branch' = [branch EXCEPT ![t] =
              [s EXCEPT !.owners[i] = rest, !.mem.fwd[<<m, p>>] = 0, !.mem.rev[<<m, n>>] = 0]]
       /\ IF rest = {}
          THEN capMap' = [capMap EXCEPT ![i] = NoPointer] /\ dropped' = (dropped \/ t = "deliver")
          ELSE UNCHANGED <<capMap, dropped>>
       /\ UNCHANGED <<committed, block, phase, simulating>>

-----------------------------------------------------------------------------
(* The application.                                                        *)

DeliverTx ==
    /\ phase = "block"
    /\ phase' = "tx"
    /\ branch' = [branch EXCEPT !["deliver"] = block]
    /\ dropped' = FALSE
    /\ UNCHANGED <<committed, block, simulating, capMap>>

Succeed ==
    /\ phase = "tx"
    /\ phase' = "block"
    /\ block' = branch["deliver"]
    /\ branch' = [branch EXCEPT !["deliver"] = Genesis]
    /\ dropped' = FALSE
    /\ UNCHANGED <<committed, simulating, capMap>>

Fail ==
    /\ phase = "tx"
    /\ dropped => ReleaseMayFail
    /\ phase' = "block"
    /\ branch' = [branch EXCEPT !["deliver"] = Genesis]
    /\ dropped' = FALSE
    /\ UNCHANGED <<committed, block, simulating, capMap>>

Simulate ==
    /\ ~simulating
    /\ simulating' = TRUE
    /\ branch' = [branch EXCEPT !["simulate"] = committed]
    /\ UNCHANGED <<committed, block, phase, capMap, dropped>>

EndSimulation ==
    /\ simulating
    /\ simulating' = FALSE
    /\ branch' = [branch EXCEPT !["simulate"] = Genesis]
    /\ UNCHANGED <<committed, block, phase, capMap, dropped>>

Commit ==
    /\ phase = "block"
    /\ phase' = "idle"
    /\ committed' = block
    /\ block' = Genesis
    /\ UNCHANGED <<branch, simulating, capMap, dropped>>

\* The process stops and starts again: the memory store and the map are empty.
Restart ==
    /\ committed' = [committed EXCEPT !.mem = NoMem]
    /\ block' = Genesis
    /\ branch' = [t \in Running |-> Genesis]
    /\ phase' = "idle"
    /\ simulating' = FALSE
    /\ capMap' = [i \in Indices |-> NoPointer]
    /\ dropped' = FALSE

CapabilityNext ==
    \/ \E ptr \in {f \in [Indices -> Pointers] : \A i, j \in Indices : f[i] = f[j] => i = j} : InitMemStore(ptr)
    \/ \E t \in Running, m \in Modules, n \in Names, p \in Pointers : NewCapability(t, m, n, p)
    \/ \E t \in Running, o \in Owners, m \in Modules, n \in Names : ClaimCapability(t, o, m, n)
    \/ \E t \in Running, m \in Modules, n \in Names : ReleaseCapability(t, m, n)
    \/ DeliverTx \/ Succeed \/ Fail
    \/ Simulate \/ EndSimulation
    \/ Commit \/ Restart

CapabilitySpec == CapabilityInit /\ [][CapabilityNext]_capabilityVars

-----------------------------------------------------------------------------
(* Properties.                                                             *)

\* The stores that blocks and transactions read now: the delivered transaction's
\* branch, the block's, or the committed one between blocks.
Current == IF phase = "tx" THEN branch["deliver"] ELSE IF phase = "block" THEN block ELSE committed

Stores ==
    [index : Nat, owners : [Indices -> SUBSET Owners],
     mem : [initialized : BOOLEAN, fwd : [Modules \X Pointers -> Names \cup {0}],
            rev : [Owners -> Indices \cup {0}]]]

\* Well-typedness; every capability with an owner has an index below the next.
CapabilityTypeOK ==
    /\ {committed, block, branch["deliver"], branch["simulate"]} \subseteq Stores
    /\ phase \in {"idle", "block", "tx"}
    /\ simulating \in BOOLEAN /\ dropped \in BOOLEAN
    /\ capMap \in [Indices -> Pointers \cup {NoPointer}]
    /\ \A i \in Persisted(Current) : i < Current.index

\* GetCapability never panics: an index found in the memory store is in the map.
NoneMissingFromMap ==
    \A o \in Owners : Current.mem.rev[o] # 0 => capMap[Current.mem.rev[o]] # NoPointer

\* Every owner of a capability gets it by its name and authenticates it with
\* it, after any failed transactions, simulations and restarts.
OwnersAuthenticate ==
    Current.mem.initialized =>
        \A i \in Indices : \A o \in Current.owners[i] :
            /\ Current.mem.rev[o] = i
            /\ capMap[i] \in Pointers /\ Current.mem.fwd[<<o[1], capMap[i]>>] = o[2]

\* Capabilities are unforgeable: a module authenticates a pointer only as a
\* capability that it owns, whatever that address was used for before.
OnlyOwnersAuthenticate ==
    \A m \in Modules, i \in Indices :
        (capMap[i] \in Pointers /\ i < Current.index /\ Current.mem.fwd[<<m, capMap[i]>>] # 0) =>
            <<m, Current.mem.fwd[<<m, capMap[i]>>]>> \in Current.owners[i]

\* A module authenticates exactly the capabilities that it owns, and looking
\* one up never panics.
CapabilitiesAreOwned ==
    CapabilityTypeOK /\ NoneMissingFromMap /\ OwnersAuthenticate /\ OnlyOwnersAuthenticate

=============================================================================
