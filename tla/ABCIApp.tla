------------------------------- MODULE ABCIApp -------------------------------
(***************************************************************************)
(* The life cycle of BaseApp under ABCI++: the multistore with its         *)
(* uncommitted working set, the check, proposal and deliver states that    *)
(* branch it, and the handlers of a node that proposes, checks, finalizes, *)
(* commits, crashes and is replayed by consensus.                          *)
(*                                                                         *)
(* A state is a cache over the working set: it holds what it has read or   *)
(* written, and everything else shines through.  An account stands for the *)
(* data: its existence, its sequence number and what messages did to it.   *)
(***************************************************************************)
EXTENDS Integers, Sequences, FiniteSetsExt

CONSTANTS
    Accounts,
    Txs,            \* transactions: [acc, seq, ok]; ok if its messages succeed
    MaxBlockTxs,    \* bound on the transactions of a block
    MaxHeight,      \* bound on the chain
    MaxCrashes      \* bound on the crashes

ASSUME ABCIAssumption ==
    /\ \A tx \in Txs : tx.acc \in Accounts /\ tx.seq \in Nat /\ tx.ok \in BOOLEAN
    /\ Accounts # {}
    /\ MaxBlockTxs \in Nat /\ MaxHeight \in Nat /\ MaxCrashes \in Nat

VARIABLES
    committed,  \* [height, data]: the latest version of the multistore
    working,    \* its working set
    state,      \* the check, prepare, process and deliver states
    toCommit,   \* stateToCommit
    inited,     \* the chain is initialised in this process
    announced,  \* the working hash that FinalizeBlock has answered with
    chain,      \* consensus: the decided blocks
    crashes

vars == <<committed, working, state, toCommit, inited, announced, chain, crashes>>

Modes == {"check", "prepare", "process", "deliver"}

Absent == [exists |-> FALSE, seq |-> 0, done |-> 0]
Unset == [unset |-> TRUE]
Nil == [a \in {} |-> Unset]             \* no state
Fresh == [a \in Accounts |-> Unset]     \* a new branch of the multistore
NoData == [a \in Accounts |-> Absent]
NoHash == <<>>

Blocks == UNION {[1..n -> Txs] : n \in 0..MaxBlockTxs}

Init ==
    /\ committed = [height |-> 0, data |-> NoData]
    /\ working = NoData
    /\ state = [m \in Modes |-> IF m = "check" THEN Fresh ELSE Nil]
    /\ toCommit = "none"
    /\ inited = FALSE
    /\ announced = NoHash
    /\ chain = <<>>
    /\ crashes = 0

-----------------------------------------------------------------------------
(* Transactions.                                                           *)

Shown(s, base, a) == IF s[a] = Unset THEN base[a] ELSE s[a]

\* runTx on a state: the ante handler counts the sequence number on, the
\* messages take effect only if they are delivered and succeed.
RunTx(s, base, tx, deliver) ==
    LET v == Shown(s, base, tx.acc)
    IN [s EXCEPT ![tx.acc] =
           IF ~v.exists \/ v.seq # tx.seq THEN v
           ELSE [v EXCEPT !.seq = @ + 1, !.done = IF deliver /\ tx.ok THEN @ + 1 ELSE @]]

\* The transactions of a block, in its order: the last of them runs on what the
\* others have left.
RunBlock(s, base, block) ==
    MapThenFoldSet(LAMBDA tx, t : RunTx(t, base, tx, TRUE), s,
                   LAMBDA i : block[i], Max, DOMAIN block)

\* initChainer: the genesis accounts.
Genesis == [a \in Accounts |-> [exists |-> TRUE, seq |-> 0, done |-> 0]]

\* CacheMultiStore.Write.
Written(s) == [a \in Accounts |-> Shown(s, working, a)]

-----------------------------------------------------------------------------
(* The handlers.                                                           *)

\* The three states of the first block start from the genesis, the check state
\* does not.
InitChain ==
    /\ ~inited /\ committed.height = 0
    /\ inited' = TRUE
    /\ state' = [m \in Modes |-> IF m = "check" THEN Fresh ELSE Genesis]
    /\ toCommit' = "deliver"
    /\ UNCHANGED <<committed, working, announced, chain, crashes>>

CheckTx(tx) ==
    /\ state' = [state EXCEPT !["check"] = RunTx(@, working, tx, FALSE)]
    /\ UNCHANGED <<committed, working, toCommit, inited, announced, chain, crashes>>

\* PrepareProposal and ProcessProposal: the state is made on first use and kept
\* over the rounds of a height.  The application's handler may run the block.
Proposal(m, block, runs) ==
    /\ inited /\ announced = NoHash /\ committed.height < MaxHeight
    /\ LET s == IF state[m] = Nil THEN Fresh ELSE state[m]
       IN state' = [state EXCEPT ![m] = IF runs THEN RunBlock(s, working, block) ELSE s]
    /\ UNCHANGED <<committed, working, toCommit, inited, announced, chain, crashes>>

\* Faulty variant: the block is run on the state of the proposal.
FinalizeOnProposal(block) ==
    LET s == IF state["process"] # Nil THEN state["process"]
             ELSE IF state["deliver"] = Nil THEN Fresh ELSE state["deliver"]
        data == Written(RunBlock(s, working, block))
    IN /\ inited /\ announced = NoHash
       /\ IF Len(chain) > committed.height
          THEN block = chain[committed.height + 1] /\ UNCHANGED chain
          ELSE committed.height < MaxHeight /\ chain' = Append(chain, block)
       /\ state' = [state EXCEPT !["deliver"] = Fresh]
       /\ toCommit' = "deliver"
       /\ working' = data
       /\ announced' = <<data>>
       /\ UNCHANGED <<committed, inited, crashes>>

\* Faulty variant: the hash is taken before the state is written.
FinalizeHashEarly(block) ==
    LET s == IF state["deliver"] = Nil THEN Fresh ELSE state["deliver"]
        data == Written(RunBlock(s, working, block))
    IN /\ inited /\ announced = NoHash
       /\ IF Len(chain) > committed.height
          THEN block = chain[committed.height + 1] /\ UNCHANGED chain
          ELSE committed.height < MaxHeight /\ chain' = Append(chain, block)
       /\ state' = [state EXCEPT !["deliver"] = Fresh]
       /\ toCommit' = "deliver"
       /\ working' = data
       /\ announced' = <<working>>
       /\ UNCHANGED <<committed, inited, crashes>>

\* FinalizeBlock with the application's handler: the block is run on the deliver
\* state, which is chosen to be committed and written to the working set; its
\* hash is the answer.  A block that consensus has decided before is replayed.
FinalizeBlock(block) ==
    LET s == IF state["deliver"] = Nil THEN Fresh ELSE state["deliver"]
        data == Written(RunBlock(s, working, block))
    IN /\ inited /\ announced = NoHash
       /\ IF Len(chain) > committed.height
          THEN block = chain[committed.height + 1] /\ UNCHANGED chain
          ELSE committed.height < MaxHeight /\ chain' = Append(chain, block)
       /\ state' = [state EXCEPT !["deliver"] = Fresh]
       /\ toCommit' = "deliver"
       /\ working' = data
       /\ announced' = <<data>>
       /\ UNCHANGED <<committed, inited, crashes>>

\* Faulty variant: the check state is not reset.
CommitKeepsCheck ==
    /\ announced # NoHash
    /\ working' = Written(state[toCommit])
    /\ committed' = [height |-> committed.height + 1, data |-> working']
    /\ state' = [m \in Modes |-> IF m = "check" THEN state[m] ELSE Nil]
    /\ toCommit' = "none"
    /\ announced' = NoHash
    /\ UNCHANGED <<inited, chain, crashes>>

Commit ==
    /\ announced # NoHash
    /\ working' = Written(state[toCommit])
    /\ committed' = [height |-> committed.height + 1, data |-> working']
    /\ state' = [m \in Modes |-> IF m = "check" THEN Fresh ELSE Nil]
    /\ toCommit' = "none"
    /\ announced' = NoHash
    /\ UNCHANGED <<inited, chain, crashes>>

\* A crash and the start of the next process, which loads the latest version.
Restart ==
    /\ crashes < MaxCrashes
    /\ crashes' = crashes + 1
    /\ working' = committed.data
    /\ state' = [m \in Modes |-> IF m = "check" THEN Fresh ELSE Nil]
    /\ toCommit' = "none"
    /\ inited' = (committed.height > 0)
    /\ announced' = NoHash
    /\ UNCHANGED <<committed, chain>>

Finalize == \E block \in Blocks : FinalizeBlock(block)

Next ==
    \/ InitChain
    \/ \E tx \in Txs : CheckTx(tx)
    \/ \E m \in {"prepare", "process"}, block \in Blocks, runs \in BOOLEAN : Proposal(m, block, runs)
    \/ Finalize
    \/ Commit
    \/ Restart

Spec == Init /\ [][Next]_vars

-----------------------------------------------------------------------------
(* Properties.                                                             *)

Values == [exists : BOOLEAN, seq : Nat, done : Nat]

\* Well-typedness; the state that is chosen to be committed exists.
TypeOK ==
    /\ committed \in [height : Nat, data : [Accounts -> Values]]
    /\ working \in [Accounts -> Values]
    /\ \A m \in Modes : state[m] = Nil \/ state[m] \in [Accounts -> Values \cup {Unset}]
    /\ toCommit \in {"none", "process", "deliver"}
    /\ toCommit # "none" => state[toCommit] # Nil
    /\ chain \in Seq(Blocks) /\ committed.height <= Len(chain) /\ Len(chain) <= committed.height + 1

\* The reference: the decided blocks up to a height, run one after the other.
Outcome(blocks) ==
    MapThenFoldSet(LAMBDA block, s : RunBlock(s, s, block), Genesis,
                   LAMBDA i : blocks[i], Max, DOMAIN blocks)
Decided(h) == Outcome(SubSeq(chain, 1, h))

\* What is committed is the effect of the decided blocks, each run once and in
\* order on the genesis, whatever was proposed, checked or replayed meanwhile.
CommittedIsDecided ==
    committed.height > 0 => committed.data = Decided(committed.height)

\* The state that is committed is the one whose hash FinalizeBlock has answered
\* with.
CommitsWhatWasAnnounced ==
    [][committed' # committed => <<committed'.data>> = announced]_vars

\* Between blocks CheckTx knows every sequence number that has been used, so a
\* transaction that was executed is not admitted again.
CheckIsNotBehind ==
    announced = NoHash =>
        \A a \in Accounts :
            committed.data[a].exists => Shown(state["check"], working, a).seq >= committed.data[a].seq

\* CheckTx works on the last committed state and on what it has written itself.
CheckReadsCommitted ==
    \A a \in Accounts : state["check"][a] = Unset => working[a] = committed.data[a]

=============================================================================
