-------------------------------- MODULE Gov ---------------------------------
(***************************************************************************)
(* x/gov: proposals from their deposit to their decision, the two queues   *)
(* that EndBlocker works off, the deposits in the module's account and the *)
(* tally of votes over delegations.  The store of the module, with the     *)
(* balances it moves, is one record that the operations transform.         *)
(***************************************************************************)
EXTENDS Integers, FiniteSetsExt

CONSTANTS
    Depositors,
    Purse,              \* what each depositor has at genesis
    MinDeposit, MinExpeditedDeposit,
    MaxDepositPeriod, ExpeditedVotingPeriod,
    VotingPeriods,      \* the values of the setting VotingPeriod that proposals may choose
    GovValidators,      \* bonded validators
    Delegators,         \* accounts that vote, the validators' own included
    Stake,              \* [Delegators \X GovValidators -> Nat], in tokens
    Options,            \* of "yes", "no", "veto", "abstain"
    MaxProposals,
    MaxSubmit,          \* bound on the time at which proposals are submitted
    MaxClock            \* bound on time, after all are decided

ASSUME GovAssumption ==
    /\ IsFiniteSet(Depositors) /\ Purse \in Nat
    /\ MaxProposals \in Nat /\ MaxClock \in Nat
    /\ MaxDepositPeriod \in Nat /\ ExpeditedVotingPeriod \in Nat /\ VotingPeriods \subseteq Nat

NoVote == "none"
Ids == 1..MaxProposals
NoProposal == [status |-> "none", expedited |-> FALSE, total |-> 0, depositEnd |-> 0, start |-> 0, end |-> 0]

VARIABLES
    gov,        \* the store: proposals, queues, deposits, votes, setting, balances
    clock       \* the time of the block

govVars == <<gov, clock>>

Open(g, id) == g.proposals[id].status \in {"deposit", "voting"}

----------------------------------------------------------------------------
(* Deposits *)

Total(g, id) == SumFunctionOnSet(g.deposits[id], Depositors)
Cleared == [d \in Depositors |-> 0]

\* DeleteDeposits burns them.
DeleteDeposits(g, id) ==
    [g EXCEPT !.pot = @ - Total(g, id), !.burned = @ + Total(g, id), !.deposits[id] = Cleared]

RefundDeposits(g, id) ==
    [g EXCEPT !.pot = @ - Total(g, id), !.deposits[id] = Cleared,
              !.purse = [d \in Depositors |-> @[d] + g.deposits[id][d]]]

GetVotingPeriod(g, expedited) == IF expedited THEN ExpeditedVotingPeriod ELSE g.period

\* Faulty variant: the proposal stays in the queue of deposits.
ActivateStillInactive(g, id) ==
    LET p == g.proposals[id]
        end == clock + GetVotingPeriod(g, p.expedited)
    IN [g EXCEPT !.proposals[id] = [p EXCEPT !.status = "voting", !.start = clock, !.end = end],
                 !.active = @ \cup {<<end, id>>}]

ActivateVotingPeriod(g, id) ==
    LET p == g.proposals[id]
        end == clock + GetVotingPeriod(g, p.expedited)
    IN [g EXCEPT !.proposals[id] = [p EXCEPT !.status = "voting", !.start = clock, !.end = end],
                 !.inactive = @ \ {<<p.depositEnd, id>>},
                 !.active = @ \cup {<<end, id>>}]

GetMinimumDeposit(expedited) == IF expedited THEN MinExpeditedDeposit ELSE MinDeposit

AddDeposit(g, id, d, amount) ==
    LET paid == [g EXCEPT !.purse[d] = @ - amount, !.pot = @ + amount,
                          !.proposals[id].total = @ + amount]
        p == paid.proposals[id]
        next == IF p.status = "deposit" /\ p.total >= GetMinimumDeposit(p.expedited)
                THEN ActivateVotingPeriod(paid, id) ELSE paid
    IN [next EXCEPT !.deposits[id][d] = @ + amount]

Deposit ==
    /\ \E id \in Ids, d \in Depositors : \E amount \in 1..gov.purse[d] :
        /\ Open(gov, id)
        /\ gov' = AddDeposit(gov, id, d, amount)
    /\ UNCHANGED clock

SubmitProposalWithExpedite(g, id, expedited) ==
    LET end == clock + MaxDepositPeriod
    IN [g EXCEPT !.proposals[id] = [NoProposal EXCEPT !.status = "deposit", !.expedited = expedited,
                                                      !.depositEnd = end],
                 !.inactive = @ \cup {<<end, id>>}]

\* The message fails as a whole when its first deposit, which may be empty, does.
SubmitProposal ==
    /\ clock <= MaxSubmit
    /\ \E id \in Ids, d \in Depositors, expedited \in BOOLEAN : \E amount \in 0..gov.purse[d] :
        /\ gov.proposals[id].status = "none" /\ \A i \in 1..(id - 1) : gov.proposals[i].status # "none"
        /\ gov' = AddDeposit(SubmitProposalWithExpedite(gov, id, expedited), id, d, amount)
    /\ UNCHANGED clock

----------------------------------------------------------------------------
(* Votes *)

Vote ==
    /\ \E id \in Ids, v \in Delegators, option \in Options :
        /\ gov.proposals[id].status = "voting"
        /\ gov' = [gov EXCEPT !.votes[id][v] = option]
    /\ UNCHANGED clock

NoVotes == [v \in Delegators |-> NoVote]
Bonded(val) == MapThenSumSet(LAMBDA v : Stake[<<v, val>>], Delegators)
TotalBondedTokens == MapThenSumSet(Bonded, GovValidators)

\* A delegator's vote takes its stake out of the validator's; what is left of
\* it follows the validator's own vote.
VotedBy(votes, option) ==
    LET own(v) == MapThenSumSet(LAMBDA val : Stake[<<v, val>>], GovValidators)
        left(val) == Bonded(val) - MapThenSumSet(LAMBDA v : Stake[<<v, val>>],
                                                 {v \in Delegators : votes[v] # NoVote})
    IN MapThenSumSet(own, {v \in Delegators : votes[v] = option})
       + MapThenSumSet(left, {val \in GovValidators : votes[val] = option})

\* passes and burnDeposits; the defaults of the settings are 1/3 of the stake
\* (2/3 expedited) as quorum, 1/3 as veto and 1/2 (2/3 expedited) as threshold.
Tally(votes, expedited) ==
    LET yes == VotedBy(votes, "yes")
        veto == VotedBy(votes, "veto")
        abstain == VotedBy(votes, "abstain")
        power == yes + VotedBy(votes, "no") + veto + abstain
        quorum == IF expedited THEN 2 ELSE 1
    IN IF TotalBondedTokens = 0 THEN [passes |-> FALSE, burn |-> FALSE]
       ELSE IF 3 * power < quorum * TotalBondedTokens THEN [passes |-> FALSE, burn |-> TRUE]
       ELSE IF power = abstain THEN [passes |-> FALSE, burn |-> FALSE]
       ELSE IF 3 * veto > power THEN [passes |-> FALSE, burn |-> TRUE]
       ELSE [passes |-> IF expedited THEN 3 * yes > 2 * (power - abstain)
                        ELSE 2 * yes > power - abstain,
             burn |-> FALSE]

----------------------------------------------------------------------------
(* EndBlocker *)

\* The deposit period is over: DeleteProposal, and its deposits are burned.
Drop(g, id) ==
    LET p == g.proposals[id]
    IN DeleteDeposits([g EXCEPT !.proposals[id] = [NoProposal EXCEPT !.status = "deleted"],
                                !.inactive = @ \ {<<p.depositEnd, id>>},
                                !.active = @ \ {<<p.end, id>>}], id)

\* An expedited proposal that did not pass becomes a regular one and keeps its deposits.
Convert(g, id) ==
    LET p == g.proposals[id]
        end == p.start + g.period
    IN [g EXCEPT !.proposals[id] = [p EXCEPT !.expedited = FALSE, !.end = end],
                 !.active = @ \cup {<<end, id>>}]

\* Faulty variant: deposits are paid out although an expedited proposal goes on.
DecideRefundingAll(g, id, ok, period) ==
    LET p == g.proposals[id]
        result == Tally(g.votes[id], p.expedited)
        paid == IF result.burn THEN DeleteDeposits(g, id) ELSE RefundDeposits(g, id)
        counted == [paid EXCEPT !.votes[id] = NoVotes, !.active = @ \ {<<p.end, id>>}]
    IN IF result.passes /\ ok THEN [counted EXCEPT !.proposals[id].status = "passed", !.period = period]
       ELSE IF result.passes THEN [counted EXCEPT !.proposals[id].status = "failed"]
       ELSE IF p.expedited THEN Convert(counted, id)
       ELSE [counted EXCEPT !.proposals[id].status = "rejected"]

\* The voting period is over.  The handler of one that passes may fail, or
\* change the setting.  Tally has deleted the votes.
Decide(g, id, ok, period) ==
    LET p == g.proposals[id]
        result == Tally(g.votes[id], p.expedited)
        paid == IF p.expedited /\ ~result.passes THEN g
                ELSE IF result.burn THEN DeleteDeposits(g, id) ELSE RefundDeposits(g, id)
        counted == [paid EXCEPT !.votes[id] = NoVotes, !.active = @ \ {<<p.end, id>>}]
    IN IF result.passes /\ ok THEN [counted EXCEPT !.proposals[id].status = "passed", !.period = period]
       ELSE IF result.passes THEN [counted EXCEPT !.proposals[id].status = "failed"]
       ELSE IF p.expedited THEN Convert(counted, id)
       ELSE [counted EXCEPT !.proposals[id].status = "rejected"]

\* The entries of a queue up to the block's time, and the last of them in its
\* order; the walk over the store does not meet what is put in during it.
Due(queue) == {e \in queue : e[1] <= clock}
LastOf(entries) ==
    CHOOSE e \in entries : \A x \in entries : x[1] < e[1] \/ (x[1] = e[1] /\ x[2] <= e[2])

DropDue(g) ==
    MapThenFoldSet(LAMBDA e, h : Drop(h, e[2]), g, LAMBDA e : e, LastOf, Due(g.inactive))
DecideDue(g, ok, period) ==
    MapThenFoldSet(LAMBDA e, h : Decide(h, e[2], ok[e[2]], period), g, LAMBDA e : e, LastOf, Due(g.active))

EndGovBlock ==
    /\ \E ok \in [Ids -> BOOLEAN], period \in VotingPeriods, step \in 1..2 :
        /\ gov' = DecideDue(DropDue(gov), ok, period)
        /\ clock' = IF clock + step > MaxClock THEN MaxClock ELSE clock + step

GovInit ==
    /\ clock = 0
    /\ \E period \in VotingPeriods :
        gov = [proposals |-> [id \in Ids |-> NoProposal], deposits |-> [id \in Ids |-> Cleared],
               votes |-> [id \in Ids |-> NoVotes], inactive |-> {}, active |-> {},
               period |-> period, purse |-> [d \in Depositors |-> Purse], pot |-> 0, burned |-> 0]

GovNext == Deposit \/ SubmitProposal \/ Vote \/ EndGovBlock

GovSpec == GovInit /\ [][GovNext]_govVars

\* The invariant the module registers, and what it rests on: the account holds
\* the deposits of the open proposals and no others, each proposal's total is
\* the sum of its deposits, and no coin is lost but the burned ones.
DepositsAreHeld ==
    /\ gov.pot = SumFunctionOnSet([id \in Ids |-> Total(gov, id)], Ids)
    /\ \A id \in Ids : Total(gov, id) = IF Open(gov, id) THEN gov.proposals[id].total ELSE 0
    /\ SumFunctionOnSet(gov.purse, Depositors) + gov.pot + gov.burned
         = SumFunctionOnSet([d \in Depositors |-> Purse], Depositors)

\* A proposal waits in exactly the queue of its status, under its own end time,
\* through activation, conversion, deletion and decision: EndBlocker neither
\* misses one nor panics on one that is gone.
QueuesFollowStatus ==
    /\ gov.inactive = {<<gov.proposals[id].depositEnd, id>> :
                         id \in {i \in Ids : gov.proposals[i].status = "deposit"}}
    /\ gov.active = {<<gov.proposals[id].end, id>> :
                         id \in {i \in Ids : gov.proposals[i].status = "voting"}}
    /\ \A id \in Ids : gov.votes[id] # NoVotes => gov.proposals[id].status = "voting"

=============================================================================
