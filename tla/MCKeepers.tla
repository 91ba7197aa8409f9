----------------------------- MODULE MCKeepers ------------------------------
(***************************************************************************)
(* Small instances of four keepers of one application.  They share no      *)
(* state, so the steps of one commute with those of the others and each is *)
(* explored by itself, while the others rest in their initial state.       *)
(***************************************************************************)
EXTENDS Slashing, Bank, Capability, Gov

CONSTANTS
    v1,                                 \* a validator
    vester, plain, fresh, fees, pool,   \* users and module accounts
    m1, m2, p1, p2, p3, np,             \* modules and addresses
    val, del                            \* a validator's account and its delegator

VARIABLE keeper     \* the one that is explored

\* Half of the window, rounded up, must be signed.
Half == [w \in Windows |-> (w + 1) \div 2]

\* A user with a vesting account, a plain one, and one without an account yet.
MCUsers == {vester, plain, fresh}

With(kind, ov, end, periods) ==
    [u \in MCUsers |->
        CASE u = vester -> [NoAccount EXCEPT !.kind = kind, !.ov = ov, !.end = end, !.periods = periods]
          [] u = plain  -> [NoAccount EXCEPT !.kind = "base"]
          [] OTHER      -> NoAccount]

Period(l, n) == [length |-> l, amount |-> n]

MCCoins == [u \in MCUsers |-> CASE u = vester -> 3 [] u = plain -> 1 [] OTHER -> 0]

\* With wei, fees and mints; and with accounts that are created on the way.
MCSetups ==
    [accounts : {With("continuous", 3, 2, <<>>)}, weiSenders : {{plain, fresh}}, creators : {{}},
     delegators : {{vester}}, maxMinted : {1}, maxTx : {1}]
    \cup
    [accounts : {With("periodic", 3, 2, <<Period(1, 1), Period(1, 2)>>), With("permanent", 2, 0, <<>>)},
     weiSenders : {{}}, creators : {{plain}}, delegators : {{vester, fresh}}, maxMinted : {0}, maxTx : {0}]

\* The delegator has a third of the stake.
MCStake == [d \in {<<val, val>>, <<del, val>>} |-> IF d[1] = val THEN 2 ELSE 1]

KeepersInit ==
    /\ keeper \in {"slashing", "bank", "capability", "gov"}
    /\ Init /\ (keeper # "slashing" => window = CHOOSE w \in Windows : TRUE)
    /\ BankInit /\ (keeper # "bank" => setup = CHOOSE c \in Setups : TRUE)
    /\ CapabilityInit
    /\ GovInit /\ (keeper # "gov" => gov.period = CHOOSE n \in VotingPeriods : TRUE)

KeepersNext ==
    /\ UNCHANGED keeper
    /\ \/ keeper = "slashing" /\ Next /\ UNCHANGED <<bankVars, capabilityVars, govVars>>
       \/ keeper = "bank" /\ BankNext /\ UNCHANGED <<vars, capabilityVars, govVars>>
       \/ keeper = "capability" /\ CapabilityNext /\ UNCHANGED <<vars, bankVars, govVars>>
       \/ keeper = "gov" /\ GovNext /\ UNCHANGED <<vars, bankVars, capabilityVars>>

KeepersSpec ==
    KeepersInit /\ [][KeepersNext]_<<keeper, vars, bankVars, capabilityVars, govVars>>

=============================================================================
