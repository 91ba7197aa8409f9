-------------------------------- MODULE Bank --------------------------------
(***************************************************************************)
(* The balances of x/bank: coins of the base denomination with their       *)
(* fraction in wei, the total supply, the deferred cache that holds fees   *)
(* until the end of the block, vesting locks and delegated coins.          *)
(*                                                                         *)
(* Every action is a call of the keeper that succeeds.  A call that fails  *)
(* or panics, also half way, is made by a transaction whose writes are     *)
(* then dropped, so it changes nothing.                                    *)
(***************************************************************************)
EXTENDS Vesting

CONSTANTS
    Users,
    ModuleAccounts,
    FeeCollector,   \* the module that fees go to
    Pool,           \* the module that holds delegated coins
    Minters,        \* modules with the minter permission
    Burners,        \* modules with the burner permission
    Recipients,     \* accounts that the recipient checkers let receive
    OneUseiInWei,
    GenesisCoins,   \* [Users -> Nat]
    Setups,         \* the cases explored: the genesis accounts, a function on Users, the
                    \* users that send wei, create vesting accounts and delegate, and
                    \* bounds on the coins minted and on the transactions of a block
    MaxAmount,      \* bound on the coins of one call
    MaxEntry,       \* bound on one input or output of a multi-send
    MaxTx,
    MaxTime         \* bound on the block time

Holders == Users \cup ModuleAccounts

NoAccount ==
    [kind |-> "none", ov |-> 0, dv |-> 0, df |-> 0, start |-> 0, end |-> 0, periods |-> <<>>]

Amounts == 1..MaxAmount
Txs == 0..MaxTx

\* Genesis accounts are valid, hold what they vest and have delegated nothing;
\* those that vest by time have done so after MaxTime.
GenesisAccount(acc, coins) ==
    /\ Validate(acc) /\ acc.dv = 0 /\ acc.df = 0
    /\ acc.ov <= coins
    /\ acc.kind \notin VestingKinds => acc.ov = 0
    /\ acc.kind = "delayed" => acc.end > 0
    /\ acc.end <= MaxTime + 1

ASSUME BankAssumption ==
    /\ IsFiniteSet(Users) /\ IsFiniteSet(ModuleAccounts)
    /\ Users \cap ModuleAccounts = {}
    /\ FeeCollector \in ModuleAccounts /\ Pool \in ModuleAccounts
    /\ Minters \subseteq ModuleAccounts /\ Burners \subseteq ModuleAccounts
    /\ ModuleAccounts \subseteq Recipients /\ Recipients \subseteq Holders
    /\ OneUseiInWei \in Nat \ {0}
    /\ {MaxAmount, MaxEntry, MaxTx, MaxTime} \subseteq Nat
    /\ GenesisCoins \in [Users -> Nat]
    /\ \A c \in Setups :
          /\ c.accounts \in [Users -> Accounts] /\ c.maxMinted \in Nat /\ c.maxTx \in Txs
          /\ {c.weiSenders, c.creators, c.delegators} \subseteq SUBSET Users
          /\ \A u \in Users : GenesisAccount(c.accounts[u], GenesisCoins[u])

\* SendCoinsAndWei does not look at the lock of the sender: its callers are
\* accounts that do not vest, and that nobody makes vest.
ASSUME WeiSendersDoNotVest ==
    \A c \in Setups : \A u \in c.weiSenders :
        /\ c.accounts[u].kind \notin VestingKinds
        /\ c.accounts[u].kind = "none" => c.creators = {}

VARIABLES
    setup,
    hold,       \* [Holders -> [coins, wei]]: balance and wei balance
    supply,
    deferred,   \* [ModuleAccounts \X (0..MaxTx) -> coins]
    accounts,   \* [Users -> account]
    time,       \* the block's time
    txIndex,
    staked,     \* history: what each user has delegated
    minted      \* history: all that was ever minted

bankVars == <<setup, hold, supply, deferred, accounts, time, txIndex, staked, minted>>

BankInit ==
    /\ setup \in Setups
    /\ hold = [h \in Holders |-> [coins |-> IF h \in Users THEN GenesisCoins[h] ELSE 0, wei |-> 0]]
    /\ supply = SumFunctionOnSet(GenesisCoins, Users)
    /\ deferred = [d \in ModuleAccounts \X Txs |-> 0]
    /\ accounts = setup.accounts
    /\ time = 0
    /\ txIndex = 0
    /\ staked = [u \in Users |-> 0]
    /\ minted = 0

Locked(a) == IF a \in Users THEN LockedCoins(accounts[a], time) ELSE 0

-----------------------------------------------------------------------------
(* Helpers on the holdings.                                                *)

\* SubUnlockedCoins.
CanSub(a, n) == n <= hold[a].coins - Locked(a)
SubUnlockedCoins(H, a, n) == [H EXCEPT ![a].coins = @ - n]
AddCoins(H, a, n) == [H EXCEPT ![a].coins = @ + n]

SplitUseiWeiAmount(n) == [coins |-> n \div OneUseiInWei, wei |-> n % OneUseiInWei]

\* Whether SubWei finds enough.
CanSubWei(a, w) == w <= hold[a].coins * OneUseiInWei + hold[a].wei

SubWei(h, w) ==
    IF w <= h.wei THEN [h EXCEPT !.wei = @ - w]
    ELSE SplitUseiWeiAmount(h.coins * OneUseiInWei + h.wei - w)

AddWei(h, w) ==
    IF h.wei + w < OneUseiInWei THEN [h EXCEPT !.wei = @ + w]
    ELSE LET s == SplitUseiWeiAmount(h.wei + w)
         IN [coins |-> h.coins + s.coins, wei |-> s.wei]

\* The account that SendCoins creates for a recipient that has none.
WithAccount(b) ==
    IF b \in Users /\ accounts[b].kind = "none"
    THEN [accounts EXCEPT ![b].kind = "base"] ELSE accounts

-----------------------------------------------------------------------------
(* Transfers.                                                              *)

SendCoins(a, b, n) ==
    /\ CanSub(a, n)
    /\ b \in Recipients
    /\ hold' = AddCoins(SubUnlockedCoins(hold, a, n), b, n)
    /\ accounts' = WithAccount(b)
    /\ UNCHANGED <<setup, supply, deferred, time, txIndex, staked, minted>>

\* InputOutputCoins, the amounts of each address added up.
InputOutputCoins(in, out) ==
    /\ SumFunctionOnSet(in, Users) = SumFunctionOnSet(out, Users)
    /\ \A u \in Users : in[u] > 0 => CanSub(u, in[u])
    /\ \A u \in Users : out[u] > 0 => u \in Recipients
    /\ hold' = [h \in Holders |-> IF h \in Users THEN [hold[h] EXCEPT !.coins = @ - in[h] + out[h]]
                                  ELSE hold[h]]
    /\ accounts' = [u \in Users |-> IF out[u] > 0 /\ accounts[u].kind = "none"
                                    THEN [accounts[u] EXCEPT !.kind = "base"] ELSE accounts[u]]
    /\ UNCHANGED <<setup, supply, deferred, time, txIndex, staked, minted>>

\* Wei first, then whole coins; no account is created.
SendCoinsAndWei(a, b, n, w) ==
    /\ CanSubWei(a, w)
    /\ b \in Recipients
    /\ LET H1 == [hold EXCEPT ![a] = SubWei(@, w)]
           H2 == [H1 EXCEPT ![b] = AddWei(@, w)]
       IN /\ n > 0 => n <= H2[a].coins - Locked(a)
          /\ hold' = AddCoins(SubUnlockedCoins(H2, a, n), b, n)
    /\ UNCHANGED <<setup, supply, deferred, accounts, time, txIndex, staked, minted>>

CreateVestingAccount(a, b, n, end, delayed) ==
    /\ accounts[b].kind = "none"
    /\ CanSub(a, n)
    /\ b \in Recipients
    /\ accounts' = [accounts EXCEPT ![b] =
           [NoAccount EXCEPT !.kind = IF delayed THEN "delayed" ELSE "continuous",
                             !.ov = n, !.start = IF delayed THEN 0 ELSE time, !.end = end]]
    /\ hold' = AddCoins(SubUnlockedCoins(hold, a, n), b, n)
    /\ UNCHANGED <<setup, supply, deferred, time, txIndex, staked, minted>>

-----------------------------------------------------------------------------
(* The deferred cache.                                                     *)

\* Faulty variant: a second fee of the transaction replaces the first.
DeferredSendOverwrites(a, n) ==
    /\ accounts[a].kind # "none" /\ CanSub(a, n)
    /\ hold' = SubUnlockedCoins(hold, a, n)
    /\ deferred' = [deferred EXCEPT ![<<FeeCollector, txIndex>>] = n]
    /\ UNCHANGED <<setup, supply, accounts, time, txIndex, staked, minted>>

\* DeductFees: DeferredSendCoinsFromAccountToModule and UpsertBalances.
DeferredSend(a, n) ==
    /\ accounts[a].kind # "none"
    /\ CanSub(a, n)
    /\ hold' = SubUnlockedCoins(hold, a, n)
    /\ deferred' = [deferred EXCEPT ![<<FeeCollector, txIndex>>] = @ + n]
    /\ UNCHANGED <<setup, supply, accounts, time, txIndex, staked, minted>>

\* WriteDeferredBalances: one deposit for each module, then Clear.
WriteDeferredBalances ==
    /\ hold' = [h \in Holders |->
           IF h \in ModuleAccounts
           THEN [hold[h] EXCEPT !.coins = @ + SumFunctionOnSet([i \in Txs |-> deferred[<<h, i>>]], Txs)]
           ELSE hold[h]]
    /\ deferred' = [d \in ModuleAccounts \X Txs |-> 0]

\* The application settles the cache when a block ends.
EndBlock ==
    /\ WriteDeferredBalances
    /\ time' = Least(time + 1, MaxTime)
    /\ txIndex' = 0
    /\ UNCHANGED <<setup, supply, accounts, staked, minted>>

NextTx ==
    /\ txIndex < setup.maxTx
    /\ txIndex' = txIndex + 1
    /\ UNCHANGED <<setup, hold, supply, deferred, accounts, time, staked, minted>>

-----------------------------------------------------------------------------
(* Supply and delegations.                                                 *)

MintCoins(m, n) ==
    /\ m \in Minters
    /\ minted + n <= setup.maxMinted
    /\ hold' = AddCoins(hold, m, n)
    /\ supply' = supply + n
    /\ minted' = minted + n
    /\ UNCHANGED <<setup, deferred, accounts, time, txIndex, staked>>

\* A module burns what it holds; burning from the pool is a slash of what some
\* user has delegated.
BurnCoins(m, n, u) ==
    /\ m \in Burners
    /\ CanSub(m, n)
    /\ m = Pool => staked[u] >= n
    /\ hold' = SubUnlockedCoins(hold, m, n)
    /\ supply' = supply - n
    /\ staked' = IF m = Pool THEN [staked EXCEPT ![u] = @ - n] ELSE staked
    /\ UNCHANGED <<setup, deferred, accounts, time, txIndex, minted>>

\* DelegateCoins: locked coins may be delegated too.
DelegateCoins(u, n) ==
    /\ accounts[u].kind # "none"
    /\ n <= hold[u].coins
    /\ hold' = AddCoins([hold EXCEPT ![u].coins = @ - n], Pool, n)
    /\ accounts' = IF accounts[u].kind \in VestingKinds
                   THEN [accounts EXCEPT ![u] = TrackDelegation(@, time, n)] ELSE accounts
    /\ staked' = [staked EXCEPT ![u] = @ + n]
    /\ UNCHANGED <<setup, supply, deferred, time, txIndex, minted>>

UndelegateCoins(u, n) ==
    /\ staked[u] >= n
    /\ CanSub(Pool, n)
    /\ u \in Recipients
    /\ hold' = AddCoins(SubUnlockedCoins(hold, Pool, n), u, n)
    /\ accounts' = IF accounts[u].kind \in VestingKinds
                   THEN [accounts EXCEPT ![u] = TrackUndelegation(@, n)] ELSE accounts
    /\ staked' = [staked EXCEPT ![u] = @ - n]
    /\ UNCHANGED <<setup, supply, deferred, time, txIndex, minted>>

BankNext ==
    \/ \E a, b \in Holders \ {Pool}, n \in Amounts : SendCoins(a, b, n)
    \/ \E in, out \in [Users -> 0..MaxEntry] : InputOutputCoins(in, out) /\ \E u \in Users : in[u] > 0
    \/ \E a \in setup.weiSenders, b \in Users, n \in 0..MaxAmount, w \in 1..OneUseiInWei :
           SendCoinsAndWei(a, b, n, w)
    \/ \E a \in setup.creators, b \in Users, n \in Amounts, end \in 1..MaxTime, delayed \in BOOLEAN :
           CreateVestingAccount(a, b, n, end, delayed)
    \/ \E a \in Users, n \in Amounts : DeferredSend(a, n)
    \/ EndBlock
    \/ NextTx
    \/ \E m \in ModuleAccounts, n \in Amounts : MintCoins(m, n)
    \/ \E m \in ModuleAccounts, n \in Amounts, u \in setup.delegators : BurnCoins(m, n, u)
    \/ \E u \in setup.delegators, n \in Amounts : DelegateCoins(u, n)
    \/ \E u \in setup.delegators, n \in Amounts : UndelegateCoins(u, n)

BankSpec == BankInit /\ [][BankNext]_bankVars

-----------------------------------------------------------------------------
(* Properties.                                                             *)

\* Well-typedness of the bank's stores.
BankTypeOK ==
    /\ setup \in Setups
    /\ hold \in [Holders -> [coins : Nat, wei : Nat]]
    /\ supply \in Nat
    /\ deferred \in [ModuleAccounts \X Txs -> Nat]
    /\ accounts \in [Users -> Accounts]
    /\ time \in 0..MaxTime
    /\ txIndex \in Txs
    /\ staked \in [Users -> Nat]
    /\ minted \in 0..setup.maxMinted

\* The TotalSupply invariant of the module: coins and wei of all accounts, and
\* what waits in the deferred cache, make up the supply, whatever borrows and
\* carries between wei and coins the transfers made.
TotalSupply ==
    LET coins == SumFunctionOnSet([h \in Holders |-> hold[h].coins], Holders)
        wei == SumFunctionOnSet([h \in Holders |-> hold[h].wei], Holders)
        waiting == SumFunctionOnSet(deferred, ModuleAccounts \X Txs)
    IN /\ wei % OneUseiInWei = 0
       /\ supply = coins + waiting + wei \div OneUseiInWei

\* SubWei and AddWei never leave a whole coin's worth in a wei balance, so that
\* GetBalance shows every whole coin an account has.
WeiIsAFraction == \A h \in Holders : hold[h].wei < OneUseiInWei

\* SubUnlockedCoins computes balance minus locked, which panics when negative:
\* through transfers, fees, delegations, undelegations, slashes and the passing
\* of time an account always holds its locked coins.
LockedIsHeld == \A u \in Users : hold[u].coins >= Locked(u)

\* TrackDelegation and TrackUndelegation account for every delegated coin of a
\* vesting account, and for no more locked coins than it was given.
DelegationsAreTracked ==
    \A u \in Users : accounts[u].kind \in VestingKinds =>
        /\ accounts[u].dv + accounts[u].df >= staked[u]
        /\ accounts[u].dv <= accounts[u].ov

\* Of every account that genesis or CreateVestingAccount makes, GetVestedCoins
\* never decreases with time and ends at the original amount, except for the
\* permanent ones.
VestingIsMonotone ==
    \A u \in Users : accounts[u].kind \in VestingKinds =>
        /\ \A t \in 0..MaxTime : GetVestedCoins(accounts[u], t) <= GetVestedCoins(accounts[u], t + 1)
        /\ GetVestedCoins(accounts[u], 0) = 0
        /\ accounts[u].kind # "permanent" =>
             GetVestedCoins(accounts[u], MaxTime + 1) = accounts[u].ov

\* The invariants as they are checked.

\* Coins, wei and deferred fees make up the supply, and no account has a whole
\* coin in wei, through every transfer, fee, mint, burn and delegation.
BankIsSound == BankTypeOK /\ TotalSupply /\ WeiIsAFraction

\* Vesting accounts hold what is locked, their delegations are accounted for,
\* and what has vested only grows.
VestingIsSound == LockedIsHeld /\ DelegationsAreTracked /\ VestingIsMonotone

=============================================================================
