------------------------------ MODULE Vesting ------------------------------
(***************************************************************************)
(* The vesting accounts of x/auth/vesting: how much of an account's        *)
(* original coins is still locked at a time, and how delegations are       *)
(* attributed to locked and to free coins.  Amounts are of one             *)
(* denomination; the code treats each denomination by itself.              *)
(***************************************************************************)
EXTENDS Integers, Sequences, FiniteSets, Functions

Kinds == {"none", "base", "continuous", "delayed", "periodic", "permanent"}
VestingKinds == Kinds \ {"none", "base"}

Periods == Seq([length : Nat, amount : Nat])

\* Original, delegated vesting and delegated free amount, times, and periods.
Accounts ==
    [kind : Kinds, ov : Nat, dv : Nat, df : Nat, start : Nat, end : Nat, periods : Periods]

Least(x, y) == IF x < y THEN x ELSE y
Most(x, y) == IF x > y THEN x ELSE y

\* Dec.RoundInt of num/den: half rounds to even.
RoundInt(num, den) ==
    LET q == num \div den
        r == 2 * (num % den)
    IN IF r > den \/ (r = den /\ q % 2 = 1) THEN q + 1 ELSE q

\* The length and the amount of some periods.
PeriodLength(periods, S) == SumFunctionOnSet([i \in DOMAIN periods |-> periods[i].length], S)
PeriodAmount(periods, S) == SumFunctionOnSet([i \in DOMAIN periods |-> periods[i].amount], S)

\* Periods that are over x seconds after the start.
PeriodsOver(periods, x) == {i \in 1..Len(periods) : PeriodLength(periods, 1..i) <= x}

\* Validate of the account types, for the accounts of a genesis.
Validate(acc) ==
    /\ acc.dv <= acc.ov
    /\ acc.kind \in {"continuous", "periodic"} => acc.start < acc.end
    /\ acc.kind = "periodic" =>
          /\ acc.end = acc.start + PeriodLength(acc.periods, 1..Len(acc.periods))
          /\ acc.ov = PeriodAmount(acc.periods, 1..Len(acc.periods))
          /\ \A i \in 1..Len(acc.periods) : acc.periods[i].amount > 0 /\ acc.periods[i].length > 0
    /\ acc.kind = "permanent" => acc.end = 0

ContinuousVested(acc, t) ==
    IF t <= acc.start THEN 0
    ELSE IF t >= acc.end THEN acc.ov
    ELSE RoundInt(acc.ov * (t - acc.start), acc.end - acc.start)

PeriodicVested(acc, t) ==
    IF t <= acc.start THEN 0
    ELSE IF t >= acc.end THEN acc.ov
    ELSE PeriodAmount(acc.periods, PeriodsOver(acc.periods, t - acc.start))

DelayedVested(acc, t) == IF t >= acc.end THEN acc.ov ELSE 0

\* GetVestedCoins of the four account types; a permanent one never vests.
GetVestedCoins(acc, t) ==
    CASE acc.kind = "continuous" -> ContinuousVested(acc, t)
      [] acc.kind = "periodic" -> PeriodicVested(acc, t)
      [] acc.kind = "delayed" -> DelayedVested(acc, t)
      [] OTHER -> 0

GetVestingCoins(acc, t) == acc.ov - GetVestedCoins(acc, t)

\* LockedCoins: what vests and is not delegated.
LockedCoins(acc, t) ==
    LET vesting == GetVestingCoins(acc, t) IN vesting - Least(vesting, acc.dv)

\* TrackDelegation: the locked coins are delegated first.
TrackDelegation(acc, t, amt) ==
    LET x == Least(Most(GetVestingCoins(acc, t) - acc.dv, 0), amt)
    IN [acc EXCEPT !.dv = @ + x, !.df = @ + (amt - x)]

\* Faulty variant: the amount is taken from the free and again from the locked
\* coins.
TrackUndelegationTwice(acc, amt) ==
    [acc EXCEPT !.df = @ - Least(@, amt), !.dv = @ - Least(@, amt)]

\* TrackUndelegation: the free coins are undelegated first.
TrackUndelegation(acc, amt) ==
    LET x == Least(acc.df, amt)
        y == Least(acc.dv, amt - x)
    IN [acc EXCEPT !.df = @ - x, !.dv = @ - y]

=============================================================================
