------------------------------ MODULE Upgrade -------------------------------
(***************************************************************************)
(* x/upgrade on one node: the plan that governance schedules, the heights  *)
(* of the upgrades that are done, and the BeginBlocker that decides        *)
(* whether this binary may run the next block.  A binary is named after    *)
(* its latest upgrade, 0 is the one of genesis, and it keeps the handlers  *)
(* of all earlier upgrades.                                                *)
(***************************************************************************)
EXTENDS Integers, FiniteSets

CONSTANTS
    MaxUpgrades,    \* the upgrades are 1..MaxUpgrades, in the order of their releases
    MaxBlock        \* bound on the heights of the chain

ASSUME UpgradeAssumption == MaxUpgrades \in Nat /\ MaxBlock \in Nat

Upgrades == 1..MaxUpgrades
NoPlan == [name |-> 0, height |-> 0]

VARIABLES
    minor,          \* the upgrades whose plan says "upgradeType": "minor"
    tip,            \* the last committed height
    plan,
    done,           \* the height at which an upgrade was applied, 0 before
    proposed,       \* the latest upgrade that governance ever scheduled
    skips,          \* --unsafe-skip-upgrades of this node
    dumped,         \* upgrade-info.json
    bin,            \* the binary of the running process
    migrated,       \* the upgrade whose store changes the process loaded, 0 if none
    node,           \* "off", "on", or the panic of BeginBlocker
    ran             \* which binary ran each block

upgradeVars == <<minor, tip, plan, done, proposed, skips, dumped, bin, migrated, node, ran>>

HasHandler(i) == i \in 1..bin

GetLastCompletedUpgrade ==
    IF \A i \in Upgrades : done[i] = 0 THEN 0
    ELSE CHOOSE i \in Upgrades : \A j \in Upgrades : done[j] <= done[i]

Height == tip + 1                   \* the one of the block that is executed next
ShouldExecute == plan # NoPlan /\ plan.height <= Height
IsSkipHeight == Height \in skips

\* Faulty variant: the height of an upgrade that is skipped is not checked.
WrongVersionUnlessDue ==
    ~ShouldExecute /\ GetLastCompletedUpgrade # 0 /\ ~HasHandler(GetLastCompletedUpgrade)

\* downgradeVerified is set on a copy of the keeper: every block is checked.
WrongVersion ==
    /\ ~ShouldExecute \/ IsSkipHeight
    /\ GetLastCompletedUpgrade # 0 /\ ~HasHandler(GetLastCompletedUpgrade)

UpdatedTooEarly ==
    /\ plan # NoPlan /\ ~ShouldExecute
    /\ plan.name \notin minor /\ HasHandler(plan.name)

UpgradeNeeded == ShouldExecute /\ ~IsSkipHeight /\ ~HasHandler(plan.name)

\* What the proposals that pass in this block leave of plan p: nothing
\* new, no plan, or a plan that ScheduleUpgrade accepts.  Governance names a
\* release only after all earlier ones.
Decisions(p, d) ==
    {p, NoPlan} \cup
    {q \in [name : Upgrades, height : Height..MaxBlock] :
        Height < MaxBlock /\ q.name >= proposed /\ d[q.name] = 0}

\* BeginBlocker lets the block run, and applies or skips a plan that is due.
ApplyUpgrade ==
    IF ShouldExecute /\ ~IsSkipHeight THEN [done EXCEPT ![plan.name] = Height] ELSE done

ExecuteBlock ==
    /\ node = "on" /\ tip < MaxBlock
    /\ ~WrongVersion /\ ~UpgradeNeeded /\ ~UpdatedTooEarly
    /\ done' = ApplyUpgrade
    /\ plan' \in Decisions(IF ShouldExecute THEN NoPlan ELSE plan, done')
    /\ proposed' = IF plan'.name > proposed THEN plan'.name ELSE proposed
    /\ tip' = Height
    /\ ran' = [ran EXCEPT ![Height] = bin]
    /\ UNCHANGED <<minor, skips, dumped, bin, migrated, node>>

\* Faulty variant: the file has the height of the plan.
DumpPlanHeight == plan

\* upgrade-info.json is written before the message and the panic.
DumpUpgradeInfo == [name |-> plan.name, height |-> Height]

PanicUpgradeNeeded ==
    /\ node = "on" /\ tip < MaxBlock /\ UpgradeNeeded
    /\ dumped' = DumpUpgradeInfo
    /\ node' = "needed"
    /\ UNCHANGED <<minor, tip, plan, done, proposed, skips, bin, migrated, ran>>

PanicWrongBinary ==
    /\ node = "on" /\ tip < MaxBlock /\ (WrongVersion \/ UpdatedTooEarly)
    /\ node' = "wrong"
    /\ UNCHANGED <<minor, tip, plan, done, proposed, skips, dumped, bin, migrated, ran>>

\* The binary b starts: it changes its stores if the file names its upgrade and
\* UpgradeStoreLoader finds it due at the next height.
StartNode(b) ==
    /\ bin' = b
    /\ node' = "on"
    /\ migrated' = IF b # 0 /\ dumped = [name |-> b, height |-> Height] /\ ~IsSkipHeight THEN b ELSE 0
    /\ UNCHANGED <<minor, tip, plan, done, proposed, skips, dumped, ran>>

StopNode ==
    /\ node' = "off"
    /\ UNCHANGED <<minor, tip, plan, done, proposed, skips, dumped, bin, migrated, ran>>

UpgradeInit ==
    /\ minor \in SUBSET Upgrades
    /\ tip = 0 /\ plan = NoPlan /\ proposed = 0
    /\ done = [i \in Upgrades |-> 0]
    /\ skips = {}
    /\ dumped = NoPlan
    /\ bin = 0 /\ migrated = 0 /\ node = "off"
    /\ ran = [h \in 1..MaxBlock |-> 0]

=============================================================================
