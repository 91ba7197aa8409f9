----------------------------- MODULE Cosmovisor -----------------------------
(***************************************************************************)
(* cosmovisor: the process that starts the node's binary, reads its output *)
(* for the message of a needed upgrade, kills the node, points the link    *)
(* "current" to the new binary and starts again.  The scanner, the wait    *)
(* for the process and the switch of the link are separate steps, and the  *)
(* machine may fail between any two.                                       *)
(***************************************************************************)
EXTENDS Upgrade

CONSTANTS
    MaxFaults       \* bound on exits and machine failures

NoLink == -1

VARIABLES
    cv,             \* "down", "launch", "wait", "waited", "switch", "relink"
    link,           \* the binary that "current" points to
    dirs,           \* upgrades/<name>: "absent", "partial" or "binary"
    message,        \* the upgrade named in a line the node has written, 0 if none
    found,          \* WaitResult.info
    exit,           \* how the process ended: "none", "ok", "error"
    faults

supervisorVars == <<cv, link, dirs, message, found, exit, faults>>
cosmovisorVars == <<upgradeVars, supervisorVars>>

\* CurrentBin falls back to genesis, and makes the link, when there is none.
CurrentBin == IF link = NoLink THEN 0 ELSE link

LaunchProcess ==
    /\ cv = "launch"
    /\ link' = CurrentBin
    /\ StartNode(CurrentBin)
    /\ cv' = "wait" /\ message' = 0 /\ found' = 0 /\ exit' = "none"
    /\ UNCHANGED <<dirs, faults>>

NodeRuns == ExecuteBlock /\ UNCHANGED supervisorVars

\* BeginBlocker's panic halts the node and leaves the process running.
NodeHalts ==
    /\ cv = "wait"
    /\ \/ PanicUpgradeNeeded /\ message' = plan.name
       \/ PanicWrongBinary /\ UNCHANGED message
    /\ UNCHANGED <<cv, link, dirs, found, exit, faults>>

\* A scanner meets the line.  It may have read it before Wait closed the pipe
\* and set the result only after Wait returned.
WaitForUpdate ==
    /\ cv \in {"wait", "waited"} /\ message # 0 /\ found = 0
    /\ found' = message
    /\ UNCHANGED <<upgradeVars, cv, link, dirs, message, exit, faults>>

Kill ==
    /\ cv = "wait" /\ found # 0 /\ node # "off"
    /\ StopNode
    /\ exit' = "error"
    /\ UNCHANGED <<cv, link, dirs, message, found, faults>>

\* The process ends by itself: it fails, or it was asked to stop and does.
NodeExits ==
    /\ cv = "wait" /\ node # "off" /\ faults < MaxFaults
    /\ StopNode
    /\ exit' \in {"ok", "error"}
    /\ faults' = faults + 1
    /\ UNCHANGED <<cv, link, dirs, message, found>>

\* An operator stops a node that halted because its binary is the wrong one, or
\* that has reached the bound.
OperatorStops ==
    /\ cv = "wait" /\ (node = "wrong" \/ (node = "on" /\ tip = MaxBlock))
    /\ StopNode
    /\ exit' = "error"
    /\ UNCHANGED <<cv, link, dirs, message, found, faults>>

\* cmd.Wait returns; after exit code 0 the result of the scanners is ignored.
WaitForExit ==
    /\ cv = "wait" /\ node = "off"
    /\ cv' = IF exit = "ok" THEN "down" ELSE "waited"
    /\ UNCHANGED <<upgradeVars, link, dirs, message, found, exit, faults>>

\* Faulty variant: the error of the killed process wins over the upgrade.
AsResultError ==
    /\ cv = "waited"
    /\ cv' = "down"
    /\ UNCHANGED <<upgradeVars, link, dirs, message, found, exit, faults>>

AsResult ==
    /\ cv = "waited"
    /\ cv' = IF found = 0 THEN "down" ELSE "switch"
    /\ UNCHANGED <<upgradeVars, link, dirs, message, found, exit, faults>>

\* DoUpgrade without the binary: DownloadBinary, unless the directory exists,
\* which a failed download may leave behind.
DownloadBinary ==
    /\ cv = "switch" /\ dirs[found] = "absent"
    /\ \E result \in {"absent", "partial", "binary"} :
        /\ dirs' = [dirs EXCEPT ![found] = result]
        /\ cv' = IF result = "binary" THEN "switch" ELSE "down"
    /\ UNCHANGED <<upgradeVars, link, message, found, exit, faults>>

WontOverwrite ==
    /\ cv = "switch" /\ dirs[found] = "partial"
    /\ cv' = "down"
    /\ UNCHANGED <<upgradeVars, link, dirs, message, found, exit, faults>>

\* SetCurrentUpgrade removes the link and makes the new one.
RemoveLink ==
    /\ cv = "switch" /\ dirs[found] = "binary"
    /\ link' = NoLink
    /\ cv' = "relink"
    /\ UNCHANGED <<upgradeVars, dirs, message, found, exit, faults>>

Symlink ==
    /\ cv = "relink"
    /\ link' = found
    /\ cv' \in {"launch", "down"}       \* with or without DAEMON_RESTART_AFTER_UPGRADE
    /\ UNCHANGED <<upgradeVars, dirs, message, found, exit, faults>>

\* A service manager starts cosmovisor again.
StartCosmovisor ==
    /\ cv = "down"
    /\ cv' = "launch"
    /\ UNCHANGED <<upgradeVars, link, dirs, message, found, exit, faults>>

MachineFails ==
    /\ cv # "down" /\ faults < MaxFaults
    /\ faults' = faults + 1
    /\ cv' = "down"
    /\ StopNode
    /\ UNCHANGED <<link, dirs, message, found, exit>>

\* The operator puts a binary in place before or after it is needed, ...
ProvideBinary ==
    /\ \E i \in Upgrades : dirs[i] # "binary" /\ dirs' = [dirs EXCEPT ![i] = "binary"]
    /\ UNCHANGED <<upgradeVars, cv, link, message, found, exit, faults>>

\* ... lets a minor release run before its height, ...
SwitchToMinor ==
    /\ cv = "down" /\ plan.name \in minor /\ dirs[plan.name] = "binary" /\ link # plan.name
    /\ link' = plan.name
    /\ UNCHANGED <<upgradeVars, cv, dirs, message, found, exit, faults>>

\* ... or has the old binary skip, as all validators then do, the one that is due.
SkipUpgrade ==
    /\ cv = "down" /\ ShouldExecute /\ ~IsSkipHeight /\ link # plan.name
    /\ skips' = skips \cup {Height}
    /\ UNCHANGED <<supervisorVars, minor, tip, plan, done, proposed, dumped, bin, migrated, node, ran>>

CosmovisorInit ==
    /\ UpgradeInit
    /\ cv = "down" /\ link = NoLink
    /\ dirs = [i \in Upgrades |-> "absent"]
    /\ message = 0 /\ found = 0 /\ exit = "none" /\ faults = 0

SupervisorSteps ==
    \/ LaunchProcess \/ WaitForUpdate \/ Kill \/ WaitForExit \/ AsResult
    \/ DownloadBinary \/ WontOverwrite \/ RemoveLink \/ Symlink

CosmovisorNext ==
    \/ SupervisorSteps \/ NodeRuns \/ NodeHalts \/ NodeExits \/ OperatorStops
    \/ StartCosmovisor \/ MachineFails \/ ProvideBinary \/ SwitchToMinor \/ SkipUpgrade

\* Goroutines and the node's consensus run; a service manager restarts
\* cosmovisor, and the operator does provide the binaries.
CosmovisorFairness ==
    /\ WF_cosmovisorVars(SupervisorSteps)
    /\ WF_cosmovisorVars(NodeRuns \/ NodeHalts)
    /\ WF_cosmovisorVars(StartCosmovisor)
    /\ WF_cosmovisorVars(ProvideBinary)

CosmovisorSpec == CosmovisorInit /\ [][CosmovisorNext]_cosmovisorVars /\ CosmovisorFairness

\* The types of the node's and the supervisor's state.
CosmovisorTypeOK ==
    /\ tip \in 0..MaxBlock
    /\ plan \in [name : Upgrades, height : 1..MaxBlock] \cup {NoPlan}
    /\ done \in [Upgrades -> 0..MaxBlock]
    /\ skips \subseteq 1..MaxBlock
    /\ node \in {"off", "on", "needed", "wrong"}
    /\ bin \in 0..MaxUpgrades
    /\ link \in NoLink..MaxUpgrades
    /\ cv \in {"down", "launch", "wait", "waited", "switch", "relink"}

\* "The purpose is to ensure the binary is switched EXACTLY at the desired
\* block": whatever races, failures and lost links cosmovisor goes through, all
\* blocks from the one of an upgrade on were run by a binary that has it, and
\* the earlier ones by binaries without it, unless it is a minor release.  The
\* state keeps its types.
SwitchedExactly ==
    /\ CosmovisorTypeOK
    /\ \A i \in Upgrades : done[i] # 0 =>
         \A h \in 1..tip :
             /\ h >= done[i] => ran[h] >= i
             /\ h < done[i] /\ i \notin minor => ran[h] < i

\* The process that applies a major upgrade has loaded its stores with the
\* changes of that upgrade, although the node reached the height in another
\* process, and the plan may have been late.
StoresAreMigrated ==
    [][\A i \in Upgrades \ minor : done'[i] # done[i] => migrated = i]_cosmovisorVars

\* An upgrade that is due is applied, unless an operator skips upgrades, after
\* finitely many exits, failures and lost races between Wait and the scanners.
UpgradeHappens ==
    \A i \in Upgrades : (plan.name = i /\ ShouldExecute) ~> (done[i] # 0 \/ skips # {})

=============================================================================
