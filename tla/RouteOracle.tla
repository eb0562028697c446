---------------------------- MODULE RouteOracle ----------------------------
(***************************************************************************)
(* contracts/src/RouteOracle.sol: pausing an agent, by any one guardian or *)
(* by the heuristics over what the owner's relayer observes, and resuming  *)
(* it by a threshold of guardians.  Reverted calls are no steps.  The      *)
(* relayer names the current epoch, so observations follow the clock.      *)
(*                                                                         *)
(* residuesSeen and routingSeen are the history the heuristics summarise   *)
(* in residueCount and in a comparison; no guard of the contract reads     *)
(* them.  haltSwap and setSwap act on another contract and are not here.   *)
(***************************************************************************)
EXTENDS Integers, Sequences, FiniteSetsExt

CONSTANTS
    Accounts,           \* addresses; the owner's calls need no sender
    Agents,             \* agentTokenId
    MaxGuardians,       \* bound: length of the guardians array
    Configs,            \* <<residueRate, swapBurst, window>> an owner may set
    InitConfig,
    SwapAmounts,        \* routingOut of an observed swap
    MaxEpoch,           \* bound: last epoch of the clock
    MaxObserved         \* bound: residues, and routing, observed of one agent in one epoch

ASSUME OracleAssumption ==
    /\ MaxGuardians \in Nat
    /\ Configs \subseteq Nat \X Nat \X Nat
    /\ InitConfig \in Configs
    /\ SwapAmounts \subseteq Nat
    /\ MaxEpoch \in Nat
    /\ MaxObserved \in Nat
    /\ IsFiniteSet(Accounts)

Epochs == 0 .. MaxEpoch

VARIABLES
    guardians,          \* the array, duplicates allowed
    threshold,
    approvals,          \* agent -> accounts whose resume approval is recorded
    approvalCount,      \* agent -> Nat
    executed,           \* agent -> BOOLEAN
    agentPaused,        \* agent -> BOOLEAN
    residueCount,       \* agent -> Nat
    lastResidueEpoch,   \* agent -> epoch
    config,             \* <<autoPauseResidueRate, autoPauseSwapBurst, observationWindow>>
    clock,              \* current epoch of the relayer
    residuesSeen,       \* agent -> epoch -> residues observed
    routingSeen         \* agent -> epoch -> routing observed

votingVars == <<guardians, threshold, approvals, approvalCount, executed>>
heuristicVars == <<residueCount, lastResidueEpoch, config, clock, residuesSeen, routingSeen>>
vars == <<votingVars, heuristicVars, agentPaused>>

ResidueRate == config[1]
SwapBurst == config[2]
Window == config[3]

IsGuardian(who) == \E i \in DOMAIN guardians : guardians[i] = who

GuardianArrays == UNION {[1 .. n -> Accounts] : n \in 1 .. MaxGuardians}

TypeOK ==
    /\ guardians \in GuardianArrays
    /\ threshold \in 1 .. Len(guardians)
    /\ approvals \in [Agents -> SUBSET Accounts]
    /\ approvalCount \in [Agents -> Nat]
    /\ executed \in [Agents -> BOOLEAN]
    /\ agentPaused \in [Agents -> BOOLEAN]
    /\ residueCount \in [Agents -> Nat]
    /\ lastResidueEpoch \in [Agents -> Epochs]
    /\ config \in Configs
    /\ clock \in Epochs
    /\ residuesSeen \in [Agents -> [Epochs -> Nat]]
    /\ routingSeen \in [Agents -> [Epochs -> Nat]]

NothingSeen == [a \in Agents |-> [e \in Epochs |-> 0]]

Init ==
    /\ guardians \in GuardianArrays
    /\ threshold \in 1 .. Len(guardians)
    /\ approvals = [a \in Agents |-> {}]
    /\ approvalCount = [a \in Agents |-> 0]
    /\ executed = [a \in Agents |-> FALSE]
    /\ agentPaused = [a \in Agents |-> FALSE]
    /\ residueCount = [a \in Agents |-> 0]
    /\ lastResidueEpoch = [a \in Agents |-> 0]
    /\ config = InitConfig
    /\ clock = 0
    /\ residuesSeen = NothingSeen
    /\ routingSeen = NothingSeen

-----------------------------------------------------------------------------
SetGuardians(new, m) ==
    /\ m \in 1 .. Len(new)
    /\ guardians' = new
    /\ threshold' = m
    /\ UNCHANGED <<approvals, approvalCount, executed, agentPaused, heuristicVars>>

EmergencyPause(sender, a) ==
    /\ IsGuardian(sender)
    /\ agentPaused' = [agentPaused EXCEPT ![a] = TRUE]
    /\ UNCHANGED <<votingVars, heuristicVars>>

\* Mutated form of ApproveResume: a guardian's repeated approval counts again.
ApproveResumeTwice(sender, a) ==
    /\ IsGuardian(sender)
    /\ approvalCount[a] <= Cardinality(Accounts)
    /\ approvals' = [approvals EXCEPT ![a] = @ \cup {sender}]
    /\ approvalCount' = [approvalCount EXCEPT ![a] = @ + 1]
    /\ UNCHANGED <<guardians, threshold, executed, agentPaused, heuristicVars>>

ApproveResume(sender, a) ==
    /\ IsGuardian(sender)
    /\ sender \notin approvals[a]
    /\ approvals' = [approvals EXCEPT ![a] = @ \cup {sender}]
    /\ approvalCount' = [approvalCount EXCEPT ![a] = @ + 1]
    /\ UNCHANGED <<guardians, threshold, executed, agentPaused, heuristicVars>>

\* Mutated form of ExecuteResume: the threshold is compared the wrong way round by one.
ExecuteResumeEarly(a) ==
    /\ approvalCount[a] + 1 >= threshold
    /\ ~executed[a]
    /\ executed' = [executed EXCEPT ![a] = TRUE]
    /\ agentPaused' = [agentPaused EXCEPT ![a] = FALSE]
    /\ UNCHANGED <<guardians, threshold, approvals, approvalCount, heuristicVars>>

\* Mutated form of ExecuteResume: `executed` is not recorded.
ExecuteResumeAgain(a) ==
    /\ approvalCount[a] >= threshold
    /\ ~executed[a]
    /\ agentPaused' = [agentPaused EXCEPT ![a] = FALSE]
    /\ UNCHANGED <<votingVars, heuristicVars>>

\* Anyone may execute; nothing ever clears the votes or `executed`.
ExecuteResume(a) ==
    /\ approvalCount[a] >= threshold
    /\ ~executed[a]
    /\ executed' = [executed EXCEPT ![a] = TRUE]
    /\ agentPaused' = [agentPaused EXCEPT ![a] = FALSE]
    /\ UNCHANGED <<guardians, threshold, approvals, approvalCount, heuristicVars>>

-----------------------------------------------------------------------------
\* lastSwapEpoch is written and never read: it is left out.
ObserveSwap(a, routingOut) ==
    /\ routingSeen[a][clock] < MaxObserved
    /\ agentPaused' = [agentPaused EXCEPT ![a] = @ \/ routingOut >= SwapBurst]
    /\ routingSeen' = [routingSeen EXCEPT ![a][clock] = @ + routingOut]
    /\ UNCHANGED <<votingVars, residueCount, lastResidueEpoch, config, clock, residuesSeen>>

\* Mutated form of CountedResidues: the window ends one epoch early.
CountedResiduesNarrow(a) ==
    (IF clock >= lastResidueEpoch[a] + Window THEN 0 ELSE residueCount[a]) + 1

\* The rolling count with the residue being observed.
CountedResidues(a) ==
    (IF clock > lastResidueEpoch[a] + Window THEN 0 ELSE residueCount[a]) + 1

ObserveResidue(a) ==
    /\ residuesSeen[a][clock] < MaxObserved
    /\ residueCount' = [residueCount EXCEPT ![a] = CountedResidues(a)]
    /\ lastResidueEpoch' = [lastResidueEpoch EXCEPT ![a] = clock]
    /\ agentPaused' = [agentPaused EXCEPT ![a] = @ \/ CountedResidues(a) >= ResidueRate]
    /\ residuesSeen' = [residuesSeen EXCEPT ![a][clock] = @ + 1]
    /\ UNCHANGED <<votingVars, config, clock, routingSeen>>

SetAutoPauseConfig(new) ==
    /\ config' = new
    /\ UNCHANGED <<votingVars, agentPaused, residueCount, lastResidueEpoch, clock,
                   residuesSeen, routingSeen>>

NextEpoch ==
    /\ clock < MaxEpoch
    /\ clock' = clock + 1
    /\ UNCHANGED <<votingVars, agentPaused, residueCount, lastResidueEpoch, config,
                   residuesSeen, routingSeen>>

Next ==
    \/ \E new \in GuardianArrays, m \in 1 .. MaxGuardians : SetGuardians(new, m)
    \/ \E a \in Agents :
        \/ \E sender \in Accounts : EmergencyPause(sender, a) \/ ApproveResume(sender, a)
        \/ ExecuteResume(a)
        \/ \E out \in SwapAmounts : ObserveSwap(a, out)
        \/ ObserveResidue(a)
    \/ \E new \in Configs : SetAutoPauseConfig(new)
    \/ NextEpoch

Spec == Init /\ [][Next]_vars

-----------------------------------------------------------------------------
\* The counter executeResume trusts is the number of distinct accounts that voted,
\* through every change of the guardian set.
CountIsVotes == \A a \in Agents : approvalCount[a] = Cardinality(approvals[a])

\* A paused agent comes back only through executeResume, backed by a threshold of
\* distinct votes, and at most once in its life: no observation, vote or rotation
\* unpauses it, and as nothing clears `executed`, no quorum can after that.
ResumeNeedsQuorum ==
    [][\A a \in Agents : (agentPaused[a] /\ ~agentPaused'[a]) =>
            /\ Cardinality(approvals[a]) >= threshold
            /\ ~executed[a] /\ executed'[a]]_vars

\* What was seen, epoch by epoch, from an epoch on.
Since(seen, from) ==
    LET upTo[n \in 0 .. MaxEpoch + 1] ==
            IF n = 0 THEN 0 ELSE upTo[n - 1] + IF n - 1 >= from THEN seen[n - 1] ELSE 0
    IN  upTo[MaxEpoch + 1]

\* Residues observed of agent a in the `window` epochs before the current one and in it.
RecentResidues(a, window) == Since(residuesSeen[a], clock - window)

Windows == {c[3] : c \in Configs}

ResidueObserved(a) == residuesSeen'[a] # residuesSeen[a]

\* A residue that completes a burst (ResidueRate residues within the narrowest window
\* ever configured) leaves its agent paused: neither the reset of the rolling count
\* nor a change of configuration between two residues hides a burst.
BurstPauses ==
    [][\A a \in Agents :
        (ResidueObserved(a) /\ RecentResidues(a, Min(Windows))' >= ResidueRate)
            => agentPaused'[a]]_vars

=============================================================================
