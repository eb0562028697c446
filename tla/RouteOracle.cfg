CONSTANTS
    a1 = a1
    g1 = g1
    g2 = g2
    Accounts <- MCTwo
    Agents <- MCAgents
    MaxGuardians = 2
    Configs <- MCConfigs
    InitConfig <- MCInitConfig
    SwapAmounts <- MCSwapAmounts
    MaxEpoch = 2
    MaxObserved = 2
SPECIFICATION Spec
INVARIANT CountIsVotes
PROPERTIES ResumeNeedsQuorum BurstPauses
