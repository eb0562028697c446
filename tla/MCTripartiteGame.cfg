CONSTANTS
    compute = compute
    deployer = deployer
    alice = alice
    referee = referee
    s1 = s1
    g1 = g1
    g2 = g2
    Kinds <- MCKinds
    Stacks <- MCStacks
    Accounts <- MCAccounts
    Deployer <- deployer
    GameContract <- referee
    GameIds <- MCGameIds
    GameEpochs <- MCEpochs
    NoOwner = NoOwner
    Unregistered = Unregistered
    MaxUint = 2
    MaxMinted = 3
SPECIFICATION GameSpec
INVARIANTS AlwaysFair ConsumptionIsBurned
PROPERTY ImplementsTreaty
