CONSTANTS
    compute = compute
    residueToken = residueToken
    routingToken = routingToken
    deployer = deployer
    treasury = treasury
    registry = registry
    swap = swap
    oracle = oracle
    s1 = s1
    s2 = s2
    r1 = r1
    r2 = r2
    Kinds <- MCKinds
    Stacks <- MCStacks
    Accounts <- MCAccounts
    Deployer <- deployer
    NoOwner = NoOwner
    MaxUint = 4
    MaxMinted = 2
    RESIDUE <- residueToken
    ROUTING <- routingToken
    Treasury <- treasury
    Registry <- registry
    Swap <- swap
    Oracle <- oracle
    Holders <- MCHolders
    Held <- MCHeld
    Residues <- MCResidues
    Epochs = {1, 2}
    Amounts = {1, 2}
    Scale = 4
    Rates <- MCRates
    Caps <- MCCaps
    Emission = 1
    NoResidue = NoResidue
SPECIFICATION Spec
SYMMETRY MCSymmetry
INVARIANTS SupplyAccounted SwapsBounded MintsExplained
 
CHECK_DEADLOCK FALSE
