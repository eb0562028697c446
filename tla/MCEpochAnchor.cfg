CONSTANTS
    deployer = deployer
    bridge = bridge
    r1 = r1
    r2 = r2
    f1 = f1
    f2 = f2
    Accounts <- MCAccounts
    Deployer <- deployer
    Roots <- MCRoots
    Fields <- MCFields
    MaxUint = 3
SPECIFICATION Spec
INVARIANT HeightsFollowEpochs
PROPERTY VerdictIsFinal
