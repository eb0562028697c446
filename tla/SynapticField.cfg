CONSTANTS
    Tuples = {"zero", "a"}
    ZeroTuple = "zero"
    MaxLeaves = 4
    MaxBlocks = 8
    MaxFailures = 2
    MaxRestarts = 1
SPECIFICATION MedullaSpec
INVARIANTS BlocksToldApart  MirrorCoversAll ProofsVerify
CHECK_DEADLOCK FALSE
