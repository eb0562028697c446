CONSTANTS
    Cids <- MCCids
    Contents <- MCContents
    Epochs = {0, 1, 3}
    Readers = {}
    Depths = {2}
    Tokens = {2}
    None = None
    Stack = "s"
    Writers = {w1, w2}
    MaxReads = 1
    MaxFaults = 1
SYMMETRY MCSymmetry
SPECIFICATION MemorySpec
INVARIANTS DecodesNewest BondHolds 
CHECK_DEADLOCK FALSE
