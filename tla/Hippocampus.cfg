CONSTANTS
    Cids <- MCCids
    Contents <- MCContents
    Epochs = {2, 3}
    Readers = {"inspector"}
    Depths = {0, 1, 2}
    Tokens = {0, 1, 2}
SPECIFICATION Spec
INVARIANTS StatusCovers RecallSound ScanIsWindow
PROPERTY LeasesHold
CHECK_DEADLOCK FALSE
