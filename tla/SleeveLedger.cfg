CONSTANTS
    s1 = s1
    s2 = s2
    p = p
    q = q
    r = r
    Sleeves <- MCSleeves
    Calls <- MCTriple
    MaxActive = 3
    Initial <- MCInitial
    Grant <- MCGrant
    Ops = {"perceive", "remember", "sync", "delete", "needlecast", "drip"}
    MaxNodes = 2
    MaxWindows = 2
    MaxErrors = 2
SPECIFICATION Spec
SYMMETRY MCSymmetry
INVARIANTS NothingFromNowhere FrozenOnlyInSaga  HeadReachesAll
CHECK_DEADLOCK FALSE
