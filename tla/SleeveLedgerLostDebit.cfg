CONSTANTS
    s1 = s1
    s2 = s2
    p = p
    q = q
    r = r
    Sleeves <- MCSleeves
    Calls <- MCPair
    MaxActive = 2
    Initial <- MCInitial
    Grant <- MCGrant
    Ops = {"needlecast"}
    MaxNodes = 0
    MaxWindows = 1
    MaxErrors = 0
SPECIFICATION Spec
SYMMETRY MCSymmetry
INVARIANT CastsAreCovered
CHECK_DEADLOCK FALSE
