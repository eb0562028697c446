CONSTANTS
    Depth = 2
    Texts <- MCTexts
    Canon <- MCCanon
    Blank = ""
    Patterns <- MCPatterns
    Ids = {a}
    Runs = {r1, r2}
    None = None
    Configs <- MCConfigs
    Memories <- MCMemories
    Queries <- MCQueries
    Contents = {"text"}
    CallLists <- MCCallLists
    Usages <- MCUsages
    MaxFaults = 1
SPECIFICATION Spec
INVARIANTS  OwnWritesRecalled VerdictMatches
PROPERTIES AllRunsEnd
