SPECIFICATION Spec
CONSTANTS
    ip1 = ip1
    c1 = c1
    c2 = c2
    Ip <- MCOneIp
    Caller <- MCCaller
    Duration <- MCDuration
    MaxTime = 2
    MaxExits = 1
    SaveMayFail = TRUE
    WithClose = TRUE
INVARIANTS
    DirtyIsTracked
    SavedSurvives
PROPERTIES
    BanIsSaved
