SPECIFICATION Spec
CONSTANTS
    t1 = t1
    t2 = t2
    Token <- MCToken
    TTL = 2
    MaxTime = 4
    MaxRestarts = 2
    MayFail = {"flush", "remove", "read"}
INVARIANTS
    UseBound
    SurvivesRestart
PROPERTIES
    SealedIsFinal
    ExpiredIsPurged
