SPECIFICATION Spec
CONSTANTS
    note = note
    alarm = alarm
    Msgs <- MCMsgs
    Ttl <- MCTtl
    MaxToasts = 2
    Dedupe = 1
    MaxAge = 2
    MaxShows = 4
    MaxQueue = 2
INVARIANTS
    TimersMatch
PROPERTY
    IsNoticeBoard
