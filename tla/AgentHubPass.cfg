SPECIFICATION Spec
CONSTANTS
    k1 = k1
    k2 = k2
    Key <- MCKey
    FirstKeys <- MCFirst
    MaxSessions = 2
    MaxCommands = 3
    QueueCap = 2
INVARIANTS
    
    RotatedStaysOut
PROPERTY QueuedIsDelivered
