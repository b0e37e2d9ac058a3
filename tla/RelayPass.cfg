SPECIFICATION Spec
CONSTANTS
    c1 = c1
    c2 = c2
    Conn <- MCConn
    ProxyProtocol = TRUE
    FailThresh = 2
INVARIANTS
    StatsConsistent
    WaitCoversHandlers
PROPERTIES
    ShutdownDrains
    
