SPECIFICATION Spec
CONSTANTS
    c1 = c1
    c2 = c2
    Client <- MCClient
    QueueCap = 1
    SendCap = 1
    BroadcastCap = 1
    MaxMessages = 3
INVARIANTS
    TrackedOrPending
    OpenWhileTracked
PROPERTY StopCloses
