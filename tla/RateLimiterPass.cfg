SPECIFICATION Spec
CONSTANTS
    ip1 = ip1
    Ip <- MCOneIp
    Cost = 2
    Depth = 5
    MaxConcurrent = 2
    IdleEvict = 5
    CallerReleases = TRUE
    MaxTime = 9
    MaxOpen = 3
INVARIANTS
    RateBound
    
 
