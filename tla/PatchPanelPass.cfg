SPECIFICATION PanelSpec
CONSTANTS
    old = old
    new = new
    NoPath = NoPath
    Paths <- MCPaths
    MaxJobs = 2
    MaxEvents = 1
    MaxEdits = 2
INVARIANTS
    OneJobGoesOn
    SettledStatus
    
PROPERTY
    PatchSettles
