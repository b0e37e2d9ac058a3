SPECIFICATION Spec
CONSTANTS
    f1 = f1
    f2 = f2
    a = a
    b = b
    c = c
    d = d
    w1 = w1
    w2 = w2
    Torn = Torn
    Hole = Hole
    File <- MCFile
    Content <- MCContent
    Versions <- MCVersions
    FirstDisks <- MCFirstDisks
    Worker <- MCWorker
    MaxRetry = 1
    MaxRuns = 2

    
    
PROPERTIES
    
    RunEnds
