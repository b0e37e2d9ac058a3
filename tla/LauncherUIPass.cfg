SPECIFICATION WindowSpec
CONSTANTS
    c1 = c1
    c2 = c2
    None = None
    Codes <- MCCodes
    MaxStarts = 2
    MaxBridge = 1
SYMMETRY MCSymmetry
INVARIANTS
    WindowTypeOK
    SettledBrand
    ScreenNeedsBrand
    OneLoopPerLogin
    
