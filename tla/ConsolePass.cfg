SPECIFICATION ConsoleSpec
CONSTANTS
    a1 = a1
    a2 = a2
    c1 = c1
    None = None
    Accounts <- MCAccounts
    Codes <- MCCodes
    Retries = 1
    MaxRequests = 2
    MaxWrites = 2
SYMMETRY MCSymmetry
INVARIANTS
    TenantIsOfSession
    ListSettles
    ShownKeyIsLive
    
    OneLinePerForm
