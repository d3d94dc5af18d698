SPECIFICATION Spec
CONSTANTS
    None = None
    k1 = k1
    k2 = k2
    k3 = k3
    h1 = h1
    p1 = p1
    bad = bad
    Keys = {k1, k2, k3}
    Preimages = {p1, bad}
    Hash <- MCHash
    Secrets = {1,2,3,4,5,6,7,8,9,10,11,12,13}
    Content <- MCContent
    Requests <- MCRequests
    MaxTime = 1
    MaxSigs = 3
    MaxRebuilds = 1
    Purses <- MCPurses
    Sends <- MCSends
    FeesPpk = {0, 400, 1000}
    Denominations <- MCDenominations
    Fail = Fail
    Tasks = {t1, t2, t3, t4}
    MaxSize = 2
INVARIANTS
    SpendsAreAuthorised
    FundsAreFound
    
    PoolIsSound
PROPERTIES
    AcceptedStays
    ReceiveIsAccepted
CHECK_DEADLOCK FALSE
