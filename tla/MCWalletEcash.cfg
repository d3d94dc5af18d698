SPECIFICATION EcashSpec
CONSTANTS
    r1 = r1
    s1 = s1
    s2 = s2
    w1 = w1
    h1 = h1
    h2 = h2
    x1 = x1
    NoOp = NoOp
    Foreign = {x1}
    Receives = {r1}
    Sends = {s1, s2}
    Swaps = {w1}
    Callers = {h1, h2}
    Token <- MCToken
    SwapOf <- MCSwapOf
    SwapIds <- MCSwapIds
    Sagas <- MCSagas
    InitialCoins = 2
    MaxCounter = 12
    Scenarios <- MCScenarios
    MaxCrashes = 1
    MaxLosses = 1
CHECK_DEADLOCK FALSE
INVARIANTS
    SecretsUsedOnce
    PendingHasOwner
    RevokeOnce
    
    CoinsAreReal

    
    
