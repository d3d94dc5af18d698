SPECIFICATION LightningSpec
CONSTANTS
    i1 = i1
    i2 = i2
    i3 = i3
    m1 = m1
    w1 = w1
    h1 = h1
    a = a
    b = b
    p = p
    rec1 = rec1
    NoOp = NoOp
    Foreign = {}
    Receives = {}
    Swaps = {w1}
    Issues = {i1, i2, i3}
    Melts = {m1}
    Checkers = {h1}
    Recovery = rec1
    MintQuotes = {a, b}
    MeltQuotes = {p}
    Token <- MCToken
    SwapOf <- MCSwapOf
    SwapIds <- MCSwapIds
    Sagas <- MCSagas
    QuotesOf <- MCQuotesOf
    QuoteOf <- MCQuoteOf
    MaxPaid = 1
    InitialCoins = 2
    MaxCounter = 12
    Scenarios <- MCScenarios
    MaxCrashes = 1
CHECK_DEADLOCK FALSE

    
    
PROPERTIES
    IssuedIsNoted
