SPECIFICATION IssueFairSpec
CONSTANTS
    Ys = {}
    Outs = {x1, x2}
    Ops = {o1, o2}
    NoOp = NoOp
    InputsAmount <- NoAmount
    InputFeePpk = 0
    b11 = b11
    b12 = b12
    p1 = p1
    p2 = p2
    p3 = p3
    m1 = m1
    o1 = o1
    o2 = o2
    x1 = x1
    x2 = x2
    MintQuotes = {b11, b12}
    Bolt11 = {b11}
    Locked = {b12}
    QuoteSat <- MCQuoteSat
    Payments = {p1, p2, p3}
    Melts = {m1}
    PaysQuote <- MCPaysQuote
    Msat <- MCMsat
    SatOf <- MCSatOf
    Requests <- MCRequests
    c1 = c1
    s1 = s1
    Checkers = {c1}
    Subscriptions = {s1}
    Scenarios <- MCScenarios
    IssueDbErrors = TRUE
    IssueCrashes = 1
INVARIANTS
    PaidOnce
    
PROPERTIES
    IssueIsNeverLost
    PaymentIsCredited
