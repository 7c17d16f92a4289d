\* Two requests of one user, every store call may fail (except the save after a nested
\* commit); an answer with every combination of prices and counts; a realtime session of two
\* messages a side; two processes, two administrators, two updates of options.
SPECIFICATION MCSpec
CONSTANTS
    r1 = r1
    r2 = r2
    Requests = {r1, r2}
    Pref <- TwoPref
    Kind <- TwoKind
    Playground = {}
    Unlimited = FALSE
    TrustQuota = 2
    Estimates = {0, 2, 4}
    Actuals = {0, 2, 3}
    Fee = 1
    InitWallet = 3
    InitToken = 4
    SubTotal = 3
    Faults = {"wallet", "token", "sub"}
    Tokens <- MCTokens
    Prices <- MCPrices
    MaxMessages = 2
    Report = 2
    Hold = 1
    Quotas = {3, 20}
    Nodes = {n1, n2}
    Admins = {a1, a2}
    MaxUpdates = 2
    MaxFaults = 1
INVARIANTS SettledExact FailedPaysNothing NoOverRefund OverdraftBound  PriceKept 
PROPERTIES SettlesDown
CHECK_DEADLOCK FALSE
