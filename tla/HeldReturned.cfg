\* The realtime part alone reaches the end of a session with the quota still held.
SPECIFICATION MCSpec
CONSTANTS
    r1 = r1
    r2 = r2
    Requests = {r1, r2}
    Pref <- TwoPref
    Kind <- TwoKind
    Playground = {}
    Unlimited = FALSE
    TrustQuota = 2
    Estimates = {0, 2, 4}
    Actuals = {0, 2, 3}
    Fee = 1
    InitWallet = 3
    InitToken = 4
    SubTotal = 3
    Faults = {"wallet", "token", "sub"}
    Tokens <- MCTokens
    Prices <- MCPrices
    MaxMessages = 2
    Report = 2
    Hold = 1
    Quotas = {3, 20}
    Nodes = {n1, n2}
    Admins = {a1, a2}
    MaxUpdates = 2
    MaxFaults = 1
INVARIANT HeldReturned
CHECK_DEADLOCK FALSE
