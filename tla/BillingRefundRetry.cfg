\* The outer transaction of a subscription refund fails after the inner one.
SPECIFICATION Spec
CONSTANTS
    r1 = r1
    r2 = r2
    Requests = {r1, r2}
    Pref <- SubPref
    Kind <- RelayKind
    Playground = {}
    Unlimited = TRUE
    TrustQuota = 0
    Estimates = {1}
    Actuals = {1}
    Fee = 0
    InitWallet = 3
    InitToken = 4
    SubTotal = 3
    Faults = {"subSave"}
INVARIANT RefundIdempotent
CHECK_DEADLOCK FALSE
