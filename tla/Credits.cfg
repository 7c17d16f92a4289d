\* One node with batch updates and one without share a row and a Redis hash, updates
\* fail and nodes stop; one order by any method with three concurrent handlers; one code,
\* two days.
SPECIFICATION MCSpec
CONSTANTS
    Nodes = {n1, n2}
    BatchNodes = {n1}
    Calls = {c1, c2}
    Readers = {x1}
    Deltas <- SmallDeltas
    Redis = TRUE
    Faults = TRUE
    Crashes = TRUE
    InitQuota = 3
    Absent = Absent
    Orders = {o1}
    Threads = {t1, t2, t3}
    Methods = {"epay", "stripe", "creem", "waffo"}
    MaxFaults = 1
    None = None
    MaxFails = 1
    Nothing = Nothing
    Codes = {c1}
    Value = 3
    Callers = {u1, u2}
    Award = 1
    InitAff = 2
    MinTransfer = 1
    MaxTime = 2
    MaxEdits = 2
INVARIANTS BatchBooks 
PROPERTIES StoreConverges DeliveredOnce 
CHECK_DEADLOCK FALSE
