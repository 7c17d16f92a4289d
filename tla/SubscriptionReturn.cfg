\* The same plan is bought twice.
SPECIFICATION Spec
CONSTANTS
    pro = pro
    day = day
    o1 = o1
    o2 = o2
    free = free
    vip = vip
    Plans = {pro, day}
    Groups = {free, vip}
    BaseGroup = free
    Upgrade <- MCUpgrade
    Duration <- MCDuration
    Period <- MCPeriod
    Aligned = {day}
    Total <- MCTotal
    MaxPurchase <- MCMaxPurchase
    Orders = {o1, o2}
    OrderPlan <- ProTwice
    Bind = bind
    Requests = {}
    Amounts = {2}
    Actuals = {3}
    RecordAge = 1
    NoGroup = NoGroup
    None = None
    MaxTime = 5
    MaxSubs = 3
    MaxAdmin = 0
INVARIANT GroupReturned
CHECK_DEADLOCK FALSE
