\* Two requests use subscriptions of two plans while the loop resets and expires them.
SPECIFICATION FairSpec
CONSTANTS
    pro = pro
    day = day
    o1 = o1
    o2 = o2
    free = free
    vip = vip
    Plans = {pro, day}
    Groups = {free, vip}
    BaseGroup = free
    Upgrade <- MCUpgrade
    Duration <- MCDuration
    Period <- MCPeriod
    Aligned = {day}
    Total <- MCTotal
    MaxPurchase <- MCMaxPurchase
    Orders = {o1}
    OrderPlan <- MCOrderPlan
    Bind = bind
    Requests = {r1, r2}
    Amounts = {2}
    Actuals = {0, 3}
    RecordAge = 1
    NoGroup = NoGroup
    None = None
    MaxTime = 4
    MaxSubs = 2
    MaxAdmin = 1
INVARIANTS UsedWithinTotal  
PROPERTIES DueExpires
CHECK_DEADLOCK FALSE
