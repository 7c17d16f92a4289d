\* Two channels, one with two keys: a failing request, the test loop, an edit, failing
\* statements and cache rebuilds; the channel table, the keys and the models of a channel;
\* every kind of request, the pool changing under it; the affinity records beside it.
SPECIFICATION MCSpec
CONSTANTS
    Channels = {c1, c2}
    MultiKey = {c2}
    Keys = {k1, k2}
    Workers = {u1}
    Tester = tester
    Ticker = ticker
    Admin = admin
    Faults = TRUE
    InitStatus = {"enabled"}
    EditedChannels = {c1, c2}
    MaxEdits = 1
    MaxTests = 2
    None = None
    Unset = Unset
    Parts = {"status", "table", "keys", "models", "request", "affinity"}
    MaxChannels = 2
    ChannelGroups <- MCGroups
    Tags = {"", "t"}
    MaxHandlers = 2
    MaxFixes = 1
    FirstKeys <- TwoKeys
    NewKeys <- OtherKeys
    Flaky = {"k2"}
    Requests = {"r1"}
    MaxOperations = 2
    Models = {"alias", "x", "y"}
    Redirects <- MCRedirects
    MaxChecks = 3
    MaxShifts = 1
    Candidates <- FourChannels
    AutoGroups <- TwoGroups
    GroupsOf <- GroupsOfFour
    Priority <- PriorityOfFour
    Weight <- WeightOfFour
    RequestKinds <- AllRequests
    RetryTimes = 2
    MaxChanges = 1
    Clients = {"r1", "r2"}
    AffineChannels = {"c1", "c2"}
    AffineModels = {"m"}
    Values = {"v"}
    Rules <- AffinityRules
    Serves <- AffinityServes
    Asked = {"auto", "B"}
    AffineAutos <- TwoGroups
    DefaultTTL = 2
    AffineRetries = 1
INVARIANTS SwitchedTogether FixRestores   AttemptsInOrder AffinityKeepsGroups
PROPERTIES CachesConverge SessionsAnswered
CHECK_DEADLOCK FALSE
