\* A channel with two keys is tested after the administrator enabled a key.
SPECIFICATION Spec
CONSTANTS
    Channels = {c2}
    MultiKey = {c2}
    Keys = {k1, k2}
    Workers = {u1, u2}
    Tester = tester
    Ticker = ticker
    Admin = admin
    Faults = FALSE
    InitStatus = {"enabled"}
    EditedChannels = {c2}
    MaxEdits = 1
    MaxTests = 1
    None = None
INVARIANT ToldEnabled
CHECK_DEADLOCK FALSE
