\* Two users next to root (one with Redis), three calls of the dashboard, two browsers,
\* three accounts from two identities, two concurrent requests at a limit of two.
SPECIFICATION MCSpec
CONSTANTS
    Root = r
    Users = {u, v}
    Extra = {v}
    Clients = {u}
    MaxCalls = 3
    MaxJobs = 2
    None = None
    Absent = Absent
    Browsers = {b1, b2}
    Devices = {b1, b2}
    Unset = Unset
    MaxFailAttempts = 2
    LockoutDuration = 1
    PasskeyReadyTimeout = 1
    SecureVerificationTimeout = 2
    CodeValid = 1
    MaxTime = 3
    MaxSetups = 2
    MaxGuesses = 7
    Accounts = {1, 2, 3}
    Idents = {i1, i2}
    Providers = {p1}
    Slugs = {s1, s2}
    MaxAdmin = 2
    Threads = {t1, t2}
    Max = 2
    Duration = 2
    MaxSeconds = 6
INVARIANTS  IdentityProved  AdmittedBound
PROPERTIES BlockedInTheEnd
CHECK_DEADLOCK FALSE
