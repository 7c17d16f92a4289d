\* A Suno task and a video task users query, with a failing statement, a restart or a lost
\* channel; Midjourney tasks; submissions to every platform with two retries.
SPECIFICATION MCSpec
CONSTANTS
    song = song
    veo = veo
    Tasks = {song, veo}
    Suno = {song}
    Realtime = {veo}
    Quota <- MCQuota
    Actual <- MCActual
    Legacy = {song}
    None = None
    MaxFaults = 1
    MaxFetches = 1
    Parts = {"tasks", "midjourney", "submit"}
    MjIds = {"m1"}
    Modes = {"draw", "change"}
    Calls = {"c1"}
    Price = 1
    FirstQuota = 1
    CheckSuccess = TRUE
    MaxRows = 2
    MaxNotifies = 1
    MaxMjFaults = 1
    BasePrice = 7
    Funds = 70
    RetryTimes = 2
    MaxPolls = 2
INVARIANTS PaidAsEnded  TaskPaysAsServed
PROPERTIES AllTasksEnd
CHECK_DEADLOCK FALSE
