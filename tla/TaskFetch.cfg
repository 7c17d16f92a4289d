\* A video task that a user's query ends.
SPECIFICATION Spec
CONSTANTS
    song = song
    veo = veo
    Tasks = {veo}
    Suno = {}
    Realtime = {veo}
    Quota <- MCQuota
    Actual <- MCActual
    Legacy = {}
    None = None
    MaxFaults = 0
    MaxFetches = 1
INVARIANTS FailedGivesBack
