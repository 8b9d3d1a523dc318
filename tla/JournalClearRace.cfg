SPECIFICATION JSpec
CONSTANTS
    Messages = {m1}
    Keys <- JournalKeys
    Stops = {}
    Clears = {c1}
    LastDay = 1
    MaxGeneration = 2
    MaxWaiting = 1
    ThreadMode = FALSE
    None = None
INVARIANTS
    ClearOnlyWhenIdle
