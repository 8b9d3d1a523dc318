SPECIFICATION JSpec
CONSTANTS
    Messages = {m1, m2, m3}
    Keys <- JournalKeys
    Stops = {}
    Clears = {}
    LastDay = 2
    MaxGeneration = 1
    MaxWaiting = 1
    ThreadMode = FALSE
    None = None
SYMMETRY Symmetry
INVARIANTS
    OneTurnPerThread
