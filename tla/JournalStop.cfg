SPECIFICATION JFairSpec
CONSTANTS
    Messages = {m1, m2}
    Keys <- JournalKeys
    Stops = {s1}
    Clears = {}
    LastDay = 2
    MaxGeneration = 1
    MaxWaiting = 1
    ThreadMode = FALSE
    None = None
PROPERTIES
    StoppedTurnEnds
