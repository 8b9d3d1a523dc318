SPECIFICATION JSpec
CONSTANTS
    Messages = {m1, m2, m3}
    Keys <- JournalKeys
    Stops = {}
    Clears = {}
    LastDay = 2
    MaxGeneration = 1
    MaxWaiting = 2
    ThreadMode = FALSE
    None = None
SYMMETRY Symmetry
INVARIANTS
    RefreshBeforeFirstTurn
    GenerationsApart
PROPERTIES
    ImplementsExecutor
