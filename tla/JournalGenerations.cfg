SPECIFICATION JSpec
CONSTANTS
    Messages = {m1, m2}
    Keys <- JournalKeys
    Stops = {}
    Clears = {c1, c2}
    LastDay = 1
    MaxGeneration = 3
    MaxWaiting = 1
    ThreadMode = FALSE
    None = None
SYMMETRY Symmetry
INVARIANTS
    JTypeOK
    ClearSparesAdmitted
    GenerationsLinked
PROPERTIES
    ResolvedToActive
