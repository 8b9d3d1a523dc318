SPECIFICATION TaskSpec
CONSTANTS
    t1 = t1
    t2 = t2
    n1 = n1
    n2 = n2
    Keys = {t1, t2, t3, t4}
    Names = {n1, n2, n3}
    Messages = {m1, m2}
    Commands = {c1, c2}
    Retention = 1
    Stored <- StoredRows
    StoredActive = t1
    Stops = {}
    MaxWaiting = 1
    ThreadMode = TRUE
    None = None
SYMMETRY Symmetry
VIEW View
INVARIANTS
    TaskTypeOK
    ClosedTasksGetNoTurn
    TurnHasWorktree
    ResetSparesAdmitted
    NamesCollideOnlyByOverlap
PROPERTIES
    IdleCloseIsFinal
    PruneKeepsRecent
