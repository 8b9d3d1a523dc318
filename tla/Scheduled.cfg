SPECIFICATION ProcessSpec
CONSTANTS
    s1 = s1
    n1 = n1
    Inputs <- SmallInputs
    Stored <- StoredTasks
    Ids = {s1}
    Names = {n1}
    Schedules <- SmallSchedules
    DefaultTarget = FALSE
    MaxTime = 2
    MaxBoots = 2
    NowCalls = {c2}
    MaxFaults = 1
    Calls = {c1, c2}
    Loop = Loop
    None = None
VIEW View
INVARIANTS
    ProcessTypeOK
    ReportsAreRecorded
    CloseWaitsForRuns
PROPERTIES
    RetryOnlyAfterFailure
    AdmittedRunsAreDue
    NothingDueIsLeft
CHECK_DEADLOCK FALSE
