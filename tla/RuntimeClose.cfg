SPECIFICATION RtFairSpec
CONSTANTS
    Messages = {m1, m2}
    Keys = {k1}
    Stops = {}
    MaxWaiting = 1
    ThreadMode = FALSE
    None = None
INVARIANTS
    RtTypeOK
    GracefulDrainIsComplete
PROPERTIES
    WaitedGroupNeverGrows
    CloseReturns
    ForcedShutdownEndsWork
