SPECIFICATION FairTurnsSpec
CONSTANTS
    Messages = {m1, m2}
    Keys = {k1}
    Stops = {s1}
    MaxWaiting = 1
    ThreadMode = TRUE
    None = None
PROPERTIES
    EveryMessageSettles
    ImplementsFairExecutor
