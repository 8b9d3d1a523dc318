SPECIFICATION Spec
CONSTANTS
    Messages = {m1, m2, m3}
    Keys = {k1, k2}
    Stops = {s1}
    MaxWaiting = 1
    ThreadMode = FALSE
    None = None
SYMMETRY Symmetry
INVARIANTS
    TypeOK
    EveryEntryOwned
    OneThreadPerConversation
    InFlightIsLive
    NoSilentLoss
    DrainsAreCounted
    OneTurnPerKey
    WaitingListsExact
    CleanupOnceAfterTurn
    DropsAreReported
