CONSTANTS
    N = 2
    Budget = 1
    OpenMayFail = TRUE
SPECIFICATION LifeFairSpec
INVARIANTS
    LifeTypeOK
    PollsOnlyLiveRings
    NothingLeftBehind
PROPERTIES
    CloseReturns
    EntriesPolled
