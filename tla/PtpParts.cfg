CONSTANTS
    SEC = 9
    FRAC = 4
    TrigModes = {"GC", "PPS"}
    SECS = 4
    DelayTick = 3
    MaxLat = 2
    Times = {7, 35}
    Deltas = {3}
    MaxSeconds = 4
    MaxDelta = 20
    U8 = 8
    U16 = 16
    U32 = 16
    HZ = 4
    CIRCLE = 12
    PPM = 4
    MILLION = 5
    MaxParent = 20
    MaxRate = 21
    MaxPpm = 11
    MaxTuning = 9
SPECIFICATION PartsSpec
INVARIANTS
    TodTypeOK
    ReadFresh
    SetTakesEffect
    AdjPhase
    AlwaysNormal
    RoundsToNearest
    RateAsRounded
    PhaseReadsBack
    AdjfineRounds
PROPERTIES
    CallReturns
    AddsUp
