CONSTANTS
    SEC = 20
    FRAC = 2
    TrigModes = {"PPS"}
    SECS = 3
    DelayTick = 0
    MaxLat = 2
    Times = {7}
    Deltas = {3}
SPECIFICATION TodSpec
INVARIANT
    NoSpuriousTimeout
