CONSTANTS
    MAX_REFS = 2
    MAX_DPLL_PROFILES = 3
    DeviceTrees <- MCDeviceTrees
    AccessMayFail = TRUE
    SysClk = 1
    TuningNco = 0
    MaxPolls = 2
    MaxFreq = 2
SPECIFICATION ClockSpec
CHECK_DEADLOCK FALSE
INVARIANTS
    ChipTypeOK
    PublishedComplete
    AllInEffect
PROPERTIES
    ParentIsSource
    ProbesEnd
