CONSTANTS
    NUM_TDS = 2
    MAX_NONPTP_TAG = 2
    MAX_PTP_TAG = 3
    Budget = 1
    Classes = {"ptp", "nonptp"}
    MapMayFail = TRUE
    Faults = {"err", "type", "ptp", "tag"}
SPECIFICATION Spec
INVARIANTS
    TypeOK
    TxRingConsistent
    DmaOwnership
    StatusNotOverwritten
    TimestampComplete
    TagsConserved
CHECK_DEADLOCK FALSE
