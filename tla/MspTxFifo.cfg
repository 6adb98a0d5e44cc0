CONSTANTS
    NUM_TDS = 3
    MAX_NONPTP_TAG = 3
    MAX_PTP_TAG = 4
    Budget = 2
    Classes = {"nonptp"}
    MapMayFail = TRUE
    Faults = {}
SPECIFICATION Spec
INVARIANTS
    NoTxReset
    NoFrameForgotten
    DmaOwnership
PROPERTIES
    ImplementsFifo
CHECK_DEADLOCK FALSE
