CONSTANTS
    NUM_TDS = 2
    MAX_NONPTP_TAG = 2
    MAX_PTP_TAG = 4
    Budget = 1
    Classes = {"nonptp"}
    MapMayFail = FALSE
    Faults = {}
SPECIFICATION FairSpec
PROPERTIES
    ImplementsFairFifo
    QueueWakes
