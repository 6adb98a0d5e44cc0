CONSTANTS
    NUM_RDS = 2
    PREV_RX_SKB_NUM = 3
    Budget = 1
    Payload = {"a"}
    MaxDataWus = 1
    AllocMayFail = FALSE
    Coherent = FALSE
    RxFaults = {}
SPECIFICATION RxSpec
INVARIANTS
    RxNotOverwritten
