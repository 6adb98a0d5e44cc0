CONSTANTS
    NUM_RDS = 3
    PREV_RX_SKB_NUM = 3
    Budget = 2
    Payload = {"a", "b"}
    MaxDataWus = 2
    AllocMayFail = FALSE
    Coherent = TRUE
    RxFaults = {"bad"}
SPECIFICATION RxFairSpec
PROPERTIES
    ImplementsFairRxFifo
    RxDmaRestarts
