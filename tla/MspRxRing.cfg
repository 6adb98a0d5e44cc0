CONSTANTS
    NUM_RDS = 2
    PREV_RX_SKB_NUM = 3
    Budget = 1
    Payload = {"a", "b"}
    MaxDataWus = 2
    AllocMayFail = TRUE
    Coherent = TRUE
    RxFaults = {"bad", "lost"}
SPECIFICATION RxSpec
INVARIANTS
    RxTypeOK
    RxNotOverwritten
    RxBufferOwned
    RxTakesComplete
PROPERTY
    ImplementsRxFifo
