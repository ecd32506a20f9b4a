SPECIFICATION MCSpec
INVARIANT OpenBankAwaitsItsCAS
INVARIANT WorkQueueAccounted
INVARIANT LayerNeverExits
PROPERTY ResponseAfterWork
PROPERTY OnlyLogicOvertakes
PROPERTY OperationsAnswered
CONSTANTS
    NUM_RANKS = 2
    Banks = {0, 1}
    Rows = {0, 1}
    TransactionIDs = {t1, t2, t3, t4, t5, t6}
    NULL = NULL
    Origins = {TRUE, FALSE}
    CHANNEL_WORK_Q_MAX = 2
    CHANNEL_RETURN_Q_MAX = 8
    GIVE_LOGIC_PRIORITY = TRUE
    UINT_MAX = 255
    NUM_BANKS = 2
    NUM_ROWS = 2
    NUM_COLS = 2
    NUM_CHANNELS = 2
    BUS_ALIGNMENT_SIZE = 1
    CACHE_LINE_SIZE = 2
    QEMU_MEMORY_SIZE = 32
    mappingScheme = "RW_CLH_BK_RK_CH_CLL_BY"
    UINT_BITS = 9
    MaxRequests = 1
    MaxOperations = 2
    MaxGap = 1
    here = 0
    there = 18
    MaxPages = 2
    tRCD = 2
    tRP = 2
    tRC = 6
    tCL = 3
    tCWL = 2
    tRRD = 1
    tFAW = 4
    tWR = 2
    tWTR = 1
    tRTP = 2
    tRTPc = 2
    tCCD = 2
    tRFC = 5
    tCMDS = 1
    tRTRS = 1
    BURST = 2
    REFRESH_PERIOD = 14
