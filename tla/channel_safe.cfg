SPECIFICATION MCSpec
INVARIANT TypeOK
INVARIANT CountersNeverWrap
INVARIANT OpenBankAwaitsItsCAS
INVARIANT WorkQueueAccounted
INVARIANT RankNeverRefuses
INVARIANT DataBusNeverCollides
INVARIANT BurstsKeepApart
INVARIANT ReadsAccounted
INVARIANT ReturnQueueBounded
PROPERTY ImplementsService
PROPERTY SameBankInOrder
SYMMETRY Symmetry
CONSTANTS
    NUM_RANKS = 2
    Banks = {b1, b2}
    Rows = {row1, row2}
    TransactionIDs = {t1, t2, t3}
    NULL = NULL
    Origins = {FALSE}
    CHANNEL_WORK_Q_MAX = 4
    CHANNEL_RETURN_Q_MAX = 2
    GIVE_LOGIC_PRIORITY = TRUE
    UINT_MAX = 255
    MaxTransactions = 3
    MaxGap = 1
    Drained = TRUE
    tRCD = 2
    tRP = 2
    tRC = 6
    tCL = 3
    tCWL = 2
    tRRD = 1
    tFAW = 4
    tWR = 2
    tWTR = 1
    tRTP = 2
    tRTPc = 2
    tCCD = 2
    tRFC = 5
    tCMDS = 1
    tRTRS = 1
    BURST = 2
    REFRESH_PERIOD = 16
