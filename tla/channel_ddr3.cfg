SPECIFICATION MCSpec
INVARIANT RankNeverRefuses
INVARIANT DataBusNeverCollides
INVARIANT BurstsKeepApart
INVARIANT FourActivateWindow
INVARIANT RowCycleTime
SYMMETRY Symmetry
CONSTANTS
    NUM_RANKS = 1
    Banks = {b1, b2, b3, b4, b5}
    Rows = {row1}
    TransactionIDs = {t1, t2, t3, t4, t5}
    NULL = NULL
    Origins = {FALSE}
    CHANNEL_WORK_Q_MAX = 5
    CHANNEL_RETURN_Q_MAX = 5
    GIVE_LOGIC_PRIORITY = TRUE
    UINT_MAX = 255
    MaxTransactions = 5
    MaxGap = 0
    Drained = FALSE
    tRCD = 9
    tRP = 9
    tRC = 33
    tCL = 9
    tCWL = 7
    tRRD = 4
    tFAW = 20
    tWR = 10
    tWTR = 5
    tRTP = 5
    tRTPc = 5
    tCCD = 4
    tRFC = 107
    tCMDS = 1
    tRTRS = 2
    BURST = 4
    REFRESH_PERIOD = 160
