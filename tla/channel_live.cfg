SPECIFICATION StreamSpec
PROPERTY RefreshesRecur
PROPERTY WritesComplete
PROPERTY ReadsReturn
CONSTANTS
    NUM_RANKS = 3
    WriteRanks = {1}
    ReadRanks = {0, 2}
    Margin = 0
    Banks = {b1}
    Rows = {row1}
    TransactionIDs = {t1, t2, t3, t4, t5, t6}
    NULL = NULL
    Origins = {FALSE}
    CHANNEL_WORK_Q_MAX = 2
    CHANNEL_RETURN_Q_MAX = 3
    GIVE_LOGIC_PRIORITY = TRUE
    UINT_MAX = 255
    tRCD = 1
    tRP = 1
    tRC = 3
    tCL = 2
    tCWL = 1
    tRRD = 1
    tFAW = 2
    tWR = 1
    tWTR = 1
    tRTP = 1
    tRTPc = 1
    tCCD = 2
    tRFC = 4
    tCMDS = 1
    tRTRS = 1
    BURST = 2
    REFRESH_PERIOD = 12
