SPECIFICATION AvoidingSpec
PROPERTY RefreshesRecur
CONSTANTS
    NUM_RANKS = 4
    ReadRanks = {0,1,2}
    WriteRanks = {3}
    Margin = 25
    Banks = {0,1,2,3,4,5,6,7}
    Rows = {row1}
    TransactionIDs = {0,1,2,3,4,5,6,7,8,9,10,11,12,13,14,15,16,17,18,19,20,21,22,23,24,25,26,27,28,29,30,31}
    NULL = NULL
    Origins = {FALSE}
    CHANNEL_WORK_Q_MAX = 3
    CHANNEL_RETURN_Q_MAX = 16
    GIVE_LOGIC_PRIORITY = TRUE
    UINT_MAX = 255
    tRCD = 9
    tRP = 9
    tRC = 33
    tCL = 9
    tCWL = 7
    tRRD = 4
    tFAW = 20
    tWR = 10
    tWTR = 5
    tRTP = 5
    tRTPc = 5
    tCCD = 4
    tRFC = 107
    tCMDS = 1
    tRTRS = 2
    BURST = 4
    REFRESH_PERIOD = 300
