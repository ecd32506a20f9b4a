SPECIFICATION MCSpec
INVARIANT NothingRefused
CONSTANTS
    NUM_PORTS = 2
    NUM_LINK_BUSES = 2
    CHANNELS_PER_LINK_BUS = 1
    PORT_QUEUE_DEPTH = 1
    PORT_WIDTH = 1
    TRANSACTION_SIZE = 2
    REQUEST_LINK_BUS_WIDTH = 8
    RESPONSE_LINK_BUS_WIDTH = 8
    RD_REQUEST_PACKET_OVERHEAD = 1
    RD_RESPONSE_PACKET_OVERHEAD = 1
    WR_REQUEST_PACKET_OVERHEAD = 1
    LOGIC_RESPONSE_PACKET_OVERHEAD = 1
    LINK_BUS_USE_DDR = TRUE
    LINK_CPU_CLK_RATIO = 1
    TransactionIDs = {t1, t2, t3}
    RequestTypes = {"DATA_READ", "LOGIC_OPERATION"}
    NULL = NULL
    CHANNEL_WORK_Q_MAX = 1
    CHANNEL_RETURN_Q_MAX = 1
    PageCount = 1
    MaxRequests = 3
    portHeuristic = "FIRST_AVAILABLE"
    Cores = {}
    ChosenPorts = {0, 1}
