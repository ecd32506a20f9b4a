SPECIFICATION MCBusySpec
PROPERTY PortsGetTheirTurn
CONSTANTS
    NUM_PORTS = 2
    NUM_LINK_BUSES = 1
    CHANNELS_PER_LINK_BUS = 1
    PORT_QUEUE_DEPTH = 1
    PORT_WIDTH = 1
    TRANSACTION_SIZE = 2
    REQUEST_LINK_BUS_WIDTH = 8
    RESPONSE_LINK_BUS_WIDTH = 8
    RD_REQUEST_PACKET_OVERHEAD = 1
    RD_RESPONSE_PACKET_OVERHEAD = 1
    WR_REQUEST_PACKET_OVERHEAD = 1
    LOGIC_RESPONSE_PACKET_OVERHEAD = 1
    LINK_BUS_USE_DDR = TRUE
    LINK_CPU_CLK_RATIO = 1
    TransactionIDs = {t1, t2, t3}
    RequestTypes = {"DATA_WRITE"}
    NULL = NULL
    CHANNEL_WORK_Q_MAX = 3
    CHANNEL_RETURN_Q_MAX = 3
    PageCount = 0
    MaxRequests = 0
    portHeuristic = "FIRST_AVAILABLE"
    Cores = {}
    ChosenPorts = {0, 1}
