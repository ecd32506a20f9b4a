SPECIFICATION ConfigurationSpec
INVARIANT NoDrift
INVARIANT EveryLineHasItsPlace
INVARIANT PlaceInRange
INVARIANT RowWidthsAgree
INVARIANT StrideReachesNextPlace
CONSTANTS
    tCK = 24
    CPU_CLK_PERIOD = 5
    NUM_RANKS = 2
    NUM_BANKS = 4
    NUM_ROWS = 8
    NUM_COLS = 4
    NUM_CHANNELS = 2
    BUS_ALIGNMENT_SIZE = 2
    CACHE_LINE_SIZE = 4
    UINT_BITS = 9
    MemorySizes = {0, 64, 128, 200, 256, 257, 300, 512, 513, 1024}
    MaxAddress = 1100
CHECK_DEADLOCK FALSE
