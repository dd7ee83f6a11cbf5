CONSTANTS
    Frames <- MCFrames
    ETH_MAX_FRAME_LEN = 3
    TEMP_SIZE = 12
    RX_SIZE = 16
    MAX_RING_FRAMES = 2
    REGISTER = 8
    Buffers <- MCBuffers
    TX_SIZE = 4
    POINTERS = 8
    FREE_BYTE = 2
    MAX_SENDS = 2
    W5500_MAX_SOCKETS = 3
    MAX_HANDLES = 4
SPECIFICATION MCPollingSpec
INVARIANTS
    NothingMissing InOrder SentAsGiven
PROPERTIES
    DropsForAReason AllHandedOut SendReturns
    HarmsOnlyWhenFull
CHECK_DEADLOCK FALSE
