CONSTANTS
    a = a
    b = b
    Blocks = {a, b}
    File <- MCFile
    Empty = Empty
    Zeros = Zeros
    Garbage = Garbage
    NoPacket = NoPacket
    WrongTotals = {0, 1, 4}
    WORD = 8
    BUFFER_SIZE = 5
    FAILED = 4
    SIZE_BYTE = 2
    SOCKET_MEMORY = 4
    MAX_PEERS = 2
    MAX_SENT = 5
SPECIFICATION MCSpec
PROPERTY NullsAreSkipped
CHECK_DEADLOCK FALSE
