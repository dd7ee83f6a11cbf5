CONSTANTS
    a = a
    b = b
    Message <- MCMessage
    Junk = Junk
    capacity = 3
    max_element_size = 2
    Rooms = {0, 1, 2}
    NoResult = NoResult
    Item = {x, y}
    Stray = Stray
    Chunks = {1, 2, 3}
    MAX_ITEMS = 5
    Block = {"common", "socket"}
    Size = 2
    Byte = {"b"}
    Noise = "noise"
    Zero = "zero"
    Resetting = "resetting"
    Common = "common"
    Volatile <- MCVolatile
    MAX_LEN = 2
SPECIFICATION MCSpec
INVARIANTS WindowIsValid InBlock InAgreement
PROPERTIES ImplementsFifo ImplementsList DamageIsLocal ResetWaits
