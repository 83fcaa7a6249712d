SPECIFICATION TransferSpec
CONSTANTS
    TRANSFER_SIZE = 2
    Sizes = {1, 2, 3, 4, 5}
    StreamWindow = 3
    Modulus = 8
CHECK_DEADLOCK FALSE
INVARIANTS
    LeavesStreamInStep
    SuccessIsComplete
    StaysInBuffer
PROPERTIES
    ReceiverReturns
