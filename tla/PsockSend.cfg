SPECIFICATION PsockSpec
CONSTANTS
    Mss = 2
    BufSize = 2
    Programs <- LongSend
INVARIANT
    SendBlocksUntilReceived
CHECK_DEADLOCK FALSE
