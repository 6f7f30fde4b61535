SPECIFICATION FairTcpSpec
CONSTANTS
    c1 = c1
    c2 = c2
    v1 = v1
    v2 = v2
    nobody = nobody
    Slot = {1, 2}
    Session = {c1, c2, v1, v2}
    NoSession = nobody
    Client = {c1, c2}
    Addr <- MCAddr
    FirstPort = 101
    PortLimit = 104
    ListenPort = 80
    MAXRTX = 1
    MAXSYNRTX = 1
    TIMEOUT = 2
    Load <- MCLoad
INVARIANTS
    TcpSafe
    ApplicationKnows
    BytesInOrder
PROPERTY
    ClosingEnds
CHECK_DEADLOCK FALSE
