SPECIFICATION FairNet
CONSTANTS
    Base = 3
    MaxData = 4
    Datagram = {"d1", "d2"}
    Size <- MCSize
    PerByte = 2
    BufBlocks = 7
    HeaderBlocks = 1
    MAXAGE = 3
    Nobody = "nobody"
    Host = 10
    Peer = 11
    UdpSlot = {1, 2}
    FirstUdp = 100
    UdpLimit = 103
    Me = "me"
    Router = "r"
    Neighbours = {"r", "a"}
    HalfZero = {"z"}
    Remote = {"far"}
    Broadcast = "bc"
    Links = {"l1", "l2"}
    TableSize = 2
    TimeMod = 4
    ARP_MAXAGE = 2
    NbAddr = {"n1", "n2", "n3"}
    NbLink = {"l1", "l2"}
    NbEntries = 2
    MAX_TIME = 3
    FwHost = "me"
    Stations = {"a"}
    Netifs = {"n1"}
    OnNet <- MCOnNet
    Ids = {1}
    CacheSize = 2
    FW_TIME = 2
    UIP_TTL = 3
    Conns = 2
    PERIOD = 2
    ARP_PERIOD = 5
    MaxLag = 7
INVARIANTS
    ArithIsRight
PROPERTIES
    FwSafe
    
    IpSafe
    ArpSafe
    LongestSilentGoes
    TaskServes
CHECK_DEADLOCK FALSE
