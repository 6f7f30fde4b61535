SPECIFICATION FairParts
CONSTANTS
    idle = idle
    t1 = t1
    t2 = t2
    t3 = t3
    none = none
    h1 = h1
    h2 = h2
    n1 = n1
    n2 = n2
    n3 = n3
    nowhere = nowhere
    s1 = s1
    s2 = s2
    Task <- MCTask
    NoTask = none
    SystemWord = 4
    ByteBits = 2
    Idle = idle
    UserPrio <- MCUserPrio
    Sem = {s1, s2}
    MaxCount = 2
    InitCount <- MCInitCount
    ListHead = {h1, h2}
    Item = {n1, n2, n3}
    WalkedHead = h1
    Nowhere = nowhere
    Devices = {"d", "e"}
    Names = {"u", "v"}
    NoDevice = "-"
    CountMod = 3
    Clients = 1
    StateNo = {1, 2}
    Blocks = {1, 2, 3, 4}
    Irq = {1}
    Job = {"idle", "j1", "j2"}
    Created <- MCCreated
    IdleJob = "idle"
    Rank <- MCAlike
    MaxNest = 2
    Words = {"a", "b", "c"}
    Nodes = 3
    MaxVal = 70
    Radix = {2, 8, 10, 16}
    Chars = {1, 2}
    MaxLen = 3
    Items <- MCItems
    MaxItems = 2
    MemSize = 3
    Parts <- MCParts
    Writer = {"w", "x"}
    FifoSize = 2
    Nibbles = 3
    Prints <- MCPrints
INVARIANT
    StackIsItsOwn
CHECK_DEADLOCK FALSE
