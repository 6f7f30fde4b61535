SPECIFICATION SemLockSpec
CONSTANTS
    idle = idle
    t1 = t1
    t2 = t2
    t3 = t3
    none = none
    s1 = s1
    s2 = s2
    Task <- MCTask
    NoTask = none
    SystemWord = 3
    ByteBits = 2
    Idle = idle
    UserPrio <- MCUserPrio
    Sem = {s1}
    MaxCount = 2
    InitCount <- MCInitCount
PROPERTY
    ReturnsWithUnit
