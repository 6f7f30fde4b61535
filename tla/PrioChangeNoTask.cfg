SPECIFICATION ChangeSpec
CONSTANTS
    Task = {idle, t1, t2}
    Idle = idle
    NoTask = none
    SystemWord = 4
    ByteBits = 2
    UserPrio = {1, 2}
    PrioArg = {1, 2, 3}
    CallerMasks = FALSE
PROPERTY
    FetchFindsTask
