SPECIFICATION MutexSpec
CONSTANTS
    Task = {idle, t1, t2, t3}
    Idle = idle
    NoTask = none
    SystemWord = 4
    ByteBits = 2
    UserPrio = {1, 2}
    Mutex = {m1}
    PrioMutex = 0
    SleepHolding = {TRUE}
INVARIANT
    MutualExclusion
