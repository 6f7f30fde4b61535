SPECIFICATION FairObjects
CONSTANTS
    idle = idle
    t1 = t1
    t2 = t2
    t3 = t3
    none = none
    m1 = m1
    m2 = m2
    q1 = q1
    msg1 = msg1
    msg2 = msg2
    msg3 = msg3
    soft1 = soft1
    soft2 = soft2
    Task <- MCTask
    NoTask = none
    SystemWord = 4
    ByteBits = 2
    Idle = idle
    UserPrio <- MCUserPrio
    Mutex = {m1, m2}
    PrioMutex = 0
    SleepHolding = {TRUE, FALSE}
    Queue = {q1}
    Msg = {msg1, msg2, msg3}
    Length <- MCLength
    Method = {"FIFO", "LIFO"}
    SoftTimer = {soft1, soft2}
    Timeout = {0, 2}
    PrioArg = {1, 2, 3}
    CallerMasks = TRUE
INVARIANTS
    BitmapsExact
    MutexesSafe
    CeilingWorks
    QueuesSafe
    TimersSafe
    ChangesSafe
PROPERTIES
    SwitchToHighest
    MessageMeetsWaiter
    DelayOnTime
    DelayEnds
