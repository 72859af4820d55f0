SPECIFICATION FairSpec
CONSTANTS
    high = high
    a = a
    b = b
    idle = idle
    s1 = s1
    None = None
    Threads = {high, a, idle}
    Idle = idle
    WaitLists = {s1}
    Objects = {s1}
    RT_THREAD_PRIORITY_MAX = 3
    InitPrio <- SmallPrio
    BootReady <- SmallReady
    Users = {high, a}
    Detachable = {s1}
    Flag = "FIFO"
    TakeTimes = {"finite"}
    InitValue = 1
    ValueMod = 65536
    MaxValue = 1
    ResetValues = {}
INVARIANTS
    TokensConserved
PROPERTIES
    TimedWaitEnds
