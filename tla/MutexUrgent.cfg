SPECIFICATION FairSpec
CONSTANTS
    high = high
    mid = mid
    low = low
    idle = idle
    m1 = m1
    m2 = m2
    None = None
    Threads = {high, mid, low, idle}
    Idle = idle
    WaitLists = {m1}
    Objects = {m1}
    RT_THREAD_PRIORITY_MAX = 4
    InitPrio <- MCInitPrio
    BootReady <- MCBootReady
    Users = {high, mid, low}
    Detachable = {}
    Flag = "PRIO"
    TakeTimes = {"forever"}
    HoldMod = 256
    MaxNest = 1
PROPERTIES
    UrgentServed
