SPECIFICATION Spec
CONSTANTS
    high = high
    a = a
    b = b
    idle = idle
    s1 = s1
    None = None
    Threads = {high, a, b, idle}
    Idle = idle
    WaitLists = {s1}
    Objects = {s1}
    RT_THREAD_PRIORITY_MAX = 3
    InitPrio <- FullPrio
    BootReady <- FullReady
    Users = {high, a, b}
    Detachable = {}
    Flag = "PRIO"
    TakeTimes = {"zero", "finite", "forever"}
    InitValue = 1
    ValueMod = 65536
    MaxValue = 2
    ResetValues = {0, 1}
INVARIANTS
    TypeOK
    KernelConsistent
    TokensConserved
    NoTokenWhileWaiting
    Preemptive
