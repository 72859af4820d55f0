SPECIFICATION Spec
CONSTANTS
    mgr = mgr
    w1 = w1
    w2 = w2
    idle = idle
    None = None
    Threads = {mgr, w1, w2, idle}
    Objects = {mgr, w1, w2, idle}
    Idle = idle
    WaitLists = {}
    RT_THREAD_PRIORITY_MAX = 3
    InitPrio <- AbovePrio
    BootReady <- AboveReady
    Users = {mgr, w1, w2}
    Detachable = {}
    Managers = {mgr}
    Workers = {w1, w2}
    Sleepers = {mgr}
    Static = {w2}
    Operations = {"startup", "suspend", "resume", "priority", "delete"}
    NewPrios = {1, 2}
    MaxLock = 2
INVARIANTS
    TypeOK
    QueuesSound
    FreedIsUnlinked
PROPERTIES
    ClosedStaysClosed
