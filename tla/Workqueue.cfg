SPECIFICATION Spec
CONSTANTS
    worker = worker
    a = a
    b = b
    idle = idle
    q = q
    None = None
    Threads = {worker, a, b, idle}
    Idle = idle
    WaitLists = {q}
    Objects = {q}
    RT_THREAD_PRIORITY_MAX = 3
    InitPrio <- MCInitPrio
    BootReady <- TwoClients
    Users = {a, b}
    Detachable = {}
    Queue = q
    Worker = worker
    Clients = {a, b}
    Works = {"w", "v"}
    IsrWorks = {"v"}
INVARIANTS
    TypeOK
    WorkOnce
    AckExact

    
