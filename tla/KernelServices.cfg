SPECIFICATION Spec
CONSTANTS
    high = high
    a = a
    idle = idle
    b1 = b1
    q1 = q1
    e1 = e1
    p1 = p1
    c1 = c1
    d1 = d1
    None = None
    Threads = {high, a, idle}
    Idle = idle
    WaitLists <- KernelLists
    Objects <- KernelObjects
    RT_THREAD_PRIORITY_MAX = 3
    InitPrio <- SmallPrio
    BootReady <- SmallReady
    Users = {high, a}
    Detachable = {b1, q1, e1, p1}
    Applications = {{b1}, {q1}, {d1}, {e1}, {p1}, {c1}}
    Sleepers = {high}
    Mailboxes = {b1}
    Mails = {"x", "y"}
    MbSize = 2
    MbFlag = "PRIO"
    MbTimes = {"zero", "finite"}
    Queues = {q1}
    Messages = {"x", "y"}
    MqSize = 2
    MqFlag = "FIFO"
    MqTimes = {"zero", "finite"}
    Events = {e1}
    Bits = {1, 2}
    EvSends = {{1}, {2}}
    EvAsks <- TwoBitAsks
    EvFlag = "FIFO"
    EvTimes = {"zero", "finite"}
    Pools = {p1}
    Blocks = 2
    MpTimes = {"zero", "finite", "forever"}
    MaxCount = 3
    Completions = {c1}
    CpWaiter = a
    CpTimes = {"zero", "finite"}
    DataQueues = {d1}
    Data = {"x", "y"}
    DqSize = 2
    DqLwm = 1
    IndexMod = 65536
    DqStart = 0
    DqMaxPush = 3
    DqTimes = {"zero", "finite"}
INVARIANTS
    TypeOK
    KernelConsistent
    NoMailWhileWaiting
    SlotsAccounted
    NoMessageWhileWaiting
    NoDataWhileWaiting
    NoSatisfiedWaiter
    BitsConserved
    NoBlockWhileWaiting
    CompletionSeen
PROPERTIES
    DeliversInOrder
