SPECIFICATION Spec
CONSTANTS
    h1 = h1
    h2 = h2
    s1 = s1
    s2 = s2
    c = c
    tt = tt
    None = None
    Timers = {h1, h2, s1, s2}
    SoftTimers = {s1, s2}
    Callers = {c}
    Urgent = {}
    TimerThread = tt
    TickMod = 10
    RT_TIMER_SKIP_LIST_LEVEL = 1
    InitTicks <- OneOrTwo
    Reach <- SoftOther
    Modes <- FirstPeriodic
    ModeChange = {}
    Uses = {{s1, s2}}
    MaxLag = 1
PROPERTIES
    StoppedIsSilent
