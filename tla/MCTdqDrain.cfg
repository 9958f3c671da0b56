CONSTANTS
    NULL = NULL
    IdleThread = IdleThread
    Threads = {a, b, c}
    Root = {a, b}
    NoLoad = {b}
    Fifo = {}
    RQ_NQS = 4
    RQ_PPQ = 2
    Word = 4
    Prios = {5}
    PRI_MIN_BATCH = 2
    PRI_MAX_BATCH = 5
    PRI_MIN_IDLE = 6
    PRI_MAX_IDLE = 7
    PRI_MAX_INTERACT = 1
    preempt_thresh = 1
    NiceValues <- MCNice
    NICE_BASE = 2
    RandMax = 0
    MaxCounted = 1
    sched_slice = 1
    SLICE_MIN_DIVISOR = 1
SPECIFICATION Spec
INVARIANTS
    OneSlotApart
    TdqSound
PROPERTIES
    DrainingSlotClosed
CHECK_DEADLOCK FALSE
