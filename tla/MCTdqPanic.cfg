CONSTANTS
    NULL = NULL
    IdleThread = IdleThread
    Threads = {a, b, c}
    Root = {}
    NoLoad = {}
    Fifo = {}
    RQ_NQS = 1
    RQ_PPQ = 4
    Word = 8
    Prios = {1}
    PRI_MIN_BATCH = 1
    PRI_MAX_BATCH = 1
    PRI_MIN_IDLE = 2
    PRI_MAX_IDLE = 2
    PRI_MAX_INTERACT = 0
    preempt_thresh = 0
    NiceValues <- MCNice
    NICE_BASE = 2
    RandMax = 2
    MaxCounted = 3
    sched_slice = 1
    SLICE_MIN_DIVISOR = 1
SPECIFICATION Spec
INVARIANTS
    NoPanic
CHECK_DEADLOCK FALSE
