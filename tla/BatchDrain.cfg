CONSTANTS
    NULL = NULL
    IdleThread = IdleThread
    Threads = {a, b}
    Root = {a, b}
    NoLoad = {}
    Fifo = {}
    RQ_NQS = 4
    RQ_PPQ = 2
    Word = 64
    Prios = {1, 3}
    PRI_MIN_BATCH = 2
    PRI_MAX_BATCH = 5
    PRI_MIN_IDLE = 6
    PRI_MAX_IDLE = 7
    PRI_MAX_INTERACT = 1
    preempt_thresh = 0
    NiceValues = {0}
    NICE_BASE = 2
    RandMax = 0
    MaxCounted = 3
    sched_slice = 1
    SLICE_MIN_DIVISOR = 1
SPECIFICATION BatchSpec
PROPERTIES
    SlotDrained
