CONSTANTS
    MaxCpus = 2
    Threads = {a, b, h}
    Homebound = h
    Binders = {h}
    NoCpu = 0
    Idle = Idle
    steal_thresh = 2
    CpuSets = {{1}, {1, 2}}
SYMMETRY Equals
SPECIFICATION MCSpec
INVARIANTS
    LoadExact
    LocksSound
    SleeperTold
PROPERTIES
    MovesAllowed
