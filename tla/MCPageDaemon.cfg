CONSTANTS
    Threads = {a, b}
    FirstThread = a
    MaxDomains = 2
    MaxPages = 3
    MaxAllocs = 1
    MaxDeficit = 1
    v_interrupt_free_min = 0
    v_pageout_free_min = 1
    v_free_reserved = 1
    v_free_min = 2
    v_free_target = 3
    vm_pageout_wakeup_thresh = 2
    vm_pageout_oom_seq = 2
    Classes = {"NORMAL", "SYSTEM"}
    Posters = {x, y}
    MaxTarget = 3
    BackgroundTarget = 2
    BackgroundRate = 1
    LaunderCycles = 3
SPECIFICATION MCSpec
INVARIANTS
    WaitersHeard
    VotesExact
    RequestSeen
PROPERTIES
    KillNeedsQuorum
    ShortfallKept
    WaiterServed
    ShortageLaundered
