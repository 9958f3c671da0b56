CONSTANTS
    Names = {f, g}
    LongNames = {toolong}
    NoName = NoName
    Cells <- MCBlank
    ZeroCell = "a"
    StackCell = "a"
    NUM_BLOCKS = 6
    USABLE_SPACE = 2
    MAX_REQUEST_SIZE = 6
    Requests <- MCBlankRequests
    Sizes = {0, 6}
    Lines <- MCLines
    MaxPipes = 2
    PipeSize = 2
    MaxOutput = 2
    Word = 32
    TickWord = 32
    Unit = 2
    hz = 2
    tickincr = 2
    SCHED_TICK_SECS = 2
    SCHED_SLP_RUN_MAX = 6
    SCHED_SLP_RUN_FORK = 2
    SCHED_INTERACT_HALF = 3
    sched_interact = 3
    PRIO_MAX = 1
    PRI_MIN_TIMESHARE = 4
    PRI_MAX_TIMESHARE = 12
    TickGap = 1
    Naps <- MCNaps
    Pris <- MCPris
    Timeshare <- MCTimeshare
    PRI_MAX = 9
    MaxNest = 3
SPECIFICATION MCSpec
INVARIANTS
    OneEntryPerName
    NoChildLeft
    InteractTypeOK
    HistoryKept
    LendingExact
    PreemptionsMade
PROPERTIES
    EntriesStay
    LineEnds
    ReadersEnd
    LentKept
CHECK_DEADLOCK FALSE
