CONSTANTS
    Names = {f, g}
    LongNames = {}
    NoName = NoName
    Cells <- MCBlank
    ZeroCell = "a"
    StackCell = "a"
    NUM_BLOCKS = 4
    USABLE_SPACE = 2
    MAX_REQUEST_SIZE = 6
    Requests <- MCBlankRequests
    Sizes = {0}
SPECIFICATION UnlinkSpec
INVARIANT
    ContinuationsUnnamed
