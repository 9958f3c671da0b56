CONSTANTS
    Names = {f, g}
    LongNames = {}
    NoName = NoName
    Cells <- MCCells
    ZeroCell = zero
    StackCell = stack
    NUM_BLOCKS = 7
    USABLE_SPACE = 2
    MAX_REQUEST_SIZE = 6
    Requests <- MCRequests
    Sizes = {0}
SPECIFICATION MCSpec
INVARIANTS
    StoreSound
PROPERTIES
    Implements
