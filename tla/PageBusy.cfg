CONSTANTS
    Threads = {a, b, c}
    NoThread = NoThread
SPECIFICATION Spec
INVARIANTS
    WordSound
    GrabNeverPanics
PROPERTIES
    SleeperWoken
