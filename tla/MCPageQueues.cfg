CONSTANTS
    Pages = {p1, p2}
    Objects = {o1, o2}
    FirstPage = p1
    FirstObject = o1
    NoPage = NoPage
    NoObject = NoObject
    NoOne = NoOne
    Vnode = {o1}
    Ops = {"alloc", "activate", "deactivate", "noreuse", "launder", "requeue", "wire", "hold", "busy", "map", "advise", "free", "rename"}
SPECIFICATION MCSpec
INVARIANTS
    QueuesSound
    ScanOwnsItsPage
    NothingForgotten
    NeverPanics
PROPERTIES
    FreedWhenSaved
