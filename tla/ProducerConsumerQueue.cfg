CONSTANTS
    Size = 4
    N = 9
    Raw = Raw
    Moved = Moved

SPECIFICATION Spec
CHECK_DEADLOCK FALSE

INVARIANTS
    SlotLifetimes
    FrontStays
    GuessBounds
    NothingLeaks

PROPERTY ImplementsFifo
