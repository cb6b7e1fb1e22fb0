CONSTANTS
    MaxSize = 4
    MAX_BLOCK_SIZE = 2
    N = 7
    MaxBlocks = 6
    Raw = Raw

SPECIFICATION Spec
CHECK_DEADLOCK FALSE

INVARIANTS
    ElementLifetimes
    PeekStays

PROPERTY ImplementsFifo
