CONSTANTS
    MaxSignal = 2
    MaxValue = 8

SPECIFICATION Spec

INVARIANT LeavesNoTrace

PROPERTIES
    ImplementsSemaphore
    TimedWaitReturns
