\* Buffers of four bytes that repeat one; periods, buffers and both circles
\* have lengths that do not divide each other.
CONSTANTS
    Period = 2
    Capacity = 7
    MaxPeriods = 6
    Step = 3
    Overlap = 1
    Pool = 2
    History = 5
SPECIFICATION CaptureFairSpec
INVARIANTS
    HistoryReads
    AllIsWritten
PROPERTIES
    ImplementsStream
    QueuedIsHeard
    StopReturns
CHECK_DEADLOCK FALSE
