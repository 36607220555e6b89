CONSTANTS
    Records = 3
    MaxCommands = 7
    MaxSpurious = 2
SPECIFICATION Spec
INVARIANTS
    InsideBuffer
    SignalledHasRecord
PROPERTY
    ImplementsQueue
CHECK_DEADLOCK FALSE
