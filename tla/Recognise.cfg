\* A range lasts three detections at least; the history is shorter than the
\* sound, two ranges fit the queue, and the third and later ones are optional.
CONSTANTS
    Step = 1
    Overlap = 1
    History = 4
    Capacity = 2
    Distance = 2
    Hangover = 2
    Extra = 1
    MinSize = 3
    MinValid = 1
    FirstIdx = 2
    MaxEvents = 8
SPECIFICATION FairSpec
INVARIANTS
    AssertsHold
    OutcomeIsTrue
    QuitLeavesOnlyMissed
PROPERTY
    StopHeard
CHECK_DEADLOCK FALSE
