CONSTANTS
    PackageSize = 4
    ResumeTimes = 3
    MaxPage = 5
    MaxSurplus = 3
SPECIFICATION Spec
INVARIANTS
    InOrder
    SuccessHasSize
CHECK_DEADLOCK FALSE
