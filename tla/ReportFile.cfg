\* Two reports over three starts; any of the texts of the packet may be odd.
CONSTANTS
    Kinds = {"plain", "blank", "empty", "bracket", "NONE", "mac", "id", "ids"}
    MaxOdd = 1
    MaxWrites = 2
    MaxLives = 3
SPECIFICATION FileSpec
INVARIANTS
    SentIsWritten
    SentUnlessLost
CHECK_DEADLOCK FALSE
