CONSTANTS
    OtherKey = {"POWER", "A"}
    LongTicks = 3
SPECIFICATION KeysFairSpec
INVARIANT
    PressAnswered
PROPERTIES
    LongWasHeld
    LongIsReported
