CONSTANTS
    c1 = c1
    c2 = c2
    t1 = t1
    t2 = t2
    t3 = t3
    Conn <- MCConn
    Thread <- MCThread
    Uses <- MCUses
    HeadLen = 2
    Size = {2}
    Capacity = 5
    MaxPackets <- MCMaxPackets
SPECIFICATION FairSpec
INVARIANT TakenWhole
PROPERTY SentIsHandled
CHECK_DEADLOCK FALSE
