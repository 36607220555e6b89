SPECIFICATION MasterFairSpec
CONSTANTS
    Conn = {k1, k2, k3}
    Role = {"voice", "upgrade"}
    Kind = {"WAKEUP", "GET_DEVICEINFO", "SYSTEM_SHUTDOWN", "FACTORY_RESET"}
    NumSlots = 2
    NumFds = 3
    MaxQueue = 1
INVARIANTS
    SlotsOpen
    StrayOnlyWhenGone
PROPERTY ClientServed
CHECK_DEADLOCK FALSE
