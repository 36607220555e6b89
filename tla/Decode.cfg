\* Blocks of six nibbles and two of correction, long messages in blocks of three.
CONSTANTS
    BlockSize = 6
    RsSize = 2
    StartMiss = 2
    MaxSignals = 128
    MaxChars = 80
    StringSize = 100
    MaxTransBlock = 3
    MaxPlays = 2
    IT_WIFI = 0
    IT_SSID_WIFI = 1
    IT_PHONE = 2
    IT_STRING = 3
    Infos <- MCInfos
    CheckSum <- MCCheckSum
    Parity <- MCParity
SPECIFICATION Spec
INVARIANT InfoArrives
CHECK_DEADLOCK FALSE
