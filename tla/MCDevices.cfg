SPECIFICATION Spec
CONSTANTS
    Sectors <- MCSectors
    Words = {0, 1}
    MaxCount = 3
    Base = 2
    Nibble = 2
    QDepth = 2
    Bounce = 2
    DmaSects = 2
    VqMax = 2
    IdxMod = 3
    Ports <- MCPorts
    Attached <- MCAttached
    CmdRing = 4
    EvtRing = 10
    XferRing = 20
    HidRingSize = 4
    MaxDev = 2
    MaxHid = 2
    MaxReports = 2
    MaxErrors = 1
    Lag = 1
INVARIANTS
    UsbSound
PROPERTIES
    DriversKeepPromise
    CallReturns
CHECK_DEADLOCK FALSE
