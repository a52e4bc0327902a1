SPECIFICATION usb_Spec
CONSTANTS
    Ports <- MCPorts
    Attached <- MCAttached
    CmdRing = 4
    EvtRing = 10
    XferRing = 20
    HidRingSize = 4
    MaxDev = 2
    MaxHid = 2
    MaxReports = 4
    MaxErrors = 1
    Lag = 1
INVARIANTS
    LinksKept
CHECK_DEADLOCK FALSE
