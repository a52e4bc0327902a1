SPECIFICATION Spec
CONSTANTS
    Near = {"a"}
    Far = {"f"}
    Servers = {"s", "t"}
    Routers = {"s"}
    RX_RING_SIZE = 3
    TX_RING_SIZE = 2
    ARP_CACHE_SIZE = 2
    MaxRx = 4
    MaxCommands = 2
INVARIANTS
    RxInOrder
    PingAnswered
    AddressGiven
PROPERTIES
    CommandEnds
CHECK_DEADLOCK FALSE
