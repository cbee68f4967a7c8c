\* A network in order with restarts of the bridge, one that loses, repeats and reorders, and single datagrams in any order.
SPECIFICATION RelaySpec
CONSTANTS
    HeaderSize = 4
    MaxU16 = 3
    MaxU32 = 7
    NSources = 1
    Budget = 1
    Hwm = 1
    SeqSpace = 8
    Message <- Messages
    Setups <- Networks
    MaxPending = 1
    Timeout = 1
    MaxMessageLength = 4
    CompactFactor = 1
    CompactSlack = 1
    MaxTime = 1
    MaxOpened = 4
    ResyncJump = 2
INVARIANTS
    RelayTypeOK
    LossesShow
    OrderlyNetwork
PROPERTIES
    ImplementsLossyRelay
CHECK_DEADLOCK FALSE
