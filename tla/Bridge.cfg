\* Every length class of message, every failure; publishers that never pause.
SPECIFICATION FairSpec
CONSTANTS
    HeaderSize = 4
    MaxU16 = 3
    MaxU32 = 7
    NSources = 2
    Budget = 2
    Hwm = 1
    SeqSpace = 2
    Message <- Lengths
    Setups <- SomeFaults
INVARIANTS
    WireIsSound
PROPERTIES
    EverySourceServed
    ShutdownEnds
CHECK_DEADLOCK FALSE
