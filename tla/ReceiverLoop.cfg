\* Datagrams and commands never pause, or stop at any time; every failure.
SPECIFICATION LoopFairSpec
CONSTANTS
    Packet <- Packets
    Command = {"c"}
    MaxDatagrams = 2
    CommandBatch = 2
    UdpQueue = 3
    CommandQueue = 2
    Timers = {"sweep", "flush"}
    IoFaults = {"poll", "udp"}
PROPERTIES
    NothingStarves
    ShutdownEnds
CHECK_DEADLOCK FALSE
