\* A flush fails while recording.
SPECIFICATION Spec
CONSTANTS
    HeaderSize = 4
    MaxU16 = 3
    MaxU32 = 7
    Packet <- AllPackets
    Command = {"on", "off", "toggle", "flush", "other"}
    MaxDatagrams = 1
    CommandBatch = 1
    UdpQueue = 1
    CommandQueue = 1
    Timers = {"sweep", "flush"}
    IoFaults = {"poll", "udp", "commands"}
    MaxPending = 2
    Timeout = 1
    MaxMessageLength = 3
    CompactFactor = 1
    CompactSlack = 1
    MaxTime = 1
    MaxOpened = 4
    ResyncJump = 2
    SyncOnFlush = FALSE
    Setups <- OnlyRecording
INVARIANTS
    FailureDisablesRecording
CHECK_DEADLOCK FALSE
