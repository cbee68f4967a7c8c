\* All ways of framing, a browser that looks on, a full table, slow readers.
SPECIFICATION FairSpec
CONSTANTS
    c1 = c1
    c2 = c2
    Conn = {c1, c2}
    Setups <- AllSetups
    MaxMessage = 2
    MaxControl = 1
INVARIANTS
    TypeOK
    StreamWellFormed
    CommandsAnswered
PROPERTIES
    ResultArrives
    StateReaches
CHECK_DEADLOCK FALSE
