\* A command and its push.
SPECIFICATION FairSpec
CONSTANTS
    c1 = c1
    c2 = c2
    Conn = {c1, c2}
    Setups <- AllSetups
    MaxMessage = 2
    MaxControl = 1
PROPERTIES
    PushShowsNewState
CHECK_DEADLOCK FALSE
