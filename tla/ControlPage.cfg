\* Browsers, the backend and a receiver that comes and goes.
SPECIFICATION FairSpec
CONSTANTS
    p1 = p1
    p2 = p2
    Page = {p1, p2}
    Setups <- AllSetups
    MaxBacklog = 0
INVARIANTS
    TypeOK
PROPERTIES
    WaitEndsByAnswer
    WaitsEnd
    Settles
CHECK_DEADLOCK FALSE
