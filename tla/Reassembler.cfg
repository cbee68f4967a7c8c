\* Three messages and a restarted one compete for two entries; datagrams may be repeated.
SPECIFICATION Spec
CONSTANTS
    Fragment <- Fragments
    MaxPending = 2
    Timeout = 2
    MaxMessageLength = 4
    CompactFactor = 1
    CompactSlack = 1
    MaxTime = 4
    MaxOpened = 4
INVARIANTS
    TypeOK
    PendingBounded
    OrderCoversPending
    Conservation
    ArrivalOrder
    PendingSound
    DeliveredWhole
PROPERTIES
    ExpiresOnlyOverdue
    OverdueOnlyBehindReopened
    EvictsOneOldest
