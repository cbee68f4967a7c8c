SPECIFICATION Spec
CONSTANTS
    Fragment <- Fragments
    MaxPending = 2
    Timeout = 2
    MaxMessageLength = 4
    CompactFactor = 1
    CompactSlack = 1
    MaxTime = 4
    MaxOpened = 4
PROPERTIES
    SweepDiscardsOverdue
