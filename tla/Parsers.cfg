\* Every header with small fields, the files and arguments of both programs, short JSON texts and telemetry.
SPECIFICATION Spec
CONSTANTS
    HeaderSize = 44
    MaxU16 = 65535
    MaxU32 = 2147483647
    MaxUdpPayload = 65507
    MaxDepth = 2
    Headers <- AllHeaders
    Starts <- AllStarts
    Texts <- AllTexts
    Messages <- AllMessages
INVARIANTS
    VerdictFollowsRules
    AcceptedIsUsable
    LastAssignmentWins
    AcceptsGrammar
    RowsTellWhatWasPublished
CHECK_DEADLOCK FALSE
