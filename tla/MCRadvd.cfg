SPECIFICATION Spec
CONSTANTS
    MaxConfig = 3
    IfIndex = {1, 2, 3, 4}
    NoEvent = NoEvent
INVARIANTS
    TypeOK
    SendNeverAsserts
    ChainsKnown
    AllAdvertised
    StopSilences
CHECK_DEADLOCK FALSE
