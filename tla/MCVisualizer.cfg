SPECIFICATION FairSpec
CONSTANTS
    MaxTimer = 4
    MaxMessage = 2
INVARIANTS
    TypeOK
    LockExcludes
    MessagesKept
    PlayingHasTimer
PROPERTIES
    QuitEnds
    PlayRuns
CHECK_DEADLOCK FALSE
