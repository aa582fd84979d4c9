SPECIFICATION Spec
CONSTANTS
    MaxTimer = 4
    MaxMessage = 2
INVARIANTS
    OneTimer
CHECK_DEADLOCK FALSE
