SPECIFICATION Spec
CONSTANTS
    MaxTimer = 4
    MaxMessage = 2
INVARIANTS
    SimulatorExclusive
CHECK_DEADLOCK FALSE
