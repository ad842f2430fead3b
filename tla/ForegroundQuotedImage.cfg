CONSTANTS
    Names = 2
    MaxInputs = 2
SPECIFICATION ForegroundSpec
INVARIANTS
    InterruptedByUser
CHECK_DEADLOCK FALSE
