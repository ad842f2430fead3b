CONSTANTS
    Processes = {p1}
SPECIFICATION WorkbenchSpec
PROPERTIES
    InterruptStops
CHECK_DEADLOCK FALSE
