\* Three connections; a lost iterator ends the process.
SPECIFICATION Spec
CONSTANTS
    Fd = {4, 5, 6}
    Timeout = 2
    Period = 2
    MaxGap = 3
    MaxTime = 9
INVARIANTS
    MapsRight
    SilentDropped
PROPERTIES
    ScanRight
CHECK_DEADLOCK FALSE
