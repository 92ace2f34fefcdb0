\* The main runtime never comes back from drain_frames.
SPECIFICATION Spec
CONSTANTS
    Transport = "TCP"
    QCap = 1
    MaxFaults = 0
    BusMayFail = FALSE
    MayWedge = TRUE
    MaxOps = 0
    MaxStalls = 1
PROPERTY WatchdogStaysAlive
CHECK_DEADLOCK FALSE
