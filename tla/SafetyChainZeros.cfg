\* The frame of the estop is lost on the link; the link comes back.
SPECIFICATION Spec
CONSTANTS
    Transport = "TCP"
    QCap = 1
    MaxFaults = 1
    BusMayFail = FALSE
    MayWedge = FALSE
    MaxOps = 0
    MaxStalls = 1
PROPERTY ZerosKeepForcing
CHECK_DEADLOCK FALSE
