\* The UR5e profile on a machine whose wall clock is set back by 12 ms.
SPECIFICATION Spec
CONSTANTS
    IntervalUs = 8000
    Jitter = 1
    BootMax = 2
    Timeout = 10
    Check = 1
    Reassert = 10
    WdLate = 1
    ClockSteps <- BackStep
    MaxSkew = 12
    MaxTrips = 2
    Horizon = 36
PROPERTY ReleaseOnlyOnBeat
