\* The two 50 Hz profiles the repository ships (20 ms) with the default watchdog.
SPECIFICATION Spec
CONSTANTS
    IntervalUs = 20000
    Jitter = 0
    BootMax = 2
    Timeout = 10
    Check = 1
    Reassert = 10
    WdLate = 1
    ClockSteps = {}
    MaxSkew = 3
    MaxTrips = 2
    Horizon = 26
PROPERTY NoUnintendedTrip
