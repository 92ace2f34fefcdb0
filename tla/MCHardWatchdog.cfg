\* The UR5e profile (125 Hz, 8 ms) with the default watchdog configuration: one
\* millisecond of jitter leaves one millisecond of margin in the 10 ms window.
SPECIFICATION Spec
CONSTANTS
    IntervalUs = 8000
    Jitter = 1
    BootMax = 2
    Timeout = 10
    Check = 1
    Reassert = 10
    WdLate = 1
    ClockSteps <- Steps
    MaxSkew = 3
    MaxTrips = 2
    Horizon = 26
INVARIANT TypeOK
INVARIANT EstopInTime
INVARIANT ReleasedInTime
INVARIANT ReassertCadence
INVARIANT LatchFollowsTrip
PROPERTY NoUnintendedTrip
PROPERTY ReleaseOnlyWhenAlive
PROPERTY DeadControlIsStopped
PROPERTY HealthyControlIsReleased
PROPERTY ImplementsSwitch
