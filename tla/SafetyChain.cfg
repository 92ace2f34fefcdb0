\* Queues of one, so that every publisher really waits; a link failure, a stall
\* or death of the control loop and two publications of the operator: each can
\* happen at any step of the others.
SPECIFICATION Spec
CONSTANTS
    Transport = "TCP"
    QCap = 1
    MaxFaults = 1
    BusMayFail = TRUE
    MayWedge = TRUE
    MaxOps = 2
    MaxStalls = 1
INVARIANT TypeOK
INVARIANT EstopHolds
INVARIANT StatusTellsLatch
INVARIANT TripIsLatched
PROPERTY DeadControlStopsRobot
PROPERTY ControlGetsRobotBack
CHECK_DEADLOCK FALSE
