----------------------------- MODULE SafetyChain -----------------------------
(***************************************************************************)
(* The whole chain that stops the robot: the control loop (rt-control      *)
(* thread), the hard watchdog (its own thread), an operator on the estop   *)
(* topic, and the HAL task of the main runtime, joined by the bus.  Time   *)
(* is abstracted: HardWatchdog shows that a heartbeat grows stale only     *)
(* when the loop is held up, so that is when it may here.                  *)
(***************************************************************************)
EXTENDS Fieldbus

CONSTANTS MaxOps,     \* bound on what the operator publishes
          MaxStalls   \* bound on the times the control loop is held up

ASSUME ChainAssumption == MaxOps \in Nat /\ MaxStalls \in Nat

VARIABLES
    rt,        \* control loop: "tick", "put" (command not yet accepted), "stalled", "dead"
    stalls,    \* times it was held up
    stale,     \* the heartbeat is older than the watchdog's timeout
    wd,        \* monitor_loop: "check", or the put it is in
    tripped,   \* HardWatchdog::tripped
    ops,       \* publications of the operator so far
    held,      \* history: the operator's last word was to engage
    override   \* history: the operator spoke after the watchdog last did

rt_vars == <<rt, stalls, stale>>
wd_vars == <<wd, tripped>>
op_vars == <<ops, held>>
vars == <<fieldbus_vars, rt_vars, wd_vars, op_vars, override>>

Init == /\ FieldbusInit
        /\ rt = "tick" /\ stalls = 0 /\ stale = FALSE
        /\ wd = "check" /\ tripped = FALSE
        /\ ops = 0 /\ held = FALSE /\ override = FALSE

-----------------------------------------------------------------------------
(* RealTimeControlLoop::run.                                               *)

\* A tick: the command is taken, and the heartbeat beaten before the put.
RtFrame == /\ rt = "tick"
           /\ stale' = FALSE
           /\ rt' = "put"
           /\ UNCHANGED <<fieldbus_vars, stalls, wd_vars, op_vars, override>>

RtPut == /\ rt = "put"
         /\ PutCommand("move")
         /\ rt' = "tick"
         /\ UNCHANGED <<estopq, hal_vars, link_vars, drive, stalls, stale, wd_vars,
                        op_vars, override>>

RtStall == /\ rt = "tick"
           /\ stalls < MaxStalls
           /\ stalls' = stalls + 1
           /\ rt' \in {"stalled", "dead"}
           /\ UNCHANGED <<fieldbus_vars, stale, wd_vars, op_vars, override>>

RtResume == /\ rt = "stalled"
            /\ rt' = "tick"
            /\ UNCHANGED <<fieldbus_vars, stalls, stale, wd_vars, op_vars, override>>

\* No beat can come: the loop is held up, or its put waits for a full queue.
RtSilent == rt \in {"stalled", "dead"} \/ (rt = "put" /\ Len(cmdq) = QCap)

Age == /\ RtSilent
       /\ ~stale
       /\ stale' = TRUE
       /\ UNCHANGED <<fieldbus_vars, rt, stalls, wd_vars, op_vars, override>>

-----------------------------------------------------------------------------
(* HardWatchdog::monitor_loop; main.rs never calls shutdown().             *)

WdTrip == /\ wd = "check" /\ stale /\ ~tripped
          /\ tripped' = TRUE
          /\ wd' = "zeros"
          /\ UNCHANGED <<fieldbus_vars, rt_vars, op_vars, override>>

WdPutZeros == /\ wd = "zeros"
              /\ PutCommand("zero")
              /\ wd' = "estop"
              /\ UNCHANGED <<estopq, hal_vars, link_vars, drive, rt_vars, tripped,
                             op_vars, override>>

WdPutEstop == /\ wd = "estop"
              /\ PutEstop(TRUE)
              /\ wd' = "check"
              /\ override' = FALSE
              /\ UNCHANGED <<cmdq, hal_vars, link_vars, drive, rt_vars, tripped, op_vars>>

\* reassert_interval_ms has elapsed, the heartbeat still stale.
WdReassert == /\ wd = "check" /\ stale /\ tripped
              /\ wd' = "reassert"
              /\ UNCHANGED <<fieldbus_vars, rt_vars, tripped, op_vars, override>>

WdPutReassert == /\ wd = "reassert"
                 /\ PutCommand("zero")
                 /\ wd' = "check"
                 /\ UNCHANGED <<estopq, hal_vars, link_vars, drive, rt_vars, tripped,
                                op_vars, override>>

WdRestored == /\ wd = "check" /\ ~stale /\ tripped
              /\ tripped' = FALSE
              /\ wd' = "release"
              /\ UNCHANGED <<fieldbus_vars, rt_vars, op_vars, override>>

\* Mutant: the release is not published.
WdReleaseSilently == /\ wd = "release"
                     /\ wd' = "check"
                     /\ override' = FALSE
                     /\ UNCHANGED <<fieldbus_vars, rt_vars, tripped, op_vars>>

WdPutRelease == /\ wd = "release"
                /\ PutEstop(FALSE)
                /\ wd' = "check"
                /\ override' = FALSE
                /\ UNCHANGED <<cmdq, hal_vars, link_vars, drive, rt_vars, tripped, op_vars>>

WdLook == WdTrip \/ WdReassert \/ WdRestored
WdPut == WdPutZeros \/ WdPutEstop \/ WdPutReassert \/ WdPutRelease
WdStep == WdLook \/ WdPut

-----------------------------------------------------------------------------
\* An operator panel on alpha/cmd/<id>/estop, the same topic the watchdog uses.
OperatorPut == \E b \in BOOLEAN :
    /\ ops < MaxOps
    /\ PutEstop(b)
    /\ ops' = ops + 1
    /\ held' = b
    /\ override' = TRUE
    /\ UNCHANGED <<cmdq, hal_vars, link_vars, drive, rt_vars, wd_vars>>

Environment == /\ LinkFail \/ LinkRestore
               /\ UNCHANGED <<rt_vars, wd_vars, op_vars, override>>

Hal(A) == A /\ UNCHANGED <<rt_vars, wd_vars, op_vars, override>>

Next == \/ Hal(HalStep)
        \/ RtFrame \/ RtPut \/ RtStall \/ RtResume \/ Age
        \/ WdStep
        \/ OperatorPut
        \/ Environment

(***************************************************************************)
(* Each thread runs when it can.  select! polls its branches in random     *)
(* order, so a queue that is ready again and again is read: strong         *)
(* fairness of the two receptions.  A full queue admits its waiting        *)
(* publishers in turn: strong fairness of the puts.  A silent heartbeat    *)
(* does age.  Nobody promises that a stall ends, that the link comes back, *)
(* that the peer accepts bytes or that the operator speaks.                *)
(***************************************************************************)
Fairness == /\ WF_vars(Hal(HalOwnStep))
            /\ SF_vars(Hal(RecvCommand))
            /\ SF_vars(Hal(RecvEstop))
            /\ WF_vars(RtFrame)
            /\ SF_vars(RtPut)
            /\ WF_vars(Age)
            /\ WF_vars(WdLook)
            /\ SF_vars(WdPut)

Spec == Init /\ [][Next]_vars /\ Fairness

-----------------------------------------------------------------------------
TypeOK == /\ FieldbusTypeOK
          /\ rt \in {"tick", "put", "stalled", "dead"}
          /\ stalls \in 0..MaxStalls /\ stale \in BOOLEAN
          /\ wd \in {"check", "zeros", "estop", "reassert", "release"}
          /\ tripped \in BOOLEAN
          /\ ops \in 0..MaxOps /\ held \in BOOLEAN /\ override \in BOOLEAN

\* What the HAL's latch will be once it has read what is on the estop topic.
LatchToCome == IF estopq = <<>> THEN estop_active ELSE estopq[Len(estopq)]

(***************************************************************************)
(* A trip is a latch: the last word on the estop topic is the operator's   *)
(* own if he spoke after the watchdog, and else the one `tripped' stands   *)
(* for, less the put the watchdog still owes, wherever the HAL is in its   *)
(* reconnections and however the puts wait: no engagement or release is    *)
(* lost, doubled or overtaken on the way (watchdog_timer.rs:196-262,       *)
(* hardware_abstraction.rs:228-262).  That a release of the watchdog       *)
(* overrules an operator who engaged before it is what the code does.      *)
(***************************************************************************)
TripIsLatched ==
    LatchToCome = IF override THEN held
                  ELSE (tripped /\ wd \notin {"zeros", "estop"}) \/ wd = "release"

HalServing == hal \notin {"dead", "wedged"}

(***************************************************************************)
(* The point of the whole chain: a robot whose control loop died stops     *)
(* moving, provided the link ends up staying up, the frame of the estop is *)
(* not lost on it and the HAL task survives.                               *)
(***************************************************************************)
DeadControlStopsRobot ==
    <>[](link = "up" /\ ~lost /\ HalServing) => (rt = "dead" ~> drive # "move")

\* A control loop that keeps beating gets the robot back, unless the operator
\* holds it: no release is lost on the way.
ControlGetsRobotBack ==
    <>[](rt \in {"tick", "put"} /\ ~stale /\ link = "up" /\ HalServing)
        => []<>(~estop_active \/ held \/ override)

(***************************************************************************)
(* "Keep forcing the physical registers to zero until the control comes    *)
(* back alive" (watchdog_timer.rs:212-213): while the watchdog stays       *)
(* tripped, a robot that can be reached stops.                             *)
(***************************************************************************)
ZerosKeepForcing ==
    <>[](tripped /\ link = "up" /\ HalServing) => []<>(drive # "move")

(***************************************************************************)
(* The watchdog "stays alive even if the robot's main runtime is stuck in  *)
(* an infinite loop" (watchdog_timer.rs:10-12): an intervention it starts  *)
(* gets as far as publishing the estop.                                    *)
(***************************************************************************)
WatchdogStaysAlive == wd = "zeros" ~> wd = "check"
=============================================================================
