---------------------------- MODULE HardWatchdog ----------------------------
(***************************************************************************)
(* The hard watchdog of io_bridge/watchdog_timer.rs against the control    *)
(* loop that beats its heartbeat (diagnostics/frequency_enforcer.rs), in   *)
(* real time.  Time is counted in the whole milliseconds now_ms() counts;  *)
(* what happens within one millisecond interleaves freely, so the ages     *)
(* compared here are exactly the truncated ones the code compares.         *)
(*                                                                         *)
(* The heartbeat is dated with the wall clock (SystemTime), the timers of  *)
(* both threads run on the monotonic one: `silence' is the true time since *)
(* the last beat and fwd/back are what the wall clock was stepped by since *)
(* then, so that the age the watchdog reads is silence + fwd - back.       *)
(***************************************************************************)
EXTENDS Integers

CONSTANTS IntervalUs,   \* FrequencyEnforcer::expected_interval_us
          Jitter,       \* a control loop that is not stalled ticks at most this late
          BootMax,      \* both threads are up within this long of Heartbeat::new
          Timeout,      \* WatchdogConfig::heartbeat_timeout_ms
          Check,        \* WatchdogConfig::check_interval_ms
          Reassert,     \* WatchdogConfig::reassert_interval_ms
          WdLate,       \* the watchdog thread wakes from its sleep at most this late
          ClockSteps,   \* steps an administrator or NTP may make the wall clock take
          MaxSkew,      \* bound on the steps taken in each direction between two beats
          MaxTrips,     \* bound on the interventions of a behaviour
          Horizon       \* ages are not told apart beyond this

ASSUME WatchdogAssumption ==
    /\ IntervalUs \in Nat /\ Jitter \in Nat /\ BootMax \in Nat /\ Timeout \in Nat
    /\ WdLate \in Nat /\ MaxSkew \in Nat /\ MaxTrips \in Nat
    /\ Check \in Nat \ {0} /\ Reassert \in Nat \ {0}
    /\ ClockSteps \subseteq Int
    /\ Horizon \in Nat
    /\ Horizon > Timeout + Check + Reassert + WdLate + MaxSkew
    /\ Horizon > Jitter

\* RealTimeControlLoop::run: (expected_interval_us / 1000).max(1).
Period == IF IntervalUs \div 1000 > 1 THEN IntervalUs \div 1000 ELSE 1

\* A tokio interval that is polled more than this late counts the tick as missed.
TokioSlack == 5

VARIABLES
    \* the heartbeat
    silence, fwd, back,
    \* the control loop: its state and the time to its next tick (late if negative)
    rt, due,
    \* HardWatchdog: where the loop is, time to the end of its sleep, its fields
    wd, wake, tripped, trips, stop,
    since_force,  \* last_force_at.elapsed()
    \* what it last published on the estop and status topics
    estop, reported,
    \* history: something other than healthy ticking happened since the last beat
    disturbed

hb_vars == <<silence, fwd, back>>
rt_vars == <<rt, due>>
wd_vars == <<wd, wake, tripped, trips, since_force, estop, reported>>
vars == <<hb_vars, rt_vars, wd_vars, stop, disturbed>>

Init == /\ silence = 0 /\ fwd = 0 /\ back = 0
        /\ rt = "run" /\ due \in 0..BootMax
        /\ wd = "sleep" /\ wake \in 0..BootMax
        /\ tripped = FALSE /\ trips = 0 /\ stop = FALSE
        /\ since_force = 0
        /\ estop = FALSE /\ reported = 0
        /\ disturbed = FALSE

-----------------------------------------------------------------------------
(* Heartbeat and clocks.                                                   *)

AtMost(n, cap) == IF n < cap THEN n ELSE cap

\* Heartbeat::age_ms: now_ms().saturating_sub(last_ping_ms).
Age == LET a == silence + fwd - back IN IF a < 0 THEN 0 ELSE a

\* One millisecond passes.  No thread sleeps past its deadline by more than
\* the scheduler may delay it, and a put takes no time here (what happens when
\* one blocks is SafetyChain's subject).
Tick == /\ wd \in {"sleep", "stopped"}
        /\ wd = "sleep" => wake > -WdLate
        /\ rt = "run" => due > -Jitter
        /\ silence' = AtMost(silence + 1, Horizon)
        /\ since_force' = AtMost(since_force + 1, Horizon)
        /\ due' = IF due > -Horizon THEN due - 1 ELSE due
        /\ wake' = IF wd = "sleep" THEN wake - 1 ELSE wake
        /\ UNCHANGED <<fwd, back, rt, wd, tripped, trips, stop, estop, reported,
                       disturbed>>

\* The wall clock is set; tokio's timers do not notice.
ClockStep == \E d \in ClockSteps :
    /\ trips < MaxTrips
    /\ IF d > 0
       THEN /\ fwd + d <= MaxSkew
            /\ fwd' = fwd + d
            /\ disturbed' = TRUE
            /\ UNCHANGED back
       ELSE /\ back - d <= MaxSkew
            /\ back' = back - d
            /\ UNCHANGED <<fwd, disturbed>>
    /\ UNCHANGED <<silence, rt_vars, wd_vars, stop>>

-----------------------------------------------------------------------------
(* The control loop, as far as the watchdog sees it.                       *)

\* Mutant: one tick in two is skipped.
FrameSkippingOne == /\ rt = "run"
                    /\ due <= 0
                    /\ due' = due + 2 * Period
                    /\ silence' = 0 /\ fwd' = 0 /\ back' = 0
                    /\ disturbed' = FALSE
                    /\ UNCHANGED <<rt, wd_vars, stop>>

\* Mutant: the frame forgets heartbeat.ping().
FrameWithoutPing == /\ rt = "run"
                    /\ due <= 0
                    /\ due' = IF due < -TokioSlack THEN Period ELSE due + Period
                    /\ disturbed' = FALSE
                    /\ UNCHANGED <<hb_vars, rt, wd_vars, stop>>

\* One frame: the tick fires and the heartbeat is stored.  A missed tick
\* (MissedTickBehavior::Delay) restarts the schedule, a late one keeps it.
Frame == /\ rt = "run"
         /\ due <= 0
         /\ due' = IF due < -TokioSlack THEN Period ELSE due + Period
         /\ silence' = 0 /\ fwd' = 0 /\ back' = 0
         /\ disturbed' = FALSE
         /\ UNCHANGED <<rt, wd_vars, stop>>

\* The loop is held up (its put blocks, its core is taken), resumes, or ends.
Stall == /\ rt = "run"
         /\ trips < MaxTrips
         /\ rt' = "stalled"
         /\ disturbed' = TRUE
         /\ UNCHANGED <<hb_vars, due, wd_vars, stop>>

Resume == /\ rt = "stalled"
          /\ rt' = "run"
          /\ UNCHANGED <<hb_vars, due, wd_vars, stop, disturbed>>

Die == /\ rt \in {"run", "stalled"}
       /\ trips < MaxTrips
       /\ rt' = "dead"
       /\ disturbed' = TRUE
       /\ UNCHANGED <<hb_vars, due, wd_vars, stop>>

-----------------------------------------------------------------------------
(* HardWatchdog::monitor_loop.                                             *)

\* shutdown(), from another thread.
Shutdown == /\ ~stop
            /\ stop' = TRUE
            /\ UNCHANGED <<hb_vars, rt_vars, wd_vars, disturbed>>

Awake == wd = "sleep" /\ wake <= 0

\* Mutant: the thread sleeps for the wrong interval of its configuration.
SleepTimeout == wd' = "sleep" /\ wake' = Timeout

\* Back to sleep(check_interval_ms).
Sleep == wd' = "sleep" /\ wake' = Check

\* Mutant: the thread breaks out of the loop and leaves the latch engaged.
CheckStopKeepingLatch ==
    /\ Awake
    /\ stop
    /\ tripped' = FALSE
    /\ wd' = "stopped"
    /\ UNCHANGED <<hb_vars, rt_vars, wake, trips, stop, since_force, estop,
                   reported, disturbed>>

\* stop is set: release the latch if it is engaged, then break.
CheckStop == /\ Awake
             /\ stop
             /\ tripped' = FALSE
             /\ wd' = IF tripped THEN "last_release" ELSE "stopped"
             /\ UNCHANGED <<hb_vars, rt_vars, wake, trips, stop, since_force,
                            estop, reported, disturbed>>

\* The age is within the window and nothing is latched.
CheckAlive == /\ Awake /\ ~stop
              /\ Age <= Timeout
              /\ ~tripped
              /\ Sleep
              /\ UNCHANGED <<hb_vars, rt_vars, tripped, trips, stop, since_force,
                             estop, reported, disturbed>>

\* Alive -> dead: the swap of tripped decides that this is the intervention.
CheckTrip == /\ Awake /\ ~stop
             /\ Age > Timeout
             /\ ~tripped
             /\ tripped' = TRUE
             /\ trips' = trips + 1
             /\ wd' = "zeros"
             /\ UNCHANGED <<hb_vars, rt_vars, wake, stop, since_force, estop,
                            reported, disturbed>>

\* Mutant: the zeros are left at the initial intervention.
CheckDeadWithoutReassert ==
    /\ Awake /\ ~stop
    /\ Age > Timeout
    /\ tripped
    /\ Sleep
    /\ UNCHANGED <<hb_vars, rt_vars, tripped, trips, stop, since_force, estop,
                   reported, disturbed>>

\* Still dead: re-publish the zeros when reassert_interval_ms has elapsed.
CheckDead == /\ Awake /\ ~stop
             /\ Age > Timeout
             /\ tripped
             /\ IF since_force >= Reassert
                THEN wd' = "reassert" /\ UNCHANGED wake
                ELSE Sleep
             /\ UNCHANGED <<hb_vars, rt_vars, tripped, trips, stop, since_force,
                            estop, reported, disturbed>>

\* Mutant: the latch is let go after one reassert interval, beat or no beat.
CheckRestoredByTime == /\ Awake /\ ~stop
                       /\ since_force >= Reassert
                       /\ tripped
                       /\ tripped' = FALSE
                       /\ wd' = "release"
                       /\ UNCHANGED <<hb_vars, rt_vars, wake, trips, stop,
                                      since_force, estop, reported, disturbed>>

\* Dead -> alive.
CheckRestored == /\ Awake /\ ~stop
                 /\ Age <= Timeout
                 /\ tripped
                 /\ tripped' = FALSE
                 /\ wd' = "release"
                 /\ UNCHANGED <<hb_vars, rt_vars, wake, trips, stop, since_force,
                                estop, reported, disturbed>>

\* Mutant: the put of the zeros is taken for the whole intervention.
PutZerosOnly == /\ wd = "zeros"
                /\ wd' = "status"
                /\ UNCHANGED <<hb_vars, rt_vars, wake, tripped, trips, stop,
                               since_force, estop, reported, disturbed>>

\* intervene(), one put after the other; last_force_at is read when it returns.
PutZeros == /\ wd = "zeros"
            /\ wd' = "estop"
            /\ UNCHANGED <<hb_vars, rt_vars, wake, tripped, trips, stop,
                           since_force, estop, reported, disturbed>>

PutEstop == /\ wd = "estop"
            /\ estop' = TRUE
            /\ wd' = "status"
            /\ UNCHANGED <<hb_vars, rt_vars, wake, tripped, trips, stop,
                           since_force, reported, disturbed>>

PutStatus == /\ wd = "status"
             /\ reported' = trips
             /\ since_force' = 0
             /\ Sleep
             /\ UNCHANGED <<hb_vars, rt_vars, tripped, trips, stop, estop, disturbed>>

\* reassert_zeros() and last_force_at = now.
PutReassert == /\ wd = "reassert"
               /\ since_force' = 0
               /\ Sleep
               /\ UNCHANGED <<hb_vars, rt_vars, tripped, trips, stop, estop,
                              reported, disturbed>>

\* Mutant: the release is only logged.
ReleaseOnlyLogged == /\ wd = "release"
                     /\ Sleep
                     /\ UNCHANGED <<hb_vars, rt_vars, tripped, trips, stop,
                                    since_force, estop, reported, disturbed>>

\* release_estop(), in the loop and on the way out of it.
PutRelease == /\ wd = "release"
              /\ estop' = FALSE
              /\ Sleep
              /\ UNCHANGED <<hb_vars, rt_vars, tripped, trips, stop, since_force,
                             reported, disturbed>>

PutLastRelease == /\ wd = "last_release"
                  /\ estop' = FALSE
                  /\ wd' = "stopped"
                  /\ UNCHANGED <<hb_vars, rt_vars, wake, tripped, trips, stop,
                                 since_force, reported, disturbed>>

Monitor == \/ CheckStop \/ CheckAlive \/ CheckTrip \/ CheckDead \/ CheckRestored
           \/ PutZeros \/ PutEstop \/ PutStatus
           \/ PutReassert \/ PutRelease \/ PutLastRelease

-----------------------------------------------------------------------------
Next == Tick \/ ClockStep \/ Frame \/ Stall \/ Resume \/ Die \/ Shutdown \/ Monitor

(***************************************************************************)
(* Time passes, the watchdog's own OS thread runs, and a control loop that *)
(* is not held up runs.  Nothing promises that a stall ends.               *)
(***************************************************************************)
Fairness == WF_vars(Tick) /\ WF_vars(Monitor) /\ WF_vars(Frame)

Spec == Init /\ [][Next]_vars /\ Fairness

-----------------------------------------------------------------------------
TimeTypeOK ==
    /\ silence \in 0..Horizon /\ fwd \in 0..MaxSkew /\ back \in 0..MaxSkew
    /\ due \in Int /\ -Horizon <= due /\ (due <= Period \/ due <= BootMax)
    /\ wake \in Int /\ -WdLate <= wake /\ (wake <= Check \/ wake <= BootMax)
    /\ since_force \in 0..Horizon
    /\ trips \in Nat /\ reported \in Nat

ControlTypeOK ==
    /\ rt \in {"run", "stalled", "dead"}
    /\ wd \in {"sleep", "zeros", "estop", "status", "reassert", "release",
               "last_release", "stopped"}
    /\ tripped \in BOOLEAN /\ stop \in BOOLEAN
    /\ estop \in BOOLEAN /\ disturbed \in BOOLEAN

\* Every variable has its type; no thread sleeps later than it may.
TypeOK == TimeTypeOK /\ ControlTypeOK

(***************************************************************************)
(* The window of watchdog_timer.rs:3-8: when a control loop has been silent *)
(* for longer than the timeout, the polling interval and the thread's own  *)
(* lateness, the estop is on the bus.  The heartbeat is dated with the     *)
(* wall clock, so each backward step since the last beat buys the silence  *)
(* that much more time.                                                    *)
(***************************************************************************)
EstopInTime ==
    ~stop /\ silence > Timeout + Check + WdLate + back => estop

(***************************************************************************)
(* And back (watchdog_timer.rs:217-219): a loop that beats again and that  *)
(* nothing disturbs has the latch taken off within one late polling        *)
(* interval of its last beat.                                              *)
(***************************************************************************)
ReleasedInTime == ~disturbed /\ estop => silence <= Check + WdLate

\* "Keep forcing the physical registers to zero" (watchdog_timer.rs:212): while
\* the latch is engaged the zeros are never older than one reassert interval
\* plus one late check.
ReassertCadence ==
    tripped /\ wd = "sleep" => since_force <= Reassert + Check + WdLate

(***************************************************************************)
(* Between two rounds of the loop the estop topic says what the watchdog   *)
(* believes, every intervention has been reported, and a watchdog that was *)
(* shut down has left nothing latched.                                     *)
(***************************************************************************)
LatchFollowsTrip ==
    /\ wd \in {"sleep", "stopped"} => estop = tripped /\ reported = trips
    /\ wd = "stopped" => ~estop

\* "Never an unintended trip" (frequency_enforcer.rs:212): a trip needs a stall,
\* the end of the loop or a forward step of the wall clock since the last beat.
NoUnintendedTrip == [][~tripped /\ tripped' => disturbed]_vars

\* The latch is let go only for a control loop heard within the window (which
\* backward clock steps widen), or because the watchdog is being shut down.
ReleaseOnlyWhenAlive ==
    [][estop /\ ~estop' => stop \/ silence <= Timeout + back]_vars

\* The same promise as the comment "until the control comes back alive"
\* (watchdog_timer.rs:212-213) makes it, with no allowance for the wall clock.
ReleaseOnlyOnBeat == [][estop /\ ~estop' => stop \/ silence <= Timeout]_vars

\* A control loop that died is stopped, unless the watchdog is shut down.
DeadControlIsStopped == rt = "dead" ~> estop \/ stop

\* A control loop that stays healthy gets its actuators back.
HealthyControlIsReleased == <>[](rt = "run" /\ ~disturbed) => <>[]~estop

-----------------------------------------------------------------------------
(***************************************************************************)
(* The watchdog without its clock.  Only the puts on the estop topic are   *)
(* steps of the switch; those of the zeros and of the status are not, and  *)
(* the time between two beats is only whether it is within the timeout.    *)
(***************************************************************************)
Switch == INSTANCE DeadMansSwitch WITH
    ClockGoesBack <- \E d \in ClockSteps : d < 0,
    MayShutDown   <- TRUE,
    silent <- disturbed,
    heard  <- Age <= Timeout,
    phase  <- IF wd \in {"zeros", "estop"} THEN "engage"
              ELSE IF wd \in {"sleep", "status", "reassert"} THEN "watch" ELSE wd,
    word   <- estop

\* The timed watchdog is such a switch: whatever its intervals and the clock
\* do, it trips, engages and releases only as the switch may.
ImplementsSwitch == Switch!Spec
=============================================================================
