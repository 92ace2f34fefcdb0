-------------------------- MODULE HardWatchdogProofs --------------------------
(***************************************************************************)
(* The watchdog's promises for every value of its parameters: how late it  *)
(* can notice a silent control loop, that it never trips on a healthy one  *)
(* when the window has room for the loop's period and jitter, and that the *)
(* latch on the bus follows its own state.                                 *)
(***************************************************************************)
EXTENDS HardWatchdog, TLAPS

(* Both threads are up before the first beat can look old.                 *)
BootsInWindow == BootMax <= Timeout + Check

(* The timeout covers the longest healthy distance between two beats.      *)
WindowMargin == Period + Jitter <= Timeout /\ BootMax + Jitter <= Timeout

(* Time to the next check is what the silence may still grow by.           *)
DetectInv ==
    /\ ~tripped /\ wd = "sleep" => silence + wake <= Timeout + Check + back
    /\ wd = "release" => silence <= Timeout + back
    /\ wd \in {"zeros", "estop"} => silence <= Timeout + Check + WdLate + back
    /\ wd \in {"zeros", "estop", "status", "reassert"} => tripped

(* The schedule of a loop nothing disturbed since its last beat.           *)
Longest == IF Period < BootMax THEN BootMax ELSE Period

HealthyInv ==
    ~disturbed => /\ fwd = 0
                  /\ rt = "run"
                  /\ silence + due <= Longest
                  /\ silence <= Longest + Jitter

ReassertInv ==
    /\ tripped /\ wd = "sleep" => since_force + wake <= Reassert + Check
    /\ wd = "release" => ~tripped

(* Once the loop beats undisturbed, what is latched is looked at in time.  *)
ReleaseInv ==
    /\ tripped /\ wd = "sleep" => wake <= Check
    /\ ~disturbed => /\ tripped /\ wd = "sleep" => silence + wake <= Check
                     /\ wd \in {"zeros", "estop", "status", "reassert"} => silence = 0
                     /\ wd \in {"release", "last_release"} => silence <= Check + WdLate

(* What is left of that schedule for the watchdog without its clock.       *)
HealthyHeard == ~disturbed => Age <= Timeout

(* Where the monitor loop is tells what it has published so far.           *)
LatchInv ==
    /\ tripped <=> wd \in {"zeros", "estop", "status", "reassert"}
                      \/ (wd = "sleep" /\ estop)
    /\ estop => wd \notin {"zeros", "estop", "stopped"}
    /\ wd \in {"status", "reassert", "release"} => estop
    /\ reported = IF wd \in {"zeros", "estop", "status"} THEN trips - 1 ELSE trips
    /\ wd \in {"last_release", "stopped"} => stop

-----------------------------------------------------------------------------
LEMMA PeriodType == Period \in Nat \ {0}
BY WatchdogAssumption DEF Period

LEMMA InitType == Init => TypeOK
<1>1. Init => TimeTypeOK
  BY WatchdogAssumption, PeriodType DEF Init, TimeTypeOK
<1>2. Init => ControlTypeOK
  BY DEF Init, ControlTypeOK
<1> QED BY <1>1, <1>2 DEF TypeOK

LEMMA MonitorTime ==
    ASSUME TimeTypeOK, Monitor
    PROVE  TimeTypeOK'
<1> USE WatchdogAssumption DEF TimeTypeOK, Awake, Sleep, hb_vars, rt_vars
<1>1. CASE CheckStop \/ CheckAlive \/ CheckTrip
  BY <1>1 DEF CheckStop, CheckAlive, CheckTrip
<1>2. CASE CheckDead \/ CheckRestored
  BY <1>2 DEF CheckDead, CheckRestored
<1>3. CASE PutZeros \/ PutEstop \/ PutStatus
  BY <1>3 DEF PutZeros, PutEstop, PutStatus
<1>4. CASE PutReassert \/ PutRelease \/ PutLastRelease
  BY <1>4 DEF PutReassert, PutRelease, PutLastRelease
<1> QED BY <1>1, <1>2, <1>3, <1>4 DEF Monitor

LEMMA MonitorControl ==
    ASSUME ControlTypeOK, Monitor
    PROVE  ControlTypeOK'
<1> USE DEF ControlTypeOK, Awake, Sleep, hb_vars, rt_vars
<1>1. CASE CheckStop \/ CheckAlive \/ CheckTrip
  BY <1>1 DEF CheckStop, CheckAlive, CheckTrip
<1>2. CASE CheckDead \/ CheckRestored
  BY <1>2 DEF CheckDead, CheckRestored
<1>3. CASE PutZeros \/ PutEstop \/ PutStatus
  BY <1>3 DEF PutZeros, PutEstop, PutStatus
<1>4. CASE PutReassert \/ PutRelease \/ PutLastRelease
  BY <1>4 DEF PutReassert, PutRelease, PutLastRelease
<1> QED BY <1>1, <1>2, <1>3, <1>4 DEF Monitor

LEMMA NextType == TypeOK /\ [Next]_vars => TypeOK'
<1> SUFFICES ASSUME TimeTypeOK, ControlTypeOK, [Next]_vars
             PROVE  TimeTypeOK' /\ ControlTypeOK'
  BY DEF TypeOK
<1> USE WatchdogAssumption, PeriodType
<1>1. CASE Tick
  <2>1. TimeTypeOK'
    BY <1>1 DEF TimeTypeOK, Tick, AtMost
  <2>2. ControlTypeOK'
    BY <1>1 DEF ControlTypeOK, Tick
  <2> QED BY <2>1, <2>2
<1>2. CASE ClockStep
  <2>1. TimeTypeOK'
    BY <1>2 DEF TimeTypeOK, ClockStep, rt_vars, wd_vars
  <2>2. ControlTypeOK'
    BY <1>2 DEF ControlTypeOK, ClockStep, rt_vars, wd_vars
  <2> QED BY <2>1, <2>2
<1>3. CASE Frame
  <2>1. TimeTypeOK'
    BY <1>3 DEF TimeTypeOK, Frame, wd_vars, TokioSlack
  <2>2. ControlTypeOK'
    BY <1>3 DEF ControlTypeOK, Frame, wd_vars
  <2> QED BY <2>1, <2>2
<1>4. CASE Stall \/ Resume \/ Die
  <2>1. TimeTypeOK'
    BY <1>4 DEF TimeTypeOK, Stall, Resume, Die, hb_vars, wd_vars
  <2>2. ControlTypeOK'
    BY <1>4 DEF ControlTypeOK, Stall, Resume, Die, wd_vars
  <2> QED BY <2>1, <2>2
<1>5. CASE Shutdown
  BY <1>5 DEF TimeTypeOK, ControlTypeOK, Shutdown, hb_vars, rt_vars, wd_vars
<1>6. CASE Monitor
  BY <1>6, MonitorTime, MonitorControl
<1>7. CASE UNCHANGED vars
  BY <1>7 DEF TimeTypeOK, ControlTypeOK, vars, hb_vars, rt_vars, wd_vars
<1> QED BY <1>1, <1>2, <1>3, <1>4, <1>5, <1>6, <1>7 DEF Next

(* Every variable keeps its type, with ages and sleeps inside their bounds.*)
THEOREM TypeCorrect == Spec => []TypeOK
BY InitType, NextType, PTL DEF Spec

-----------------------------------------------------------------------------
LEMMA LatchStep == TypeOK /\ LatchInv /\ [Next]_vars => LatchInv'
<1> SUFFICES ASSUME TypeOK, LatchInv, [Next]_vars PROVE LatchInv'
  OBVIOUS
<1> USE DEF TypeOK, LatchInv
<1>1. CASE Monitor
  BY <1>1
     DEF Monitor, CheckStop, CheckAlive, CheckTrip, CheckDead, CheckRestored,
         PutZeros, PutEstop, PutStatus, PutReassert, PutRelease, PutLastRelease,
         Awake, Sleep
<1>2. CASE Tick \/ ClockStep \/ Frame \/ Stall \/ Resume \/ Die \/ Shutdown
  BY <1>2 DEF Tick, ClockStep, Frame, Stall, Resume, Die, Shutdown, wd_vars
<1>3. CASE UNCHANGED vars
  BY <1>3 DEF vars, wd_vars
<1> QED BY <1>1, <1>2, <1>3 DEF Next

LEMMA LatchInvariant == Spec => []LatchInv
<1>1. Init => LatchInv
  BY DEF Init, LatchInv
<1> QED BY <1>1, LatchStep, TypeCorrect, PTL DEF Spec

(* Between rounds the estop topic agrees with `tripped', every trip has    *)
(* been reported, and a stopped watchdog leaves nothing latched.           *)
THEOREM LatchConsistent == Spec => []LatchFollowsTrip
<1>1. TypeOK /\ LatchInv => LatchFollowsTrip
  BY DEF TypeOK, ControlTypeOK, LatchInv, LatchFollowsTrip
<1> QED BY <1>1, TypeCorrect, LatchInvariant, PTL

-----------------------------------------------------------------------------
LEMMA DetectStep ==
    ASSUME BootsInWindow, TypeOK, DetectInv, [Next]_vars
    PROVE  DetectInv'
<1> USE WatchdogAssumption, PeriodType DEF TypeOK, TimeTypeOK, DetectInv
<1>1. CASE Tick
  BY <1>1 DEF Tick, AtMost
<1>2. CASE ClockStep
  BY <1>2 DEF ClockStep, rt_vars, wd_vars
<1>3. CASE Frame
  BY <1>3 DEF Frame, wd_vars, BootsInWindow
<1>4. CASE Stall \/ Resume \/ Die
  BY <1>4 DEF Stall, Resume, Die, hb_vars, wd_vars
<1>5. CASE Shutdown
  BY <1>5 DEF Shutdown, hb_vars, wd_vars
<1>6. CASE Monitor
  <2> USE DEF Awake, Sleep, hb_vars
  <2>1. CASE CheckStop \/ CheckTrip \/ CheckDead
    BY <2>1 DEF CheckStop, CheckTrip, CheckDead
  <2>2. CASE CheckAlive \/ CheckRestored
    <3>1. silence <= Timeout + back
      BY <2>2 DEF CheckAlive, CheckRestored, Age
    <3> QED BY <2>2, <3>1 DEF CheckAlive, CheckRestored
  <2>3. CASE PutZeros \/ PutEstop \/ PutLastRelease
    BY <2>3 DEF PutZeros, PutEstop, PutLastRelease
  <2>4. CASE PutStatus \/ PutReassert
    BY <2>4 DEF PutStatus, PutReassert
  <2>5. CASE PutRelease
    BY <2>5 DEF PutRelease
  <2> QED BY <1>6, <2>1, <2>2, <2>3, <2>4, <2>5 DEF Monitor
<1>7. CASE UNCHANGED vars
  BY <1>7 DEF vars, hb_vars, wd_vars
<1> QED BY <1>1, <1>2, <1>3, <1>4, <1>5, <1>6, <1>7 DEF Next

LEMMA DetectInvariant ==
    ASSUME BootsInWindow
    PROVE  Spec => []DetectInv
<1>1. Init => DetectInv
  BY WatchdogAssumption DEF Init, DetectInv, BootsInWindow
<1>2. TypeOK /\ DetectInv /\ [Next]_vars => DetectInv'
  BY DetectStep
<1> QED BY <1>1, <1>2, TypeCorrect, PTL DEF Spec

(* The estop of a silent control loop is on the bus Timeout + Check +      *)
(* WdLate ms after its last beat, plus what the wall clock was set back.   *)
THEOREM Intervention ==
    ASSUME BootsInWindow
    PROVE  Spec => []EstopInTime
<1>1. TypeOK /\ DetectInv /\ LatchInv => EstopInTime
  <2> SUFFICES ASSUME TypeOK, DetectInv, LatchInv, ~stop, ~estop
               PROVE  silence <= Timeout + Check + WdLate + back
    BY WatchdogAssumption DEF EstopInTime, TypeOK, TimeTypeOK
  <2>1. wd \in {"sleep", "zeros", "estop"} /\ (wd = "sleep" => ~tripped)
    BY DEF TypeOK, ControlTypeOK, LatchInv
  <2>2. CASE wd = "sleep"
    BY <2>1, <2>2, WatchdogAssumption DEF TypeOK, TimeTypeOK, DetectInv
  <2>3. CASE wd \in {"zeros", "estop"}
    BY <2>3 DEF DetectInv
  <2> QED BY <2>1, <2>2, <2>3
<1> QED BY <1>1, TypeCorrect, DetectInvariant, LatchInvariant, PTL

(* The latch of a dead control loop is released only by a beat, up to what *)
(* the wall clock was set back, or by a shutdown of the watchdog.          *)
THEOREM ReleaseNeedsBeat ==
    ASSUME BootsInWindow
    PROVE  Spec => ReleaseOnlyWhenAlive
<1> DEFINE A == estop /\ ~estop' => stop \/ silence <= Timeout + back
<1>1. TypeOK /\ DetectInv /\ LatchInv /\ [Next]_vars => [A]_vars
  BY DEF Next, vars, Tick, ClockStep, Frame, Stall, Resume, Die, Shutdown, Monitor,
         CheckStop, CheckAlive, CheckTrip, CheckDead, CheckRestored, PutZeros,
         PutEstop, PutStatus, PutReassert, PutRelease, PutLastRelease, Awake, Sleep,
         hb_vars, rt_vars, wd_vars, DetectInv, LatchInv
<1> QED
  BY <1>1, TypeCorrect, DetectInvariant, LatchInvariant, PTL
     DEF Spec, ReleaseOnlyWhenAlive

-----------------------------------------------------------------------------
LEMMA HealthyStep ==
    ASSUME TypeOK, HealthyInv, [Next]_vars
    PROVE  HealthyInv'
<1> USE WatchdogAssumption, PeriodType DEF TypeOK, TimeTypeOK, HealthyInv, Longest
<1>1. CASE Tick
  BY <1>1 DEF Tick, AtMost
<1>2. CASE ClockStep
  BY <1>2 DEF ClockStep, rt_vars, wd_vars
<1>3. CASE Frame
  BY <1>3 DEF Frame, wd_vars, TokioSlack
<1>4. CASE Stall \/ Resume \/ Die
  BY <1>4 DEF Stall, Resume, Die, hb_vars, wd_vars
<1>5. CASE Shutdown \/ Monitor
  BY <1>5
     DEF Shutdown, Monitor, CheckStop, CheckAlive, CheckTrip, CheckDead,
         CheckRestored, PutZeros, PutEstop, PutStatus, PutReassert, PutRelease,
         PutLastRelease, Awake, Sleep, hb_vars, rt_vars, wd_vars
<1>6. CASE UNCHANGED vars
  BY <1>6 DEF vars, hb_vars, rt_vars, wd_vars
<1> QED BY <1>1, <1>2, <1>3, <1>4, <1>5, <1>6 DEF Next

LEMMA HealthyInvariant == Spec => []HealthyInv
<1>1. Init => HealthyInv
  BY WatchdogAssumption, PeriodType DEF Init, HealthyInv, Longest
<1>2. TypeOK /\ HealthyInv /\ [Next]_vars => HealthyInv'
  BY HealthyStep
<1> QED BY <1>1, <1>2, TypeCorrect, PTL DEF Spec

LEMMA HealthyIsHeard ==
    ASSUME WindowMargin, TypeOK, HealthyInv, ~disturbed
    PROVE  Age <= Timeout
BY WatchdogAssumption, PeriodType
   DEF TypeOK, TimeTypeOK, HealthyInv, Longest, WindowMargin, Age

LEMMA AgeType == TypeOK => Age \in Nat
BY DEF TypeOK, TimeTypeOK, Age

(* With room in the window for one period and its jitter, the watchdog     *)
(* trips only after a stall, the end of the loop or a forward clock step.  *)
THEOREM NoFalseTrip ==
    ASSUME WindowMargin
    PROVE  Spec => NoUnintendedTrip
<1>1. TypeOK /\ HealthyInv /\ [Next]_vars => [~tripped /\ tripped' => disturbed]_vars
  <2> SUFFICES ASSUME TypeOK, HealthyInv, [Next]_vars, ~tripped, tripped'
               PROVE  disturbed
    OBVIOUS
  <2>1. CheckTrip
    BY DEF Next, vars, Tick, ClockStep, Frame, Stall, Resume, Die, Shutdown,
           Monitor, CheckStop, CheckAlive, CheckDead, CheckRestored, PutZeros,
           PutEstop, PutStatus, PutReassert, PutRelease, PutLastRelease, Awake,
           Sleep, hb_vars, rt_vars, wd_vars
  <2> QED BY <2>1, HealthyIsHeard, AgeType, WatchdogAssumption DEF CheckTrip
<1> QED BY <1>1, TypeCorrect, HealthyInvariant, PTL DEF Spec, NoUnintendedTrip

-----------------------------------------------------------------------------
LEMMA ReleaseStep ==
    ASSUME WindowMargin, TypeOK, HealthyInv, ReleaseInv, LatchInv, [Next]_vars
    PROVE  ReleaseInv'
<1> USE WatchdogAssumption DEF TypeOK, TimeTypeOK, ReleaseInv
<1>1. CASE Tick
  BY <1>1 DEF Tick, AtMost
<1>2. CASE ClockStep
  BY <1>2 DEF ClockStep, rt_vars, wd_vars
<1>3. CASE Frame
  BY <1>3 DEF Frame, wd_vars
<1>4. CASE Stall \/ Resume \/ Die \/ Shutdown
  BY <1>4 DEF Stall, Resume, Die, Shutdown, hb_vars, rt_vars, wd_vars
<1>5. CASE Monitor
  <2> USE DEF Awake, Sleep, hb_vars
  <2>1. CASE CheckStop \/ CheckAlive \/ CheckRestored
    BY <2>1 DEF CheckStop, CheckAlive, CheckRestored
  <2>2. CASE CheckTrip \/ CheckDead
    <3>1. disturbed /\ disturbed' = disturbed
      BY <2>2, HealthyIsHeard, AgeType DEF CheckTrip, CheckDead
    <3> QED BY <2>2, <3>1 DEF CheckTrip, CheckDead
  <2>3. CASE PutZeros \/ PutEstop \/ PutLastRelease
    BY <2>3 DEF PutZeros, PutEstop, PutLastRelease
  <2>4. CASE PutStatus \/ PutReassert
    BY <2>4 DEF PutStatus, PutReassert
  <2>5. CASE PutRelease
    BY <2>5 DEF PutRelease, LatchInv
  <2> QED BY <1>5, <2>1, <2>2, <2>3, <2>4, <2>5 DEF Monitor
<1>6. CASE UNCHANGED vars
  BY <1>6 DEF vars, hb_vars, rt_vars, wd_vars
<1> QED BY <1>1, <1>2, <1>3, <1>4, <1>5, <1>6 DEF Next

(* A loop that beats again undisturbed has the latch taken off within one  *)
(* late polling interval of its last beat.                                 *)
THEOREM Restoration ==
    ASSUME WindowMargin
    PROVE  Spec => []ReleasedInTime
<1>1. Init => ReleaseInv
  BY DEF Init, ReleaseInv
<1>2. TypeOK /\ HealthyInv /\ ReleaseInv /\ LatchInv /\ [Next]_vars => ReleaseInv'
  BY ReleaseStep
<1>3. TypeOK /\ ReleaseInv /\ LatchInv => ReleasedInTime
  <2> SUFFICES ASSUME TypeOK, ReleaseInv, LatchInv, ~disturbed, estop
               PROVE  silence <= Check + WdLate
    BY DEF ReleasedInTime
  <2> USE WatchdogAssumption DEF TypeOK, TimeTypeOK, ReleaseInv
  <2>1. CASE wd = "sleep"
    <3>1. tripped
      BY <2>1 DEF ControlTypeOK, LatchInv
    <3> QED BY <2>1, <3>1
  <2>2. CASE wd \in {"status", "reassert"}
    BY <2>2
  <2>3. CASE wd \in {"release", "last_release"}
    BY <2>3
  <2> QED BY <2>1, <2>2, <2>3 DEF ControlTypeOK, LatchInv
<1> QED
  BY <1>1, <1>2, <1>3, TypeCorrect, HealthyInvariant, LatchInvariant, PTL DEF Spec

-----------------------------------------------------------------------------
(* While the latch is engaged the zeros are re-published in time.          *)
THEOREM Reassertion == Spec => []ReassertCadence
<1>1. Init => ReassertInv
  BY DEF Init, ReassertInv
<1>2. TypeOK /\ ReassertInv /\ [Next]_vars => ReassertInv'
  <2> SUFFICES ASSUME TypeOK, ReassertInv, [Next]_vars PROVE ReassertInv'
    OBVIOUS
  <2> USE WatchdogAssumption DEF TypeOK, TimeTypeOK, ReassertInv
  <2>1. CASE Tick
    BY <2>1 DEF Tick, AtMost
  <2>2. CASE Monitor
    <3> USE DEF Awake, Sleep
    <3>1. CASE CheckStop \/ CheckAlive \/ CheckTrip \/ CheckRestored
      BY <3>1 DEF CheckStop, CheckAlive, CheckTrip, CheckRestored
    <3>2. CASE CheckDead
      BY <3>2 DEF CheckDead
    <3>3. CASE PutZeros \/ PutEstop \/ PutLastRelease
      BY <3>3 DEF PutZeros, PutEstop, PutLastRelease
    <3>4. CASE PutStatus \/ PutReassert
      BY <3>4 DEF PutStatus, PutReassert
    <3>5. CASE PutRelease
      BY <3>5 DEF PutRelease
    <3> QED BY <2>2, <3>1, <3>2, <3>3, <3>4, <3>5 DEF Monitor
  <2>3. CASE ClockStep \/ Frame \/ Stall \/ Resume \/ Die \/ Shutdown
    BY <2>3 DEF ClockStep, Frame, Stall, Resume, Die, Shutdown, wd_vars
  <2>4. CASE UNCHANGED vars
    BY <2>4 DEF vars, wd_vars
  <2> QED BY <2>1, <2>2, <2>3, <2>4 DEF Next
<1>3. TypeOK /\ ReassertInv => ReassertCadence
  BY WatchdogAssumption DEF TypeOK, TimeTypeOK, ReassertInv, ReassertCadence
<1> QED BY <1>1, <1>2, <1>3, TypeCorrect, PTL DEF Spec
-----------------------------------------------------------------------------
(* The timed watchdog is the switch of DeadMansSwitch.                     *)

\* What the steps of time, of the clock and of the control loop leave alone.
SwitchIdle == UNCHANGED <<Switch!switch_vars, stop>>

LEMMA IdleWatchdog ==
    ASSUME UNCHANGED <<wd, tripped, estop, stop>>
    PROVE  SwitchIdle
BY DEF SwitchIdle, Switch!switch_vars

\* How those steps may move what the switch sees of the loop.
LEMMA LoopMoves ==
    ASSUME SwitchIdle, TypeOK, TypeOK',
           \/ disturbed' = disturbed /\ (Age <= Timeout)' = (Age <= Timeout)
           \/ ~disturbed' /\ (Age <= Timeout)'
           \/ disturbed /\ disturbed' /\ ~(Age <= Timeout)'
           \/ ~disturbed /\ disturbed' /\ Age <= Timeout
           \/ /\ (Age <= Timeout)' /\ disturbed' = disturbed
              /\ \E d \in ClockSteps : d < 0
    PROVE  [Switch!Next]_(Switch!svars)
<1> DEFINE H == Age <= Timeout
<1> USE DEF SwitchIdle
<1>0. /\ disturbed \in BOOLEAN /\ disturbed' \in BOOLEAN
      /\ H \in BOOLEAN /\ H' \in BOOLEAN
  BY DEF TypeOK, ControlTypeOK
<1>1. CASE disturbed' = disturbed /\ H' = H
  BY <1>1 DEF Switch!svars, Switch!loop_vars
<1>2. CASE ~disturbed' /\ H'
  <2>1. Switch!Beat
    BY <1>0, <1>2 DEF Switch!Beat
  <2> QED BY <2>1 DEF Switch!Next, Switch!Loop
<1>3. CASE disturbed /\ disturbed' /\ ~H'
  <2>1. Switch!Expire
    BY <1>0, <1>3 DEF Switch!Expire
  <2> QED BY <2>1 DEF Switch!Next, Switch!Loop
<1>4. CASE ~disturbed /\ disturbed' /\ H
  <2>1. Switch!FallSilent
    BY <1>0, <1>4 DEF Switch!FallSilent
  <2> QED BY <2>1 DEF Switch!Next, Switch!Loop
<1>5. CASE H' /\ disturbed' = disturbed /\ \E d \in ClockSteps : d < 0
  <2>1. Switch!LookFresh
    BY <1>0, <1>5 DEF Switch!LookFresh
  <2> QED BY <2>1 DEF Switch!Next, Switch!Loop
<1> QED BY <1>1, <1>2, <1>3, <1>4, <1>5

LEMMA LoopImplementsSwitch ==
    ASSUME TypeOK, TypeOK', HealthyHeard, HealthyHeard',
           Tick \/ ClockStep \/ Frame \/ Stall \/ Resume \/ Die
    PROVE  [Switch!Next]_(Switch!svars)
<1> DEFINE H == Age <= Timeout
<1>1. SwitchIdle
  BY IdleWatchdog DEF Tick, ClockStep, Frame, Stall, Resume, Die, wd_vars
<1>2. disturbed \in BOOLEAN /\ disturbed' \in BOOLEAN /\ H \in BOOLEAN /\ H' \in BOOLEAN
  BY DEF TypeOK, ControlTypeOK
<1>3. ~disturbed => H
  BY DEF HealthyHeard
<1>4. ~disturbed' => H'
  BY DEF HealthyHeard
<1>5. CASE Tick
  <2>1. H' => H
    BY <1>5, WatchdogAssumption DEF Tick, AtMost, Age, TypeOK, TimeTypeOK
  <2>2. disturbed' = disturbed
    BY <1>5 DEF Tick
  <2> QED BY <1>1, <1>2, <1>3, <1>4, <2>1, <2>2, LoopMoves
<1>6. CASE ClockStep
  <2>1. PICK d \in ClockSteps :
          \/ d > 0 /\ fwd' = fwd + d /\ disturbed' = TRUE /\ back' = back
          \/ ~(d > 0) /\ back' = back - d /\ fwd' = fwd /\ disturbed' = disturbed
    BY <1>6 DEF ClockStep
  <2>2. silence' = silence /\ d \in Int
    BY <1>6, WatchdogAssumption DEF ClockStep
  <2>3. CASE d > 0
    <3>1. disturbed' = TRUE /\ fwd' = fwd + d /\ back' = back
      BY <2>1, <2>3
    <3>2. H' => H
      BY <2>2, <2>3, <3>1, WatchdogAssumption DEF Age, TypeOK, TimeTypeOK
    <3> QED BY <1>1, <1>2, <1>3, <3>1, <3>2, LoopMoves
  <2>4. CASE ~(d > 0)
    <3>1. disturbed' = disturbed /\ fwd' = fwd /\ back' = back - d
      BY <2>1, <2>4
    <3>2. CASE d < 0
      <4>1. H => H'
        BY <2>2, <3>1, <3>2, WatchdogAssumption DEF Age, TypeOK, TimeTypeOK
      <4> QED BY <1>1, <1>2, <3>1, <3>2, <4>1, LoopMoves
    <3>3. CASE d = 0
      <4>1. H' = H
        BY <2>2, <3>1, <3>3, WatchdogAssumption DEF Age, TypeOK, TimeTypeOK
      <4> QED BY <1>1, <3>1, <4>1, LoopMoves
    <3> QED BY <2>2, <2>4, <3>2, <3>3
  <2> QED BY <2>3, <2>4
<1>7. CASE Frame
  <2>1. ~disturbed'
    BY <1>7 DEF Frame
  <2> QED BY <1>1, <1>4, <2>1, LoopMoves
<1>8. CASE Stall \/ Resume \/ Die
  <2>1. H' = H
    BY <1>8 DEF Stall, Resume, Die, hb_vars, Age
  <2>2. disturbed' = TRUE \/ disturbed' = disturbed
    BY <1>8 DEF Stall, Resume, Die
  <2> QED BY <1>1, <1>2, <1>3, <2>1, <2>2, LoopMoves
<1> QED BY <1>5, <1>6, <1>7, <1>8

LEMMA MonitorImplementsSwitch ==
    ASSUME TypeOK, TypeOK', LatchInv, Shutdown \/ Monitor
    PROVE  [Switch!Next]_(Switch!svars)
<1>1. UNCHANGED Switch!loop_vars
  BY DEF Shutdown, Monitor, CheckStop, CheckAlive, CheckTrip, CheckDead, CheckRestored,
         PutZeros, PutEstop, PutStatus, PutReassert, PutRelease, PutLastRelease,
         hb_vars, Age, Switch!loop_vars
<1>2. CASE Shutdown
  <2>1. Switch!ShutDown
    BY <1>1, <1>2 DEF Shutdown, wd_vars, Switch!ShutDown, Switch!switch_vars
  <2> QED BY <2>1 DEF Switch!Next
<1> USE DEF Awake, Sleep
<1>3. CASE CheckStop
  <2>1. Switch!Leave
    BY <1>1, <1>3 DEF CheckStop, Switch!Leave
  <2> QED BY <2>1 DEF Switch!Next, Switch!Watchdog
<1>4. CASE CheckTrip
  <2>1. ~(Age <= Timeout)
    BY <1>4, AgeType, WatchdogAssumption DEF CheckTrip
  <2>2. Switch!Trip
    BY <1>1, <1>4, <2>1 DEF CheckTrip, Switch!Trip
  <2> QED BY <2>2 DEF Switch!Next, Switch!Watchdog
<1>5. CASE CheckRestored
  <2>1. Switch!Restore
    BY <1>1, <1>5 DEF CheckRestored, Switch!Restore
  <2> QED BY <2>1 DEF Switch!Next, Switch!Watchdog
<1>6. CASE PutEstop
  <2>1. Switch!Engage
    BY <1>1, <1>6 DEF PutEstop, Switch!Engage
  <2> QED BY <2>1 DEF Switch!Next, Switch!Watchdog
<1>7. CASE PutRelease
  <2>1. Switch!Release
    BY <1>1, <1>7 DEF PutRelease, Switch!Release
  <2> QED BY <2>1 DEF Switch!Next, Switch!Watchdog
<1>8. CASE PutLastRelease
  <2>1. Switch!LastRelease
    BY <1>1, <1>8 DEF PutLastRelease, Switch!LastRelease
  <2> QED BY <2>1 DEF Switch!Next, Switch!Watchdog
<1>9. CASE CheckAlive \/ CheckDead \/ PutZeros \/ PutStatus \/ PutReassert
  BY <1>1, <1>9
     DEF CheckAlive, CheckDead, PutZeros, PutStatus, PutReassert, Switch!svars,
         Switch!switch_vars
<1> QED BY <1>2, <1>3, <1>4, <1>5, <1>6, <1>7, <1>8, <1>9 DEF Monitor

(* With room in its window for one period and its jitter, the watchdog     *)
(* trips, engages and releases only as DeadMansSwitch may, however late    *)
(* its thread and however the wall clock is set: no trip while nothing     *)
(* held the loop up, no release before the loop is heard or looks so.      *)
THEOREM WatchdogIsSwitch ==
    ASSUME WindowMargin
    PROVE  Spec => ImplementsSwitch
<1>1. Init => Switch!Init
  <2> SUFFICES ASSUME Init PROVE Switch!Init
    OBVIOUS
  <2>1. Age <= Timeout
    BY WatchdogAssumption DEF Init, Age
  <2> QED BY <2>1 DEF Init, Switch!Init
<1>2. /\ TypeOK /\ TypeOK' /\ HealthyHeard /\ HealthyHeard' /\ LatchInv
      /\ [Next]_vars
      => [Switch!Next]_(Switch!svars)
  <2> SUFFICES ASSUME TypeOK, TypeOK', HealthyHeard, HealthyHeard', LatchInv,
                      [Next]_vars
               PROVE  [Switch!Next]_(Switch!svars)
    OBVIOUS
  <2>1. CASE UNCHANGED vars
    BY <2>1 DEF vars, hb_vars, wd_vars, Age, Switch!svars, Switch!loop_vars,
                Switch!switch_vars
  <2> QED BY <2>1, LoopImplementsSwitch, MonitorImplementsSwitch DEF Next
<1>3. TypeOK /\ HealthyInv => HealthyHeard
  BY HealthyIsHeard DEF HealthyHeard
<1> QED
  BY <1>1, <1>2, <1>3, TypeCorrect, HealthyInvariant, LatchInvariant, PTL
     DEF Spec, ImplementsSwitch, Switch!Spec
=============================================================================
