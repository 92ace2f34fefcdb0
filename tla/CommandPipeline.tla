--------------------------- MODULE CommandPipeline ---------------------------
(***************************************************************************)
(* One joint's share of every command, from the control loop's frame to    *)
(* the robot: VectorSanitizer on Core 1, the bus, clamp_command in the HAL *)
(* (a second sanitizer, then the jerk limiter), the adapter's encoding and *)
(* the link.  Angles, speeds, accelerations and jerks are integers, and a  *)
(* frame period is the unit of time; a quotient is rounded towards zero.   *)
(***************************************************************************)
EXTENDS Integers, Sequences, FiniteSets

CONSTANTS Lo, Hi,            \* the joint's declared limits
          VMax, AMax, JMax,  \* its declared speed, acceleration and jerk
          Home,              \* where the robot stands when it is started
          SkillValues,       \* what a skill asks of the joint
          OtherValues,       \* what other publishers put: the watchdog, say
          NaN,               \* any value that is not finite
          Absent,            \* a vector that names other joints, not this one
          Empty,             \* the slot of LatestCommand is empty
          CmdCap             \* capacity of the command subscription

Clamp(x, lo, hi) == IF x < lo THEN lo ELSE IF x > hi THEN hi ELSE x

Value == Int \cup {NaN}

\* What a profile means to say.  The loader checks neither that the limits are
\* in order nor that the rates are positive (hal_loader.rs:222-229): with
\* inverted limits the sanitizers' f32::clamp panics and no command is sent.
ASSUME PipelineAssumption ==
    /\ Lo \in Int /\ Hi \in Int /\ Lo <= Hi /\ Home \in Lo..Hi
    /\ VMax \in Nat \ {0} /\ AMax \in Nat \ {0} /\ JMax \in Nat \ {0}
    /\ SkillValues \subseteq Value \cup {Absent} /\ OtherValues \subseteq Value
    /\ NaN \notin Int /\ Absent \notin Value /\ Empty \notin Value \cup {Absent}
    /\ CmdCap \in Nat \ {0}

VARIABLES
    declared,   \* the HAL profile has limits and rates for the joint
    stop,       \* what encode_estop sends: "zeros", or XGO's "action" macro
    padding,    \* the adapter fills joints a vector leaves out with 0 (Franka)
    rt_valid,   \* last_valid of the control loop
    rt_safe,    \* last_safe of the control loop's sanitizer
    bus,        \* alpha/cmd/<id>: values not yet received
    hal_safe,   \* last_safe of the HAL's sanitizer
    lim,        \* prev_pos, prev_vel, prev_acc of the jerk limiter
    latched,    \* estop_active
    frame,      \* the joint's place in the last command frame, and its origin
    robot,      \* the position last asked of the robot
    followed    \* history: the last frame was a clamped command that arrived

pipeline_profile == <<declared, stop, padding>>
pipeline_rt == <<rt_valid, rt_safe>>
pipeline_hal == <<hal_safe, lim>>
pipeline_vars == <<pipeline_profile, pipeline_rt, bus, pipeline_hal, latched,
                   frame, robot, followed>>

PipelineInit ==
    /\ declared \in BOOLEAN
    /\ stop \in {"zeros", "action"}
    /\ padding \in BOOLEAN /\ (padding => stop = "zeros")
    /\ rt_valid = 0 /\ rt_safe = 0
    /\ bus = <<>>
    /\ hal_safe = 0 /\ lim = [pos |-> 0, vel |-> 0, acc |-> 0]
    /\ latched = FALSE
    /\ frame = [from |-> "nobody", val |-> 0]
    /\ robot = Home /\ followed = FALSE

-----------------------------------------------------------------------------
(* sanitize_and_clamp on one joint.                                        *)

Geometric(v) == IF declared THEN Clamp(v, Lo, Hi) ELSE v

Sanitize(v, last) == Geometric(IF v = NaN THEN last ELSE v)

-----------------------------------------------------------------------------
(* JerkLimiter::limit on one joint.                                        *)

Abs(x) == IF x < 0 THEN -x ELSE x
Quotient(n, d) == IF n < 0 THEN -((-n) \div d) ELSE n \div d

\* The speed that still stops within the distance: min(vmax, sqrt(2 a d)).
StoppingSpeed(dist) ==
    Cardinality({r \in 1..VMax : r * r <= 2 * AMax * Abs(dist)})

\* dist / tau, with tau = max(vmax/amax + amax/jmax, dt).
Approach(dist) ==
    LET ramp == VMax * JMax + AMax * AMax
        unit == AMax * JMax
    IN  Quotient(dist * unit, IF ramp > unit THEN ramp ELSE unit)

DesiredSpeed(dist) ==
    Clamp(Approach(dist), -StoppingSpeed(dist), StoppingSpeed(dist))

\* Mutant: the change of acceleration is not limited.
NextAccWithoutJerk(v_des) == Clamp(v_des - lim.vel, -AMax, AMax)

NextAcc(v_des) ==
    LET a_des == Clamp(v_des - lim.vel, -AMax, AMax)
    IN  Clamp(Clamp(a_des - lim.acc, -JMax, JMax) + lim.acc, -AMax, AMax)

\* Mutant: the integrated speed is not clamped again.
NextVelUnclamped(a) == lim.vel + a

NextVel(a) == Clamp(lim.vel + a, -VMax, VMax)

\* Mutant: without the final geometric clamp.
LimitedUnclamped(target) ==
    LET a == NextAcc(DesiredSpeed(target - lim.pos))
        v == NextVel(a)
    IN  [pos |-> lim.pos + v, vel |-> v, acc |-> a]

Limited(target) ==
    LET a == NextAcc(DesiredSpeed(target - lim.pos))
        v == NextVel(a)
    IN  [pos |-> Clamp(lim.pos + v, Lo, Hi), vel |-> v, acc |-> a]

\* Rates of +infinity: the demand is reached in one tick.
Unlimited(target) ==
    [pos |-> target,
     vel |-> target - lim.pos,
     acc |-> target - lim.pos - lim.vel]

Limit(target) == IF declared THEN Limited(target) ELSE Unlimited(target)

-----------------------------------------------------------------------------
(* The control loop and the other publishers.                              *)

\* Mutant: the subscription queue has no capacity.
PutOnBusUnbounded(v) == bus' = Append(bus, v)

PutOnBus(v) == Len(bus) < CmdCap /\ bus' = Append(bus, v)

\* One tick: take_or(last_valid), sanitize_and_clamp, put.  A vector too
\* short to name the joint becomes last_valid too.
RtFrame(taken) ==
    LET v == IF taken = Empty THEN rt_valid ELSE taken
        cmd == IF v = Absent THEN Absent ELSE Sanitize(v, rt_safe)
    IN  /\ PutOnBus(cmd)
        /\ rt_valid' = cmd
        /\ rt_safe' = IF v = Absent THEN rt_safe ELSE cmd
        /\ UNCHANGED <<pipeline_profile, pipeline_hal, latched, frame, robot, followed>>

OtherPut(v) ==
    /\ PutOnBus(v)
    /\ UNCHANGED <<pipeline_profile, pipeline_rt, pipeline_hal, latched, frame, robot, followed>>

-----------------------------------------------------------------------------
(* The HAL.  Each frame may be lost on the link; errors are only logged.   *)

\* A command received while the estop is active is dropped unseen.
DropCommand ==
    /\ latched /\ bus # <<>>
    /\ bus' = Tail(bus)
    /\ UNCHANGED <<pipeline_profile, pipeline_rt, pipeline_hal, latched, frame, robot, followed>>

\* clamp_command, encode_command and the write, for a vector naming the joint.
WriteCommand(arrives) ==
    /\ ~latched /\ bus # <<>> /\ Head(bus) # Absent
    /\ LET v == Sanitize(Head(bus), hal_safe)
       IN  /\ hal_safe' = v
           /\ lim' = Limit(v)
           /\ frame' = [from |-> "limiter", val |-> Limit(v).pos]
           /\ robot' = IF arrives THEN Limit(v).pos ELSE robot
    /\ followed' = arrives
    /\ bus' = Tail(bus)
    /\ UNCHANGED <<pipeline_profile, pipeline_rt, latched>>

\* The same for a shorter vector: the joint is not looked at, and Franka's
\* fixed-size frame carries 0 in its place.
WriteShortCommand(arrives) ==
    /\ ~latched /\ bus # <<>> /\ Head(bus) = Absent
    /\ frame' = [from |-> IF padding THEN "padding" ELSE "nobody", val |-> 0]
    /\ robot' = IF padding /\ arrives THEN 0 ELSE robot
    /\ followed' = FALSE
    /\ bus' = Tail(bus)
    /\ UNCHANGED <<pipeline_profile, pipeline_rt, pipeline_hal, latched>>

\* write_estop: a vector of zeros that passes neither sanitizer nor limiter,
\* except on the XGO.
Engage(arrives) ==
    /\ ~latched
    /\ latched' = TRUE
    /\ robot' = IF arrives /\ stop = "zeros" THEN 0 ELSE robot
    /\ followed' = FALSE
    /\ UNCHANGED <<pipeline_profile, pipeline_rt, bus, pipeline_hal, frame>>

Release ==
    /\ latched
    /\ latched' = FALSE
    /\ UNCHANGED <<pipeline_profile, pipeline_rt, bus, pipeline_hal, frame, robot, followed>>

PipelineNext ==
    \/ \E v \in SkillValues \cup {Empty} : RtFrame(v)
    \/ \E v \in OtherValues : OtherPut(v)
    \/ DropCommand
    \/ \E arrives \in BOOLEAN :
          WriteCommand(arrives) \/ WriteShortCommand(arrives) \/ Engage(arrives)
    \/ Release

PipelineSpec == PipelineInit /\ [][PipelineNext]_pipeline_vars

-----------------------------------------------------------------------------
PipelineTypeOK ==
    /\ declared \in BOOLEAN /\ stop \in {"zeros", "action"} /\ padding \in BOOLEAN
    /\ rt_valid \in Int \cup {Absent} /\ rt_safe \in Int
    /\ bus \in Seq(Value \cup {Absent}) /\ Len(bus) <= CmdCap
    /\ hal_safe \in Int /\ lim \in [pos : Int, vel : Int, acc : Int]
    /\ latched \in BOOLEAN
    /\ frame \in [from : {"nobody", "limiter", "padding"}, val : Int]
    /\ robot \in Int /\ followed \in BOOLEAN

(***************************************************************************)
(* Whatever is published, NaN included, and wherever the limiter's zero    *)
(* state lies, a command that names the joint reaches the adapter finite   *)
(* and inside the limits (hardware_abstraction.rs:554-569).                *)
(***************************************************************************)
CommandsInLimits ==
    declared /\ frame.from = "limiter" => frame.val \in Lo..Hi

(***************************************************************************)
(* EVERY command inside the limits, as FieldbusConfig's doc has it         *)
(* (hardware_abstraction.rs:40-41).  Franka's frame breaks it: a joint the *)
(* vector leaves out is commanded to 0 (franka_fci.rs:82-95).              *)
(***************************************************************************)
EveryCommandInLimits ==
    declared /\ frame.from # "nobody" => frame.val \in Lo..Hi

(***************************************************************************)
(* Between two commands that both reached the robot it is never asked to   *)
(* move faster than the joint's speed, limits, lost frames and estops in   *)
(* between or not (jerk_limiter.rs:119-127).  The hypothesis is needed:    *)
(* the limiter never learns where the robot stands at the start, or that a *)
(* frame was lost or an estop sent.                                        *)
(***************************************************************************)
SmoothWhileFollowed ==
    [][declared /\ followed /\ followed' => Abs(robot' - robot) <= VMax]_pipeline_vars

(***************************************************************************)
(* A command that ends inside the limits continues the curve: its step is  *)
(* the limiter's speed, which changes by at most the acceleration, which   *)
(* changes by at most the jerk (jerk_limiter.rs:52-58).  At a limit the    *)
(* last clamp stops the joint and only speed and position stay bounded.    *)
(***************************************************************************)
JerkBounded ==
    [][declared /\ lim' # lim /\ frame'.val > Lo /\ frame'.val < Hi
         => /\ frame'.val - lim.pos = lim'.vel
            /\ Abs(lim'.vel) <= VMax
            /\ Abs(lim'.vel - lim.vel) <= AMax
            /\ Abs(lim'.acc - lim.acc) <= JMax]_pipeline_vars
=============================================================================
