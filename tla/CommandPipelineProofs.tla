------------------------- MODULE CommandPipelineProofs -------------------------
(***************************************************************************)
(* The clamps and the jerk limiter keep their bounds for all limits, rates *)
(* and published values, through any estops and lost frames.               *)
(***************************************************************************)
EXTENDS CommandPipeline, FiniteSetTheorems, TLAPS

-----------------------------------------------------------------------------
(* What the helpers return.                                                *)

LEMMA ClampBounds ==
    ASSUME NEW x \in Int, NEW lo \in Int, NEW hi \in Int, lo <= hi
    PROVE  Clamp(x, lo, hi) \in Int /\ lo <= Clamp(x, lo, hi) /\ Clamp(x, lo, hi) <= hi
  BY DEF Clamp

\* An interval around x keeps what is added to x on the same side, and closer.
LEMMA ClampShrinks ==
    ASSUME NEW x \in Int, NEW d \in Int, NEW lo \in Int, NEW hi \in Int,
           lo <= x, x <= hi, NEW b \in Nat, -b <= d, d <= b
    PROVE  -b <= Clamp(x + d, lo, hi) - x /\ Clamp(x + d, lo, hi) - x <= b
  BY DEF Clamp

\* The same for an interval around 0.
LEMMA SymmetricClamp ==
    ASSUME NEW x \in Int, NEW b \in Nat
    PROVE  Clamp(x, -b, b) \in Int /\ -b <= Clamp(x, -b, b) /\ Clamp(x, -b, b) <= b
  BY DEF Clamp

LEMMA Rates == VMax \in Nat /\ AMax \in Nat /\ JMax \in Nat
  BY PipelineAssumption

LEMMA Limits == Lo \in Int /\ Hi \in Int /\ Lo <= Hi
  BY PipelineAssumption

LEMMA StoppingSpeedType ==
    ASSUME NEW dist \in Int PROVE StoppingSpeed(dist) \in Nat
  <1> DEFINE S == {r \in 1..VMax : r * r <= 2 * AMax * Abs(dist)}
  <1>1. IsFiniteSet(1..VMax)
    BY FS_Interval, PipelineAssumption
  <1>2. S \subseteq 1..VMax
    OBVIOUS
  <1>3. IsFiniteSet(S)
    BY <1>1, <1>2, FS_Subset
  <1> QED BY <1>3, FS_CardinalityType DEF StoppingSpeed

LEMMA QuotientType ==
    ASSUME NEW n \in Int, NEW d \in Nat \ {0} PROVE Quotient(n, d) \in Int
  BY DEF Quotient

LEMMA ProductPositive ==
    ASSUME NEW a \in Nat \ {0}, NEW b \in Nat \ {0} PROVE a * b \in Nat \ {0}
  OBVIOUS

LEMMA ApproachType ==
    ASSUME NEW dist \in Int PROVE Approach(dist) \in Int
  <1> DEFINE unit == AMax * JMax
             ramp == VMax * JMax + AMax * AMax
             tau == IF ramp > unit THEN ramp ELSE unit
  <1>1. unit \in Nat \ {0} /\ VMax * JMax \in Nat \ {0} /\ AMax * AMax \in Nat \ {0}
    BY PipelineAssumption, ProductPositive
  <1>2. ramp \in Nat \ {0}
    BY <1>1
  <1>3. tau \in Nat \ {0}
    BY <1>1, <1>2
  <1>4. dist * unit \in Int
    BY <1>1
  <1>5. Quotient(dist * unit, tau) \in Int
    <2> HIDE DEF tau, unit, ramp
    <2> QED BY <1>3, <1>4, QuotientType
  <1> QED BY <1>5 DEF Approach

LEMMA DesiredSpeedType ==
    ASSUME NEW dist \in Int PROVE DesiredSpeed(dist) \in Int
  BY ApproachType, StoppingSpeedType, SymmetricClamp DEF DesiredSpeed

-----------------------------------------------------------------------------
(* One turn of the limiter.                                                *)

\* The limiter keeps a speed and an acceleration it could have asked for.
RatesKept ==
    declared => /\ -VMax <= lim.vel /\ lim.vel <= VMax
                /\ -AMax <= lim.acc /\ lim.acc <= AMax

LimType == lim \in [pos : Int, vel : Int, acc : Int]

LEMMA NextAccBounds ==
    ASSUME LimType, declared, RatesKept, NEW v \in Int
    PROVE  /\ NextAcc(v) \in Int
           /\ -AMax <= NextAcc(v) /\ NextAcc(v) <= AMax
           /\ -JMax <= NextAcc(v) - lim.acc /\ NextAcc(v) - lim.acc <= JMax
  <1> DEFINE d == Clamp(Clamp(v - lim.vel, -AMax, AMax) - lim.acc, -JMax, JMax)
  <1>1. lim.vel \in Int /\ lim.acc \in Int
    BY DEF LimType
  <1>2. Clamp(v - lim.vel, -AMax, AMax) \in Int
    BY <1>1, Rates, SymmetricClamp
  <1>3. d \in Int /\ -JMax <= d /\ d <= JMax
    BY <1>1, <1>2, Rates, SymmetricClamp
  <1>4. NextAcc(v) = Clamp(lim.acc + d, -AMax, AMax)
    <2>1. d + lim.acc = lim.acc + d
      BY <1>1, <1>3
    <2> QED BY <2>1 DEF NextAcc
  <1> HIDE DEF d
  <1>5. NextAcc(v) \in Int /\ -AMax <= NextAcc(v) /\ NextAcc(v) <= AMax
    BY <1>1, <1>3, <1>4, Rates, SymmetricClamp
  <1>6. -JMax <= NextAcc(v) - lim.acc /\ NextAcc(v) - lim.acc <= JMax
    <2>1. -AMax \in Int /\ AMax \in Int /\ -AMax <= lim.acc /\ lim.acc <= AMax
      BY Rates DEF RatesKept
    <2> QED BY <1>1, <1>3, <1>4, <2>1, Rates, ClampShrinks
  <1> QED BY <1>5, <1>6

LEMMA NextVelBounds ==
    ASSUME LimType, declared, RatesKept, NEW a \in Int, -AMax <= a, a <= AMax
    PROVE  /\ NextVel(a) \in Int
           /\ -VMax <= NextVel(a) /\ NextVel(a) <= VMax
           /\ -AMax <= NextVel(a) - lim.vel /\ NextVel(a) - lim.vel <= AMax
  <1>1. lim.vel \in Int
    BY DEF LimType
  <1>2. NextVel(a) \in Int /\ -VMax <= NextVel(a) /\ NextVel(a) <= VMax
    BY <1>1, Rates, SymmetricClamp DEF NextVel
  <1>3. -AMax <= NextVel(a) - lim.vel /\ NextVel(a) - lim.vel <= AMax
    <2>1. -VMax \in Int /\ VMax \in Int /\ -VMax <= lim.vel /\ lim.vel <= VMax
      BY Rates DEF RatesKept
    <2> QED BY <1>1, <2>1, Rates, ClampShrinks DEF NextVel
  <1> QED BY <1>2, <1>3

\* Everything the properties need of a turn with declared limits.
LEMMA LimitedBounds ==
    ASSUME LimType, declared, RatesKept, NEW target \in Int
    PROVE  /\ Limited(target) \in [pos : Int, vel : Int, acc : Int]
           /\ Lo <= Limited(target).pos /\ Limited(target).pos <= Hi
           /\ -VMax <= Limited(target).vel /\ Limited(target).vel <= VMax
           /\ -AMax <= Limited(target).acc /\ Limited(target).acc <= AMax
           /\ Abs(Limited(target).vel) <= VMax
           /\ Abs(Limited(target).vel - lim.vel) <= AMax
           /\ Abs(Limited(target).acc - lim.acc) <= JMax
           /\ Limited(target).pos = Clamp(lim.pos + Limited(target).vel, Lo, Hi)
  <1> DEFINE a == NextAcc(DesiredSpeed(target - lim.pos))
             v == NextVel(a)
  <1>1. lim.pos \in Int /\ lim.vel \in Int /\ lim.acc \in Int
    BY DEF LimType
  <1>2. DesiredSpeed(target - lim.pos) \in Int
    BY <1>1, DesiredSpeedType
  <1>3. /\ a \in Int /\ -AMax <= a /\ a <= AMax
        /\ -JMax <= a - lim.acc /\ a - lim.acc <= JMax
    BY <1>2, NextAccBounds
  <1> HIDE DEF a
  <1>4. /\ v \in Int /\ -VMax <= v /\ v <= VMax
        /\ -AMax <= v - lim.vel /\ v - lim.vel <= AMax
    BY <1>3, NextVelBounds
  <1> HIDE DEF v
  <1>5. Limited(target) = [pos |-> Clamp(lim.pos + v, Lo, Hi), vel |-> v, acc |-> a]
    BY DEF Limited, v, a
  <1>6. /\ Clamp(lim.pos + v, Lo, Hi) \in Int
        /\ Lo <= Clamp(lim.pos + v, Lo, Hi) /\ Clamp(lim.pos + v, Lo, Hi) <= Hi
    <2>1. lim.pos + v \in Int
      BY <1>1, <1>4
    <2> QED BY <2>1, Limits, ClampBounds
  <1>7. Abs(v) <= VMax /\ Abs(v - lim.vel) <= AMax /\ Abs(a - lim.acc) <= JMax
    BY <1>1, <1>3, <1>4, Rates DEF Abs
  <1> QED BY <1>3, <1>4, <1>5, <1>6, <1>7

LEMMA SanitizeType ==
    ASSUME NEW v \in Value, NEW last \in Int
    PROVE  Sanitize(v, last) \in Int
  <1> DEFINE x == IF v = NaN THEN last ELSE v
  <1>1. x \in Int
    BY DEF Value
  <1>2. Clamp(x, Lo, Hi) \in Int
    BY <1>1, Limits, ClampBounds
  <1> QED BY <1>1, <1>2 DEF Sanitize, Geometric

LEMMA LimitType ==
    ASSUME LimType, RatesKept, NEW target \in Int, declared \in BOOLEAN
    PROVE  Limit(target) \in [pos : Int, vel : Int, acc : Int]
  <1>1. CASE declared
    BY <1>1, LimitedBounds DEF Limit
  <1>2. CASE ~declared
    BY <1>2 DEF Limit, Unlimited, LimType
  <1> QED BY <1>1, <1>2

-----------------------------------------------------------------------------
(* Types.                                                                  *)

ProfileType == declared \in BOOLEAN /\ stop \in {"zeros", "action"} /\ padding \in BOOLEAN
RtType == rt_valid \in Int \cup {Absent} /\ rt_safe \in Int
BusType == bus \in Seq(Value \cup {Absent}) /\ Len(bus) <= CmdCap
HalType == hal_safe \in Int /\ LimType /\ latched \in BOOLEAN
FrameType == frame \in [from : {"nobody", "limiter", "padding"}, val : Int]
RobotType == robot \in Int /\ followed \in BOOLEAN

LEMMA PipelineTypeParts ==
    PipelineTypeOK <=> /\ ProfileType /\ RtType /\ BusType
                       /\ HalType /\ FrameType /\ RobotType
  BY DEF PipelineTypeOK, ProfileType, RtType, BusType, HalType, LimType,
         FrameType, RobotType

\* The bus holds at most CmdCap values, each a number, NaN or a short vector.
LEMMA BusAfterPut ==
    ASSUME BusType, NEW v \in Value \cup {Absent}, PutOnBus(v)
    PROVE  BusType'
  <1>1. Len(bus) < CmdCap /\ bus' = Append(bus, v) /\ CmdCap \in Nat
    BY PipelineAssumption DEF PutOnBus
  <1>2. bus' \in Seq(Value \cup {Absent}) /\ Len(bus') = Len(bus) + 1
    BY <1>1 DEF BusType
  <1> QED BY <1>1, <1>2 DEF BusType

LEMMA BusAfterTake ==
    ASSUME BusType, bus # <<>>, bus' = Tail(bus)
    PROVE  BusType' /\ Head(bus) \in Value \cup {Absent}
  <1>1. CmdCap \in Nat
    BY PipelineAssumption
  <1>2. /\ Head(bus) \in Value \cup {Absent}
        /\ Tail(bus) \in Seq(Value \cup {Absent}) /\ Len(Tail(bus)) = Len(bus) - 1
    BY DEF BusType
  <1> QED BY <1>1, <1>2 DEF BusType

\* The history agrees with the frame and the limiter.
FollowedAgrees ==
    followed => /\ robot = lim.pos
                /\ declared => Lo <= lim.pos /\ lim.pos <= Hi

FramedInLimits ==
    declared /\ frame.from = "limiter" => Lo <= frame.val /\ frame.val <= Hi

PipelineInv == PipelineTypeOK /\ RatesKept /\ FollowedAgrees /\ FramedInLimits

LEMMA PipelineInvInit == PipelineInit => PipelineInv
  <1> SUFFICES ASSUME PipelineInit PROVE PipelineInv
    OBVIOUS
  <1>1. Home \in Int /\ CmdCap \in Nat
    BY PipelineAssumption
  <1>2. bus \in Seq(Value \cup {Absent}) /\ Len(bus) <= CmdCap
    BY <1>1 DEF PipelineInit
  <1>3. PipelineTypeOK
    <2>1. /\ lim = [pos |-> 0, vel |-> 0, acc |-> 0]
          /\ frame = [from |-> "nobody", val |-> 0]
          /\ hal_safe = 0 /\ latched = FALSE
      BY DEF PipelineInit
    <2>2. ProfileType /\ RtType
      BY DEF PipelineInit, ProfileType, RtType
    <2>3. BusType
      BY <1>2 DEF BusType
    <2>4. HalType
      <3>1. LimType
        BY <2>1 DEF LimType
      <3>2. hal_safe \in Int
        BY <2>1
      <3>3. latched \in BOOLEAN
        BY <2>1
      <3> QED BY <3>1, <3>2, <3>3 DEF HalType
    <2>5. FrameType
      BY <2>1 DEF FrameType
    <2>6. RobotType
      BY <1>1 DEF PipelineInit, RobotType
    <2> QED BY <2>2, <2>3, <2>4, <2>5, <2>6, PipelineTypeParts
  <1>4. RatesKept
    BY Rates DEF PipelineInit, RatesKept
  <1>5. FollowedAgrees /\ FramedInLimits
    BY DEF PipelineInit, FollowedAgrees, FramedInLimits
  <1> QED BY <1>3, <1>4, <1>5 DEF PipelineInv

\* What one clamped command does, with or without declared limits.
LEMMA WriteEffect ==
    ASSUME PipelineInv, NEW arrives \in BOOLEAN, WriteCommand(arrives)
    PROVE  /\ hal_safe' \in Int /\ LimType'
           /\ frame' = [from |-> "limiter", val |-> lim'.pos]
           /\ robot' = IF arrives THEN lim'.pos ELSE robot
           /\ followed' = arrives
           /\ declared =>
                /\ Lo <= lim'.pos /\ lim'.pos <= Hi
                /\ -VMax <= lim'.vel /\ lim'.vel <= VMax
                /\ -AMax <= lim'.acc /\ lim'.acc <= AMax
                /\ Abs(lim'.vel) <= VMax
                /\ Abs(lim'.vel - lim.vel) <= AMax
                /\ Abs(lim'.acc - lim.acc) <= JMax
                /\ lim'.pos = Clamp(lim.pos + lim'.vel, Lo, Hi)
  <1> DEFINE v == Sanitize(Head(bus), hal_safe)
  <1>1. BusType /\ LimType /\ hal_safe \in Int /\ declared \in BOOLEAN /\ RatesKept
    BY PipelineTypeParts DEF PipelineInv, HalType, ProfileType
  <1>2. bus # <<>> /\ bus' = Tail(bus) /\ Head(bus) # Absent
    BY DEF WriteCommand
  <1>3. Head(bus) \in Value
    BY <1>1, <1>2, BusAfterTake
  <1>4. v \in Int
    BY <1>1, <1>3, SanitizeType
  <1>5. /\ hal_safe' = v /\ lim' = Limit(v) /\ followed' = arrives
        /\ frame' = [from |-> "limiter", val |-> Limit(v).pos]
        /\ robot' = IF arrives THEN Limit(v).pos ELSE robot
    BY DEF WriteCommand
  <1> HIDE DEF v
  <1>6. Limit(v) \in [pos : Int, vel : Int, acc : Int]
    BY <1>1, <1>4, LimitType
  <1>7. declared => Limit(v) = Limited(v)
    BY DEF Limit
  <1>8. CASE declared
    BY <1>1, <1>4, <1>5, <1>6, <1>7, <1>8, LimitedBounds DEF LimType
  <1>9. CASE ~declared
    BY <1>4, <1>5, <1>6, <1>9 DEF LimType
  <1> QED BY <1>1, <1>8, <1>9

LEMMA PipelineInvStep == PipelineInv /\ [PipelineNext]_pipeline_vars => PipelineInv'
  <1> SUFFICES ASSUME PipelineInv, [PipelineNext]_pipeline_vars
               PROVE  PipelineInv'
    OBVIOUS
  <1>0. /\ ProfileType /\ RtType /\ BusType /\ HalType /\ FrameType /\ RobotType
        /\ RatesKept /\ FollowedAgrees /\ FramedInLimits
    BY PipelineTypeParts DEF PipelineInv
  \* Steps that leave the HAL, the frame and the robot alone.
  <1>a. ASSUME UNCHANGED <<pipeline_profile, pipeline_hal, latched, frame, robot, followed>>,
               RtType', BusType'
        PROVE  PipelineInv'
    <2>1. ProfileType' /\ HalType' /\ FrameType' /\ RobotType'
      BY <1>0, <1>a DEF pipeline_profile, pipeline_hal, ProfileType, HalType,
                        LimType, FrameType, RobotType
    <2>2. RatesKept' /\ FollowedAgrees' /\ FramedInLimits'
      BY <1>0, <1>a DEF pipeline_profile, pipeline_hal, RatesKept,
                        FollowedAgrees, FramedInLimits
    <2> QED BY <1>a, <2>1, <2>2, PipelineTypeParts DEF PipelineInv, PipelineTypeOK, ProfileType, RtType, BusType, HalType, LimType, FrameType, RobotType
  <1>1. ASSUME NEW taken \in SkillValues \cup {Empty}, RtFrame(taken) PROVE PipelineInv'
    <2> DEFINE v == IF taken = Empty THEN rt_valid ELSE taken
               cmd == IF v = Absent THEN Absent ELSE Sanitize(v, rt_safe)
    <2>1. v \in Value \cup {Absent} /\ rt_safe \in Int
      BY <1>0, PipelineAssumption DEF RtType, Value
    <2>2. cmd \in Int \cup {Absent} /\ (v # Absent => cmd \in Int)
      BY <2>1, SanitizeType
    <2>3. PutOnBus(cmd) /\ rt_valid' = cmd /\ rt_safe' = (IF v = Absent THEN rt_safe ELSE cmd)
      BY <1>1 DEF RtFrame
    <2>4. UNCHANGED <<pipeline_profile, pipeline_hal, latched, frame, robot, followed>>
      BY <1>1 DEF RtFrame
    <2> HIDE DEF v, cmd
    <2>5. RtType'
      BY <2>1, <2>2, <2>3 DEF RtType
    <2>6. BusType'
      BY <1>0, <2>2, <2>3, BusAfterPut DEF Value
    <2> QED BY <1>a, <2>4, <2>5, <2>6
  <1>2. ASSUME NEW v \in OtherValues, OtherPut(v) PROVE PipelineInv'
    <2>1. BusType'
      BY <1>0, <1>2, BusAfterPut, PipelineAssumption DEF OtherPut
    <2>2. RtType'
      BY <1>0, <1>2 DEF OtherPut, pipeline_rt, RtType
    <2> QED BY <1>a, <1>2, <2>1, <2>2 DEF OtherPut
  <1>3. CASE DropCommand
    <2>1. BusType'
      BY <1>0, <1>3, BusAfterTake DEF DropCommand
    <2>2. RtType'
      BY <1>0, <1>3 DEF DropCommand, pipeline_rt, RtType
    <2> QED BY <1>a, <1>3, <2>1, <2>2 DEF DropCommand
  <1>4. ASSUME NEW arrives \in BOOLEAN, WriteCommand(arrives) PROVE PipelineInv'
    <2>1. /\ UNCHANGED <<pipeline_profile, pipeline_rt, latched>>
          /\ bus # <<>> /\ bus' = Tail(bus)
      BY <1>4 DEF WriteCommand
    <2>2. BusType'
      BY <1>0, <2>1, BusAfterTake
    <2>3. ProfileType' /\ RtType' /\ declared' = declared
      BY <1>0, <2>1 DEF pipeline_profile, pipeline_rt, ProfileType, RtType
    <2>4. HalType' /\ FrameType' /\ RobotType'
      BY <1>0, <1>4, <2>1, WriteEffect DEF HalType, FrameType, RobotType, LimType
    <2>5. RatesKept' /\ FollowedAgrees' /\ FramedInLimits'
      BY <1>4, <2>3, WriteEffect DEF RatesKept, FollowedAgrees, FramedInLimits
    <2> QED BY <2>2, <2>3, <2>4, <2>5 DEF PipelineInv, PipelineTypeOK, ProfileType, RtType, BusType, HalType, LimType, FrameType, RobotType
  <1>5. ASSUME NEW arrives \in BOOLEAN, WriteShortCommand(arrives) PROVE PipelineInv'
    <2>1. /\ UNCHANGED <<pipeline_profile, pipeline_rt, pipeline_hal, latched>>
          /\ bus # <<>> /\ bus' = Tail(bus) /\ followed' = FALSE
          /\ frame' = [from |-> IF padding THEN "padding" ELSE "nobody", val |-> 0]
          /\ robot' = IF padding /\ arrives THEN 0 ELSE robot
      BY <1>5 DEF WriteShortCommand
    <2>2. BusType'
      BY <1>0, <2>1, BusAfterTake
    <2>3. ProfileType' /\ RtType' /\ HalType'
      BY <1>0, <2>1 DEF pipeline_profile, pipeline_rt, pipeline_hal,
                        ProfileType, RtType, HalType, LimType
    <2>4. FrameType' /\ RobotType'
      <3>1. frame' \in [from : {"nobody", "limiter", "padding"}, val : Int]
        BY <2>1
      <3>2. robot \in Int /\ followed' = FALSE
        BY <1>0, <2>1 DEF RobotType
      <3>3. robot' \in Int
        BY <2>1, <3>2
      <3> QED BY <3>1, <3>2, <3>3 DEF FrameType, RobotType
    <2>5. RatesKept' /\ FollowedAgrees' /\ FramedInLimits'
      BY <1>0, <2>1 DEF pipeline_profile, pipeline_hal, RatesKept, FollowedAgrees,
                        FramedInLimits
    <2> QED BY <2>2, <2>3, <2>4, <2>5 DEF PipelineInv, PipelineTypeOK, ProfileType, RtType, BusType, HalType, LimType, FrameType, RobotType
  <1>6. ASSUME NEW arrives \in BOOLEAN, Engage(arrives) PROVE PipelineInv'
    <2>1. /\ UNCHANGED <<pipeline_profile, pipeline_rt, bus, pipeline_hal, frame>>
          /\ latched' = TRUE /\ followed' = FALSE
          /\ robot' \in {0, robot}
      BY <1>6 DEF Engage
    <2>2. /\ ProfileType' /\ RtType' /\ BusType' /\ HalType' /\ FrameType' /\ RobotType'
      <3>1. ProfileType' /\ RtType' /\ BusType' /\ HalType'
        BY <1>0, <2>1 DEF pipeline_profile, pipeline_rt, pipeline_hal, ProfileType, RtType,
                          BusType, HalType, LimType
      <3>2. FrameType'
        BY <1>0, <2>1 DEF FrameType
      <3>3. robot \in Int /\ followed' = FALSE
        BY <1>0, <2>1 DEF RobotType
      <3>4. robot' \in Int
        BY <2>1, <3>3
      <3> QED BY <3>1, <3>2, <3>3, <3>4 DEF RobotType
    <2>3. RatesKept' /\ FollowedAgrees' /\ FramedInLimits'
      BY <1>0, <2>1 DEF pipeline_profile, pipeline_hal, RatesKept, FollowedAgrees,
                        FramedInLimits
    <2> QED BY <2>2, <2>3 DEF PipelineInv, PipelineTypeOK, ProfileType, RtType, BusType, HalType, LimType, FrameType, RobotType
  <1>7. ASSUME Release \/ UNCHANGED pipeline_vars PROVE PipelineInv'
    <2>1. /\ UNCHANGED <<pipeline_profile, pipeline_rt, bus, pipeline_hal, frame, robot, followed>>
          /\ latched' \in {FALSE, latched}
      BY <1>7 DEF Release, pipeline_vars
    <2>2. /\ ProfileType' /\ RtType' /\ BusType' /\ HalType' /\ FrameType' /\ RobotType'
      BY <1>0, <2>1 DEF pipeline_profile, pipeline_rt, pipeline_hal, ProfileType, RtType,
                        BusType, HalType, LimType, FrameType, RobotType
    <2>3. RatesKept' /\ FollowedAgrees' /\ FramedInLimits'
      BY <1>0, <2>1 DEF pipeline_profile, pipeline_hal, RatesKept, FollowedAgrees,
                        FramedInLimits
    <2> QED BY <2>2, <2>3 DEF PipelineInv, PipelineTypeOK, ProfileType, RtType, BusType, HalType, LimType, FrameType, RobotType
  <1> QED BY <1>1, <1>2, <1>3, <1>4, <1>5, <1>6, <1>7 DEF PipelineNext

LEMMA PipelineInvariant == PipelineSpec => []PipelineInv
  BY PipelineInvInit, PipelineInvStep, PTL DEF PipelineSpec

-----------------------------------------------------------------------------
(***************************************************************************)
(* Whatever is published, every variable keeps its type: no value that is  *)
(* not finite passes a sanitizer, and the subscription keeps its capacity. *)
(***************************************************************************)
THEOREM PipelineTypeCorrect == PipelineSpec => []PipelineTypeOK
  <1>1. PipelineInv => PipelineTypeOK
    BY DEF PipelineInv
  <1> QED BY <1>1, PipelineInvariant, PTL

LEMMA CommandFramed == PipelineInv => CommandsInLimits
  BY Limits DEF PipelineInv, PipelineTypeOK, FramedInLimits, CommandsInLimits

(***************************************************************************)
(* A command that names the joint is inside its limits when it is encoded, *)
(* for all limits, rates and publishers (hardware_abstraction.rs:554-569). *)
(***************************************************************************)
THEOREM LimitsKept == PipelineSpec => []CommandsInLimits
  BY CommandFramed, PipelineInvariant, PTL

\* One step from a followed command to another.
LEMMA SmoothStep ==
    ASSUME PipelineInv, [PipelineNext]_pipeline_vars, declared, followed, followed'
    PROVE  Abs(robot' - robot) <= VMax
  <1>0. robot \in Int /\ lim.pos \in Int /\ robot = lim.pos /\ Lo <= lim.pos /\ lim.pos <= Hi
    BY DEF PipelineInv, PipelineTypeOK, FollowedAgrees
  <1>1. CASE robot' = robot
    BY <1>0, <1>1, Rates DEF Abs
  <1>2. CASE \E arrives \in BOOLEAN : WriteCommand(arrives)
    <2> PICK arrives \in BOOLEAN : WriteCommand(arrives)
      BY <1>2
    <2>1. /\ arrives /\ robot' = lim'.pos /\ lim'.vel \in Int
          /\ -VMax <= lim'.vel /\ lim'.vel <= VMax
          /\ lim'.pos = Clamp(lim.pos + lim'.vel, Lo, Hi) /\ lim'.pos \in Int
      BY WriteEffect DEF LimType
    <2>2. -VMax <= lim'.pos - lim.pos /\ lim'.pos - lim.pos <= VMax
      BY <1>0, <2>1, Limits, Rates, ClampShrinks
    <2> QED BY <1>0, <2>1, <2>2, Rates DEF Abs
  <1>3. robot' = robot \/ (\E arrives \in BOOLEAN : WriteCommand(arrives))
    BY DEF PipelineNext, pipeline_vars, RtFrame, OtherPut, DropCommand,
           WriteShortCommand, Engage, Release
  <1> QED BY <1>1, <1>2, <1>3

(***************************************************************************)
(* The robot is never asked to move faster than the joint's speed between  *)
(* two commands that both reached it (jerk_limiter.rs:119-127).            *)
(***************************************************************************)
THEOREM SpeedKept == PipelineSpec => SmoothWhileFollowed
  <1>1. PipelineInv /\ [PipelineNext]_pipeline_vars
          => [declared /\ followed /\ followed' => Abs(robot' - robot) <= VMax]_pipeline_vars
    BY SmoothStep
  <1> QED BY <1>1, PipelineInvariant, PTL DEF PipelineSpec, SmoothWhileFollowed

LEMMA JerkStep ==
    ASSUME PipelineInv, [PipelineNext]_pipeline_vars, declared, lim' # lim,
           frame'.val > Lo, frame'.val < Hi
    PROVE  /\ frame'.val - lim.pos = lim'.vel
           /\ Abs(lim'.vel) <= VMax
           /\ Abs(lim'.vel - lim.vel) <= AMax
           /\ Abs(lim'.acc - lim.acc) <= JMax
  <1>1. \E arrives \in BOOLEAN : WriteCommand(arrives)
    BY DEF PipelineNext, pipeline_vars, pipeline_hal, RtFrame, OtherPut, DropCommand,
           WriteShortCommand, Engage, Release
  <1> PICK arrives \in BOOLEAN : WriteCommand(arrives)
    BY <1>1
  <1>2. /\ frame'.val = lim'.pos /\ lim'.vel \in Int /\ lim'.pos \in Int
        /\ lim'.pos = Clamp(lim.pos + lim'.vel, Lo, Hi)
        /\ Abs(lim'.vel) <= VMax
        /\ Abs(lim'.vel - lim.vel) <= AMax
        /\ Abs(lim'.acc - lim.acc) <= JMax
    BY WriteEffect DEF LimType
  <1>3. lim.pos \in Int
    BY DEF PipelineInv, PipelineTypeOK
  <1>4. lim'.pos = lim.pos + lim'.vel
    BY <1>2, <1>3, Limits DEF Clamp
  <1> QED BY <1>2, <1>3, <1>4

(***************************************************************************)
(* Away from the limits a command continues the curve of the last one, in  *)
(* speed, acceleration and jerk (jerk_limiter.rs:52-58).                   *)
(***************************************************************************)
THEOREM ShockLimited == PipelineSpec => JerkBounded
  <1>1. PipelineInv /\ [PipelineNext]_pipeline_vars
          => [declared /\ lim' # lim /\ frame'.val > Lo /\ frame'.val < Hi
                => /\ frame'.val - lim.pos = lim'.vel
                   /\ Abs(lim'.vel) <= VMax
                   /\ Abs(lim'.vel - lim.vel) <= AMax
                   /\ Abs(lim'.acc - lim.acc) <= JMax]_pipeline_vars
    BY JerkStep
  <1> QED BY <1>1, PipelineInvariant, PTL DEF PipelineSpec, JerkBounded
=============================================================================
