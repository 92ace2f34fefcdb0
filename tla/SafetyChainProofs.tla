--------------------------- MODULE SafetyChainProofs ---------------------------
(***************************************************************************)
(* The composed chain keeps what the HAL's loop promises under any         *)
(* publishers, because each of its steps is a step of the loop and of a    *)
(* publisher; and a trip of the watchdog is a latch.                       *)
(***************************************************************************)
EXTENDS SafetyChain, SequenceTheorems, TLAPS

-----------------------------------------------------------------------------
(* The HAL's I/O loop, for every transport, queue capacity and number of   *)
(* link failures, and any publishers on the bus.                           *)

\* What a put leaves in a queue that was within its capacity.
LEMMA PutWithinCapacity ==
    ASSUME NEW S, NEW q \in Seq(S), NEW e \in S, Len(q) < QCap
    PROVE  /\ Append(q, e) \in Seq(S)
           /\ Len(Append(q, e)) <= QCap
  BY FieldbusAssumption

\* What a reception takes from a queue, and what it leaves.
LEMMA TakeHead ==
    ASSUME NEW S, NEW q \in Seq(S), q # <<>>, Len(q) <= QCap
    PROVE  /\ Head(q) \in S
           /\ Tail(q) \in Seq(S)
           /\ Len(Tail(q)) <= QCap
  BY FieldbusAssumption

\* The parts of the type invariant that no queue operation needs.
LoopTypeOK ==
    /\ hal \in {"connect", "select", "write", "write_estop", "report", "sleep",
                "wedged", "dead"}
    /\ pending \in Command
    /\ estop_active \in BOOLEAN /\ lost \in BOOLEAN
    /\ status \in [online : BOOLEAN, estop : BOOLEAN]
    /\ link \in {"up", "down", "jam"} /\ faults \in 0..MaxFaults
    /\ drive \in Command \cup {"estop"}

QueueTypeOK ==
    /\ cmdq \in Seq(Command) /\ Len(cmdq) <= QCap
    /\ estopq \in Seq(BOOLEAN) /\ Len(estopq) <= QCap

LEMMA TypeParts == FieldbusTypeOK <=> LoopTypeOK /\ QueueTypeOK
  BY DEF FieldbusTypeOK, LoopTypeOK, QueueTypeOK

\* A publication either tells the arguments and goes on, or kills the loop.
LEMMA PublishEffect ==
    ASSUME NEW online \in BOOLEAN, NEW estop \in BOOLEAN, NEW next,
           status \in [online : BOOLEAN, estop : BOOLEAN],
           PublishStatus(online, estop, next)
    PROVE  /\ status' \in [online : BOOLEAN, estop : BOOLEAN]
           /\ hal' = "dead" \/ (hal' = next /\ status'.estop = estop)
  <1>1. CASE hal' = next /\ status' = [online |-> online, estop |-> estop]
    <2>1. status' \in [online : BOOLEAN, estop : BOOLEAN]
      BY <1>1
    <2>2. status'.estop = estop
      BY <1>1
    <2> QED BY <1>1, <2>1, <2>2
  <1>2. CASE hal' = "dead" /\ status' = status
    BY <1>2
  <1> QED BY <1>1, <1>2 DEF PublishStatus

LEMMA FieldbusTypeStep == FieldbusTypeOK /\ [FieldbusNext]_fieldbus_vars => FieldbusTypeOK'
  <1> SUFFICES ASSUME LoopTypeOK, QueueTypeOK, [FieldbusNext]_fieldbus_vars
               PROVE  LoopTypeOK' /\ QueueTypeOK'
      BY TypeParts DEF FieldbusTypeOK, LoopTypeOK, QueueTypeOK
  <1> USE DEF hal_vars, link_vars
  <1>1. CASE ConnectFail
    <2>1. /\ status' \in [online : BOOLEAN, estop : BOOLEAN]
          /\ hal' \in {"dead", "sleep"}
      BY <1>1, PublishEffect DEF ConnectFail, LoopTypeOK
    <2> QED BY <1>1, <2>1 DEF ConnectFail, LoopTypeOK, QueueTypeOK
  <1>2. CASE Connect
    <2>1. /\ status' \in [online : BOOLEAN, estop : BOOLEAN]
          /\ hal' \in {"dead", "select"}
      BY <1>2, PublishEffect DEF Connect, LoopTypeOK
    <2> QED BY <1>2, <2>1 DEF Connect, LoopTypeOK, QueueTypeOK
  <1>3. CASE Reconnect
    BY <1>3 DEF Reconnect, LoopTypeOK, QueueTypeOK
  <1>4. CASE Disconnect
    <2>1. /\ status' \in [online : BOOLEAN, estop : BOOLEAN]
          /\ hal' \in {"dead", "sleep"}
      BY <1>4, PublishEffect DEF Disconnect, LoopTypeOK
    <2> QED BY <1>4, <2>1 DEF Disconnect, LoopTypeOK, QueueTypeOK
  <1>5. CASE WriteCommand
    BY <1>5 DEF WriteCommand, LoopTypeOK, QueueTypeOK, Command
  <1>6. CASE WriteEstop
    BY <1>6 DEF WriteEstop, LoopTypeOK, QueueTypeOK
  <1>7. CASE ReportEstop
    <2>1. /\ status' \in [online : BOOLEAN, estop : BOOLEAN]
          /\ hal' \in {"dead", "select"}
      BY <1>7, PublishEffect DEF ReportEstop, LoopTypeOK
    <2> QED BY <1>7, <2>1 DEF ReportEstop, LoopTypeOK, QueueTypeOK
  <1>8. CASE RecvCommand
    <2>1. Head(cmdq) \in Command /\ Tail(cmdq) \in Seq(Command) /\ Len(Tail(cmdq)) <= QCap
      BY <1>8, TakeHead DEF RecvCommand, QueueTypeOK
    <2>2. LoopTypeOK'
      BY <1>8, <2>1 DEF RecvCommand, LoopTypeOK
    <2>3. QueueTypeOK'
      BY <1>8, <2>1 DEF RecvCommand, QueueTypeOK
    <2> QED BY <2>2, <2>3
  <1>9. CASE RecvEstop
    <2>1. Head(estopq) \in BOOLEAN /\ Tail(estopq) \in Seq(BOOLEAN)
          /\ Len(Tail(estopq)) <= QCap
      BY <1>9, TakeHead DEF RecvEstop, QueueTypeOK
    <2>2. LoopTypeOK'
      BY <1>9, <2>1 DEF RecvEstop, LoopTypeOK
    <2>3. QueueTypeOK'
      BY <1>9, <2>1 DEF RecvEstop, QueueTypeOK
    <2> QED BY <2>2, <2>3
  <1>10. CASE Wedge
    BY <1>10 DEF Wedge, LoopTypeOK, QueueTypeOK
  <1>11. CASE LinkFail
    BY <1>11, FieldbusAssumption DEF LinkFail, LoopTypeOK, QueueTypeOK
  <1>12. CASE LinkRestore
    BY <1>12 DEF LinkRestore, LoopTypeOK, QueueTypeOK
  <1>13. ASSUME NEW c \in Command,
                PutCommand(c) /\ UNCHANGED <<estopq, hal_vars, link_vars, drive>>
         PROVE  LoopTypeOK' /\ QueueTypeOK'
    <2>1. cmdq' \in Seq(Command) /\ Len(cmdq') <= QCap
      BY <1>13, PutWithinCapacity DEF PutCommand, QueueTypeOK
    <2> QED BY <1>13, <2>1 DEF LoopTypeOK, QueueTypeOK
  <1>14. ASSUME NEW b \in BOOLEAN,
                PutEstop(b) /\ UNCHANGED <<cmdq, hal_vars, link_vars, drive>>
         PROVE  LoopTypeOK' /\ QueueTypeOK'
    <2>1. estopq' \in Seq(BOOLEAN) /\ Len(estopq') <= QCap
      BY <1>14, PutWithinCapacity DEF PutEstop, QueueTypeOK
    <2> QED BY <1>14, <2>1 DEF LoopTypeOK, QueueTypeOK
  <1>15. CASE UNCHANGED fieldbus_vars
    BY <1>15 DEF fieldbus_vars, LoopTypeOK, QueueTypeOK
  <1> QED
    BY <1>1, <1>2, <1>3, <1>4, <1>5, <1>6, <1>7, <1>8, <1>9, <1>10, <1>11, <1>12,
       <1>13, <1>14, <1>15 DEF FieldbusNext, HalStep, HalOwnStep

(***************************************************************************)
(* The loop's state keeps its types and the queues their capacity.         *)
(***************************************************************************)
THEOREM FieldbusTypeCorrect == FieldbusSpec => []FieldbusTypeOK
  <1>1. FieldbusInit => FieldbusTypeOK
    <2> SUFFICES ASSUME FieldbusInit PROVE LoopTypeOK /\ QueueTypeOK
      BY TypeParts
    <2>1. QueueTypeOK
      BY FieldbusAssumption DEF FieldbusInit, QueueTypeOK
    <2>2. status \in [online : BOOLEAN, estop : BOOLEAN]
      BY DEF FieldbusInit
    <2>3. faults \in 0..MaxFaults
      BY FieldbusAssumption DEF FieldbusInit
    <2>4. /\ hal = "connect" /\ pending = "zero" /\ estop_active = FALSE
          /\ link = "up" /\ drive = "zero" /\ lost = FALSE
      BY DEF FieldbusInit
    <2>5. LoopTypeOK
      BY <2>2, <2>3, <2>4 DEF LoopTypeOK, Command
    <2> QED BY <2>1, <2>5
  <1> QED BY <1>1, FieldbusTypeStep, PTL DEF FieldbusSpec

-----------------------------------------------------------------------------
(***************************************************************************)
(* A command is being written only while the latch is released: the loop   *)
(* awaits the write before it looks at the estop subscription again.       *)
(***************************************************************************)
WriteOnlyReleased == hal = "write" => ~estop_active

LatchInv == WriteOnlyReleased /\ EstopHolds /\ StatusTellsLatch

LEMMA LatchStep ==
    FieldbusTypeOK /\ LatchInv /\ [FieldbusNext]_fieldbus_vars => LatchInv'
  <1> SUFFICES ASSUME LoopTypeOK, LatchInv, [FieldbusNext]_fieldbus_vars
               PROVE  LatchInv'
      BY TypeParts
  <1> USE DEF LatchInv, WriteOnlyReleased, EstopHolds, StatusTellsLatch, LoopTypeOK,
              hal_vars, link_vars
  <1>1. CASE ConnectFail
    BY <1>1 DEF ConnectFail, PublishStatus
  <1>2. CASE Connect
    BY <1>2 DEF Connect, PublishStatus
  <1>3. CASE Reconnect
    BY <1>3 DEF Reconnect
  <1>4. CASE Disconnect
    BY <1>4 DEF Disconnect, PublishStatus
  <1>5. CASE WriteCommand
    BY <1>5 DEF WriteCommand
  <1>6. CASE WriteEstop
    BY <1>6 DEF WriteEstop
  <1>7. CASE ReportEstop
    BY <1>7 DEF ReportEstop, PublishStatus
  <1>8. CASE RecvCommand
    BY <1>8 DEF RecvCommand
  <1>9. CASE RecvEstop
    BY <1>9 DEF RecvEstop
  <1>10. CASE Wedge
    BY <1>10 DEF Wedge
  <1>11. CASE LinkFail
    BY <1>11 DEF LinkFail
  <1>12. CASE LinkRestore
    BY <1>12 DEF LinkRestore
  <1>13. CASE UNCHANGED <<hal_vars, link_vars, drive>>
    BY <1>13
  <1> QED
    BY <1>1, <1>2, <1>3, <1>4, <1>5, <1>6, <1>7, <1>8, <1>9, <1>10, <1>11, <1>12,
       <1>13 DEF FieldbusNext, HalStep, HalOwnStep, fieldbus_vars

LEMMA LatchInvariant == FieldbusSpec => []LatchInv
  <1>1. FieldbusInit => LatchInv
    BY DEF FieldbusInit, LatchInv, WriteOnlyReleased, EstopHolds, StatusTellsLatch
  <1> QED BY <1>1, LatchStep, FieldbusTypeCorrect, PTL DEF FieldbusSpec

(***************************************************************************)
(* Once the frame of the latch has reached the robot no command moves it,  *)
(* whoever publishes on the bus and however often the link is lost.        *)
(***************************************************************************)
THEOREM LatchHoldsRobot == FieldbusSpec => []EstopHolds
  BY LatchInvariant, PTL DEF LatchInv

(***************************************************************************)
(* The published status tells the latch (UDP and TCP).                     *)
(***************************************************************************)
THEOREM StatusIsTrue == FieldbusSpec => []StatusTellsLatch
  BY LatchInvariant, PTL DEF LatchInv

-----------------------------------------------------------------------------
(* The chain.                                                              *)

LEMMA ChainStep == [Next]_vars => [FieldbusNext]_fieldbus_vars
  <1> SUFFICES ASSUME Next PROVE FieldbusNext \/ UNCHANGED fieldbus_vars
      BY DEF vars
  <1>1. CASE Hal(HalStep)
    BY <1>1 DEF Hal, FieldbusNext
  <1>2. CASE RtFrame \/ RtStall \/ RtResume \/ Age \/ WdTrip \/ WdReassert \/ WdRestored
    BY <1>2 DEF RtFrame, RtStall, RtResume, Age, WdTrip, WdReassert, WdRestored
  <1>3. CASE RtPut \/ WdPutZeros \/ WdPutReassert
    BY <1>3 DEF RtPut, WdPutZeros, WdPutReassert, FieldbusNext, Command
  <1>4. CASE WdPutEstop \/ WdPutRelease
    BY <1>4 DEF WdPutEstop, WdPutRelease, FieldbusNext
  <1>5. CASE OperatorPut
    BY <1>5 DEF OperatorPut, FieldbusNext
  <1>6. CASE Environment
    BY <1>6 DEF Environment, FieldbusNext
  <1> QED BY <1>1, <1>2, <1>3, <1>4, <1>5, <1>6 DEF Next, WdStep, WdLook, WdPut

(***************************************************************************)
(* The chain is one of the environments the loop is proved for: control    *)
(* loop, watchdog and operator are publishers like any other.              *)
(***************************************************************************)
THEOREM ImplementsFieldbus == Spec => FieldbusSpec
  <1>1. Init => FieldbusInit
    BY DEF Init
  <1> QED BY <1>1, ChainStep, PTL DEF Spec, FieldbusSpec

(***************************************************************************)
(* Once the frame of the estop has reached the robot, neither the control  *)
(* loop nor anything else moves it before the latch is released.           *)
(***************************************************************************)
THEOREM EstopHoldsInChain == Spec => []EstopHolds
  BY ImplementsFieldbus, LatchHoldsRobot, PTL

-----------------------------------------------------------------------------
ActorTypeOK ==
    /\ rt \in {"tick", "put", "stalled", "dead"}
    /\ stalls \in 0..MaxStalls /\ stale \in BOOLEAN
    /\ wd \in {"check", "zeros", "estop", "reassert", "release"}
    /\ tripped \in BOOLEAN
    /\ ops \in 0..MaxOps /\ held \in BOOLEAN /\ override \in BOOLEAN

LEMMA ActorTypeStep == ActorTypeOK /\ [Next]_vars => ActorTypeOK'
  <1> SUFFICES ASSUME ActorTypeOK, [Next]_vars PROVE ActorTypeOK'
      OBVIOUS
  <1> USE DEF ActorTypeOK, rt_vars, wd_vars, op_vars
  <1>1. CASE Hal(HalStep)
    BY <1>1 DEF Hal
  <1>2. CASE RtFrame \/ RtPut \/ RtResume \/ Age
    BY <1>2 DEF RtFrame, RtPut, RtResume, Age
  <1>3. CASE RtStall
    BY <1>3, ChainAssumption DEF RtStall
  <1>4. CASE WdTrip \/ WdReassert \/ WdRestored
    BY <1>4 DEF WdTrip, WdReassert, WdRestored
  <1>5. CASE WdPut
    BY <1>5 DEF WdPut, WdPutZeros, WdPutReassert, WdPutEstop, WdPutRelease
  <1>6. CASE OperatorPut
    BY <1>6, ChainAssumption DEF OperatorPut
  <1>7. CASE Environment
    BY <1>7 DEF Environment
  <1>8. CASE UNCHANGED vars
    BY <1>8 DEF vars
  <1> QED
    BY <1>1, <1>2, <1>3, <1>4, <1>5, <1>6, <1>7, <1>8 DEF Next, WdStep, WdLook

(***************************************************************************)
(* The state of every actor keeps its type and the queues their capacity.  *)
(***************************************************************************)
THEOREM ChainTypeCorrect == Spec => []TypeOK
  <1>1. Init => ActorTypeOK
    <2> SUFFICES ASSUME Init PROVE ActorTypeOK
      OBVIOUS
    <2>1. stalls \in 0..MaxStalls /\ ops \in 0..MaxOps
      BY ChainAssumption DEF Init
    <2> QED BY <2>1 DEF Init, ActorTypeOK
  <1>2. Spec => []ActorTypeOK
    BY <1>1, ActorTypeStep, PTL DEF Spec
  <1>3. ActorTypeOK /\ FieldbusTypeOK => TypeOK
    BY DEF ActorTypeOK, TypeOK
  <1> QED BY <1>2, <1>3, ImplementsFieldbus, FieldbusTypeCorrect, PTL

-----------------------------------------------------------------------------
\* What each kind of step does to the latch that is to come.
LEMMA PutDecidesLatch ==
    ASSUME estopq \in Seq(BOOLEAN), NEW b \in BOOLEAN, PutEstop(b)
    PROVE  LatchToCome' = b
  <1>1. estopq' = Append(estopq, b) /\ Len(estopq') = Len(estopq) + 1
    BY DEF PutEstop
  <1>2. estopq' # <<>> /\ estopq'[Len(estopq')] = b
    BY <1>1
  <1> QED BY <1>2 DEF LatchToCome

LEMMA ReceptionKeepsLatch ==
    ASSUME estopq \in Seq(BOOLEAN), RecvEstop
    PROVE  LatchToCome' = LatchToCome
  <1>1. estopq # <<>> /\ estopq' = Tail(estopq) /\ estop_active' = Head(estopq)
    BY DEF RecvEstop
  <1>2. /\ Len(estopq) \in Nat \ {0}
        /\ Len(estopq') = Len(estopq) - 1
        /\ \A i \in 1..Len(estopq') : estopq'[i] = estopq[i + 1]
        /\ estopq' \in Seq(BOOLEAN)
    BY <1>1, EmptySeq, HeadTailProperties
  <1>3. Head(estopq) = estopq[1]
    BY <1>1
  <1>4. CASE estopq' = <<>>
    <2>1. Len(estopq) = 1
      BY <1>2, <1>4
    <2> QED BY <1>1, <1>3, <1>4, <2>1 DEF LatchToCome
  <1>5. CASE estopq' # <<>>
    <2>1. Len(estopq') \in Nat \ {0}
      BY <1>2, <1>5, EmptySeq
    <2>2. estopq'[Len(estopq')] = estopq[Len(estopq)]
      BY <1>2, <2>1
    <2> QED BY <1>1, <1>5, <2>2 DEF LatchToCome
  <1> QED BY <1>4, <1>5

LEMMA OthersKeepLatch ==
    ASSUME estopq' = estopq, estop_active' = estop_active
    PROVE  LatchToCome' = LatchToCome
  BY DEF LatchToCome

LEMMA HalKeepsLatch ==
    ASSUME estopq \in Seq(BOOLEAN), HalStep
    PROVE  LatchToCome' = LatchToCome
  <1>1. CASE RecvEstop
    BY <1>1, ReceptionKeepsLatch
  <1>2. CASE ~RecvEstop
    <2>1. estopq' = estopq /\ estop_active' = estop_active
      BY <1>2 DEF HalStep, HalOwnStep, ConnectFail, Connect, Reconnect, Disconnect,
         WriteCommand, WriteEstop, ReportEstop, RecvCommand, Wedge
    <2> QED BY <2>1, OthersKeepLatch
  <1> QED BY <1>1, <1>2

(***************************************************************************)
(* Where monitor_loop is says what `tripped' is: it is swapped before the  *)
(* put it calls for.                                                       *)
(***************************************************************************)
PhaseMatchesTrip ==
    /\ wd \in {"zeros", "estop", "reassert"} => tripped
    /\ wd = "release" => ~tripped

TripInv == PhaseMatchesTrip /\ TripIsLatched

LEMMA TripStep == TypeOK /\ TripInv /\ [Next]_vars => TripInv'
  <1> SUFFICES ASSUME ActorTypeOK, estopq \in Seq(BOOLEAN), TripInv, [Next]_vars
               PROVE  TripInv'
      BY DEF TypeOK, FieldbusTypeOK, ActorTypeOK
  <1> USE DEF TripInv, PhaseMatchesTrip, TripIsLatched, ActorTypeOK, rt_vars, wd_vars,
              op_vars
  <1>1. CASE Hal(HalStep)
    BY <1>1, HalKeepsLatch DEF Hal
  <1>2. CASE RtFrame \/ RtPut \/ RtStall \/ RtResume \/ Age
    <2>1. LatchToCome' = LatchToCome
      BY <1>2, OthersKeepLatch
         DEF RtFrame, RtPut, RtStall, RtResume, Age, fieldbus_vars, hal_vars
    <2> QED BY <1>2, <2>1 DEF RtFrame, RtPut, RtStall, RtResume, Age
  <1>3. CASE WdLook \/ WdPutZeros \/ WdPutReassert
    <2>1. LatchToCome' = LatchToCome
      BY <1>3, OthersKeepLatch DEF WdLook, WdTrip, WdReassert, WdRestored, WdPutZeros,
         WdPutReassert, fieldbus_vars, hal_vars
    <2>2. CASE WdTrip
      BY <2>1, <2>2 DEF WdTrip
    <2>3. CASE WdReassert \/ WdPutReassert
      BY <2>1, <2>3 DEF WdReassert, WdPutReassert
    <2>4. CASE WdRestored
      BY <2>1, <2>4 DEF WdRestored
    <2>5. CASE WdPutZeros
      BY <2>1, <2>5 DEF WdPutZeros
    <2> QED BY <1>3, <2>2, <2>3, <2>4, <2>5 DEF WdLook
  <1>4. CASE WdPutEstop
    <2>1. LatchToCome' = TRUE
      BY <1>4, PutDecidesLatch DEF WdPutEstop
    <2> QED BY <1>4, <2>1 DEF WdPutEstop
  <1>5. CASE WdPutRelease
    <2>1. LatchToCome' = FALSE
      BY <1>5, PutDecidesLatch DEF WdPutRelease
    <2> QED BY <1>5, <2>1 DEF WdPutRelease
  <1>6. CASE OperatorPut
    <2>1. PICK b \in BOOLEAN : PutEstop(b) /\ held' = b /\ override' = TRUE
      BY <1>6 DEF OperatorPut
    <2>2. LatchToCome' = b
      BY <2>1, PutDecidesLatch
    <2> QED BY <1>6, <2>1, <2>2 DEF OperatorPut
  <1>7. CASE Environment
    <2>1. LatchToCome' = LatchToCome
      BY <1>7, OthersKeepLatch DEF Environment, LinkFail, LinkRestore, hal_vars
    <2> QED BY <1>7, <2>1 DEF Environment
  <1>8. CASE UNCHANGED vars
    <2>1. LatchToCome' = LatchToCome
      BY <1>8, OthersKeepLatch DEF vars, fieldbus_vars, hal_vars
    <2> QED BY <1>8, <2>1 DEF vars
  <1> QED
    BY <1>1, <1>2, <1>3, <1>4, <1>5, <1>6, <1>7, <1>8 DEF Next, WdStep, WdPut

LEMMA TripInvariant == Spec => []TripInv
  <1>1. Init => TripInv
    BY DEF Init, FieldbusInit, TripInv, PhaseMatchesTrip, TripIsLatched, LatchToCome
  <1> QED BY <1>1, TripStep, ChainTypeCorrect, PTL DEF Spec

(***************************************************************************)
(* The last word on the estop topic is the operator's if he spoke last,    *)
(* and else what the watchdog has said of `tripped'.                       *)
(***************************************************************************)
THEOREM TripLatched == Spec => []TripIsLatched
  BY TripInvariant, PTL DEF TripInv
=============================================================================
