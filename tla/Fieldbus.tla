------------------------------ MODULE Fieldbus ------------------------------
(***************************************************************************)
(* The I/O loop of io_bridge/hardware_abstraction.rs (run_serial_loop,     *)
(* run_udp_loop and run_tcp_loop, one control skeleton for the three) with *)
(* the two bus subscriptions it reads and the robot controller at the far  *)
(* end of the link.  Commands are told apart only by whether they ask for  *)
(* motion; telemetry is left to the models of the decoders, except that a  *)
(* decoder may never return (MayWedge).                                    *)
(*                                                                         *)
(* The Zenoh subscriptions are external: each is a bounded FIFO whose      *)
(* publisher waits while it is full (zenoh's default FifoChannel).         *)
(***************************************************************************)
EXTENDS Naturals, Sequences

CONSTANTS Transport,   \* "SERIAL", "UDP" or "TCP"
          QCap,        \* capacity of a subscription queue (256 in zenoh)
          MaxFaults,   \* bound on the link failures
          BusMayFail,  \* whether a put of the HAL itself may return an error
          MayWedge     \* whether drain_frames may loop forever

ASSUME FieldbusAssumption ==
    /\ Transport \in {"SERIAL", "UDP", "TCP"}
    /\ QCap \in Nat \ {0}
    /\ MaxFaults \in Nat
    /\ BusMayFail \in BOOLEAN /\ MayWedge \in BOOLEAN

Command == {"move", "zero"}

VARIABLES
    cmdq,          \* alpha/cmd/<id>: commands not yet received
    estopq,        \* alpha/cmd/<id>/estop: TRUE engages, FALSE releases
    hal,           \* where the loop is
    pending,       \* the clamped command being written (a local: "zero" outside a write)
    estop_active,  \* the loop's own latch, kept across reconnections
    status,        \* the last alpha/status/<id>
    link,          \* "up", "down", or "jam" when the peer accepts no byte
    drive,         \* the last frame the robot controller acted on
    lost,          \* history: the frame of the engaged estop never arrived
    faults         \* link failures so far

hal_vars == <<hal, pending, estop_active, status, lost>>
link_vars == <<link, faults>>
fieldbus_vars == <<cmdq, estopq, hal_vars, link_vars, drive>>

FieldbusInit ==
    /\ cmdq = <<>> /\ estopq = <<>>
    /\ hal = "connect" /\ pending = "zero" /\ estop_active = FALSE
    /\ status = [online |-> FALSE, estop |-> FALSE]
    /\ link = "up" /\ faults = 0
    /\ drive = "zero" /\ lost = FALSE

-----------------------------------------------------------------------------
(* The bus, as its publishers see it: they wait while the queue is full.   *)

\* Mutant: the subscription queue has no capacity.
PutCommandUnbounded(c) == cmdq' = Append(cmdq, c)

PutCommand(c) == Len(cmdq) < QCap /\ cmdq' = Append(cmdq, c)
PutEstop(b) == Len(estopq) < QCap /\ estopq' = Append(estopq, b)

-----------------------------------------------------------------------------
(* The link and the peer.                                                  *)

LinkFail == /\ link = "up"
            /\ faults < MaxFaults
            /\ faults' = faults + 1
            /\ link' \in {"down"} \cup (IF Transport = "UDP" THEN {} ELSE {"jam"})
            /\ UNCHANGED <<cmdq, estopq, hal_vars, drive>>

\* A broken serial or TCP connection is never mended: only the next one works.
LinkRestore == /\ link # "up"
               /\ link = "down" /\ Transport # "UDP"
                     => hal \in {"sleep", "connect", "dead"}
               /\ link' = "up"
               /\ UNCHANGED <<cmdq, estopq, hal_vars, faults, drive>>

-----------------------------------------------------------------------------
(* The loop.                                                               *)

\* publish_status(online, frames, estop).await?: an error ends the task, and
\* nothing restarts it.
PublishStatus(online, estop, next) ==
    \/ /\ status' = [online |-> online, estop |-> estop]
       /\ hal' = next
    \/ /\ BusMayFail
       /\ hal' = "dead"
       /\ UNCHANGED status

\* open_serial, bind/connect or TcpStream::connect fails.  The serial loop
\* reports estop = false whatever its latch says.
ConnectFail ==
    /\ hal = "connect"
    /\ link # "up"
    /\ PublishStatus(FALSE, Transport # "SERIAL" /\ estop_active, "sleep")
    /\ UNCHANGED <<cmdq, estopq, pending, estop_active, lost, link_vars, drive>>

\* Mutant: a new connection starts with the latch cleared.
ConnectCleared ==
    /\ hal = "connect"
    /\ link = "up"
    /\ estop_active' = FALSE
    /\ PublishStatus(TRUE, FALSE, "select")
    /\ UNCHANGED <<cmdq, estopq, pending, lost, link_vars, drive>>

Connect ==
    /\ hal = "connect"
    /\ link = "up"
    /\ PublishStatus(TRUE, estop_active, "select")
    /\ UNCHANGED <<cmdq, estopq, pending, estop_active, lost, link_vars, drive>>

\* Mutant: the test of estop_active before the write is gone.
RecvCommandUngated ==
    /\ hal = "select"
    /\ cmdq # <<>>
    /\ cmdq' = Tail(cmdq)
    /\ pending' = Head(cmdq)
    /\ hal' = "write"
    /\ UNCHANGED <<estopq, estop_active, status, lost, link_vars, drive>>

\* cmd_sub.recv_async(): dropped while the latch is engaged, else clamped.
RecvCommand ==
    /\ hal = "select"
    /\ cmdq # <<>>
    /\ cmdq' = Tail(cmdq)
    /\ IF estop_active
       THEN UNCHANGED <<hal, pending>>
       ELSE pending' = Head(cmdq) /\ hal' = "write"
    /\ UNCHANGED <<estopq, estop_active, status, lost, link_vars, drive>>

\* write_command or socket.send: waits on a peer that accepts nothing; an
\* error is logged and the loop goes on.
WriteCommand ==
    /\ hal = "write"
    /\ link # "jam"
    /\ drive' = IF link = "up" THEN pending ELSE drive
    /\ pending' = "zero"
    /\ hal' = "select"
    /\ UNCHANGED <<cmdq, estopq, estop_active, status, lost, link_vars>>

\* Mutant: the latch is set and reported, and the frame is left out.
RecvEstopUnwritten ==
    /\ hal = "select"
    /\ estopq # <<>>
    /\ estopq' = Tail(estopq)
    /\ estop_active' = Head(estopq)
    /\ lost' = FALSE
    /\ hal' = IF Head(estopq) = estop_active THEN "select" ELSE "report"
    /\ UNCHANGED <<cmdq, pending, status, link_vars, drive>>

\* estop_sub.recv_async(): only a change of the latch does anything.
RecvEstop ==
    /\ hal = "select"
    /\ estopq # <<>>
    /\ estopq' = Tail(estopq)
    /\ IF Head(estopq) = estop_active
       THEN UNCHANGED <<hal, estop_active, lost>>
       ELSE /\ estop_active' = Head(estopq)
            /\ lost' = FALSE
            /\ hal' = IF Head(estopq) THEN "write_estop" ELSE "report"
    /\ UNCHANGED <<cmdq, pending, status, link_vars, drive>>

\* write_estop: an error is logged and the frame is never sent again.
WriteEstop ==
    /\ hal = "write_estop"
    /\ link # "jam"
    /\ drive' = IF link = "up" THEN "estop" ELSE drive
    /\ lost' = (link # "up")
    /\ hal' = "report"
    /\ UNCHANGED <<cmdq, estopq, pending, estop_active, status, link_vars>>

\* publish_status(true, frames, estop_active) after a change of the latch.
ReportEstop ==
    /\ hal = "report"
    /\ PublishStatus(TRUE, estop_active, "select")
    /\ UNCHANGED <<cmdq, estopq, pending, estop_active, lost, link_vars, drive>>

\* Mutant: the loss of the link is reported with estop = false.
DisconnectReportingNone ==
    /\ hal = "select"
    /\ link # "up"
    /\ PublishStatus(FALSE, FALSE, "sleep")
    /\ UNCHANGED <<cmdq, estopq, pending, estop_active, lost, link_vars, drive>>

\* A read error, end of stream or failed poll breaks out of the inner loop.
Disconnect ==
    /\ hal = "select"
    /\ link # "up"
    /\ PublishStatus(FALSE, estop_active, "sleep")
    /\ UNCHANGED <<cmdq, estopq, pending, estop_active, lost, link_vars, drive>>

\* sleep(reconnect_delay_ms) ends.
Reconnect ==
    /\ hal = "sleep"
    /\ hal' = "connect"
    /\ UNCHANGED <<cmdq, estopq, pending, estop_active, status, lost, link_vars, drive>>

\* Bytes arrive and drain_frames does not come back.
Wedge ==
    /\ MayWedge
    /\ hal = "select"
    /\ link = "up"
    /\ hal' = "wedged"
    /\ UNCHANGED <<cmdq, estopq, pending, estop_active, status, lost, link_vars, drive>>

\* Steps that wait for nobody once their turn has come.
HalOwnStep == \/ ConnectFail \/ Connect \/ Reconnect \/ Disconnect
              \/ WriteCommand \/ WriteEstop \/ ReportEstop

HalStep == HalOwnStep \/ RecvCommand \/ RecvEstop \/ Wedge

FieldbusNext ==
    \/ HalStep
    \/ LinkFail
    \/ LinkRestore
    \/ \E c \in Command :
          PutCommand(c) /\ UNCHANGED <<estopq, hal_vars, link_vars, drive>>
    \/ \E b \in BOOLEAN :
          PutEstop(b) /\ UNCHANGED <<cmdq, hal_vars, link_vars, drive>>

\* The loop under any publishers whatsoever.
FieldbusSpec == FieldbusInit /\ [][FieldbusNext]_fieldbus_vars

-----------------------------------------------------------------------------
FieldbusTypeOK ==
    /\ cmdq \in Seq(Command) /\ Len(cmdq) <= QCap
    /\ estopq \in Seq(BOOLEAN) /\ Len(estopq) <= QCap
    /\ hal \in {"connect", "select", "write", "write_estop", "report", "sleep",
                "wedged", "dead"}
    /\ pending \in Command
    /\ estop_active \in BOOLEAN /\ lost \in BOOLEAN
    /\ status \in [online : BOOLEAN, estop : BOOLEAN]
    /\ link \in {"up", "down", "jam"} /\ faults \in 0..MaxFaults
    /\ drive \in Command \cup {"estop"}

(***************************************************************************)
(* Once the latch's frame has reached the controller, nothing the bus says *)
(* moves the robot, through any number of reconnections, until the latch   *)
(* is released (hardware_abstraction.rs:242, :370 and :479).               *)
(***************************************************************************)
EstopHolds == estop_active /\ ~lost /\ hal # "write_estop" => drive # "move"

(***************************************************************************)
(* What the operator's screen shows of the latch is the latch, whenever    *)
(* the loop waits for input or sleeps.  Not so on the serial transport,    *)
(* which reports a failed open with estop = false (line 194).              *)
(***************************************************************************)
StatusTellsLatch ==
    Transport # "SERIAL" /\ hal \in {"select", "write", "sleep", "wedged"}
        => status.estop = estop_active
=============================================================================
