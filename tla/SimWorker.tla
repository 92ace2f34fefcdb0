------------------------------- MODULE SimWorker -------------------------------
(***************************************************************************)
(* A robot simulated by VirtualHardwareMock, the terminal UI's updater and *)
(* the frequency monitor: three tasks on the ONE worker thread of main.rs. *)
(* A put whose subscription is full blocks the thread, and with it the     *)
(* task that would make room.  A task runs until it finds nothing to do or *)
(* has used up its budget; the others wait in the run queue.  Tokio        *)
(* charges the budget for timers only; here every turn of the mock costs   *)
(* one, which assumes that the latch changes no more often than frames.    *)
(***************************************************************************)
EXTENDS Naturals, Sequences

CONSTANTS Cap,          \* capacity of a subscription (256 in zenoh)
          Budget,       \* turns of the mock's loop in one poll (128 in tokio)
          StatusEvery,  \* frames between two statuses (100)
          MaxFrames     \* bound on the frames of the mock

ASSUME SimAssumption ==
    /\ Cap \in Nat /\ Budget \in Nat \ {0} /\ Budget < Cap
    /\ StatusEvery \in Nat \ {0} /\ MaxFrames \in Nat

Task == {"mock", "ui", "monitor"}

VARIABLES
    runq,       \* tasks ready to run; the worker runs the first
    budget,     \* turns left in the mock's poll
    tele_ui,    \* telemetry waiting for the updater
    tele_mon,   \* telemetry waiting for the monitor
    status_ui,  \* statuses waiting for the updater
    frames, estop,     \* the mock's counter and its own estop latch
    target, pos,       \* at zero (0) or away from it (1)
    commanded,         \* command_received
    idle,              \* history: no command since the latch last changed
    published,         \* the last value published
    ui,                \* what the screen shows
    rx                 \* HEALTH.zenoh_rx_frames

mock_vars == <<frames, estop, target, pos, commanded, idle, published>>
sim_vars == <<runq, budget, tele_ui, tele_mon, status_ui, mock_vars, ui, rx>>

\* UiState::new: dark until the first status.
ScreenAtStart == [frames |-> 0, estop |-> FALSE, online |-> FALSE]

SimInit ==
    /\ runq = <<>> /\ budget = Budget
    /\ tele_ui = 0 /\ tele_mon = 0 /\ status_ui = <<>>
    /\ frames = 0 /\ estop = FALSE /\ target = 0 /\ pos = 0
    /\ commanded = FALSE /\ idle = FALSE /\ published = 0
    /\ ui = ScreenAtStart
    /\ rx = 0

Running(t) == runq # <<>> /\ Head(runq) = t
Ready(t) == \E i \in DOMAIN runq : runq[i] = t
Woken(q, t) == IF \E i \in DOMAIN q : q[i] = t THEN q ELSE Append(q, t)

-----------------------------------------------------------------------------
(* The mock.                                                               *)

\* publish_status.
Status(count, latch) == [frames |-> count, estop |-> latch]

\* A frame is due, or a command or an estop has come.
WakeMock ==
    /\ ~Ready("mock")
    /\ runq' = Append(runq, "mock")
    /\ budget' = Budget
    /\ UNCHANGED <<tele_ui, tele_mon, status_ui, mock_vars, ui, rx>>

Turn == Running("mock") /\ budget > 0 /\ budget' = budget - 1

Room == tele_ui < Cap /\ tele_mon < Cap /\ Len(status_ui) < Cap

\* sleep_until(next_tick): it may be behind by any number of frames.
Tick ==
    /\ Turn /\ Room /\ frames < MaxFrames
    /\ pos' \in IF commanded THEN {target} \cup ({pos} \ {0}) ELSE {pos}
    /\ published' \in IF estop THEN {0} ELSE IF commanded THEN {pos'} ELSE {0, 1}
    /\ frames' = frames + 1
    /\ tele_ui' = tele_ui + 1 /\ tele_mon' = tele_mon + 1
    /\ status_ui' = IF frames' % StatusEvery = 0
                    THEN Append(status_ui, Status(frames', estop))
                    ELSE status_ui
    /\ runq' = Woken(Woken(runq, "ui"), "monitor")
    /\ UNCHANGED <<estop, target, commanded, idle, ui, rx>>

\* cmd_sub.recv_async(): only a whole number of values, and no estop.
RecvTarget(t) ==
    /\ Turn
    /\ IF estop
       THEN UNCHANGED <<target, commanded, idle>>
       ELSE target' = t /\ commanded' = TRUE /\ idle' = FALSE
    /\ UNCHANGED <<runq, tele_ui, tele_mon, status_ui, frames, estop, pos, published, ui, rx>>

\* Mutant: the position is forgotten, the target is not.
ChangeLatchKeepingTarget(b) ==
    /\ Turn /\ Len(status_ui) < Cap
    /\ estop' = b /\ b # estop
    /\ pos' = 0 /\ idle' = TRUE
    /\ status_ui' = Append(status_ui, Status(frames, b))
    /\ runq' = Woken(runq, "ui")
    /\ UNCHANGED <<tele_ui, tele_mon, frames, target, commanded, published, ui, rx>>

\* Mutant: only the engagement is reported.
ChangeLatchQuietly(b) ==
    /\ Turn /\ Len(status_ui) < Cap
    /\ estop' = b /\ b # estop
    /\ target' = 0 /\ pos' = 0 /\ idle' = TRUE
    /\ status_ui' = IF ~b THEN status_ui
                    ELSE Append(status_ui, Status(frames, b))
    /\ runq' = Woken(runq, "ui")
    /\ UNCHANGED <<tele_ui, tele_mon, frames, commanded, published, ui, rx>>

\* estop_sub.recv_async() with a change: targets and positions go to zero.
ChangeLatch(b) ==
    /\ Turn /\ Len(status_ui) < Cap
    /\ estop' = b /\ b # estop
    /\ target' = 0 /\ pos' = 0 /\ idle' = TRUE
    /\ status_ui' = Append(status_ui, Status(frames, b))
    /\ runq' = Woken(runq, "ui")
    /\ UNCHANGED <<tele_ui, tele_mon, frames, commanded, published, ui, rx>>

\* A payload that is no vector, or an estop message that changes nothing.
Disregard ==
    /\ Turn
    /\ UNCHANGED <<runq, tele_ui, tele_mon, status_ui, mock_vars, ui, rx>>

\* Mutant: the mock keeps the worker when its budget is used up.
KeepRunning ==
    /\ Running("mock")
    /\ budget = 0
    /\ budget' = Budget
    /\ UNCHANGED <<runq, tele_ui, tele_mon, status_ui, mock_vars, ui, rx>>

\* The budget is used up: the mock goes behind the tasks it has woken.
YieldMock ==
    /\ Running("mock")
    /\ budget = 0
    /\ runq' = Append(Tail(runq), "mock")
    /\ budget' = Budget
    /\ UNCHANGED <<tele_ui, tele_mon, status_ui, mock_vars, ui, rx>>

\* Nothing is due.
SleepMock ==
    /\ Running("mock")
    /\ runq' = Tail(runq)
    /\ UNCHANGED <<budget, tele_ui, tele_mon, status_ui, mock_vars, ui, rx>>

-----------------------------------------------------------------------------
(* The updater of the terminal UI and the frequency monitor.               *)

ApplyTelemetry ==
    /\ Running("ui") /\ tele_ui > 0
    /\ tele_ui' = tele_ui - 1
    /\ ui' = [ui EXCEPT !.frames = @ + 1]
    /\ UNCHANGED <<runq, budget, tele_mon, status_ui, mock_vars, rx>>

\* Mutant: the status's count is added to the screen's.
ApplyStatusAdding ==
    /\ Running("ui") /\ status_ui # <<>>
    /\ status_ui' = Tail(status_ui)
    /\ ui' = [frames |-> ui.frames + Head(status_ui).frames,
              estop |-> Head(status_ui).estop,
              online |-> TRUE]
    /\ UNCHANGED <<runq, budget, tele_ui, tele_mon, mock_vars, rx>>

\* The status's count only ever raises the screen's.
ApplyStatus ==
    /\ Running("ui") /\ status_ui # <<>>
    /\ status_ui' = Tail(status_ui)
    /\ LET s == Head(status_ui)
       IN  ui' = [frames |-> IF s.frames > ui.frames THEN s.frames ELSE ui.frames,
                  estop |-> s.estop,
                  online |-> TRUE]
    /\ UNCHANGED <<runq, budget, tele_ui, tele_mon, mock_vars, rx>>

\* Mutant: the updater goes to sleep after the telemetry.
SleepUiEarly ==
    /\ Running("ui") /\ tele_ui = 0
    /\ runq' = Tail(runq)
    /\ UNCHANGED <<budget, tele_ui, tele_mon, status_ui, mock_vars, ui, rx>>

SleepUi ==
    /\ Running("ui") /\ tele_ui = 0 /\ status_ui = <<>>
    /\ runq' = Tail(runq)
    /\ UNCHANGED <<budget, tele_ui, tele_mon, status_ui, mock_vars, ui, rx>>

CountFrame ==
    /\ Running("monitor") /\ tele_mon > 0
    /\ tele_mon' = tele_mon - 1
    /\ rx' = rx + 1
    /\ UNCHANGED <<runq, budget, tele_ui, status_ui, mock_vars, ui>>

SleepMonitor ==
    /\ Running("monitor") /\ tele_mon = 0
    /\ runq' = Tail(runq)
    /\ UNCHANGED <<budget, tele_ui, tele_mon, status_ui, mock_vars, ui, rx>>

Worker ==
    \/ Tick
    \/ \E t \in {0, 1} : RecvTarget(t)
    \/ \E b \in BOOLEAN : ChangeLatch(b)
    \/ Disregard \/ YieldMock \/ SleepMock
    \/ ApplyTelemetry \/ ApplyStatus \/ SleepUi
    \/ CountFrame \/ SleepMonitor

SimNext == WakeMock \/ Worker

\* The worker thread runs whatever is ready.
SimSpec == SimInit /\ [][SimNext]_sim_vars /\ WF_sim_vars(Worker)

-----------------------------------------------------------------------------
SimTypeOK ==
    /\ runq \in Seq(Task)
    /\ budget \in 0..Budget
    /\ tele_ui \in 0..Cap /\ tele_mon \in 0..Cap
    /\ status_ui \in Seq([frames : Nat, estop : BOOLEAN]) /\ Len(status_ui) <= Cap
    /\ frames \in Nat /\ estop \in BOOLEAN
    /\ target \in {0, 1} /\ pos \in {0, 1} /\ published \in {0, 1}
    /\ commanded \in BOOLEAN /\ idle \in BOOLEAN
    /\ ui \in [frames : Nat, estop : BOOLEAN, online : BOOLEAN]
    /\ rx \in Nat

(***************************************************************************)
(* The thread never waits in a put for a task only it can run: whenever    *)
(* the mock may publish, every subscription has room                       *)
(* (virtual_hardware_mock.rs:84, :120; hardware_abstraction.rs:541 meets   *)
(* the same queues without this budget).                                   *)
(***************************************************************************)
WorkerNeverBlocks == Running("mock") /\ budget > 0 => Room

(***************************************************************************)
(* The screen counts frames from two sources, the telemetry and the number *)
(* in the status, which may overtake it: it never ends up behind, and runs *)
(* ahead by at most a queue of telemetry (terminal_ui.rs:223, :236-240).   *)
(* The monitor misses none (frequency_enforcer.rs:77-81).                  *)
(***************************************************************************)
ScreenCountsFrames ==
    /\ rx + tele_mon = frames
    /\ frames <= ui.frames + tele_ui
    /\ ui.frames + tele_ui <= frames + Cap

(***************************************************************************)
(* The latest word on its way to the screen, or on it, is the latch        *)
(* (virtual_hardware_mock.rs:112-121, terminal_ui.rs:233-235).             *)
(***************************************************************************)
ScreenTellsLatch ==
    estop = IF status_ui = <<>> THEN ui.estop ELSE status_ui[Len(status_ui)].estop

(***************************************************************************)
(* A mock that has been commanded stays at zero from an estop through its  *)
(* release to the next command: no target from before the estop survives   *)
(* it (virtual_hardware_mock.rs:70-79, :112-115).  One that never was      *)
(* commanded goes on with its sine wave.                                   *)
(***************************************************************************)
ReleasedMockRests ==
    [][published' # published /\ (estop \/ (idle /\ commanded)) => published' = 0]_sim_vars

(***************************************************************************)
(* An engaged latch reaches the screen unless it is released first.        *)
(***************************************************************************)
ScreenCatchesUp == estop ~> (ui.estop \/ ~estop)
=============================================================================
