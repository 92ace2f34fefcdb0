# TLA+ models of Sonny

Sonny is a robot microkernel in Rust: a control loop publishes actuator
commands on a Zenoh bus, a hardware abstraction layer (HAL) encodes them for the
robot's own protocol, and a hard watchdog stops the robot when the control loop
falls silent. The modules here model its safety-critical concurrency, the path
of a command and of a telemetry message through the HAL, the simulated robot and
boot. TLC checks them on small instances; TLAPS proves their main safety
properties for every value of the constants. Paths below are relative to the
repository.

## 1. Inventory

One process; `main.rs` starts everything. Its Tokio runtime has ONE worker
thread, shared by every spawned task. Three kinds of OS thread run beside it.

| component | runs on | state | operations | correct when |
|---|---|---|---|---|
| `LatestCommand` (`diagnostics/frequency_enforcer.rs`) | shared memory | one `AtomicPtr` | `publish`, `take_or`, `take` | no double free, leak or use after free; newest value wins, nothing is applied twice |
| skill listener and sandboxes (`registry/wasm_runner.rs`) | worker; one thread per package | none | receive, spawn, evaluate, publish | each accepted package's vector is published once |
| real-time loop (`diagnostics/frequency_enforcer.rs`) | thread `rt-control-100hz` | `last_valid`, sanitizer | tick: take, sanitise, beat, put, measure | beats in every period, never waits for a skill |
| heartbeat and hard watchdog (`io_bridge/watchdog_timer.rs`) | thread `hard-watchdog` | `last_ping_ms`, `tripped`, `trips`, `stop`, `last_force_at` | `ping`, `monitor_loop`, `intervene`, `reassert_zeros`, `release_estop`, `shutdown` | trips in the window and only then; releases only a living loop |
| HAL I/O loop (`io_bridge/hardware_abstraction.rs`) | worker | `estop_active`, connection, accumulator | connect, read, receive command or estop, write, poll, report, reconnect | latched means no command reaches the robot; the latch survives reconnection |
| command pipeline (`vector_sanitizer.rs`, `jerk_limiter.rs`) | HAL and real-time loop | last safe vector; position, velocity, acceleration | `sanitize_and_clamp`, `limit` | output finite, inside the limits, bounded derivatives |
| adapters (`io_bridge/adapters/`) | HAL | XGO snapshot, poll rotation | decode, encode, poll | every decode makes progress, resynchronises |
| virtual hardware mock (`mocks/`) | worker | targets, positions, estop | tick, command, estop | a released mock does not jump; it never blocks the thread its readers need |
| health probe (`diagnostics/atomic_health.rs`) | shared memory | relaxed atomics | `record`, `ping`, snapshot | no record is lost; a snapshot is plausible |
| enforcer monitor, terminal UI, ROS 2 bridge, stdin probe | worker | last values | subscribe and print or convert | the screen tells the state |
| configuration and boot (`hal_loader.rs`, `robot_brand.rs`, `main.rs`) | boot | configuration | load, resolve brand and fieldbus | the HAL drives the robot the control loop publishes for, inside its limits |
| failsafe guard, kinematics, logger, network client, pinning | not called, or pure | - | - | - |

Interactions. Core 2 hands vectors to Core 1 through `LatestCommand`. The
real-time loop and the watchdog share the heartbeat word. Everything else goes
over the bus: `alpha/cmd/<id>` (written by the real-time loop and the
watchdog), `alpha/cmd/<id>/estop` (written by the watchdog and any operator),
`alpha/telemetry/<id>` and `alpha/status/<id>` (written by the HAL). A
subscription is a bounded FIFO whose publishers wait while it is full.

What is hard: pointer ownership between threads without locks; two clocks (the
wall clock dates the beat, the monotonic one drives the timers); commands and
estops on separate queues read in random order; a link that breaks at any step
of the HAL; a watchdog that shares a bus queue with the loop it guards.
PROJECT.json lists the hazards by line.

## 2. Modules

| module | models | source |
|---|---|---|
| `LatestRegister` | abstract latest-value register: accept, publish, frame | promise of `frequency_enforcer.rs:137-150` |
| `LatestCommand` | the lock-free slot, heap cell by cell, with its threads; implements `LatestRegister` | `frequency_enforcer.rs`, `wasm_runner.rs` |
| `LatestCommandProofs` | type, ownership, refinement | |
| `DeadMansSwitch` | abstract watchdog: a loop that is silent and heard or not, a latch, no clock and no bus; implemented by the next one | promise of `watchdog_timer.rs:3-8, 98-103` |
| `HardWatchdog` (`MCHardWatchdog`) | `monitor_loop` against a beating loop, in milliseconds | `watchdog_timer.rs`, `RealTimeControlLoop::run` |
| `HardWatchdogProofs` | type, intervention and release in time, false trips, release, cadence, latch, refinement of the switch | |
| `Fieldbus` | the HAL loop, its two queues, the link and the robot controller | `hardware_abstraction.rs` |
| `SafetyChain` | control loop, watchdog and operator composed with `Fieldbus` | all of the above |
| `XgoUart` (`MCXgoUart`) | polling, the byte scanner and `drain_frames` over a bad line | `adapters/xgo_uart.rs`, `hardware_abstraction.rs:205-286, 522-548` |
| `XgoUartProofs` | resynchronisation, bounded waiting, poll rotation, damage to one byte, order of undamaged answers | |
| `SafetyChainProofs` | safety of the HAL loop under any publishers; the chain implements `Fieldbus`; a trip is a latch | |
| `CommandPipeline` | one joint's value from the skill to the robot: two sanitizers, the jerk limiter, the encoding, the link | `vector_sanitizer.rs`, `jerk_limiter.rs`, `hardware_abstraction.rs`, `adapters/` |
| `CommandPipelineProofs` | output in limits, speed, acceleration and jerk | |
| `Framings` | the decoders of every brand but XGO under `drain_frames` | `adapters/`, `hardware_abstraction.rs:522-548` |
| `FramingsProofs` | readings are whole messages, none usable is skipped or repeated | |
| `SimWorker` | mock, screen updater and monitor on one worker thread | `virtual_hardware_mock.rs`, `terminal_ui.rs`, `frequency_enforcer.rs` |
| `SimWorkerProofs` | the thread never blocks; latch and counts on the screen; a released mock rests | |
| `AtomicHealth` | concurrent records and snapshots of one metric | `atomic_health.rs` |
| `Boot` | file and environment to the two configurations | `main.rs`, `hal_loader.rs`, `robot_brand.rs` |
| `Sonny` (`MCSonny`) | a run of the program: boot, then the parts above as boot configured them | `main.rs`, `virtual_hardware_mock.rs:30-40` |
| `SonnyProofs` | the probe, boot's two configurations, and the safety of every part in the program | |

### LatestCommand
`slot` is the `AtomicPtr`; `heap` maps addresses to the boxed vector or `Freed`;
`reg[t]` is the raw pointer in thread t's local. `BoxCommand`, `SwapIn`,
`DropOld` are the three steps of `publish`; `TakeSlot` then `Fallback` or
`Consume` are `take_or`. Addresses are reused, so that the ABA patterns of a real
allocator occur. A vector is the number of the package that asked for it.
AcqRel swaps on one word are modelled as sequentially consistent steps. The
memory the pointer leads to is ordered by the same swaps.

### DeadMansSwitch
What the watchdog promises about the estop topic: `Trip` only on a loop that is not
heard, then `Engage`; `Restore` only on one that is, then `Release`; on shutdown
`Leave`, with a `LastRelease` when something was latched. A beat is not heard any
more only when something holds the loop up (`silent`), and an old beat looks fresh
again only where the wall clock goes back (`LookFresh`). `HardWatchdog` maps
`silent` to `disturbed` and `heard` to the comparison of the age; its puts of zeros
and status are stutters. `SafetyChain` is not compared with the switch: its words go
over the bus, and `TripIsLatched` follows them there.

### HardWatchdog
Time is in whole milliseconds, as `now_ms()` counts it. `Tick` advances time;
everything else is instantaneous and interleaves freely. The wall clock is
represented by its offsets since the last beat (`fwd`, `back`), because
only ages are ever compared. `CheckStop`, `CheckAlive`, `CheckTrip`,
`CheckDead`, `CheckRestored` are the branches of one round; each `put` is a step
of its own. A put takes no time here; blocking is `SafetyChain`'s subject.

### Fieldbus
The three loops of the source (serial, UDP, TCP) share one control skeleton;
`Transport` selects where they differ: UDP never blocks on a peer and needs no
new connection, and the serial loop reports `estop = false` when the port does
not open. A command is "move" or "zero"; `drive` is the last frame the robot
acted on. `link` is up, down (the next reads and writes fail) or jam (the peer
accepts no bytes, so `write_all` waits). A broken connection is replaced,
never mended. `lost` is history: the engaged latch's frame did not arrive. A put of
the HAL itself may fail (`BusMayFail`), which ends the task. `Wedge` abstracts a
`drain_frames` that never returns.

### SafetyChain
The control loop always asks for motion, the worst case. `stale` abstracts the
age comparison: it may become true exactly while no beat can come, which
`HardWatchdog` justifies (`NoUnintendedTrip`) when the period fits in the window.
Puts of the control loop and the watchdog fail only when the session is closed,
which closes the whole bus; that case is left out. `override` and `held` record
what the operator last said: the last word on the estop topic is his if he spoke
after the watchdog, and the watchdog's otherwise (`TripIsLatched`). Who should win is
not said anywhere in the repository; in the code the later word does.

### XgoUart
Bytes are numbers; the frame layout, checksum, LEN limits and the search for a
header are those of `scan_frame`, one action per outcome. `Poll` is the timer
branch of the serial loop with the robot's reaction: silence, an answer, or an
answer with one byte lost or changed. `ReadBytes(n)` delivers any prefix of what is on
the line. `Reopen` starts a new accumulator, as the outer loop does; the poll
counter stays with the adapter. `Flush` is one turn of `drain_frames`.
`outstanding` and `unasked` are history. The values an answer carries into the
snapshot are left out; only the bytes matter to the framing.

### CommandPipeline
One joint. A value is an integer, `NaN` (anything not finite) or `Absent` (the
vector is too short to name the joint). `RtFrame` is a tick of the control loop
with its own sanitizer, `OtherPut` the watchdog's or anyone's publication,
`WriteCommand` is `clamp_command`, `encode_command` and the write. The jerk
limiter is translated clamp by clamp, with the frame period as unit of time; a
quotient is rounded towards zero where the code keeps a fraction, and the square
root of the braking speed is rounded down. `declared` is false for a joint the
profile has no limits for. The ASSUME takes limits in order and positive rates; `HalLoader` checks
neither (see 5). `WriteShortCommand` is what happens to a joint that a
vector leaves out: nothing, or a 0 in Franka's fixed frame. `Engage` sends the
estop's zeros past both clamps; on the XGO it is a macro that sets no joint.
`followed` is history: the last frame was a clamped command that arrived.

### Framings
A message is a sequence of units that know where they came from. `Read(n)` cuts
the stream anywhere (at a datagram's end on UDP), `LoseByte`, `LoseDatagram` and
`Reconnect` lose some of it. `FrontLen`, `Unusable` and `Mute` are the decoders:
a fixed size, a size in the first unit, a terminator; a message that is refused
stays in front, one without values is consumed silently. `Publish`, `Skip` and
`Stop` are the turns of `drain_frames`. `due` is history: the usable messages of
this connection that no reading has been made of and no loss has taken. Every
brand is followed over TCP and UDP, the fixed framing over a serial line too.

### SimWorker
The run queue of Tokio's only worker thread with the three tasks of a simulated
robot. A subscription is a count, or a sequence where the contents matter; a put
into a full one would block the thread, so `Room` is a guard of `Tick` and
`WorkerNeverBlocks` says it never is one. `budget` is Tokio's cooperative budget.
Tokio charges it for timers, the model for every turn of the mock, which assumes
that the latch changes no more often than frames come. A position is zero or not.

### AtomicHealth
The four relaxed operations of `record` and the five loads of `snapshot`, each
atomic. Those of one call come in any order, except that two loads of one word keep
theirs.

### Boot
A file is a record of what the code looks at; names and addresses are tokens, a
text is the set of brand words in it. `LoadFile`, `MockMode`, `Resolve` and their
failures are the steps of `main`.

### Sonny
`Booting`, then `StartCommands`, `StartTelemetry`, `StartRegisters`,
`StartSimulation` or `StartHealth`: the part is configured by what boot resolved (limits per joint,
brand, transport), and a behaviour follows that part. The parts, as
modelled, share no variable once started, so nothing is lost by following one at a
time. In the code commands and telemetry meet in the HAL's loop, through the latch
and the connection; those interleavings are `Fieldbus`'s subject.

## 3. Runs

| run | shows | bounds |
|---|---|---|
| `latest_command` | ownership, types, refinement with liveness | 2 sandbox threads racing with the loop, 4 addresses (one more than can be live at a time per holder), 4 packages, so each thread and address is reused |
| `hard_watchdog` | the watchdog's windows, trips, releases, liveness; it implements the switch | 8 ms period, 10 ms window, 1 ms jitter and lateness, clock steps -3 and +2, two trips |
| `hard_watchdog_50hz` | violation: a healthy 50 Hz loop trips | 20 ms period, no jitter, no clock steps |
| `hard_watchdog_clock` | violation: a clock set back releases a dead loop | one step of -12 ms |
| `safety_chain` | latch holds, status tells it, the last word on the estop topic is the right one; a dead loop ends in a stopped robot, a living one gets it back | queues of 1 so that every publisher waits, 1 link failure, 2 operator commands, one stall or death, HAL may die or wedge |
| `safety_chain_zeros` | violation: repeated zeros do not repair a lost estop | 1 link failure |
| `safety_chain_blocked` | violation: a wedged runtime blocks the watchdog | queue of 1 in place of 256 |
| `xgo_uart_drain` | violation: `drain_frames` does not return | one answer, no damage |
| `robot_process` | limits, speed and jerk of commands; framing of every brand; XGO answers under splits and damage, poll rotation; a worker thread that never blocks, a screen that tells the truth; no record lost; with a file boot's two configurations agree | joint limits -13..-1 leave out zero, 3/3/1 per frame; 4 messages, 2 losses; two XGO answers of 9 to 12 bytes, one damaged byte, every split, payloads full of headers, lengths and tails, a counter of 6 that wraps like one of 256; subscriptions of 3, budget 2, 5 frames; 2 writers, 2 records; 14 files, every brand and transport, 48 environments |
| `every_command_in_limits` | violation: Franka's frame carries 0 for a joint the vector leaves out | the same |
| `waits_for_rest` | violation: a decoder returns `None` on a complete message it refuses | the same |
| `robot_name` | violation: without a file the HAL listens for another robot than the loop and the watchdog publish for | the same |

Why the bounds are enough. `LatestCommand` needs two producers and one consumer
for every pairwise race, and reuse of an address after each kind of drop.
`HardWatchdog` saturates ages at a horizon above every value that is compared,
and after two trips every history of the first recurs. In the chain the queues
hold one: each publisher then waits for the receiver at each of its steps, which is
what the liveness properties have to survive, and the safety properties are proved
for every capacity, so that the old and the new word in one queue are covered there.
In `XgoUart` two answers give a
damaged one before, behind and between reads of an intact one; a third would
only repeat that, since the scanner looks at the front frame alone.

In `robot_process` the joint's range, speed, acceleration and jerk are chosen so
that each clamp of the limiter decides some step: the limiter starts at 0,
outside the limits, and comes back; targets lie at both ends and beyond. Three
messages give one before, behind and across a read; the fourth comes after a
loss. Capacity and budget keep the order of the code's 256 and 128; two statuses
fit in the five frames. Two writers and two records give every overlap of a
record with a record and with a snapshot.

`CHECK_DEADLOCK FALSE` in the chain's configurations: a dead loop, a wedged task
and full queues really can bring the whole system to a stop. In `MCSonny`: the
program exits when boot fails, and the bounds on messages and records end a part.

The action properties: `NoUnintendedTrip`, `ReleaseOnlyWhenAlive`,
`IntactFramesKept`, `SmoothWhileFollowed`, `JerkBounded` and `ReleasedMockRests`.
Each property of a passing run has a mutant of the code in its module (marked
"Mutant") that breaks it.

### Fairness
OS threads keep being scheduled: weak fairness of each thread's own steps. Time
passes. `select!` polls its branches in random order, so a branch ready again
and again is taken: strong fairness of the two receptions. A full channel serves
waiting senders in order: strong fairness of the puts in `SafetyChain`. No
fairness is given to links coming back, stalls ending, packages arriving,
operators, or peers accepting bytes; the liveness properties name the ones they
need as hypotheses. `DeadControlStopsRobot` assumes the link ends up staying up,
the frame of the estop is not lost and the HAL task survives: the violation
runs show what happens otherwise.

`ScreenCatchesUp` needs only that the worker thread runs whatever is ready
(`WorkerRuns`); which task that is, the run queue decides.

`DrainEnds` is stated with weak fairness of `DrainFrames`: the task runs and nothing in
`drain_frames` waits for anything but its own puts.

### Disagreements found
1. `WatchdogConfig::default()` (10 ms) is used for every robot, the shipped
   50 Hz profiles included: the watchdog trips in every period of a healthy loop
   (`frequency_enforcer.rs:212` says it never does).
2. The heartbeat's age is a difference of wall-clock readings: setting the clock
   back releases the latch of a dead loop (`watchdog_timer.rs:212-213`).
3. The HAL drops the watchdog's repeated zeros while latched and never repeats a
   lost estop frame, so the registers are not "kept forced to zero".
4. The watchdog's first put shares a bounded queue with the loop it guards: a
   wedged main runtime blocks it (`watchdog_timer.rs:10-12` says it stays alive).
5. The XGO decoder answers "flush 0 bytes" on an empty buffer instead of `None`
   (`adapters/mod.rs:61-62`): after any read that ends at a frame's end, or inside
   a header, `drain_frames` spins for ever. This is what `Wedge` and
   disagreement 4 abstract. The safety properties of `XgoUart` speak of the
   executions up to there, those whose reads end inside a frame.
6. `FieldbusConfig` promises limits on EVERY command
   (`hardware_abstraction.rs:40-41`). Franka's fixed frame holds 0 for a joint that
   the vector does not reach, and skills write three joints: joint 4 of the
   shipped Panda, limited to [-3.07, -0.07], is sent 0.
7. `None` does not only mean "more bytes are needed" (`adapters/mod.rs:61-62`): a
   complete message the decoder refuses (`universal_robots.rs:60`,
   `franka_fci.rs:69`, `comau_pdl.rs:58-59`) is left in front of the accumulator,
   and the connection's telemetry ends there. `DrainsToTheRest` proves that nothing
   else can be left in front.
8. A robot started from the environment alone, as in `README.md:215-221`, has a HAL
   that listens for `ROBOT_NAME` or "Robot", while the control loop and the watchdog
   publish for "MockRobot" (`main.rs:62`): the HAL hears neither, and the watchdog of
   `README.md:241` cannot stop that robot. `HeardWhenNamed` proves that a file, or
   the name "MockRobot" itself, is enough to avoid it.

Met while modelling, without a run of their own:
- The jerk limiter starts at 0 wherever the robot stands and is not told of estops
  or lost frames. `SmoothWhileFollowed` therefore speaks of two commands that both
  arrived.
- "No overshoot" (`jerk_limiter.rs:75-77, 87-92`) is not what the jerk clamp leaves:
  a speed that the jerk does not let fall in time passes the target. The limits
  hold all the same.
- The environment does not "override everything" (`README.md:215`): a valid section of
  the file wins (`main.rs:94`).

## 4. Proofs

All are for every value of the constants that satisfies the module's ASSUME.

- `LatestCommandProofs`: `Ownership` needs to know which thread holds a pointer
  at which step (the thread about to swap owns its new box, the slot owns the
  published one, the thread about to drop owns the old one); with that the
  invariant is inductive. `RefinesRegister` maps each step to `Accept`, `Publish`,
  `Frame` or a stutter. The atomic swap is what both rest on.
- `HardWatchdogProofs`: the inductive invariant relates the silence to the end
  of the current sleep (`silence - back` at most the timeout plus what has
  passed of the sleep), and, for false trips, to the loop's next tick.
  `Intervention` needs both sides of the same round: `DetectInv` bounds the silence
  while the watchdog sleeps untripped or still owes the estop, `LatchInv` tells that
  in every other state, shutdown apart, the estop is on the topic.
  `Intervention` and `ReleaseNeedsBeat` assume both threads are up within the
  window of the heartbeat's creation (`BootsInWindow`); `NoFalseTrip` assumes the
  period plus its lateness fits in the window (`WindowMargin`), which the 50 Hz
  profiles violate. `Restoration` needs the same margin: an undisturbed loop is heard
  at every check (`HealthyHeard`), so a latch that is still on waits for the first
  check after the loop's last beat: what is left of the sleep and the silence
  together are no more than one interval (`ReleaseInv`).
  `WatchdogIsSwitch` maps each step to one of `DeadMansSwitch` or to a stutter. The
  margin is what makes `Tick` such a step: without it the beat of a loop that nothing
  holds up could grow old, as it does at 50 Hz.
- `SafetyChainProofs`: `LatchHoldsRobot` needs `WriteOnlyReleased`: while a command
  is written the latch is released, since the loop awaits the write before it
  reads the estop queue again. `StatusIsTrue` follows from the same induction.
  Each step of the chain is a step of `Fieldbus` with some publisher, which carries
  the HAL's theorems over; `TripLatched` follows the last word on the estop topic
  through puts and receptions, strengthened by what each phase of the watchdog knows
  about `tripped`.
- `XgoUartProofs`: `AnswerAccepted` (encoder and scanner agree), `IntactHasHeader`
  and `FlushKeepsAnswer` give `IntactKept` for every payload and every damage.
  `NoRegisterStarves` needs, for each register, its distance in the rotation and
  what the wrap adds. `DamageIsNoticed` is about the scanner alone: damage to the
  header hides the frame, damage to the tail is seen, and damage to mode, address,
  data or checksum changes the sum by less than 256 (`SumAfterDamage`,
  `ChecksumsDiffer`). LEN is left out, since a shorter frame may end in bytes that
  pass for its tail and checksum. The sum over the data is a recursive function;
  that it exists and what it is for every length is an induction, done by least
  counterexample (`LeastPlace`) because the library's induction theorems cannot be
  instantiated. `UndamagedInOrder` is about the whole stream: `accum \o uart` is the
  concatenation of the outstanding answers (`InStep`: a function tells where each of
  them ends), or `drain_frames` is already in its endless loop (`Wedged`). An answer
  that arrives goes behind the others (`ArrivalConcatenates`), a read leaves the
  stream as it is (`ReadKeepsStream`), and with three bytes in the accumulator the
  scanner sees the front of the oldest answer and waits for it or accepts it
  (`ScannerSeesAnswer`), so that nothing else of it is ever flushed.
  `ReconnectRealigns` is the same from any new connection on.
- `CommandPipelineProofs`: `PipelineInv` adds to the types that the limiter keeps a
  speed and an acceleration within its rates (`RatesKept`: without it the clamp of
  the change could leave the range of the value), that after a command that arrived
  the robot is where the limiter thinks (`FollowedAgrees`), and that an encoded
  command is in limits. `LimitedBounds` gives one turn of the limiter;
  `ClampShrinks`, that clamping to a range around a value never lengthens a step
  from it, is what makes the last clamp harmless. Nothing is assumed of the
  braking speed and the approach but that they are numbers.
- `SimWorkerProofs`: the run queue has no duplicates and the mock is at its head or
  its end (`Queue`), whoever has something to read is in it, and no subscription
  holds more than the mock's turns in this poll (`ThreadInv`). Between two polls
  every reader has come to the head and left with nothing to read, so a budget below
  the capacity is enough. `ScreenInv` adds that a status never counts more frames
  than there were.
- `FramingsProofs`: `FramingInv` says that on a connection that lost no part of a
  message `acc \o wire` is a `Stream`: it starts with the first unit of a message
  and ends with the last of one (`Ends`), each unit is followed by the next of its
  message or the first of another (`Follows`), and the numbers grow (`Grows`);
  what it holds is what is due. Without that the decoder could not know that the
  front of its accumulator is the front of a message. Each action adds a message
  behind it (`StreamWith`), takes one out (`StreamWithout`) or drops a whole front
  (`StreamFrom`). That the decoder's length is that of the front message
  (`FrontIsMessage`) is again an induction by least counterexample, along the units
  of the message (`Onwards`, `Backwards`). On a torn connection only the types and
  the serial port are known, which is what `NoForgedReading` allows.
- `SimWorkerProofs`, `MockRests`: from an estop to the next command the target and
  the position are zero (`RestInv`), so a tick has nothing else to publish.
- `SonnyProofs`, probe: a sum over the writers is a sequence of partial sums along an
  enumeration of them (`IsSum`), so that one `fetch_add` shifts the partial sums from
  one place on (`SumAfter`). `HealthInv` says that what was begun is what the metric
  holds and what its writers still have to add, for the count and for the total, and
  that the maximum is the metric's or still to be stored by some writer. The
  plausibility of a snapshot needs the same of the values it started from.
- `SonnyProofs`, boot: `BootInv` says what each phase knows of the two configurations;
  `OneRobotIsResolved` and `HeardWhenNamed` follow from it source by source.
- `SonnyProofs`, program: while one part runs the others are as they started
  (`OnePartAtATime`), boot's checks give the parts their assumptions, and the
  invariants of the parts, each proved alone, together are `SonnyInv`.

Only model-checked:
- `DecodedInOrder` once a byte was damaged. It is not true of all payloads then: the
  twelve bytes of the joint angles have room for a whole frame, which is found when
  the header in front of it is damaged. It holds for the payloads and the noise of
  the bounded run; `UndamagedInOrder`, `ReconnectRealigns` and `DamageIsNoticed` are
  what holds in general.
- Everything under fairness: the liveness properties and the fairness part of
  `ImplementsRegister`. TLAPS does not reason about it here.
- The runs that end in a violation.

## 5. Not modelled

- ROS 2 bridge: a stateless byte conversion per sample; nothing else reads what it
  writes.
- Failsafe guard, kinematics, telemetry logger, network client: no running task
  calls them. The chaos test is a client outside the process.
- Thread pinning, terminal drawing, JSON and the network: operating system and
  libraries. Of the Zenoh session only the bounded subscriptions are modelled.
- Number formatting, byte order and unit tables of the brands' encodings, the
  values of XGO telemetry and their merging into the snapshot.
- `compute_jitter` and the interval statistics of the screen: their only effect is
  a printed number.
- Floating point: `CommandPipeline` computes in integers. A rounding of the last
  clamp is none (it selects one of its arguments), so `CommandsInLimits` carries
  over; the rates hold up to the rounding of one addition.
- `drain_frames` publishing to a full subscription on the single worker
  (`hardware_abstraction.rs:541`): how much a read delivers is the peer's choice.
  `Wedge` in `Fieldbus` covers its effect on the chain.
- A sandbox thread the system refuses to spawn (`wasm_runner.rs:73`): the `expect`
  ends the listener and the package is lost. No property of the slot depends on it.
- Put errors of the watchdog and the control loop (`watchdog_timer.rs:238-243`,
  `frequency_enforcer.rs:324`) are logged and forgotten; a put here waits or succeeds.
  They mean a closed session, after which nothing on the bus moves.
- Datagrams lost or reordered in `Fieldbus` while the link is up (`Framings` loses
  them), and brands other than the fixed framing on a damaged serial line.
- Limits in the wrong order and rates that are not positive: `HalLoader::from_file`
  (`hal_loader.rs:222-229`) validates neither. With inverted limits the sanitizers'
  `f32::clamp` panics, so no command is sent; `CommandPipeline` assumes `Lo <= Hi`.
- A command with an empty payload, which the HAL drops
  (`hardware_abstraction.rs:244, 372, 481`): no publisher of the program sends one,
  and `Absent` is a vector that names other joints.
- Poll errors of the serial loop break out of it as read errors do, and are part of
  `Disconnect`.

## 6. Plan

The components that keep state and have a caller are modelled, and the safety
properties the runs check are proved, `DecodedInOrder` under damage apart. A change of the code starts at
the definitions PROJECT.json maps to its lines.
