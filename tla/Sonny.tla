--------------------------------- MODULE Sonny ---------------------------------
(***************************************************************************)
(* One run of the program: it boots, and what boot resolved configures the *)
(* parts that start then.  A fieldbus starts the HAL's command pipeline    *)
(* and telemetry, none the simulated robot; the health probe runs in       *)
(* either case.  The parts modelled here share no state once started (the  *)
(* HAL's I/O loop between them is Fieldbus's subject), so a behaviour      *)
(* follows one of them, any one, and leaves the others where they are.     *)
(***************************************************************************)
EXTENDS CommandPipeline, Framings, XgoUart, SimWorker, AtomicHealth, Boot

VARIABLE part   \* "boot", or the part this behaviour follows

vars == <<part, boot_vars, pipeline_vars, framing_vars, xgo_vars, sim_vars,
          health_vars>>

Init ==
    /\ part = "boot" /\ BootInit
    /\ PipelineInit /\ ~declared /\ stop = "zeros" /\ ~padding
    /\ FramingInit /\ framing = "fixed" /\ carrier = "SERIAL"
    /\ XgoInit
    /\ SimInit
    /\ HealthInit

Booting ==
    /\ part = "boot" /\ BootNext
    /\ UNCHANGED <<part, pipeline_vars, framing_vars, xgo_vars, sim_vars, health_vars>>

\* The file and the environment are not looked at again.
BootEnds ==
    /\ part = "boot" /\ phase = "ready"
    /\ phase' = "started"
    /\ file' = Nothing /\ env' = Nothing /\ control' = Nothing /\ fieldbus' = Nothing

\* VirtualHardwareMock::start_loop with a fieldbus: HardwareAbstraction::new.
\* The joint is any of the robot's; those past the file's have no limits.
StartCommands ==
    /\ BootEnds /\ fieldbus # Nothing
    /\ part' = "commands"
    /\ declared' \in {j <= fieldbus.limits : j \in 1..fieldbus.joints}
    /\ stop' = StopOf(fieldbus.brand) /\ padding' = Pads(fieldbus.brand)
    /\ UNCHANGED <<pipeline_rt, bus, pipeline_hal, latched, frame, robot, followed,
                   framing_vars, xgo_vars, sim_vars, health_vars>>

\* HardwareAbstraction::start_loop, for the brands that send messages.
StartTelemetry ==
    /\ BootEnds /\ fieldbus # Nothing
    /\ FramingOf(fieldbus.brand) \in Framing
    /\ fieldbus.transport \in TransportsOf[FramingOf(fieldbus.brand)]
    /\ part' = "telemetry"
    /\ framing' = FramingOf(fieldbus.brand) /\ carrier' = fieldbus.transport
    /\ UNCHANGED <<pipeline_vars, wire, acc, draining, reading, due, torn, sent,
                   losses, xgo_vars, sim_vars, health_vars>>

\* ... and for the one whose registers are polled, over its serial line.
StartRegisters ==
    /\ BootEnds /\ fieldbus # Nothing
    /\ FramingOf(fieldbus.brand) = "registers" /\ fieldbus.transport = "SERIAL"
    /\ part' = "registers"
    /\ UNCHANGED <<pipeline_vars, framing_vars, xgo_vars, sim_vars, health_vars>>

\* VirtualHardwareMock::start_loop without a fieldbus: run_simulated_loop.
StartSimulation ==
    /\ BootEnds /\ fieldbus = Nothing
    /\ part' = "simulation"
    /\ UNCHANGED <<pipeline_vars, framing_vars, xgo_vars, sim_vars, health_vars>>

StartHealth ==
    /\ BootEnds
    /\ part' = "health"
    /\ UNCHANGED <<pipeline_vars, framing_vars, xgo_vars, sim_vars, health_vars>>

Commands == /\ part = "commands" /\ PipelineNext
            /\ UNCHANGED <<part, boot_vars, framing_vars, xgo_vars, sim_vars, health_vars>>

Telemetry == /\ part = "telemetry" /\ FramingNext
             /\ UNCHANGED <<part, boot_vars, pipeline_vars, xgo_vars, sim_vars, health_vars>>

Registers == /\ part = "registers" /\ XgoNext
             /\ UNCHANGED <<part, boot_vars, pipeline_vars, framing_vars, sim_vars,
                            health_vars>>

Simulation == /\ part = "simulation" /\ SimNext
              /\ UNCHANGED <<part, boot_vars, pipeline_vars, framing_vars, xgo_vars,
                             health_vars>>

Health == /\ part = "health" /\ HealthNext
          /\ UNCHANGED <<part, boot_vars, pipeline_vars, framing_vars, xgo_vars, sim_vars>>

Next == \/ Booting
        \/ StartCommands \/ StartTelemetry \/ StartRegisters
        \/ StartSimulation \/ StartHealth
        \/ Commands \/ Telemetry \/ Registers \/ Simulation \/ Health

\* The worker thread runs whatever is ready.
WorkerRuns == /\ part = "simulation" /\ Worker
              /\ UNCHANGED <<part, boot_vars, pipeline_vars, framing_vars, xgo_vars,
                             health_vars>>

Spec == Init /\ [][Next]_vars /\ WF_vars(WorkerRuns)

TypeOK == /\ part \in {"boot", "commands", "telemetry", "registers", "simulation", "health"}
          /\ PipelineTypeOK /\ FramingTypeOK /\ XgoTypeOK /\ SimTypeOK /\ HealthTypeOK
=============================================================================
