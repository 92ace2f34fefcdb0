--------------------------------- MODULE Boot ---------------------------------
(***************************************************************************)
(* From ROBOT_CONFIG_PATH and the environment to the two configurations    *)
(* the robot is driven with: what main hands to the control loop and the   *)
(* watchdog, and the FieldbusConfig resolve_fieldbus hands to the HAL.     *)
(* A name or an address is a token, a text the set of brand words in it,   *)
(* and limits and rates are told by the number of joints that have them.   *)
(***************************************************************************)
EXTENDS Naturals, Sequences

CONSTANTS Files,         \* the configuration files there may be
          Environments,  \* the environments main may be started in
          Nothing        \* no file, no section, an unset variable

Fields == {"port", "baud_rate", "bind_addr", "remote_addr"}

Section == [protocol : STRING, fields : SUBSET Fields]

IsFile(c) == /\ DOMAIN c = {"readable", "name", "dof", "joints", "hz",
                            "section", "brand", "manufacturer"}
             /\ c.dof \in Nat /\ c.joints \in Nat /\ c.hz \in Nat
             /\ c.section = Nothing \/ c.section \in Section

IsEnvironment(e) ==
    /\ DOMAIN e = {"serial", "udp_bind", "udp_remote", "name", "dof"}
    /\ e.dof = Nothing \/ e.dof \in Nat

ASSUME BootAssumption == /\ \A c \in Files : IsFile(c)
                         /\ \A e \in Environments : IsEnvironment(e)
                         /\ Nothing # "MockRobot"   \* unset is no name

VARIABLES
    phase,     \* "load", "resolve", "ready", "started" or "exited"
    file, env, \* what main finds
    control,   \* what the control loop and the watchdog are given
    fieldbus   \* what the HAL is given; Nothing for the simulated robot

boot_vars == <<phase, file, env, control, fieldbus>>

BootInit ==
    /\ phase = "load"
    /\ file \in Files \cup {Nothing}
    /\ env \in Environments
    /\ control = Nothing /\ fieldbus = Nothing

-----------------------------------------------------------------------------
(* Brands.                                                                 *)

\* from_manufacturer: the first of these whose words occur in the text.
Patterns == << [brand |-> "KUKA", words |-> {"kuka"}],
               [brand |-> "COMAU", words |-> {"comau"}],
               [brand |-> "FRANKA-EMIKA", words |-> {"franka", "emika", "panda"}],
               [brand |-> "LUWU-DYNAMICS", words |-> {"luwu", "xgo"}],
               [brand |-> "UNIVERSAL-ROBOTS", words |-> {"universal", "ur"}],
               [brand |-> "AMR", words |-> {"amr", "agv", "mobile"}] >>

FromManufacturer(text) ==
    LET matching == SelectSeq(Patterns, LAMBDA p : p.words \cap text # {})
    IN  IF matching = <<>> THEN "GENERIC" ELSE matching[1].brand

\* An explicit brand that is not blank, else the manufacturer.
ResolvedBrand(c) ==
    FromManufacturer(IF c.brand # {} THEN c.brand ELSE c.manufacturer)

\* adapter_for: what a brand's adapter makes of commands and telemetry.
FramingOf(brand) ==
    CASE brand \in {"GENERIC", "AMR"} -> "fixed"
      [] brand \in {"UNIVERSAL-ROBOTS", "FRANKA-EMIKA"} -> "length"
      [] brand = "COMAU" -> "line"
      [] brand = "KUKA" -> "xml"
      [] brand = "LUWU-DYNAMICS" -> "registers"

StopOf(brand) == IF brand = "LUWU-DYNAMICS" THEN "action" ELSE "zeros"
Pads(brand) == brand = "FRANKA-EMIKA"

-----------------------------------------------------------------------------
(* to_fieldbus_config: the file's own section.                             *)

TransportOf(protocol) ==
    CASE protocol \in {"serial", "rs232", "rs485"} -> "SERIAL"
      [] protocol \in {"udp", "ethernet"} -> "UDP"
      [] protocol = "tcp" -> "TCP"
      [] OTHER -> "unsupported"

Required == [SERIAL |-> {"port", "baud_rate"}, UDP |-> {"bind_addr", "remote_addr"},
             TCP |-> {"remote_addr"}, unsupported |-> Fields]

SectionIsValid(s) ==
    /\ s # Nothing
    /\ TransportOf(s.protocol) # "unsupported"
    /\ Required[TransportOf(s.protocol)] \subseteq s.fields

FromFile(c) == [transport |-> TransportOf(c.section.protocol), id |-> c.name,
                joints |-> c.dof, limits |-> c.joints, rates |-> c.joints,
                hz |-> c.hz, brand |-> ResolvedBrand(c)]

-----------------------------------------------------------------------------
(* resolve_fieldbus: the section, else ROBOT_SERIAL_PORT, else             *)
(* ROBOT_UDP_BIND, else none.  An invalid section is logged and passed     *)
(* over.  Limits and rates are the file's in every case.                   *)

NameOr(default, e) == IF e.name = Nothing THEN default ELSE e.name
DofOr(default, e) == IF e.dof = Nothing THEN default ELSE e.dof

\* Mutant: a fieldbus from the environment leaves the limits behind.
FromEnvironmentUnlimited(transport, c, e) ==
    IF c = Nothing
    THEN [transport |-> transport, id |-> NameOr("Robot", e),
          joints |-> IF transport = "SERIAL" THEN DofOr(6, e) ELSE 6,
          limits |-> 0, rates |-> 0, hz |-> 100, brand |-> "GENERIC"]
    ELSE [transport |-> transport, id |-> c.name, joints |-> c.dof,
          limits |-> 0, rates |-> 0, hz |-> c.hz,
          brand |-> ResolvedBrand(c)]

FromEnvironment(transport, c, e) ==
    IF c = Nothing
    THEN [transport |-> transport, id |-> NameOr("Robot", e),
          joints |-> IF transport = "SERIAL" THEN DofOr(6, e) ELSE 6,
          limits |-> 0, rates |-> 0, hz |-> 100, brand |-> "GENERIC"]
    ELSE [transport |-> transport, id |-> c.name, joints |-> c.dof,
          limits |-> c.joints, rates |-> c.joints, hz |-> c.hz,
          brand |-> ResolvedBrand(c)]

FileServes(c) == c # Nothing /\ SectionIsValid(c.section)

\* The expect() of ROBOT_UDP_REMOTE.
ResolvePanics(c, e) ==
    ~FileServes(c) /\ ~e.serial /\ e.udp_bind /\ ~e.udp_remote

ResolveFieldbus(c, e) ==
    IF FileServes(c) THEN FromFile(c)
    ELSE IF e.serial THEN FromEnvironment("SERIAL", c, e)
    ELSE IF e.udp_bind THEN FromEnvironment("UDP", c, e)
    ELSE Nothing

-----------------------------------------------------------------------------
(* main.                                                                   *)

\* HalLoader::from_file(..)?: an unreadable file ends the program.
LoadFails ==
    /\ phase = "load" /\ file # Nothing /\ ~file.readable
    /\ phase' = "exited"
    /\ UNCHANGED <<file, env, control, fieldbus>>

LoadFile ==
    /\ phase = "load" /\ file # Nothing /\ file.readable
    /\ control' = [id |-> file.name, joints |-> file.dof,
                   limits |-> file.joints, hz |-> file.hz]
    /\ phase' = "resolve"
    /\ UNCHANGED <<file, env, fieldbus>>

MockMode ==
    /\ phase = "load" /\ file = Nothing
    /\ control' = [id |-> "MockRobot", joints |-> 6, limits |-> 0, hz |-> 100]
    /\ phase' = "resolve"
    /\ UNCHANGED <<file, env, fieldbus>>

Resolve ==
    /\ phase = "resolve"
    /\ ~ResolvePanics(file, env)
    /\ phase' = "ready" /\ fieldbus' = ResolveFieldbus(file, env)
    /\ UNCHANGED <<file, env, control>>

ResolveFails ==
    /\ phase = "resolve"
    /\ ResolvePanics(file, env)
    /\ phase' = "exited"
    /\ UNCHANGED <<file, env, control, fieldbus>>

BootNext == LoadFails \/ LoadFile \/ MockMode \/ Resolve \/ ResolveFails

-----------------------------------------------------------------------------
(***************************************************************************)
(* With a configuration file the HAL drives the robot the control loop and *)
(* the watchdog publish for, at their rate and inside the limits and rates *)
(* of the file's joints, whichever source the fieldbus came from           *)
(* (main.rs:258-363, hal_loader.rs:130-192).                               *)
(***************************************************************************)
HalMatchesControl ==
    phase = "ready" /\ fieldbus # Nothing /\ file # Nothing
      => /\ fieldbus.id = control.id /\ fieldbus.joints = control.joints
         /\ fieldbus.limits = control.limits /\ fieldbus.hz = control.hz
         /\ fieldbus.rates = fieldbus.limits
         /\ fieldbus.brand = ResolvedBrand(file)

(***************************************************************************)
(* The HAL subscribes to the commands and estops of the robot the control  *)
(* loop and the watchdog publish for, with a file or without: what the     *)
(* quick start's `ROBOT_NAME=MyArm' (README.md:215-221) needs to drive the *)
(* arm, and what "the Hard-Watchdog arms on boot and stops the actuators"  *)
(* (README.md:241) says of every start.                                    *)
(***************************************************************************)
HalHearsControl ==
    phase = "ready" /\ fieldbus # Nothing => fieldbus.id = control.id
=============================================================================
