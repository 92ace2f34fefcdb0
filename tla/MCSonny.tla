-------------------------------- MODULE MCSonny --------------------------------
(* A joint whose limits leave out zero, profiles of every brand, and the     *)
(* registers of a small robot.                                               *)
EXTENDS Sonny, MCXgoUart

MCLo == -13
MCHi == -1
MCHome == -4
MCSkillValues == {-15, NaN, Absent}
MCOtherValues == {0, NaN}

MCSize == [good |-> 3, short |-> 2, empty |-> 1, bad |-> 2]

File(brand, manufacturer, section) ==
    [readable |-> TRUE, name |-> "Arm", dof |-> 2, joints |-> 2, hz |-> 50,
     section |-> section, brand |-> brand, manufacturer |-> manufacturer]

Over(protocol, fields) == [protocol |-> protocol, fields |-> fields]

MCFiles == {
    File({"kuka"}, {"kuka"}, Over("tcp", {"remote_addr"})),
    File({}, {"comau"}, Over("tcp", {"remote_addr"})),
    File({"universal"}, {"universal"}, Over("tcp", {"remote_addr", "port"})),
    File({"franka", "emika"}, {}, Over("udp", {"bind_addr", "remote_addr"})),
    File({"kuka"}, {}, Over("ethernet", {"bind_addr", "remote_addr"})),
    File({"amr"}, {"agv"}, Over("tcp", {"remote_addr"})),
    File({"amr"}, {}, Over("udp", {"bind_addr", "remote_addr"})),
    File({"xgo"}, {"luwu"}, Over("serial", {"port", "baud_rate"})),
    File({}, {"third-party"}, Over("rs485", {"port", "baud_rate"})),
    File({"panda"}, {"kuka"}, Over("udp", {"bind_addr"})),   \* no remote_addr
    File({}, {"luwu", "ur"}, Over("can", Fields)),           \* unsupported
    File({}, {"amr", "ur"}, Nothing),
    [File({}, {}, Nothing) EXCEPT !.joints = 1],              \* fewer than dof
    [File({}, {}, Nothing) EXCEPT !.readable = FALSE]}

MCEnvironments ==
    [serial : BOOLEAN, udp_bind : BOOLEAN, udp_remote : BOOLEAN,
     name : {Nothing, "MockRobot", "MyArm"}, dof : {Nothing, 4}]
=============================================================================
