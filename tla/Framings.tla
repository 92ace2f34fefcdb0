------------------------------- MODULE Framings -------------------------------
(***************************************************************************)
(* Telemetry of every brand but XGO: the robot sends messages, the         *)
(* transport cuts the stream into reads and may lose some of it, and       *)
(* drain_frames has the brand's decode_telemetry cut the accumulator into  *)
(* readings.  A message is a sequence of units; what a unit says is left   *)
(* out except where its message came from, so that a reading put together  *)
(* from two messages shows.                                                *)
(***************************************************************************)
EXTENDS Naturals, Sequences

CONSTANTS Size,         \* units in a message of each kind
          MaxMessages,  \* bound on the messages of the robot
          MaxLoss       \* bound on the bytes, datagrams and connections lost

Framing == {"fixed", "length", "line", "xml"}

\* What a robot may send under each framing: "short" is a message without
\* room for the joints, "bad" has a field that is no number, "empty" has none.
Kinds == [fixed |-> {"good"}, length |-> {"good", "short"},
          line |-> {"good", "empty", "bad"}, xml |-> {"good", "empty"}]
Kind == {"good", "short", "empty", "bad"}

\* A profile or the environment puts any brand on TCP or UDP; on a serial line
\* only the fixed framing is followed.
TransportsOf == [f \in Framing |-> {"TCP", "UDP"} \cup
                                   IF f = "fixed" THEN {"SERIAL"} ELSE {}]

ASSUME FramingsAssumption ==
    /\ Size \in [Kind -> Nat \ {0}]
    /\ MaxMessages \in Nat /\ MaxLoss \in Nat

Unit == [id : Nat, kind : Kind, at : Nat]
Message(id, kind) ==
    [i \in 1..Size[kind] |-> [id |-> id, kind |-> kind, at |-> i]]
IsLast(u) == u.at = Size[u.kind]
NoReading == <<>>

VARIABLES
    framing, carrier,  \* the brand's framing and transport
    wire,              \* sent, not read yet
    acc,               \* the accumulator of this connection
    draining,          \* inside drain_frames
    reading,           \* the units of the last reading published
    due,               \* history: usable messages sent on this connection
                       \* and not lost or published
    torn,              \* history: this connection lost part of a message
    sent, losses

framing_vars == <<framing, carrier, wire, acc, draining, reading, due, torn,
                  sent, losses>>

FramingInit ==
    /\ framing \in Framing
    /\ carrier \in TransportsOf[framing]
    /\ wire = <<>> /\ acc = <<>> /\ draining = FALSE
    /\ reading = NoReading /\ due = {} /\ torn = FALSE
    /\ sent = 0 /\ losses = 0

-----------------------------------------------------------------------------
(* The robot and the transport.                                            *)

Send(kind) ==
    /\ sent < MaxMessages
    /\ sent' = sent + 1
    /\ wire' = wire \o Message(sent', kind)
    /\ due' = IF kind = "good" THEN due \cup {sent'} ELSE due
    /\ UNCHANGED <<framing, carrier, acc, draining, reading, torn, losses>>

\* s without the n units from i on.
Without(s, i, n) == SubSeq(s, 1, i - 1) \o SubSeq(s, i + n, Len(s))

\* A serial line loses a byte.
LoseByte(i) ==
    /\ carrier = "SERIAL" /\ losses < MaxLoss
    /\ wire' = Without(wire, i, 1)
    /\ losses' = losses + 1
    /\ torn' = TRUE
    /\ UNCHANGED <<framing, carrier, acc, draining, reading, due, sent>>

\* A datagram, the one that starts at i, is lost whole.
LoseDatagram(i) ==
    /\ carrier = "UDP" /\ losses < MaxLoss /\ wire[i].at = 1
    /\ wire' = Without(wire, i, Size[wire[i].kind])
    /\ due' = due \ {wire[i].id}
    /\ losses' = losses + 1
    /\ UNCHANGED <<framing, carrier, acc, draining, reading, torn, sent>>

\* Mutant: what the last connection left in the accumulator is kept.
ReconnectKeepingAcc(from) ==
    /\ ~draining /\ losses < MaxLoss
    /\ wire' = <<>>
    /\ torn' = FALSE
    /\ due' = {} /\ losses' = losses + 1
    /\ UNCHANGED <<framing, carrier, acc, draining, reading, sent>>

\* A read fails and the outer loop connects again, with a new accumulator.
\* A serial port opens wherever the robot's stream then is.
Reconnect(from) ==
    /\ ~draining /\ losses < MaxLoss
    /\ acc' = <<>>
    /\ wire' = IF carrier = "SERIAL" THEN SubSeq(wire, from, Len(wire)) ELSE <<>>
    /\ torn' = (wire' # <<>> /\ (torn \/ wire'[1].at # 1))
    /\ due' = {d \in due : \E i \in DOMAIN wire' : wire'[i] = Message(d, "good")[1]}
    /\ losses' = losses + 1
    /\ UNCHANGED <<framing, carrier, draining, reading, sent>>

\* Ok(n): a read takes what has come so far, a datagram at a time on UDP.
Read(n) ==
    /\ ~draining
    /\ carrier = "UDP" => \A i \in 1..n : IsLast(wire[i]) <=> i = n
    /\ acc' = acc \o SubSeq(wire, 1, n)
    /\ wire' = SubSeq(wire, n + 1, Len(wire))
    /\ draining' = TRUE
    /\ UNCHANGED <<framing, carrier, reading, due, torn, sent, losses>>

-----------------------------------------------------------------------------
(* decode_telemetry: the units of the front message, or what stops it.     *)

\* joint_count * 4 bytes, whatever they are.
FrontFixed == IF Len(acc) < Size["good"] THEN 0 ELSE Size["good"]

\* The size is in the first unit.
FrontLength ==
    IF acc = <<>> \/ Len(acc) < Size[acc[1].kind] THEN 0 ELSE Size[acc[1].kind]

\* The first terminator.
FrontDelimited ==
    LET ends == {i \in DOMAIN acc : IsLast(acc[i])}
    IN  IF ends = {} THEN 0 ELSE CHOOSE i \in ends : \A j \in ends : i <= j

FrontLen == CASE framing = "fixed" -> FrontFixed
              [] framing = "length" -> FrontLength
              [] OTHER -> FrontDelimited

\* A length-prefixed body without room for the joints and a CSV field that
\* does not parse return None with the message still in front.
Unusable(n) == \/ framing = "length" /\ acc[1].kind = "short"
               \/ framing = "line" /\ acc[n].kind = "bad"

\* n = 0: consumed and not published.
Mute(n) == framing \in {"line", "xml"} /\ acc[n].kind = "empty"

\* One turn of drain_frames with a reading.
Publish ==
    /\ draining /\ FrontLen > 0 /\ ~Unusable(FrontLen) /\ ~Mute(FrontLen)
    /\ reading' = SubSeq(acc, 1, FrontLen)
    /\ acc' = SubSeq(acc, FrontLen + 1, Len(acc))
    /\ due' = due \ {acc[1].id}
    /\ UNCHANGED <<framing, carrier, wire, draining, torn, sent, losses>>

\* Mutant: an empty message takes the accumulator with it.
SkipAll ==
    /\ draining /\ FrontLen > 0 /\ Mute(FrontLen)
    /\ acc' = <<>>
    /\ UNCHANGED <<framing, carrier, wire, draining, reading, due, torn, sent, losses>>

Skip ==
    /\ draining /\ FrontLen > 0 /\ Mute(FrontLen)
    /\ acc' = SubSeq(acc, FrontLen + 1, Len(acc))
    /\ UNCHANGED <<framing, carrier, wire, draining, reading, due, torn, sent, losses>>

\* None: back to select!.
Stop ==
    /\ draining
    /\ FrontLen > 0 => Unusable(FrontLen)
    /\ draining' = FALSE
    /\ UNCHANGED <<framing, carrier, wire, acc, reading, due, torn, sent, losses>>

Drain == Publish \/ Skip \/ Stop

FramingNext ==
    \/ \E kind \in Kinds[framing] : Send(kind)
    \/ \E i \in DOMAIN wire : LoseByte(i) \/ LoseDatagram(i)
    \/ \E from \in 1..(Len(wire) + 1) : Reconnect(from)
    \/ \E n \in DOMAIN wire : Read(n)
    \/ Drain

FramingSpec == FramingInit /\ [][FramingNext]_framing_vars

-----------------------------------------------------------------------------
FramingTypeOK ==
    /\ framing \in Framing /\ carrier \in TransportsOf[framing]
    /\ wire \in Seq(Unit) /\ acc \in Seq(Unit) /\ reading \in Seq(Unit)
    /\ due \subseteq 1..sent
    /\ draining \in BOOLEAN /\ torn \in BOOLEAN
    /\ sent \in 0..MaxMessages /\ losses \in 0..MaxLoss

(***************************************************************************)
(* A reading is one message the robot sent, whole and undamaged, however   *)
(* the stream was cut into reads, unless a serial line tore a message of   *)
(* this connection: the fixed framing (generic_binary.rs:28-38) has        *)
(* nothing to find the next boundary with.                                 *)
(***************************************************************************)
NoForgedReading ==
    reading # NoReading
      => \/ reading = Message(reading[1].id, "good")
         \/ carrier = "SERIAL" /\ losses > 0

(***************************************************************************)
(* decode_telemetry returns "`None` when more bytes are needed"            *)
(* (adapters/mod.rs:61-62): once drain_frames has come back, what is left  *)
(* in the accumulator is the start of one message.  A complete message     *)
(* the decoder refuses breaks it, and stays in front for the rest of the   *)
(* connection (universal_robots.rs:60, franka_fci.rs:69,                   *)
(* comau_pdl.rs:58-59).                                                    *)
(***************************************************************************)
WaitsForRest ==
    ~draining /\ ~torn /\ acc # <<>>
      => \A i \in DOMAIN acc : acc[i].id = acc[1].id /\ ~IsLast(acc[i])

(***************************************************************************)
(* No usable message is skipped, repeated or overtaken: what is due is     *)
(* what the accumulator and the line still hold, all of it behind the last *)
(* reading and in the order it was sent.  A message the decoder is stuck   *)
(* on keeps those behind it due.                                           *)
(***************************************************************************)
UsableMessagesKept ==
    LET stream == acc \o wire
        held == {i \in DOMAIN stream : stream[i].kind = "good" /\ IsLast(stream[i])}
    IN  ~torn => /\ due = {stream[i].id : i \in held}
                 /\ \A i, j \in held : i < j => stream[i].id < stream[j].id
                 /\ reading # NoReading => \A d \in due : reading[1].id < d
=============================================================================
