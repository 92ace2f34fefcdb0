------------------------------- MODULE XgoUart -------------------------------
(***************************************************************************)
(* Telemetry of an XGO quadruped: the serial loop polls one register at a  *)
(* time, appends whatever bytes the line delivers to an accumulator, and   *)
(* drain_frames has scan_frame of adapters/xgo_uart.rs cut it into frames. *)
(* The line may split answers anywhere, lose or damage a byte of one, or   *)
(* break.  The values decoded from an answer are left out.                 *)
(***************************************************************************)
EXTENDS Naturals, Sequences, SequencesExt

CONSTANTS Width,       \* poll_phase counts modulo this (256: an AtomicU8)
          LegMotors,   \* XGO_LEG_MOTORS
          Payloads,    \* Payloads[p]: data the robot may answer poll p with
          NoiseBytes,  \* what a damaged byte may turn into
          MaxAnswers,  \* bound on the answers of the robot
          MaxNoise     \* bound on the damaged ones

Byte == 0..255
Phase == 0..4

\* The rotating schedule: joint angles, roll, pitch, yaw, battery.
Address == <<80, 98, 99, 100, 1>>
ReadLen == <<LegMotors, 4, 4, 4, 1>>

ASSUME XgoAssumption ==
    /\ Width \in Nat /\ Width > 5 /\ Width % 5 = 1
    /\ LegMotors \in 1..12
    /\ \A p \in Phase : \A d \in Payloads[p] :
           d \in Seq(Byte) /\ Len(d) = ReadLen[p + 1]
    /\ NoiseBytes \subseteq Byte
    /\ MaxAnswers \in Nat /\ MaxNoise \in Nat

VARIABLES
    poll_phase,   \* the adapter's counter, kept across connections
    unasked,      \* history: polls since each register was last asked for
    uart,         \* bytes on the line, not read yet
    accum,        \* the accumulator of this connection
    loop,         \* "select", or "drain" inside drain_frames
    outstanding,  \* history: undamaged answers not decoded yet, in order
    answers, noise

poll_vars == <<poll_phase, unasked>>
line_vars == <<uart, answers, noise>>
xgo_vars == <<poll_vars, line_vars, accum, loop, outstanding>>

XgoInit ==
    /\ poll_phase = 0 /\ unasked = [p \in Phase |-> 0]
    /\ uart = <<>> /\ answers = 0 /\ noise = 0
    /\ accum = <<>> /\ loop = "select"
    /\ outstanding = <<>>

-----------------------------------------------------------------------------
(* Frames: 0x55 0x00 LEN MODE ADDR data CHK 0x00 0xAA.                     *)

\* The sum of the data bytes, folded from the left.
DataSum(data) ==
    LET sum[i \in 0..Len(data)] == IF i = 0 THEN 0 ELSE sum[i - 1] + data[i]
    IN  sum[Len(data)]

Checksum(len, mode, addr, data) ==
    255 - ((len + mode + addr + DataSum(data)) % 256)

PushFrame(mode, addr, data) ==
    <<85, 0, Len(data) + 8, mode, addr>> \o data
        \o <<Checksum(Len(data) + 8, mode, addr, data), 0, 170>>

\* What the firmware answers to poll p, MODE_READ echoed.
Answers(p) == {PushFrame(2, Address[p + 1], d) : d \in Payloads[p]}

\* windows(2) over all but the last byte of the accumulator.
HeaderAt(s, i) == i \in 1..Len(s) - 2 /\ s[i] = 85 /\ s[i + 1] = 0
FirstHeader(s, i) == HeaderAt(s, i) /\ \A j \in 1..i - 1 : ~HeaderAt(s, j)
NoHeader(s) == \A i \in DOMAIN s : ~HeaderAt(s, i)

LenPlausible(s) == s[3] \in 9..64

\* Mutant: any LEN is waited for.
PartialOfAnyLen(s) == HeaderAt(s, 1) /\ Len(s) < s[3]

\* Scan::Incomplete.
Partial(s) == HeaderAt(s, 1) /\ LenPlausible(s) /\ Len(s) < s[3]

\* Mutant: the checksum is not compared.
CompleteUnchecked(s) ==
    /\ HeaderAt(s, 1) /\ LenPlausible(s) /\ s[3] <= Len(s)
    /\ s[s[3] - 1] = 0 /\ s[s[3]] = 170

\* Scan::Frame.
Complete(s) ==
    /\ HeaderAt(s, 1) /\ LenPlausible(s) /\ s[3] <= Len(s)
    /\ s[s[3] - 1] = 0 /\ s[s[3]] = 170
    /\ Checksum(s[3], s[4], s[5], SubSeq(s, 6, s[3] - 3)) = s[s[3] - 2]

-----------------------------------------------------------------------------
(* Polling and the line.                                                   *)

\* fetch_add on an AtomicU8.
NextPhase(n) == (n + 1) % Width

\* Mutant: one phase too few.
AskedOfFour(n) == n % 4

Asked(n) == n % 5

Damaged(f) == {RemoveAt(f, i) : i \in DOMAIN f}
              \cup {[f EXCEPT ![i] = b] : i \in DOMAIN f, b \in NoiseBytes}

\* The robot's part: silence, an answer, or one the line damages.
Respond(p) ==
    \/ UNCHANGED <<line_vars, outstanding>>
    \/ /\ answers < MaxAnswers
       /\ answers' = answers + 1
       /\ \E f \in Answers(p) :
            \/ /\ uart' = uart \o f
               /\ outstanding' = Append(outstanding, f)
               /\ UNCHANGED noise
            \/ /\ noise < MaxNoise
               /\ noise' = noise + 1
               /\ \E g \in Damaged(f) \ {f} : uart' = uart \o g
               /\ UNCHANGED outstanding

\* poll_tick: poll_request and the write of the request.
Poll == LET p == Asked(poll_phase) IN
    /\ loop = "select"
    /\ poll_phase' = NextPhase(poll_phase)
    /\ unasked' = [q \in Phase |-> IF q = p THEN 0 ELSE unasked[q] + 1]
    /\ Respond(p)
    /\ UNCHANGED <<accum, loop>>

\* reader.read returns the first n bytes that are there.
ReadBytes(n) ==
    /\ loop = "select"
    /\ n \in DOMAIN uart
    /\ accum' = accum \o SubSeq(uart, 1, n)
    /\ uart' = SubSeq(uart, n + 1, Len(uart))
    /\ loop' = "drain"
    /\ UNCHANGED <<poll_vars, answers, noise, outstanding>>

\* The line breaks and the port is opened again, with a new accumulator.
Reopen ==
    /\ loop = "select"
    /\ uart' = <<>> /\ accum' = <<>> /\ outstanding' = <<>>
    /\ UNCHANGED <<poll_vars, answers, noise, loop>>

-----------------------------------------------------------------------------
(* drain_frames: one scan and one acc.drain(..consumed) per step.          *)

Flush(k) == /\ accum' = SubSeq(accum, k + 1, Len(accum))
            /\ UNCHANGED <<poll_vars, line_vars, loop, outstanding>>

\* rposition of 0x55, or else the length: what scan_frame skips.
IsTrailingSkip(s, k) ==
    \/ /\ k \in DOMAIN s /\ s[k] = 85
       /\ \A j \in k + 1..Len(s) : s[j] # 85
    \/ /\ k = Len(s)
       /\ \A j \in DOMAIN s : s[j] # 85

FlushNoHeader ==
    /\ loop = "drain"
    /\ NoHeader(accum)
    /\ \E k \in 0..Len(accum) : IsTrailingSkip(accum, k) /\ Flush(k)

FlushToHeader ==
    /\ loop = "drain"
    /\ \E i \in DOMAIN accum : i > 1 /\ FirstHeader(accum, i) /\ Flush(i - 1)

\* Mutant: a rejected frame is skipped by its declared length.
FlushDeclared ==
    /\ loop = "drain"
    /\ HeaderAt(accum, 1) /\ ~Partial(accum) /\ ~Complete(accum)
    /\ Flush(IF LenPlausible(accum) THEN accum[3] ELSE 2)

\* A length, tail or checksum that is wrong: the header pair was a fake.
FlushCorrupt ==
    /\ loop = "drain"
    /\ HeaderAt(accum, 1) /\ ~Partial(accum) /\ ~Complete(accum)
    /\ Flush(2)

\* Scan::Incomplete, None, break.
Wait == /\ loop = "drain"
        /\ Partial(accum)
        /\ loop' = "select"
        /\ UNCHANGED <<poll_vars, line_vars, accum, outstanding>>

DecodeFrame ==
    /\ loop = "drain"
    /\ Complete(accum)
    /\ accum' = SubSeq(accum, accum[3] + 1, Len(accum))
    /\ outstanding' = IF outstanding = <<>> THEN <<>> ELSE Tail(outstanding)
    /\ UNCHANGED <<poll_vars, line_vars, loop>>

DrainFrames == FlushNoHeader \/ FlushToHeader \/ FlushCorrupt \/ Wait \/ DecodeFrame

XgoNext == Poll \/ Reopen \/ DrainFrames \/ \E n \in DOMAIN uart : ReadBytes(n)

XgoSpec == XgoInit /\ [][XgoNext]_xgo_vars

\* The task that entered drain_frames keeps running: nothing else blocks it.
FairXgoSpec == XgoSpec /\ WF_xgo_vars(DrainFrames)

-----------------------------------------------------------------------------
(* The variables hold values of their types, the counter its width, the    *)
(* line the bytes of answers: adapters/xgo_uart.rs:103-109.                *)
XgoTypeOK ==
    /\ poll_phase \in 0..Width - 1
    /\ unasked \in [Phase -> Nat]
    /\ uart \in Seq(Byte) /\ accum \in Seq(Byte)
    /\ loop \in {"select", "drain"}
    /\ \A i \in DOMAIN outstanding : \E p \in Phase : outstanding[i] \in Answers(p)
    /\ answers \in 0..MaxAnswers /\ noise \in 0..MaxNoise

(* No register waits for more than five other polls, also when the 8-bit   *)
(* counter wraps, which asks for the joints twice running                  *)
(* (adapters/xgo_uart.rs:375).                                             *)
PollCadence == \A p \in Phase : unasked[p] <= 5

(* Whatever is flushed to find the stream again, an undamaged answer that  *)
(* is wholly in the accumulator stays there, wherever it starts: nothing   *)
(* but an accepted frame takes it away (adapters/xgo_uart.rs:196-232).     *)
IntactAt(s, i) ==
    \E p \in Phase : \E f \in Answers(p) :
        /\ i + Len(f) - 1 <= Len(s)
        /\ \A j \in DOMAIN f : s[i + j - 1] = f[j]

IntactFramesKept ==
    [][loop = "drain" /\ ~Complete(accum) =>
         LET gone == Len(accum) - Len(accum') IN
         \A i \in DOMAIN accum :
             IntactAt(accum, i) => i > gone /\ IntactAt(accum', i - gone)]_xgo_vars

(* What is decoded is the oldest undamaged answer: however reads split the *)
(* stream, damage costs the answer it hits and neither forges, reorders    *)
(* nor swallows another (adapters/xgo_uart.rs:223-237).  Only data that    *)
(* holds a whole frame of its own could be taken for one, once the header  *)
(* before it is hit.                                                       *)
DecodedInOrder ==
    loop = "drain" /\ Complete(accum) =>
        /\ outstanding # <<>>
        /\ SubSeq(accum, 1, accum[3]) = Head(outstanding)

(* The loop goes back to its select only with an empty accumulator or with *)
(* the front part of one frame of at most 64 bytes: a damaged LEN neither  *)
(* lets the accumulator grow nor waits for more than the cap               *)
(* (adapters/xgo_uart.rs:216-222).                                         *)
WaitsForPartialFrame ==
    loop = "select" /\ accum # <<>> =>
        HeaderAt(accum, 1) /\ accum[3] <= 64 /\ Len(accum) < accum[3]

(* drain_frames comes to an end: decode_telemetry returns "`None` when     *)
(* more bytes are needed" (adapters/mod.rs:61-62).                         *)
DrainEnds == loop = "drain" ~> loop = "select"
=============================================================================
