----------------------------- MODULE AhrsDriver -----------------------------
(***************************************************************************)
(* fdilink_ahrs: the loop that reads FDILink frames from a serial line,    *)
(* checks them and publishes what they carry.  The line loses and damages  *)
(* bytes, and a read that times out returns fewer bytes than it asked for. *)
(*                                                                         *)
(* The line carries tokens: a byte, or a check value, which no other       *)
(* content has (both checks are taken to detect every damage).             *)
(***************************************************************************)
EXTENDS SerialNumber, SequencesExt, FiniteSetsExt

CONSTANTS
    Sent,        \* the frame types a device may send
    Setups,      \* what a behaviour may be about, see setup
    Length,      \* [Parsed -> tokens in the content of a frame]
    GroundLength,\* the same for the frames that are skipped
    Noise        \* what a damaged byte may be read as

FRAME_HEAD == 252
FRAME_END == 253
TYPE_IMU == 64
TYPE_AHRS == 65
TYPE_INSGPS == 66
TYPE_GEODETIC_POS == 92
TYPE_GROUND == 240

Parsed == {TYPE_IMU, TYPE_AHRS, TYPE_INSGPS, TYPE_GEODETIC_POS}
Skipped == {TYPE_GROUND, 80}
Unnamed == 255
Anchoring == Parsed \ {TYPE_INSGPS}

Byte(b) == <<b>>
Crc8(type, len, sn) == <<type, len, sn>>
Crc16(content) == <<content, "crc16">>
Unwritten == <<>>   \* memory that no constructor initialises

\* What a token may be taken for where a number is expected.
NumbersIn(token) == IF Len(token) = 1 THEN {token[1]} ELSE Noise

\* What the line carries are bytes, contents are made of bytes.
Bytes == {Byte(b) : b \in 0 .. 255}
ASSUME LineAssumption ==
    /\ Length \in [Parsed -> 0 .. 255] /\ GroundLength \in 0 .. 255
    /\ Noise \subseteq 0 .. 255
    /\ \A s \in Setups : \A type \in DOMAIN s.readings :
        type \in Parsed \cup Skipped /\ s.readings[type] \subseteq Seq(Bytes)

VARIABLES
    setup,       \* [readings: function from the types the device sends to sets of
                 \* contents, a content is a sequence of tokens; and three bounds:
                 \* longestSkip on the tokens skipped, 259 bytes in the code;
                 \* maxFaults on lost and damaged bytes, timeouts and look-alikes;
                 \* backlog on the tokens that wait while another frame is sent]
    line,        \* the tokens on their way to the driver
    serial_num,  \* the device: number of its next frame
    faults,      \* lost and damaged bytes, timeouts and look-alikes so far
    stage,       \* the read that processLoop executes next
    head_type,   \* the frame being read: its type,
    check_len,   \* the tokens still to be skipped,
    head_crc16,  \* and the check value of its content
    buffer,      \* imu_frame_, ahrs_frame_, ...: content and frame_end
    read_sn_, frist_sn_, sn_lost_,
    published,   \* history: the last message published
    debt         \* history: frames sent that were not published

device == <<setup, serial_num, debt>>
local == <<head_type, check_len, head_crc16>>
count == <<read_sn_, frist_sn_, sn_lost_>>
vars == <<setup, line, serial_num, faults, stage, head_type, check_len, head_crc16,
          buffer, read_sn_, frist_sn_, sn_lost_, published, debt>>

NoMessage == [type |-> Unnamed, content |-> <<>>, borrowed |-> <<>>]
Stages == {"head", "type", "len", "ground_sn", "ground_ignore", "header", "data"}

AhrsInit ==
    /\ setup \in Setups
    /\ line = <<>>
    /\ serial_num \in Numbers
    /\ faults = 0
    /\ stage = "head"
    /\ head_type = Unnamed /\ check_len = 0 /\ head_crc16 = Unwritten
    /\ buffer = [t \in Parsed |-> [i \in 1 .. Length[t] + 1 |-> Unwritten]]
    /\ read_sn_ = 0 /\ frist_sn_ = FALSE /\ sn_lost_ = 0
    /\ published = NoMessage
    /\ debt = 0
-----------------------------------------------------------------------------
\* The device and the line.

SizeOf(type) == IF type \in Parsed THEN Length[type] ELSE GroundLength

Frame(type, content) ==
    <<Byte(FRAME_HEAD), Byte(type), Byte(SizeOf(type)), Byte(serial_num),
      Crc8(type, SizeOf(type), serial_num), Crc16(content)>>
    \o content \o <<Byte(FRAME_END)>>

\* What becomes of a frame on a line that damages or loses one byte of it.
Damaged(frame) ==
    {ReplaceAt(frame, i, Byte(b)) : i \in DOMAIN frame, b \in Noise}
        \cup {RemoveAt(frame, i) : i \in DOMAIN frame}

\* What a fault may cost, and where debt saturates: past what FaultsCostFrames
\* allows, even when all the frames that may still be read turn out to be good.
ShortestFrame == 7 + Min({SizeOf(type) : type \in DOMAIN setup.readings})
FramesPerFault == 1 + (setup.longestSkip + ShortestFrame - 1) \div ShortestFrame
MostDebt == FramesPerFault * setup.maxFaults + setup.backlog + 3

\* The device sends a frame, which arrives as these tokens.
Send(type, content, tokens) ==
    /\ Len(line) <= setup.backlog
    /\ line' = line \o tokens
    /\ serial_num' = Succ(serial_num)
    /\ debt' = IF type \in Parsed THEN Min({debt + 1, MostDebt}) ELSE debt
    /\ UNCHANGED <<setup, stage, local, buffer, count, published>>

SendFrame(type) ==
    /\ type \in DOMAIN setup.readings
    /\ \E content \in setup.readings[type] : Send(type, content, Frame(type, content))
    /\ UNCHANGED faults

SendDamaged(type) ==
    /\ type \in DOMAIN setup.readings
    /\ faults < setup.maxFaults
    /\ faults' = faults + 1
    /\ \E content \in setup.readings[type] :
        \E tokens \in Damaged(Frame(type, content)) : Send(type, content, tokens)
-----------------------------------------------------------------------------
\* serial_.read(.., n) returns the next k bytes; fewer than n only after a
\* timeout.
Read(n, k) ==
    /\ k <= Len(line)
    /\ line' = SubSeq(line, k + 1, Len(line))
    /\ k < n => faults < setup.maxFaults
    /\ faults' = IF k < n THEN faults + 1 ELSE faults

\* A check value may look like the first byte of a frame: a fault of its own,
\* which happens only after another one has misled the parser.
ReadHead ==
    /\ stage = "head"
    /\ \/ /\ Read(1, 1)
          /\ stage' = IF line[1] = Byte(FRAME_HEAD) THEN "type" ELSE "head"
       \/ /\ line # <<>> /\ Len(line[1]) > 1
          /\ faults < setup.maxFaults
          /\ faults' = faults + 1
          /\ line' = Tail(line)
          /\ stage' = "type"
    /\ UNCHANGED <<device, local, buffer, count, published>>

ReadType ==
    /\ stage = "type"
    /\ \/ /\ Read(1, 0)
          /\ stage' = "head"
          /\ UNCHANGED head_type
       \/ /\ Read(1, 1)
          /\ \E type \in NumbersIn(line[1]) :
                IF type \in Parsed \cup Skipped \cup {Unnamed}
                THEN stage' = "len" /\ head_type' = type
                ELSE stage' = "head" /\ UNCHANGED head_type
    /\ UNCHANGED <<device, check_len, head_crc16, buffer, count, published>>

\* Frames of a type without a name have no length to check.
LengthFits(len) == head_type \in Parsed => len = Length[head_type]

ReadLen ==
    /\ stage = "len"
    /\ \/ /\ Read(1, 0)
          /\ stage' = "head"
          /\ UNCHANGED check_len
       \/ /\ Read(1, 1)
          /\ \E len \in NumbersIn(line[1]) :
                /\ stage' = CASE ~LengthFits(len) -> "head"
                              [] head_type \in Skipped -> "ground_sn"
                              [] OTHER -> "header"
                /\ check_len' = IF stage' = "ground_sn" THEN Min({len + 3, setup.longestSkip}) ELSE 0
    /\ UNCHANGED <<device, head_type, head_crc16, buffer, count, published>>

\* checkSN, and the same for frames that are skipped: sn follows read_sn.
CheckSN(sn, read_sn) ==
    /\ sn_lost_' = sn_lost_ + Missing(sn, Succ(read_sn))
    /\ read_sn_' = sn

\* A read that times out leaves ground_sn as it was on the stack.
ReadGroundSN ==
    /\ stage = "ground_sn"
    /\ \E sn \in Numbers :
        /\ CheckSN(sn, read_sn_)
        /\ \/ Read(1, 0)
           \/ Read(1, 1) /\ \E b \in NumbersIn(line[1]) : sn = b % Modulus
    /\ stage' = "ground_ignore"
    /\ UNCHANGED <<device, local, buffer, frist_sn_, published>>

\* Skips check values, content and end of the frame: one read in the code,
\* here token by token; a timeout ends it.
ReadGroundIgnore ==
    /\ stage = "ground_ignore"
    /\ \/ /\ Read(1, 0)
          /\ stage' = "head" /\ check_len' = 0
       \/ /\ Read(1, 1)
          /\ check_len' = check_len - 1
          /\ stage' = IF check_len = 1 THEN "head" ELSE "ground_ignore"
    /\ UNCHANGED <<device, head_type, head_crc16, buffer, count, published>>

\* The serial number and both check values as four reads leave them: the ones
\* in late timed out and keep their initial 0xff.
Header(late) ==
    [i \in 1 .. 3 |-> IF i \in late THEN Byte(255)
                      ELSE line[i - Cardinality(late \cap 1 .. i)]]

\* Mutant: the length that is checked counts the byte that ends the frame.
Crc8FitsLong(header) ==
    /\ Len(header[1]) = 1
    /\ header[2] = Crc8(head_type, Length[head_type] + 1, header[1][1])
Crc8Fits(header) ==
    /\ Len(header[1]) = 1
    /\ header[2] = Crc8(head_type, Length[head_type], header[1][1])

\* The number that read_sn_ is set to before the first number is checked.
Previous(sn) ==
    IF head_type \in Anchoring /\ ~frist_sn_ THEN Pred(sn) ELSE read_sn_

ReadHeader ==
    /\ stage = "header"
    /\ \E late \in SUBSET (1 .. 3) :
        LET n == 3 - Cardinality(late)
            header == Header(late)
        IN /\ n <= Len(line)
           /\ line' = SubSeq(line, n + 1, Len(line))
           /\ faults' = faults + Cardinality(late)
           /\ faults' <= setup.maxFaults
           /\ IF head_type \in Parsed /\ Crc8Fits(header)
              THEN /\ CheckSN(header[1][1], Previous(header[1][1]))
                   /\ frist_sn_' = (frist_sn_ \/ head_type \in Anchoring)
                   /\ head_crc16' = header[3]
                   /\ stage' = "data"
              ELSE /\ stage' = "head"
                   /\ UNCHANGED <<count, head_crc16>>
    /\ UNCHANGED <<device, head_type, check_len, buffer, published>>

\* What a frame's buffer holds after k tokens have been read into it.
Overwritten(k) ==
    [i \in DOMAIN buffer[head_type] \cup 1 .. k |->
        IF i <= k THEN line[i] ELSE buffer[head_type][i]]

Content(frame) == Front(frame)
\* Mutant: the end of the frame is all that is checked.
IntactEnd(frame) == Last(frame) = Byte(FRAME_END)
Intact(frame) ==
    /\ head_crc16 = Crc16(Content(frame))
    /\ Last(frame) = Byte(FRAME_END)

\* IMU and AHRS messages take part of what they say from the other's buffer.
Borrowed(buffers) ==
    CASE head_type = TYPE_IMU -> Content(buffers[TYPE_AHRS])
      [] head_type = TYPE_AHRS -> Content(buffers[TYPE_IMU])
      [] OTHER -> <<>>

\* The tokens of one read.  Mutants: one more than the buffer has; one less.
DataSizeLong == Length[head_type] + 2
DataSizeShort == Length[head_type]
DataSize == Length[head_type] + 1

ReadData ==
    /\ stage = "data"
    /\ \E k \in 0 .. DataSize :
        /\ Read(DataSize, k)
        /\ buffer' = [buffer EXCEPT ![head_type] = Overwritten(k)]
    /\ IF Intact(buffer'[head_type])
       THEN /\ published' = [type |-> head_type,
                             content |-> Content(buffer'[head_type]),
                             borrowed |-> Borrowed(buffer')]
            /\ debt' = debt - 1
       ELSE UNCHANGED <<published, debt>>
    /\ stage' = "head"
    /\ UNCHANGED <<setup, serial_num, local, count>>

processLoop == \/ ReadHead \/ ReadType \/ ReadLen \/ ReadHeader \/ ReadData
               \/ ReadGroundSN \/ ReadGroundIgnore

AhrsNext == \/ \E type \in Sent : SendFrame(type) \/ SendDamaged(type)
            \/ processLoop

AhrsSpec == AhrsInit /\ [][AhrsNext]_vars
-----------------------------------------------------------------------------
\* The device sends IMU frames again and again, and the loop runs.
FairAhrsSpec == AhrsSpec /\ WF_vars(processLoop) /\ SF_vars(SendFrame(TYPE_IMU))

\* Whatever the line does to the bytes, a message carries the content of a
\* frame the device has sent, never parts of two or of none (processLoop).
MessageIsSent ==
    published # NoMessage => published.content \in setup.readings[published.type]

\* A fault costs the frame it hits and as many as the longest skip reaches into,
\* however the search for the next frame goes wrong: seen when all that was sent
\* is read.
FaultsCostFrames == line = <<>> /\ stage = "head" => debt <= FramesPerFault * faults

\* The loop finds its way back to the frames: IMU messages never cease.
Resynchronises == []<><<ReadData /\ published'.type = TYPE_IMU /\ debt' < debt>>_vars

\* What an IMU message takes from the AHRS frame, and the reverse, was checked.
BorrowedIsVerified ==
    published.type \in {TYPE_IMU, TYPE_AHRS} =>
        \/ published.borrowed \in
              setup.readings[IF published.type = TYPE_IMU THEN TYPE_AHRS ELSE TYPE_IMU]
        \/ \A i \in DOMAIN published.borrowed : published.borrowed[i] = Unwritten
=============================================================================
