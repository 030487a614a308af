----------------------------- MODULE AhrsProofs -----------------------------
(***************************************************************************)
(* Of the loop that reads FDILink frames: a message carries what the       *)
(* device has sent, whatever happens to the bytes.  The two check values   *)
(* are taken to detect every damage; what has to be shown is that a        *)
(* content is only ever tested against its own, although a header may be   *)
(* followed by bytes of another frame.  Of the serial numbers: for every   *)
(* width of the number the loss count is exact since a frame anchored it,  *)
(* up to a round for each wrong number of a skipped frame.                 *)
(***************************************************************************)
EXTENDS AhrsDriver, SerialCount, SequenceTheorems, FiniteSetTheorems, TLAPS

-----------------------------------------------------------------------------
\* What the line carries: bytes and check values, told apart by their lengths.
ByteTokens == {Byte(b) : b \in Int}
Tokens == ByteTokens \cup {Crc8(type, len, sn) : type \in Int, len \in Int, sn \in Int}
                     \cup {Crc16(content) : content \in Seq(ByteTokens)}

\* A token that can stand where the check value of the content does.
CheckOf(readings, type, token) ==
    \/ Len(token) = 1
    \/ /\ type \in DOMAIN readings
       /\ \E content \in readings[type] : token = Crc16(content)

\* After the check value of a header comes that of a content of the header's
\* type, unless it is lost or damaged.
Paired(readings, tokens) ==
    \A i \in 1 .. Len(tokens) : Len(tokens[i]) = 3 =>
        i + 1 <= Len(tokens) /\ CheckOf(readings, tokens[i][1], tokens[i + 1])

SentInv ==
    /\ setup \in Setups /\ serial_num \in Numbers
    /\ line \in Seq(Tokens) /\ Paired(setup.readings, line)
    /\ stage = "data" => CheckOf(setup.readings, head_type, head_crc16)
    /\ MessageIsSent

(* A byte has one part, the check value of a header three, beginning with the *)
(* type, and that of a content two, the first of which is the content.        *)
LEMMA TokenParts ==
    /\ \A b : Len(Byte(b)) = 1
    /\ \A type, len, sn : Len(Crc8(type, len, sn)) = 3 /\ Crc8(type, len, sn)[1] = type
    /\ \A content : Len(Crc16(content)) = 2 /\ Crc16(content)[1] = content
BY DEF Byte, Crc8, Crc16

\* What comes where when n tokens of s are joined by m tokens of t.
Joint(tokens, s, n, t, m) ==
    /\ tokens \in Seq(Tokens)
    /\ Len(tokens) = n + m
    /\ \A i \in 1 .. n + m : tokens[i] = IF i <= n THEN s[i] ELSE t[i - n]

(* Concatenation joins. *)
LEMMA Joined ==
    ASSUME NEW s \in Seq(Tokens), NEW t \in Seq(Tokens), NEW n \in Nat, NEW m \in Nat,
           Len(s) = n, Len(t) = m
    PROVE Joint(s \o t, s, n, t, m)
BY ConcatProperties DEF Joint

(* A sequence of bytes and check values is made longer at its end by another *)
(* one in which headers and contents are paired.                             *)
LEMMA PairedConcat ==
    ASSUME NEW readings, NEW s \in Seq(Tokens), NEW t \in Seq(Tokens),
           Paired(readings, s), Paired(readings, t)
    PROVE s \o t \in Seq(Tokens) /\ Paired(readings, s \o t)
<1>1. s \o t \in Seq(Tokens) /\ Len(s \o t) = Len(s) + Len(t) /\ Len(s) \in Nat /\ Len(t) \in Nat
    BY ConcatProperties
<1>2. \A i \in 1 .. Len(s) + Len(t) :
        (s \o t)[i] = IF i <= Len(s) THEN s[i] ELSE t[i - Len(s)]
    BY ConcatProperties
<1>3. ASSUME NEW i \in 1 .. Len(s) + Len(t), Len((s \o t)[i]) = 3
      PROVE i + 1 <= Len(s) + Len(t)
            /\ CheckOf(readings, (s \o t)[i][1], (s \o t)[i + 1])
    <2>1. CASE i <= Len(s)
        <3>1. (s \o t)[i] = s[i]
            BY <1>1, <1>2, <2>1
        <3>2. i \in 1 .. Len(s)
            BY <1>1, <2>1
        <3>3. i + 1 <= Len(s) /\ CheckOf(readings, s[i][1], s[i + 1])
            BY <1>3, <3>1, <3>2 DEF Paired
        <3>4. i + 1 \in 1 .. Len(s) + Len(t)
            BY <1>1, <3>2, <3>3
        <3>5. (s \o t)[i + 1] = s[i + 1]
            BY <1>2, <3>3, <3>4
        <3> QED BY <3>1, <3>3, <3>4, <3>5
    <2>2. CASE ~(i <= Len(s))
        <3>1. (s \o t)[i] = t[i - Len(s)]
            BY <1>2, <2>2
        <3>2. i - Len(s) \in 1 .. Len(t)
            BY <1>1, <2>2
        <3>3. /\ (i - Len(s)) + 1 <= Len(t)
              /\ CheckOf(readings, t[i - Len(s)][1], t[(i - Len(s)) + 1])
            BY <1>3, <3>1, <3>2 DEF Paired
        <3>4. i + 1 \in 1 .. Len(s) + Len(t) /\ ~(i + 1 <= Len(s))
            BY <1>1, <2>2, <3>2, <3>3
        <3>5. (s \o t)[i + 1] = t[(i - Len(s)) + 1]
            <4>1. (i + 1) - Len(s) = (i - Len(s)) + 1
                BY <1>1
            <4> QED BY <1>2, <3>4, <4>1
        <3> QED BY <3>1, <3>3, <3>4, <3>5
    <2> QED BY <2>1, <2>2
<1> QED BY <1>1, <1>3 DEF Paired

(* Reading from the front leaves the rest as it is. *)
LEMMA PairedRest ==
    ASSUME NEW readings, NEW s \in Seq(Tokens), Paired(readings, s),
           NEW k \in Nat, k <= Len(s)
    PROVE /\ SubSeq(s, k + 1, Len(s)) \in Seq(Tokens)
          /\ Paired(readings, SubSeq(s, k + 1, Len(s)))
<1> DEFINE rest == SubSeq(s, k + 1, Len(s))
<1>1. Len(s) \in Nat
    OBVIOUS
<1>2. \A i \in k + 1 .. Len(s) : s[i] \in Tokens
    OBVIOUS
<1>3. rest \in Seq(Tokens) /\ Len(rest) = Len(s) - k
    BY <1>1, <1>2
<1>4. \A i \in 1 .. Len(s) - k : rest[i] = s[k + i]
    BY <1>1, <1>2
<1> HIDE DEF rest
<1>5. ASSUME NEW i \in 1 .. Len(s) - k, Len(rest[i]) = 3
      PROVE i + 1 <= Len(s) - k /\ CheckOf(readings, rest[i][1], rest[i + 1])
    <2>1. rest[i] = s[k + i] /\ k + i \in 1 .. Len(s)
        BY <1>1, <1>4
    <2>2. (k + i) + 1 <= Len(s) /\ CheckOf(readings, s[k + i][1], s[(k + i) + 1])
        BY <1>5, <2>1 DEF Paired
    <2>3. i + 1 \in 1 .. Len(s) - k /\ k + (i + 1) = (k + i) + 1
        BY <1>1, <2>2
    <2>4. rest[i + 1] = s[(k + i) + 1]
        BY <1>4, <2>3
    <2> QED BY <2>1, <2>2, <2>3, <2>4
<1>6. Paired(readings, rest)
    BY <1>3, <1>5 DEF Paired
<1> QED BY <1>3, <1>6 DEF rest

\* A frame, as a sequence of tokens: two check values at their places, the
\* second one of the content that follows, and bytes.
Framed(readings, type, tokens) ==
    /\ tokens \in Seq(Tokens) /\ Len(tokens) >= 7
    /\ Len(tokens[5]) = 3 /\ tokens[5][1] = type
    /\ Len(tokens[6]) = 2 /\ CheckOf(readings, type, tokens[6])
    /\ \A i \in 1 .. Len(tokens) : i # 5 /\ i # 6 => Len(tokens[i]) = 1

(* Every byte is a token, and contents are made of them. *)
LEMMA BytesAreTokens ==
    /\ \A b \in Int : Byte(b) \in ByteTokens
    /\ ByteTokens \subseteq Tokens
    /\ \A token \in ByteTokens : Len(token) = 1
    /\ Bytes \subseteq ByteTokens
<1>1. (\A b \in Int : Byte(b) \in ByteTokens) /\ Bytes \subseteq ByteTokens
    BY DEF ByteTokens, Bytes
<1>2. ByteTokens \subseteq Tokens
    BY DEF Tokens
<1>3. ASSUME NEW token \in ByteTokens PROVE Len(token) = 1
    BY TokenParts DEF ByteTokens
<1> QED BY <1>1, <1>2, <1>3

(* The device sends frames whose check value is that of their content. *)
LEMMA FrameIsFramed ==
    ASSUME setup \in Setups, serial_num \in Numbers,
           NEW type \in DOMAIN setup.readings, NEW content \in setup.readings[type]
    PROVE Framed(setup.readings, type, Frame(type, content))
<1> DEFINE head == <<Byte(FRAME_HEAD), Byte(type), Byte(SizeOf(type)), Byte(serial_num),
                     Crc8(type, SizeOf(type), serial_num), Crc16(content)>>
           end == <<Byte(FRAME_END)>>
           frame == head \o content \o end
<1>1. /\ type \in Int /\ SizeOf(type) \in Int /\ serial_num \in Int
      /\ content \in Seq(ByteTokens)
    <2>1. type \in Parsed \cup Skipped /\ content \in Seq(Bytes)
        BY LineAssumption
    <2>2. type \in Int
        BY <2>1 DEF Parsed, Skipped, TYPE_IMU, TYPE_AHRS, TYPE_INSGPS, TYPE_GEODETIC_POS,
                    TYPE_GROUND
    <2>3. SizeOf(type) \in Int
        <3>1. type \in Parsed => Length[type] \in Int
            <4>1. Length \in [Parsed -> 0 .. 255] /\ (0 .. 255) \subseteq Int
                BY LineAssumption
            <4> QED BY <4>1
        <3>2. GroundLength \in Int
            BY LineAssumption
        <3> QED BY <3>1, <3>2 DEF SizeOf
    <2>4. serial_num \in Int
        BY ModulusAssumption DEF Numbers
    <2>5. content \in Seq(ByteTokens)
        BY <2>1, BytesAreTokens
    <2> QED BY <2>2, <2>3, <2>4, <2>5
<1>2. Byte(FRAME_HEAD) \in ByteTokens /\ Byte(FRAME_END) \in ByteTokens
      /\ Byte(type) \in ByteTokens /\ Byte(SizeOf(type)) \in ByteTokens
      /\ Byte(serial_num) \in ByteTokens
    BY <1>1, BytesAreTokens DEF FRAME_HEAD, FRAME_END
<1>3. /\ Crc8(type, SizeOf(type), serial_num) \in Tokens
      /\ Crc16(content) \in Tokens
    BY <1>1 DEF Tokens
<1>4. content \in Seq(Tokens)
    BY <1>1, BytesAreTokens
<1>5. head \in Seq(Tokens) /\ Len(head) = 6 /\ end \in Seq(Tokens) /\ Len(end) = 1
    BY <1>2, <1>3, BytesAreTokens
<1>6. /\ head[5] = Crc8(type, SizeOf(type), serial_num)
      /\ head[6] = Crc16(content)
      /\ \A i \in 1 .. 4 : Len(head[i]) = 1
    BY TokenParts
<1>7. Len(end[1]) = 1
    BY TokenParts
<1>8. \A i \in 1 .. Len(content) : Len(content[i]) = 1
    BY <1>1, BytesAreTokens
<1> HIDE DEF head, end
<1>9. PICK six \in Nat : six = 6
    OBVIOUS
<1>10. Len(head) = six /\ Len(content) \in Nat
    BY <1>4, <1>5, <1>9
<1>11. Joint(head \o content, head, six, content, Len(content))
    BY <1>4, <1>5, <1>10, Joined
<1>12. Joint(frame, head \o content, six + Len(content), end, 1)
    <2>1. six + Len(content) \in Nat /\ 1 \in Nat
        BY <1>10
    <2>2. head \o content \in Seq(Tokens) /\ Len(head \o content) = six + Len(content)
        BY <1>11 DEF Joint
    <2>3. end \in Seq(Tokens) /\ Len(end) = 1
        BY <1>5
    <2> QED BY <2>1, <2>2, <2>3, Joined
<1> HIDE DEF frame
<1>13. frame[5] = head[5] /\ frame[6] = head[6]
    BY <1>9, <1>10, <1>11, <1>12 DEF Joint
<1>14. ASSUME NEW i \in 1 .. 7 + Len(content), i # 5, i # 6 PROVE Len(frame[i]) = 1
    <2>1. CASE i <= 4
        <3>1. frame[i] = head[i]
            BY <1>9, <1>10, <1>11, <1>12, <2>1 DEF Joint
        <3> QED BY <1>6, <2>1, <3>1
    <2>2. CASE 7 <= i /\ i <= 6 + Len(content)
        <3>1. frame[i] = content[i - 6]
            BY <1>9, <1>10, <1>11, <1>12, <2>2 DEF Joint
        <3>2. i - 6 \in 1 .. Len(content)
            BY <1>10, <2>2
        <3> QED BY <1>8, <3>1, <3>2
    <2>3. CASE i = 7 + Len(content)
        <3>1. i - (6 + Len(content)) = 1 /\ ~(i <= 6 + Len(content))
            BY <1>10, <2>3
        <3>2. frame[i] = end[1]
            BY <1>9, <1>10, <1>12, <3>1 DEF Joint
        <3> QED BY <1>7, <3>2
    <2> QED BY <1>10, <1>14, <2>1, <2>2, <2>3
<1>15. Len(frame[5]) = 3 /\ frame[5][1] = type
    BY <1>6, <1>13, TokenParts
<1>16. Len(frame[6]) = 2 /\ CheckOf(setup.readings, type, frame[6])
    BY <1>6, <1>13, TokenParts DEF CheckOf
<1>17. Len(frame) = 7 + Len(content) /\ Len(frame) >= 7
    BY <1>9, <1>10, <1>12 DEF Joint
<1>18. Framed(setup.readings, type, frame)
    BY <1>12, <1>14, <1>15, <1>16, <1>17 DEF Framed, Joint
<1> QED BY <1>18 DEF frame, head, end, Frame

(* A frame has one check value of a header. *)
LEMMA OneHeaderCheck ==
    ASSUME NEW readings, NEW type, NEW tokens, Framed(readings, type, tokens),
           NEW i \in 1 .. Len(tokens), Len(tokens[i]) = 3
    PROVE i = 5
<1>1. i # 5 /\ i # 6 => Len(tokens[i]) = 1
    BY DEF Framed
<1>2. i = 6 => Len(tokens[i]) = 2
    BY DEF Framed
<1> QED BY <1>1, <1>2

(* In a whole frame header and content are paired. *)
LEMMA FramedIsPaired ==
    ASSUME NEW readings, NEW type, NEW tokens, Framed(readings, type, tokens)
    PROVE tokens \in Seq(Tokens) /\ Paired(readings, tokens)
<1>1. ASSUME NEW i \in 1 .. Len(tokens), Len(tokens[i]) = 3
      PROVE i + 1 <= Len(tokens) /\ CheckOf(readings, tokens[i][1], tokens[i + 1])
    <2>1. i = 5
        BY <1>1, OneHeaderCheck
    <2>2. 6 <= Len(tokens) /\ tokens[5][1] = type /\ CheckOf(readings, type, tokens[6])
        BY DEF Framed
    <2> QED BY <2>1, <2>2
<1> QED BY <1>1 DEF Framed, Paired

(* They are when a byte is damaged: no check value comes to be. *)
LEMMA DamageKeepsPairs ==
    ASSUME NEW readings, NEW type, NEW tokens, Framed(readings, type, tokens),
           NEW at \in 1 .. Len(tokens), NEW b \in Int
    PROVE /\ ReplaceAt(tokens, at, Byte(b)) \in Seq(Tokens)
          /\ Paired(readings, ReplaceAt(tokens, at, Byte(b)))
<1> DEFINE bad == [tokens EXCEPT ![at] = Byte(b)]
<1>1. tokens \in Seq(Tokens) /\ Byte(b) \in Tokens /\ Len(Byte(b)) = 1
    BY BytesAreTokens, TokenParts DEF Framed
<1>2. bad \in Seq(Tokens) /\ Len(bad) = Len(tokens)
    BY <1>1
<1>3. \A i \in 1 .. Len(tokens) : bad[i] = IF i = at THEN Byte(b) ELSE tokens[i]
    BY <1>1
<1> HIDE DEF bad
<1>4. ASSUME NEW i \in 1 .. Len(tokens), Len(bad[i]) = 3 PROVE i = 5 /\ bad[i] = tokens[5]
    <2>1. i # at
        <3>1. i = at => bad[i] = Byte(b)
            BY <1>3
        <3>2. i = at => Len(bad[i]) = 1
            BY <1>1, <3>1
        <3> QED BY <1>4, <3>2
    <2>2. bad[i] = tokens[i]
        BY <1>3, <2>1
    <2> QED BY <1>4, <2>2, OneHeaderCheck
<1>5. Len(tokens) >= 7 /\ tokens[5][1] = type
    BY DEF Framed
<1>6. CheckOf(readings, type, bad[6])
    <2>1. CASE at = 6
        BY <1>1, <1>3, <2>1 DEF CheckOf
    <2>2. CASE at # 6
        BY <1>3, <1>5, <2>2 DEF Framed
    <2> QED BY <2>1, <2>2
<1>7. Paired(readings, bad)
    BY <1>2, <1>4, <1>5, <1>6 DEF Paired
<1> QED BY <1>2, <1>7 DEF bad, ReplaceAt

(* They are when a byte is lost: if it is the content's check value, a byte *)
(* takes its place.                                                         *)
LEMMA LossKeepsPairs ==
    ASSUME NEW readings, NEW type, NEW tokens, Framed(readings, type, tokens),
           NEW at \in 1 .. Len(tokens)
    PROVE /\ RemoveAt(tokens, at) \in Seq(Tokens)
          /\ Paired(readings, RemoveAt(tokens, at))
<1> DEFINE front == SubSeq(tokens, 1, at - 1)
           after == SubSeq(tokens, at + 1, Len(tokens))
           rest == front \o after
<1>1. tokens \in Seq(Tokens) /\ Len(tokens) \in Nat /\ at \in Nat /\ at - 1 \in Nat
    BY DEF Framed
<1>2. (\A i \in 1 .. at - 1 : tokens[i] \in Tokens)
      /\ (\A i \in at + 1 .. Len(tokens) : tokens[i] \in Tokens)
    BY <1>1
<1>3. /\ front \in Seq(Tokens) /\ Len(front) = at - 1
      /\ \A i \in 1 .. at - 1 : front[i] = tokens[i]
    BY <1>1, <1>2
<1>4. /\ after \in Seq(Tokens) /\ Len(after) = Len(tokens) - at
      /\ \A i \in 1 .. Len(tokens) - at : after[i] = tokens[at + i]
    BY <1>1, <1>2
<1> HIDE DEF front, after
<1>5. /\ rest \in Seq(Tokens) /\ Len(rest) = Len(tokens) - 1
      /\ \A i \in 1 .. Len(tokens) - 1 :
            rest[i] = IF i <= at - 1 THEN front[i] ELSE after[i - (at - 1)]
    <2>1. (at - 1) + (Len(tokens) - at) = Len(tokens) - 1
        BY <1>1
    <2>2. Joint(rest, front, at - 1, after, Len(tokens) - at)
        <3>1. at - 1 \in Nat /\ Len(tokens) - at \in Nat
            BY <1>1
        <3> QED BY <1>3, <1>4, <3>1, Joined
    <2> QED BY <2>1, <2>2 DEF Joint
<1> HIDE DEF rest
<1>6. ASSUME NEW i \in 1 .. Len(tokens) - 1
      PROVE rest[i] = IF i < at THEN tokens[i] ELSE tokens[i + 1]
    <2>1. CASE i < at
        BY <1>1, <1>3, <1>5, <2>1
    <2>2. CASE ~(i < at)
        <3>1. i - (at - 1) \in 1 .. Len(tokens) - at /\ at + (i - (at - 1)) = i + 1
            BY <1>1, <2>2
        <3>2. rest[i] = after[i - (at - 1)]
            <4>1. ~(i <= at - 1)
                BY <1>1, <2>2
            <4> QED BY <1>5, <4>1
        <3> QED BY <1>4, <2>2, <3>1, <3>2
    <2> QED BY <2>1, <2>2
<1>7. Len(tokens) >= 7 /\ tokens[5][1] = type
    BY DEF Framed
<1>8. ASSUME NEW i \in 1 .. Len(tokens) - 1, Len(rest[i]) = 3
      PROVE i + 1 <= Len(tokens) - 1 /\ CheckOf(readings, rest[i][1], rest[i + 1])
    <2>1. CASE i < at
        <3>1. rest[i] = tokens[i] /\ i \in 1 .. Len(tokens)
            BY <1>1, <1>6, <2>1
        <3>2. i = 5
            BY <1>8, <3>1, OneHeaderCheck
        <3>3. 6 \in 1 .. Len(tokens) - 1
            BY <1>1, <1>7
        <3>4. rest[6] = tokens[6] \/ rest[6] = tokens[7]
            BY <1>6, <3>3
        <3>5. CheckOf(readings, type, tokens[6]) /\ CheckOf(readings, type, tokens[7])
            BY <1>1, <1>7 DEF Framed, CheckOf
        <3> QED BY <1>7, <3>1, <3>2, <3>3, <3>4, <3>5
    <2>2. CASE ~(i < at)
        <3>1. rest[i] = tokens[i + 1] /\ i + 1 \in 1 .. Len(tokens)
            BY <1>1, <1>6, <2>2
        <3>2. i + 1 = 5
            <4>1. Len(tokens[i + 1]) = 3
                BY <1>8, <3>1
            <4> QED BY <3>1, <4>1, OneHeaderCheck
        <3>3. 5 \in 1 .. Len(tokens) - 1 /\ ~(5 < at)
            BY <1>1, <1>7, <2>2, <3>2
        <3>4. rest[5] = tokens[6]
            BY <1>6, <3>3
        <3>5. CheckOf(readings, type, tokens[6])
            BY DEF Framed
        <3> QED BY <1>7, <3>1, <3>2, <3>3, <3>4, <3>5
    <2> QED BY <2>1, <2>2
<1>9. Paired(readings, rest)
    BY <1>5, <1>8 DEF Paired
<1> QED BY <1>5, <1>9 DEF rest, front, after, RemoveAt

-----------------------------------------------------------------------------
(* Before the first frame nothing is on the line and nothing published. *)
LEMMA SentInvInit == AhrsInit => SentInv
<1> SUFFICES ASSUME AhrsInit PROVE SentInv
    OBVIOUS
<1>1. line = <<>> /\ stage = "head" /\ published = NoMessage /\ setup \in Setups
      /\ serial_num \in Numbers
    BY DEF AhrsInit
<1>2. line \in Seq(Tokens) /\ Len(line) = 0
    BY <1>1
<1>3. Paired(setup.readings, line)
    BY <1>2 DEF Paired
<1> QED BY <1>1, <1>2, <1>3 DEF SentInv, MessageIsSent

(* What the device sends is paired when it arrives, whole or damaged. *)
LEMMA SentInvSend ==
    ASSUME SentInv, NEW type \in DOMAIN setup.readings,
           NEW content \in setup.readings[type],
           NEW tokens \in {Frame(type, content)} \cup Damaged(Frame(type, content)),
           Send(type, content, tokens)
    PROVE SentInv'
<1>1. setup \in Setups /\ serial_num \in Numbers
    BY DEF SentInv
<1>2. Framed(setup.readings, type, Frame(type, content))
    BY <1>1, FrameIsFramed
<1>3. tokens \in Seq(Tokens) /\ Paired(setup.readings, tokens)
    <2>1. CASE tokens = Frame(type, content)
        BY <1>2, <2>1, FramedIsPaired
    <2>2. CASE tokens \in Damaged(Frame(type, content))
        <3> DEFINE frame == Frame(type, content)
        <3>1. DOMAIN frame = 1 .. Len(frame)
            BY <1>2 DEF Framed
        <3>2. Noise \subseteq Int
            BY LineAssumption
        <3>3. \/ \E at \in DOMAIN frame, b \in Noise : tokens = ReplaceAt(frame, at, Byte(b))
              \/ \E at \in DOMAIN frame : tokens = RemoveAt(frame, at)
            BY <2>2 DEF Damaged
        <3> HIDE DEF frame
        <3>4. ASSUME NEW at \in 1 .. Len(frame), NEW b \in Int,
                     tokens = ReplaceAt(frame, at, Byte(b))
              PROVE tokens \in Seq(Tokens) /\ Paired(setup.readings, tokens)
            BY <1>2, <3>4, DamageKeepsPairs DEF frame
        <3>5. ASSUME NEW at \in 1 .. Len(frame), tokens = RemoveAt(frame, at)
              PROVE tokens \in Seq(Tokens) /\ Paired(setup.readings, tokens)
            BY <1>2, <3>5, LossKeepsPairs DEF frame
        <3> QED BY <3>1, <3>2, <3>3, <3>4, <3>5
    <2> QED BY <2>1, <2>2
<1>4. line' \in Seq(Tokens) /\ Paired(setup.readings, line')
    BY <1>3, PairedConcat DEF SentInv, Send
<1>5. serial_num' \in Numbers
    BY ModulusAssumption DEF SentInv, Send, Succ, Numbers
<1>6. UNCHANGED <<setup, stage, head_type, head_crc16, published>>
    BY DEF Send, local
<1> QED BY <1>4, <1>5, <1>6 DEF SentInv, MessageIsSent

(* A read leaves the rest of the line paired. *)
LEMMA ReadKeepsLine ==
    ASSUME SentInv, NEW k \in Nat, k <= Len(line), line' = SubSeq(line, k + 1, Len(line))
    PROVE line' \in Seq(Tokens) /\ Paired(setup.readings, line')
BY PairedRest DEF SentInv

(* The same, in the words of serial_.read. *)
LEMMA ReadKeepsPairs ==
    ASSUME SentInv, NEW n, NEW k \in Nat, Read(n, k)
    PROVE line' \in Seq(Tokens) /\ Paired(setup.readings, line')
BY ReadKeepsLine DEF Read

(* Reading the beginning of a frame, or skipping one, publishes nothing and *)
(* does not lead to a content.                                              *)
LEMMA SentInvSkip ==
    ASSUME SentInv, ReadHead \/ ReadType \/ ReadLen \/ ReadGroundSN \/ ReadGroundIgnore
    PROVE SentInv'
<1>1. UNCHANGED <<setup, serial_num, published>>
    BY DEF ReadHead, ReadType, ReadLen, ReadGroundSN, ReadGroundIgnore, device
<1>2. stage' # "data"
    BY DEF ReadHead, ReadType, ReadLen, ReadGroundSN, ReadGroundIgnore
<1>3. line' \in Seq(Tokens) /\ Paired(setup.readings, line')
    <2>1. ASSUME line # <<>>, line' = Tail(line)
          PROVE line' \in Seq(Tokens) /\ Paired(setup.readings, line')
        <3>1. line \in Seq(Tokens)
            BY DEF SentInv
        <3>2. 1 \in Nat /\ 1 <= Len(line) /\ Tail(line) = SubSeq(line, 1 + 1, Len(line))
            BY <2>1, <3>1
        <3> QED BY <2>1, <3>2, ReadKeepsLine
    <2>2. \/ Read(1, 0) \/ Read(1, 1)
          \/ line # <<>> /\ line' = Tail(line)
        BY DEF ReadHead, ReadType, ReadLen, ReadGroundSN, ReadGroundIgnore
    <2>3. 0 \in Nat /\ 1 \in Nat
        OBVIOUS
    <2> QED BY <2>1, <2>2, <2>3, ReadKeepsPairs
<1> QED BY <1>1, <1>2, <1>3 DEF SentInv, MessageIsSent

(* How many numbers of the first n a set has. *)
LEMMA CountUpTo ==
    ASSUME NEW n \in Nat \ {0}, NEW S \in SUBSET (1 .. n)
    PROVE Cardinality(S) \in Nat /\ Cardinality(S) <= n
<1>1. 1 \in Int /\ n \in Int
    OBVIOUS
<1>2. IsFiniteSet(1 .. n) /\ Cardinality(1 .. n) = IF 1 > n THEN 0 ELSE n - 1 + 1
    BY <1>1, FS_Interval
<1>3. Cardinality(1 .. n) = n
    BY <1>2
<1> QED BY <1>2, <1>3, FS_Subset, FS_CardinalityType

(* The values that stand after the serial number in a header: if the first is *)
(* the check value of a header, the second is one of a content of its type,   *)
(* or a byte; a late read leaves a byte.                                      *)
LEMMA HeaderPaired ==
    ASSUME SentInv, NEW late \in SUBSET (1 .. 3), 3 - Cardinality(late) <= Len(line),
           Len(Header(late)[2]) = 3
    PROVE CheckOf(setup.readings, Header(late)[2][1], Header(late)[3])
<1> DEFINE c == Cardinality(late \cap 1 .. 1)
<1>1. c \in Nat /\ c <= 1
    <2>1. late \cap 1 .. 1 \in SUBSET (1 .. 1) /\ 1 \in Nat \ {0}
        OBVIOUS
    <2> QED BY <2>1, CountUpTo
<1> HIDE DEF c
<1>2. 2 \notin late
    <2>1. 2 \in late => Header(late)[2] = Byte(255)
        BY DEF Header
    <2> QED BY <2>1, TokenParts
<1>3. Header(late)[2] = line[2 - c]
    <2>1. late \cap 1 .. 2 = late \cap 1 .. 1
        BY <1>2
    <2>2. Header(late)[2] = line[2 - Cardinality(late \cap 1 .. 2)]
        BY <1>2 DEF Header
    <2> QED BY <2>1, <2>2 DEF c
<1>4. CASE 3 \in late
    <2>1. Header(late)[3] = Byte(255)
        BY <1>4 DEF Header
    <2> QED BY <2>1, TokenParts DEF CheckOf
<1>5. CASE 3 \notin late
    <2>1. late \cap 1 .. 3 = late \cap 1 .. 1 /\ late = late \cap 1 .. 1
        <3>1. ASSUME NEW i \in late PROVE i \in 1 .. 1 /\ i \in 1 .. 3
            BY <1>2, <1>5
        <3>2. late = late \cap 1 .. 1
            BY <3>1
        <3>3. late = late \cap 1 .. 3
            BY <3>1
        <3> QED BY <3>2, <3>3
    <2>2. Header(late)[3] = line[3 - c] /\ Cardinality(late) = c
        <3>1. Header(late)[3] = line[3 - Cardinality(late \cap 1 .. 3)]
            BY <1>5 DEF Header
        <3> QED BY <2>1, <3>1 DEF c
    <2>3. Paired(setup.readings, line) /\ line \in Seq(Tokens)
        BY DEF SentInv
    <2>4. 2 - c \in 1 .. Len(line) /\ (2 - c) + 1 = 3 - c
        BY <1>1, <2>2, <2>3
    <2> QED BY <1>3, <2>2, <2>3, <2>4 DEF Paired
<1> QED BY <1>4, <1>5

(* A header that fits is followed by the check value of its own content, if *)
(* it is followed by a check value.                                         *)
LEMMA SentInvHeader == SentInv /\ ReadHeader => SentInv'
<1> SUFFICES ASSUME SentInv, ReadHeader PROVE SentInv'
    OBVIOUS
<1>1. PICK late \in SUBSET (1 .. 3) :
        /\ 3 - Cardinality(late) <= Len(line)
        /\ line' = SubSeq(line, (3 - Cardinality(late)) + 1, Len(line))
        /\ IF head_type \in Parsed /\ Crc8Fits(Header(late))
           THEN head_crc16' = Header(late)[3]
           ELSE stage' = "head"
    BY DEF ReadHeader
<1>2. UNCHANGED <<setup, serial_num, head_type, published>>
    BY DEF ReadHeader, device
<1>3. 3 - Cardinality(late) \in Nat
    <2>1. Cardinality(late) \in Nat /\ Cardinality(late) <= 3
        BY CountUpTo
    <2> QED BY <2>1
<1>4. line' \in Seq(Tokens) /\ Paired(setup.readings, line')
    BY <1>1, <1>3, ReadKeepsLine
<1>5. stage' = "data" => CheckOf(setup.readings, head_type, head_crc16')
    <2> SUFFICES ASSUME stage' = "data" PROVE CheckOf(setup.readings, head_type, head_crc16')
        OBVIOUS
    <2>1. Crc8Fits(Header(late)) /\ head_crc16' = Header(late)[3]
        BY <1>1
    <2>2. Len(Header(late)[2]) = 3 /\ Header(late)[2][1] = head_type
        BY <2>1, TokenParts DEF Crc8Fits
    <2> QED BY <1>1, <2>1, <2>2, HeaderPaired
<1> QED BY <1>2, <1>4, <1>5 DEF SentInv, MessageIsSent

(* A content that has its check value is one of those the device sends in *)
(* frames of its type.                                                    *)
LEMMA SentInvData == SentInv /\ ReadData => SentInv'
<1> SUFFICES ASSUME SentInv, ReadData PROVE SentInv'
    OBVIOUS
<1>1. PICK k \in 0 .. DataSize : Read(DataSize, k)
    BY DEF ReadData
<1>2. k \in Nat
    BY <1>1
<1>3. line' \in Seq(Tokens) /\ Paired(setup.readings, line')
    BY <1>1, <1>2, ReadKeepsPairs
<1>4. UNCHANGED <<setup, serial_num>> /\ stage' = "head"
    BY DEF ReadData
<1>5. MessageIsSent'
    <2>1. CASE ~Intact(buffer'[head_type])
        BY <1>4, <2>1 DEF ReadData, SentInv, MessageIsSent
    <2>2. CASE Intact(buffer'[head_type])
        <3> DEFINE content == Content(buffer'[head_type])
        <3>1. published'.type = head_type /\ published'.content = content
            BY <2>2 DEF ReadData
        <3>2. head_crc16 = Crc16(content)
            BY <2>2 DEF Intact
        <3> HIDE DEF content
        <3>3. CheckOf(setup.readings, head_type, head_crc16)
            BY DEF ReadData, SentInv
        <3>4. PICK sent \in setup.readings[head_type] : head_crc16 = Crc16(sent)
            BY <3>2, <3>3, TokenParts DEF CheckOf
        <3>5. content = sent
            <4>1. Crc16(content)[1] = content /\ Crc16(sent)[1] = sent
                BY TokenParts
            <4>2. Crc16(content) = Crc16(sent)
                BY <3>2, <3>4
            <4> QED BY <4>1, <4>2
        <3> QED BY <1>4, <3>1, <3>4, <3>5 DEF MessageIsSent
    <2> QED BY <2>1, <2>2
<1> QED BY <1>3, <1>4, <1>5 DEF SentInv

(* Every step keeps the invariant. *)
LEMMA SentInvNext == SentInv /\ [AhrsNext]_vars => SentInv'
<1> SUFFICES ASSUME SentInv, [AhrsNext]_vars PROVE SentInv'
    OBVIOUS
<1>1. CASE UNCHANGED vars
    BY <1>1 DEF SentInv, MessageIsSent, vars
<1>2. ASSUME NEW type \in Sent, SendFrame(type) PROVE SentInv'
    BY <1>2, SentInvSend DEF SendFrame
<1>3. ASSUME NEW type \in Sent, SendDamaged(type) PROVE SentInv'
    BY <1>3, SentInvSend DEF SendDamaged
<1>4. CASE processLoop
    BY <1>4, SentInvSkip, SentInvHeader, SentInvData DEF processLoop
<1> QED BY <1>1, <1>2, <1>3, <1>4 DEF AhrsNext

(* Whatever is lost, damaged or late on the line, and however the search for *)
(* the next frame goes wrong: a message carries a content that the device    *)
(* has sent in a frame of that type (processLoop).                           *)
THEOREM MessagesAreSent == AhrsSpec => []MessageIsSent
<1>1. SentInv => MessageIsSent
    BY DEF SentInv
<1> QED BY <1>1, SentInvInit, SentInvNext, PTL DEF AhrsSpec

-----------------------------------------------------------------------------
(* What is known of the excess as long as a wrong number may just have come. *)
ExcessInv ==
    /\ Excess \in -(wrong * Modulus) .. wrong * Modulus
    /\ \E k \in Int : Excess = (last_sn - arrived_sn) + k * Modulus

CountInv ==
    /\ CountTypeOK
    /\ gap < Modulus
    /\ GapMeasured
    /\ anchored => ExcessInv
    /\ ~anchored => lost = 0 /\ wrong = 0 /\ phantoms = 0 /\ before = counted

(* What ++ and - 1 return is a serial number, and they undo each other. *)
LEMMA SuccPred ==
    ASSUME NEW n \in Numbers
    PROVE /\ Succ(n) \in Numbers /\ Pred(n) \in Numbers
          /\ Succ(Pred(n)) = n
BY ModulusAssumption DEF Succ, Pred, Numbers

(* The numbers missing from one number to another: their difference, and a *)
(* round more where the other is not the greater one.                      *)
LEMMA MissingFrom ==
    ASSUME NEW n \in Numbers, NEW p \in Numbers
    PROVE /\ Missing(n, Succ(p)) = (n - p - 1) + (IF n <= p THEN Modulus ELSE 0)
          /\ Missing(n, Succ(p)) \in 0 .. Modulus - 1
BY ModulusAssumption DEF Succ, Missing, Numbers

(* A number that was due is missed by none, and one that comes a frame later *)
(* by one, as long as the distance stays below the modulus.                  *)
LEMMA MissingOneMore ==
    ASSUME NEW n \in Numbers, NEW due \in Numbers
    PROVE /\ Missing(n, n) = 0
          /\ Missing(n, due) < Modulus - 1 =>
                Missing(Succ(n), due) = Missing(n, due) + 1
BY ModulusAssumption DEF Succ, Missing, Numbers

(* A whole number of rounds that exceeds w of them by less than one, exceeds *)
(* them by none.                                                             *)
LEMMA WholeRounds ==
    ASSUME NEW k \in Int, NEW w \in Nat,
           k * Modulus < w * Modulus + Modulus,
           k * Modulus > -(w * Modulus) - Modulus
    PROVE /\ k \in -w .. w
          /\ k * Modulus \in -(w * Modulus) .. w * Modulus
<1>1. Modulus \in Nat /\ Modulus >= 2
    BY ModulusAssumption
<1>2. k <= w
    <2> SUFFICES ASSUME k >= w + 1 PROVE FALSE
        OBVIOUS
    <2>1. (k - w - 1) * Modulus >= 0
        BY <1>1
    <2>2. k * Modulus >= w * Modulus + Modulus
        BY <1>1, <2>1
    <2> QED BY <1>1, <2>2
<1>3. -w <= k
    <2> SUFFICES ASSUME k <= -w - 1 PROVE FALSE
        OBVIOUS
    <2>1. (-w - 1 - k) * Modulus >= 0
        BY <1>1
    <2>2. k * Modulus <= -(w * Modulus) - Modulus
        BY <1>1, <2>1
    <2> QED BY <1>1, <2>2
<1>4. k * Modulus <= w * Modulus
    <2>1. (w - k) * Modulus >= 0
        BY <1>1, <1>2
    <2> QED BY <1>1, <2>1
<1>5. k * Modulus >= -(w * Modulus)
    <2>1. (w + k) * Modulus >= 0
        BY <1>1, <1>3
    <2> QED BY <1>1, <2>1
<1> QED BY <1>1, <1>2, <1>3, <1>4, <1>5

(* The variables keep their types. *)
LEMMA CountTypeNext == CountTypeOK /\ [CountNext]_countVars => CountTypeOK'
<1> SUFFICES ASSUME CountTypeOK, [CountNext]_countVars PROVE CountTypeOK'
    OBVIOUS
<1>1. CASE UNCHANGED countVars
    BY <1>1 DEF CountTypeOK, countVars, numbering
<1>2. CASE Lose
    BY <1>2, SuccPred DEF CountTypeOK, Lose
<1>3. ASSUME NEW type \in Types, checkSN(type) PROVE CountTypeOK'
    <2>1. CountedFrom(type) \in Numbers
        BY SuccPred DEF CountTypeOK, CountedFrom
    <2>2. counted' \in Nat
        BY <1>3, <2>1, MissingFrom DEF CountTypeOK, checkSN
    <2>3. number' \in Numbers /\ arrived_sn' \in Numbers /\ last_sn' \in Numbers
        BY <1>3, SuccPred DEF CountTypeOK, checkSN, Arrives
    <2>4. {gap', lost', before', wrong', phantoms'} \subseteq Nat
        BY <1>3, <2>2 DEF CountTypeOK, checkSN, Arrives, Counts
    <2>5. anchored' \in BOOLEAN
        BY <1>3 DEF checkSN
    <2> QED BY <2>2, <2>3, <2>4, <2>5 DEF CountTypeOK
<1>4. ASSUME NEW n \in Numbers, CountGround(n) PROVE last_sn' \in Numbers /\ counted' \in Nat
    BY <1>4, MissingFrom DEF CountTypeOK, CountGround
<1>5. ASSUME NEW n \in Numbers, SkipFrame(n) PROVE CountTypeOK'
    <2>1. last_sn' \in Numbers /\ counted' \in Nat
        BY <1>4, <1>5 DEF SkipFrame
    <2>2. number' \in Numbers /\ arrived_sn' \in Numbers
        BY <1>5, SuccPred DEF CountTypeOK, SkipFrame, Arrives
    <2>3. {gap', lost', before', wrong', phantoms'} \subseteq Nat
        BY <1>5, <2>1 DEF CountTypeOK, SkipFrame, Arrives, Counts
    <2> QED BY <1>5, <2>1, <2>2, <2>3 DEF CountTypeOK, SkipFrame, CountGround
<1>6. ASSUME NEW n \in Numbers, SkipPhantom(n) PROVE CountTypeOK'
    <2>1. last_sn' \in Numbers /\ counted' \in Nat
        BY <1>4, <1>6 DEF SkipPhantom
    <2>2. {lost', before', wrong', phantoms'} \subseteq Nat
        BY <1>6, <2>1 DEF CountTypeOK, SkipPhantom, Counts
    <2> QED BY <1>6, <2>1, <2>2 DEF CountTypeOK, SkipPhantom, CountGround, numbering
<1> QED BY <1>1, <1>2, <1>3, <1>5, <1>6 DEF CountNext

(* The invariant holds before the first frame, of whatever number. *)
LEMMA CountInvInit == CountInit => CountInv
<1> SUFFICES ASSUME CountInit PROVE CountInv
    OBVIOUS
<1>1. 0 \in Numbers /\ number \in Numbers /\ arrived_sn \in Numbers
    BY ModulusAssumption, SuccPred DEF CountInit, Numbers
<1>2. CountTypeOK
    <2>1. {number, arrived_sn} \subseteq Numbers /\ last_sn \in Numbers
        BY <1>1 DEF CountInit
    <2>2. anchored \in BOOLEAN
        BY DEF CountInit
    <2>3. {counted, gap, lost, before, wrong, phantoms} \subseteq Nat
        BY DEF CountInit
    <2> QED BY <2>1, <2>2, <2>3 DEF CountTypeOK
<1>3. gap < Modulus
    BY ModulusAssumption DEF CountInit
<1>4. GapMeasured
    BY <1>1, SuccPred, MissingOneMore DEF CountInit, GapMeasured
<1> QED BY <1>2, <1>3, <1>4 DEF CountInv, CountInit

(* A frame that arrives closes the gap. *)
LEMMA GapCloses ==
    CountInv /\ Arrives => gap' < Modulus /\ GapMeasured'
<1> SUFFICES ASSUME CountInv, Arrives PROVE gap' < Modulus /\ GapMeasured'
    OBVIOUS
<1>1. number \in Numbers
    BY DEF CountInv, CountTypeOK
<1>2. Missing(Succ(number), Succ(number)) = 0
    BY <1>1, SuccPred, MissingOneMore
<1> QED BY <1>2, ModulusAssumption DEF Arrives, GapMeasured

(* A lost frame widens the gap by one. *)
LEMMA CountInvLose == CountInv /\ Lose => CountInv'
<1> SUFFICES ASSUME CountInv, Lose PROVE CountInv'
    OBVIOUS
<1>1. CountTypeOK'
    BY CountTypeNext DEF CountInv, CountNext
<1>2. gap' < Modulus
    BY ModulusAssumption DEF CountInv, CountTypeOK, Lose
<1>3. GapMeasured'
    <2>1. number \in Numbers /\ Succ(arrived_sn) \in Numbers
        BY SuccPred DEF CountInv, CountTypeOK
    <2>2. Missing(number, Succ(arrived_sn)) = gap
        BY DEF CountInv, GapMeasured
    <2> QED BY <2>1, <2>2, MissingOneMore DEF Lose, GapMeasured
<1>4. (ExcessInv <=> ExcessInv') /\ (anchored <=> anchored')
    BY DEF Lose, ExcessInv, Excess
<1> QED BY <1>1, <1>2, <1>3, <1>4 DEF CountInv, Lose

(* A frame that arrives, its number n counted from the last one: by a right  *)
(* number the excess stays a whole number of rounds, and of as few of them;  *)
(* a wrong one takes it off by less than a round.                            *)
LEMMA ExcessArrives ==
    ASSUME CountInv, anchored, Arrives, NEW n \in Numbers,
           counted' = counted + Missing(n, Succ(last_sn)), last_sn' = n,
           lost' = lost + gap, before' = before, phantoms' = phantoms,
           wrong' = wrong + (IF n = number THEN 0 ELSE 1)
    PROVE ExcessInv'
<1>1. /\ {number, last_sn, arrived_sn, n} \subseteq Numbers
      /\ {counted, lost, before, wrong, phantoms} \subseteq Nat
      /\ Modulus \in Nat /\ Modulus >= 2
    BY ModulusAssumption DEF CountInv, CountTypeOK
<1>2. Missing(number, Succ(arrived_sn)) = gap
    BY DEF CountInv, GapMeasured
<1> DEFINE over == Missing(n, Succ(last_sn))
           bound == wrong * Modulus
<1>3. over \in 0 .. Modulus - 1 /\ gap \in 0 .. Modulus - 1
    BY <1>1, <1>2, MissingFrom
<1>4. Excess' = Excess + over - gap
    BY <1>1, <1>3 DEF Excess
<1>5. PICK k \in Int : Excess = (last_sn - arrived_sn) + k * Modulus
    BY DEF CountInv, ExcessInv
<1>6. Excess \in -bound .. bound /\ bound \in Nat
    BY <1>1 DEF CountInv, ExcessInv
<1> DEFINE round(p, q) == IF p <= q THEN 1 ELSE 0
<1>7. PICK j \in Int : j = k + round(n, last_sn) - round(number, arrived_sn)
    <2>1. k + round(n, last_sn) - round(number, arrived_sn) \in Int
        OBVIOUS
    <2> QED BY <2>1
<1>8. over = (n - last_sn - 1) + round(n, last_sn) * Modulus
    BY <1>1, MissingFrom
<1>9. gap = (number - arrived_sn - 1) + round(number, arrived_sn) * Modulus
    BY <1>1, <1>2, MissingFrom
<1>10. Excess' = (n - number) + j * Modulus
    <2>1. PICK a \in Int : a = round(n, last_sn) * Modulus
        BY <1>1
    <2>2. PICK b \in Int : b = round(number, arrived_sn) * Modulus
        BY <1>1
    <2>3. j * Modulus = k * Modulus + a - b
        BY <1>1, <1>7, <2>1, <2>2
    <2>4. n \in Int /\ number \in Int /\ last_sn \in Int /\ arrived_sn \in Int
        BY <1>1 DEF Numbers
    <2>5. k * Modulus \in Int /\ j * Modulus \in Int
        BY <1>1
    <2> HIDE DEF over, round
    <2> QED BY <1>3, <1>4, <1>5, <1>8, <1>9, <2>1, <2>2, <2>3, <2>4, <2>5
<1>11. \E i \in Int : Excess' = (last_sn' - arrived_sn') + i * Modulus
    BY <1>10 DEF Arrives
<1>12. Excess' \in -(wrong' * Modulus) .. wrong' * Modulus
    <2>1. CASE n = number
        <3>1. Excess' = j * Modulus
            <4>1. n \in Int
                BY <1>1 DEF Numbers
            <4> QED BY <1>1, <1>10, <2>1, <4>1
        <3>2. j * Modulus < bound + Modulus /\ j * Modulus > -bound - Modulus
            <4> HIDE DEF over, bound
            <4> QED BY <1>1, <1>3, <1>4, <1>6, <3>1
        <3> QED BY <1>1, <2>1, <3>1, <3>2, WholeRounds
    <2>2. CASE n # number
        <3>1. wrong' * Modulus = bound + Modulus
            BY <1>1, <2>2
        <3> HIDE DEF over, bound
        <3> QED BY <1>1, <1>3, <1>4, <1>6, <3>1
    <2> QED BY <2>1, <2>2
<1> QED BY <1>11, <1>12 DEF ExcessInv

(* A parsed frame is counted from the one before it, or from itself when it *)
(* is the first.                                                            *)
LEMMA CountInvCheck ==
    ASSUME NEW type \in Types, CountInv, checkSN(type)
    PROVE CountInv'
<1>1. CountTypeOK'
    BY CountTypeNext DEF CountInv, CountNext
<1>2. gap' < Modulus /\ GapMeasured'
    BY GapCloses DEF checkSN
<1>3. number \in Numbers /\ {counted, lost, before, wrong, phantoms} \subseteq Nat
    BY DEF CountInv, CountTypeOK
<1>4. CASE anchored
    <2>1. counted' = counted + Missing(number, Succ(last_sn))
        BY <1>4 DEF checkSN, CountedFrom
    <2>2. /\ lost' = lost + gap /\ before' = before /\ phantoms' = phantoms
          /\ wrong' = wrong + (IF number = number THEN 0 ELSE 1)
        BY <1>3, <1>4 DEF checkSN, Counts
    <2>3. ExcessInv'
        BY <1>3, <1>4, <2>1, <2>2, ExcessArrives DEF checkSN
    <2> QED BY <1>1, <1>2, <1>4, <2>3 DEF CountInv, checkSN
<1>5. CASE ~anchored /\ type \in AnchorTypes
    <2>1. counted' = counted
        BY <1>3, <1>5, SuccPred, MissingOneMore DEF checkSN, CountedFrom
    <2>2. /\ lost' = 0 /\ wrong' = 0 /\ phantoms' = 0
          /\ before' = counted
        BY <1>5 DEF checkSN, Counts, CountInv
    <2>3. Excess' = 0
        BY <1>3, <2>1, <2>2 DEF Excess
    <2>4. last_sn' = arrived_sn' /\ last_sn' \in Int
        BY <1>3 DEF checkSN, Arrives, Numbers
    <2>5. \E k \in Int : Excess' = (last_sn' - arrived_sn') + k * Modulus
        <3>1. 0 * Modulus = 0
            BY ModulusAssumption
        <3>2. \A i \in Int : 0 = (i - i) + 0
            OBVIOUS
        <3> QED BY <2>3, <2>4, <3>1, <3>2
    <2>6. Excess' \in -(wrong' * Modulus) .. wrong' * Modulus
        <3>1. 0 * Modulus = 0
            BY ModulusAssumption
        <3>2. wrong' * Modulus = 0
            BY <2>2, <3>1
        <3> QED BY <2>3, <3>2
    <2>7. ExcessInv'
        BY <2>5, <2>6 DEF ExcessInv
    <2> QED BY <1>1, <1>2, <1>5, <2>7 DEF CountInv, checkSN
<1>6. CASE ~anchored /\ type \notin AnchorTypes
    BY <1>1, <1>2, <1>6 DEF CountInv, checkSN, Counts
<1> QED BY <1>4, <1>5, <1>6

(* A skipped frame, whatever its number is read as. *)
LEMMA CountInvSkip ==
    ASSUME NEW n \in Numbers, CountInv, SkipFrame(n)
    PROVE CountInv'
<1>1. CountTypeOK'
    BY CountTypeNext DEF CountInv, CountNext
<1>2. gap' < Modulus /\ GapMeasured'
    BY GapCloses DEF SkipFrame
<1>3. CASE anchored
    <2>1. counted' = counted + Missing(n, Succ(last_sn)) /\ last_sn' = n
        BY DEF SkipFrame, CountGround
    <2>2. /\ lost' = lost + gap /\ before' = before /\ phantoms' = phantoms
          /\ wrong' = wrong + (IF n = number THEN 0 ELSE 1)
        BY <1>3 DEF SkipFrame, Counts, CountInv, CountTypeOK
    <2>3. ExcessInv'
        BY <1>3, <2>1, <2>2, ExcessArrives DEF SkipFrame
    <2> QED BY <1>1, <1>2, <1>3, <2>3 DEF CountInv, SkipFrame, CountGround
<1>4. CASE ~anchored
    BY <1>1, <1>2, <1>4 DEF CountInv, SkipFrame, CountGround, Counts
<1> QED BY <1>3, <1>4

(* What only looked like a frame: the excess grows by up to a round. *)
LEMMA CountInvPhantom ==
    ASSUME NEW n \in Numbers, CountInv, SkipPhantom(n)
    PROVE CountInv'
<1>1. CountTypeOK'
    BY CountTypeNext DEF CountInv, CountNext
<1>2. gap' < Modulus /\ GapMeasured'
    BY DEF SkipPhantom, numbering, CountInv, GapMeasured
<1>3. CASE anchored
    <2>1. /\ {last_sn, arrived_sn, n} \subseteq Numbers
          /\ {counted, lost, before, wrong, phantoms} \subseteq Nat
          /\ Modulus \in Nat /\ Modulus >= 2
        BY ModulusAssumption DEF CountInv, CountTypeOK
    <2> DEFINE over == Missing(n, Succ(last_sn))
               bound == wrong * Modulus
               more == IF n <= last_sn THEN 1 ELSE 0
    <2>2. over \in 0 .. Modulus - 1
        BY <2>1, MissingFrom
    <2>3. /\ lost' = lost /\ before' = before /\ phantoms' = phantoms + 1
          /\ wrong' = wrong + 1 /\ counted' = counted + over
        BY <1>3, <2>1 DEF SkipPhantom, CountGround, Counts
    <2>4. Excess' = Excess + over + 1
        BY <2>1, <2>2, <2>3 DEF Excess
    <2>5. PICK k \in Int : Excess = (last_sn - arrived_sn) + k * Modulus
        BY <1>3 DEF CountInv, ExcessInv
    <2>6. Excess \in -bound .. bound /\ bound \in Nat
        BY <1>3, <2>1 DEF CountInv, ExcessInv
    <2>7. \E i \in Int : Excess' = (last_sn' - arrived_sn') + i * Modulus
        <3>1. PICK a \in Int : a = more * Modulus
            BY <2>1
        <3>2. over = (n - last_sn - 1) + a
            BY <2>1, <3>1, MissingFrom
        <3>3. PICK j \in Int : j = k + more
            OBVIOUS
        <3>4. j * Modulus = k * Modulus + a
            BY <2>1, <3>1, <3>3
        <3>5. n \in Int /\ last_sn \in Int /\ arrived_sn \in Int
            BY <2>1 DEF Numbers
        <3>6. k * Modulus \in Int
            BY <2>1
        <3>7. Excess' = (n - arrived_sn) + j * Modulus
            <4> HIDE DEF over, more
            <4> QED BY <2>2, <2>4, <2>5, <3>2, <3>4, <3>5, <3>6
        <3> QED BY <3>7 DEF SkipPhantom, CountGround, numbering
    <2>8. Excess' \in -(wrong' * Modulus) .. wrong' * Modulus
        <3>1. wrong' * Modulus = bound + Modulus
            BY <2>1, <2>3
        <3> HIDE DEF over, bound
        <3> QED BY <2>1, <2>2, <2>4, <2>6, <3>1
    <2>9. ExcessInv'
        BY <2>7, <2>8 DEF ExcessInv
    <2> QED BY <1>1, <1>2, <1>3, <2>9 DEF CountInv, SkipPhantom, CountGround
<1>4. CASE ~anchored
    BY <1>1, <1>2, <1>4 DEF CountInv, SkipPhantom, CountGround, Counts
<1> QED BY <1>3, <1>4

(* Every step keeps the invariant. *)
LEMMA CountInvNext == CountInv /\ [CountNext]_countVars => CountInv'
<1>1. CountInv /\ UNCHANGED countVars => CountInv'
    BY DEF CountInv, CountTypeOK, GapMeasured, ExcessInv, Excess, countVars,
           numbering
<1> QED BY <1>1, CountInvLose, CountInvCheck, CountInvSkip, CountInvPhantom
        DEF CountNext

(* The driver's variables keep their types whatever is lost or damaged and *)
(* whichever frame is the first (checkSN).                                 *)
THEOREM CountTypeCorrect == CountSpec => []CountTypeOK
<1>1. CountInit => CountTypeOK
    BY CountInvInit DEF CountInv
<1> QED BY <1>1, CountTypeNext, PTL DEF CountSpec

(* Since a frame set read_sn_, counted has grown by the number of frames lost; *)
(* each wrong number of a skipped frame, which nothing checks, puts it off by  *)
(* at most a round, and by whole rounds once a right number has come again     *)
(* (checkSN, processLoop).                                                     *)
THEOREM LossesCounted == CountSpec => []LossExact
<1>1. CountInv => LossExact
    <2> SUFFICES ASSUME CountInv, anchored PROVE LossExact
        BY DEF LossExact
    <2>1. /\ {last_sn, arrived_sn} \subseteq Numbers /\ wrong \in Nat
          /\ Modulus \in Nat /\ Modulus >= 2
        BY ModulusAssumption DEF CountInv, CountTypeOK
    <2>2. Excess \in -(wrong * Modulus) .. wrong * Modulus
        BY DEF CountInv, ExcessInv
    <2>3. ASSUME last_sn = arrived_sn
          PROVE \E k \in -wrong .. wrong : Excess = k * Modulus
        <3>1. PICK k \in Int : Excess = (last_sn - arrived_sn) + k * Modulus
            BY DEF CountInv, ExcessInv
        <3>2. Excess = k * Modulus
            <4>1. last_sn \in Int /\ arrived_sn \in Int
                BY <2>1 DEF Numbers
            <4> QED BY <2>1, <2>3, <3>1, <4>1
        <3>3. k \in -wrong .. wrong
            BY <2>1, <2>2, <3>2, WholeRounds
        <3> QED BY <3>2, <3>3
    <2> QED BY <2>2, <2>3 DEF LossExact
<1> QED BY <1>1, CountInvInit, CountInvNext, PTL DEF CountSpec
=============================================================================
