---------------------------- MODULE LslidarStamp ----------------------------
(***************************************************************************)
(* The time stamps of lslidars of type 3 with time service: the seconds    *)
(* come with the device packets, the rest with each data packet, and poll  *)
(* corrects the sum when the second of one changed before the other's.     *)
(* Times count in parts of a second.                                       *)
(***************************************************************************)
EXTENDS Integers

CONSTANTS
  Parts,     \* parts of a second, a multiple of 10
  Skew,      \* the seconds are less than so many parts late or early
  MaxGap,    \* parts between two data packets
  MaxTime    \* bound: the last time

ASSUME StampAssumption ==
  Parts \in Nat \ {0} /\ Skew \in Nat /\ MaxGap \in Nat /\ MaxTime \in Nat

\* What poll's limits of 0.1 s and 0.2 s leave room for.
ASSUME RoomAssumption == Skew <= Parts \div 10 /\ MaxGap < Parts \div 5

VARIABLES
  now,             \* the time of the packet
  packet_time_s,   \* the seconds, of the last device packet
  timeStamp_bak    \* the stamp of the packet
stampVars == <<now, packet_time_s, timeStamp_bak>>

\* The first packet is far from the turn of a second.
StampInit ==
  /\ now \in Parts + Skew..2 * Parts - Skew - 1
  /\ packet_time_s = now \div Parts
  /\ timeStamp_bak = now

\* Is the second too old, when the last packet's stamp was bak?
Behind(stamp, bak, part) == stamp < bak /\ bak - stamp < Parts /\ part < Parts \div 10
\* Is it too new?  Mutant: it never is.
AheadNever(stamp, bak, part) == FALSE
Ahead(stamp, bak, part) ==
  /\ stamp - bak > Parts /\ stamp - bak < Parts + Parts \div 5
  /\ part > Parts - Parts \div 10

Corrected(stamp, bak, part) ==
  IF Behind(stamp, bak, part) THEN stamp + Parts
  ELSE IF Ahead(stamp, bak, part) THEN stamp - Parts ELSE stamp

\* poll: a data packet, the seconds being those of a little while ago or ahead.
StampPacket ==
  /\ \E gap \in 1..MaxGap, skew \in 1 - Skew..Skew - 1 :
       /\ now' = now + gap
       /\ packet_time_s' = (now' + skew) \div Parts
       /\ packet_time_s' >= packet_time_s
  /\ now' <= MaxTime
  /\ timeStamp_bak' = Corrected((packet_time_s' * Parts) + (now' % Parts), timeStamp_bak, now' % Parts)

StampSpec == StampInit /\ [][StampPacket]_stampVars

\* The stamp is the packet's time, though device packet and data packets are
\* not in step, as long as data packets come within MaxGap (poll, difopPoll).
StampTrue == timeStamp_bak = now
=============================================================================
