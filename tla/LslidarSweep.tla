---------------------------- MODULE LslidarSweep ----------------------------
(***************************************************************************)
(* How the lslidar driver cuts the stream of data packets into clouds of   *)
(* one turn each, where the azimuth starts again at 0, and times the       *)
(* points: LslidarDriver::poll.  Firings are numbered; firing n is at      *)
(* azimuth n modulo Turn, and its time is n.  In dual return a packet has  *)
(* two blocks for the same firings, their first and their second returns:  *)
(* between the two the azimuth steps back, and where a turn ends in the    *)
(* first of them, second returns from before 0 go to the next cloud.       *)
(***************************************************************************)
EXTENDS Integers, Sequences, FiniteSets

CONSTANTS
  Turn,        \* firings in a turn
  Scans,       \* SCANS_PER_PACKET, returns in a packet: 384
  Block,       \* those of a block: 32
  Near,        \* firings in 10 degrees: 36000 - 35000
  Threshold,   \* number_threshold: 10 for lidars of 16 and more lines
  MaxTurns     \* bound: turns of the lidar

ASSUME SweepAssumption ==
  /\ Turn \in Nat \ {0} /\ Near \in 1..Turn
  /\ Scans \in Nat \ {0} /\ Block \in Nat \ {0} /\ Scans % (2 * Block) = 0
  /\ Threshold \in Nat /\ MaxTurns \in Nat

\* Of lidars of 16 and more lines, but for one of 32 at 5 Hz in dual return: the
\* firings of a packet, in single or in dual return, cover less than 10 degrees, the
\* packets that are not looked at cover more, and all of these less than a turn.
ASSUME SpeedAssumption ==
  \A cover \in {Scans, Scans \div 2} :
    /\ cover + 1 < Near
    /\ Near <= Threshold * cover + 1
    /\ (Threshold + 2) * cover + Near <= Turn

VARIABLES
  return_mode,                   \* 1 or 2, as the lidar was when the driver started
  next,                          \* the first firing of the lidar's next packet
  packet_num, last_azimuth, is_first_sweep,
  last_packet_time, sweep_end_time,  \* -1: none yet
  cloud,                         \* its first and last firing, and how many
  published,                     \* the last cloud that was published
  clouds,                        \* how many were published
  points,                        \* firing and time of the points of the last packet
  lost                           \* the first firing of the packet that got lost
sweepVars ==
  <<return_mode, next, packet_num, last_azimuth, is_first_sweep, last_packet_time,
    sweep_end_time, cloud, published, clouds, points, lost>>

\* The firings that a packet covers.
Cover == Scans \div return_mode

Empty == [first |-> 0, last |-> 0, size |-> 0]
NotLost == -Scans

SweepInit ==
  /\ return_mode \in {1, 2} /\ next \in Turn..2 * Turn - 1
  /\ packet_num = 0 /\ last_azimuth = 0 /\ is_first_sweep = TRUE
  /\ last_packet_time = -1 /\ sweep_end_time = 0
  /\ cloud = Empty /\ published = Empty /\ clouds = 0 /\ points = <<>> /\ lost = NotLost

-----------------------------------------------------------------------------
\* The firing that return i of a packet is of.
FiringAt(i) ==
  next + IF return_mode = 1 THEN i ELSE (i \div (2 * Block)) * Block + (i % Block)
AzimuthOf(i) == FiringAt(i) % Turn
Distance(a, b) == IF a < b THEN b - a ELSE a - b

\* Does the azimuth start again at return i?
Step(i) == Distance(AzimuthOf(i), IF i = 0 THEN last_azimuth ELSE AzimuthOf(i - 1))
Wraps(i) == Step(i) > Turn - Near

\* It is not looked for in the first packets after it was found.
Looks == packet_num + 1 > Threshold

\* The first return of the new sweep, Scans if there is none.
new_sweep_start ==
  IF Looks /\ \E i \in 0..Scans - 1 : Wraps(i)
  THEN CHOOSE i \in 0..Scans - 1 : Wraps(i) /\ \A j \in 0..i - 1 : ~Wraps(j)
  ELSE Scans

current_packet_time == next + Cover - 1
Elapsed == current_packet_time - last_packet_time
\* When the sweep ended that ends before return i.  Mutant: when its packet ended.
SweepEndLate(i) == current_packet_time
SweepEnd(i) ==
  IF last_packet_time = -1 THEN current_packet_time
  ELSE current_packet_time - (Elapsed * (Scans - i)) \div Scans

\* The points of returns from..to-1, with their times relative to the sweep's
\* end, or its beginning; absolute as long as no sweep has ended.
TimedPoints(from, to, times) ==
  [k \in 1..to - from |->
    [firing |-> FiringAt(from + k - 1),
     time |-> IF last_packet_time = -1 THEN current_packet_time ELSE times[from + k - 1]]]
OldPoints(from, to) ==
  TimedPoints(from, to, [i \in from..to - 1 |->
    current_packet_time - sweep_end_time - (Elapsed * (Scans - i - 1)) \div Scans])
NewPoints(from) ==
  TimedPoints(from, Scans, [i \in from..Scans - 1 |-> (Elapsed * (i - from)) \div Scans])

Extended(c, new) ==
  IF new = <<>> THEN c
  ELSE [first |-> IF c.size = 0 THEN new[1].firing ELSE c.first,
        last |-> new[Len(new)].firing, size |-> c.size + Len(new)]

-----------------------------------------------------------------------------
\* A packet of which no firing is kept: the first sweep has not begun.
Discard ==
  /\ is_first_sweep /\ new_sweep_start = Scans
  /\ last_azimuth' = IF Looks THEN AzimuthOf(Scans - 1) ELSE last_azimuth
  /\ packet_num' = packet_num + 1
  /\ UNCHANGED <<is_first_sweep, last_packet_time, sweep_end_time, cloud, published, clouds, points>>

\* The packet in which it begins; last_azimuth is left at the firing before.
Begin ==
  /\ is_first_sweep /\ new_sweep_start # Scans
  /\ is_first_sweep' = FALSE
  /\ packet_num' = 0
  /\ last_azimuth' = IF new_sweep_start = 0 THEN last_azimuth ELSE AzimuthOf(new_sweep_start - 1)
  /\ points' = OldPoints(new_sweep_start, Scans)
  /\ cloud' = Extended(cloud, points')
  /\ last_packet_time' = current_packet_time
  /\ UNCHANGED <<sweep_end_time, published, clouds>>

\* A packet within a sweep.
Continue ==
  /\ ~is_first_sweep /\ new_sweep_start = Scans
  /\ packet_num' = packet_num + 1
  /\ last_azimuth' = IF Looks THEN AzimuthOf(Scans - 1) ELSE last_azimuth
  /\ points' = OldPoints(0, Scans)
  /\ cloud' = Extended(cloud, points')
  /\ last_packet_time' = current_packet_time
  /\ UNCHANGED <<is_first_sweep, sweep_end_time, published, clouds>>

\* A packet in which a sweep ends and the next begins: the cloud is published.
PublishCloud ==
  /\ ~is_first_sweep /\ new_sweep_start # Scans
  /\ packet_num' = 0
  /\ last_azimuth' = AzimuthOf(Scans - 1)
  /\ published' = Extended(cloud, OldPoints(0, new_sweep_start))
  /\ clouds' = clouds + 1
  /\ points' = NewPoints(new_sweep_start)
  /\ cloud' = Extended(Empty, points')
  /\ sweep_end_time' = SweepEnd(new_sweep_start)
  /\ last_packet_time' = current_packet_time
  /\ UNCHANGED is_first_sweep

poll ==
  /\ next < (MaxTurns + 1) * Turn
  /\ Discard \/ Begin \/ Continue \/ PublishCloud
  /\ next' = next + Cover
  /\ UNCHANGED <<return_mode, lost>>

\* One packet may get lost.
LosePacket ==
  /\ next < (MaxTurns + 1) * Turn /\ lost = NotLost
  /\ lost' = next
  /\ next' = next + Cover
  /\ UNCHANGED <<return_mode, packet_num, last_azimuth, is_first_sweep, last_packet_time,
                 sweep_end_time, cloud, published, clouds, points>>

SweepNext == poll \/ LosePacket

SweepSpec == SweepInit /\ [][SweepNext]_sweepVars

-----------------------------------------------------------------------------
\* In dual return, of how many firings before firing n of the lidar do the second
\* returns come after its first: those of its block, unless its packet got lost.
Overhang(n) ==
  IF return_mode = 1 \/ n \in lost..lost + Cover - 1 THEN 0 ELSE (n - next) % Block

\* The returns of a turn's firings that came, without those that come when the next
\* has begun, and with those of the turn before that do.
TurnSize(turn) ==
  return_mode * (Turn - Cardinality({n \in lost..lost + Cover - 1 : n \div Turn = turn}))
    - Overhang((turn + 1) * Turn) + Overhang(turn * Turn)
IsTurn(c) == c.first \div Turn = c.last \div Turn /\ c.size = TurnSize(c.last \div Turn)

\* From the second cloud on, each cloud published is one turn of the lidar, with
\* all its returns, though a packet may be lost anywhere; in dual return the second
\* returns of the turn's last firings, fewer than a block, come with the next (poll).
LaterSweepsWhole == clouds > 1 => IsTurn(published)

\* From the first on the points' times ascend within a sweep, and are those since its
\* turn began, to a firing; to a packet more where a packet was lost, and to less than
\* a block more in dual return, where returns are timed as if each were a firing (poll).
TimesFit ==
  clouds > 0 =>
    LET began == cloud.first - (cloud.first % Turn)
        slack == (IF lost = NotLost THEN 0 ELSE Cover) + IF return_mode = 1 THEN 0 ELSE Block - 1
    IN  \A k \in 1..Len(points) :
          /\ k > 1 => points[k - 1].time <= points[k].time
          /\ points[k].time - (points[k].firing - began) \in (-slack)..slack + 1

\* Sweeps are the turns of the lidar, and their points bear its times.
SweepsRight == LaterSweepsWhole /\ TimesFit
=============================================================================
