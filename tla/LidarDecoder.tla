---------------------------- MODULE LidarDecoder ----------------------------
(***************************************************************************)
(* What the decoders of rslidar_sdk have in common: a decoder is a record  *)
(* d, and each of its operations maps d and a packet to the next d.        *)
(* Times are counted in block durations, azimuths in parts of a Round.     *)
(* Of a point the models keep only when it was fired and whether it is in  *)
(* the cloud; where it is in space is left out.                            *)
(***************************************************************************)
EXTENDS Integers, SequencesExt

CONSTANTS
  Round,        \* azimuths of one turn: 36000 in the code
  BlindGap,     \* a greater step between two blocks is the blind zone: 100
  FiringRate,   \* firings in a second: 1 / BLOCK_DURATION
  DefaultRps,   \* turns in a second before the first DIFOP: 10
  SeqRange      \* how far packet numbers may be out of order: 10

ASSUME DecoderAssumption ==
  /\ {Round, BlindGap, FiringRate, DefaultRps, SeqRange} \subseteq Nat \ {0}
  /\ BlindGap < Round

-----------------------------------------------------------------------------
\* Sections of angles and distances.

InAzimuth(start, end, angle) ==
  LET s == start % Round  e == end % Round
  IN \/ s = e
     \/ s > e /\ (angle >= s \/ angle < e)
     \/ s < e /\ angle >= s /\ angle < e

InDistance(d, distance) ==
  LET lo == IF d.param.min_distance < 0 THEN 0 ELSE d.param.min_distance
      hi == IF d.param.max_distance < 0 THEN 0 ELSE d.param.max_distance
  IN IF lo # 0 \/ hi # 0 THEN lo <= distance /\ distance <= hi
                         ELSE d.lidar.near <= distance /\ distance <= d.lidar.far

-----------------------------------------------------------------------------
\* Splitting the stream into frames.  A strategy's newBlock or newPacket gives
\* its next state and whether a frame begins.

ByAngleBegin(angle) == [prev |-> angle]
\* Mutant: the previous angle is not taken back a turn when angles wrap around.
ByAngleNoWrap(s, split, angle) ==
  [next |-> [prev |-> angle], split |-> s.prev < split /\ split <= angle]
ByAngle(s, split, angle) ==
  LET prev == IF angle < s.prev THEN s.prev - Round ELSE s.prev
  IN [next |-> [prev |-> angle], split |-> prev < split /\ split <= angle]

\* Mutant: the block that begins a frame is not counted.
ByNumLate(s, max) ==
  IF s.blks >= max THEN [next |-> [blks |-> 0], split |-> TRUE]
                   ELSE [next |-> [blks |-> s.blks + 1], split |-> FALSE]
ByNum(s, max) ==
  IF s.blks + 1 >= max THEN [next |-> [blks |-> 0], split |-> TRUE]
                       ELSE [next |-> [blks |-> s.blks + 1], split |-> FALSE]

SafeMin(s) == IF s.prev > SeqRange THEN s.prev - SeqRange ELSE 0
SafeMax(s) == s.prev + SeqRange
BySeqBegin == [prev |-> 0, max |-> 0, looped |-> FALSE]
\* Mutants: every smaller number begins a frame; only the next number counts.
BySeqNext(s, seq) ==
  [next |-> [prev |-> IF seq < SafeMin(s) \/ seq = s.prev + 1 THEN seq ELSE s.prev,
             max |-> s.max, looped |-> s.looped],
   split |-> seq < SafeMin(s)]
BySeqStrict(s, seq) ==
  [next |-> [prev |-> seq, max |-> s.max, looped |-> TRUE], split |-> seq < s.prev]
BySeq(s, seq) ==
  LET rewind == seq < SafeMin(s)
      ahead == s.prev <= seq /\ (seq <= SafeMax(s) \/ s.prev = 0)
  IN [next |-> [prev |-> IF rewind \/ ahead THEN seq ELSE s.prev,
                max |-> IF seq > s.max THEN seq ELSE s.max,
                looped |-> s.looped \/ rewind],
      split |-> rewind]
maxSeq(s) == IF s.looped THEN s.max ELSE 0

-----------------------------------------------------------------------------
\* When the blocks of a packet were fired, counted from the first one: a
\* function of the blocks' azimuths.  Blocks are numbered from 1.

\* From one block to the next, or across the blind zone.
StepTime(d, from, to, unit) ==
  LET diff == IF to < from THEN to - from + Round ELSE to - from
  IN IF diff > BlindGap THEN d.fov_blind ELSE unit

\* Groups of size blocks were fired at once, unit durations after each other.
\* Mutant: a group's time is the step to it, not the sum of the steps.
GroupedUnsummed(d, azs, size, unit) ==
  [b \in 1..Len(azs) |->
     LET g == (b - 1) \div size
     IN IF g = 0 THEN 0 ELSE StepTime(d, azs[(g - 1) * size + 1], azs[g * size + 1], unit)]
Grouped(d, azs, size, unit) ==
  LET Step(g) == StepTime(d, azs[(g - 1) * size + 1], azs[g * size + 1], unit)
      sum[g \in 0..(Len(azs) - 1) \div size] == IF g = 0 THEN 0 ELSE sum[g - 1] + Step(g)
  IN [b \in 1..Len(azs) |-> sum[(b - 1) \div size]]

SingleReturn(d, azs) == Grouped(d, azs, 1, 1)
DualReturn(d, azs) == Grouped(d, azs, 2, 1)
TwoInOne(d, azs) == Grouped(d, azs, 2, 1)
FourInOne(d, azs) == Grouped(d, azs, 4, 1)
\* Three blocks, either AAB or ABB.
ABDualReturn(d, azs) ==
  LET step == StepTime(d, azs[1], azs[3], 1)
  IN IF azs[1] = azs[2] THEN <<0, 0, step>> ELSE <<0, step, step>>
\* Two firings in a block.
Rs16Single(d, azs) == Grouped(d, azs, 1, 2)
Rs16Dual(d, azs) == Grouped(d, azs, 1, 1)

-----------------------------------------------------------------------------
\* The decoder's record.

\* A cloud: how many points, and for the properties the first and last time it
\* gives its blocks, the first and last turn of their firing, and whether it
\* began with a frame.
EmptyCloud == [points |-> 0, times |-> {}, fired |-> {}, begun |-> FALSE]

\* Members of Decoder; lidar is its const_param_, param the user's settings,
\* split the split_strategy_.  For the properties: the clouds delivered, whether a frame began, and how far the
\* times given are from those of the firings.
Decoder(lidar, param, split) ==
  [lidar |-> lidar, param |-> param, split |-> split, cloud |-> EmptyCloud, out |-> <<>>,
   echo_mode |-> "single", angles_ready |-> FALSE, new_frame |-> FALSE, skew |-> 0,
   prev_point_ts |-> 0, first_point_ts |-> 0, packet_duration |-> 0]

\* The frame's stamp.  Mutant: the frame that begins gives it.
cloudTs(d) == IF d.param.ts_first_point THEN d.first_point_ts ELSE d.prev_point_ts

\* The driver's splitFrame: a cloud without points is kept for the next frame.
SplitFrame(d, height) ==
  IF d.cloud.points = 0 THEN [d EXCEPT !.cloud = EmptyCloud]
  ELSE [d EXCEPT !.cloud = EmptyCloud,
                 !.out = Append(@, [cloud |-> d.cloud, stamp |-> cloudTs(d), height |-> height])]

\* cb_split_frame_ and first_point_ts_.  Mutant: in the other order.
BeginFrameStampFirst(d, height, ts) ==
  [SplitFrame([d EXCEPT !.first_point_ts = ts], height) EXCEPT !.cloud.begun = TRUE, !.new_frame = TRUE]
BeginFrame(d, height, ts) ==
  [SplitFrame(d, height) EXCEPT !.first_point_ts = ts, !.cloud.begun = TRUE, !.new_frame = TRUE]

\* The points of a block with lit channels that see something: what is out of
\* range becomes NaN, or nothing at all.  Mutant: nothing in either case.
PointsInRange(d, lit, returns) == returns * lit
Points(d, lit, returns) ==
  returns * (IF d.param.dense_points THEN lit ELSE d.lidar.channels)

AddBlock(d, block, inRange, ts, returns) ==
  LET Span(set, x) == IF set = {} THEN {x} ELSE {Min(set \cup {x}), Max(set \cup {x})}
      c == d.cloud
      firing == block.firing
  IN [d EXCEPT !.prev_point_ts = ts,
               !.cloud = [points |-> c.points + Points(d, IF inRange THEN block.lit ELSE 0, returns),
                          times |-> Span(c.times, ts),
                          fired |-> Span(c.fired, firing.turn),
                          begun |-> c.begun],
               !.skew = Max({@, ts - firing.t, firing.t - ts})]

\* Time of the first block: the lidar's stamp, or the host's less a packet.
PacketTime(d, pkt) == IF d.param.use_lidar_clock THEN pkt.stamp ELSE pkt.now - d.packet_duration

\* processMsopPkt: the tests before decodeMsopPkt.
MsopPasses(d, pkt) ==
  /\ ~(d.param.wait_for_difop /\ ~d.angles_ready)
  /\ pkt.size = d.lidar.msop_len
  /\ pkt.id = "msop"
DifopPasses(d, pkt) == pkt.id = "difop" /\ pkt.size = d.lidar.difop_len
=============================================================================
