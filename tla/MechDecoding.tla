---------------------------- MODULE MechDecoding ----------------------------
(***************************************************************************)
(* A spinning lidar, whose packets may be lost or damaged on the way, and  *)
(* its decoder.  The lidar may be told another speed or return mode; the   *)
(* decoder learns of it with the next DIFOP packet.                        *)
(***************************************************************************)
EXTENDS MechLidars

CONSTANTS
  Setups,      \* what a behaviour may be about: [lidar, mode, model, install, param, faults]
  Speeds,      \* turns in a second, 0 for a DIFOP that does not tell
  Blind,       \* [from, to]: azimuths at which the lidar does not fire
  FirstDifop,  \* firings by which a first DIFOP packet has come, unless none comes before a fault
  EndTime      \* firings after which a behaviour ends

ASSUME SetupAssumption ==
  /\ \A s \in Setups : s.lidar \in MechLidars
  /\ 0 <= Blind.from /\ Blind.from <= Blind.to /\ Blind.to < Round

VARIABLES
  d,           \* the decoder
  lidar,       \* the device: speed, modes, and the next block's firing
  told,        \* the last DIFOP the decoder got describes the device
  faults,      \* what may still happen, once: a subset of Faults
  step         \* the last packet: announced, split and decoded, and the firings it decoded
mechVars == <<d, lidar, told, faults, step>>

\* A packet is lost, comes damaged, or sees little; the settings change.
Faults == {"loss", "damage", "dark", "change"}

\* first: the first firing last decoded; gap: how far that is from the one before.
NoStep == [announced |-> FALSE, began |-> FALSE, decoded |-> FALSE, both |-> FALSE, told |-> FALSE,
           unit |-> 1, first |-> 0, gap |-> 0]

-----------------------------------------------------------------------------
\* The device.

Steady(l) == IF l.rps = 0 THEN DefaultRps ELSE l.rps
IsDual(l) ==
  CASE l.type \in {RS16, RSHELIOS_16P, RS32, RSHELIOS, RSBP} -> l.mode = 0
    [] l.type \in {RSP48, RSP80, RSP128} -> l.mode \in 3..6
    [] OTHER -> l.mode = 3
TwoFirings(l) == l.type \in {RS16, RSHELIOS_16P} /\ ~IsDual(l)
\* Blocks a firing takes, all its returns counted.
BlocksPerFiring(l) ==
  CASE l.type \in {RS16, RSHELIOS_16P} -> 1
    [] l.type \in {RSAIRY, RSFAIRY} /\ l.model = 96 -> IF IsDual(l) THEN 4 ELSE 2
    [] OTHER -> IF IsDual(l) THEN 2 ELSE 1
Unit(l) == IF TwoFirings(l) THEN 2 ELSE 1

\* The next firing of l outside the blind zone.
Azimuth(turn) == turn % Round
NextFiring(l) ==
  LET width == Unit(l) * ((Round * Steady(l)) \div FiringRate)
      k == CHOOSE k \in 1..Round :
             /\ Azimuth(l.turn + k * width) \notin Blind.from..Blind.to - 1
             /\ \A j \in 1..k - 1 : Azimuth(l.turn + j * width) \in Blind.from..Blind.to - 1
  IN [l EXCEPT !.turn = @ + k * width, !.t = @ + k * Unit(l), !.sub = 0]
NextBlock(l) ==
  IF l.sub + 1 < BlocksPerFiring(l) THEN [l EXCEPT !.sub = @ + 1] ELSE NextFiring(l)

\* A packet of blocks from firing l on, in which lit channels see something,
\* with a wrong block or none, and the device after it.
Packet(l, lit, wrong) ==
  LET Add(r, b) ==
        [l |-> NextBlock(r.l),
         blocks |-> Append(r.blocks, [az |-> Azimuth(r.l.turn), good |-> b # wrong,
                                      distance |-> 10, lit |-> lit,
                                      firing |-> [t |-> r.l.t, turn |-> r.l.turn]])]
      upTo[b \in 0..l.type.blocks] ==
        IF b = 0 THEN [l |-> l, blocks |-> <<>>] ELSE Add(upTo[b - 1], b)
      all == upTo[l.type.blocks]
  IN [next |-> all.l,
      pkt |-> [id |-> "msop", size |-> l.type.msop_len, stamp |-> l.t, now |-> all.l.t,
               blocks |-> all.blocks, data_type |-> 0, return_mode |-> l.mode,
               lidar_mode |-> IF l.model = 48 THEN 1 ELSE 2]]

MechStart(s, rps) ==
  /\ lidar = [type |-> s.lidar, rps |-> rps, mode |-> s.mode, model |-> s.model,
              install |-> s.install, t |-> 0, turn |-> 0, sub |-> 0]
  /\ d = createDecoder(s.lidar, s.param)
  /\ faults = s.faults
  /\ told = FALSE
  /\ step = NoStep

-----------------------------------------------------------------------------
\* processMsopPkt after isNewFrame.
Receive(pkt) ==
  LET pre == isNewFrame(d, pkt)
      before == [d EXCEPT !.pre_split = pre.next, !.out = <<>>, !.new_frame = FALSE, !.skew = 0]
      after == IF MsopPasses(before, pkt) THEN decodeMsopPkt(before, pkt) ELSE before
  IN /\ d' = after
     /\ step' = [announced |-> pre.split, began |-> after.new_frame,
                 decoded |-> MsopPasses(before, pkt) /\ BlocksOf(pkt) # <<>>,
                 both |-> step.decoded, told |-> told, unit |-> Unit(lidar),
                 first |-> IF BlocksOf(pkt) = <<>> THEN step.first ELSE pkt.blocks[1].firing.turn,
                 gap |-> pkt.blocks[1].firing.turn - step.first]

\* Faults are alternatives: the first one is the only one.
Fault(kind) == kind \in faults /\ faults' = {}

\* A packet is whole, or dark, or has a wrong block id.
Msop(lit, wrong) ==
  /\ lidar.t < EndTime
  /\ \/ lit = lidar.type.channels /\ wrong = 0 /\ UNCHANGED faults
     \/ lit # lidar.type.channels /\ wrong = 0 /\ Fault("dark")
     \/ lit = lidar.type.channels /\ wrong # 0 /\ Fault("damage")
  /\ LET p == Packet(lidar, lit, wrong) IN Receive(p.pkt) /\ lidar' = p.next
  /\ UNCHANGED told

LoseMsop ==
  /\ lidar.t < EndTime
  /\ Fault("loss")
  /\ lidar' = Packet(lidar, 0, 0).next
  /\ d' = [d EXCEPT !.out = <<>>]
  /\ UNCHANGED <<told, step>>

\* processDifopPkt.
Difop ==
  /\ faults # {} => lidar.t <= FirstDifop
  /\ LET difop == [id |-> "difop", size |-> lidar.type.difop_len, rps |-> lidar.rps,
                   fov_start |-> Blind.to, fov_end |-> Blind.from, calibrated |-> TRUE,
                   return_mode |-> lidar.mode, install |-> lidar.install]
     IN /\ DifopPasses(d, difop)
        /\ d' = decodeDifopPkt(d, difop)
  /\ told' = TRUE
  /\ UNCHANGED <<lidar, faults, step>>

\* The device is told another speed or return mode, between two firings.
Change ==
  /\ Fault("change") /\ told /\ lidar.sub = 0
  /\ \E rps \in Speeds, mode \in {0, 3} :
       lidar' = [lidar EXCEPT !.rps = rps, !.mode = mode]
  /\ told' = (lidar' = lidar)
  /\ UNCHANGED <<d, step>>

MechEnded == lidar.t >= EndTime /\ UNCHANGED mechVars

MechNext ==
  \/ \E lit \in {0, 1, lidar.type.channels}, wrong \in {0, 1, lidar.type.blocks} : Msop(lit, wrong)
  \/ LoseMsop \/ Difop \/ Change \/ MechEnded

-----------------------------------------------------------------------------
Delivered == {d.out[i] : i \in DOMAIN d.out}
Width(set) == IF set = {} THEN 0 ELSE Max(set) - Min(set)

\* Split by angle, a cloud holds no more than one turn, also when packets are
\* lost around the split angle, unless a whole turn is missing.
OneTurnPerCloud ==
  d.param.split_frame_mode = "angle" /\ step.gap < Round
    => \A c \in {d.cloud} \cup {f.cloud : f \in Delivered} : Width(c.fired) < Round

\* ts_first_point, rs_driver's "Stamp the point cloud with the first point or the
\* last point": once a frame has begun, a cloud's stamp is a time of its blocks.
StampWithinCloud ==
  \A f \in Delivered : f.cloud.begun => f.stamp \in Min(f.cloud.times)..Max(f.cloud.times)

\* With the lidar's clock, and told the speed and the return mode, the decoder
\* times every block right, to the two firings at the ends of the blind zone.
BlocksTimedRight ==
  step.told /\ d.param.use_lidar_clock => d.skew <= 2 * step.unit

\* A cloud that is not dense is a whole number of columns of one point per laser.
Organised ==
  \A f \in Delivered : ~d.param.dense_points => f.cloud.points % f.height = 0

\* SPLIT_BY_CUSTOM_BLKS "is by user requested blocks": a cloud holds as many, also
\* when packets are lost and where frames begin inside a packet.
BlocksAsRequested ==
  \A f \in Delivered :
    d.param.split_frame_mode = "custom" /\ f.cloud.begun
      => f.cloud.points = d.param.num_blks_split * d.lidar.channels

\* The input thread, which delays a pcap file's packets by frames, finds the
\* same frames as the decoder, once that gets packets and splits them by angle.
SplitAnnounced ==
  d.param.split_frame_mode = "angle" /\ step.both /\ step.gap < Round
    => step.announced = step.began

\* Clouds are turns, or as many blocks as requested, organised where they are
\* asked to be, and the input thread splits as the decoder does.
TurnsSplit == OneTurnPerCloud /\ BlocksAsRequested /\ Organised /\ SplitAnnounced

\* Clouds and blocks bear the times of their firings.
TimesRight == StampWithinCloud /\ BlocksTimedRight
=============================================================================
