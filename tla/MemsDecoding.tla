---------------------------- MODULE MemsDecoding ----------------------------
(***************************************************************************)
(* A solid-state lidar, whose datagrams may be lost or overtaken on the    *)
(* way, and its decoder.                                                   *)
(***************************************************************************)
EXTENDS MemsLidars

CONSTANTS
  MemsSetups,   \* what a behaviour may be about: [lidar, mode, param, start, losses, disorder]
  FramePackets, \* packets of a frame, numbered from 1: 630 for RSM1
  JumboPackets, \* packets of a datagram of RSM1_Jumbo: 63
  Frames        \* frames after which a behaviour ends

\* What a behaviour may be about.  Packets come out of order by less than SeqRange,
\* those lost in a row included.  RSEMX is left out of that: its first packet of a
\* frame leaves prev_seq_ at 0, as if there had been none.  A datagram of RSM1_Jumbo
\* holds more numbers than may be missing, so that prev_seq_ stays behind from one
\* that is lost to the end of the frame.  If then the first one of the next frame is
\* lost too, nothing tells the two frames apart: RSM1_Jumbo loses at most one.
MemsSetup(s) ==
  /\ s.lidar \in MemsLidars /\ s.start \in 1..FramePackets
  /\ s.losses \in Nat /\ s.disorder \in BOOLEAN
  /\ s.disorder => s.lidar \notin {RSEMX, RSM1_Jumbo} /\ s.losses + 2 <= SeqRange
  /\ s.lidar = RSM1_Jumbo => s.losses <= 1 /\ (s.start - 1) % JumboPackets = 0

ASSUME MemsAssumption ==
  /\ \A s \in MemsSetups : MemsSetup(s)
  /\ {FramePackets, JumboPackets} \subseteq Nat
  /\ FramePackets % JumboPackets = 0 /\ JumboPackets < FramePackets
  /\ SeqRange + 2 <= JumboPackets /\ 2 * SeqRange < FramePackets

VARIABLES
  mems,         \* the decoder
  device,       \* the lidar: type, return mode, frame and number of the next packet
  held,         \* datagrams that are late: [pkt, age]
  trouble,      \* [losses, row, disorder]: what may still happen; missed: anything has
  begun         \* [frame, before]: the frames whose packets began the last two clouds
memsVars == <<mems, device, held, trouble, begun>>

\* Blocks of a packet in the model.
Blocks == 2
Numbered(l, frame, seq) ==
  LET t == Blocks * (frame * FramePackets + seq)
  IN [id |-> "msop", size |-> l.type.msop_len, seq |-> seq, stamp |-> t, now |-> t + Blocks,
      return_mode |-> l.mode, surface_id |-> seq % 2,
      blocks |-> [b \in 1..Blocks |->
        [distance |-> 10, lit |-> l.type.channels, time_offset |-> b - 1,
         firing |-> [t |-> t + b - 1, turn |-> frame]]]]

Datagrams(l) == IF l.type = RSM1_Jumbo THEN JumboPackets ELSE 1
Datagram(l) ==
  IF l.type = RSM1_Jumbo
  THEN [id |-> "msop", size |-> l.type.msop_len, seq |-> l.seq,
        packets |-> [i \in 1..JumboPackets |-> Numbered(l, l.frame, l.seq + i - 1)]]
  ELSE Numbered(l, l.frame, l.seq)
Sent(l) ==
  IF l.seq + Datagrams(l) > FramePackets
  THEN [l EXCEPT !.frame = @ + 1, !.seq = 1] ELSE [l EXCEPT !.seq = @ + Datagrams(l)]

MemsStart(s) ==
  /\ mems = DecoderMems(s.lidar, s.param)
  /\ device = [type |-> s.lidar, mode |-> s.mode, frame |-> 1, seq |-> s.start]
  /\ held = <<>>
  /\ trouble = [losses |-> s.losses, row |-> 0, disorder |-> s.disorder, missed |-> s.start # 1]
  /\ begun = [frame |-> 0, before |-> 0]

-----------------------------------------------------------------------------
\* processMsopPkt.
Process(pkt, frame) ==
  LET before == [mems EXCEPT !.out = <<>>, !.new_frame = FALSE]
      after == IF MsopPasses(before, pkt) THEN decodeNumberedPkt(before, pkt) ELSE before
  IN /\ mems' = after
     /\ begun' = IF after.new_frame THEN [frame |-> frame, before |-> begun.frame] ELSE begun

Older == [i \in DOMAIN held |-> [held[i] EXCEPT !.age = @ + 1]]
InTime == device.frame <= Frames /\ \A i \in DOMAIN held : held[i].age < SeqRange

MsopNumbered ==
  /\ InTime
  /\ Process(Datagram(device), device.frame)
  /\ device' = Sent(device)
  /\ held' = Older
  /\ trouble' = [trouble EXCEPT !.row = 0]

\* Fewer packets in a row are lost than numbers may be apart, or a datagram.
LoseNumbered ==
  /\ InTime /\ held = <<>>
  /\ trouble.losses > 0 /\ trouble.row * Datagrams(device) < SeqRange - 1
  /\ device' = Sent(device)
  /\ trouble' = [trouble EXCEPT !.losses = @ - 1, !.row = @ + 1, !.missed = TRUE]
  /\ UNCHANGED <<mems, held, begun>>

\* A packet is late, and comes at most SeqRange packets later.
Delay ==
  /\ InTime /\ held = <<>> /\ trouble.disorder
  /\ held' = <<[pkt |-> Datagram(device), frame |-> device.frame, age |-> 0]>>
  /\ device' = Sent(device)
  /\ trouble' = [trouble EXCEPT !.missed = TRUE]
  /\ UNCHANGED <<mems, begun>>
Late ==
  /\ held # <<>>
  /\ Process(Head(held).pkt, Head(held).frame)
  /\ held' = Tail(held)
  /\ UNCHANGED <<device, trouble>>

MemsDifop ==
  /\ mems.lidar = RSEMX /\ ~mems.angles_ready
  /\ mems' = RSEMXDifop(mems, [calibrated |-> TRUE])
  /\ trouble' = [trouble EXCEPT !.missed = @ \/ <<device.frame, device.seq>> # <<1, 1>>]
  /\ UNCHANGED <<device, held, begun>>

MemsEnded == device.frame > Frames /\ held = <<>> /\ UNCHANGED memsVars

MemsNext == MsopNumbered \/ LoseNumbered \/ Delay \/ Late \/ MemsDifop \/ MemsEnded

MemsSpec == (\E s \in MemsSetups : MemsStart(s)) /\ [][MemsNext]_memsVars

-----------------------------------------------------------------------------
\* As long as packets come in order, and fewer in a row are lost than numbers may
\* be apart (or one datagram), a cloud never holds points of two frames of the lidar.
OneFramePerCloud ==
  ~trouble.disorder
    => \A c \in {mems.cloud} \cup {mems.out[i].cloud : i \in DOMAIN mems.out} :
         \A x, y \in c.fired : x = y

\* Also when they come out of order, a frame of the lidar begins one cloud only:
\* a late packet is not taken for the first one of another frame.
OneCloudPerFrame == begun.frame > 0 => begun.before < begun.frame

\* When nothing was missed, a cloud that is delivered is a whole frame: RSM1's,
\* which is delivered with its last packet, as well as the others'.
WholeFrames ==
  ~trouble.missed /\ mems.angles_ready
    => \A i \in DOMAIN mems.out :
         mems.out[i].cloud.points =
           FramePackets * Blocks * mems.lidar.channels * (IF mems.lidar = RSMX /\ device.mode = 0
                                                          THEN 2 ELSE 1)

\* Clouds are frames of the lidar, one each, and whole when nothing was missed.
FramesWhole == OneFramePerCloud /\ OneCloudPerFrame /\ WholeFrames
=============================================================================
