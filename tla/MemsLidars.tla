----------------------------- MODULE MemsLidars -----------------------------
(***************************************************************************)
(* The decoders of the solid-state lidars, which number the packets of a   *)
(* frame and split where the numbers begin again.                          *)
(***************************************************************************)
EXTENDS LidarDecoder

\* The lidars differ from the spinning ones in what a member of Decoder is for.
DecoderMems(lidar, param) ==
  [Decoder(lidar, param, BySeqBegin)
    EXCEPT !.packet_duration = 1, !.angles_ready = lidar.angles_ready]

\* The part every decodeMsopPkt has: a frame begins with the packet or not,
\* then come the packet's blocks, with returns points per channel.
NumberedPacket(d, pkt, seq, returns) ==
  LET ts == PacketTime(d, pkt)
      s == BySeq(d.split, seq)
      e == [d EXCEPT !.split = s.next]
      after[b \in 0..Len(pkt.blocks)] ==
        IF b = 0 THEN IF s.split THEN BeginFrame(e, d.lidar.lasers, ts) ELSE e
        ELSE AddBlock(after[b - 1], pkt.blocks[b], InDistance(d, pkt.blocks[b].distance),
                      ts + pkt.blocks[b].time_offset, returns)
  IN after[Len(pkt.blocks)]

-----------------------------------------------------------------------------
RSM1 == [name |-> "RSM1", msop_len |-> 1210, difop_len |-> 256, lasers |-> 5, blocks |-> 25,
         channels |-> 5, near |-> 2, far |-> 2000, angles_ready |-> TRUE]
\* The last packet of a frame, once its number is known, ends the frame at once.
\* Mutant: the greatest number so far is taken for the last one.
EndsFrameEarly(d, seq) == d.split.max = seq
EndsFrame(d, seq) == maxSeq(d.split) = seq
RSM1Msop(d, pkt) ==
  LET e == NumberedPacket(d, pkt, pkt.seq, 1)
  IN IF EndsFrame(e, pkt.seq) THEN SplitFrame(e, RSM1.lasers) ELSE e

RSM2 == [name |-> "RSM2", msop_len |-> 1342, difop_len |-> 256, lasers |-> 5, blocks |-> 25,
         channels |-> 5, near |-> 2, far |-> 2500, angles_ready |-> TRUE]
RSM2Msop(d, pkt) == NumberedPacket(d, pkt, pkt.seq, 1)

RSM3 == [name |-> "RSM3", msop_len |-> 1448, difop_len |-> 512, lasers |-> 28, blocks |-> 5,
         channels |-> 28, near |-> 1, far |-> 3000, angles_ready |-> TRUE]
RSM3Msop(d, pkt) == NumberedPacket(d, pkt, pkt.seq, 1)

RSE1 == [name |-> "RSE1", msop_len |-> 1200, difop_len |-> 256, lasers |-> 1, blocks |-> 96,
         channels |-> 1, near |-> 0, far |-> 2000, angles_ready |-> TRUE]
RSE1Msop(d, pkt) == NumberedPacket(d, pkt, pkt.seq, 1)

\* A packet tells its return mode: every channel has both returns in mode 0.
RSMX == [name |-> "RSMX", msop_len |-> 1404, difop_len |-> 256, lasers |-> 2, blocks |-> 50,
         channels |-> 2, near |-> 2, far |-> 2000, angles_ready |-> TRUE]
RSMXMsop(d, pkt) == NumberedPacket(d, pkt, pkt.seq, IF pkt.return_mode = 0 THEN 2 ELSE 1)

\* Numbers count from 1; packets of a surface the lidar does not have are dropped.
RSEMX == [name |-> "RSEMX", msop_len |-> 812, difop_len |-> 654, lasers |-> 1, blocks |-> 192,
          channels |-> 1, near |-> 2, far |-> 3000, angles_ready |-> FALSE]
RSEMXDifop(d, difop) == [d EXCEPT !.angles_ready = @ \/ difop.calibrated]
RSEMXMsop(d, pkt) ==
  IF pkt.surface_id >= 2 THEN d ELSE NumberedPacket(d, pkt, pkt.seq - 1, 1)

\* 63 packets in one datagram; those with a wrong id are skipped.
RSM1_Jumbo == [name |-> "RSM1_Jumbo", msop_len |-> 62152, difop_len |-> 256, lasers |-> 5,
               blocks |-> 25, channels |-> 5, near |-> 2, far |-> 2000, angles_ready |-> TRUE]
RSM1_JumboMsop(d, pkt) ==
  LET after[i \in 0..Len(pkt.packets)] ==
        IF i = 0 THEN d
        ELSE IF pkt.packets[i].id = "msop"
        THEN NumberedPacket(after[i - 1], pkt.packets[i], pkt.packets[i].seq, 1)
        ELSE after[i - 1]
  IN after[Len(pkt.packets)]

-----------------------------------------------------------------------------
MemsLidars == {RSM1, RSM2, RSM3, RSE1, RSMX, RSEMX, RSM1_Jumbo}

decodeNumberedPkt(d, pkt) ==
  CASE d.lidar = RSM1 -> RSM1Msop(d, pkt)
    [] d.lidar = RSM2 -> RSM2Msop(d, pkt)
    [] d.lidar = RSM3 -> RSM3Msop(d, pkt)
    [] d.lidar = RSE1 -> RSE1Msop(d, pkt)
    [] d.lidar = RSMX -> RSMXMsop(d, pkt)
    [] d.lidar = RSEMX -> RSEMXMsop(d, pkt)
    [] d.lidar = RSM1_Jumbo -> RSM1_JumboMsop(d, pkt)
=============================================================================
