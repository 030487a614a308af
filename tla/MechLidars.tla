----------------------------- MODULE MechLidars -----------------------------
(***************************************************************************)
(* The decoders of the spinning lidars: the class DecoderMech and, per     *)
(* lidar, its constants, the return modes it knows, and what it does with  *)
(* a DIFOP and an MSOP packet.  Distances are counted in decimetres.       *)
(***************************************************************************)
EXTENDS LidarDecoder

\* SplitStrategy of the parameters; both strategies start alike.
SplitBegin(param) ==
  IF param.split_frame_mode = "angle" THEN ByAngleBegin(param.split_angle) ELSE [blks |-> 0]

newBlock(d, s, az) ==
  CASE d.param.split_frame_mode = "angle" -> ByAngle(s, d.param.split_angle, az)
    [] d.param.split_frame_mode = "fixed" -> ByNum(s, d.split_blks_per_frame)
    [] OTHER -> ByNum(s, d.param.num_blks_split)

\* Constructor of DecoderMech.  Angles from a file make DIFOP unnecessary.
DecoderMech(lidar, param) ==
  LET file == param.config_from_file
      base == Decoder(lidar, [param EXCEPT !.wait_for_difop = @ /\ ~file], SplitBegin(param))
  IN [rps |-> DefaultRps, blks_per_frame |-> FiringRate \div DefaultRps,
      split_blks_per_frame |-> FiringRate \div DefaultRps,
      fov_blind |-> 0, pre_split |-> SplitBegin(param), initialised |-> FALSE,
      model |-> 96, install |-> "unknown"]
     @@ [base EXCEPT !.packet_duration = lidar.blocks, !.angles_ready = file]

\* What the DIFOP packets of all spinning lidars tell: the speed, the blind
\* zone, and the angles, which are loaded once.
decodeDifopCommon(d, difop) ==
  LET rps == IF difop.rps = 0 THEN DefaultRps ELSE difop.rps
      range == IF difop.fov_start < difop.fov_end THEN difop.fov_end - difop.fov_start
                                                  ELSE difop.fov_end + Round - difop.fov_start
  IN [d EXCEPT !.rps = rps,
               !.blks_per_frame = FiringRate \div rps,
               !.fov_blind = ((Round - range) * FiringRate) \div (Round * rps),
               !.angles_ready = @ \/ (~d.param.config_from_file /\ difop.calibrated)]

\* Most lidars take the return mode and the blocks in a turn from every DIFOP.
\* Mutant: the return mode is kept.
KeepEcho(d, echo) == [d EXCEPT !.split_blks_per_frame = d.blks_per_frame]
SetEcho(d, echo) ==
  [d EXCEPT !.echo_mode = echo,
            !.split_blks_per_frame = IF echo = "dual" THEN 2 * d.blks_per_frame
                                                      ELSE d.blks_per_frame]

\* The lidars with sixteen lasers do so when the return mode changes.
ChangeEcho(d, echo) ==
  IF d.echo_mode = echo THEN d
  ELSE [d EXCEPT !.echo_mode = echo,
                 !.split_blks_per_frame = IF echo = "dual" THEN d.blks_per_frame
                                                           ELSE d.blks_per_frame \div 2]

\* internDecodeMsopPkt: block by block, up to the first one with a wrong id.
FirstWrong(pkt) == SelectInSeq(pkt.blocks, LAMBDA b : ~b.good)
BlocksOf(pkt) ==
  IF FirstWrong(pkt) = 0 THEN pkt.blocks ELSE SubSeq(pkt.blocks, 1, FirstWrong(pkt) - 1)

\* The blocks' times come from an iterator.
Azimuths(pkt) == [b \in 1..Len(pkt.blocks) |-> pkt.blocks[b].az]

internDecodeMsopPkt(d, pkt, times, height) ==
  LET After(e, b) ==
        LET block == pkt.blocks[b]
            ts == PacketTime(d, pkt) + times[b]
            s == newBlock(e, e.split, block.az)
            f == [e EXCEPT !.split = s.next]
            g == IF s.split THEN BeginFrame(f, height, ts) ELSE f
            seen == /\ InDistance(g, block.distance)
                    /\ InAzimuth(g.param.start_angle, g.param.end_angle, block.az)
        IN AddBlock(g, block, seen, ts, 1)
      blocks == Len(BlocksOf(pkt))
      upTo[b \in 0..blocks] == IF b = 0 THEN d ELSE After(upTo[b - 1], b)
  IN upTo[blocks]

\* isNewFrame: the same split, tried by the input thread, which stops at the
\* first block that begins a frame.  Mutant: only the first block is tried.
preSplitFirst(d, pkt) ==
  IF BlocksOf(pkt) = <<>> THEN [next |-> d.pre_split, split |-> FALSE]
                          ELSE newBlock(d, d.pre_split, pkt.blocks[1].az)
preSplit(d, pkt) ==
  LET Try(r, block) ==
        IF r.split THEN r ELSE newBlock(d, r.next, block.az)
      blocks == BlocksOf(pkt)
      upTo[b \in 0..Len(blocks)] ==
        IF b = 0 THEN [next |-> d.pre_split, split |-> FALSE] ELSE Try(upTo[b - 1], blocks[b])
  IN upTo[Len(blocks)]

\* By return mode, with the decoders' iterators.
ByEcho(d, pkt, single, dual) ==
  IF d.echo_mode = "single" THEN internDecodeMsopPkt(d, pkt, single, d.lidar.lasers)
                            ELSE internDecodeMsopPkt(d, pkt, dual, d.lidar.lasers)

SingleOrDual(d, pkt) ==
  ByEcho(d, pkt, SingleReturn(d, Azimuths(pkt)), DualReturn(d, Azimuths(pkt)))

DualIf(modes, mode) == IF mode \in modes THEN "dual" ELSE "single"
\* Two return modes and more at once.
SingleIf(modes, mode) == IF mode \in modes THEN "single" ELSE "dual"

-----------------------------------------------------------------------------
\* RS16 and RSHELIOS_16P: two firings in a block.
RS16 == [name |-> "RS16", msop_len |-> 1248, difop_len |-> 1248, lasers |-> 16, blocks |-> 12,
         channels |-> 32, near |-> 4, far |-> 2300]
RS16Decoder(param) == [DecoderMech(RS16, param) EXCEPT !.packet_duration = 2 * RS16.blocks]
RS16Echo(mode) == DualIf({0}, mode)
RS16Difop(d, difop) == ChangeEcho(decodeDifopCommon(d, difop), RS16Echo(difop.return_mode))
RS16Msop(d, pkt) ==
  ByEcho(d, pkt, Rs16Single(d, Azimuths(pkt)), Rs16Dual(d, Azimuths(pkt)))

RSHELIOS_16P == [name |-> "RSHELIOS_16P", msop_len |-> 1248, difop_len |-> 1248, lasers |-> 16,
                 blocks |-> 12, channels |-> 32, near |-> 1, far |-> 1800]
RSHELIOS_16PDecoder(param) ==
  [DecoderMech(RSHELIOS_16P, param) EXCEPT !.packet_duration = 2 * RSHELIOS_16P.blocks]
RSHELIOS_16PEcho(mode) == DualIf({0}, mode)
RSHELIOS_16PDifop(d, difop) ==
  ChangeEcho(decodeDifopCommon(d, difop), RSHELIOS_16PEcho(difop.return_mode))
RSHELIOS_16PMsop(d, pkt) ==
  ByEcho(d, pkt, Rs16Single(d, Azimuths(pkt)), Rs16Dual(d, Azimuths(pkt)))

-----------------------------------------------------------------------------
\* Lidars whose dual returns are two blocks after each other.
RS32 == [name |-> "RS32", msop_len |-> 1248, difop_len |-> 1248, lasers |-> 32, blocks |-> 12,
         channels |-> 32, near |-> 4, far |-> 2300]
RS32Difop(d, difop) == SetEcho(decodeDifopCommon(d, difop), DualIf({0}, difop.return_mode))
RS32Msop(d, pkt) == SingleOrDual(d, pkt)

RSHELIOS == [name |-> "RSHELIOS", msop_len |-> 1248, difop_len |-> 1248, lasers |-> 32,
             blocks |-> 12, channels |-> 32, near |-> 1, far |-> 1800]
RSHELIOSDifop(d, difop) == SetEcho(decodeDifopCommon(d, difop), DualIf({0}, difop.return_mode))
RSHELIOSMsop(d, pkt) == SingleOrDual(d, pkt)

RS48 == [name |-> "RS48", msop_len |-> 1268, difop_len |-> 1248, lasers |-> 48, blocks |-> 8,
         channels |-> 48, near |-> 4, far |-> 2500]
RS48Difop(d, difop) == SetEcho(decodeDifopCommon(d, difop), DualIf({3}, difop.return_mode))
RS48Msop(d, pkt) == SingleOrDual(d, pkt)

RSP48 == [name |-> "RSP48", msop_len |-> 1268, difop_len |-> 1248, lasers |-> 48, blocks |-> 8,
          channels |-> 48, near |-> 4, far |-> 2500]
RSP48Difop(d, difop) ==
  SetEcho(decodeDifopCommon(d, difop), SingleIf({0, 1, 2}, difop.return_mode))
RSP48Msop(d, pkt) == SingleOrDual(d, pkt)

RS80 == [name |-> "RS80", msop_len |-> 1248, difop_len |-> 1248, lasers |-> 80, blocks |-> 4,
         channels |-> 80, near |-> 4, far |-> 2500]
RS80Difop(d, difop) == SetEcho(decodeDifopCommon(d, difop), DualIf({3}, difop.return_mode))
RS80Msop(d, pkt) == SingleOrDual(d, pkt)

RSP80 == [name |-> "RSP80", msop_len |-> 1248, difop_len |-> 1248, lasers |-> 80, blocks |-> 4,
          channels |-> 80, near |-> 4, far |-> 2500]
RSP80Difop(d, difop) ==
  SetEcho(decodeDifopCommon(d, difop), SingleIf({0, 1, 2}, difop.return_mode))
RSP80Msop(d, pkt) == SingleOrDual(d, pkt)

\* RSBP: a first packet of the newer kind changes the optics and the timing,
\* and a DIFOP may turn the azimuths round; neither changes which block is what.
RSBP == [name |-> "RSBP", msop_len |-> 1248, difop_len |-> 1248, lasers |-> 32, blocks |-> 12,
         channels |-> 32, near |-> 1, far |-> 1500]
RSBPDifop(d, difop) == SetEcho(decodeDifopCommon(d, difop), DualIf({0}, difop.return_mode))
RSBPMsop(d, pkt) == SingleOrDual(d, pkt)

-----------------------------------------------------------------------------
\* Lidars with three blocks in a packet, whose dual returns are AAB or ABB.
RS128 == [name |-> "RS128", msop_len |-> 1248, difop_len |-> 1248, lasers |-> 128, blocks |-> 3,
          channels |-> 128, near |-> 4, far |-> 2500]
RS128Difop(d, difop) == SetEcho(decodeDifopCommon(d, difop), DualIf({3}, difop.return_mode))
RS128Msop(d, pkt) ==
  ByEcho(d, pkt, SingleReturn(d, Azimuths(pkt)), ABDualReturn(d, Azimuths(pkt)))

RSP128 == [name |-> "RSP128", msop_len |-> 1248, difop_len |-> 1248, lasers |-> 128,
           blocks |-> 3, channels |-> 128, near |-> 4, far |-> 2500]
RSP128Difop(d, difop) ==
  SetEcho(decodeDifopCommon(d, difop), SingleIf({0, 1, 2}, difop.return_mode))
RSP128Msop(d, pkt) ==
  ByEcho(d, pkt, SingleReturn(d, Azimuths(pkt)), ABDualReturn(d, Azimuths(pkt)))

-----------------------------------------------------------------------------
\* RSAIRY and RSFAIRY: the MSOP packets themselves tell the return mode and
\* the model; with 96 channels a firing, or two returns of it, takes two blocks.
RSAIRY == [name |-> "RSAIRY", msop_len |-> 1248, difop_len |-> 1248, lasers |-> 96, blocks |-> 8,
           channels |-> 48, near |-> 1, far |-> 600]
\* getLidarModel: the number of channels.
ModelOf(lidar_mode) == CASE lidar_mode = 1 -> 48 [] lidar_mode = 3 -> 192 [] OTHER -> 96

RSAIRYDifop(d, difop) ==
  [decodeDifopCommon(d, difop) EXCEPT
     !.install = IF difop.install = "unknown" THEN @ ELSE difop.install]

\* The modes are taken from every packet until the way of mounting is known.
ReadModes(d, pkt) ==
  [SetEcho(d, DualIf({3}, pkt.return_mode)) EXCEPT !.model = ModelOf(pkt.lidar_mode)]
AiryReady(d) == d.model = 48 \/ (d.model = 96 /\ d.install # "unknown")

ByModel(d, pkt) ==
  LET single == d.echo_mode = "single"
      azimuths == Azimuths(pkt)
  IN CASE d.model = 48 /\ single -> internDecodeMsopPkt(d, pkt, SingleReturn(d, azimuths), 48)
       [] d.model = 48 /\ ~single -> internDecodeMsopPkt(d, pkt, DualReturn(d, azimuths), 48)
       [] d.model = 96 /\ single -> internDecodeMsopPkt(d, pkt, TwoInOne(d, azimuths), 96)
       [] d.model = 96 /\ ~single -> internDecodeMsopPkt(d, pkt, FourInOne(d, azimuths), 96)
       [] OTHER -> d

RSAIRYMsop(d, pkt) ==
  LET read == ReadModes(d, pkt)
  IN CASE pkt.data_type # 0 -> d
       [] d.initialised -> ByModel(d, pkt)
       [] OTHER -> ByModel([read EXCEPT !.initialised = AiryReady(read)], pkt)
AiryNewFrame(d, pkt) ==
  IF pkt.data_type > 0 THEN [next |-> d.pre_split, split |-> FALSE] ELSE preSplit(d, pkt)

RSFAIRY == [name |-> "RSFAIRY", msop_len |-> 1248, difop_len |-> 1248, lasers |-> 96,
            blocks |-> 8, channels |-> 48, near |-> 1, far |-> 1500]
RSFAIRYDifop(d, difop) == decodeDifopCommon(d, difop)
RSFAIRYMsop(d, pkt) ==
  CASE pkt.data_type # 0 -> d
    [] d.initialised -> ByModel(d, pkt)
    [] OTHER -> ByModel([ReadModes(d, pkt) EXCEPT !.initialised = TRUE], pkt)

-----------------------------------------------------------------------------
\* DecoderFactory::createDecoder, and the virtual functions of what it creates.
MechLidars == {RS16, RSHELIOS_16P, RS32, RSHELIOS, RS48, RSP48, RS80, RSP80, RSBP, RS128,
               RSP128, RSAIRY, RSFAIRY}

createDecoder(lidar, param) ==
  CASE lidar = RS16 -> RS16Decoder(param)
    [] lidar = RSHELIOS_16P -> RSHELIOS_16PDecoder(param)
    [] OTHER -> DecoderMech(lidar, param)

decodeDifopPkt(d, difop) ==
  CASE d.lidar = RS16 -> RS16Difop(d, difop)
    [] d.lidar = RSHELIOS_16P -> RSHELIOS_16PDifop(d, difop)
    [] d.lidar = RS32 -> RS32Difop(d, difop)
    [] d.lidar = RSHELIOS -> RSHELIOSDifop(d, difop)
    [] d.lidar = RS48 -> RS48Difop(d, difop)
    [] d.lidar = RSP48 -> RSP48Difop(d, difop)
    [] d.lidar = RS80 -> RS80Difop(d, difop)
    [] d.lidar = RSP80 -> RSP80Difop(d, difop)
    [] d.lidar = RSBP -> RSBPDifop(d, difop)
    [] d.lidar = RS128 -> RS128Difop(d, difop)
    [] d.lidar = RSP128 -> RSP128Difop(d, difop)
    [] d.lidar = RSAIRY -> RSAIRYDifop(d, difop)
    [] d.lidar = RSFAIRY -> RSFAIRYDifop(d, difop)

decodeMsopPkt(d, pkt) ==
  CASE d.lidar = RS16 -> RS16Msop(d, pkt)
    [] d.lidar = RSHELIOS_16P -> RSHELIOS_16PMsop(d, pkt)
    [] d.lidar = RS32 -> RS32Msop(d, pkt)
    [] d.lidar = RSHELIOS -> RSHELIOSMsop(d, pkt)
    [] d.lidar = RS48 -> RS48Msop(d, pkt)
    [] d.lidar = RSP48 -> RSP48Msop(d, pkt)
    [] d.lidar = RS80 -> RS80Msop(d, pkt)
    [] d.lidar = RSP80 -> RSP80Msop(d, pkt)
    [] d.lidar = RSBP -> RSBPMsop(d, pkt)
    [] d.lidar = RS128 -> RS128Msop(d, pkt)
    [] d.lidar = RSP128 -> RSP128Msop(d, pkt)
    [] d.lidar = RSAIRY -> RSAIRYMsop(d, pkt)
    [] d.lidar = RSFAIRY -> RSFAIRYMsop(d, pkt)

isNewFrame(d, pkt) ==
  IF d.lidar \in {RSAIRY, RSFAIRY} THEN AiryNewFrame(d, pkt) ELSE preSplit(d, pkt)
=============================================================================
