------------------------------ MODULE MCLidars ------------------------------
(***************************************************************************)
(* The decoders of rs_driver and the parts of the lslidar driver, which    *)
(* share no state; a behaviour is about one of them.                       *)
(***************************************************************************)
EXTENDS MechDecoding, MemsDecoding, LslidarControl, LslidarSweep, LslidarPoints, LslidarStamp

VARIABLE family
lslidarVars == <<controlVars, sweepVars, pointVars, stampVars>>
vars == <<family, mechVars, memsVars, lslidarVars>>

Param(split, dense, clock, first, wait) ==
  [split_frame_mode |-> split, split_angle |-> 20, num_blks_split |-> 20,
   dense_points |-> dense, use_lidar_clock |-> clock, ts_first_point |-> first,
   wait_for_difop |-> wait, config_from_file |-> split = "custom", start_angle |-> 0, end_angle |-> Round,
   min_distance |-> 0, max_distance |-> 0]
Airy == {RSAIRY, RSFAIRY}
Setup(l, m, c, p, f) ==
  [lidar |-> l, mode |-> m, model |-> c, install |-> "side", param |-> p, faults |-> f]
OfDevice == Param("angle", FALSE, TRUE, TRUE, FALSE)
OfHost == Param("angle", TRUE, FALSE, FALSE, TRUE)
ByBlocks == Param("custom", FALSE, FALSE, FALSE, TRUE)
\* Changes are left to the lidars with longer packets, and to one of those that take
\* in a DIFOP alike; damage to all but RSAIRY: a packet that breaks off between the
\* two blocks of a column leaves half of it.
FaultsOf(l, p) ==
  CASE l \in Airy -> {"loss", "dark"}
    [] p = ByBlocks -> {"loss"}
    [] p = OfHost -> {"dark"}
    [] l.blocks < 8 \/ l \in {RSHELIOS_16P, RSHELIOS, RSBP} -> {"loss", "damage"}
    [] OTHER -> {"loss", "damage", "change"}
Models(l) == IF l \in Airy THEN {48, 96} ELSE {96}
SetupsWith(lidars, p) ==
  UNION {{Setup(l, m, c, p, FaultsOf(l, p)) : m \in {0, 3}, c \in Models(l)} : l \in lidars}
MCSetups ==
  SetupsWith(MechLidars, OfDevice) \cup SetupsWith(MechLidars, OfHost)
    \cup SetupsWith({RS16, RS128}, ByBlocks)
MCBlind == [from |-> 72, to |-> 90]

MCMemsParam == [dense_points |-> FALSE, use_lidar_clock |-> TRUE, ts_first_point |-> TRUE,
                wait_for_difop |-> TRUE, min_distance |-> 0, max_distance |-> 0]
MCMemsSetups ==
  {[lidar |-> l, mode |-> m, param |-> MCMemsParam, start |-> s, losses |-> n, disorder |-> FALSE] :
    l \in MemsLidars \ {RSM1_Jumbo}, m \in {0, 4}, s \in {1, 6}, n \in {0, 3}} \cup
  {[lidar |-> RSM1_Jumbo, mode |-> m, param |-> MCMemsParam, start |-> s, losses |-> n,
    disorder |-> FALSE] : m \in {0, 4}, s \in {1, 6}, n \in {0, 1}} \cup
  {[lidar |-> l, mode |-> 4, param |-> MCMemsParam, start |-> 1, losses |-> 1, disorder |-> TRUE] :
    l \in MemsLidars \ {RSEMX, RSM1_Jumbo}}

\* What a behaviour is not about stays as it begins.
AnyMech == CHOOSE s \in MCSetups : TRUE
AnyMems == CHOOSE s \in MCMemsSetups : TRUE
Families == {"mech", "mems", "control", "sweep", "points", "stamp"}
Init ==
  /\ family \in Families
  /\ IF family = "mech" THEN \E s \in Setups : \E rps \in IF s.param = OfDevice THEN Speeds ELSE {0} : MechStart(s, rps)
     ELSE MechStart(AnyMech, 0)
  /\ IF family = "mems" THEN \E s \in MemsSetups : MemsStart(s) ELSE MemsStart(AnyMems)
  /\ ControlInit
  /\ family # "control" => settings = [laser |-> FALSE, speed |-> 10, data |-> 1, dev |-> 2]
  /\ SweepInit
  /\ family # "sweep" => return_mode = 1 /\ next = Turn
  /\ StampInit
  /\ family # "stamp" => now = Parts + Skew
  /\ IF family = "points" THEN PointInit
     ELSE /\ ring_ = 16 /\ angle_disable_min = <<0, 0>> /\ angle_disable_max = <<0, 0>>
          /\ disableAngles = <<Cut(0, 0)>>
Next ==
  \/ /\ family = "mech" /\ MechNext
     /\ UNCHANGED <<family, memsVars, lslidarVars>>
  \/ /\ family = "mems" /\ MemsNext
     /\ UNCHANGED <<family, mechVars, lslidarVars>>
  \/ /\ family = "control" /\ ControlNext
     /\ UNCHANGED <<family, mechVars, memsVars, sweepVars, pointVars, stampVars>>
  \/ /\ family = "sweep" /\ SweepNext
     /\ UNCHANGED <<family, mechVars, memsVars, controlVars, pointVars, stampVars>>
  \/ /\ family = "points" /\ PointNext
     /\ UNCHANGED <<family, mechVars, memsVars, controlVars, sweepVars, stampVars>>
  \/ /\ family = "stamp" /\ StampPacket
     /\ UNCHANGED <<family, mechVars, memsVars, controlVars, sweepVars, pointVars>>
Spec == Init /\ [][Next]_vars /\ (family = "control" => ControlFairness)
=============================================================================
