--------------------------- MODULE CommandSilence ---------------------------
(***************************************************************************)
(* The vehicle interface with one history variable: silence, the time      *)
(* since a control command was last accepted.  The node's own clock,       *)
(* elapsed, is also reset by every accepted mode request; silence is not.  *)
(***************************************************************************)
EXTENDS VehicleInterface

VARIABLE silence

SilenceInit == Init /\ silence = 0

SilenceNext ==
  \/ \E v \in Speeds, a \in Steers :
       /\ onControlCmd(v, a)
       /\ silence' = IF isAutonomousControlMode THEN 0 ELSE silence
  \/ Tick /\ silence' = Older(silence)
  \/ /\ \/ \E g \in Gears : onGearCmd(g)
        \/ \E m \in Requests : onControlModeRequest(m)
        \/ onTimer
        \/ Deliver
     /\ UNCHANGED silence

SilenceSpec == SilenceInit /\ [][SilenceNext]_<<vars, silence>>

\* docs/Autoware启动排障与修复复盘.md:97, "after a control timeout the vehicle
\* stops": no moving command outlives the last accepted control command by more
\* than the timeout and one timer period.
SilenceStops == chassis_cmd.speed # 0 => silence <= Timeout + Period
=============================================================================
