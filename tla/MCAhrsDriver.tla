---------------------------- MODULE MCAhrsDriver ----------------------------
(***************************************************************************)
(* One fault among parsed and skipped frames; two faults among IMU and     *)
(* AHRS frames, the second one also in the recovery from the first, where  *)
(* it may start a skip over several frames; and one with short skips.      *)
(***************************************************************************)
EXTENDS AhrsDriver

AllSent == {TYPE_IMU, TYPE_AHRS, TYPE_INSGPS, TYPE_GROUND}
Lengths == (TYPE_IMU :> 2) @@ (TYPE_AHRS :> 1) @@ (TYPE_INSGPS :> 3) @@ (TYPE_GEODETIC_POS :> 4)
\* A reading with a byte like a length that skips far, and one like the first
\* of a frame; another one that it can be mixed up with.
Confusing == <<<<Unnamed>>, <<FRAME_HEAD>>>>
Plain == <<<<1>>, <<2>>>>
Ahrs == TYPE_AHRS :> {<<<<4>>>>}
Others == (TYPE_INSGPS :> {<<<<5>>, <<5>>, <<6>>>>}) @@ (TYPE_GROUND :> {<<<<7>>>>})
NoiseBytes == {FRAME_HEAD, TYPE_GROUND, Unnamed}

OneFault == [readings |-> (TYPE_IMU :> {Plain, Confusing}) @@ Others,
             longestSkip |-> 12, maxFaults |-> 1, backlog |-> 3]
TwoFaults == [readings |-> (TYPE_IMU :> {Confusing}) @@ Ahrs,
              longestSkip |-> 36, maxFaults |-> 2, backlog |-> 2]
ImuAndAhrs == [readings |-> (TYPE_IMU :> {Plain, Confusing}) @@ Ahrs,
               longestSkip |-> 12, maxFaults |-> 1, backlog |-> 2]
MCSetups == {OneFault, TwoFaults, ImuAndAhrs}
JustImuAndAhrs == {ImuAndAhrs}
=============================================================================
