------------------------ MODULE MCVehicleInterface ------------------------
(***************************************************************************)
(* A small vehicle interface: speeds and angles on both sides of the       *)
(* limits, a timeout that is not a multiple of the timer period, a topic   *)
(* short enough to overflow.                                               *)
(***************************************************************************)
EXTENDS VehicleInterface

MCSpeeds == {-2, 0, 1}
MCSteers == {0, 2}
===========================================================================
