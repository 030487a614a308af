----------------------------- MODULE MCChassis ------------------------------
(***************************************************************************)
(* The chassis driver and the CAN bridge, each on its own (DriveChain puts *)
(* them together): a behaviour is about one of them.                       *)
(***************************************************************************)
EXTENDS MCWtbCar, MCCanBridge

VARIABLE node
chassisVars == <<node, vars, bridgeVars>>

ChassisInit ==
  /\ node \in {"car", "bridge"}
  /\ Init /\ (node = "bridge" => side = "command")
  /\ BridgeInit /\ (node = "car" => dwRel = 0 /\ plugged /\ faults = 0)
ChassisNext ==
  \/ node = "car" /\ Next /\ UNCHANGED <<node, bridgeVars>>
  \/ node = "bridge" /\ BridgeNext /\ UNCHANGED <<node, vars>>
ChassisSpec == ChassisInit /\ [][ChassisNext]_chassisVars /\ (node = "bridge" => BridgeFairness)

\* Stated in CanBridge: after the last fault the bridge ends up polling an open
\* box with both channels running, unless it is stopped (receiveCanMsg, Init_Can).
BridgeRecovers == node = "bridge" => EventuallyRunning
=============================================================================
