----------------------------- MODULE DriveChain -----------------------------
(***************************************************************************)
(* The whole command path: Autoware -> wtb_vehicle_interface -> /twist_cmd *)
(* or /cmd_vel -> wtb_car_node -> can_rx_2 -> can_bridge -> chassis, plus  *)
(* whoever publishes "stop" on /run_static.  The nodes are separate        *)
(* processes: their callbacks and the deliveries between them interleave.  *)
(* Of the bridge only what CanBridge leaves visible is kept: a transmitted *)
(* frame arrives while the channel runs and is lost otherwise, and nobody  *)
(* sends it again.                                                         *)
(***************************************************************************)
EXTENDS Integers, Sequences, RosTopic

CONSTANTS
  MaxSpeed, MaxSteer, Timeout, Period, Depth, Speeds, Steers,  \* VehicleInterface
  StopTimeThreshold, AliveModulus, CanDepth,                   \* WtbCar
  DriveRequests, DriveGears,  \* the mode requests and gear commands that occur
  MaxControls, MaxRequests, MaxGears, MaxStops, MaxOutages     \* bounds of the inputs

ASSUME ChainAssumption ==
  /\ MaxSpeed \in Nat /\ MaxSteer \in Nat /\ Depth \in Nat \ {0}
  /\ CanDepth \in Nat \ {0} /\ AliveModulus \in Nat \ {0}
  /\ Speeds \subseteq Int /\ Steers \subseteq Int

CmdVels == {}      \* no second commander: Nav2 does not run beside Autoware
TwistCmds == {}

VARIABLES
  publish_twist_cmd, current_gear, current_control_mode, latest_steering_angle,
  elapsed, since_timer, twist_cmd, cmd_vel, run_static,
  control_mode_report, response, chassis_cmd,
  enable_run, since_stop, last_run_static_command, AliveCounter, can_rx, last_sent,
  last_topic,
  link_up,   \* channel 2 of the bridge runs
  chassis,   \* the control frame the chassis obeys
  used       \* how much of each bound on the inputs is used

VI == INSTANCE VehicleInterface
Car == INSTANCE WtbCar

viTimeVars == <<elapsed, since_timer>>
viTopics == <<twist_cmd, cmd_vel, run_static>>
viOtherVars == <<publish_twist_cmd, current_gear, current_control_mode,
                 latest_steering_angle, control_mode_report, response, chassis_cmd>>
viVars == <<viTimeVars, viTopics, viOtherVars>>
frameVars == <<AliveCounter, can_rx, last_sent, last_topic>>
carVars == <<enable_run, since_stop, last_run_static_command, frameVars>>
chainVars == <<viVars, carVars, link_up, chassis, used>>

ChainInit ==
  /\ VI!Init /\ Car!CarInit
  /\ link_up = TRUE
  /\ chassis = Car!NoFrame
  /\ used = [controls |-> 0, requests |-> 0, gears |-> 0, stops |-> 0, outages |-> 0]

\* One more input of a kind, within its bound.
Use(kind, bound) == used[kind] < bound /\ used' = [used EXCEPT ![kind] = @ + 1]

-----------------------------------------------------------------------------
\* Inputs of the vehicle interface.
ControlCmd ==
  /\ Use("controls", MaxControls)
  /\ \E v \in Speeds, a \in Steers : VI!onControlCmd(v, a)
  /\ UNCHANGED <<carVars, link_up, chassis>>

ModeRequest ==
  /\ Use("requests", MaxRequests)
  /\ \E m \in DriveRequests : VI!onControlModeRequest(m)
  /\ UNCHANGED <<carVars, link_up, chassis>>

GearCmd ==
  /\ Use("gears", MaxGears)
  /\ \E g \in DriveGears : VI!onGearCmd(g)
  /\ UNCHANGED <<carVars, link_up, chassis>>

Timer == VI!onTimer /\ UNCHANGED <<carVars, link_up, chassis, used>>

Tick ==
  /\ VI!Tick
  /\ since_stop' = Car!Aged(since_stop)
  /\ UNCHANGED <<enable_run, last_run_static_command, frameVars, link_up, chassis, used>>

\* Someone else publishes "stop" on the topic the interface sends "start" on.
ExternalStop ==
  /\ Use("stops", MaxStops)
  /\ run_static' = Publish(run_static, "stop", Depth)
  /\ UNCHANGED <<viTimeVars, twist_cmd, cmd_vel, viOtherVars, carVars, link_up, chassis>>

-----------------------------------------------------------------------------
\* wtb_car_node takes a message and runs its callback.
carStepUnchanged == <<viTimeVars, viOtherVars, link_up, chassis, used>>

TakeTwistCmd ==
  /\ twist_cmd # <<>> /\ twist_cmd' = Tail(twist_cmd)
  /\ Car!TwistCmdVelCallback(Head(twist_cmd))
  /\ UNCHANGED <<cmd_vel, run_static, carStepUnchanged>>

TakeCmdVel ==
  /\ cmd_vel # <<>> /\ cmd_vel' = Tail(cmd_vel)
  /\ Car!CmdVelCallback(Head(cmd_vel))
  /\ UNCHANGED <<twist_cmd, run_static, carStepUnchanged>>

TakeRunStatic ==
  /\ run_static # <<>> /\ run_static' = Tail(run_static)
  /\ Car!run_static_callback(Head(run_static))
  /\ UNCHANGED <<twist_cmd, cmd_vel, carStepUnchanged>>

\* The bridge transmits the oldest frame; the chassis obeys it if it arrives.
BridgeStep ==
  /\ Car!TakeFrame
  /\ chassis' = IF link_up THEN Head(can_rx) ELSE chassis
  /\ UNCHANGED <<viVars, link_up, used>>

\* The channel goes down, and comes up again when Init_Can has run.
LinkDown == /\ link_up /\ link_up' = FALSE /\ Use("outages", MaxOutages)
            /\ UNCHANGED <<viVars, carVars, chassis>>
LinkUp == ~link_up /\ link_up' = TRUE /\ UNCHANGED <<viVars, carVars, chassis, used>>

ChainNext == \/ ControlCmd \/ ModeRequest \/ GearCmd \/ Timer \/ Tick \/ ExternalStop
             \/ TakeTwistCmd \/ TakeCmdVel \/ TakeRunStatic
             \/ BridgeStep \/ LinkDown \/ LinkUp

ChainSpec == ChainInit /\ [][ChainNext]_chainVars
\* Every process keeps running, its executor serves every topic in turn, time
\* passes, and the bridge comes back.
ChainFairness == /\ WF_chainVars(Timer) /\ WF_chainVars(Tick)
                 /\ WF_chainVars(TakeTwistCmd) /\ WF_chainVars(TakeCmdVel)
                 /\ WF_chainVars(TakeRunStatic)
                 /\ WF_chainVars(BridgeStep) /\ WF_chainVars(LinkUp)
FairChainSpec == ChainSpec /\ ChainFairness

-----------------------------------------------------------------------------
\* No stale motion: when nothing is on its way and no frame was lost, a chassis
\* whose interface last said halt stands still, however commands, stops, starts
\* and dropped messages were interleaved on the way.
Drained == twist_cmd = <<>> /\ cmd_vel = <<>> /\ can_rx = <<>>
HaltReachesChassis ==
  Drained /\ used.outages = 0 /\ chassis_cmd.speed = 0 => chassis.speed = 0

\* The inputs are bounded, so the commander falls silent for good.  If the mode
\* then stays autonomous, the watchdog repeats its stop until a frame gets
\* through, outages of the bridge or not.  Leaving the autonomous modes sends a
\* single stop, which reaches the chassis as long as no outage swallows it.
\* Either way the chassis comes to rest (onTimer, onControlModeRequest).
AutonomousComesToRest ==
  <>[](VI!isAutonomousControlMode) => <>[](chassis.speed = 0)
ManualComesToRest ==
  <>[](~VI!isAutonomousControlMode /\ used.outages = 0) => <>[](chassis.speed = 0)
ComesToRest == AutonomousComesToRest /\ ManualComesToRest
=============================================================================
