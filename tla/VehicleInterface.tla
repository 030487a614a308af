-------------------------- MODULE VehicleInterface --------------------------
(***************************************************************************)
(* wtb_vehicle_interface: the node between Autoware and the chassis        *)
(* driver.  It accepts control commands only in an autonomous mode, clamps *)
(* them, and runs a 100 ms timer that commands a stop when no control      *)
(* command was accepted for command_timeout_sec.                           *)
(*                                                                         *)
(* rclcpp::spin runs one callback at a time, so every callback is one      *)
(* action.  Time passes in Tick; now() - last_control_time_ is the         *)
(* variable elapsed, saturated at Horizon, a value past which the code     *)
(* cannot tell two ages apart.                                             *)
(***************************************************************************)
EXTENDS Integers, Sequences, RosTopic

CONSTANTS
  MaxSpeed,         \* max_speed_, in model units
  MaxSteer,         \* max_steering_angle_, in model units
  Timeout,          \* command_timeout_sec_, in ticks
  Period,           \* the 100 ms of status_timer_, in ticks
  Depth,            \* history depth of the topics to the chassis driver
  Speeds, Steers    \* longitudinal velocities and tire angles Autoware sends

ASSUME LimitsAssumption == MaxSpeed \in Nat /\ MaxSteer \in Nat
ASSUME TimingAssumption == Timeout \in Nat /\ Period \in Nat \ {0}
ASSUME TopicAssumption == Depth \in Nat \ {0}
ASSUME InputAssumption == Speeds \subseteq Int /\ Steers \subseteq Int

AutonomousModes == {"AUTONOMOUS", "STEER_ONLY", "VELOCITY_ONLY"}
Modes == AutonomousModes \cup {"MANUAL"}
\* What a ControlModeCommand request may carry.
Requests == Modes \cup {"NO_COMMAND", "UNSUPPORTED"}
\* /run_static carries this node's "start" and other publishers' "stop".
RunMessages == {"start", "stop"}
Gears == {"DRIVE", "REVERSE", "PARK", "NEUTRAL"}

VARIABLES
  publish_twist_cmd,   \* publish_twist_cmd_, read once at construction
  current_gear, current_control_mode, latest_steering_angle,
  elapsed,       \* now() - last_control_time_
  since_timer,   \* time since status_timer_ last fired
  twist_cmd, cmd_vel, run_static,       \* topics to the chassis driver
  control_mode_report, response,        \* last report, last service response
  chassis_cmd    \* history: the last chassis command published, on either topic

nodeVars == <<publish_twist_cmd, current_gear, current_control_mode, latest_steering_angle>>
timeVars == <<elapsed, since_timer>>
chassisVars == <<twist_cmd, cmd_vel, chassis_cmd>>
vars == <<nodeVars, timeVars, chassisVars, run_static,
          control_mode_report, response>>

Command == [speed : Int, steer : Int]
Halt == [speed |-> 0, steer |-> 0]

Horizon == Timeout + Period + 1
\* Mutant: the lower limit is forgotten.
ClampAbove(x, bound) == IF x > bound THEN bound ELSE x
Clamp(x, bound) == IF x < -bound THEN -bound ELSE IF x > bound THEN bound ELSE x

\* An age one tick later.
Older(age) == IF age < Horizon THEN age + 1 ELSE age

isAutonomousControlMode == current_control_mode \in AutonomousModes

\* Mutant: a command that repeats the last one is not published again.
publishChangedCommand(cmd) ==
  /\ chassis_cmd' = cmd
  /\ IF cmd = chassis_cmd THEN UNCHANGED <<twist_cmd, cmd_vel>>
     ELSE IF publish_twist_cmd
     THEN twist_cmd' = Publish(twist_cmd, cmd, Depth) /\ UNCHANGED cmd_vel
     ELSE cmd_vel' = Publish(cmd_vel, cmd, Depth) /\ UNCHANGED twist_cmd
publishChassisCommand(cmd) ==
  /\ chassis_cmd' = cmd
  /\ IF publish_twist_cmd
     THEN twist_cmd' = Publish(twist_cmd, cmd, Depth) /\ UNCHANGED cmd_vel
     ELSE cmd_vel' = Publish(cmd_vel, cmd, Depth) /\ UNCHANGED twist_cmd

\* last_control_time_ = now().  Mutant: the time is never refreshed.
ForgetControlTime == UNCHANGED elapsed
StampControlTime == elapsed' = 0

\* Entering a mode: every mode but the autonomous ones starts with a stop.
\* Mutant: the test comes before the assignment and sees the mode left.
EnterModeTestedEarly(mode) ==
  IF isAutonomousControlMode
  THEN UNCHANGED chassisVars
  ELSE publishChassisCommand(Halt)
EnterMode(mode) ==
  IF mode \in AutonomousModes
  THEN UNCHANGED chassisVars
  ELSE publishChassisCommand(Halt)

-----------------------------------------------------------------------------
Init ==
  /\ publish_twist_cmd \in BOOLEAN
  /\ current_gear = "DRIVE"
  /\ current_control_mode = "MANUAL"
  /\ latest_steering_angle = 0
  /\ elapsed = 0 /\ since_timer = 0
  /\ twist_cmd = <<>> /\ cmd_vel = <<>> /\ run_static = <<>>
  /\ control_mode_report = "none"
  /\ response = "none"
  /\ chassis_cmd = Halt

onControlCmd(velocity, angle) ==
  IF isAutonomousControlMode
  THEN /\ StampControlTime
       /\ publishChassisCommand([speed |-> Clamp(velocity, MaxSpeed),
                                 steer |-> Clamp(angle, MaxSteer)])
       /\ UNCHANGED <<nodeVars, since_timer, run_static, control_mode_report,
                      response>>
  ELSE UNCHANGED vars

onGearCmd(gear) ==
  /\ current_gear' = gear
  /\ IF gear \in {"PARK", "NEUTRAL"}
     THEN publishChassisCommand(Halt)
     ELSE UNCHANGED chassisVars
  /\ UNCHANGED <<publish_twist_cmd, current_control_mode, latest_steering_angle,
                 timeVars, run_static, control_mode_report, response>>

onCarStatus(angle) ==
  /\ latest_steering_angle' = Clamp(angle, MaxSteer)
  /\ UNCHANGED <<publish_twist_cmd, current_gear, current_control_mode, timeVars,
                 chassisVars, run_static, control_mode_report, response>>

onControlModeRequest(mode) ==
  /\ \/ /\ mode \in Modes
        /\ current_control_mode' = mode
        /\ EnterMode(mode)
        /\ StampControlTime
        /\ response' = "success"
     \/ /\ mode = "NO_COMMAND"
        /\ response' = "success"
        /\ UNCHANGED <<current_control_mode, elapsed, chassisVars>>
     \/ /\ mode = "UNSUPPORTED"
        /\ response' = "failure"
        /\ UNCHANGED <<current_control_mode, elapsed, chassisVars>>
  /\ UNCHANGED <<publish_twist_cmd, current_gear, latest_steering_angle,
                 since_timer, run_static, control_mode_report>>

\* Mutants: the timeout noticed one tick, or one timer period, too late.
TimedOutOneLate == isAutonomousControlMode /\ elapsed > Timeout + 1
TimedOutPeriodLate == isAutonomousControlMode /\ elapsed > Timeout + Period
TimedOut == isAutonomousControlMode /\ elapsed > Timeout

\* The mode report of the timer.  Mutant: only autonomous modes are reported.
ReportAutonomousMode ==
  control_mode_report' =
    IF isAutonomousControlMode THEN current_control_mode ELSE control_mode_report
ReportMode == control_mode_report' = current_control_mode

onTimer ==
  /\ since_timer = Period
  /\ since_timer' = 0
  /\ IF TimedOut THEN publishChassisCommand(Halt) ELSE UNCHANGED chassisVars
  /\ ReportMode
  /\ run_static' = IF current_gear = "DRIVE"
                   THEN Publish(run_static, "start", Depth)
                   ELSE run_static
  /\ UNCHANGED <<nodeVars, elapsed, response>>

-----------------------------------------------------------------------------
\* The environment: the clock, and the middleware handing the oldest message
\* of a topic to the chassis driver.

Tick ==
  /\ since_timer < Period    \* the executor runs a due timer before time moves on
  /\ since_timer' = since_timer + 1
  /\ elapsed' = Older(elapsed)
  /\ UNCHANGED <<nodeVars, chassisVars, run_static, control_mode_report, response>>

Deliver ==
  /\ \/ /\ twist_cmd # <<>> /\ twist_cmd' = Tail(twist_cmd)
        /\ UNCHANGED <<cmd_vel, run_static>>
     \/ /\ cmd_vel # <<>> /\ cmd_vel' = Tail(cmd_vel)
        /\ UNCHANGED <<twist_cmd, run_static>>
     \/ /\ run_static # <<>> /\ run_static' = Tail(run_static)
        /\ UNCHANGED <<twist_cmd, cmd_vel>>
  /\ UNCHANGED <<nodeVars, timeVars, chassis_cmd, control_mode_report, response>>

Next ==
  \/ \E v \in Speeds, a \in Steers : onControlCmd(v, a)
  \/ \E g \in Gears : onGearCmd(g)
  \/ \E a \in Steers : onCarStatus(a)
  \/ \E m \in Requests : onControlModeRequest(m)
  \/ onTimer
  \/ Tick
  \/ Deliver

Spec == Init /\ [][Next]_vars
\* Time does not stop and the executor runs the timer when it is due.
FairSpec == Spec /\ WF_vars(Tick) /\ WF_vars(onTimer)

-----------------------------------------------------------------------------
\* The variables hold what their declarations in the node allow, and every
\* command on a topic or last published is within the limits of the vehicle.
Limited(cmd) == /\ -MaxSpeed <= cmd.speed /\ cmd.speed <= MaxSpeed
                /\ -MaxSteer <= cmd.steer /\ cmd.steer <= MaxSteer
LimitedCommand == {cmd \in Command : Limited(cmd)}

TypeOK ==
  /\ publish_twist_cmd \in BOOLEAN
  /\ current_gear \in Gears
  /\ current_control_mode \in Modes
  /\ latest_steering_angle \in -MaxSteer..MaxSteer
  /\ elapsed \in 0..Horizon
  /\ since_timer \in 0..Period
  /\ IsTopic(twist_cmd, LimitedCommand, Depth)
  /\ IsTopic(cmd_vel, LimitedCommand, Depth)
  /\ IsTopic(run_static, RunMessages, Depth)
  /\ control_mode_report \in Modes \cup {"none"}
  /\ response \in {"none", "success", "failure"}
  /\ chassis_cmd \in LimitedCommand

\* Outside the autonomous modes the chassis was last told to stand still:
\* leaving them publishes a stop, and no queued control command, gear change
\* or timer run that comes later undoes it.
ManualStandsStill == ~isAutonomousControlMode => chassis_cmd = Halt

\* The watchdog: in an autonomous mode a moving command is never older than
\* the timeout plus one timer period, whatever mixture of commands, mode
\* requests, gear changes and timer runs came before.
WatchdogBound ==
  isAutonomousControlMode /\ chassis_cmd.speed # 0 => elapsed <= Timeout + Period

\* Why the watchdog bound holds: a moving command older than the timeout is
\* tolerated only since the last timer run, which found it still fresh.
FreshUntilTimer ==
  isAutonomousControlMode /\ chassis_cmd.speed # 0 => elapsed <= Timeout + since_timer

\* The vehicle interface keeps the promise of a watchdog whose deadline is the
\* timeout plus one timer period: commands and mode requests feed it, leaving
\* the autonomous modes disarms it, the timer and the gear handler stop it.
Dog == INSTANCE Watchdog WITH
         Deadline <- Timeout + Period,
         armed <- isAutonomousControlMode,
         moving <- chassis_cmd.speed # 0,
         quiet <- IF elapsed <= Timeout + Period THEN elapsed ELSE Timeout + Period
KeepsWatchdog == Dog!Spec

\* docs/Autoware启动排障与修复复盘.md:97, "the mode stays trackable": a mode
\* that lasts is reported, also while the watchdog keeps stopping the vehicle.
ModeTracked ==
  \A m \in Modes : current_control_mode = m ~>
    (control_mode_report = m \/ current_control_mode # m)
=============================================================================
