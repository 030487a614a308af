------------------------------- MODULE WtbCar -------------------------------
(***************************************************************************)
(* wtb_car_node, command side: velocity commands arrive on /cmd_vel (Nav2) *)
(* and /twist_cmd (Autoware) and leave as bursts of three CAN frames on    *)
(* can_rx_2; "start" and "stop" on /run_static open and close a gate.      *)
(*                                                                         *)
(* The executor has many threads, but all subscriptions are in the node's  *)
(* default, mutually exclusive callback group: one callback at a time, so  *)
(* one action per callback.  Speeds are in mm/s and angles in 0.01 degree, *)
(* the units of the CAN frame.  now() - enable_last_time is the variable   *)
(* since_stop, saturated just past stop_time_threshold.                    *)
(***************************************************************************)
EXTENDS Integers, Sequences, RosTopic

CONSTANTS
  MaxSpeed,            \* max_speed_
  StopTimeThreshold,   \* stop_time_threshold, in ticks; negative: never resume
  AliveModulus,        \* 16: AliveCounter rolls over in four bits
  CanDepth,            \* history depth of can_rx_2 at the bridge
  CmdVels, TwistCmds   \* commands arriving on the two topics

ASSUME CarAssumption == MaxSpeed \in Nat /\ StopTimeThreshold \in Int
ASSUME CanAssumption == CanDepth \in Nat \ {0} /\ AliveModulus \in Nat \ {0}
Command == [speed : Int, steer : Int]
ASSUME CommandAssumption == CmdVels \subseteq Command /\ TwistCmds \subseteq Command

VARIABLES
  enable_run,               \* enable_run_
  since_stop,               \* now() - enable_last_time, Unset before any stop
  last_run_static_command,  \* last_run_static_command_
  AliveCounter,
  can_rx,                   \* topic can_rx_2 towards the bridge
  last_sent,                \* history: the last frame published on can_rx
  last_topic                \* history: the topic whose message it answers

gateVars == <<enable_run, since_stop, last_run_static_command>>
frameVars == <<AliveCounter, can_rx, last_sent, last_topic>>
carVars == <<gateVars, frameVars>>

Unset == -1
LongAgo == IF StopTimeThreshold >= 0 THEN StopTimeThreshold + 1 ELSE 1
RunCommands == {"start", "stop", "other"}

\* The control frame 0x18C4D2D0 as the chassis decodes it: gear nibble, two
\* 16-bit signals and a 4-bit rolling counter.
Word == 0..65535
Counter == 0..AliveModulus - 1
Frame == [gear : {"D", "R"}, speed : Word, angle : Word, alive : Counter]
NoFrame == [gear |-> "D", speed |-> 0, angle |-> 0, alive |-> AliveModulus - 1]

\* int Angle = angle * 180 / M_PI: truncation towards zero to whole degrees.
WholeDegrees(angle) == IF angle < 0 THEN -((-angle) \div 100) ELSE angle \div 100

\* A signal in sixteen bits: negative integers leave as two's complement.
Signal(n) == n % 65536

\* The rolling counter n frames later.
\* Mutants: no wrap to four bits; one step for a whole burst.
RolledWide(n) == AliveCounter + n
RolledPerBurst(n) == (AliveCounter + n \div 3) % AliveModulus
Rolled(n) == (AliveCounter + n) % AliveModulus

\* The signals of one frame.
BuildCtrlCmdData(gear, speed, degrees, alive) ==
  [gear |-> gear, speed |-> Signal(speed), angle |-> Signal(degrees * 100), alive |-> alive]

\* Three frames of the same command, each with the next rolling counter, sent
\* in answer to a message on a topic.
SendSpeedToAKM(cmd, topic) ==
  LET back == cmd.speed < 0
      degrees == WholeDegrees(cmd.steer)
      frame(i) == BuildCtrlCmdData(IF back THEN "R" ELSE "D",
                                   IF back THEN -cmd.speed ELSE cmd.speed,
                                   IF back THEN -degrees ELSE degrees,
                                   Rolled(i))
  IN  /\ can_rx' = Publish(Publish(Publish(can_rx, frame(0), CanDepth),
                                   frame(1), CanDepth), frame(2), CanDepth)
      /\ AliveCounter' = Rolled(3)
      /\ last_sent' = frame(2)
      /\ last_topic' = topic

\* The limit both velocity callbacks apply before sending.
Limit(cmd) == IF cmd.speed > MaxSpeed THEN [cmd EXCEPT !.speed = MaxSpeed] ELSE cmd

-----------------------------------------------------------------------------
CarInit ==
  /\ enable_run = TRUE
  /\ since_stop = Unset
  /\ last_run_static_command = ""
  /\ AliveCounter = 0
  /\ can_rx = <<>>
  /\ last_sent = NoFrame
  /\ last_topic = "none"

\* A closed gate reopens by itself after the threshold, on the next command.
StopExpired == StopTimeThreshold >= 0 /\ since_stop > StopTimeThreshold

\* Whether a velocity command may pass.  Mutant: one tick before the threshold.
MayRunEarly == enable_run \/ (StopTimeThreshold >= 0 /\ since_stop >= StopTimeThreshold)
MayRun == enable_run \/ StopExpired

CmdVelCallback(cmd) ==
  IF MayRun
  THEN /\ enable_run' = TRUE
       /\ SendSpeedToAKM(Limit(cmd), "cmd_vel")
       /\ UNCHANGED <<since_stop, last_run_static_command>>
  ELSE UNCHANGED carVars

TwistCmdVelCallback(cmd) ==
  /\ SendSpeedToAKM(Limit(cmd), "twist_cmd")
  /\ UNCHANGED gateVars

\* Mutant: stop closes the gate but sends nothing.
stopSilently == UNCHANGED frameVars
stop == SendSpeedToAKM([speed |-> 0, steer |-> 0], "run_static")

\* enable_last_time = now().  Mutant: recorded only when already stopped.
RecordRepeatedStop == since_stop' = IF enable_run THEN since_stop ELSE 0
RecordStop == since_stop' = 0

run_static_callback(data) ==
  IF data = last_run_static_command
  THEN UNCHANGED carVars
  ELSE /\ last_run_static_command' = data
       /\ \/ /\ data = "start"
             /\ enable_run' = TRUE
             /\ UNCHANGED <<since_stop, frameVars>>
          \/ /\ data = "stop"
             /\ RecordStop
             /\ enable_run' = FALSE
             /\ IF enable_run THEN stop ELSE UNCHANGED frameVars
          \/ /\ data = "other"
             /\ UNCHANGED <<since_stop, enable_run, frameVars>>

\* Time passes.
Aged(age) == IF age = Unset \/ age = LongAgo THEN age ELSE age + 1
CarTick == since_stop' = Aged(since_stop) /\ UNCHANGED <<enable_run,
             last_run_static_command, frameVars>>

\* The middleware hands the oldest frame to the bridge.
TakeFrame == can_rx # <<>> /\ can_rx' = Tail(can_rx)
             /\ UNCHANGED <<gateVars, AliveCounter, last_sent, last_topic>>

CarNext ==
  \/ \E cmd \in CmdVels : CmdVelCallback(cmd)
  \/ \E cmd \in TwistCmds : TwistCmdVelCallback(cmd)
  \/ \E data \in RunCommands : run_static_callback(data)
  \/ CarTick
  \/ TakeFrame

CarSpec == CarInit /\ [][CarNext]_carVars

-----------------------------------------------------------------------------
\* The node's variables have the types they are declared with, and frames fit
\* the fields of the CAN protocol.
CarTypeOK ==
  /\ enable_run \in BOOLEAN
  /\ since_stop \in {Unset} \cup 0..LongAgo
  /\ last_run_static_command \in {""} \cup RunCommands
  /\ AliveCounter \in Counter
  /\ IsTopic(can_rx, Frame, CanDepth)
  /\ last_sent \in Frame
  /\ last_topic \in {"none", "cmd_vel", "twist_cmd", "run_static"}

\* A closed gate was closed by a stop whose time was recorded (the callback
\* would otherwise subtract an unset rclcpp::Time), and it is never the
\* duplicate filter that keeps it closed: the next "start" always gets through.
GateClosedByStop ==
  ~enable_run => since_stop # Unset /\ last_run_static_command # "start"

\* The gate reopens on "start" or, for a command, once the threshold has passed.
ReopensForAReason ==
  [][~enable_run /\ enable_run' =>
       last_run_static_command' = "start" \/ StopExpired]_carVars

\* Whatever was commanded and dropped before, a closed gate was closed by a stop
\* that was sent as well, and only a command on /twist_cmd follows it.
ClosedGateHolds == ~enable_run /\ last_topic # "twist_cmd" => last_sent.speed = 0

\* wtb_car.cpp:694, "whether it may be controlled": with the gate closed the
\* last command on the way to the chassis is the stop.
ClosedGateStandsStill == ~enable_run => last_sent.speed = 0

\* The chassis can trust the rolling counter: the frames waiting for the bridge
\* are consecutive, and the newest of them, whatever the bounded history
\* dropped, is the newest frame that was sent.
Consecutive(f, g) == g.alive = (f.alive + 1) % AliveModulus
PendingFramesConsecutive ==
  /\ \A i \in 1..Len(can_rx) - 1 : Consecutive(can_rx[i], can_rx[i + 1])
  /\ can_rx # <<>> => can_rx[Len(can_rx)] = last_sent
  /\ AliveCounter = (last_sent.alive + 1) % AliveModulus
=============================================================================
