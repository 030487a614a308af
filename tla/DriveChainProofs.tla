-------------------------- MODULE DriveChainProofs --------------------------
(***************************************************************************)
(* A halt is not overtaken on its way to the chassis, for every depth of   *)
(* the topics, every threshold of the gate and any number of commands,     *)
(* mode requests, gear changes and stops from outside.                     *)
(***************************************************************************)
EXTENDS DriveChain, Lemmas

Commands == [speed : Int, steer : Int]
Frames == [gear : {"D", "R"}, speed : Int, angle : Int, alive : Int]
Inputs == {"controls", "requests", "gears", "stops", "outages"}

\* The message of a topic that was published last.
Newest(topic) == topic[Len(topic)]

CommandTypes ==
  /\ IsTopic(twist_cmd, Commands, Depth) /\ IsTopic(cmd_vel, Commands, Depth)
  /\ chassis_cmd \in Commands

FrameTypes ==
  /\ IsTopic(can_rx, Frames, CanDepth) /\ last_sent \in Frames
  /\ AliveCounter \in Int

\* The interface publishes on one of the two topics only.
OneTopic ==
  /\ publish_twist_cmd => cmd_vel = <<>>
  /\ ~publish_twist_cmd => twist_cmd = <<>> /\ last_topic # "twist_cmd"

\* The command published last is the newest one on its way.
CommandOnItsWay ==
  /\ twist_cmd # <<>> => Newest(twist_cmd) = chassis_cmd
  /\ cmd_vel # <<>> => Newest(cmd_vel) = chassis_cmd

\* A halt that is no longer on its way has made the driver send a stop, or the
\* gate was closed already, by a stop.
HaltSent ==
  twist_cmd = <<>> /\ cmd_vel = <<>> /\ chassis_cmd.speed = 0 => last_sent.speed = 0

\* So is the frame sent last, which the chassis obeys once it has arrived.
FrameOnItsWay ==
  /\ can_rx # <<>> => Newest(can_rx) = last_sent
  /\ can_rx = <<>> /\ used.outages = 0 => chassis = last_sent

LinkCounted == used \in [Inputs -> Nat] /\ (used.outages = 0 => link_up)

CommandInv == CommandTypes /\ OneTopic /\ CommandOnItsWay
FrameInv == FrameTypes /\ FrameOnItsWay /\ LinkCounted
ChainInv == CommandInv /\ FrameInv /\ HaltSent /\ Car!ClosedGateHolds

-----------------------------------------------------------------------------
\* The instances publish as the topic does.
LEMMA SamePublish ==
  ASSUME NEW topic, NEW m, NEW depth
  PROVE  /\ VI!Publish(topic, m, depth) = Publish(topic, m, depth)
         /\ Car!Publish(topic, m, depth) = Publish(topic, m, depth)
BY DEF VI!Publish, Car!Publish, Publish

\* What publishing leaves of a topic that carries a message of M.
LEMMA Published ==
  ASSUME NEW M, NEW m \in M, NEW depth \in Nat \ {0}, NEW topic, IsTopic(topic, M, depth)
  PROVE  LET longer == Publish(topic, m, depth)
         IN  IsTopic(longer, M, depth) /\ longer # <<>> /\ Newest(longer) = m
BY PublishKeepsTopic, PublishKeepsNewest DEF Newest

\* What taking a message leaves: the newest stays, if the topic is not empty.
LEMMA Taken ==
  ASSUME NEW M, NEW depth \in Nat \ {0}, NEW topic, IsTopic(topic, M, depth), topic # <<>>
  PROVE  /\ IsTopic(Tail(topic), M, depth) /\ Head(topic) \in M
         /\ Tail(topic) # <<>> => Newest(Tail(topic)) = Newest(topic)
         /\ Tail(topic) = <<>> => Newest(topic) = Head(topic)
<1>1. topic \in Seq(M)
  BY DEF IsTopic
<1>2. Tail(topic) \in Seq(M) /\ Len(Tail(topic)) = Len(topic) - 1 /\ Head(topic) \in M
  BY <1>1
<1>3. Tail(topic) # <<>> => Newest(Tail(topic)) = Newest(topic)
  <2> SUFFICES ASSUME Tail(topic) # <<>> PROVE Newest(Tail(topic)) = Newest(topic)
    OBVIOUS
  <2>1. Len(Tail(topic)) \in 1..Len(topic) - 1
    BY <1>1, <1>2
  <2>2. Tail(topic)[Len(Tail(topic))] = topic[Len(Tail(topic)) + 1]
    BY <1>1, <2>1
  <2>3. QED  BY <1>2, <2>2 DEF Newest
<1>4. Tail(topic) = <<>> => Newest(topic) = Head(topic)
  <2> SUFFICES ASSUME Tail(topic) = <<>> PROVE Newest(topic) = Head(topic)
    OBVIOUS
  <2>1. Len(Tail(topic)) = 0
    <3>1. Len(<<>>) = 0
      OBVIOUS
    <3> DEFINE rest == Tail(topic)
    <3>2. rest = <<>>
      OBVIOUS
    <3> HIDE DEF rest
    <3>3. Len(rest) = 0
      BY <3>1, <3>2, Zenon
    <3>4. QED  BY <3>3 DEF rest
  <2>2. Len(topic) = 1
    <3>1. Len(topic) \in Nat
      BY <1>1
    <3>2. QED  BY <1>2, <2>1, <3>1
  <2>3. Head(topic) = topic[1]
    BY <1>1
  <2>4. QED  BY <2>2, <2>3 DEF Newest
<1>5. IsTopic(Tail(topic), M, depth)
  BY TailKeepsTopic
<1>6. QED  BY <1>2, <1>3, <1>4, <1>5

-----------------------------------------------------------------------------
\* A command that the interface publishes becomes the newest on its way.
LEMMA PublishKeepsCommands ==
  ASSUME CommandInv, NEW cmd \in Commands, VI!publishChassisCommand(cmd),
         publish_twist_cmd' = publish_twist_cmd, last_topic' = last_topic
  PROVE  CommandInv' /\ HaltSent'
<1>1. Depth \in Nat \ {0}
  BY ChainAssumption
<1>2. chassis_cmd' = cmd
  BY DEF VI!publishChassisCommand
<1>3. CASE publish_twist_cmd
  <2>1. twist_cmd' = Publish(twist_cmd, cmd, Depth) /\ cmd_vel' = cmd_vel /\ cmd_vel = <<>>
    BY <1>3, SamePublish DEF VI!publishChassisCommand, CommandInv, OneTopic
  <2>2. IsTopic(twist_cmd', Commands, Depth) /\ twist_cmd' # <<>> /\ Newest(twist_cmd') = cmd
    BY <1>1, <2>1, Published DEF CommandInv, CommandTypes
  <2>3. CommandTypes' /\ CommandOnItsWay'
    BY <1>2, <2>1, <2>2 DEF CommandInv, CommandTypes, CommandOnItsWay
  <2>4. OneTopic' /\ HaltSent'
    BY <1>3, <2>1, <2>2 DEF OneTopic, HaltSent
  <2>5. QED  BY <2>3, <2>4 DEF CommandInv
<1>4. CASE ~publish_twist_cmd
  <2>1. /\ cmd_vel' = Publish(cmd_vel, cmd, Depth) /\ twist_cmd' = twist_cmd
        /\ twist_cmd = <<>> /\ last_topic # "twist_cmd"
    BY <1>4, SamePublish DEF VI!publishChassisCommand, CommandInv, OneTopic
  <2>2. IsTopic(cmd_vel', Commands, Depth) /\ cmd_vel' # <<>> /\ Newest(cmd_vel') = cmd
    BY <1>1, <2>1, Published DEF CommandInv, CommandTypes
  <2>3. CommandTypes' /\ CommandOnItsWay'
    BY <1>2, <2>1, <2>2 DEF CommandInv, CommandTypes, CommandOnItsWay
  <2>4. OneTopic' /\ HaltSent'
    BY <1>4, <2>1, <2>2 DEF OneTopic, HaltSent
  <2>5. QED  BY <2>3, <2>4 DEF CommandInv
<1>5. QED  BY <1>3, <1>4

\* Commands within limits are commands, and so is the halt.
LEMMA ClampedCommand ==
  ASSUME NEW v \in Int, NEW a \in Int
  PROVE  /\ [speed |-> VI!Clamp(v, MaxSpeed), steer |-> VI!Clamp(a, MaxSteer)] \in Commands
         /\ VI!Halt \in Commands
<1>1. VI!Clamp(v, MaxSpeed) \in Int /\ VI!Clamp(a, MaxSteer) \in Int
  BY ChainAssumption DEF VI!Clamp
<1>2. QED  BY <1>1 DEF Commands, VI!Halt

\* One more input of another kind than an outage.
LEMMA UseKeepsLink ==
  ASSUME LinkCounted, NEW kind \in Inputs \ {"outages"}, NEW bound, Use(kind, bound),
         link_up' = link_up
  PROVE  LinkCounted' /\ used'.outages = used.outages
BY DEF LinkCounted, Use, Inputs

\* The interface's callbacks leave the driver alone.
LEMMA InterfaceKeeps ==
  ASSUME ChainInv, ControlCmd \/ ModeRequest \/ GearCmd \/ Timer \/ Tick \/ ExternalStop
  PROVE  ChainInv'
<1>1. /\ UNCHANGED <<AliveCounter, can_rx, last_sent, last_topic, enable_run, chassis, link_up>>
      /\ publish_twist_cmd' = publish_twist_cmd
  BY DEF ControlCmd, ModeRequest, GearCmd, Timer, Tick, ExternalStop, carVars, frameVars,
         viOtherVars, VI!onControlCmd, VI!onControlModeRequest, VI!onGearCmd, VI!onTimer,
         VI!Tick, VI!nodeVars, VI!vars
<1>2. LinkCounted' /\ used'.outages = used.outages
  <2>1. CASE Timer \/ Tick
    BY <2>1, <1>1 DEF Timer, Tick, ChainInv, FrameInv, LinkCounted
  <2>2. CASE ControlCmd \/ ModeRequest \/ GearCmd \/ ExternalStop
    <3>1. PICK kind \in Inputs \ {"outages"} : \E bound : Use(kind, bound)
      BY <2>2 DEF ControlCmd, ModeRequest, GearCmd, ExternalStop, Inputs
    <3>2. QED  BY <1>1, <3>1, UseKeepsLink DEF ChainInv, FrameInv
  <2>3. QED  BY <2>1, <2>2
<1>3. FrameInv' /\ Car!ClosedGateHolds'
  BY <1>1, <1>2 DEF ChainInv, FrameInv, FrameTypes, FrameOnItsWay, Car!ClosedGateHolds
<1>4. \/ \E cmd \in Commands : VI!publishChassisCommand(cmd)
      \/ UNCHANGED <<twist_cmd, cmd_vel, chassis_cmd>>
  <2>1. VI!Halt \in Commands
    BY DEF Commands, VI!Halt
  <2>2. CASE ControlCmd
    <3>1. PICK v \in Speeds, a \in Steers : VI!onControlCmd(v, a)
      BY <2>2 DEF ControlCmd
    <3>2. v \in Int /\ a \in Int
      BY ChainAssumption
    <3>3. QED  BY <3>1, <3>2, ClampedCommand DEF VI!onControlCmd, VI!vars, VI!chassisVars
  <2>3. CASE ModeRequest \/ GearCmd \/ Timer
    BY <2>1, <2>3 DEF ModeRequest, GearCmd, Timer, VI!onControlModeRequest, VI!EnterMode,
                      VI!onGearCmd, VI!onTimer, VI!chassisVars
  <2>4. CASE Tick \/ ExternalStop
    BY <2>4 DEF Tick, ExternalStop, VI!Tick, VI!chassisVars, viOtherVars
  <2>5. QED  BY <2>2, <2>3, <2>4
<1>5. CommandInv' /\ HaltSent'
  <2>1. CASE UNCHANGED <<twist_cmd, cmd_vel, chassis_cmd>>
    BY <1>1, <2>1 DEF ChainInv, CommandInv, CommandTypes, OneTopic, CommandOnItsWay, HaltSent
  <2>2. ASSUME NEW cmd \in Commands, VI!publishChassisCommand(cmd)
        PROVE  CommandInv' /\ HaltSent'
    BY <1>1, <2>2, PublishKeepsCommands DEF ChainInv
  <2>3. QED  BY <1>4, <2>1, <2>2
<1>6. QED  BY <1>3, <1>5 DEF ChainInv

-----------------------------------------------------------------------------
\* A frame's signals are numbers, and the stop's speed is zero.
LEMMA FrameBuilt ==
  ASSUME NEW gear \in {"D", "R"}, NEW speed \in Int, NEW degrees \in Int, NEW alive \in Int
  PROVE  LET f == Car!BuildCtrlCmdData(gear, speed, degrees, alive)
         IN  f \in Frames /\ (speed = 0 => f.speed = 0)
<1>1. Car!Signal(speed) \in Int /\ Car!Signal(degrees * 100) \in Int
      /\ (speed = 0 => Car!Signal(speed) = 0)
  BY DEF Car!Signal
<1>2. QED  BY <1>1 DEF Car!BuildCtrlCmdData, Frames

\* A burst ends in the frame sent last, which stops the chassis if the command did.
LEMMA SendKeepsFrames ==
  ASSUME FrameTypes, NEW cmd \in Commands, NEW topic, Car!SendSpeedToAKM(cmd, topic)
  PROVE  /\ FrameTypes' /\ can_rx' # <<>> /\ Newest(can_rx') = last_sent'
         /\ last_topic' = topic /\ (cmd.speed = 0 => last_sent'.speed = 0)
<1> DEFINE back == cmd.speed < 0
           degrees == Car!WholeDegrees(cmd.steer)
           frame(i) == Car!BuildCtrlCmdData(IF back THEN "R" ELSE "D",
                                            IF back THEN -cmd.speed ELSE cmd.speed,
                                            IF back THEN -degrees ELSE degrees,
                                            Car!Rolled(i))
<1>1. cmd.speed \in Int /\ cmd.steer \in Int
  BY DEF Commands
<1>2. degrees \in Int
  <2>1. CASE cmd.steer < 0
    BY <1>1, <2>1 DEF Car!WholeDegrees
  <2>2. CASE ~(cmd.steer < 0)
    BY <1>1, <2>2 DEF Car!WholeDegrees
  <2>3. QED  BY <2>1, <2>2
<1>3. ASSUME NEW i \in Nat
      PROVE  frame(i) \in Frames /\ (cmd.speed = 0 => frame(i).speed = 0)
  <2>1. Car!Rolled(i) \in Int
    <3>1. AliveCounter + i \in Int /\ AliveModulus \in Nat \ {0}
      BY ChainAssumption DEF FrameTypes
    <3>2. QED  BY <3>1, DivMod DEF Car!Rolled
  <2> HIDE DEF degrees
  <2>2. CASE back
    BY <1>1, <1>2, <2>1, <2>2, FrameBuilt
  <2>3. CASE ~back
    BY <1>1, <1>2, <2>1, <2>3, FrameBuilt
  <2>4. QED  BY <2>2, <2>3
<1>4. /\ can_rx' = Publish(Publish(Publish(can_rx, frame(0), CanDepth),
                                   frame(1), CanDepth), frame(2), CanDepth)
      /\ AliveCounter' = Car!Rolled(3) /\ last_sent' = frame(2) /\ last_topic' = topic
  BY SamePublish DEF Car!SendSpeedToAKM
<1>5. frame(0) \in Frames /\ frame(1) \in Frames /\ frame(2) \in Frames
      /\ (cmd.speed = 0 => frame(2).speed = 0)
  BY <1>3
<1>6. AliveCounter' \in Int
  <2>1. AliveCounter + 3 \in Int /\ AliveModulus \in Nat \ {0}
    BY ChainAssumption DEF FrameTypes
  <2>2. QED  BY <1>4, <2>1, DivMod DEF Car!Rolled
<1> HIDE DEF frame
<1>7. CanDepth \in Nat \ {0}
  BY ChainAssumption
<1>8. IsTopic(Publish(can_rx, frame(0), CanDepth), Frames, CanDepth)
  BY <1>5, <1>7, Published DEF FrameTypes
<1>9. IsTopic(Publish(Publish(can_rx, frame(0), CanDepth), frame(1), CanDepth), Frames, CanDepth)
  BY <1>5, <1>7, <1>8, Published
<1>10. IsTopic(can_rx', Frames, CanDepth) /\ can_rx' # <<>> /\ Newest(can_rx') = frame(2)
  BY <1>4, <1>5, <1>7, <1>9, Published
<1>11. QED  BY <1>4, <1>5, <1>6, <1>10 DEF FrameTypes

\* A command that is taken leaves its topic and keeps it in order.
LEMMA TakeKeepsCommands ==
  ASSUME CommandInv, UNCHANGED <<publish_twist_cmd, chassis_cmd>>,
         \/ twist_cmd # <<>> /\ twist_cmd' = Tail(twist_cmd) /\ cmd_vel' = cmd_vel
            /\ last_topic' = "twist_cmd"
         \/ cmd_vel # <<>> /\ cmd_vel' = Tail(cmd_vel) /\ twist_cmd' = twist_cmd
            /\ last_topic' \in {last_topic, "cmd_vel"}
  PROVE  /\ CommandInv'
         /\ twist_cmd' = <<>> /\ cmd_vel' = <<>> =>
              chassis_cmd = IF twist_cmd # <<>> THEN Head(twist_cmd) ELSE Head(cmd_vel)
<1>1. Depth \in Nat \ {0}
  BY ChainAssumption
<1>2. CASE twist_cmd # <<>> /\ twist_cmd' = Tail(twist_cmd) /\ cmd_vel' = cmd_vel
           /\ last_topic' = "twist_cmd"
  <2>1. publish_twist_cmd /\ cmd_vel = <<>>
    BY <1>2 DEF CommandInv, OneTopic
  <2>2. /\ IsTopic(twist_cmd', Commands, Depth)
        /\ twist_cmd' # <<>> => Newest(twist_cmd') = Newest(twist_cmd)
        /\ twist_cmd' = <<>> => Newest(twist_cmd) = Head(twist_cmd)
    BY <1>1, <1>2, Taken DEF CommandInv, CommandTypes
  <2>3. Newest(twist_cmd) = chassis_cmd
    BY <1>2 DEF CommandInv, CommandOnItsWay
  <2>4. CommandTypes' /\ CommandOnItsWay'
    BY <1>2, <2>1, <2>2, <2>3 DEF CommandInv, CommandTypes, CommandOnItsWay
  <2>5. OneTopic'
    BY <1>2, <2>1 DEF OneTopic
  <2>6. QED  BY <1>2, <2>2, <2>3, <2>4, <2>5 DEF CommandInv
<1>3. CASE cmd_vel # <<>> /\ cmd_vel' = Tail(cmd_vel) /\ twist_cmd' = twist_cmd
           /\ last_topic' \in {last_topic, "cmd_vel"}
  <2>1. ~publish_twist_cmd /\ twist_cmd = <<>> /\ last_topic # "twist_cmd"
    BY <1>3 DEF CommandInv, OneTopic
  <2>2. /\ IsTopic(cmd_vel', Commands, Depth)
        /\ cmd_vel' # <<>> => Newest(cmd_vel') = Newest(cmd_vel)
        /\ cmd_vel' = <<>> => Newest(cmd_vel) = Head(cmd_vel)
    BY <1>1, <1>3, Taken DEF CommandInv, CommandTypes
  <2>3. Newest(cmd_vel) = chassis_cmd
    BY <1>3 DEF CommandInv, CommandOnItsWay
  <2>4. CommandTypes' /\ CommandOnItsWay'
    BY <1>3, <2>1, <2>2, <2>3 DEF CommandInv, CommandTypes, CommandOnItsWay
  <2>5. OneTopic'
    BY <1>3, <2>1 DEF OneTopic
  <2>6. QED  BY <1>3, <2>1, <2>2, <2>3, <2>4, <2>5 DEF CommandInv
<1>4. QED  BY <1>2, <1>3

\* The limit leaves a halt a halt.
LEMMA LimitKeeps ==
  ASSUME NEW cmd \in Commands
  PROVE  Car!Limit(cmd) \in Commands /\ (cmd.speed = 0 => Car!Limit(cmd).speed = 0)
<1>1. cmd.speed \in Int /\ MaxSpeed \in Nat
  BY ChainAssumption DEF Commands
<1>2. CASE cmd.speed > MaxSpeed
  <2>1. Car!Limit(cmd) = [cmd EXCEPT !.speed = MaxSpeed] /\ cmd.speed # 0
    BY <1>1, <1>2 DEF Car!Limit
  <2>2. QED  BY <1>1, <2>1 DEF Commands
<1>3. CASE ~(cmd.speed > MaxSpeed)
  BY <1>3 DEF Car!Limit
<1>4. QED  BY <1>2, <1>3

\* A burst, whatever it answers, ends in a frame that is on its way.
LEMMA BurstKeepsFrames ==
  ASSUME FrameInv, NEW cmd \in Commands, NEW topic, Car!SendSpeedToAKM(cmd, topic),
         UNCHANGED <<link_up, used, chassis>>
  PROVE  FrameInv'
<1>1. FrameTypes' /\ can_rx' # <<>> /\ Newest(can_rx') = last_sent'
  BY SendKeepsFrames DEF FrameInv
<1>2. QED  BY <1>1 DEF FrameInv, FrameOnItsWay, LinkCounted

\* /twist_cmd: the driver sends whatever it takes.
LEMMA TakeTwistKeeps ==
  ASSUME ChainInv, TakeTwistCmd
  PROVE  ChainInv'
<1> DEFINE cmd == Head(twist_cmd)
<1>1. cmd \in Commands
  BY ChainAssumption, Taken DEF ChainInv, CommandInv, CommandTypes, TakeTwistCmd
<1>2. Car!Limit(cmd) \in Commands /\ (cmd.speed = 0 => Car!Limit(cmd).speed = 0)
  BY <1>1, LimitKeeps
<1>3. /\ twist_cmd # <<>> /\ twist_cmd' = Tail(twist_cmd) /\ cmd_vel' = cmd_vel
      /\ UNCHANGED <<publish_twist_cmd, chassis_cmd, link_up, used, chassis>>
      /\ Car!SendSpeedToAKM(Car!Limit(cmd), "twist_cmd")
  BY DEF TakeTwistCmd, carStepUnchanged, viOtherVars, Car!TwistCmdVelCallback
<1>4. last_topic' = "twist_cmd" /\ (cmd.speed = 0 => last_sent'.speed = 0)
  BY <1>2, <1>3, SendKeepsFrames DEF ChainInv, FrameInv
<1>5. FrameInv'
  BY <1>2, <1>3, BurstKeepsFrames DEF ChainInv
<1>6. CommandInv' /\ (twist_cmd' = <<>> /\ cmd_vel' = <<>> => chassis_cmd = cmd)
  BY <1>3, <1>4, TakeKeepsCommands DEF ChainInv
<1>7. HaltSent'
  BY <1>3, <1>4, <1>6 DEF HaltSent
<1>8. Car!ClosedGateHolds'
  BY <1>4 DEF Car!ClosedGateHolds
<1>9. QED  BY <1>5, <1>6, <1>7, <1>8 DEF ChainInv

\* /cmd_vel: a closed gate drops what was taken, after a stop.
LEMMA TakeCmdVelKeeps ==
  ASSUME ChainInv, TakeCmdVel
  PROVE  ChainInv'
<1> DEFINE cmd == Head(cmd_vel)
<1>1. cmd \in Commands
  BY ChainAssumption, Taken DEF ChainInv, CommandInv, CommandTypes, TakeCmdVel
<1>2. Car!Limit(cmd) \in Commands /\ (cmd.speed = 0 => Car!Limit(cmd).speed = 0)
  BY <1>1, LimitKeeps
<1>3. /\ cmd_vel # <<>> /\ cmd_vel' = Tail(cmd_vel) /\ twist_cmd' = twist_cmd
      /\ UNCHANGED <<publish_twist_cmd, chassis_cmd, link_up, used, chassis>>
  BY DEF TakeCmdVel, carStepUnchanged, viOtherVars
<1>4. twist_cmd = <<>> /\ last_topic # "twist_cmd"
  BY <1>3 DEF ChainInv, CommandInv, OneTopic
<1>5. CASE Car!MayRun
  <2>1. enable_run' = TRUE /\ Car!SendSpeedToAKM(Car!Limit(cmd), "cmd_vel")
    BY <1>5 DEF TakeCmdVel, Car!CmdVelCallback
  <2>2. last_topic' = "cmd_vel" /\ (cmd.speed = 0 => last_sent'.speed = 0)
    BY <1>2, <2>1, SendKeepsFrames DEF ChainInv, FrameInv
  <2>3. FrameInv'
    BY <1>2, <1>3, <2>1, BurstKeepsFrames DEF ChainInv
  <2>4. CommandInv' /\ (twist_cmd' = <<>> /\ cmd_vel' = <<>> => chassis_cmd = cmd)
    BY <1>3, <1>4, <2>2, TakeKeepsCommands DEF ChainInv
  <2>5. HaltSent'
    BY <1>3, <2>2, <2>4 DEF HaltSent
  <2>6. Car!ClosedGateHolds'
    BY <2>1 DEF Car!ClosedGateHolds
  <2>7. QED  BY <2>3, <2>4, <2>5, <2>6 DEF ChainInv
<1>6. CASE ~Car!MayRun
  <2>1. UNCHANGED <<enable_run, AliveCounter, can_rx, last_sent, last_topic>>
    BY <1>6 DEF TakeCmdVel, Car!CmdVelCallback, Car!carVars, Car!gateVars, Car!frameVars
  <2>2. last_sent.speed = 0
    BY <1>4, <1>6 DEF Car!MayRun, ChainInv, Car!ClosedGateHolds
  <2>3. FrameInv'
    BY <1>3, <2>1 DEF ChainInv, FrameInv, FrameTypes, FrameOnItsWay, LinkCounted
  <2>4. CommandInv'
    BY <1>3, <2>1, TakeKeepsCommands DEF ChainInv
  <2>5. HaltSent' /\ Car!ClosedGateHolds'
    BY <2>1, <2>2 DEF HaltSent, Car!ClosedGateHolds
  <2>6. QED  BY <2>3, <2>4, <2>5 DEF ChainInv
<1>7. QED  BY <1>5, <1>6

\* /run_static: what closes the gate sends a stop.
LEMMA TakeRunStaticKeeps ==
  ASSUME ChainInv, TakeRunStatic
  PROVE  ChainInv'
<1>1. UNCHANGED <<twist_cmd, cmd_vel, publish_twist_cmd, chassis_cmd, link_up, used, chassis>>
  BY DEF TakeRunStatic, carStepUnchanged, viOtherVars
<1>2. \/ Car!stop
      \/ /\ UNCHANGED <<AliveCounter, can_rx, last_sent, last_topic>>
         /\ enable_run' \/ enable_run' = enable_run \/ ~enable_run
  BY DEF TakeRunStatic, Car!run_static_callback, Car!carVars, Car!gateVars, Car!frameVars
<1>3. CASE Car!stop
  <2>1. [speed |-> 0, steer |-> 0] \in Commands
    BY DEF Commands
  <2>2. Car!SendSpeedToAKM([speed |-> 0, steer |-> 0], "run_static")
    BY <1>3 DEF Car!stop
  <2>3. last_topic' = "run_static" /\ last_sent'.speed = 0
    BY <2>1, <2>2, SendKeepsFrames DEF ChainInv, FrameInv
  <2>4. FrameInv'
    BY <1>1, <2>1, <2>2, BurstKeepsFrames DEF ChainInv
  <2>5. CommandInv'
    BY <1>1, <2>3 DEF ChainInv, CommandInv, CommandTypes, OneTopic, CommandOnItsWay
  <2>6. HaltSent' /\ Car!ClosedGateHolds'
    BY <2>3 DEF HaltSent, Car!ClosedGateHolds
  <2>7. QED  BY <2>4, <2>5, <2>6 DEF ChainInv
<1>4. CASE /\ UNCHANGED <<AliveCounter, can_rx, last_sent, last_topic>>
           /\ enable_run' \/ enable_run' = enable_run \/ ~enable_run
  <2>1. FrameInv' /\ CommandInv' /\ HaltSent'
    BY <1>1, <1>4 DEF ChainInv, FrameInv, FrameTypes, FrameOnItsWay, LinkCounted,
                      CommandInv, CommandTypes, OneTopic, CommandOnItsWay, HaltSent
  <2>2. Car!ClosedGateHolds'
    BY <1>4 DEF ChainInv, Car!ClosedGateHolds
  <2>3. QED  BY <2>1, <2>2 DEF ChainInv
<1>5. QED  BY <1>2, <1>3, <1>4

\* The bridge: the chassis obeys the frame that arrives, the last one at last.
LEMMA BridgeKeeps ==
  ASSUME ChainInv, BridgeStep \/ LinkDown \/ LinkUp
  PROVE  ChainInv'
<1>1. /\ UNCHANGED <<twist_cmd, cmd_vel, publish_twist_cmd, chassis_cmd>>
      /\ UNCHANGED <<enable_run, AliveCounter, last_sent, last_topic>>
  BY DEF BridgeStep, LinkDown, LinkUp, viVars, viTopics, viOtherVars, carVars, frameVars,
         Car!TakeFrame, Car!gateVars
<1>2. CommandInv' /\ HaltSent' /\ Car!ClosedGateHolds'
  BY <1>1 DEF ChainInv, CommandInv, CommandTypes, OneTopic, CommandOnItsWay, HaltSent,
              Car!ClosedGateHolds
<1>3. CASE BridgeStep
  <2>1. /\ can_rx # <<>> /\ can_rx' = Tail(can_rx) /\ UNCHANGED <<link_up, used>>
        /\ chassis' = IF link_up THEN Head(can_rx) ELSE chassis
    BY <1>3 DEF BridgeStep, Car!TakeFrame
  <2>2. CanDepth \in Nat \ {0} /\ IsTopic(can_rx, Frames, CanDepth)
    BY ChainAssumption DEF ChainInv, FrameInv, FrameTypes
  <2>3. /\ IsTopic(can_rx', Frames, CanDepth)
        /\ can_rx' # <<>> => Newest(can_rx') = Newest(can_rx)
        /\ can_rx' = <<>> => Newest(can_rx) = Head(can_rx)
    BY <2>1, <2>2, Taken
  <2>4. Newest(can_rx) = last_sent
    BY <2>1 DEF ChainInv, FrameInv, FrameOnItsWay
  <2>5. LinkCounted' /\ (used'.outages = 0 => link_up)
    BY <2>1 DEF ChainInv, FrameInv, LinkCounted
  <2>6. FrameTypes' /\ FrameOnItsWay'
    BY <1>1, <2>1, <2>3, <2>4, <2>5 DEF ChainInv, FrameInv, FrameTypes, FrameOnItsWay
  <2>7. QED  BY <1>2, <2>5, <2>6 DEF ChainInv, FrameInv
<1>4. CASE LinkDown \/ LinkUp
  <2>1. can_rx' = can_rx /\ chassis' = chassis
    BY <1>4 DEF LinkDown, LinkUp, carVars, frameVars
  <2>2. LinkCounted' /\ (used'.outages = 0 => used.outages = 0)
    <3>1. CASE LinkDown
      <4>1. used'.outages = used.outages + 1 /\ used' \in [Inputs -> Nat] /\ used.outages \in Nat
        BY <3>1 DEF LinkDown, Use, ChainInv, FrameInv, LinkCounted, Inputs
      <4>2. QED  BY <4>1 DEF LinkCounted
    <3>2. CASE LinkUp
      BY <3>2 DEF LinkUp, ChainInv, FrameInv, LinkCounted
    <3>3. QED  BY <1>4, <3>1, <3>2
  <2>3. FrameTypes' /\ FrameOnItsWay'
    BY <1>1, <2>1, <2>2 DEF ChainInv, FrameInv, FrameTypes, FrameOnItsWay
  <2>4. QED  BY <1>2, <2>2, <2>3 DEF ChainInv, FrameInv
<1>5. QED  BY <1>3, <1>4

-----------------------------------------------------------------------------
\* Nothing overtakes a halt: when nothing is on its way and no frame was lost,
\* a chassis whose interface last said halt stands still, for any number of
\* inputs and every depth of the topics and threshold of the gate.
THEOREM HaltArrives == ChainSpec => []HaltReachesChassis
<1>1. ChainInit => ChainInv
  <2> SUFFICES ASSUME ChainInit PROVE ChainInv
    OBVIOUS
  <2>1. /\ twist_cmd = <<>> /\ cmd_vel = <<>> /\ chassis_cmd = VI!Halt
        /\ can_rx = <<>> /\ AliveCounter = 0 /\ last_sent = Car!NoFrame
        /\ last_topic = "none" /\ link_up = TRUE /\ chassis = Car!NoFrame
        /\ used = [controls |-> 0, requests |-> 0, gears |-> 0, stops |-> 0, outages |-> 0]
    BY DEF ChainInit, VI!Init, Car!CarInit
  <2>2. ASSUME NEW M, NEW depth \in Nat \ {0} PROVE IsTopic(<<>>, M, depth)
    <3>1. <<>> \in Seq(M) /\ Len(<<>>) = 0
      OBVIOUS
    <3>2. QED  BY <3>1 DEF IsTopic
  <2>3. CommandTypes
    <3>1. VI!Halt \in Commands
      BY DEF Commands, VI!Halt
    <3>2. IsTopic(<<>>, Commands, Depth)
      BY <2>2, ChainAssumption
    <3>3. QED  BY <2>1, <3>1, <3>2 DEF CommandTypes
  <2>4. OneTopic /\ CommandOnItsWay
    BY <2>1 DEF OneTopic, CommandOnItsWay
  <2>5. FrameTypes
    <3>1. AliveModulus - 1 \in Int
      BY ChainAssumption
    <3>2. Car!NoFrame \in Frames
      BY <3>1 DEF Frames, Car!NoFrame
    <3>3. IsTopic(<<>>, Frames, CanDepth)
      BY <2>2, ChainAssumption
    <3>4. QED  BY <2>1, <3>2, <3>3 DEF FrameTypes
  <2>6. FrameOnItsWay
    BY <2>1 DEF FrameOnItsWay
  <2>7. LinkCounted
    <3>1. used \in [Inputs -> Nat]
      BY <2>1 DEF Inputs
    <3>2. QED  BY <2>1, <3>1 DEF LinkCounted
  <2>8. HaltSent /\ Car!ClosedGateHolds
    <3>1. last_sent.speed = 0
      BY <2>1 DEF Car!NoFrame
    <3>2. QED  BY <3>1 DEF HaltSent, Car!ClosedGateHolds
  <2>9. QED  BY <2>3, <2>4, <2>5, <2>6, <2>7, <2>8 DEF ChainInv, CommandInv, FrameInv
<1>2. ChainInv /\ [ChainNext]_chainVars => ChainInv'
  <2> SUFFICES ASSUME ChainInv, [ChainNext]_chainVars PROVE ChainInv'
    OBVIOUS
  <2>1. CASE UNCHANGED chainVars
    BY <2>1 DEF chainVars, viVars, viTopics, viOtherVars, carVars, frameVars, ChainInv,
                CommandInv, CommandTypes, OneTopic, CommandOnItsWay, FrameInv, FrameTypes,
                FrameOnItsWay, LinkCounted, HaltSent, Car!ClosedGateHolds
  <2>2. QED  BY <2>1, InterfaceKeeps, TakeTwistKeeps, TakeCmdVelKeeps, TakeRunStaticKeeps,
                BridgeKeeps DEF ChainNext
<1>3. ChainInv => HaltReachesChassis
  BY DEF ChainInv, FrameInv, FrameOnItsWay, HaltSent, HaltReachesChassis, Drained
<1>4. QED  BY <1>1, <1>2, <1>3, PTL DEF ChainSpec
=============================================================================
