---------------------------- MODULE ChassisProofs ----------------------------
(***************************************************************************)
(* The car driver, the CAN bridge that carries its frames and what the     *)
(* driver makes of the frames that come back.  The driver, for every speed *)
(* limit, stop threshold (negative ones included), counter modulus, topic  *)
(* depth and set of commands.  The bridge, while nothing is transmitted,   *)
(* so that the receive thread has dwRel to itself, however often driver    *)
(* calls fail and the box is pulled out.  The feedback, for every frame    *)
(* the chassis may send and every way the clock may be set.                *)
(***************************************************************************)
EXTENDS WtbCar, CanBridge, CarFeedback, Lemmas

-----------------------------------------------------------------------------
\* Any integer, cut to sixteen bits, is a word.
LEMMA SignalFits ==
  ASSUME NEW n \in Int
  PROVE  Signal(n) \in Word
<1> DEFINE M == 65536
<1>1. M \in Nat \ {0} /\ 0..M - 1 = Word
  BY DEF Word
<1>2. n % M = Signal(n)
  BY DEF Signal
<1> HIDE DEF M
<1>3. n % M \in 0..M - 1
  BY <1>1, DivMod
<1>4. QED  BY <1>1, <1>2, <1>3

\* The rolling counter stays within its four bits.
LEMMA RolledFits ==
  ASSUME AliveCounter \in Counter, NEW n \in Nat
  PROVE  Rolled(n) \in Counter
<1> DEFINE k == AliveCounter + n
<1>1. AliveCounter \in Int /\ AliveModulus \in Nat \ {0}
  BY CanAssumption DEF Counter
<1>2. k \in Int
  BY <1>1
<1> HIDE DEF k
<1>3. k % AliveModulus \in 0..AliveModulus - 1
  BY <1>1, <1>2
<1>4. QED  BY <1>3 DEF k, Rolled, Counter

\* One control frame fits the fields of the protocol.
LEMMA BuiltFrame ==
  ASSUME NEW gear \in {"D", "R"}, NEW speed \in Int, NEW degrees \in Int,
         NEW alive \in Counter
  PROVE  BuildCtrlCmdData(gear, speed, degrees, alive) \in Frame
<1>1. Signal(speed) \in Word /\ Signal(degrees * 100) \in Word
  BY SignalFits
<1>2. QED  BY <1>1 DEF BuildCtrlCmdData, Frame

\* The conversion to whole degrees yields an integer for either sign.
LEMMA WholeDegreesInt ==
  ASSUME NEW angle \in Int
  PROVE  WholeDegrees(angle) \in Int
<1>1. CASE angle < 0
  BY <1>1 DEF WholeDegrees
<1>2. CASE ~(angle < 0)
  BY <1>2 DEF WholeDegrees
<1>3. QED  BY <1>1, <1>2

\* Limiting the speed leaves a command a command.
LEMMA LimitTyped ==
  ASSUME NEW cmd \in Command
  PROVE  Limit(cmd) \in Command
<1>1. CASE cmd.speed > MaxSpeed
  <2>1. Limit(cmd) = [cmd EXCEPT !.speed = MaxSpeed]
    BY <1>1 DEF Limit
  <2>2. QED  BY <2>1, CarAssumption DEF Command
<1>2. CASE ~(cmd.speed > MaxSpeed)
  BY <1>2 DEF Limit
<1>3. QED  BY <1>1, <1>2

FramesTyped ==
  /\ AliveCounter \in Counter
  /\ IsTopic(can_rx, Frame, CanDepth)
  /\ last_sent \in Frame
  /\ last_topic \in {"none", "cmd_vel", "twist_cmd", "run_static"}

\* A burst of three frames keeps the topic, the counter and the last frame typed.
LEMMA SendTyped ==
  ASSUME FramesTyped, NEW cmd \in Command,
         NEW topic \in {"cmd_vel", "twist_cmd", "run_static"}, SendSpeedToAKM(cmd, topic)
  PROVE  FramesTyped'
<1> DEFINE back == cmd.speed < 0
           degrees == WholeDegrees(cmd.steer)
           frame(i) == BuildCtrlCmdData(IF back THEN "R" ELSE "D",
                                        IF back THEN -cmd.speed ELSE cmd.speed,
                                        IF back THEN -degrees ELSE degrees,
                                        Rolled(i))
<1>1. cmd.speed \in Int /\ degrees \in Int
  <2>1. cmd.speed \in Int /\ cmd.steer \in Int
    BY DEF Command
  <2>2. QED  BY <2>1, WholeDegreesInt
<1>2. ASSUME NEW i \in Nat
      PROVE  frame(i) \in Frame
  <2>1. Rolled(i) \in Counter
    BY RolledFits DEF FramesTyped
  <2> HIDE DEF degrees
  <2>2. CASE back
    BY <1>1, <2>1, <2>2, BuiltFrame
  <2>3. CASE ~back
    BY <1>1, <2>1, <2>3, BuiltFrame
  <2>4. QED  BY <2>2, <2>3
<1>3. /\ can_rx' = Publish(Publish(Publish(can_rx, frame(0), CanDepth),
                                   frame(1), CanDepth), frame(2), CanDepth)
      /\ AliveCounter' = Rolled(3)
      /\ last_sent' = frame(2)
      /\ last_topic' = topic
  BY DEF SendSpeedToAKM
<1>4. frame(0) \in Frame /\ frame(1) \in Frame /\ frame(2) \in Frame
  BY <1>2
<1> HIDE DEF frame
<1>5. IsTopic(can_rx', Frame, CanDepth)
  <2>1. IsTopic(Publish(can_rx, frame(0), CanDepth), Frame, CanDepth)
    BY <1>4, PublishKeepsTopic, CanAssumption DEF FramesTyped
  <2>2. IsTopic(Publish(Publish(can_rx, frame(0), CanDepth), frame(1), CanDepth),
                Frame, CanDepth)
    BY <1>4, <2>1, PublishKeepsTopic, CanAssumption
  <2>3. QED  BY <1>3, <1>4, <2>2, PublishKeepsTopic, CanAssumption
<1>6. AliveCounter' \in Counter
  BY <1>3, RolledFits DEF FramesTyped
<1>7. QED  BY <1>3, <1>4, <1>5, <1>6 DEF FramesTyped

GateTyped ==
  /\ enable_run \in BOOLEAN
  /\ since_stop \in {Unset} \cup 0..LongAgo
  /\ last_run_static_command \in {""} \cup RunCommands

\* One step up to a bound stays within it.
LEMMA StepWithin ==
  ASSUME NEW n \in Nat, NEW k \in 0..n, k # n
  PROVE  k + 1 \in 0..n
OBVIOUS

\* The saturation point of the stop's age is a number past the threshold.
LEMMA LongAgoNat == LongAgo \in Nat /\ 0 \in 0..LongAgo
<1>1. StopTimeThreshold \in Int
  BY CarAssumption
<1>2. CASE StopTimeThreshold >= 0
  BY <1>1, <1>2 DEF LongAgo
<1>3. CASE ~(StopTimeThreshold >= 0)
  BY <1>1, <1>3 DEF LongAgo
<1>4. QED  BY <1>2, <1>3

\* Every callback keeps the variables of the gate typed.
LEMMA GateTypedStep ==
  ASSUME GateTyped, [CarNext]_carVars
  PROVE  GateTyped'
<1> USE DEF GateTyped
<1>1. ASSUME NEW cmd \in CmdVels, CmdVelCallback(cmd)
      PROVE  GateTyped'
  BY <1>1 DEF CmdVelCallback, MayRun, carVars, gateVars
<1>2. ASSUME NEW cmd \in TwistCmds, TwistCmdVelCallback(cmd)
      PROVE  GateTyped'
  BY <1>2 DEF TwistCmdVelCallback, gateVars
<1>3. ASSUME NEW data \in RunCommands, run_static_callback(data)
      PROVE  GateTyped'
  BY <1>3, LongAgoNat DEF run_static_callback, RecordStop, carVars, gateVars
<1>4. CASE CarTick
  <2>1. Aged(since_stop) \in {Unset} \cup 0..LongAgo
    <3>1. CASE since_stop = Unset \/ since_stop = LongAgo
      BY <3>1, LongAgoNat DEF Aged
    <3>2. CASE ~(since_stop = Unset \/ since_stop = LongAgo)
      <4>1. since_stop \in 0..LongAgo /\ since_stop # LongAgo
        BY <3>2
      <4>2. since_stop + 1 \in 0..LongAgo
        BY <4>1, LongAgoNat, StepWithin
      <4>3. QED  BY <3>2, <4>2 DEF Aged
    <3>3. QED  BY <3>1, <3>2
  <2>2. QED  BY <1>4, <2>1 DEF CarTick
<1>5. CASE TakeFrame \/ UNCHANGED carVars
  BY <1>5 DEF TakeFrame, carVars, gateVars
<1>6. QED  BY <1>1, <1>2, <1>3, <1>4, <1>5 DEF CarNext

\* Every callback keeps the frames typed.
LEMMA FramesTypedStep ==
  ASSUME FramesTyped, [CarNext]_carVars
  PROVE  FramesTyped'
<1>1. UNCHANGED frameVars => FramesTyped'
  BY DEF frameVars, FramesTyped
<1>2. ASSUME NEW cmd \in CmdVels, CmdVelCallback(cmd)
      PROVE  FramesTyped'
  <2>1. Limit(cmd) \in Command
    BY LimitTyped, CommandAssumption
  <2>2. SendSpeedToAKM(Limit(cmd), "cmd_vel") \/ UNCHANGED frameVars
    BY <1>2 DEF CmdVelCallback, MayRun, carVars
  <2>3. QED  BY <1>1, <2>1, <2>2, SendTyped
<1>3. ASSUME NEW cmd \in TwistCmds, TwistCmdVelCallback(cmd)
      PROVE  FramesTyped'
  <2>1. Limit(cmd) \in Command
    BY LimitTyped, CommandAssumption
  <2>2. QED  BY <1>3, <2>1, SendTyped DEF TwistCmdVelCallback
<1>4. ASSUME NEW data \in RunCommands, run_static_callback(data)
      PROVE  FramesTyped'
  <2>1. stop => FramesTyped'
    <3>1. [speed |-> 0, steer |-> 0] \in Command
      BY DEF Command
    <3>2. QED  BY <3>1, SendTyped DEF stop
  <2>2. stop \/ UNCHANGED frameVars
    BY <1>4 DEF run_static_callback, carVars
  <2>3. QED  BY <1>1, <2>1, <2>2
<1>5. CASE TakeFrame
  <2>1. IsTopic(can_rx', Frame, CanDepth)
    BY <1>5, TailKeepsTopic, CanAssumption DEF TakeFrame, FramesTyped
  <2>2. QED  BY <1>5, <2>1 DEF TakeFrame, FramesTyped
<1>6. CASE CarTick \/ UNCHANGED carVars
  BY <1>1, <1>6 DEF CarTick, carVars
<1>7. QED  BY <1>2, <1>3, <1>4, <1>5, <1>6 DEF CarNext

\* The driver's variables keep their types, and every frame it sends fits the
\* fields of the CAN protocol, whatever commands, stops and starts arrive.
THEOREM CarTypeCorrect == CarSpec => []CarTypeOK
<1>1. CarTypeOK <=> GateTyped /\ FramesTyped
  BY DEF CarTypeOK, GateTyped, FramesTyped
<1>2. CarInit => GateTyped
  BY DEF CarInit, GateTyped
<1>3. CarInit => FramesTyped
  <2>1. NoFrame \in Frame
    <3>1. 0 \in Word /\ AliveModulus - 1 \in Counter
      BY CanAssumption DEF Word, Counter
    <3>2. QED  BY <3>1 DEF NoFrame, Frame
  <2>2. <<>> \in Seq(Frame) /\ Len(<<>>) <= CanDepth
    BY CanAssumption
  <2>3. 0 \in Counter
    BY CanAssumption DEF Counter
  <2>4. QED  BY <2>1, <2>2, <2>3 DEF CarInit, FramesTyped, IsTopic
<1>4. QED  BY <1>1, <1>2, <1>3, GateTypedStep, FramesTypedStep, PTL DEF CarSpec

-----------------------------------------------------------------------------
\* What makes the gate's accounting inductive: an age is unset or a number, so
\* that growing older never turns a recorded stop into no stop.
GateInv == GateClosedByStop /\ since_stop \in {Unset} \cup Nat

\* Every callback preserves the accounting of the gate.
LEMMA GateStep ==
  ASSUME GateInv, [CarNext]_carVars
  PROVE  GateInv'
<1> USE DEF GateInv, GateClosedByStop
<1>1. ASSUME NEW cmd \in CmdVels, CmdVelCallback(cmd)
      PROVE  GateInv'
  BY <1>1 DEF CmdVelCallback, MayRun, carVars, gateVars
<1>2. ASSUME NEW cmd \in TwistCmds, TwistCmdVelCallback(cmd)
      PROVE  GateInv'
  BY <1>2 DEF TwistCmdVelCallback, gateVars
<1>3. ASSUME NEW data \in RunCommands, run_static_callback(data)
      PROVE  GateInv'
  BY <1>3 DEF run_static_callback, RecordStop, carVars, gateVars, Unset
<1>4. CASE CarTick
  BY <1>4 DEF CarTick, Aged, Unset
<1>5. CASE TakeFrame \/ UNCHANGED carVars
  BY <1>5 DEF TakeFrame, carVars, gateVars
<1>6. QED  BY <1>1, <1>2, <1>3, <1>4, <1>5 DEF CarNext

\* A closed gate always has a recorded stop time, and the filter of repeated
\* messages never swallows the "start" that would open it.
THEOREM GateAccounted == CarSpec => []GateClosedByStop
<1>1. CarInit => GateInv
  BY DEF CarInit, GateInv, GateClosedByStop
<1>2. GateInv => GateClosedByStop
  BY DEF GateInv
<1>3. QED  BY <1>1, <1>2, GateStep, PTL DEF CarSpec

\* A closed gate opens only on "start" or on a command after the threshold.
THEOREM ReopenJustified == CarSpec => ReopensForAReason
<1>1. ASSUME [CarNext]_carVars, ~enable_run, enable_run'
      PROVE  last_run_static_command' = "start" \/ StopExpired
  <2>1. ASSUME NEW cmd \in CmdVels, CmdVelCallback(cmd)
        PROVE  StopExpired
    BY <1>1, <2>1 DEF CmdVelCallback, MayRun, carVars, gateVars
  <2>2. ASSUME NEW data \in RunCommands, run_static_callback(data)
        PROVE  last_run_static_command' = "start"
    BY <1>1, <2>2 DEF run_static_callback, RecordStop, carVars, gateVars
  <2>3. ~\E cmd \in TwistCmds : TwistCmdVelCallback(cmd)
    BY <1>1 DEF TwistCmdVelCallback, gateVars
  <2>4. ~(CarTick \/ TakeFrame \/ UNCHANGED carVars)
    BY <1>1 DEF CarTick, TakeFrame, carVars, gateVars
  <2>5. QED  BY <1>1, <2>1, <2>2, <2>3, <2>4 DEF CarNext
<1>2. QED  BY <1>1, PTL DEF CarSpec, ReopensForAReason

\* A closed gate keeps the vehicle at a standstill: the last command sent to
\* the chassis is the stop, unless it answers a message on /twist_cmd.
THEOREM GateHolds == CarSpec => []ClosedGateHolds
<1>1. CarInit => ClosedGateHolds
  BY DEF CarInit, ClosedGateHolds
<1>2. ASSUME ClosedGateHolds, [CarNext]_carVars
      PROVE  ClosedGateHolds'
  <2> USE <1>2 DEF ClosedGateHolds
  <2>1. ASSUME NEW cmd \in CmdVels, CmdVelCallback(cmd)
        PROVE  ClosedGateHolds'
    BY <2>1 DEF CmdVelCallback, MayRun, carVars, gateVars, frameVars
  <2>2. ASSUME NEW cmd \in TwistCmds, TwistCmdVelCallback(cmd)
        PROVE  ClosedGateHolds'
    BY <2>2 DEF TwistCmdVelCallback, SendSpeedToAKM
  <2>3. ASSUME NEW data \in RunCommands, run_static_callback(data)
        PROVE  ClosedGateHolds'
    <3>1. stop => last_sent'.speed = 0
      <4>1. Signal(0) = 0
        BY DEF Signal
      <4>2. QED  BY <4>1 DEF stop, SendSpeedToAKM, BuildCtrlCmdData
    <3>2. QED  BY <2>3, <3>1 DEF run_static_callback, RecordStop, carVars, gateVars, frameVars
  <2>4. CASE CarTick \/ TakeFrame \/ UNCHANGED carVars
    BY <2>4 DEF CarTick, TakeFrame, carVars, gateVars, frameVars
  <2>5. QED  BY <2>1, <2>2, <2>3, <2>4 DEF CarNext
<1>3. QED  BY <1>1, <1>2, PTL DEF CarSpec
-----------------------------------------------------------------------------
\* The frames of a topic are consecutive.
Chain(topic) == \A i \in 1..Len(topic) - 1 : Consecutive(topic[i], topic[i + 1])

\* The topic is consecutive and ends in the frame sent last.
EndsIn(topic, frame) ==
  /\ IsTopic(topic, Frame, CanDepth)
  /\ Chain(topic)
  /\ topic # <<>> => topic[Len(topic)] = frame

\* A frame that follows the newest one extends the chain, and the oldest may
\* be dropped.
LEMMA PublishKeepsChain ==
  ASSUME NEW topic, NEW frame, EndsIn(topic, frame),
         NEW next \in Frame, Consecutive(frame, next)
  PROVE  EndsIn(Publish(topic, next, CanDepth), next)
<1> DEFINE longer == Publish(topic, next, CanDepth)
<1>1. topic \in Seq(Frame) /\ CanDepth \in Nat \ {0}
  BY CanAssumption DEF EndsIn, IsTopic
<1>2. IsTopic(longer, Frame, CanDepth)
  BY <1>1, PublishKeepsTopic DEF EndsIn
<1>3. longer # <<>> /\ longer[Len(longer)] = next
  BY <1>1, PublishKeepsNewest DEF EndsIn
<1>4. Chain(longer)
  <2>1. Chain(Append(topic, next))
    <3> SUFFICES ASSUME NEW i \in 1..Len(topic)
                 PROVE  Consecutive(Append(topic, next)[i], Append(topic, next)[i + 1])
      BY <1>1 DEF Chain
    <3>1. CASE i = Len(topic)
      <4>1. topic[i] = frame
        BY <1>1, <3>1 DEF EndsIn
      <4>2. Append(topic, next)[i] = topic[i] /\ Append(topic, next)[i + 1] = next
        BY <1>1, <3>1
      <4>3. QED  BY <4>1, <4>2
    <3>2. CASE i # Len(topic)
      <4>1. i \in 1..Len(topic) - 1
        BY <1>1, <3>2
      <4>2. Append(topic, next)[i] = topic[i] /\ Append(topic, next)[i + 1] = topic[i + 1]
        BY <1>1, <4>1
      <4>3. QED  BY <4>1, <4>2 DEF EndsIn, Chain
    <3>3. QED  BY <3>1, <3>2
  <2>2. CASE Len(topic) < CanDepth
    BY <2>1, <2>2 DEF Publish
  <2>3. CASE ~(Len(topic) < CanDepth)
    <3> DEFINE all == Append(topic, next)
    <3>1. topic # <<>> /\ longer = Append(Tail(topic), next)
      BY <1>1, <2>3 DEF Publish
    <3>2. /\ Len(longer) = Len(topic)
          /\ \A i \in 1..Len(topic) : longer[i] = all[i + 1]
      BY <1>1, <3>1
    <3>3. Len(all) = Len(topic) + 1
      BY <1>1
    <3> HIDE DEF all, longer
    <3> SUFFICES ASSUME NEW i \in 1..Len(longer) - 1
                 PROVE  Consecutive(longer[i], longer[i + 1])
      BY DEF Chain
    <3>4. longer[i] = all[i + 1] /\ longer[i + 1] = all[(i + 1) + 1]
      BY <1>1, <3>2
    <3>5. i + 1 \in 1..Len(all) - 1
      BY <1>1, <3>2, <3>3
    <3>6. QED  BY <2>1, <3>4, <3>5 DEF Chain, all
  <2>4. QED  BY <2>2, <2>3
<1>5. QED  BY <1>2, <1>3, <1>4 DEF EndsIn

\* One step of the rolling counter.
LEMMA RolledOn ==
  ASSUME AliveCounter \in Counter, NEW n \in Nat
  PROVE  Rolled(n + 1) = (Rolled(n) + 1) % AliveModulus
<1>1. AliveCounter + n \in Int /\ AliveModulus \in Nat \ {0}
  BY CanAssumption DEF Counter
<1>2. AliveCounter + (n + 1) = (AliveCounter + n) + 1
  BY DEF Counter
<1>3. QED  BY <1>1, <1>2, NextRemainder DEF Rolled

\* Nothing added, a counter below the modulus is itself.
LEMMA RolledBack ==
  ASSUME AliveCounter \in Counter
  PROVE  Rolled(0) = AliveCounter
<1>1. /\ AliveModulus \in Nat \ {0} /\ AliveCounter \in Int
      /\ AliveCounter \in 0..AliveModulus - 1
      /\ 0 * AliveModulus + AliveCounter = AliveCounter
      /\ AliveCounter + 0 = AliveCounter
  BY CanAssumption DEF Counter
<1>2. AliveCounter % AliveModulus = AliveCounter
  BY <1>1, DivModIs
<1>3. QED  BY <1>1, <1>2 DEF Rolled

\* The counter to come follows the newest frame's.
CounterFollows == AliveCounter = (last_sent.alive + 1) % AliveModulus

ChainInv == FramesTyped /\ EndsIn(can_rx, last_sent) /\ CounterFollows

\* A burst continues the chain.
LEMMA SendKeepsChain ==
  ASSUME ChainInv, NEW cmd \in Command,
         NEW topic \in {"cmd_vel", "twist_cmd", "run_static"}, SendSpeedToAKM(cmd, topic)
  PROVE  ChainInv'
<1> DEFINE back == cmd.speed < 0
           degrees == WholeDegrees(cmd.steer)
           frame(i) == BuildCtrlCmdData(IF back THEN "R" ELSE "D",
                                        IF back THEN -cmd.speed ELSE cmd.speed,
                                        IF back THEN -degrees ELSE degrees,
                                        Rolled(i))
<1>1. cmd.speed \in Int /\ degrees \in Int
  <2>1. cmd.speed \in Int /\ cmd.steer \in Int
    BY DEF Command
  <2>2. QED  BY <2>1, WholeDegreesInt
<1>2. ASSUME NEW i \in Nat
      PROVE  frame(i) \in Frame /\ frame(i).alive = Rolled(i)
  <2>1. Rolled(i) \in Counter
    BY RolledFits DEF ChainInv, FramesTyped
  <2>2. frame(i).alive = Rolled(i)
    BY DEF BuildCtrlCmdData
  <2> HIDE DEF degrees
  <2>3. CASE back
    BY <1>1, <2>1, <2>2, <2>3, BuiltFrame
  <2>4. CASE ~back
    BY <1>1, <2>1, <2>2, <2>4, BuiltFrame
  <2>5. QED  BY <2>3, <2>4
<1>3. /\ can_rx' = Publish(Publish(Publish(can_rx, frame(0), CanDepth),
                                   frame(1), CanDepth), frame(2), CanDepth)
      /\ AliveCounter' = Rolled(3)
      /\ last_sent' = frame(2)
  BY DEF SendSpeedToAKM
<1>4. /\ frame(0) \in Frame /\ frame(1) \in Frame /\ frame(2) \in Frame
      /\ frame(0).alive = Rolled(0) /\ frame(1).alive = Rolled(1)
      /\ frame(2).alive = Rolled(2)
  BY <1>2
<1> HIDE DEF frame
<1>5. /\ Rolled(0) = (last_sent.alive + 1) % AliveModulus
      /\ Rolled(1) = (Rolled(0) + 1) % AliveModulus
      /\ Rolled(2) = (Rolled(1) + 1) % AliveModulus
      /\ Rolled(3) = (Rolled(2) + 1) % AliveModulus
  <2>1. AliveCounter \in Counter
    BY DEF ChainInv, FramesTyped
  <2>2. Rolled(0) = (last_sent.alive + 1) % AliveModulus
    BY <2>1, RolledBack DEF ChainInv, CounterFollows
  <2>3. Rolled(0 + 1) = (Rolled(0) + 1) % AliveModulus
    BY <2>1, RolledOn
  <2>4. Rolled(1 + 1) = (Rolled(1) + 1) % AliveModulus
    BY <2>1, RolledOn
  <2>5. Rolled(2 + 1) = (Rolled(2) + 1) % AliveModulus
    BY <2>1, RolledOn
  <2>6. 0 + 1 = 1 /\ 1 + 1 = 2 /\ 2 + 1 = 3
    OBVIOUS
  <2>7. QED  BY <2>2, <2>3, <2>4, <2>5, <2>6
<1>6. /\ Consecutive(last_sent, frame(0)) /\ Consecutive(frame(0), frame(1))
      /\ Consecutive(frame(1), frame(2))
  BY <1>4, <1>5 DEF Consecutive
<1>7. EndsIn(can_rx', last_sent')
  <2>1. EndsIn(Publish(can_rx, frame(0), CanDepth), frame(0))
    BY <1>4, <1>6, PublishKeepsChain DEF ChainInv
  <2>2. EndsIn(Publish(Publish(can_rx, frame(0), CanDepth), frame(1), CanDepth), frame(1))
    BY <1>4, <1>6, <2>1, PublishKeepsChain
  <2>3. QED  BY <1>3, <1>4, <1>6, <2>2, PublishKeepsChain
<1>8. CounterFollows'
  BY <1>3, <1>4, <1>5 DEF CounterFollows
<1>9. FramesTyped'
  BY SendTyped DEF ChainInv
<1>10. QED  BY <1>7, <1>8, <1>9 DEF ChainInv

\* Every callback keeps the frames consecutive.
LEMMA ChainStep ==
  ASSUME ChainInv, [CarNext]_carVars
  PROVE  ChainInv'
<1>1. UNCHANGED frameVars => ChainInv'
  BY DEF frameVars, ChainInv, FramesTyped, CounterFollows, EndsIn, Chain
<1>2. ASSUME NEW cmd \in CmdVels, CmdVelCallback(cmd)
      PROVE  ChainInv'
  <2>1. Limit(cmd) \in Command
    BY LimitTyped, CommandAssumption
  <2>2. SendSpeedToAKM(Limit(cmd), "cmd_vel") \/ UNCHANGED frameVars
    BY <1>2 DEF CmdVelCallback, MayRun, carVars
  <2>3. QED  BY <1>1, <2>1, <2>2, SendKeepsChain
<1>3. ASSUME NEW cmd \in TwistCmds, TwistCmdVelCallback(cmd)
      PROVE  ChainInv'
  <2>1. Limit(cmd) \in Command
    BY LimitTyped, CommandAssumption
  <2>2. QED  BY <1>3, <2>1, SendKeepsChain DEF TwistCmdVelCallback
<1>4. ASSUME NEW data \in RunCommands, run_static_callback(data)
      PROVE  ChainInv'
  <2>1. stop => ChainInv'
    <3>1. [speed |-> 0, steer |-> 0] \in Command
      BY DEF Command
    <3>2. QED  BY <3>1, SendKeepsChain DEF stop
  <2>2. stop \/ UNCHANGED frameVars
    BY <1>4 DEF run_static_callback, carVars
  <2>3. QED  BY <1>1, <2>1, <2>2
<1>5. CASE TakeFrame
  <2>1. FramesTyped'
    BY <1>5, FramesTypedStep DEF ChainInv, CarNext
  <2>2. CounterFollows'
    BY <1>5 DEF TakeFrame, ChainInv, CounterFollows
  <2>3. /\ can_rx \in Seq(Frame) /\ can_rx # <<>> /\ can_rx' = Tail(can_rx)
        /\ last_sent' = last_sent
    BY <1>5 DEF TakeFrame, ChainInv, FramesTyped, IsTopic
  <2>4. /\ Len(can_rx') = Len(can_rx) - 1
        /\ \A i \in 1..Len(can_rx') : can_rx'[i] = can_rx[i + 1]
    BY <2>3
  <2>5. Chain(can_rx')
    <3> SUFFICES ASSUME NEW i \in 1..Len(can_rx') - 1
                 PROVE  Consecutive(can_rx'[i], can_rx'[i + 1])
      BY DEF Chain
    <3>1. i + 1 \in 1..Len(can_rx) - 1 /\ i \in 1..Len(can_rx') /\ i + 1 \in 1..Len(can_rx')
      BY <2>3, <2>4
    <3>2. QED  BY <2>4, <3>1 DEF ChainInv, EndsIn, Chain
  <2>6. can_rx' # <<>> => can_rx'[Len(can_rx')] = last_sent'
    <3> SUFFICES ASSUME can_rx' # <<>> PROVE can_rx'[Len(can_rx')] = last_sent'
      OBVIOUS
    <3>1. Len(can_rx') \in 1..Len(can_rx') /\ Len(can_rx') + 1 = Len(can_rx)
      BY <2>3, <2>4
    <3>2. can_rx'[Len(can_rx')] = can_rx[Len(can_rx)]
      BY <2>4, <3>1
    <3>3. QED  BY <2>3, <3>2 DEF ChainInv, EndsIn
  <2>7. QED  BY <2>1, <2>2, <2>5, <2>6 DEF ChainInv, EndsIn, FramesTyped
<1>6. CASE CarTick \/ UNCHANGED carVars
  BY <1>1, <1>6 DEF CarTick, carVars
<1>7. QED  BY <1>2, <1>3, <1>4, <1>5, <1>6 DEF CarNext

\* The frames that wait for the bridge carry consecutive rolling counters up to
\* the newest frame sent, for every modulus of the counter and every depth of
\* the topic, whatever overflowed.
THEOREM CounterContinues == CarSpec => []PendingFramesConsecutive
<1>1. CarInit => ChainInv
  <2> SUFFICES ASSUME CarInit PROVE ChainInv
    OBVIOUS
  <2>1. AliveModulus \in Nat \ {0} /\ CanDepth \in Nat \ {0}
    BY CanAssumption
  <2>2. NoFrame \in Frame /\ NoFrame.alive = AliveModulus - 1
    <3>1. 0 \in Word /\ AliveModulus - 1 \in Counter
      BY <2>1 DEF Word, Counter
    <3>2. QED  BY <3>1 DEF NoFrame, Frame
  <2>3. can_rx = <<>> /\ IsTopic(can_rx, Frame, CanDepth)
    <3>1. <<>> \in Seq(Frame) /\ Len(<<>>) <= CanDepth
      BY <2>1
    <3>2. QED  BY <3>1 DEF CarInit, IsTopic
  <2>4. FramesTyped
    <3>1. 0 \in Counter
      BY <2>1 DEF Counter
    <3>2. QED  BY <2>2, <2>3, <3>1 DEF CarInit, FramesTyped
  <2>5. EndsIn(can_rx, last_sent)
    BY <2>3 DEF EndsIn, Chain
  <2>6. CounterFollows
    <3>1. 1 * AliveModulus + 0 = AliveModulus /\ 0 \in 0..AliveModulus - 1
      BY <2>1
    <3>2. AliveModulus % AliveModulus = 0
      BY <2>1, <3>1, DivModIs
    <3>3. last_sent.alive + 1 = AliveModulus
      <4>1. last_sent = NoFrame
        BY DEF CarInit
      <4>2. QED  BY <2>1, <2>2, <4>1
    <3>4. QED  BY <3>2, <3>3 DEF CarInit, CounterFollows
  <2>7. QED  BY <2>4, <2>5, <2>6 DEF ChainInv
<1>2. ChainInv => PendingFramesConsecutive
  BY DEF ChainInv, EndsIn, Chain, CounterFollows, PendingFramesConsecutive
<1>3. QED  BY <1>1, <1>2, ChainStep, PTL DEF CarSpec

-----------------------------------------------------------------------------
\* Nobody transmits.
Quiet == \A b \in Budgets : b.frames = 0

\* Where the receive thread is when it is not in Init_Can.
Polling == {<<"loop">>, <<"sleep">>, <<"done">>, <<"receive", 1>>, <<"receive", 2>>}

\* What Init_Can's first k calls have done to a box that is still open.
Prepared(k) ==
  opened => /\ k >= 2 => 1 \in inited
            /\ k >= 3 => 1 \in started
            /\ k >= 4 => 2 \in inited
            /\ k >= 5 => 2 \in started

\* The receive thread is before or after one of Init_Can's calls, all those
\* before it having succeeded, or polls, an open box being prepared.
BeforeCall(k) == pc = Call(k) /\ can_f = 0 /\ Prepared(k - 1)
AfterCall(k) == \/ pc = Test(k, 1) /\ dwRel = 1 /\ can_f = 0 /\ Prepared(k)
                \/ pc = Test(k, 0) /\ dwRel = 0 /\ can_f = 0
Polls == pc \in Polling /\ can_f \in {0, 1} /\ (can_f = 1 => Prepared(5))

BridgeInv ==
  /\ frames = 0 /\ callback = Idle
  /\ inited \subseteq Channels /\ started \subseteq Channels
  /\ Polls \/ \E k \in 1..5 : BeforeCall(k) \/ AfterCall(k)

-----------------------------------------------------------------------------
\* The calls, by number.
LEMMA CallNames ==
  /\ Len(Calls) = 5
  /\ Calls[1] = "open" /\ Calls[2] = "init1" /\ Calls[3] = "start1"
  /\ Calls[4] = "init2" /\ Calls[5] = "start2"
BY DEF Calls

\* No two calls have the same name.
LEMMA CallsDiffer ==
  ASSUME NEW j \in 1..5, NEW k \in 1..5, Calls[j] = Calls[k]
  PROVE  j = k
BY CallNames

\* The places of the receive thread differ.
LEMMA PlacesDiffer ==
  ASSUME NEW j \in 1..5, NEW k \in 1..5, NEW q, NEW r
  PROVE  /\ Call(j) = Call(k) => j = k
         /\ Test(j, q) = Test(k, r) => j = k /\ q = r
         /\ Call(j) # Test(k, r)
         /\ Call(j) \notin Polling /\ Test(j, q) \notin Polling
<1>1. Call(j)[1] = "call" /\ Test(k, r)[1] = "test" /\ Test(j, q)[1] = "test"
  BY DEF Call, Test
<1>2. \A p \in Polling : p[1] \in {"loop", "sleep", "done", "receive"}
  BY DEF Polling
<1>3. Call(j) = Call(k) => j = k
  BY CallsDiffer DEF Call
<1>4. Test(j, q) = Test(k, r) => j = k /\ q = r
  BY CallsDiffer DEF Test
<1>5. QED  BY <1>1, <1>2, <1>3, <1>4

\* A call that succeeds adds its part to what was prepared.
LEMMA SuccessPrepares ==
  ASSUME NEW k \in 1..5, Prepared(k - 1), Succeed(Calls[k]),
         inited \subseteq Channels, started \subseteq Channels
  PROVE  Prepared(k)' /\ inited' \subseteq Channels /\ started' \subseteq Channels
<1> USE CallNames DEF Prepared, Succeed, CanSucceed, ChannelOf, Channels
<1>1. CASE k = 1
  BY <1>1
<1>2. CASE k = 2
  BY <1>2
<1>3. CASE k = 3
  BY <1>3
<1>4. CASE k = 4
  BY <1>4
<1>5. CASE k = 5
  BY <1>5
<1>6. QED  BY <1>1, <1>2, <1>3, <1>4, <1>5

\* A driver call.
LEMMA CallKeeps ==
  ASSUME BridgeInv, NEW k \in 1..5, CallDriver(k)
  PROVE  BridgeInv'
<1>1. BeforeCall(k)
  BY PlacesDiffer DEF BridgeInv, CallDriver, Polls, BeforeCall, AfterCall
<1>2. frames' = 0 /\ callback' = Idle /\ can_f' = 0
  BY <1>1 DEF BridgeInv, CallDriver, Succeed, Fail, BeforeCall, bounds
<1>3. CASE Succeed(Calls[k])
  <2>1. Prepared(k)' /\ inited' \subseteq Channels /\ started' \subseteq Channels
    BY <1>1, <1>3, SuccessPrepares DEF BridgeInv, BeforeCall
  <2>2. dwRel' = 1 /\ pc' = Test(k, 1)
    BY <1>3 DEF CallDriver, Succeed
  <2>3. AfterCall(k)'
    BY <1>2, <2>1, <2>2 DEF AfterCall
  <2>4. QED  BY <1>2, <2>1, <2>3 DEF BridgeInv
<1>4. CASE Fail(Calls[k])
  <2>1. dwRel' = 0 /\ pc' = Test(k, 0) /\ inited' = inited /\ started' = started
    BY <1>4 DEF CallDriver, Fail, box
  <2>2. AfterCall(k)'
    BY <1>2, <2>1 DEF AfterCall
  <2>3. QED  BY <1>2, <2>1, <2>2 DEF BridgeInv
<1>5. QED  BY <1>3, <1>4 DEF CallDriver

\* The test of a call's result, which nobody has overwritten.
LEMMA TestKeeps ==
  ASSUME BridgeInv, NEW k \in 1..5, NEW result \in {0, 1}, TestResult(k, result)
  PROVE  BridgeInv'
<1>1. AfterCall(k) /\ dwRel = result /\ (result = 1 => Prepared(k))
  BY PlacesDiffer DEF BridgeInv, TestResult, Polls, BeforeCall, AfterCall
<1>2. /\ frames' = 0 /\ callback' = Idle /\ inited' = inited /\ started' = started
      /\ \A j \in 1..5 : Prepared(j)' <=> Prepared(j)
  BY DEF BridgeInv, TestResult, bounds, box, Prepared
<1>3. CASE result # 1
  <2>1. can_f' = 0 /\ pc' = <<"loop">>
    BY <1>1, <1>3 DEF TestResult, Return
  <2>2. Polls'
    BY <2>1 DEF Polls, Polling
  <2>3. QED  BY <1>2, <2>2 DEF BridgeInv
<1>4. CASE result = 1 /\ k < 5
  <2>1. can_f' = can_f /\ pc' = Call(k + 1)
    BY <1>1, <1>4, CallNames DEF TestResult
  <2>2. k + 1 \in 1..5 /\ (k + 1) - 1 = k
    BY <1>4
  <2>3. BeforeCall(k + 1)'
    BY <1>1, <1>2, <1>4, <2>1, <2>2 DEF BeforeCall, AfterCall
  <2>4. QED  BY <1>2, <2>2, <2>3 DEF BridgeInv
<1>5. CASE result = 1 /\ k = 5
  <2>1. can_f' = 1 /\ pc' = <<"loop">>
    BY <1>1, <1>5, CallNames DEF TestResult, Return
  <2>2. Polls'
    BY <1>1, <1>2, <1>5, <2>1 DEF Polls, Polling
  <2>3. QED  BY <1>2, <2>2 DEF BridgeInv
<1>6. QED  BY <1>3, <1>4, <1>5

\* The loop, the sleep and a poll.
LEMMA PollKeeps ==
  ASSUME BridgeInv, CheckOk \/ Wake \/ \E c \in Channels : Receive(c)
  PROVE  BridgeInv'
<1> USE DEF CheckOk, Wake, Receive, Polling
<1>1. pc \in Polling
  BY DEF Channels
<1>2. Polls
  BY <1>1, PlacesDiffer DEF BridgeInv, BeforeCall, AfterCall
<1>3. /\ frames' = 0 /\ callback' = Idle /\ inited' = inited /\ started' = started
      /\ \A j \in 0..5 : Prepared(j)' <=> Prepared(j)
  BY DEF BridgeInv, bounds, box, Prepared
<1>4. CASE CheckOk
  <2>1. Polls'
    BY <1>2, <1>3, <1>4 DEF Polls
  <2>2. QED  BY <1>3, <2>1 DEF BridgeInv
<1>5. CASE Wake
  <2>1. CASE can_f = 0
    <3>1. pc' = Call(1) /\ can_f' = 0
      BY <1>5, <2>1
    <3>2. BeforeCall(1)'
      BY <3>1 DEF BeforeCall, Prepared
    <3>3. QED  BY <1>3, <3>2 DEF BridgeInv
  <2>2. CASE can_f # 0
    <3>1. Polls'
      BY <1>2, <1>3, <1>5, <2>2 DEF Polls
    <3>2. QED  BY <1>3, <3>1 DEF BridgeInv
  <2>3. QED  BY <2>1, <2>2
<1>6. ASSUME NEW c \in Channels, Receive(c)
      PROVE  BridgeInv'
  <2>1. pc' \in Polling
    BY <1>6 DEF PollAfter, Channels
  <2>2. can_f' \in {0, can_f}
    BY <1>6 DEF AfterLoss
  <2>3. Polls'
    BY <1>2, <1>3, <2>1, <2>2 DEF Polls
  <2>4. QED  BY <1>3, <2>3 DEF BridgeInv
<1>7. QED  BY <1>4, <1>5, <1>6

\* Steps of others leave the receive thread where it is; a box that is pulled
\* out is no longer open.
LEMMA OthersKeep ==
  ASSUME BridgeInv,
         \/ \E c \in Channels : Transmit(c) \/ BusFrame(c)
         \/ StoreResult \/ Unplug \/ Plug \/ Shutdown \/ UNCHANGED bridgeVars
  PROVE  BridgeInv'
<1>1. ~StoreResult /\ \A c \in Channels : ~Transmit(c)
  BY DEF BridgeInv, StoreResult, Transmit, Idle
<1>2. /\ frames' = 0 /\ callback' = Idle /\ pc' = pc /\ can_f' = can_f /\ dwRel' = dwRel
      /\ inited' \subseteq Channels /\ started' \subseteq Channels
      /\ \A j \in Int : Prepared(j) => Prepared(j)'
  <2>1. CASE Unplug
    BY <2>1 DEF BridgeInv, Unplug, Prepared
  <2>2. CASE Plug \/ Shutdown \/ UNCHANGED bridgeVars \/ \E c \in Channels : BusFrame(c)
    BY <2>2 DEF BridgeInv, Plug, Shutdown, BusFrame, bridgeVars, bounds, box, Prepared
  <2>3. QED  BY <1>1, <2>1, <2>2
<1>3. CASE Polls
  BY <1>2, <1>3 DEF BridgeInv, Polls
<1>4. ASSUME NEW k \in 1..5, BeforeCall(k)
      PROVE  BridgeInv'
  BY <1>2, <1>4 DEF BridgeInv, BeforeCall
<1>5. ASSUME NEW k \in 1..5, AfterCall(k)
      PROVE  BridgeInv'
  BY <1>2, <1>5 DEF BridgeInv, AfterCall
<1>6. QED  BY <1>3, <1>4, <1>5 DEF BridgeInv

\* While nothing is transmitted, a bridge that takes an open box for open has
\* both channels running: Init_Can's five tests see the results of its calls.
THEOREM OpenIsRunning == ASSUME Quiet PROVE BridgeSpec => []OpenMeansRunning
<1>1. BridgeInit => BridgeInv
  <2> SUFFICES ASSUME BridgeInit PROVE BridgeInv
    OBVIOUS
  <2>1. frames = 0 /\ callback = Idle /\ inited \subseteq Channels /\ started \subseteq Channels
    BY DEF BridgeInit, Quiet
  <2>2. BeforeCall(1)
    BY DEF BridgeInit, BeforeCall, Prepared
  <2>3. QED  BY <2>1, <2>2 DEF BridgeInv
<1>2. BridgeInv /\ [BridgeNext]_bridgeVars => BridgeInv'
  <2> SUFFICES ASSUME BridgeInv, [BridgeNext]_bridgeVars PROVE BridgeInv'
    OBVIOUS
  <2>1. ASSUME NEW k \in 1..Len(Calls),
               CallDriver(k) \/ \E result \in {0, 1} : TestResult(k, result)
        PROVE  BridgeInv'
    BY <2>1, CallNames, CallKeeps, TestKeeps
  <2>2. CASE CheckOk \/ Wake \/ \E c \in Channels : Receive(c)
    BY <2>2, PollKeeps
  <2>3. CASE \/ \E c \in Channels : Transmit(c) \/ BusFrame(c)
             \/ StoreResult \/ Unplug \/ Plug \/ Shutdown \/ Ended \/ UNCHANGED bridgeVars
    BY <2>3, OthersKeep DEF Ended
  <2>4. QED  BY <2>1, <2>2, <2>3 DEF BridgeNext, ReceiveThread
<1>3. BridgeInv => OpenMeansRunning
  <2> SUFFICES ASSUME BridgeInv, can_f = 1, opened, pc[1] # "call", pc[1] # "test"
               PROVE  started = Channels
    BY DEF OpenMeansRunning
  <2>1. Polls
    BY DEF BridgeInv, BeforeCall, AfterCall
  <2>2. 1 \in started /\ 2 \in started
    BY <2>1 DEF Polls, Prepared
  <2>3. QED  BY <2>2 DEF BridgeInv, Channels
<1>4. QED  BY <1>1, <1>2, <1>3, PTL DEF BridgeSpec

-----------------------------------------------------------------------------
\* A number's digits, by the weights that the frame has places for.
LEMMA LowestDigit ==
  ASSUME NEW n \in Int
  PROVE  Digit(n, 0) = n % 16
<1>1. n \div 1 = n
  <2>1. n * 1 + 0 = n /\ 1 \in Nat \ {0} /\ 0 \in 0..1 - 1
    OBVIOUS
  <2>2. QED  BY <2>1, DivModIs
<1>2. Weights[0 + 1] = 1
  BY DEF Weights
<1>3. Digit(n, 0) = (n \div Weights[0 + 1]) % 16
  BY DEF Digit
<1>4. QED  BY <1>1, <1>2, <1>3

LEMMA NextDigit ==
  ASSUME NEW n \in Int
  PROVE  Digit(n, 1) = (n \div 16) % 16
<1>1. Weights[1 + 1] = 16
  BY DEF Weights
<1>2. QED  BY <1>1 DEF Digit

\* What is left of a number without its low digit, without its low three digits,
\* and the byte between the low digit and the high one.
WithoutLow(n) == n \div 16
WithoutPage(n) == n \div Weights[4]
MidByte(n) == (n \div 16) % 256

LEMMA PageWeight ==
  Weights[4] = 4096 /\ Weights[4] \in Nat \ {0}
BY DEF Weights

LEMMA HighestDigit ==
  ASSUME NEW n \in Int
  PROVE  Digit(n, 3) = WithoutPage(n) % 16
<1>1. 3 + 1 = 4
  OBVIOUS
<1>2. QED  BY <1>1 DEF Digit, WithoutPage

LEMMA DigitsFit ==
  ASSUME NEW n \in Int
  PROVE  Digit(n, 0) \in 0..15 /\ Digit(n, 3) \in 0..15
<1>1. 16 \in Nat \ {0}
  OBVIOUS
<1> DEFINE d == WithoutPage(n)
<1>2. d \in Int
  BY PageWeight, DivMod DEF WithoutPage
<1>3. Digit(n, 0) = n % 16 /\ Digit(n, 3) = d % 16
  BY LowestDigit, HighestDigit
<1> HIDE DEF d
<1>4. n % 16 \in 0..16 - 1 /\ d % 16 \in 0..16 - 1
  BY <1>1, <1>2, DivMod
<1>5. QED  BY <1>3, <1>4

LEMMA LowDigit ==
  ASSUME NEW n \in Int
  PROVE  WithoutLow(n) \in Int /\ WithoutLow(n) * 16 + Digit(n, 0) = n
<1>1. n % 16 = Digit(n, 0)
  BY LowestDigit
<1>2. 16 \in Nat \ {0}
  OBVIOUS
<1>3. n \div 16 \in Int /\ (n \div 16) * 16 + (n % 16) = n
  BY <1>2, DivMod
<1>4. QED  BY <1>1, <1>3 DEF WithoutLow

LEMMA MiddleByte ==
  ASSUME NEW n \in Int
  PROVE  MidByte(n) \in 0..255 /\ \E b \in Int : b * 256 + MidByte(n) = WithoutLow(n)
<1> DEFINE a == n \div 16
<1>1. 256 \in Nat \ {0} /\ 256 - 1 = 255
  OBVIOUS
<1>2. a \in Int
  BY LowDigit DEF WithoutLow
<1> HIDE DEF a
<1>3. a % 256 \in 0..256 - 1 /\ a \div 256 \in Int /\ (a \div 256) * 256 + (a % 256) = a
  BY <1>1, <1>2, DivMod
<1>4. MidByte(n) = a % 256 /\ WithoutLow(n) = a
  BY DEF MidByte, WithoutLow, a
<1>5. MidByte(n) \in 0..255
  BY <1>1, <1>3, <1>4
<1>6. QED  BY <1>3, <1>4, <1>5

LEMMA HighDigit ==
  ASSUME NEW n \in Int
  PROVE  \E c \in Int : c * 16 + Digit(n, 3) = WithoutPage(n)
<1> DEFINE d == WithoutPage(n)
<1>1. 16 \in Nat \ {0}
  OBVIOUS
<1>2. d \in Int
  BY PageWeight, DivMod DEF WithoutPage
<1>3. d % 16 = Digit(n, 3)
  BY HighestDigit
<1>4. WithoutPage(n) = d
  OBVIOUS
<1> HIDE DEF d
<1>5. d \div 16 \in Int /\ (d \div 16) * 16 + (d % 16) = d
  BY <1>1, <1>2, DivMod
<1>6. QED  BY <1>3, <1>4, <1>5

\* The digits of sixteen bits are those of the number, whole turns of 65536
\* away from it.
LEMMA SixteenBits ==
  ASSUME NEW n \in Int
  PROVE  \E k \in Int : n = 65536 * k + 4096 * Digit(n, 3) + 16 * MidByte(n) + Digit(n, 0)
<1>1. Digit(n, 0) \in 0..15 /\ Digit(n, 3) \in 0..15
  BY DigitsFit
<1>2. WithoutLow(n) \in Int /\ WithoutLow(n) * 16 + Digit(n, 0) = n
  BY LowDigit
<1>3. MidByte(n) \in 0..255
  BY MiddleByte
<1>4. PICK b \in Int : b * 256 + MidByte(n) = WithoutLow(n)
  BY MiddleByte
<1>5. PICK c \in Int : c * 16 + Digit(n, 3) = WithoutPage(n)
  BY HighDigit
<1>6. b = WithoutPage(n)
  <2> DEFINE rest == 16 * MidByte(n) + Digit(n, 0)
  <2>1. b * 4096 + rest = n /\ rest \in Int /\ 0 <= rest /\ rest < 4096
    <3>1. b * 4096 + rest = n
      BY <1>1, <1>2, <1>3, <1>4
    <3>2. rest \in Int /\ 0 <= rest /\ rest < 4096
      <4>1. MidByte(n) \in Int /\ 0 <= MidByte(n) /\ MidByte(n) <= 255
        BY <1>3
      <4>2. Digit(n, 0) \in Int /\ 0 <= Digit(n, 0) /\ Digit(n, 0) <= 15
        BY <1>1
      <4>3. QED  BY <4>1, <4>2
    <3>3. QED  BY <3>1, <3>2
  <2> HIDE DEF rest
  <2> DEFINE w == Weights[4]
  <2>2. w \in Nat \ {0} /\ b * w + rest = n /\ rest \in 0..w - 1
    BY <2>1, PageWeight
  <2>3. WithoutPage(n) = n \div w
    BY DEF WithoutPage
  <2> HIDE DEF w
  <2>4. QED  BY <2>2, <2>3, DivModIs
<1>7. n = 65536 * c + 4096 * Digit(n, 3) + 16 * MidByte(n) + Digit(n, 0)
  BY <1>1, <1>2, <1>3, <1>4, <1>5, <1>6
<1>8. QED  BY <1>7

LEMMA UInt16Is ==
  ASSUME NEW s \in UInt16
  PROVE  s \in Int /\ 0 <= s /\ s < 65536
<1>1. SignBit \in Int /\ 2 * SignBit = 65536
  BY DEF SignBit
<1>2. s \in 0 .. 2 * SignBit - 1
  BY DEF UInt16
<1>3. QED  BY <1>1, <1>2

LEMMA Int16Is ==
  ASSUME NEW a \in Int16
  PROVE  a \in Int /\ 0 <= a + 32768 /\ a < 32768
<1>1. SignBit \in Int /\ SignBit = 32768
  BY DEF SignBit
<1>2. a \in -SignBit .. SignBit - 1
  BY DEF Int16
<1>3. a \in Int /\ -SignBit <= a /\ a < SignBit
  <2>1. SignBit \in Int
    BY <1>1
  <2>2. QED  BY <1>2, <2>1
<1>4. QED  BY <1>1, <1>3

\* Sixteen bits that a signal fits are the signal.
LEMMA UnsignedBits ==
  ASSUME NEW s \in UInt16, NEW k \in Int, NEW bits \in Int,
         0 <= bits, bits < 65536, s = 65536 * k + bits
  PROVE  bits = s
<1>1. s \in Int /\ 0 <= s /\ s < 65536
  BY UInt16Is
<1>2. QED  BY <1>1

LEMMA SignedBits ==
  ASSUME NEW a \in Int16, NEW k \in Int, NEW bits \in Int,
         0 <= bits, bits < 65536, a = 65536 * k + bits
  PROVE  Signed(bits) = a
<1>1. a \in Int /\ 0 <= a + 32768 /\ a < 32768
  BY Int16Is
<1>2. QED  BY <1>1 DEF Signed

\* A checksum at the end leaves the bytes before it alone.
LEMMA BytesBeforeLast ==
  ASSUME NEW b1, NEW b2, NEW b3, NEW b4, NEW b5, NEW b6, NEW b7, NEW last
  PROVE  LET bytes == Append(<<b1, b2, b3, b4, b5, b6, b7>>, last)
         IN  bytes[1] = b1 /\ bytes[2] = b2 /\ bytes[3] = b3 /\ bytes[4] = b4 /\ bytes[5] = b5
OBVIOUS

\* What the chassis writes into a frame is what the driver reads from it: every
\* gear, speed and angle that the signals have room for.
LEMMA FrameReadBack ==
  ASSUME NEW gear \in {"disable", "P", "R", "N", "D"},
         NEW s \in UInt16, NEW a \in Int16
  PROVE  LET fb == ParseCtrlFb(CtrlFrameBytes(gear, s, a, 0))
         IN  fb.gear = gear /\ fb.speed = s /\ fb.angle = a
<1> DEFINE number == CHOOSE g \in DOMAIN Gears : Gears[g] = gear
<1>0. s \in Int /\ a \in Int
  BY UInt16Is, Int16Is
<1>1. 16 \in Nat \ {0} /\ 256 \in Nat \ {0}
  OBVIOUS
<1>2. number \in 1..5 /\ Gears[number] = gear /\ Len(Gears) = 5
  <2>1. /\ DOMAIN Gears = 1..5 /\ Len(Gears) = 5 /\ Gears[1] = "disable" /\ Gears[2] = "P"
        /\ Gears[3] = "R" /\ Gears[4] = "N" /\ Gears[5] = "D"
    BY DEF Gears
  <2>2. \E g \in DOMAIN Gears : Gears[g] = gear
    BY <2>1
  <2>3. number \in DOMAIN Gears /\ Gears[number] = gear
    BY <2>2
  <2>4. QED  BY <2>1, <2>3
<1> HIDE DEF number
<1> DEFINE data == CtrlFrameBytes(gear, s, a, 0)
           fb == ParseCtrlFb(data)
           low == Digit(s, 0)
           mid == MidByte(s)
           high == Digit(s, 3)
           alow == Digit(a, 0)
           amid == MidByte(a)
           ahigh == Digit(a, 3)
<1>3. low \in 0..15 /\ high \in 0..15 /\ alow \in 0..15 /\ ahigh \in 0..15
  BY <1>0, DigitsFit
<1>4. mid \in 0..255 /\ amid \in 0..255
  BY <1>0, MiddleByte
<1>5. PICK k \in Int : s = 65536 * k + 4096 * high + 16 * mid + low
  BY <1>0, SixteenBits
<1>6. PICK j \in Int : a = 65536 * j + 4096 * ahigh + 16 * amid + alow
  BY <1>0, SixteenBits
<1>7. /\ data[1] = number - 1 + 16 * low /\ data[2] = mid /\ data[3] = high + 16 * alow
      /\ data[4] = amid /\ data[5] = ahigh
  <2> DEFINE body == <<number - 1 + 16 * Digit(s, 0), MidByte(s),
                       Digit(s, 3) + 16 * Digit(a, 0), MidByte(a), Digit(a, 3), 0,
                       16 * Digit(0, 0)>>
  <2>1. data = Append(body, Checksum(body))
    BY DEF CtrlFrameBytes, number, MidByte
  <2> DEFINE c == Checksum(body)
  <2>2. data = Append(body, c)
    BY <2>1
  <2> HIDE DEF data, c
  <2>3. /\ Append(body, c)[1] = number - 1 + 16 * low /\ Append(body, c)[2] = mid
        /\ Append(body, c)[3] = high + 16 * alow /\ Append(body, c)[4] = amid
        /\ Append(body, c)[5] = ahigh
    BY BytesBeforeLast
  <2>4. QED  BY <2>2, <2>3
<1> HIDE DEF data, low, mid, high, alow, amid, ahigh
<1>8. /\ Digit(data[1], 0) = number - 1 /\ Digit(data[1], 1) = low
      /\ Digit(data[3], 0) = high /\ Digit(data[3], 1) = alow /\ Digit(data[5], 0) = ahigh
  <2>1. ASSUME NEW p \in 0..15, NEW q \in 0..15, NEW x \in Int, x = q * 16 + p
        PROVE  Digit(x, 0) = p /\ Digit(x, 1) = q
    <3>1. x \div 16 = q /\ x % 16 = p
      BY <2>1, 16 \in Nat \ {0}, 0..15 = 0..16 - 1, DivModIs
    <3>2. q % 16 = q
      BY 0 * 16 + q = q, 16 \in Nat \ {0}, 0..15 = 0..16 - 1, DivModIs
    <3>3. QED  BY <2>1, <3>1, <3>2, LowestDigit, NextDigit
  <2>2. Digit(data[1], 0) = number - 1 /\ Digit(data[1], 1) = low
    <3>1. number - 1 \in 0..15 /\ data[1] \in Int /\ data[1] = low * 16 + (number - 1)
      BY <1>2, <1>3, <1>7
    <3>2. QED  BY <1>3, <2>1, <3>1
  <2>3. Digit(data[3], 0) = high /\ Digit(data[3], 1) = alow
    <3>1. data[3] \in Int /\ data[3] = alow * 16 + high
      BY <1>3, <1>7
    <3>2. QED  BY <1>3, <2>1, <3>1
  <2>4. Digit(data[5], 0) = ahigh
    <3>1. data[5] \in Int /\ data[5] = 0 * 16 + ahigh /\ 0 \in 0..15
      BY <1>3, <1>7
    <3>2. QED  BY <1>3, <2>1, <3>1
  <2>5. QED  BY <2>2, <2>3, <2>4
<1>9. fb.gear = IF Digit(data[1], 0) < Len(Gears) THEN Gears[Digit(data[1], 0) + 1] ELSE ""
  BY DEF ParseCtrlFb
<1>a. fb.speed = 4096 * Digit(data[3], 0) + 16 * data[2] + Digit(data[1], 1)
  BY DEF ParseCtrlFb
<1>b. fb.angle = Signed(4096 * Digit(data[5], 0) + 16 * data[4] + Digit(data[3], 1))
  BY DEF ParseCtrlFb
<1> HIDE DEF fb
<1>10. fb.gear = gear
  <2>1. Digit(data[1], 0) < Len(Gears) /\ Digit(data[1], 0) + 1 = number
    BY <1>2, <1>8
  <2>2. fb.gear = Gears[Digit(data[1], 0) + 1]
    BY <1>9, <2>1
  <2>3. Gears[Digit(data[1], 0) + 1] = Gears[number]
    BY <2>1, Zenon
  <2>4. Gears[number] = gear
    BY <1>2
  <2>5. QED  BY <2>2, <2>3, <2>4, Zenon
<1>11. fb.speed = s
  <2>1. fb.speed = 4096 * high + 16 * mid + low
    BY <1>7, <1>8, <1>a
  <2> DEFINE bits == 4096 * high + 16 * mid + low
  <2>2. bits \in Int /\ 0 <= bits /\ bits < 65536 /\ s = 65536 * k + bits
    BY <1>3, <1>4, <1>5
  <2>3. fb.speed = bits
    BY <2>1
  <2> HIDE DEF bits
  <2>4. QED  BY <2>2, <2>3, UnsignedBits
<1>12. fb.angle = a
  <2>1. fb.angle = Signed(4096 * ahigh + 16 * amid + alow)
    BY <1>7, <1>8, <1>b
  <2> DEFINE bits == 4096 * ahigh + 16 * amid + alow
  <2>2. bits \in Int /\ 0 <= bits /\ bits < 65536 /\ a = 65536 * j + bits
    BY <1>3, <1>4, <1>6
  <2>3. fb.angle = Signed(bits)
    BY <2>1
  <2> HIDE DEF bits
  <2>4. QED  BY <2>2, <2>3, SignedBits
<1>13. QED  BY <1>10, <1>11, <1>12 DEF fb, data

-----------------------------------------------------------------------------
\* A nonempty set of numbers with a bound has a largest one.
LEMMA LargestOf ==
  ASSUME NEW n \in Nat, NEW S \in SUBSET (0..n), S # {}
  PROVE  Max(S) \in S /\ \A y \in S : Max(S) >= y
<1> DEFINE Less == {ss \in Nat \X Nat : ss[1] < ss[2]}
           mirrored == {n - k : k \in S}
<1>0. IsWellFoundedOn(Less, Nat)
  BY NatLessThanWellFounded DEF OpToRel
<1>1. mirrored \in SUBSET Nat /\ mirrored # {}
  <2>1. \A k \in S : k \in 0..n /\ n - k \in Nat
    OBVIOUS
  <2>2. QED  BY <2>1, Zenon
<1>2. PICK m \in mirrored : \A y \in mirrored : ~(<<y, m>> \in Less)
  <2> HIDE DEF Less, mirrored
  <2>1. QED  BY <1>0, <1>1, WFMin
<1>3. PICK k \in S : m = n - k
  BY <1>2
<1>4. ASSUME NEW y \in S
      PROVE  k >= y
  <2>1. n - y \in mirrored /\ n - y \in Nat /\ m \in Nat
    BY <1>1
  <2>2. ~(n - y < m)
    BY <1>2, <2>1
  <2>3. k \in 0..n /\ y \in 0..n
    OBVIOUS
  <2>4. QED  BY <1>3, <2>2, <2>3
<1>5. QED  BY <1>4, Zenon DEF Max

\* No report is faster than the fastest.
LEMMA FastestReported ==
  /\ MaxReported \in Nat
  /\ \A r \in Reports : r.speed \in Nat /\ r.speed <= MaxReported
<1> DEFINE speeds == {r.speed : r \in Reports}
<1>1. \A r \in Reports : r.speed \in UInt16
  BY FeedbackAssumption DEF Signals
<1> DEFINE n == 65536
<1>2. ASSUME NEW v \in UInt16
      PROVE  v \in Nat /\ v <= n
  BY UInt16Is
<1>3. n \in Nat
  OBVIOUS
<1> HIDE DEF n
<1>4. speeds \in SUBSET (0..n) /\ speeds # {}
  <2>1. speeds # {}
    BY FeedbackAssumption
  <2>2. \A r \in Reports : r.speed \in 0..n
    BY <1>1, <1>2, <1>3
  <2>3. QED  BY <2>1, <2>2
<1> HIDE DEF speeds
<1>5. Max(speeds) \in speeds /\ \A v \in speeds : Max(speeds) >= v
  BY <1>3, <1>4, LargestOf
<1>6. \A v \in speeds : v \in Nat
  BY <1>3, <1>4
<1>7. MaxReported = Max(speeds)
  BY DEF MaxReported, speeds
<1>8. \A r \in Reports : r.speed \in speeds
  BY DEF speeds
<1>9. MaxReported \in Nat
  BY <1>5, <1>6, <1>7
<1>10. ASSUME NEW r \in Reports
       PROVE  r.speed \in Nat /\ r.speed <= MaxReported
  BY <1>5, <1>6, <1>7, <1>8, <1>9
<1>11. QED  BY <1>9, <1>10

\* Whole turns bring any angle back into one.
LEMMA OneTurn ==
  ASSUME NEW angle \in Int
  PROVE  normalizeAngle(angle) \in -HalfTurn .. HalfTurn
<1> DEFINE h == HalfTurn
           turn == 2 * HalfTurn
<1>1. h \in Nat \ {0} /\ turn \in Nat \ {0} /\ turn = 2 * h
  BY FeedbackAssumption
<1>2. CASE angle > HalfTurn
  <2> DEFINE x == HalfTurn - angle
             y == x % turn
  <2>1. x \in Int
    BY <1>1
  <2>2. normalizeAngle(angle) = h - y
    BY <1>2 DEF normalizeAngle
  <2> HIDE DEF x, turn, h
  <2>3. y \in 0..turn - 1
    BY <1>1, <2>1, DivMod
  <2> HIDE DEF y
  <2>4. h - y \in -h .. h
    BY <1>1, <2>3
  <2>5. QED  BY <2>2, <2>4 DEF h
<1>3. CASE angle < -HalfTurn
  <2> DEFINE x == angle + HalfTurn
             y == x % turn
  <2>1. x \in Int /\ ~(angle > HalfTurn)
    BY <1>1, <1>3
  <2>2. normalizeAngle(angle) = y - h
    BY <1>3, <2>1 DEF normalizeAngle
  <2> HIDE DEF x, turn, h
  <2>3. y \in 0..turn - 1
    BY <1>1, <2>1, DivMod
  <2> HIDE DEF y
  <2>4. y - h \in -h .. h
    BY <1>1, <2>3
  <2>5. QED  BY <2>2, <2>4 DEF h
<1>4. CASE ~(angle > HalfTurn) /\ ~(angle < -HalfTurn)
  BY <1>1, <1>4 DEF normalizeAngle
<1>5. QED  BY <1>2, <1>3, <1>4

\* The distance of one step is bounded by the fastest speed.
LEMMA StepBounded ==
  ASSUME NEW fastest \in Nat, NEW v \in Int, NEW time \in Nat,
         v <= fastest, -v <= fastest
  PROVE  v * time <= fastest * time /\ -(v * time) <= fastest * time
<1>1. (fastest - v) * time >= 0 /\ (fastest + v) * time >= 0
  OBVIOUS
<1>2. QED  BY <1>1

-----------------------------------------------------------------------------
\* The speed a report stands for: reversing is negative.
Meant(r) == IF r.gear = "R" THEN -r.speed ELSE r.speed

\* What is left of a report when its frame has been read.
LEMMA ReportSays ==
  ASSUME NEW r \in Signals, Report(r)
  PROVE  /\ reported' = r
         /\ car_msg' = [car_msg EXCEPT !.speed = Meant(r), !.angle = r.angle]
         /\ published' = car_msg'
         /\ CalculateAndPublished(Meant(r), r.angle)
         /\ UNCHANGED <<elapsed, jumps, last_level>>
<1> DEFINE fb == ParseCtrlFb(CtrlFrameBytes(r.gear, r.speed, r.angle, 0))
           speed == IF fb.gear = "R" THEN -fb.speed ELSE fb.speed
<1>1. r.gear \in {"disable", "P", "R", "N", "D"} /\ r.speed \in UInt16 /\ r.angle \in Int16
  BY DEF Signals
<1>2. fb.gear = r.gear /\ fb.speed = r.speed /\ fb.angle = r.angle
  BY <1>1, FrameReadBack
<1>3. /\ reported' = r
      /\ CalculateAndPublished(speed, fb.angle)
      /\ car_msg' = [car_msg EXCEPT !.speed = speed, !.angle = fb.angle]
      /\ published' = car_msg'
      /\ UNCHANGED <<elapsed, jumps, last_level>>
  BY DEF Report, can_tx_ctrl_fb
<1> HIDE DEF fb
<1>4. speed = Meant(r)
  BY <1>2 DEF Meant
<1> HIDE DEF speed
<1>5. QED  BY <1>2, <1>3, <1>4

\* The time that the next step would integrate over.
PendingAt(d) == IF d <= 0 THEN 0 ELSE Min({d, MaxDt})
Pending == PendingAt(dt)

FeedbackTypes ==
    /\ dt \in Int /\ path \in Int /\ theta_ \in -HalfTurn .. HalfTurn
    /\ elapsed \in Nat /\ jumps \in Nat
    /\ car_msg \in [speed : Int, angle : Int, battery : Int]

\* Nothing is integrated before time has passed, by itself or by a clock set.
NothingPending == elapsed = 0 /\ jumps = 0 => dt <= 0

\* The path and what the next step may add to it stay within what the wheels
\* went and one limited step for each time the clock was set.
PathBehind ==
    Magnitude(path) + MaxReported * Pending <= MaxReported * (elapsed + MaxDt * jumps)

\* The one message object remembers the battery between its frames.
BatteryRemembered == car_msg.battery = last_level

FeedbackInv == FeedbackTypes /\ NothingPending /\ PathBehind /\ BatteryRemembered

\* A limited step is one of the two times.
LEMMA PendingAtIs ==
  ASSUME NEW d \in Int
  PROVE  /\ PendingAt(d) \in Nat /\ PendingAt(d) <= MaxDt
         /\ d <= 0 => PendingAt(d) = 0
         /\ d > 0 => PendingAt(d) <= d
         /\ d > 0 => PendingAt(d) = d \/ PendingAt(d) = MaxDt
<1>1. MaxDt \in Nat
  BY FeedbackAssumption
<1>2. CASE d <= 0
  BY <1>1, <1>2 DEF PendingAt
<1>3. CASE d > 0
  <2>1. \E x \in {d, MaxDt} : \A y \in {d, MaxDt} : x <= y
    <3>1. CASE d <= MaxDt
      BY <1>1, <3>1
    <3>2. CASE ~(d <= MaxDt)
      BY <1>1, <3>2
    <3>3. QED  BY <3>1, <3>2
  <2>2. Min({d, MaxDt}) \in {d, MaxDt} /\ \A y \in {d, MaxDt} : Min({d, MaxDt}) <= y
    BY <2>1, Zenon DEF Min
  <2>3. PendingAt(d) = Min({d, MaxDt})
    BY <1>3 DEF PendingAt
  <2>4. QED  BY <1>1, <1>3, <2>2, <2>3
<1>4. QED  BY <1>2, <1>3

\* What may be pending grows by no more than what the bound grows by.
LEMMA ReachGrows ==
  ASSUME NEW fastest \in Nat, NEW m \in Int, NEW pending \in Nat, NEW next \in Nat,
         NEW reach \in Nat, NEW more \in Nat, m + fastest * pending <= fastest * reach,
         next <= pending + more
  PROVE  m + fastest * next <= fastest * (reach + more)
<1>1. fastest * (pending + more - next) >= 0
  OBVIOUS
<1>2. QED  BY <1>1

LEMMA FeedbackStarts ==
  FeedbackInit => FeedbackInv
<1> SUFFICES ASSUME FeedbackInit
             PROVE  FeedbackInv
  OBVIOUS
<1>1. FeedbackTypes
  BY FeedbackAssumption DEF FeedbackInit, FeedbackTypes
<1>2. NothingPending /\ BatteryRemembered
  BY DEF FeedbackInit, NothingPending, BatteryRemembered
<1>3. PathBehind
  <2>1. Pending = 0 /\ Magnitude(path) = 0 /\ elapsed = 0 /\ jumps = 0
    BY DEF FeedbackInit, Pending, PendingAt, Magnitude
  <2>2. MaxReported \in Nat /\ MaxDt \in Nat
    BY FastestReported, FeedbackAssumption
  <2>3. QED  BY <2>1, <2>2 DEF PathBehind
<1>4. QED  BY <1>1, <1>2, <1>3 DEF FeedbackInv

\* A report of a frame's signals keeps everything, if it is one of the usual ones
\* or comes before any time has passed.
LEMMA ReportKeeps ==
  ASSUME FeedbackInv, NEW r \in Reports \cup Extremes, Report(r),
         r \in Reports \/ (elapsed = 0 /\ jumps = 0)
  PROVE  FeedbackInv'
<1>1. r \in Signals /\ Curvature[r.angle] \in Int
  BY FeedbackAssumption
<1>2. r.speed \in Int /\ r.angle \in Int /\ r.speed \in UInt16
  BY <1>1, UInt16Is, Int16Is DEF Signals
<1>3. Meant(r) \in Int
  BY <1>2 DEF Meant
<1>4. /\ car_msg' = [car_msg EXCEPT !.speed = Meant(r), !.angle = r.angle]
      /\ CalculateAndPublished(Meant(r), r.angle)
      /\ elapsed' = elapsed /\ jumps' = jumps /\ last_level' = last_level
  BY <1>1, ReportSays
<1>5. FeedbackTypes /\ NothingPending /\ PathBehind /\ BatteryRemembered
  BY DEF FeedbackInv
<1>6. MaxReported \in Nat /\ MaxDt \in Nat /\ MinSpeed \in Nat /\ HalfTurn \in Nat \ {0}
  BY FastestReported, FeedbackAssumption
<1>7. /\ car_msg' \in [speed : Int, angle : Int, battery : Int]
      /\ car_msg'.battery = car_msg.battery
  BY <1>2, <1>3, <1>4, <1>5 DEF FeedbackTypes
<1>8. BatteryRemembered'
  BY <1>4, <1>5, <1>7 DEF BatteryRemembered
<1>9. CASE dt <= 0
  <2>1. dt' = dt /\ path' = path /\ theta_' = theta_
    BY <1>4, <1>9 DEF CalculateAndPublished, pose
  <2>2. FeedbackTypes'
    BY <1>4, <1>5, <1>7, <2>1 DEF FeedbackTypes
  <2>3. NothingPending'
    BY <1>4, <1>5, <2>1 DEF NothingPending
  <2>4. Pending' = Pending
    BY <2>1 DEF Pending
  <2>5. PathBehind'
    BY <1>4, <1>5, <2>1, <2>4 DEF PathBehind
  <2>6. QED  BY <1>8, <2>2, <2>3, <2>5 DEF FeedbackInv
<1>10. CASE ~(dt <= 0)
  <2> DEFINE v == IF Magnitude(Meant(r)) < MinSpeed THEN 0 ELSE Meant(r)
  <2>1. /\ path' = path + v * StepTime
        /\ theta_' = normalizeAngle(theta_ + v * Curvature[r.angle] * StepTime)
        /\ dt' = 0
    BY <1>4, <1>10 DEF CalculateAndPublished
  <2>2. v \in Int /\ v <= MaxReported /\ -v <= MaxReported
    <3>1. r \in Reports
      BY <1>5, <1>10 DEF NothingPending
    <3>2. r.speed \in Nat /\ r.speed <= MaxReported
      BY <3>1, FastestReported
    <3>3. Meant(r) \in Int /\ Meant(r) <= MaxReported /\ -Meant(r) <= MaxReported
      BY <1>6, <3>2 DEF Meant
    <3>4. QED  BY <1>6, <3>3
  <2> HIDE DEF v
  <2>3. dt \in Int /\ path \in Int /\ theta_ \in Int /\ elapsed \in Nat /\ jumps \in Nat
    BY <1>5, <1>6 DEF FeedbackTypes
  <2>4. Pending = StepTime /\ Pending \in Nat
    BY <1>10, <2>3, PendingAtIs DEF Pending, PendingAt, StepTime
  <2>5. theta_' \in -HalfTurn .. HalfTurn
    <3> DEFINE angle == theta_ + v * Curvature[r.angle] * StepTime
    <3>1. angle \in Int
      BY <1>1, <2>2, <2>3, <2>4
    <3>2. theta_' = normalizeAngle(angle)
      BY <2>1
    <3> HIDE DEF angle
    <3>3. QED  BY <3>1, <3>2, OneTurn
  <2>6. path' \in Int
    BY <2>1, <2>2, <2>3, <2>4
  <2>7. FeedbackTypes'
    BY <1>4, <1>7, <2>1, <2>3, <2>5, <2>6 DEF FeedbackTypes
  <2>8. NothingPending'
    BY <2>1 DEF NothingPending
  <2>9. PathBehind'
    <3> DEFINE step == v * StepTime
               limit == MaxReported * StepTime
               wheels == MaxReported * (elapsed + MaxDt * jumps)
    <3>1. step <= limit /\ -step <= limit
      BY <1>6, <2>2, <2>4, StepBounded
    <3>2. step \in Int /\ limit \in Int /\ wheels \in Int
      <4>1. StepTime \in Nat
        BY <2>4
      <4>2. step \in Int /\ limit \in Int
        BY <1>6, <2>2, <4>1
      <4>3. wheels \in Int
        BY <1>6, <2>3
      <4>4. QED  BY <4>2, <4>3
    <3>3. Magnitude(path) + limit <= wheels
      BY <1>5, <2>4 DEF PathBehind
    <3>4. path' = path + step
      BY <2>1
    <3>5. Pending' = 0
      BY <2>1 DEF Pending, PendingAt
    <3>6. wheels' = wheels
      BY <1>4 DEF MaxReported
    <3> HIDE DEF step, limit
    <3>7. Magnitude(path') <= wheels
      <4> HIDE DEF wheels
      <4>1. QED  BY <2>3, <3>1, <3>2, <3>3, <3>4 DEF Magnitude
    <3>8. Magnitude(path') \in Int
      BY <2>6 DEF Magnitude
    <3>9. Magnitude(path') + MaxReported * Pending' = Magnitude(path')
      BY <1>6, <3>5, <3>8
    <3>10. QED  BY <1>4, <3>7, <3>9 DEF PathBehind
  <2>10. QED  BY <1>8, <2>7, <2>8, <2>9 DEF FeedbackInv
<1>11. QED  BY <1>9, <1>10

LEMMA TickKeeps ==
  ASSUME FeedbackInv, Tick
  PROVE  FeedbackInv'
<1>1. FeedbackTypes /\ NothingPending /\ PathBehind /\ BatteryRemembered
  BY DEF FeedbackInv
<1>2. /\ elapsed' = elapsed + 1 /\ dt' = dt + 1 /\ path' = path /\ theta_' = theta_
      /\ car_msg' = car_msg /\ jumps' = jumps /\ last_level' = last_level
  BY DEF Tick, pose
<1>3. dt \in Int /\ dt' \in Int /\ path \in Int /\ elapsed \in Nat /\ jumps \in Nat
  BY <1>1, <1>2 DEF FeedbackTypes
<1>4. MaxReported \in Nat /\ MaxDt \in Nat
  BY FastestReported, FeedbackAssumption
<1>5. FeedbackTypes'
  BY <1>1, <1>2 DEF FeedbackTypes
<1>6. NothingPending'
  BY <1>2, <1>3 DEF NothingPending
<1>7. BatteryRemembered'
  BY <1>1, <1>2 DEF BatteryRemembered
<1>8. PathBehind'
  <2>1. Pending = PendingAt(dt) /\ Pending' = PendingAt(dt')
    BY DEF Pending, PendingAt
  <2>2. Pending \in Nat /\ Pending' \in Nat
    BY <1>3, <2>1, PendingAtIs
  <2>3. Pending' <= Pending + 1
    <3>1. CASE dt' <= 0
      BY <1>3, <2>1, <2>2, <3>1, PendingAtIs
    <3>2. CASE dt = 0
      <4>1. Pending' <= 1
        BY <1>2, <1>3, <2>1, <3>2, PendingAtIs
      <4>2. QED  BY <2>2, <4>1
    <3>3. CASE dt > 0
      <4>1. Pending = dt \/ Pending = MaxDt
        BY <1>3, <2>1, <3>3, PendingAtIs
      <4>2. Pending' <= dt' /\ Pending' <= MaxDt
        BY <1>2, <1>3, <2>1, <3>3, PendingAtIs
      <4>3. QED  BY <1>2, <1>3, <1>4, <2>2, <4>1, <4>2
    <3>4. QED  BY <1>2, <1>3, <3>1, <3>2, <3>3
  <2> DEFINE reach == elapsed + MaxDt * jumps
             m == Magnitude(path)
  <2>4. reach \in Nat /\ m \in Int /\ m + MaxReported * Pending <= MaxReported * reach
    BY <1>1, <1>3, <1>4 DEF PathBehind, Magnitude
  <2>5. elapsed' + MaxDt * jumps' = reach + 1 /\ Magnitude(path') = m
    BY <1>2, <1>3, <1>4
  <2> HIDE DEF reach, m
  <2>6. m + MaxReported * Pending' <= MaxReported * (reach + 1)
    BY <1>4, <2>2, <2>3, <2>4, 1 \in Nat, ReachGrows
  <2>7. QED  BY <2>5, <2>6 DEF PathBehind, MaxReported
<1>9. QED  BY <1>5, <1>6, <1>7, <1>8 DEF FeedbackInv

LEMMA SetClockKeeps ==
  ASSUME FeedbackInv, SetClock
  PROVE  FeedbackInv'
<1>1. FeedbackTypes /\ NothingPending /\ PathBehind /\ BatteryRemembered
  BY DEF FeedbackInv
<1>2. PICK jump \in Jumps : dt' = dt + jump
  BY DEF SetClock
<1>3. /\ jumps' = jumps + 1 /\ path' = path /\ theta_' = theta_ /\ car_msg' = car_msg
      /\ elapsed' = elapsed /\ last_level' = last_level
  BY DEF SetClock, pose
<1>4. dt \in Int /\ jump \in Int /\ path \in Int /\ elapsed \in Nat /\ jumps \in Nat
  BY <1>1, FeedbackAssumption DEF FeedbackTypes
<1>5. dt' \in Int
  BY <1>2, <1>4
<1>6. MaxReported \in Nat /\ MaxDt \in Nat
  BY FastestReported, FeedbackAssumption
<1>7. FeedbackTypes'
  BY <1>1, <1>3, <1>5 DEF FeedbackTypes
<1>8. NothingPending'
  BY <1>3, <1>4 DEF NothingPending
<1>9. BatteryRemembered'
  BY <1>1, <1>3 DEF BatteryRemembered
<1>10. PathBehind'
  <2>1. Pending = PendingAt(dt) /\ Pending' = PendingAt(dt')
    BY DEF Pending, PendingAt
  <2>2. Pending \in Nat /\ Pending' \in Nat /\ Pending' <= MaxDt
    BY <1>4, <1>5, <2>1, PendingAtIs
  <2>3. Pending' <= Pending + MaxDt
    BY <1>6, <2>2
  <2> DEFINE reach == elapsed + MaxDt * jumps
             m == Magnitude(path)
  <2>4. reach \in Nat /\ m \in Int /\ m + MaxReported * Pending <= MaxReported * reach
    BY <1>1, <1>4, <1>6 DEF PathBehind, Magnitude
  <2>5. elapsed' + MaxDt * jumps' = reach + MaxDt /\ Magnitude(path') = m
    BY <1>3, <1>4, <1>6
  <2> HIDE DEF reach, m
  <2>6. m + MaxReported * Pending' <= MaxReported * (reach + MaxDt)
    BY <1>6, <2>2, <2>3, <2>4, ReachGrows
  <2>7. QED  BY <2>5, <2>6 DEF PathBehind, MaxReported
<1>11. QED  BY <1>7, <1>8, <1>9, <1>10 DEF FeedbackInv

LEMMA BatteryKeeps ==
  ASSUME FeedbackInv, NEW level \in Levels, can_tx_battery(level)
  PROVE  FeedbackInv'
<1>1. FeedbackTypes /\ NothingPending /\ PathBehind /\ BatteryRemembered
  BY DEF FeedbackInv
<1>2. /\ dt' = dt /\ path' = path /\ theta_' = theta_ /\ elapsed' = elapsed
      /\ jumps' = jumps /\ last_level' = level
      /\ car_msg' = [car_msg EXCEPT !.battery = level]
  BY DEF can_tx_battery, StoreBattery, pose
<1>3. level \in Int
  BY FeedbackAssumption
<1>4. FeedbackTypes' /\ BatteryRemembered'
  BY <1>1, <1>2, <1>3 DEF FeedbackTypes, BatteryRemembered
<1>5. NothingPending' /\ PathBehind'
  BY <1>1, <1>2 DEF NothingPending, PathBehind, Pending, PendingAt
<1>6. QED  BY <1>4, <1>5 DEF FeedbackInv

LEMMA FeedbackKept ==
  FeedbackInv /\ [FeedbackNext]_feedbackVars => FeedbackInv'
<1> SUFFICES ASSUME FeedbackInv, [FeedbackNext]_feedbackVars
             PROVE  FeedbackInv'
  OBVIOUS
<1>1. CASE \E r \in Reports : Report(r)
  BY <1>1, ReportKeeps
<1>2. CASE elapsed = 0 /\ jumps = 0 /\ \E r \in Extremes : Report(r)
  BY <1>2, ReportKeeps
<1>3. CASE \E level \in Levels : can_tx_battery(level)
  BY <1>3, BatteryKeeps
<1>4. CASE Tick
  BY <1>4, TickKeeps
<1>5. CASE SetClock
  BY <1>5, SetClockKeeps
<1>6. CASE UNCHANGED feedbackVars
  BY <1>6 DEF feedbackVars, pose, FeedbackInv, FeedbackTypes, NothingPending, PathBehind,
     BatteryRemembered, Pending, PendingAt
<1>7. QED  BY <1>1, <1>2, <1>3, <1>4, <1>5, <1>6 DEF FeedbackNext

\* Dead reckoning stays bounded: the heading within one turn and the odometer
\* within what the wheels went and one limited step for each time the clock was
\* set, for every set of reports, curvature and limit (CalculateAndPublished,
\* normalizeAngle).
THEOREM PoseIsBounded == FeedbackSpec => []PoseBounded
<1>1. FeedbackInv => PoseBounded
  <2> SUFFICES ASSUME FeedbackInv
               PROVE  PoseBounded
    OBVIOUS
  <2>1. FeedbackTypes /\ PathBehind
    BY DEF FeedbackInv
  <2>2. MaxReported \in Nat /\ MaxDt \in Nat /\ dt \in Int /\ path \in Int
        /\ elapsed \in Nat /\ jumps \in Nat
    BY <2>1, FastestReported, FeedbackAssumption DEF FeedbackTypes
  <2>3. Pending \in Nat
    BY <2>2, PendingAtIs DEF Pending
  <2> DEFINE pending == MaxReported * Pending
             wheels == MaxReported * (elapsed + MaxDt * jumps)
             m == Magnitude(path)
  <2>4. pending \in Nat /\ wheels \in Nat /\ m \in Int /\ m + pending <= wheels
    BY <2>1, <2>2, <2>3 DEF PathBehind, Magnitude
  <2> HIDE DEF pending
  <2>5. m <= wheels
    <3> HIDE DEF wheels, m
    <3>1. QED  BY <2>4
  <2>6. QED  BY <2>1, <2>5 DEF PoseBounded, FeedbackTypes
<1>2. QED  BY <1>1, FeedbackStarts, FeedbackKept, PTL DEF FeedbackSpec

\* Every message says what the chassis meant, gear, speed and angle, and carries
\* the last battery level, whatever the frames and their order
\* (can_tx_callback, CtrlFrameBytes, ParseCtrlFb).
THEOREM ReportsAreFaithful == FeedbackSpec => ReportsFaithful
<1>1. FeedbackInv /\ [FeedbackNext]_feedbackVars => [ReportStep]_feedbackVars
  <2> SUFFICES ASSUME FeedbackInv, FeedbackNext
               PROVE  ReportStep
    OBVIOUS
  <2>1. ASSUME NEW r \in Reports \cup Extremes, Report(r)
        PROVE  ReportStep
    <3>1. r \in Signals
      BY FeedbackAssumption
    <3>2. /\ reported' = r /\ published' = car_msg'
          /\ car_msg' = [car_msg EXCEPT !.speed = Meant(r), !.angle = r.angle]
      BY <2>1, <3>1, ReportSays
    <3>3. car_msg \in [speed : Int, angle : Int, battery : Int] /\ car_msg.battery = last_level
      BY DEF FeedbackInv, FeedbackTypes, BatteryRemembered
    <3>4. /\ published'.speed = Meant(r) /\ published'.angle = r.angle
          /\ published'.battery = last_level
      BY <3>2, <3>3
    <3>5. QED  BY <3>2, <3>4 DEF ReportStep, SaysWhatWasMeant, Meant
  <2>2. ASSUME published' = published, reported' = reported
        PROVE  ReportStep
    BY <2>2 DEF ReportStep
  <2>3. ASSUME NEW level \in Levels, can_tx_battery(level)
        PROVE  ReportStep
    BY <2>2, <2>3 DEF can_tx_battery
  <2>4. CASE Tick
    BY <2>2, <2>4 DEF Tick
  <2>5. CASE SetClock
    BY <2>2, <2>5 DEF SetClock
  <2>6. QED  BY <2>1, <2>3, <2>4, <2>5 DEF FeedbackNext
<1>2. QED  BY <1>1, FeedbackStarts, FeedbackKept, PTL DEF FeedbackSpec, ReportsFaithful
=============================================================================
