----------------------- MODULE VehicleInterfaceProofs -----------------------
(***************************************************************************)
(* Proofs about VehicleInterface, for every limit, timeout, timer period,  *)
(* topic depth and set of incoming commands.                               *)
(***************************************************************************)
EXTENDS VehicleInterface, Lemmas

USE LimitsAssumption, TimingAssumption, TopicAssumption, InputAssumption

\* Clamping leaves a value within the bound on either side.
LEMMA ClampIsLimited ==
  ASSUME NEW x \in Int, NEW bound \in Nat
  PROVE  Clamp(x, bound) \in Int /\ -bound <= Clamp(x, bound) /\ Clamp(x, bound) <= bound
BY DEF Clamp

\* The stop command is within every limit.
LEMMA HaltIsLimited == Halt \in LimitedCommand
BY DEF Halt, LimitedCommand, Limited, Command

\* Publishing a limited command keeps both chassis topics and chassis_cmd typed.
LEMMA PublishTyped ==
  ASSUME TypeOK, NEW cmd \in LimitedCommand, publishChassisCommand(cmd)
  PROVE  /\ IsTopic(twist_cmd', LimitedCommand, Depth)
         /\ IsTopic(cmd_vel', LimitedCommand, Depth)
         /\ chassis_cmd' \in LimitedCommand
BY PublishKeepsTopic DEF TypeOK, publishChassisCommand

\* Ageing stops at the horizon.
LEMMA OlderTyped ==
  ASSUME NEW age \in 0..Horizon
  PROVE  Older(age) \in 0..Horizon
BY DEF Older, Horizon

\* The constructor leaves every variable typed.
LEMMA TypeInit == Init => TypeOK
BY HaltIsLimited DEF Init, TypeOK, Gears, Modes, AutonomousModes, IsTopic, Horizon, RunMessages

\* Every callback keeps every variable typed.
LEMMA TypeStep == TypeOK /\ [Next]_vars => TypeOK'
<1> SUFFICES ASSUME TypeOK, [Next]_vars PROVE TypeOK'
  OBVIOUS
<1>1. ASSUME NEW v \in Speeds, NEW a \in Steers, onControlCmd(v, a)
      PROVE  TypeOK'
  <2>1. CASE ~isAutonomousControlMode
    BY <1>1, <2>1 DEF onControlCmd, StampControlTime, TypeOK, vars, nodeVars, timeVars, chassisVars
  <2>2. CASE isAutonomousControlMode
    <3> DEFINE cmd == [speed |-> Clamp(v, MaxSpeed), steer |-> Clamp(a, MaxSteer)]
    <3>1. cmd \in LimitedCommand
      BY ClampIsLimited, InputAssumption, v \in Int, a \in Int
         DEF LimitedCommand, Limited, Command
    <3>2. publishChassisCommand(cmd)
      BY <1>1, <2>2 DEF onControlCmd, StampControlTime
    <3> HIDE DEF cmd
    <3>3. 0 \in 0..Horizon
      BY DEF Horizon
    <3>4. QED
      BY <1>1, <2>2, <3>1, <3>2, <3>3, PublishTyped DEF onControlCmd, StampControlTime, TypeOK, nodeVars
  <2>3. QED  BY <2>1, <2>2
<1>2. ASSUME NEW g \in Gears, onGearCmd(g)
      PROVE  TypeOK'
  <2>1. CASE g \in {"PARK", "NEUTRAL"}
    BY <1>2, <2>1, PublishTyped, HaltIsLimited DEF onGearCmd, TypeOK, timeVars
  <2>2. CASE g \notin {"PARK", "NEUTRAL"}
    BY <1>2, <2>2 DEF onGearCmd, TypeOK, timeVars, chassisVars
  <2>3. QED  BY <2>1, <2>2
<1>3. ASSUME NEW a \in Steers, onCarStatus(a)
      PROVE  TypeOK'
  <2>1. Clamp(a, MaxSteer) \in -MaxSteer..MaxSteer
    BY ClampIsLimited
  <2>2. QED  BY <1>3, <2>1 DEF onCarStatus, TypeOK, timeVars, chassisVars
<1>4. ASSUME NEW m \in Requests, onControlModeRequest(m)
      PROVE  TypeOK'
  <2>1. 0 \in 0..Horizon
    BY DEF Horizon
  <2>2. CASE m \in AutonomousModes
    BY <1>4, <2>1, <2>2 DEF onControlModeRequest, EnterMode, StampControlTime, TypeOK, chassisVars, Modes, AutonomousModes
  <2>3. CASE m = "MANUAL"
    BY <1>4, <2>1, <2>3, PublishTyped, HaltIsLimited
       DEF onControlModeRequest, EnterMode, StampControlTime, TypeOK, Modes, AutonomousModes
  <2>4. CASE m \notin Modes
    BY <1>4, <2>4 DEF onControlModeRequest, EnterMode, StampControlTime, TypeOK, chassisVars
  <2>5. QED  BY <2>2, <2>3, <2>4 DEF Modes
<1>5. ASSUME onTimer
      PROVE  TypeOK'
  <2>1. IsTopic(run_static', RunMessages, Depth)
    BY <1>5, PublishKeepsTopic DEF onTimer, ReportMode, TypeOK, RunMessages
  <2>2. CASE TimedOut
    BY <1>5, <2>1, <2>2, PublishTyped, HaltIsLimited DEF onTimer, ReportMode, TypeOK, nodeVars
  <2>3. CASE ~TimedOut
    BY <1>5, <2>1, <2>3 DEF onTimer, ReportMode, TypeOK, nodeVars, chassisVars
  <2>4. QED  BY <2>2, <2>3
<1>6. ASSUME Tick
      PROVE  TypeOK'
  BY <1>6, OlderTyped DEF Tick, TypeOK, nodeVars, chassisVars
<1>7. ASSUME Deliver
      PROVE  TypeOK'
  BY <1>7, TailKeepsTopic DEF Deliver, TypeOK, nodeVars, timeVars
<1>8. CASE UNCHANGED vars
  BY <1>8 DEF TypeOK, vars, nodeVars, timeVars, chassisVars
<1>9. QED
  BY <1>1, <1>2, <1>3, <1>4, <1>5, <1>6, <1>7, <1>8 DEF Next

\* Every variable of the node keeps its type; every command that reaches the
\* chassis topics is within max_speed_ and max_steering_angle_.
THEOREM TypeCorrect == Spec => []TypeOK
BY TypeInit, TypeStep, PTL DEF Spec

-----------------------------------------------------------------------------
\* WatchdogBound is not inductive: Tick may age a command past it unless the
\* age is tied to the time since the timer last ran.
IInv == TypeOK /\ ManualStandsStill /\ FreshUntilTimer

\* The node starts in the manual mode, standing still.
LEMMA InvInit == Init => IInv
BY TypeInit DEF Init, IInv, ManualStandsStill, FreshUntilTimer, Halt,
   isAutonomousControlMode, AutonomousModes

\* What a published stop means for the two invariants.
LEMMA HaltStandsStill ==
  ASSUME publishChassisCommand(Halt)
  PROVE  chassis_cmd' = Halt /\ chassis_cmd'.speed = 0
BY DEF publishChassisCommand, Halt

\* Every callback preserves the inductive invariant.
LEMMA InvStep == IInv /\ [Next]_vars => IInv'
<1> SUFFICES ASSUME IInv, [Next]_vars PROVE ManualStandsStill' /\ FreshUntilTimer'
  BY TypeStep DEF IInv
<1> USE DEF IInv, ManualStandsStill, FreshUntilTimer, isAutonomousControlMode
<1>1. ASSUME NEW v \in Speeds, NEW a \in Steers, onControlCmd(v, a)
      PROVE  ManualStandsStill' /\ FreshUntilTimer'
  <2>1. CASE ~isAutonomousControlMode
    BY <1>1, <2>1 DEF onControlCmd, StampControlTime, vars, nodeVars, timeVars, chassisVars
  <2>2. CASE isAutonomousControlMode
    BY <1>1, <2>2 DEF onControlCmd, StampControlTime, nodeVars, TypeOK
  <2>3. QED  BY <2>1, <2>2
<1>2. ASSUME NEW g \in Gears, onGearCmd(g)
      PROVE  ManualStandsStill' /\ FreshUntilTimer'
  <2>1. CASE g \in {"PARK", "NEUTRAL"}
    BY <1>2, <2>1, HaltStandsStill DEF onGearCmd
  <2>2. CASE g \notin {"PARK", "NEUTRAL"}
    BY <1>2, <2>2 DEF onGearCmd, timeVars, chassisVars
  <2>3. QED  BY <2>1, <2>2
<1>3. ASSUME NEW a \in Steers, onCarStatus(a)
      PROVE  ManualStandsStill' /\ FreshUntilTimer'
  BY <1>3 DEF onCarStatus, timeVars, chassisVars
<1>4. ASSUME NEW m \in Requests, onControlModeRequest(m)
      PROVE  ManualStandsStill' /\ FreshUntilTimer'
  <2>1. CASE m \in AutonomousModes
    BY <1>4, <2>1 DEF onControlModeRequest, EnterMode, StampControlTime, chassisVars, Modes, TypeOK
  <2>2. CASE m = "MANUAL"
    BY <1>4, <2>2, HaltStandsStill DEF onControlModeRequest, EnterMode, StampControlTime, Modes, AutonomousModes
  <2>3. CASE m \notin Modes
    BY <1>4, <2>3 DEF onControlModeRequest, EnterMode, StampControlTime, chassisVars
  <2>4. QED  BY <2>1, <2>2, <2>3 DEF Modes
<1>5. ASSUME onTimer
      PROVE  ManualStandsStill' /\ FreshUntilTimer'
  <2>1. CASE TimedOut
    BY <1>5, <2>1, HaltStandsStill DEF onTimer, ReportMode, nodeVars
  <2>2. CASE ~TimedOut
    BY <1>5, <2>2 DEF onTimer, ReportMode, TimedOut, nodeVars, chassisVars, TypeOK
  <2>3. QED  BY <2>1, <2>2
<1>6. ASSUME Tick
      PROVE  ManualStandsStill' /\ FreshUntilTimer'
  BY <1>6 DEF Tick, Older, Horizon, nodeVars, chassisVars, TypeOK
<1>7. ASSUME Deliver
      PROVE  ManualStandsStill' /\ FreshUntilTimer'
  BY <1>7 DEF Deliver, nodeVars, timeVars
<1>8. CASE UNCHANGED vars
  BY <1>8 DEF vars, nodeVars, timeVars, chassisVars
<1>9. QED
  BY <1>1, <1>2, <1>3, <1>4, <1>5, <1>6, <1>7, <1>8 DEF Next

\* The inductive invariant holds throughout.
LEMMA Invariant == Spec => []IInv
BY InvInit, InvStep, PTL DEF Spec

\* In an autonomous mode no moving command outlives the timeout by more than
\* one timer period.
THEOREM WatchdogBounded == Spec => []WatchdogBound
<1>1. IInv => WatchdogBound
  BY DEF IInv, FreshUntilTimer, WatchdogBound, TypeOK, Horizon
<1>2. QED  BY <1>1, Invariant, PTL

\* Outside the autonomous modes the chassis was last told to stand still.
THEOREM ManualIsStill == Spec => []ManualStandsStill
<1>1. IInv => ManualStandsStill
  BY DEF IInv
<1>2. QED  BY <1>1, Invariant, PTL

-----------------------------------------------------------------------------
\* The refinement: how each handler looks to the watchdog.
quiet == IF elapsed <= Timeout + Period THEN elapsed ELSE Timeout + Period
dogVars == <<isAutonomousControlMode, chassis_cmd.speed # 0, quiet>>

\* The node starts as an unarmed watchdog.
LEMMA DogInit == Init => Dog!Init
BY DEF Init, Dog!Init, Halt, isAutonomousControlMode, AutonomousModes

\* Every callback is a step of the watchdog or invisible to it.
LEMMA DogStep == IInv /\ [Next]_vars => [Dog!Next]_dogVars
<1> SUFFICES ASSUME IInv, [Next]_vars PROVE Dog!Next \/ UNCHANGED dogVars
  OBVIOUS
<1> USE DEF isAutonomousControlMode
<1>t. /\ elapsed \in Nat /\ since_timer \in 0..Period /\ current_control_mode \in Modes
  BY DEF IInv, TypeOK, Horizon
<1>1. ASSUME NEW v \in Speeds, NEW a \in Steers, onControlCmd(v, a)
      PROVE  Dog!Next \/ UNCHANGED dogVars
  <2>1. CASE ~isAutonomousControlMode
    BY <1>1, <2>1 DEF onControlCmd, StampControlTime, vars, nodeVars, timeVars, chassisVars, dogVars, quiet
  <2>2. CASE isAutonomousControlMode
    <3>1. Dog!Feed
      BY <1>1, <2>2 DEF onControlCmd, StampControlTime, nodeVars, Dog!Feed
    <3>2. QED  BY <3>1 DEF Dog!Next
  <2>3. QED  BY <2>1, <2>2
<1>2. ASSUME NEW g \in Gears, onGearCmd(g)
      PROVE  Dog!Next \/ UNCHANGED dogVars
  <2>1. CASE g \in {"PARK", "NEUTRAL"}
    <3>1. Dog!Stop
      BY <1>2, <2>1, HaltStandsStill DEF onGearCmd, timeVars, Dog!Stop
    <3>2. QED  BY <3>1 DEF Dog!Next
  <2>2. CASE g \notin {"PARK", "NEUTRAL"}
    BY <1>2, <2>2 DEF onGearCmd, timeVars, chassisVars, dogVars, quiet
  <2>3. QED  BY <2>1, <2>2
<1>3. ASSUME NEW a \in Steers, onCarStatus(a)
      PROVE  Dog!Next \/ UNCHANGED dogVars
  BY <1>3 DEF onCarStatus, timeVars, chassisVars, dogVars, quiet
<1>4. ASSUME NEW m \in Requests, onControlModeRequest(m)
      PROVE  Dog!Next \/ UNCHANGED dogVars
  <2>1. CASE m \in AutonomousModes
    <3>1. /\ current_control_mode' = m /\ elapsed' = 0 /\ chassis_cmd' = chassis_cmd
      BY <1>4, <2>1 DEF onControlModeRequest, EnterMode, StampControlTime, chassisVars, Modes, AutonomousModes
    <3>2. Dog!Arm
      BY <2>1, <3>1 DEF Dog!Arm
    <3>3. QED  BY <3>2 DEF Dog!Next
  <2>2. CASE m = "MANUAL"
    <3>1. Dog!Disarm
      BY <1>4, <2>2, HaltStandsStill
         DEF onControlModeRequest, EnterMode, StampControlTime, Modes, AutonomousModes, Dog!Disarm
    <3>2. QED  BY <3>1 DEF Dog!Next
  <2>3. CASE m \notin Modes
    BY <1>4, <2>3 DEF onControlModeRequest, EnterMode, StampControlTime, chassisVars, dogVars, quiet
  <2>4. QED  BY <2>1, <2>2, <2>3 DEF Modes
<1>5. ASSUME onTimer
      PROVE  Dog!Next \/ UNCHANGED dogVars
  <2>1. CASE TimedOut
    <3>1. Dog!Stop
      BY <1>5, <2>1, HaltStandsStill DEF onTimer, ReportMode, nodeVars, Dog!Stop
    <3>2. QED  BY <3>1 DEF Dog!Next
  <2>2. CASE ~TimedOut
    BY <1>5, <2>2 DEF onTimer, ReportMode, nodeVars, chassisVars, dogVars, quiet
  <2>3. QED  BY <2>1, <2>2
<1>6. ASSUME Tick
      PROVE  Dog!Next \/ UNCHANGED dogVars
  <2>1. chassis_cmd.speed # 0 => elapsed < Timeout + Period
    BY <1>6, <1>t DEF Tick, IInv, ManualStandsStill, FreshUntilTimer, Halt
  <2>2. Dog!Tick
    BY <1>6, <1>t, <2>1 DEF Tick, Older, Horizon, nodeVars, chassisVars, Dog!Tick
  <2>3. QED  BY <2>2 DEF Dog!Next
<1>7. ASSUME Deliver
      PROVE  Dog!Next \/ UNCHANGED dogVars
  BY <1>7 DEF Deliver, nodeVars, timeVars, dogVars, quiet
<1>8. CASE UNCHANGED vars
  BY <1>8 DEF vars, nodeVars, timeVars, chassisVars, dogVars, quiet
<1>9. QED
  BY <1>1, <1>2, <1>3, <1>4, <1>5, <1>6, <1>7, <1>8 DEF Next

\* The vehicle interface implements a watchdog whose deadline is the timeout
\* plus one timer period.
THEOREM WatchdogImplemented == Spec => KeepsWatchdog
<1>1. IInv /\ [Next]_vars => [Dog!Next]_<<isAutonomousControlMode, chassis_cmd.speed # 0,
        IF elapsed <= Timeout + Period THEN elapsed ELSE Timeout + Period>>
  BY DogStep DEF dogVars, quiet
<1>2. QED
  BY DogInit, <1>1, Invariant, PTL DEF Spec, KeepsWatchdog, Dog!Spec
=============================================================================
