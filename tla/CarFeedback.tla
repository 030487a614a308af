----------------------------- MODULE CarFeedback -----------------------------
(***************************************************************************)
(* wtb_car_node, feedback side: frames of the chassis arrive on can_tx_2   *)
(* and leave as odometry on /car_odom and as messages on /wtb_car_message. *)
(* Odometry integrates over the time between two frames as the system      *)
(* clock measures it, and that clock may be set.                           *)
(*                                                                         *)
(* The position is the length of the path, signed: x_ and y_ project its   *)
(* steps on the heading.  The heading is in units of a half turn divided   *)
(* by HalfTurn.  dt is the clock's now() minus last_time_.                 *)
(***************************************************************************)
EXTENDS CtrlFrame

CONSTANTS
    Reports,     \* the feedback frames the chassis sends: [gear, speed, angle]
    Extremes,    \* those it may only send before any time has passed: a bound
    Levels,      \* the battery levels it sends
    Curvature,   \* [angles -> Int]: tan(delta) / WHEELBASE, heading per mm
    HalfTurn,
    MaxDt,       \* MAX_DT, in ticks
    MinSpeed,    \* MIN_SPEED, in mm/s
    Jumps,       \* how far the clock may be set, forwards or backwards
    MaxElapsed,  \* bound on the time that passes
    MaxJumps     \* bound on the times the clock is set

\* What fits the signals of a frame.
SignBit == 32768
UInt16 == 0 .. 2 * SignBit - 1
Int16 == -SignBit .. SignBit - 1
Signals == [gear : {"disable", "P", "R", "N", "D"}, speed : UInt16, angle : Int16]

ASSUME FeedbackAssumption ==
    /\ Reports \cup Extremes \subseteq Signals /\ Reports # {}
    /\ \A r \in Reports \cup Extremes : Curvature[r.angle] \in Int
    /\ HalfTurn \in Nat \ {0} /\ MaxDt \in Nat /\ MinSpeed \in Nat /\ Jumps \subseteq Int
    /\ Levels \subseteq Nat /\ MaxElapsed \in Nat /\ MaxJumps \in Nat

VARIABLES
    dt,          \* now() - last_time_
    path,        \* x_, y_
    theta_,
    latest_linear_velocity, latest_steering_angle,
    car_msg,     \* *car_msg_pub: one message object, filled and sent again
    published,   \* the last message on /wtb_car_message
    odom,        \* the last message on /car_odom
    elapsed,     \* history: the time that really passed
    jumps,       \* history: how often the clock was set
    last_level,  \* history: the last battery level received, 0 before the first
    reported     \* history: what the chassis meant by its last report

pose == <<path, theta_, odom>>
feedbackVars == <<dt, pose, latest_linear_velocity, latest_steering_angle, car_msg,
                  published, elapsed, jumps, last_level, reported>>

None == [speed |-> 0, angle |-> 0, battery |-> -1]

FeedbackInit ==
    /\ dt = 0
    /\ path = 0 /\ theta_ = 0
    /\ latest_linear_velocity = 0 /\ latest_steering_angle = 0
    /\ car_msg = [speed |-> 0, angle |-> 0, battery |-> 0]
    /\ published = None
    /\ odom = [path |-> 0, theta |-> 0, speed |-> 0]
    /\ elapsed = 0 /\ jumps = 0 /\ last_level = 0
    /\ reported = [gear |-> "N", speed |-> 0, angle |-> 0]

Magnitude(n) == IF n < 0 THEN -n ELSE n   \* fabs

\* The angle in [-HalfTurn, HalfTurn] that is whole turns away.
\* Mutant: an if in place of each while.
normalizeOnce(angle) ==
    IF angle > HalfTurn THEN angle - 2 * HalfTurn
    ELSE IF angle < -HalfTurn THEN angle + 2 * HalfTurn ELSE angle
normalizeAngle(angle) ==
    IF angle > HalfTurn THEN HalfTurn - ((HalfTurn - angle) % (2 * HalfTurn))
    ELSE IF angle < -HalfTurn THEN ((angle + HalfTurn) % (2 * HalfTurn)) - HalfTurn
    ELSE angle

\* The time one step integrates over.  Mutant: no limit.
StepTimeUnlimited == dt
StepTime == Min({dt, MaxDt})

\* One step of odometry.
CalculateAndPublished(velocity, angle) ==
    IF dt <= 0
    THEN UNCHANGED <<dt, pose>>
    ELSE LET v == IF Magnitude(velocity) < MinSpeed THEN 0 ELSE velocity
         IN /\ path' = path + v * StepTime
            /\ theta_' = normalizeAngle(theta_ + v * Curvature[angle] * StepTime)
            /\ odom' = [path |-> path', theta |-> theta_', speed |-> v]
            /\ dt' = 0

\* A frame with id 0x18C4D2EF.
can_tx_ctrl_fb(data) ==
    LET fb == ParseCtrlFb(data)
        speed == IF fb.gear = "R" THEN -fb.speed ELSE fb.speed
    IN /\ latest_linear_velocity' = speed
       /\ latest_steering_angle' = fb.angle
       /\ CalculateAndPublished(speed, fb.angle)
       /\ car_msg' = [car_msg EXCEPT !.speed = speed, !.angle = fb.angle]
       /\ published' = car_msg'
       /\ UNCHANGED <<elapsed, jumps, last_level>>

\* A frame with id 0x18C4E2EF.  Mutant: the battery in a message of its own.
StoreForgotten(level) == UNCHANGED car_msg
StoreBattery(level) == car_msg' = [car_msg EXCEPT !.battery = level]

can_tx_battery(level) ==
    /\ StoreBattery(level)
    /\ last_level' = level
    /\ UNCHANGED <<dt, pose, latest_linear_velocity, latest_steering_angle,
                   published, elapsed, jumps, reported>>

\* Time passes.
Tick ==
    /\ elapsed < MaxElapsed
    /\ elapsed' = elapsed + 1
    /\ dt' = dt + 1
    /\ UNCHANGED <<pose, latest_linear_velocity, latest_steering_angle, car_msg,
                   published, jumps, last_level, reported>>

\* The system clock is set.
SetClock ==
    /\ jumps < MaxJumps
    /\ jumps' = jumps + 1
    /\ \E jump \in Jumps : dt' = dt + jump
    /\ UNCHANGED <<pose, latest_linear_velocity, latest_steering_angle, car_msg,
                   published, elapsed, last_level, reported>>

\* The chassis reports in a frame of the layout it is commanded in.
Report(r) ==
    /\ reported' = r
    /\ can_tx_ctrl_fb(CtrlFrameBytes(r.gear, r.speed, r.angle, 0))

FeedbackNext ==
    \/ \E r \in Reports : Report(r)
    \/ elapsed = 0 /\ jumps = 0 /\ \E r \in Extremes : Report(r)
    \/ \E level \in Levels : can_tx_battery(level)
    \/ Tick
    \/ SetClock

FeedbackSpec == FeedbackInit /\ [][FeedbackNext]_feedbackVars

MaxReported == Max({r.speed : r \in Reports})

\* Dead reckoning stays bounded whenever frames come and whichever way the clock
\* is set: the heading stays in [-pi, pi] however far one step turns, and the
\* odometer never runs ahead of the wheels by more than one limited step for each
\* time the clock was set (CalculateAndPublished, normalizeAngle).
PoseBounded ==
    /\ theta_ \in -HalfTurn .. HalfTurn
    /\ Magnitude(path) <= MaxReported * (elapsed + MaxDt * jumps)

\* A message says what the chassis meant, for every signal that fits its sixteen
\* bits: across the borders of half bytes, bytes and sign, and in reverse.  It
\* carries the last battery level received before it, although speed and battery
\* arrive in frames of their own (CtrlFrameBytes, ParseCtrlFb, can_tx_callback).
SaysWhatWasMeant(message, r) ==
    /\ message.speed = IF r.gear = "R" THEN -r.speed ELSE r.speed
    /\ message.angle = r.angle
ReportStep ==
    published' # published \/ reported' # reported =>
        /\ SaysWhatWasMeant(published', reported')
        /\ published'.battery = last_level
ReportsFaithful == [][ReportStep]_feedbackVars
=============================================================================
