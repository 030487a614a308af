--------------------------- MODULE LioPreintegration ---------------------------
(***************************************************************************)
(* The IMU preintegration of LIO-SAM and the fusion of its odometry with   *)
(* the lidar's: every lidar odometry corrects the state, by a factor over  *)
(* the IMU messages since the last one; the messages since then are        *)
(* integrated onto the corrected state.  Times are in IMU periods.         *)
(***************************************************************************)
EXTENDS Integers, Sequences, SequencesExt, FiniteSetsExt

CONSTANTS
    Period,      \* of the IMU messages, and
    DefaultStep, \* 1/500 s, not more, integrated over where it is not known
    LastKey,     \* the key at which the graph is begun anew: 100
    MinLatency,  \* a lidar odometry is as far behind the newest IMU message,
    MaxLatency,  \* at least and at most
    MaxDelay,    \* the longest an IMU odometry is under way, below MinLatency
    MaxTime      \* bound on the IMU messages

ASSUME PreintegrationAssumption ==
    /\ Period \in Nat /\ DefaultStep \in 0..Period /\ LastKey \in Nat
    /\ MinLatency \in Nat /\ MaxLatency \in Nat /\ MaxDelay \in Nat /\ MaxDelay < MinLatency
    /\ MaxTime \in Nat

VARIABLES
    received,           \* the stamp of the newest IMU message
    toCorrect,          \* incremental lidar odometry under way, and
    toFuse,             \* global lidar odometry, 0 where there is none
    odometries,         \* IMU odometry under way
    imuQueOpt, imuQueImu,
    lastImuT_opt, lastImuT_imu,
    systemInitialized, doneFirstOpt,
    key,
    keys,               \* the keys whose values the optimizer has
    prevState_,         \* the correction that the state is from
    prevStateOdom,
    integrated,         \* the messages in imuIntegratorImu_, and
    deltaTij,           \* the time they were integrated over
    factor,             \* the last IMU factor
    corrected,          \* history: the last correction the system has taken
    lidarOdomTime, imuOdomQueue,
    published           \* the first and last IMU odometry of the last pose

links == <<toCorrect, toFuse, odometries>>
graph == <<key, keys, prevState_, factor, corrected>>
clocks == <<lastImuT_opt, lastImuT_imu>>
fusion == <<lidarOdomTime, imuOdomQueue, published>>
preintegration == <<imuQueOpt, imuQueImu, clocks, systemInitialized, doneFirstOpt,
                    graph, prevStateOdom, integrated, deltaTij>>
lioVars == <<received, links, preintegration, fusion>>

NoTime == -1
NoFactor == [over |-> <<>>, duration |-> 0, between |-> <<NoTime, NoTime>>]

PreintegrationInit ==
    /\ received = 0
    /\ toCorrect = NoTime /\ toFuse = NoTime /\ odometries = <<>>
    /\ imuQueOpt = <<>> /\ imuQueImu = <<>>
    /\ lastImuT_opt = NoTime /\ lastImuT_imu = NoTime
    /\ systemInitialized = FALSE /\ doneFirstOpt = FALSE
    /\ key = 1 /\ keys = {}
    /\ prevState_ = NoTime /\ prevStateOdom = NoTime
    /\ integrated = <<>> /\ deltaTij = 0
    /\ factor = NoFactor
    /\ corrected = NoTime
    /\ lidarOdomTime = NoTime /\ imuOdomQueue = <<>>
    /\ published = <<>>

\* Messages are popped while the first is older than a time: how many, which,
\* and what is left.
Popped(queue, time) ==
    CHOOSE n \in 0..Len(queue) :
        /\ \A i \in 1..n : queue[i] < time
        /\ n < Len(queue) => queue[n + 1] >= time
Older(queue, time) == SubSeq(queue, 1, Popped(queue, time))
NotOlder(queue, time) == SubSeq(queue, Popped(queue, time) + 1, Len(queue))

\* The time that messages are integrated over, from the message before.
Duration(messages, before) ==
    IF messages = <<>> THEN 0
    ELSE IF before = NoTime THEN DefaultStep + Period * (Last(messages) - Head(messages))
    ELSE Period * (Last(messages) - before)

LastOf(messages, none) == IF messages = <<>> THEN none ELSE Last(messages)

----------------------------------------------------------------------------
\* An IMU message reaches the queues; the odometry of those before is not
\* longer under way than MaxDelay.
imuHandler ==
    /\ received < MaxTime
    /\ \A i \in 1..Len(odometries) : received + 1 - odometries[i] <= MaxDelay
    /\ received' = received + 1
    /\ imuQueOpt' = Append(imuQueOpt, received')
    /\ imuQueImu' = Append(imuQueImu, received')
    /\ \/ /\ ~doneFirstOpt
          /\ UNCHANGED <<lastImuT_imu, integrated, deltaTij, odometries>>
       \/ /\ doneFirstOpt
          /\ lastImuT_imu' = received'
          /\ integrated' = Append(integrated, received')
          /\ deltaTij' = deltaTij + Duration(<<received'>>, lastImuT_imu)
          /\ odometries' = Append(odometries, received')
    /\ UNCHANGED <<toCorrect, toFuse, lastImuT_opt, systemInitialized, doneFirstOpt,
                   graph, prevStateOdom, fusion>>

\* The mapping publishes the odometry of a scan, later than the last one; it
\* is on its way on two topics, each of which may lose it.
Map(time) ==
    /\ toCorrect = NoTime /\ toFuse = NoTime
    /\ time > 0 /\ time > Max({corrected, lidarOdomTime})
    /\ toCorrect' \in {time, NoTime}
    /\ toFuse' \in {time, NoTime}
    /\ UNCHANGED <<received, odometries, preintegration, fusion>>

\* The first odometry: the graph begins with its pose, old messages go.
Initialise ==
    /\ imuQueOpt' = NotOlder(imuQueOpt, toCorrect)
    /\ lastImuT_opt' = LastOf(Older(imuQueOpt, toCorrect), lastImuT_opt)
    /\ key' = 1
    /\ keys' = {0}
    /\ integrated' = <<>>
    /\ deltaTij' = 0
    /\ systemInitialized' = TRUE
    /\ corrected' = toCorrect
    /\ UNCHANGED <<imuQueImu, lastImuT_imu, doneFirstOpt, prevState_, prevStateOdom, factor>>

\* The key of the new factor, and the keys that are known, after the graph
\* was begun anew where it was long.  Mutant: the key goes on.
GraphKeyed == <<key, IF key = LastKey THEN {0} ELSE keys>>
GraphBefore == IF key = LastKey THEN <<1, {0}>> ELSE <<key, keys>>

\* A factor over the messages since the last odometry joins two keys.
Optimise ==
    LET older == Older(imuQueOpt, toCorrect)
    IN  /\ imuQueOpt' = NotOlder(imuQueOpt, toCorrect)
        /\ lastImuT_opt' = LastOf(older, lastImuT_opt)
        /\ factor' = [over |-> older, duration |-> Duration(older, lastImuT_opt),
                      between |-> <<corrected, toCorrect>>]
        /\ keys' = GraphBefore[2] \cup {GraphBefore[1]}
        /\ prevState_' = toCorrect
        /\ corrected' = toCorrect

\* The optimization gave an impossible speed or bias.
Fail ==
    /\ lastImuT_imu' = NoTime
    /\ doneFirstOpt' = FALSE
    /\ systemInitialized' = FALSE
    /\ key' = GraphBefore[1]
    /\ UNCHANGED <<imuQueImu, prevStateOdom, integrated, deltaTij>>

\* The messages since the correction are integrated onto the new state.
\* Mutant: onto what was integrated before.
RepropagateOnto ==
    LET before == LastOf(Older(imuQueImu, toCorrect), NoTime)
    IN  /\ prevStateOdom' = prevState_'
        /\ imuQueImu' = NotOlder(imuQueImu, toCorrect)
        /\ integrated' = integrated \o imuQueImu'
        /\ deltaTij' = deltaTij + Duration(imuQueImu', before)

Repropagate ==
    LET before == LastOf(Older(imuQueImu, toCorrect), NoTime)
    IN  /\ prevStateOdom' = prevState_'
        /\ imuQueImu' = NotOlder(imuQueImu, toCorrect)
        /\ \/ imuQueImu' = <<>> /\ UNCHANGED <<integrated, deltaTij>>
           \/ /\ imuQueImu' # <<>>
              /\ integrated' = imuQueImu'
              /\ deltaTij' = Duration(imuQueImu', before)

odometryHandler ==
    /\ toCorrect # NoTime
    /\ toCorrect' = NoTime
    /\ UNCHANGED <<received, toFuse, odometries, fusion>>
    /\ \/ imuQueOpt = <<>> /\ UNCHANGED preintegration
       \/ imuQueOpt # <<>> /\ ~systemInitialized /\ Initialise
       \/ imuQueOpt # <<>> /\ systemInitialized /\ Optimise /\ Fail
       \/ /\ imuQueOpt # <<>> /\ systemInitialized /\ Optimise
          /\ Repropagate
          /\ key' = GraphBefore[1] + 1
          /\ doneFirstOpt' = TRUE
          /\ UNCHANGED <<lastImuT_imu, systemInitialized>>

----------------------------------------------------------------------------
lidarOdometryHandler ==
    /\ toFuse # NoTime
    /\ lidarOdomTime' = toFuse
    /\ toFuse' = NoTime
    /\ UNCHANGED <<received, toCorrect, odometries, preintegration, imuOdomQueue, published>>

\* Mutant: one too many is popped.
LeftAfter(queue) ==
    LET later == NotOlder(queue, lidarOdomTime + 1)
    IN  IF later = <<>> THEN later ELSE Tail(later)
Left(queue) == NotOlder(queue, lidarOdomTime + 1)

\* An IMU odometry moves the last lidar odometry on by the way from the first
\* IMU odometry after it to this one.
imuOdometryHandler ==
    /\ odometries # <<>>
    /\ odometries' = Tail(odometries)
    /\ LET queue == Append(imuOdomQueue, Head(odometries))
           left == Left(queue)
       IN  IF lidarOdomTime = NoTime
           THEN imuOdomQueue' = queue /\ UNCHANGED published
           ELSE /\ imuOdomQueue' = left
                /\ published' = IF left = <<>> THEN <<NoTime, NoTime>>
                                ELSE <<Head(left), Last(left)>>
    /\ UNCHANGED <<received, toCorrect, toFuse, preintegration, lidarOdomTime>>

PreintegrationNext ==
    \/ imuHandler
    \/ \E latency \in MinLatency..MaxLatency : Map(received - latency)
    \/ odometryHandler
    \/ lidarOdometryHandler
    \/ imuOdometryHandler

PreintegrationSpec == PreintegrationInit /\ [][PreintegrationNext]_lioVars

----------------------------------------------------------------------------
Consecutive(first, last) == [i \in 1..(last - first + 1) |-> first + i - 1]

\* A number of messages is integrated over the time between them, but for the
\* first one, whose step may not be known.
AsLong(duration, count) ==
    duration \in (Period * (count - 1) + DefaultStep)..(Period * count)

\* The IMU odometry is predicted from the last correction and every message
\* since, none left out and none twice, also after the messages of a failed
\* optimization (odometryHandler, imuHandler).
PredictionComplete ==
    doneFirstOpt =>
        /\ prevStateOdom = corrected
        /\ integrated = Consecutive(corrected, received)
        /\ AsLong(deltaTij, Len(integrated))

\* A factor is over the messages between the two odometries it joins and as
\* long as the time between them, and the graph knows both its keys
\* (odometryHandler).
FactorsExact ==
    /\ factor # NoFactor =>
           /\ factor.over = Consecutive(factor.between[1], factor.between[2] - 1)
           /\ AsLong(factor.duration, Len(factor.over))
    /\ systemInitialized => keys = 0..(key - 1)

\* A pose is published from IMU odometry later than the lidar odometry it
\* moves on: the queue is never empty where its ends are read
\* (imuOdometryHandler).
FusionHasOdometry == published # <<>> => published[1] # NoTime /\ published[1] <= published[2]

\* Odometry between two corrections of the mapping is exact, whatever the order
\* in which messages and corrections arrive (the three handlers above).
OdometryExact == PredictionComplete /\ FactorsExact /\ FusionHasOdometry
=============================================================================
