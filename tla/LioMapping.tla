------------------------------ MODULE LioMapping -------------------------------
(***************************************************************************)
(* The mapping of LIO-SAM: clouds are matched with those of key frames     *)
(* near by, some become key frames, and the thread that looks for loops    *)
(* adds factors that move the key frames.  Poses are places on a line; a   *)
(* key frame's clouds stand for the true place they were taken at.         *)
(***************************************************************************)
EXTENDS Integers, Sequences, FiniteSets, FiniteSetsExt, Functions

CONSTANTS
    Steps,          \* how far the vehicle moves from cloud to cloud
    Gaps,           \* how long that takes
    mappingProcessInterval,
    SearchRadius,   \* for key frames to match with, and for loops
    RecentTime,     \* for which key frames are used wherever they are
    TimeDiff,       \* between the key frames of a loop
    CacheSize,      \* of transformed clouds: 1000
    Shifts,         \* how far a loop may move key frames
    MaxClouds, MaxLoopInfo,
    MaxTroubles,    \* bounds; on clouds too early, featureless or unguessed
    NoPose          \* what is not initialised

\* Stamps ascend, and the key frames of a loop are some time apart.
ASSUME MappingAssumption ==
    /\ Steps \subseteq Int /\ Gaps \subseteq Nat \ {0} /\ Shifts \subseteq Int
    /\ mappingProcessInterval \in Nat /\ SearchRadius \in Nat
    /\ RecentTime \in Nat /\ TimeDiff \in Nat \ {0} /\ CacheSize \in Nat
    /\ MaxClouds \in Nat /\ MaxLoopInfo \in Nat /\ MaxTroubles \in Nat
    /\ NoPose \notin Int

VARIABLES
    clouds, troubles, \* so far
    place,          \* the vehicle's true one
    timeLaserInfoCur, cloudInfo,
    step,           \* the next of the handler; it holds mtx but where "idle"
    timeLastProcessing,
    transformTobeMapped,
    lastImuPreTransformation, \* NoPose until available
    cloudKeyPoses,  \* place and time
    keyFrames,      \* their clouds
    laserCloudMapContainer,
    isamCurrentEstimate,
    aLoopIsClosed,
    globalPath,
    loopIndexQueue,
    incremental,    \* incrementalOdometryAffineFront and Back, the odometry
    loopInfos, loopInfoVec,
    loopStep,       \* the next of the loop closing thread
    copy_cloudKeyPoses,
    found,          \* the loop that it adds
    loopIndexContainer,
    astray,         \* history: was a cloud neither matched nor guessed well
    lastGuessed     \* history: had the last cloud an odometry

input == <<clouds, troubles, place, timeLaserInfoCur, cloudInfo>>
keyVars == <<cloudKeyPoses, keyFrames, isamCurrentEstimate, aLoopIsClosed, globalPath>>
matching == <<transformTobeMapped, lastImuPreTransformation, laserCloudMapContainer,
              astray, lastGuessed>>
looping == <<loopStep, copy_cloudKeyPoses, found, loopIndexContainer>>
external == <<loopInfos, loopInfoVec>>
mappingVars == <<input, step, timeLastProcessing, keyVars, matching, loopIndexQueue,
                 incremental, looping, external>>

NoLoop == [from |-> 0, to |-> 0, between |-> 0]
Distance(p, q) == IF p > q THEN p - q ELSE q - p

MappingInit ==
    /\ clouds = 0 /\ troubles = 0 /\ place = 0 /\ timeLaserInfoCur = 0
    /\ cloudInfo = [at |-> 0, odom_available |-> FALSE, enough |-> FALSE]
    /\ step = "idle" /\ timeLastProcessing = -mappingProcessInterval
    /\ transformTobeMapped = 0 /\ lastImuPreTransformation = NoPose
    /\ cloudKeyPoses = <<>> /\ keyFrames = <<>> /\ globalPath = <<>>
    /\ laserCloudMapContainer = <<>>
    /\ isamCurrentEstimate = <<>> /\ aLoopIsClosed = FALSE /\ loopIndexQueue = {}
    /\ incremental = [front |-> 0, back |-> NoPose, odometry |-> NoPose]
    /\ loopInfos = 0 /\ loopInfoVec = <<>>
    /\ loopStep = "sleep" /\ copy_cloudKeyPoses = <<>>
    /\ found = NoLoop /\ loopIndexContainer = <<>>
    /\ astray = FALSE /\ lastGuessed = FALSE

----------------------------------------------------------------------------
\* A cloud comes; its time is set before mtx is locked.
laserCloudInfoHandler(moved, gap, odometry, enough) ==
    /\ step = "idle" /\ clouds < MaxClouds
    /\ clouds' = clouds + 1
    /\ troubles' = troubles + (IF gap < mappingProcessInterval \/ ~odometry \/ ~enough
                               THEN 1 ELSE 0)
    /\ troubles' <= MaxTroubles
    /\ place' = place + moved
    /\ timeLaserInfoCur' = timeLaserInfoCur + gap
    /\ cloudInfo' = [at |-> place', odom_available |-> odometry, enough |-> enough]
    /\ step' = "match"
    /\ UNCHANGED <<timeLastProcessing, keyVars, matching, loopIndexQueue, incremental,
                   looping, external>>

Numbers == 1..Len(cloudKeyPoses)
Newest == cloudKeyPoses[Len(cloudKeyPoses)]

\* The first odometry only begins the count of the way.
updateInitialGuess ==
    IF cloudKeyPoses # <<>> /\ cloudInfo.odom_available /\ lastImuPreTransformation # NoPose
    THEN transformTobeMapped + cloudInfo.at - lastImuPreTransformation
    ELSE transformTobeMapped

\* The key frames that are near the newest or recent.
extractNearby ==
    {k \in Numbers : Distance(cloudKeyPoses[k].at, Newest.at) <= SearchRadius}
        \cup {k \in Numbers : \A i \in k..Len(cloudKeyPoses) :
                                  timeLaserInfoCur - cloudKeyPoses[i].time < RecentTime}

\* Where each one's clouds are, by the cache or by its pose.
extractCloud ==
    [k \in {i \in extractNearby : Distance(cloudKeyPoses[i].at, Newest.at) <= SearchRadius} |->
        IF k \in DOMAIN laserCloudMapContainer THEN laserCloudMapContainer[k]
        ELSE cloudKeyPoses[k].at]

extractSurroundingKeyFrames ==
    LET cached == [k \in DOMAIN laserCloudMapContainer \cup DOMAIN extractCloud |->
                         IF k \in DOMAIN extractCloud THEN extractCloud[k]
                         ELSE laserCloudMapContainer[k]]
    IN  laserCloudMapContainer' = IF Cardinality(DOMAIN cached) > CacheSize THEN <<>>
                                  ELSE cached

\* Where the cloud's edges and planes fit those of the map.
Fitting ==
    LET k == Max(DOMAIN extractCloud) IN extractCloud[k] + cloudInfo.at - keyFrames[k]

\* The steps to it, or too few correspondences or a degenerate direction.
LMOptimization(converges) == IF converges THEN Fitting ELSE updateInitialGuess

\* The pose is matched, and becomes the end of the incremental way.
scan2MapOptimization(converges) ==
    /\ transformTobeMapped' =
           IF cloudInfo.enough THEN LMOptimization(converges) ELSE updateInitialGuess
    /\ incremental' =
           [incremental EXCEPT !.front = transformTobeMapped,
                !.back = IF cloudInfo.enough THEN transformTobeMapped' ELSE @]
    /\ astray' = (astray \/ ~cloudInfo.enough
                         \/ ~(converges \/ (lastGuessed /\ cloudInfo.odom_available)))

Match(converges) ==
    /\ step = "match"
    /\ UNCHANGED <<input, keyVars, loopIndexQueue, looping, external>>
    /\ \/ /\ timeLaserInfoCur - timeLastProcessing < mappingProcessInterval
          /\ step' = "idle"
          /\ UNCHANGED <<timeLastProcessing, matching, incremental>>
       \/ /\ timeLaserInfoCur - timeLastProcessing >= mappingProcessInterval
          /\ timeLastProcessing' = timeLaserInfoCur
          /\ step' = "save"
          /\ \/ /\ cloudKeyPoses = <<>>
                /\ incremental' = [incremental EXCEPT !.front = transformTobeMapped]
                /\ UNCHANGED matching
             \/ /\ cloudKeyPoses # <<>>
                /\ lastImuPreTransformation' =
                       IF cloudInfo.odom_available THEN cloudInfo.at
                       ELSE lastImuPreTransformation
                /\ extractSurroundingKeyFrames
                /\ scan2MapOptimization(converges)
                /\ lastGuessed' = cloudInfo.odom_available

----------------------------------------------------------------------------
saveFrame == IF cloudKeyPoses = <<>> THEN TRUE
             ELSE Distance(transformTobeMapped, Newest.at) >= 1

\* The places of the key frames and the new one; with loops, the later ones
\* are moved by what the loops ask for.
addOdomFactor == Append([k \in Numbers |-> cloudKeyPoses[k].at], transformTobeMapped)

addLoopFactor(shift, from) ==
    /\ loopIndexQueue' = {}
    /\ aLoopIsClosed' = (aLoopIsClosed \/ loopIndexQueue # {})
    /\ isamCurrentEstimate' =
           [k \in DOMAIN addOdomFactor |->
               addOdomFactor[k] + (IF loopIndexQueue # {} /\ k >= from THEN shift ELSE 0)]

\* The pose of the key frame, and then its clouds; a cloud that is not far
\* from the last key frame is none.
saveKeyFramesAndFactor(shift, from) ==
    /\ step = "save"
    /\ UNCHANGED <<input, timeLastProcessing, keyFrames, globalPath, lastImuPreTransformation,
                   laserCloudMapContainer, astray, lastGuessed,
                   incremental, looping, external>>
    /\ \/ /\ ~saveFrame
          /\ step' = "correct"
          /\ UNCHANGED <<cloudKeyPoses, isamCurrentEstimate, aLoopIsClosed,
                         transformTobeMapped, loopIndexQueue>>
       \/ /\ saveFrame
          /\ step' = "frames"
          /\ from \in DOMAIN addOdomFactor
          /\ addLoopFactor(shift, from)
          /\ transformTobeMapped' = isamCurrentEstimate'[Len(addOdomFactor)]
          /\ cloudKeyPoses' =
                 Append(cloudKeyPoses, [at |-> transformTobeMapped', time |-> timeLaserInfoCur])

updatePath(poses) == [k \in DOMAIN poses |-> poses[k].at]

SaveFrames ==
    /\ step = "frames"
    /\ step' = "correct"
    /\ keyFrames' = Append(keyFrames, cloudInfo.at)
    /\ globalPath' = Append(globalPath, Newest.at)
    /\ UNCHANGED <<input, timeLastProcessing, matching, cloudKeyPoses, isamCurrentEstimate,
                   aLoopIsClosed, loopIndexQueue, incremental, looping, external>>

\* Mutant: the cache keeps clouds of poses from before.
correctPosesOnly ==
    /\ UNCHANGED laserCloudMapContainer
    /\ aLoopIsClosed' = FALSE
    /\ cloudKeyPoses' = [k \in Numbers |-> [cloudKeyPoses[k] EXCEPT !.at = isamCurrentEstimate[k]]]
    /\ globalPath' = updatePath(cloudKeyPoses')

correctPoses ==
    /\ laserCloudMapContainer' = <<>>
    /\ aLoopIsClosed' = FALSE
    /\ cloudKeyPoses' = [k \in Numbers |-> [cloudKeyPoses[k] EXCEPT !.at = isamCurrentEstimate[k]]]
    /\ globalPath' = updatePath(cloudKeyPoses')

\* The incremental odometry begins at the pose, and goes on by the way from
\* before the guess to the match.  Mutant: from the pose that is the newest.
publishOdometryOn ==
    incremental' = [incremental EXCEPT
        !.odometry = IF @ = NoPose THEN transformTobeMapped
                     ELSE IF incremental.back = NoPose THEN @
                     ELSE @ + transformTobeMapped - incremental.front]

publishOdometry ==
    incremental' = [incremental EXCEPT
        !.odometry = IF @ = NoPose THEN transformTobeMapped
                     ELSE IF incremental.back = NoPose THEN @  \* not initialised
                     ELSE @ + incremental.back - incremental.front]

PublishSolution ==
    /\ step = "correct"
    /\ step' = "idle"
    /\ \/ aLoopIsClosed /\ correctPoses
       \/ ~aLoopIsClosed /\ UNCHANGED <<laserCloudMapContainer, keyVars>>
    /\ publishOdometry
    /\ UNCHANGED <<input, timeLastProcessing, keyFrames, isamCurrentEstimate,
                   transformTobeMapped, lastImuPreTransformation, astray,
                   lastGuessed, loopIndexQueue, looping, external>>

----------------------------------------------------------------------------
\* Another node may have found the times of a loop, those of two key frames;
\* the last five are kept.
loopInfoHandler(cur, pre) ==
    /\ step = "idle"  \* the same thread
    /\ loopInfos < MaxLoopInfo
    /\ loopInfos' = loopInfos + 1
    /\ LET all == Append(loopInfoVec, <<cur, pre>>)
       IN  loopInfoVec' = IF Len(all) > 5 THEN Tail(all) ELSE all
    /\ UNCHANGED <<input, step, timeLastProcessing, keyVars, matching, loopIndexQueue,
                   incremental, looping>>

Locked == step \in {"save", "frames", "correct"}

\* Mutant: without the lock.
CopyPosesAnytime ==
    /\ loopStep = "sleep" /\ cloudKeyPoses # <<>>
    /\ loopStep' = "detect"
    /\ copy_cloudKeyPoses' = cloudKeyPoses

CopyPoses ==
    /\ loopStep = "sleep" /\ cloudKeyPoses # <<>> /\ ~Locked
    /\ loopStep' = "detect"
    /\ copy_cloudKeyPoses' = cloudKeyPoses

Copied == 1..Len(copy_cloudKeyPoses)

\* The newest key frame, and the nearest one that is old enough.
detectLoopClosureDistance ==
    LET cur == Len(copy_cloudKeyPoses)
        away(k) == Distance(copy_cloudKeyPoses[k].at, copy_cloudKeyPoses[cur].at)
        old == {k \in Copied : /\ away(k) <= SearchRadius
                               /\ Distance(copy_cloudKeyPoses[k].time, timeLaserInfoCur) > TimeDiff}
    IN  {<<cur, pre>> : pre \in {k \in old : /\ k # cur /\ cur \notin DOMAIN loopIndexContainer
                                             /\ \A i \in old : away(k) <= away(i)}}

\* The key frames of the times of the other node's loop.
detectLoopClosureExternal ==
    IF loopInfoVec = <<>> \/ Len(copy_cloudKeyPoses) < 2 THEN {}
    ELSE LET later == {k \in Copied : copy_cloudKeyPoses[k].time >= Head(loopInfoVec)[1]}
             earlier == {k \in Copied : copy_cloudKeyPoses[k].time <= Head(loopInfoVec)[2]}
             cur == Min(later \cup {Len(copy_cloudKeyPoses)})
             pre == Max(earlier \cup {1})
         IN  IF \/ Distance(Head(loopInfoVec)[1], Head(loopInfoVec)[2]) < TimeDiff
                \/ cur = pre \/ cur \in DOMAIN loopIndexContainer THEN {}
             ELSE {<<cur, pre>>}

\* How far from their true place the clouds of a key frame, and of those
\* around it, are by the copied poses.
loopFindNearKeyframes(key) == copy_cloudKeyPoses[key].at - keyFrames[key]

\* The newer one's pose is moved until its clouds fit; the factor is the way
\* from there to the older one.
Align(cur, pre) ==
    LET correction == loopFindNearKeyframes(pre) - loopFindNearKeyframes(cur)
        tCorrect == correction + copy_cloudKeyPoses[cur].at
    IN  [from |-> cur, to |-> pre, between |-> copy_cloudKeyPoses[pre].at - tCorrect]

DetectLoop(pair, converges) ==
    LET loops == IF detectLoopClosureExternal # {} THEN detectLoopClosureExternal
                 ELSE detectLoopClosureDistance
    IN  /\ loopStep = "detect"
        /\ loopInfoVec' = IF loopInfoVec = <<>> THEN <<>> ELSE Tail(loopInfoVec)
        /\ \/ /\ pair \in loops /\ converges
              /\ found' = Align(pair[1], pair[2])
              /\ loopStep' = "push"
           \/ /\ pair \in loops => ~converges
              /\ loops = {} \/ pair \in loops
              /\ loopStep' = "sleep"
              /\ UNCHANGED found

PushLoop ==
    /\ loopStep = "push" /\ ~Locked
    /\ loopStep' = "sleep"
    /\ loopIndexQueue' = loopIndexQueue \cup {found}
    /\ found' = NoLoop
    /\ loopIndexContainer' =
           [k \in DOMAIN loopIndexContainer \cup {found.from} |->
               IF k = found.from THEN found.to ELSE loopIndexContainer[k]]

performLoopClosure ==
    /\ UNCHANGED <<input, step, timeLastProcessing, keyVars, matching, incremental, loopInfos>>
    /\ \/ CopyPoses /\ UNCHANGED <<found, loopIndexContainer, loopIndexQueue, loopInfoVec>>
       \/ /\ \E pair \in Copied \X Copied, converges \in BOOLEAN : DetectLoop(pair, converges)
          /\ UNCHANGED <<copy_cloudKeyPoses, loopIndexContainer, loopIndexQueue>>
       \/ PushLoop /\ UNCHANGED <<copy_cloudKeyPoses, loopInfoVec>>

MappingNext ==
    \/ \E moved \in Steps, gap \in Gaps, odometry, enough \in BOOLEAN :
           laserCloudInfoHandler(moved, gap, odometry, enough)
    \/ \E converges \in BOOLEAN : Match(converges)
    \/ \E shift \in Shifts, from \in 1..MaxClouds : saveKeyFramesAndFactor(shift, from)
    \/ SaveFrames
    \/ PublishSolution
    \/ \E k, l \in Numbers :
           k > l /\ loopInfoHandler(cloudKeyPoses[k].time, cloudKeyPoses[l].time)
    \/ performLoopClosure

MappingSpec == MappingInit /\ [][MappingNext]_mappingVars

----------------------------------------------------------------------------
\* The map, the path and the key frames are of one solution whenever a cloud
\* is taken up: the cached clouds lie where their key frames' poses are, and
\* there are as many frames as poses (correctPoses, extractCloud).
MapOfOneSolution ==
    step = "idle" =>
        /\ \A k \in DOMAIN laserCloudMapContainer :
               laserCloudMapContainer[k] = cloudKeyPoses[k].at
        /\ globalPath = updatePath(cloudKeyPoses)
        /\ Len(keyFrames) = Len(cloudKeyPoses)

\* A loop joins two key frames by the way there really is from one to the
\* other, though their poses may have been moved since they were copied; the
\* frames of the copied poses are all there (performLoopClosure).
LoopFactorsTrue ==
    /\ \A loop \in loopIndexQueue :
           /\ loop.to < loop.from /\ loop.from \in Numbers
           /\ loop.between = keyFrames[loop.to] - keyFrames[loop.from]
    /\ \A x, y \in loopIndexQueue : x.from = y.from => x = y
    /\ Len(copy_cloudKeyPoses) <= Len(keyFrames)

\* The incremental odometry takes in the way and no loop's correction, while
\* each cloud is matched with the map or has a guess to go on from
\* (publishOdometry, updateInitialGuess, transformUpdate).
IncrementalTrue ==
    step = "idle" /\ ~astray /\ incremental.odometry # NoPose
            /\ timeLastProcessing = timeLaserInfoCur =>
        incremental.odometry = cloudInfo.at - keyFrames[1]
=============================================================================
