------------------------------ MODULE LioProofs -------------------------------
(***************************************************************************)
(* What the mapping of LIO-SAM keeps, for every road the vehicle takes,    *)
(* every pace of the clouds and every loop: the map is of one solution, a  *)
(* loop's factor is true, and the incremental odometry has no jump.  And   *)
(* what its preintegration keeps in whatever order messages and            *)
(* corrections arrive: the odometry between two corrections is exact.  And *)
(* that the projection turns every point by the rotation of its time, and  *)
(* that the feature extraction keeps corners apart.                        *)
(***************************************************************************)
EXTENDS LioMapping, LioPreintegration, LioProjection, LioFeatures, Lemmas, SequenceTheorems

KeyPoses == [at : Int, time : Int]
Poses == Int \cup {NoPose}

MappingTypes ==
  /\ place \in Int /\ timeLaserInfoCur \in Int /\ timeLastProcessing \in Int
  /\ cloudInfo \in [at : Int, odom_available : BOOLEAN, enough : BOOLEAN]
  /\ step \in {"idle", "match", "save", "frames", "correct"}
  /\ transformTobeMapped \in Int /\ lastImuPreTransformation \in Poses
  /\ cloudKeyPoses \in Seq(KeyPoses) /\ keyFrames \in Seq(Int)
  /\ incremental \in [front : Int, back : Poses, odometry : Poses]
  /\ aLoopIsClosed \in BOOLEAN /\ astray \in BOOLEAN /\ lastGuessed \in BOOLEAN

\* A key frame's pose comes before its clouds.
FramesComplete ==
  Len(keyFrames) = IF step = "frames" THEN Len(cloudKeyPoses) - 1 ELSE Len(cloudKeyPoses)

\* What is cached lies where the key frame's pose is.
CacheTrue ==
  \A k \in DOMAIN laserCloudMapContainer :
      k \in Numbers /\ laserCloudMapContainer[k] = cloudKeyPoses[k].at

PathTrue == globalPath = [k \in 1..Len(keyFrames) |-> cloudKeyPoses[k].at]

\* A solution with a loop is taken over before the next cloud, and the newest
\* key frame has its pose from it already.
SolutionPending ==
  aLoopIsClosed =>
      /\ step \in {"frames", "correct"}
      /\ isamCurrentEstimate \in [Numbers -> Int]
      /\ cloudKeyPoses # <<>> /\ isamCurrentEstimate[Len(cloudKeyPoses)] = Newest.at

MapInv == FramesComplete /\ CacheTrue /\ PathTrue /\ SolutionPending

-----------------------------------------------------------------------------
TimesAscend ==
  /\ \A i, j \in Numbers : i < j => cloudKeyPoses[i].time < cloudKeyPoses[j].time
  /\ \A i \in Numbers : cloudKeyPoses[i].time <= timeLaserInfoCur
  /\ step \in {"match", "save"} =>
         \A i \in Numbers : cloudKeyPoses[i].time < timeLaserInfoCur

\* The copied key frames have their clouds and their times, whatever their
\* poses have become.
CopyKnown ==
  /\ copy_cloudKeyPoses \in Seq(KeyPoses) /\ Len(copy_cloudKeyPoses) <= Len(keyFrames)
  /\ \A k \in Copied : copy_cloudKeyPoses[k].time = cloudKeyPoses[k].time

\* The other node's loops are from later to earlier.
LoopInfoTrue ==
  /\ loopInfoVec \in Seq(Int \X Int)
  /\ \A i \in 1..Len(loopInfoVec) : loopInfoVec[i][1] > loopInfoVec[i][2]

IsTrue(loop) ==
  /\ loop \in [from : Int, to : Int, between : Int]
  /\ loop.from \in 1..Len(keyFrames) /\ loop.to \in 1..Len(keyFrames)
  /\ loop.to < loop.from
  /\ loop.between = keyFrames[loop.to] - keyFrames[loop.from]

\* A key frame has one loop at most: those that were pushed are remembered.
LoopsTrue ==
  /\ \A loop \in loopIndexQueue : IsTrue(loop) /\ loop.from \in DOMAIN loopIndexContainer
  /\ \A x, y \in loopIndexQueue : x.from = y.from => x = y
  /\ loopStep \in {"sleep", "detect", "push"}
  /\ loopStep = "push" => IsTrue(found) /\ found.from \notin DOMAIN loopIndexContainer

LoopInv == TimesAscend /\ CopyKnown /\ LoopInfoTrue /\ LoopsTrue

-----------------------------------------------------------------------------
\* Before there is a key frame nothing is known but the beginning.
NothingYet ==
  keyFrames = <<>> =>
      /\ step # "correct"
      /\ transformTobeMapped = 0 /\ ~lastGuessed /\ loopIndexQueue = {}
      /\ incremental.odometry = NoPose /\ incremental.back = NoPose

\* How far the newest key frame is from its true place: what loops and the
\* beginning add up to.
Offset == Newest.at - keyFrames[Len(keyFrames)]

\* Between two clouds pose, odometry and guess differ by what they start from.
Settled ==
  /\ incremental.odometry \in Int
  /\ incremental.odometry = transformTobeMapped - Offset - keyFrames[1]
  /\ lastGuessed => lastImuPreTransformation = transformTobeMapped - Offset

\* The way to the cloud that is taken up ends at its true place.
WayTrue ==
  /\ incremental.odometry \in Int /\ incremental.back \in Int
  /\ incremental.odometry + incremental.back - incremental.front
         = cloudInfo.at - keyFrames[1]

\* The first key frame is where the odometry begins.
Beginning ==
  /\ incremental.odometry = NoPose /\ incremental.back = NoPose
  /\ transformTobeMapped = 0 /\ keyFrames[1] = cloudInfo.at

ClocksRight ==
  /\ timeLastProcessing <= timeLaserInfoCur
  /\ step = "match" => timeLastProcessing < timeLaserInfoCur

WayInv ==
  ~astray =>
      /\ step \in {"idle", "match"} /\ keyFrames # <<>> => Settled
      /\ (\/ step = "idle" /\ timeLastProcessing = timeLaserInfoCur /\ cloudKeyPoses # <<>>
          \/ step \in {"save", "correct"} /\ keyFrames # <<>>) =>
             transformTobeMapped = Offset + cloudInfo.at
      /\ step \in {"save", "frames"} /\ keyFrames # <<>> => WayTrue
      /\ step = "correct" => WayTrue \/ Beginning
      /\ step \in {"save", "frames", "correct"} /\ lastGuessed =>
             lastImuPreTransformation = cloudInfo.at
      /\ step = "frames" => Newest.at = transformTobeMapped

IncrementalInv == NothingYet /\ ClocksRight /\ WayInv
MappingInv == MappingTypes /\ MapInv /\ LoopInv /\ IncrementalInv

-----------------------------------------------------------------------------
LEMMA MaxIs ==
  ASSUME NEW S \in SUBSET Int, NEW m \in S, \A y \in S : m >= y
  PROVE  Max(S) = m
<1>1. \A y \in S : y \in Int
  OBVIOUS
<1>2. Max(S) \in S /\ \A y \in S : Max(S) >= y
  BY Zenon DEF Max
<1>3. Max(S) \in Int /\ m \in Int /\ Max(S) >= m /\ m >= Max(S)
  BY <1>1, <1>2
<1>4. QED  BY <1>3

LEMMA KeyPosesAre ==
  ASSUME MappingTypes
  PROVE  /\ Len(cloudKeyPoses) \in Nat
         /\ \A k \in 1..Len(cloudKeyPoses) :
                /\ cloudKeyPoses[k] \in KeyPoses
                /\ cloudKeyPoses[k].at \in Int /\ cloudKeyPoses[k].time \in Int
<1>1. Len(cloudKeyPoses) \in Nat
      /\ \A k \in 1..Len(cloudKeyPoses) : cloudKeyPoses[k] \in KeyPoses
  BY DEF MappingTypes
<1>2. \A r \in KeyPoses : r.at \in Int /\ r.time \in Int
  BY DEF KeyPoses
<1>3. QED  BY <1>1, <1>2

\* A match is against the newest key frame, whatever is cached.
LEMMA NewestFits ==
  ASSUME MappingTypes, CacheTrue, cloudKeyPoses # <<>>, Len(keyFrames) = Len(cloudKeyPoses)
  PROVE  Fitting = Offset + cloudInfo.at
<1> DEFINE n == Len(cloudKeyPoses)
<1>1. n \in Nat /\ n \in Numbers /\ cloudKeyPoses[n] \in KeyPoses /\ n > 0
  BY KeyPosesAre DEF MappingTypes, Numbers
<1>2. Distance(Newest.at, Newest.at) = 0
  BY <1>1, KeyPosesAre DEF Distance, Newest, Numbers
<1>3. n \in extractNearby /\ extractNearby \subseteq Numbers
  BY <1>1, <1>2, MappingAssumption DEF extractNearby, Newest
<1>4. n \in DOMAIN extractCloud /\ DOMAIN extractCloud \subseteq Numbers
  BY <1>1, <1>2, <1>3, MappingAssumption DEF extractCloud, Newest
<1>5. Max(DOMAIN extractCloud) = n
  <2>1. DOMAIN extractCloud \subseteq Int /\ \A y \in DOMAIN extractCloud : n >= y
    BY <1>1, <1>4 DEF Numbers
  <2>2. QED  BY <1>4, <2>1, MaxIs
<1>6. extractCloud[n] = cloudKeyPoses[n].at
  <2>1. extractCloud[n] = IF n \in DOMAIN laserCloudMapContainer THEN laserCloudMapContainer[n]
                          ELSE cloudKeyPoses[n].at
    BY <1>4 DEF extractCloud
  <2>2. QED  BY <2>1 DEF CacheTrue
<1> HIDE DEF n
<1>7. Fitting = extractCloud[n] + cloudInfo.at - keyFrames[n]
  BY <1>5, Zenon DEF Fitting
<1>8. Newest.at \in Int /\ keyFrames[n] \in Int /\ cloudInfo.at \in Int
  BY <1>1, KeyPosesAre DEF Newest, MappingTypes, Numbers, n
<1>9. QED  BY <1>6, <1>7, <1>8 DEF Offset, Newest, n

LEMMA OffsetIsInt ==
  ASSUME MappingTypes, cloudKeyPoses # <<>>, Len(keyFrames) = Len(cloudKeyPoses)
  PROVE  Offset \in Int /\ Newest.at \in Int /\ keyFrames[1] \in Int
<1>1. Len(cloudKeyPoses) \in Nat \ {0}
  BY DEF MappingTypes
<1>2. keyFrames[1] \in Int /\ keyFrames[Len(keyFrames)] \in Int
  BY <1>1 DEF MappingTypes
<1>3. QED  BY <1>1, <1>2, KeyPosesAre DEF Offset, Newest

LEMMA GuessIsInt ==
  ASSUME MappingTypes
  PROVE  updateInitialGuess \in Int
BY DEF updateInitialGuess, MappingTypes, Poses

\* What a match gives is a place.
LEMMA MatchIsInt ==
  ASSUME MappingTypes, CacheTrue, FramesComplete, step = "match", cloudKeyPoses # <<>>,
         NEW converges \in BOOLEAN
  PROVE  LMOptimization(converges) \in Int /\ updateInitialGuess \in Int
<1>1. Fitting \in Int
  <2>1. Len(keyFrames) = Len(cloudKeyPoses)
    BY DEF FramesComplete
  <2>2. Fitting = Offset + cloudInfo.at /\ Offset \in Int
    BY <2>1, NewestFits, OffsetIsInt
  <2>3. cloudInfo.at \in Int
    BY DEF MappingTypes
  <2>4. QED  BY <2>2, <2>3
<1>2. QED  BY <1>1, GuessIsInt DEF LMOptimization

\* The estimates after a new key frame: places, one for each, and the newest's
\* is where the pose is put.
LEMMA EstimatesAre ==
  ASSUME MappingTypes, NEW shift \in Shifts, NEW from, addLoopFactor(shift, from),
         from \in DOMAIN addOdomFactor
  PROVE  /\ DOMAIN addOdomFactor = 1..Len(cloudKeyPoses) + 1
         /\ Len(addOdomFactor) = Len(cloudKeyPoses) + 1
         /\ isamCurrentEstimate' \in [1..Len(cloudKeyPoses) + 1 -> Int]
         /\ loopIndexQueue = {} =>
                isamCurrentEstimate'[Len(cloudKeyPoses) + 1] = transformTobeMapped
<1> DEFINE n == Len(cloudKeyPoses)
           places == [k \in Numbers |-> cloudKeyPoses[k].at]
<1>1. n \in Nat /\ transformTobeMapped \in Int /\ shift \in Int
  BY MappingAssumption DEF MappingTypes
<1>2. places \in Seq(Int) /\ Len(places) = n
  <2>1. places \in [1..n -> Int]
    BY KeyPosesAre DEF Numbers
  <2>2. QED  BY <1>1, <2>1
<1>3. /\ addOdomFactor \in Seq(Int) /\ Len(addOdomFactor) = n + 1
      /\ addOdomFactor[n + 1] = transformTobeMapped
  <2>1. addOdomFactor = Append(places, transformTobeMapped)
    BY DEF addOdomFactor
  <2> HIDE DEF places
  <2>2. QED  BY <1>1, <1>2, <2>1
<1>4. DOMAIN addOdomFactor = 1..n + 1 /\ \A k \in 1..n + 1 : addOdomFactor[k] \in Int
  BY <1>1, <1>3
<1>5. isamCurrentEstimate' =
          [k \in 1..n + 1 |-> addOdomFactor[k]
                                  + (IF loopIndexQueue # {} /\ k >= from THEN shift ELSE 0)]
  <2>1. isamCurrentEstimate' =
            [k \in DOMAIN addOdomFactor |->
                addOdomFactor[k] + (IF loopIndexQueue # {} /\ k >= from THEN shift ELSE 0)]
    BY DEF addLoopFactor
  <2>2. QED  BY <1>4, <2>1, Zenon
<1> HIDE DEF n
<1>6. /\ isamCurrentEstimate' \in [1..n + 1 -> Int]
      /\ loopIndexQueue = {} => isamCurrentEstimate'[n + 1] = transformTobeMapped
  BY <1>1, <1>3, <1>4, <1>5
<1>7. QED  BY <1>3, <1>4, <1>6 DEF n

-----------------------------------------------------------------------------
\* What correctPoses makes of the key frames.
LEMMA CorrectedPoses ==
  ASSUME MappingTypes, isamCurrentEstimate \in [Numbers -> Int], correctPoses
  PROVE  /\ cloudKeyPoses' \in Seq(KeyPoses) /\ Len(cloudKeyPoses') = Len(cloudKeyPoses)
         /\ \A k \in Numbers : /\ cloudKeyPoses'[k].at = isamCurrentEstimate[k]
                               /\ cloudKeyPoses'[k].time = cloudKeyPoses[k].time
<1> DEFINE moved(k) == [cloudKeyPoses[k] EXCEPT !.at = isamCurrentEstimate[k]]
<1>1. cloudKeyPoses' = [k \in Numbers |-> moved(k)]
  BY DEF correctPoses
<1>2. \A k \in Numbers : /\ moved(k) \in KeyPoses
                         /\ moved(k).at = isamCurrentEstimate[k]
                         /\ moved(k).time = cloudKeyPoses[k].time
  BY KeyPosesAre DEF KeyPoses, Numbers
<1> HIDE DEF moved
<1>3. cloudKeyPoses' \in [Numbers -> KeyPoses]
  BY <1>1, <1>2
<1>4. cloudKeyPoses' \in Seq(KeyPoses) /\ Len(cloudKeyPoses') = Len(cloudKeyPoses)
  BY <1>3, KeyPosesAre DEF Numbers
<1>5. \A k \in Numbers : cloudKeyPoses'[k] = moved(k)
  BY <1>1
<1>6. QED  BY <1>2, <1>4, <1>5

LEMMA TypesKept ==
  ASSUME MappingTypes, FramesComplete, CacheTrue, SolutionPending, [MappingNext]_mappingVars
  PROVE  MappingTypes'
<1>1. ASSUME NEW moved \in Steps, NEW gap \in Gaps, NEW odometry \in BOOLEAN,
             NEW enough \in BOOLEAN, laserCloudInfoHandler(moved, gap, odometry, enough)
      PROVE  MappingTypes'
  <2>1. moved \in Int /\ gap \in Int
    BY MappingAssumption
  <2>2. QED  BY <1>1, <2>1 DEF laserCloudInfoHandler, MappingTypes, keyVars, matching
<1>2. ASSUME NEW converges \in BOOLEAN, Match(converges)
      PROVE  MappingTypes'
  <2>1. CASE UNCHANGED <<timeLastProcessing, matching, incremental>> /\ step' = "idle"
    BY <1>2, <2>1 DEF Match, MappingTypes, input, keyVars, matching
  <2>2. CASE /\ timeLastProcessing' = timeLaserInfoCur /\ step' = "save" /\ UNCHANGED matching
             /\ incremental' = [incremental EXCEPT !.front = transformTobeMapped]
    BY <1>2, <2>2 DEF Match, MappingTypes, input, keyVars, matching
  <2>3. CASE /\ timeLastProcessing' = timeLaserInfoCur /\ step' = "save"
             /\ cloudKeyPoses # <<>>
             /\ lastImuPreTransformation' =
                    IF cloudInfo.odom_available THEN cloudInfo.at ELSE lastImuPreTransformation
             /\ scan2MapOptimization(converges)
             /\ lastGuessed' = cloudInfo.odom_available
    <3>1. LMOptimization(converges) \in Int /\ updateInitialGuess \in Int
      BY <1>2, <2>3, MatchIsInt DEF Match
    <3>2. transformTobeMapped' \in Int /\ astray' \in BOOLEAN
      BY <2>3, <3>1 DEF scan2MapOptimization, MappingTypes
    <3>3. incremental' \in [front : Int, back : Poses, odometry : Poses]
      BY <2>3, <3>1, <3>2 DEF scan2MapOptimization, MappingTypes, Poses
    <3>4. lastImuPreTransformation' \in Poses /\ lastGuessed' \in BOOLEAN
      BY <2>3 DEF MappingTypes, Poses
    <3>5. QED
      BY <1>2, <2>3, <3>2, <3>3, <3>4 DEF Match, MappingTypes, input, keyVars
  <2>4. QED  BY <1>2, <2>1, <2>2, <2>3 DEF Match
<1>3. ASSUME NEW shift \in Shifts, NEW from \in 1..MaxClouds,
             saveKeyFramesAndFactor(shift, from)
      PROVE  MappingTypes'
  <2>1. CASE step' = "correct" /\ UNCHANGED <<cloudKeyPoses, aLoopIsClosed, transformTobeMapped>>
    BY <1>3, <2>1 DEF saveKeyFramesAndFactor, MappingTypes, input
  <2>2. CASE /\ step' = "frames" /\ from \in DOMAIN addOdomFactor
             /\ addLoopFactor(shift, from)
             /\ transformTobeMapped' = isamCurrentEstimate'[Len(addOdomFactor)]
             /\ cloudKeyPoses' = Append(cloudKeyPoses, [at |-> transformTobeMapped',
                                                        time |-> timeLaserInfoCur])
    <3>1. transformTobeMapped' \in Int
      BY <2>2, EstimatesAre, KeyPosesAre
    <3>2. [at |-> transformTobeMapped', time |-> timeLaserInfoCur] \in KeyPoses
      BY <3>1 DEF MappingTypes, KeyPoses
    <3>3. cloudKeyPoses' \in Seq(KeyPoses)
      BY <2>2, <3>2 DEF MappingTypes
    <3>4. aLoopIsClosed' \in BOOLEAN
      BY <2>2 DEF addLoopFactor, MappingTypes
    <3>5. QED
      BY <1>3, <2>2, <3>1, <3>3, <3>4 DEF saveKeyFramesAndFactor, MappingTypes, input
  <2>3. QED  BY <1>3, <2>1, <2>2 DEF saveKeyFramesAndFactor
<1>4. ASSUME SaveFrames
      PROVE  MappingTypes'
  <2>1. keyFrames' \in Seq(Int)
    BY <1>4 DEF SaveFrames, MappingTypes
  <2>2. QED  BY <1>4, <2>1 DEF SaveFrames, MappingTypes, input, matching
<1>5. ASSUME PublishSolution
      PROVE  MappingTypes'
  <2>1. incremental' \in [front : Int, back : Poses, odometry : Poses]
    BY <1>5, SMTT(20) DEF PublishSolution, publishOdometry, MappingTypes, Poses
  <2>2. cloudKeyPoses' \in Seq(KeyPoses) /\ aLoopIsClosed' \in BOOLEAN
    <3>1. CASE aLoopIsClosed /\ correctPoses
      BY <3>1, CorrectedPoses DEF SolutionPending, correctPoses
    <3>2. CASE UNCHANGED <<laserCloudMapContainer, keyVars>>
      BY <3>2 DEF MappingTypes, keyVars
    <3>3. QED  BY <1>5, <3>1, <3>2 DEF PublishSolution
  <2>3. QED  BY <1>5, <2>1, <2>2 DEF PublishSolution, MappingTypes, input
<1>6. ASSUME NEW cur, NEW pre, loopInfoHandler(cur, pre)
      PROVE  MappingTypes'
  BY <1>6 DEF loopInfoHandler, MappingTypes, input, keyVars, matching
<1>7. ASSUME performLoopClosure
      PROVE  MappingTypes'
  BY <1>7 DEF performLoopClosure, MappingTypes, input, keyVars, matching
<1>8. ASSUME UNCHANGED mappingVars
      PROVE  MappingTypes'
  BY <1>8 DEF mappingVars, MappingTypes, input, keyVars, matching
<1>9. QED  BY <1>1, <1>2, <1>3, <1>4, <1>5, <1>6, <1>7, <1>8 DEF MappingNext

-----------------------------------------------------------------------------
\* A matching caches what the key frames' poses say, and drops all or nothing.
LEMMA CacheKept ==
  ASSUME CacheTrue, extractSurroundingKeyFrames
  PROVE  \A k \in DOMAIN laserCloudMapContainer' :
             k \in Numbers /\ laserCloudMapContainer'[k] = cloudKeyPoses[k].at
<1> DEFINE both == DOMAIN laserCloudMapContainer \cup DOMAIN extractCloud
           clouds_(k) == IF k \in DOMAIN extractCloud THEN extractCloud[k]
                         ELSE laserCloudMapContainer[k]
           cached == [k \in both |-> clouds_(k)]
<1>1. \A k \in DOMAIN extractCloud :
          k \in Numbers /\ extractCloud[k] = cloudKeyPoses[k].at
  <2>1. DOMAIN extractCloud \subseteq Numbers
    BY DEF extractCloud, extractNearby
  <2>2. \A k \in DOMAIN extractCloud :
            extractCloud[k] = IF k \in DOMAIN laserCloudMapContainer
                              THEN laserCloudMapContainer[k] ELSE cloudKeyPoses[k].at
    BY DEF extractCloud
  <2>3. QED  BY <2>1, <2>2 DEF CacheTrue
<1>2. \A k \in both : k \in Numbers /\ clouds_(k) = cloudKeyPoses[k].at
  BY <1>1 DEF CacheTrue
<1>3. laserCloudMapContainer' = <<>> \/ laserCloudMapContainer' = cached
  BY DEF extractSurroundingKeyFrames
<1> HIDE DEF both, clouds_
<1>4. DOMAIN cached = both /\ \A k \in both : cached[k] = clouds_(k)
  OBVIOUS
<1>5. CASE laserCloudMapContainer' = <<>>
  BY <1>5
<1> HIDE DEF cached
<1>6. CASE laserCloudMapContainer' = cached
  BY <1>2, <1>4, <1>6
<1>7. QED  BY <1>3, <1>5, <1>6

LEMMA MapKept ==
  ASSUME MappingTypes, MappingTypes', MapInv, [MappingNext]_mappingVars
  PROVE  MapInv'
<1>a. /\ FramesComplete /\ CacheTrue /\ PathTrue /\ SolutionPending
      /\ Len(cloudKeyPoses) \in Nat /\ Len(keyFrames) \in Nat
  BY DEF MapInv, MappingTypes
<1>1. ASSUME NEW moved \in Steps, NEW gap \in Gaps, NEW odometry \in BOOLEAN,
             NEW enough \in BOOLEAN, laserCloudInfoHandler(moved, gap, odometry, enough)
      PROVE  MapInv'
  BY <1>1 DEF laserCloudInfoHandler, keyVars, matching, MapInv, FramesComplete, CacheTrue,
              PathTrue, SolutionPending, Numbers
<1>2. ASSUME NEW converges \in BOOLEAN, Match(converges)
      PROVE  MapInv'
  <2>1. step = "match" /\ step' \in {"idle", "save"} /\ UNCHANGED keyVars
    BY <1>2 DEF Match
  <2>2. FramesComplete' /\ PathTrue' /\ SolutionPending'
    BY <1>a, <2>1 DEF keyVars, FramesComplete, PathTrue, SolutionPending
  <2>3. CASE UNCHANGED laserCloudMapContainer
    BY <1>a, <2>1, <2>2, <2>3 DEF keyVars, MapInv, CacheTrue, Numbers
  <2>4. CASE extractSurroundingKeyFrames
    BY <1>a, <2>1, <2>2, <2>4, CacheKept DEF keyVars, MapInv, CacheTrue, Numbers
  <2>5. QED  BY <1>2, <2>3, <2>4 DEF Match, matching
<1>3. ASSUME NEW shift \in Shifts, NEW from \in 1..MaxClouds,
             saveKeyFramesAndFactor(shift, from)
      PROVE  MapInv'
  <2>1. /\ step = "save" /\ UNCHANGED <<keyFrames, globalPath, laserCloudMapContainer>>
        /\ ~aLoopIsClosed /\ Len(keyFrames) = Len(cloudKeyPoses)
    BY <1>a, <1>3 DEF saveKeyFramesAndFactor, SolutionPending, FramesComplete
  <2>2. CASE step' = "correct" /\ UNCHANGED <<cloudKeyPoses, isamCurrentEstimate, aLoopIsClosed>>
    BY <1>a, <2>1, <2>2 DEF MapInv, FramesComplete, CacheTrue, PathTrue, SolutionPending,
                            Numbers
  <2>3. CASE /\ step' = "frames" /\ from \in DOMAIN addOdomFactor
             /\ addLoopFactor(shift, from)
             /\ transformTobeMapped' = isamCurrentEstimate'[Len(addOdomFactor)]
             /\ cloudKeyPoses' = Append(cloudKeyPoses, [at |-> transformTobeMapped',
                                                        time |-> timeLaserInfoCur])
    <3> DEFINE n == Len(cloudKeyPoses)
               new == [at |-> transformTobeMapped', time |-> timeLaserInfoCur]
    <3>1. /\ isamCurrentEstimate' \in [1..n + 1 -> Int]
          /\ transformTobeMapped' = isamCurrentEstimate'[n + 1]
      BY <2>3, EstimatesAre
    <3>2. new.at = transformTobeMapped'
      OBVIOUS
    <3> HIDE DEF new
    <3>3. /\ Len(cloudKeyPoses') = n + 1 /\ cloudKeyPoses'[n + 1] = new
          /\ \A k \in 1..n : cloudKeyPoses'[k] = cloudKeyPoses[k]
      <4>1. cloudKeyPoses' = Append(cloudKeyPoses, new)
        BY <2>3 DEF new
      <4>2. QED  BY <4>1 DEF MappingTypes
    <3>4. FramesComplete'
      BY <1>a, <2>1, <2>3, <3>3 DEF FramesComplete
    <3>5. CacheTrue'
      BY <1>a, <2>1, <3>3 DEF CacheTrue, Numbers
    <3>6. PathTrue'
      BY <1>a, <2>1, <3>3 DEF PathTrue
    <3>7. SolutionPending'
      <4>1. cloudKeyPoses' # <<>> /\ Newest' = new
        BY <1>a, <3>3 DEF Newest
      <4>2. QED  BY <2>3, <3>1, <3>2, <3>3, <4>1 DEF SolutionPending, Numbers
    <3>8. QED  BY <3>4, <3>5, <3>6, <3>7 DEF MapInv
  <2>4. QED  BY <1>3, <2>2, <2>3 DEF saveKeyFramesAndFactor
<1>4. ASSUME SaveFrames
      PROVE  MapInv'
  <2> DEFINE n == Len(keyFrames)
  <2>1. /\ step' = "correct" /\ Len(cloudKeyPoses) = n + 1
        /\ Len(keyFrames') = n + 1
        /\ UNCHANGED <<cloudKeyPoses, laserCloudMapContainer, isamCurrentEstimate, aLoopIsClosed>>
    BY <1>a, <1>4 DEF SaveFrames, FramesComplete, matching, MappingTypes
  <2>2. FramesComplete' /\ CacheTrue' /\ SolutionPending'
    BY <1>a, <2>1 DEF FramesComplete, CacheTrue, SolutionPending, Numbers, Newest
  <2>3. PathTrue'
    <3>1. /\ globalPath \in Seq(Int) /\ Len(globalPath) = n
          /\ \A k \in 1..n : globalPath[k] = cloudKeyPoses[k].at
      <4>1. globalPath = [k \in 1..n |-> cloudKeyPoses[k].at]
        BY <1>a DEF PathTrue
      <4>2. globalPath \in [1..n -> Int]
        BY <1>a, <2>1, <4>1, KeyPosesAre
      <4>3. QED  BY <1>a, <4>1, <4>2
    <3>2. Newest.at = cloudKeyPoses[n + 1].at /\ Newest.at \in Int
      BY <1>a, <2>1, KeyPosesAre DEF Newest
    <3>3. /\ globalPath' \in Seq(Int) /\ Len(globalPath') = n + 1
          /\ \A k \in 1..n + 1 : globalPath'[k] = cloudKeyPoses[k].at
      <4>1. globalPath' = Append(globalPath, Newest.at)
        BY <1>4 DEF SaveFrames
      <4>2. QED  BY <1>a, <3>1, <3>2, <4>1
    <3>4. globalPath' = [k \in 1..n + 1 |-> cloudKeyPoses[k].at]
      BY <1>a, <3>3
    <3>5. QED  BY <2>1, <3>4 DEF PathTrue
  <2>4. QED  BY <2>2, <2>3 DEF MapInv
<1>5. ASSUME PublishSolution
      PROVE  MapInv'
  <2>1. step = "correct" /\ step' = "idle" /\ UNCHANGED keyFrames
        /\ Len(keyFrames) = Len(cloudKeyPoses)
    BY <1>a, <1>5 DEF PublishSolution, FramesComplete
  <2>2. CASE aLoopIsClosed /\ correctPoses
    <3>1. Len(cloudKeyPoses') = Len(cloudKeyPoses) /\ cloudKeyPoses' \in Seq(KeyPoses)
      BY <1>a, <2>2, CorrectedPoses DEF SolutionPending
    <3>2. /\ laserCloudMapContainer' = <<>> /\ ~aLoopIsClosed'
          /\ globalPath' = [k \in 1..Len(keyFrames) |-> cloudKeyPoses'[k].at]
      BY <2>1, <2>2, <3>1 DEF correctPoses, updatePath
    <3>3. QED
      BY <2>1, <3>1, <3>2 DEF MapInv, FramesComplete, CacheTrue, PathTrue, SolutionPending
  <2>3. CASE ~aLoopIsClosed /\ UNCHANGED <<laserCloudMapContainer, keyVars>>
    BY <1>a, <2>1, <2>3 DEF keyVars, MapInv, FramesComplete, CacheTrue, PathTrue,
                            SolutionPending, Numbers
  <2>4. QED  BY <1>5, <2>2, <2>3 DEF PublishSolution
<1>6. ASSUME NEW cur, NEW pre, loopInfoHandler(cur, pre)
      PROVE  MapInv'
  BY <1>6 DEF loopInfoHandler, keyVars, matching, MapInv, FramesComplete, CacheTrue,
              PathTrue, SolutionPending, Numbers, Newest
<1>7. ASSUME performLoopClosure
      PROVE  MapInv'
  BY <1>7 DEF performLoopClosure, keyVars, matching, MapInv, FramesComplete, CacheTrue,
              PathTrue, SolutionPending, Numbers, Newest
<1>8. ASSUME UNCHANGED mappingVars
      PROVE  MapInv'
  BY <1>8 DEF mappingVars, keyVars, matching, MapInv, FramesComplete, CacheTrue,
              PathTrue, SolutionPending, Numbers, Newest
<1>9. QED  BY <1>1, <1>2, <1>3, <1>4, <1>5, <1>6, <1>7, <1>8 DEF MappingNext

-----------------------------------------------------------------------------
\* Numbers have a least one, and bounded ones a greatest.
LEMMA MinIs ==
  ASSUME NEW S \in SUBSET Nat, S # {}
  PROVE  Min(S) \in S /\ \A y \in S : Min(S) <= y
<1> DEFINE Less == {ss \in Nat \X Nat : ss[1] < ss[2]}
<1>0. IsWellFoundedOn(Less, Nat)
  BY NatLessThanWellFounded DEF OpToRel
<1>1. PICK m \in S : \A y \in S : ~(<<y, m>> \in Less)
  <2> HIDE DEF Less
  <2>1. QED  BY <1>0, WFMin
<1>2. ASSUME NEW y \in S
      PROVE  m <= y
  <2>1. m \in Nat /\ y \in Nat /\ <<y, m>> \in Nat \X Nat
    OBVIOUS
  <2>2. y < m => <<y, m>> \in Less
    BY <2>1
  <2>3. QED  BY <1>1, <2>1, <2>2
<1>3. QED  BY <1>2, Zenon DEF Min

LEMMA MaxOf ==
  ASSUME NEW n \in Nat, NEW S \in SUBSET (1..n), S # {}
  PROVE  Max(S) \in S /\ \A y \in S : Max(S) >= y
<1> DEFINE mirrored == {n - k : k \in S}
<1>1. mirrored \in SUBSET Nat /\ mirrored # {}
  <2>1. \A k \in S : k \in 1..n /\ n - k \in Nat
    OBVIOUS
  <2>2. QED  BY <2>1, Zenon
<1>2. PICK m \in mirrored : \A y \in mirrored : m <= y
  <2> HIDE DEF mirrored
  <2>1. Min(mirrored) \in mirrored /\ \A y \in mirrored : Min(mirrored) <= y
    BY <1>1, MinIs
  <2>2. QED  BY <2>1
<1>3. PICK k \in S : m = n - k
  BY <1>2
<1>4. ASSUME NEW y \in S
      PROVE  k >= y
  <2>1. n - y \in mirrored
    OBVIOUS
  <2>2. k \in 1..n /\ y \in 1..n /\ m <= n - y
    BY <1>2, <2>1
  <2>3. QED  BY <1>3, <2>2
<1>5. QED  BY <1>4, Zenon DEF Max

-----------------------------------------------------------------------------
\* A loop that is detected is from a later key frame to an earlier one, and
\* the later one has none yet.
LEMMA DistanceLoop ==
  ASSUME copy_cloudKeyPoses \in Seq(KeyPoses), copy_cloudKeyPoses # <<>>,
         NEW pair \in detectLoopClosureDistance
  PROVE  /\ pair[1] \in Copied /\ pair[2] \in Copied /\ pair[2] < pair[1]
         /\ pair[1] \notin DOMAIN loopIndexContainer
<1>1. PICK pre \in Copied : /\ pair = <<Len(copy_cloudKeyPoses), pre>>
                            /\ pre # Len(copy_cloudKeyPoses)
                            /\ Len(copy_cloudKeyPoses) \notin DOMAIN loopIndexContainer
  BY DEF detectLoopClosureDistance
<1>2. Len(copy_cloudKeyPoses) \in Nat \ {0}
  OBVIOUS
<1>3. QED  BY <1>1, <1>2 DEF Copied

LEMMA ExternalLoop ==
  ASSUME copy_cloudKeyPoses \in Seq(KeyPoses), LoopInfoTrue,
         \A i, j \in Copied : i < j => copy_cloudKeyPoses[i].time < copy_cloudKeyPoses[j].time,
         NEW pair \in detectLoopClosureExternal
  PROVE  /\ pair[1] \in Copied /\ pair[2] \in Copied /\ pair[2] < pair[1]
         /\ pair[1] \notin DOMAIN loopIndexContainer
<1> DEFINE n == Len(copy_cloudKeyPoses)
           h1 == Head(loopInfoVec)[1]
           h2 == Head(loopInfoVec)[2]
           later == {k \in Copied : copy_cloudKeyPoses[k].time >= h1}
           earlier == {k \in Copied : copy_cloudKeyPoses[k].time <= h2}
           cur == Min(later \cup {n})
           pre == Max(earlier \cup {1})
<1>1. /\ loopInfoVec # <<>> /\ n >= 2 /\ cur # pre
      /\ cur \notin DOMAIN loopIndexContainer /\ pair = <<cur, pre>>
  <2>1. loopInfoVec # <<>> /\ ~(n < 2)
    BY DEF detectLoopClosureExternal
  <2>2. /\ cur # pre /\ cur \notin DOMAIN loopIndexContainer /\ pair = <<cur, pre>>
    BY <2>1 DEF detectLoopClosureExternal
  <2>3. n \in Nat
    OBVIOUS
  <2>4. QED  BY <2>1, <2>2, <2>3
<1>2. h1 \in Int /\ h2 \in Int /\ h1 > h2
  <2>1. Head(loopInfoVec) = loopInfoVec[1] /\ 1 \in 1..Len(loopInfoVec)
        /\ loopInfoVec[1] \in Int \X Int
    BY <1>1 DEF LoopInfoTrue
  <2>2. QED  BY <2>1 DEF LoopInfoTrue
<1>3. \A k \in Copied : k \in 1..n /\ copy_cloudKeyPoses[k].time \in Int
  <2>1. \A k \in Copied : k \in 1..n /\ copy_cloudKeyPoses[k] \in KeyPoses
    BY DEF Copied
  <2>2. \A r \in KeyPoses : r.time \in Int
    BY DEF KeyPoses
  <2>3. QED  BY <2>1, <2>2
<1>4. n \in Copied /\ 1 \in Copied /\ n \in Nat
  BY <1>1 DEF Copied
<1> HIDE DEF n, h1, h2
<1>5. cur \in later \cup {n}
  <2>0. Copied \subseteq Nat
    BY <1>3, <1>4
  <2>1. later \cup {n} \in SUBSET Nat /\ later \cup {n} # {}
    BY <1>4, <2>0, Zenon
  <2> HIDE DEF later
  <2>2. QED  BY <2>1, MinIs
<1>6. pre \in earlier \cup {1}
  <2>1. earlier \cup {1} \in SUBSET (1..n) /\ earlier \cup {1} # {}
    BY <1>3, <1>4
  <2> HIDE DEF earlier
  <2>2. QED  BY <1>4, <2>1, MaxOf
<1> HIDE DEF cur, pre
<1>7. cur \in Copied /\ pre \in Copied
  BY <1>4, <1>5, <1>6
<1>8. pre < cur
  <2>1. CASE pre = 1
    BY <1>1, <1>3, <1>7, <2>1
  <2>2. CASE cur = n
    BY <1>1, <1>3, <1>7, <2>2
  <2>3. CASE pre \in earlier /\ cur \in later
    <3>1. copy_cloudKeyPoses[pre].time < copy_cloudKeyPoses[cur].time
      BY <1>2, <1>3, <2>3
    <3>2. ~(cur < pre)
      BY <1>3, <1>7, <3>1
    <3>3. QED  BY <1>1, <1>3, <1>7, <3>2
  <2>4. QED  BY <1>5, <1>6, <2>1, <2>2, <2>3
<1>9. QED  BY <1>1, <1>7, <1>8

\* The factor of a loop is the way between its key frames, though their poses
\* are not: what they are off by is taken out of it.
LEMMA AlignIsTrue ==
  ASSUME MappingTypes, CopyKnown, NEW cur \in Copied, NEW pre \in Copied, pre < cur
  PROVE  IsTrue(Align(cur, pre)) /\ Align(cur, pre).from = cur
<1>1. /\ cur \in 1..Len(keyFrames) /\ pre \in 1..Len(keyFrames)
      /\ keyFrames[cur] \in Int /\ keyFrames[pre] \in Int
  BY DEF CopyKnown, Copied, MappingTypes
<1>2. copy_cloudKeyPoses[cur].at \in Int /\ copy_cloudKeyPoses[pre].at \in Int
  <2>1. copy_cloudKeyPoses[cur] \in KeyPoses /\ copy_cloudKeyPoses[pre] \in KeyPoses
    BY DEF CopyKnown, Copied
  <2>2. QED  BY <2>1 DEF KeyPoses
<1>3. Align(cur, pre) = [from |-> cur, to |-> pre,
                         between |-> keyFrames[pre] - keyFrames[cur]]
  <2>1. copy_cloudKeyPoses[pre].at
            - (loopFindNearKeyframes(pre) - loopFindNearKeyframes(cur)
                   + copy_cloudKeyPoses[cur].at) = keyFrames[pre] - keyFrames[cur]
    BY <1>1, <1>2 DEF loopFindNearKeyframes
  <2>2. QED  BY <2>1, Zenon DEF Align
<1>4. QED  BY <1>1, <1>3 DEF IsTrue

-----------------------------------------------------------------------------
LEMMA TimesKept ==
  ASSUME MappingTypes, MapInv, TimesAscend, [MappingNext]_mappingVars
  PROVE  TimesAscend'
<1>a. \A i \in Numbers : i \in Nat /\ cloudKeyPoses[i].time \in Int
  BY KeyPosesAre DEF Numbers
<1>b. timeLaserInfoCur \in Int
  BY DEF MappingTypes
<1>1. ASSUME NEW moved \in Steps, NEW gap \in Gaps, NEW odometry \in BOOLEAN,
             NEW enough \in BOOLEAN, laserCloudInfoHandler(moved, gap, odometry, enough)
      PROVE  TimesAscend'
  <2>1. gap \in Int /\ gap > 0
    BY MappingAssumption
  <2>2. /\ timeLaserInfoCur' = timeLaserInfoCur + gap /\ UNCHANGED cloudKeyPoses
        /\ Numbers' = Numbers
    BY <1>1 DEF laserCloudInfoHandler, keyVars, Numbers
  <2>3. \A i \in Numbers : cloudKeyPoses[i].time < timeLaserInfoCur'
    BY <1>a, <1>b, <2>1, <2>2 DEF TimesAscend
  <2>4. timeLaserInfoCur' \in Int
    BY <1>b, <2>1, <2>2
  <2>5. QED  BY <1>a, <2>2, <2>3, <2>4 DEF TimesAscend
<1>2. ASSUME NEW converges \in BOOLEAN, Match(converges)
      PROVE  TimesAscend'
  BY <1>2 DEF Match, input, keyVars, TimesAscend, Numbers
<1>3. ASSUME NEW shift \in Shifts, NEW from \in 1..MaxClouds,
             saveKeyFramesAndFactor(shift, from)
      PROVE  TimesAscend'
  <2>1. CASE step' = "correct" /\ UNCHANGED cloudKeyPoses
    BY <1>3, <2>1 DEF saveKeyFramesAndFactor, input, TimesAscend, Numbers
  <2>2. CASE step' = "frames" /\ cloudKeyPoses' = Append(cloudKeyPoses,
                   [at |-> transformTobeMapped', time |-> timeLaserInfoCur])
    <3> DEFINE n == Len(cloudKeyPoses)
               new == [at |-> transformTobeMapped', time |-> timeLaserInfoCur]
    <3>1. new.time = timeLaserInfoCur
      OBVIOUS
    <3> HIDE DEF new
    <3>2. /\ n \in Nat /\ Len(cloudKeyPoses') = n + 1 /\ cloudKeyPoses'[n + 1] = new
          /\ \A k \in 1..n : cloudKeyPoses'[k] = cloudKeyPoses[k]
      <4>1. cloudKeyPoses' = Append(cloudKeyPoses, new)
        BY <2>2 DEF new
      <4>2. QED  BY <4>1 DEF MappingTypes
    <3>3. \A i \in 1..n : cloudKeyPoses[i].time < timeLaserInfoCur
      BY <1>3 DEF saveKeyFramesAndFactor, TimesAscend, Numbers
    <3>4. UNCHANGED timeLaserInfoCur /\ Numbers' = 1..n + 1
      BY <1>3, <3>2 DEF saveKeyFramesAndFactor, input, Numbers
    <3>5. \A i \in 1..n + 1 : IF i = n + 1 THEN cloudKeyPoses'[i].time = timeLaserInfoCur
                              ELSE i \in 1..n /\ cloudKeyPoses'[i].time = cloudKeyPoses[i].time
      BY <3>1, <3>2
    <3>6. \A i, j \in 1..n : i < j => cloudKeyPoses[i].time < cloudKeyPoses[j].time
      BY DEF TimesAscend, Numbers
    <3>7. \A i, j \in 1..n + 1 : i < j => cloudKeyPoses'[i].time < cloudKeyPoses'[j].time
      <4> SUFFICES ASSUME NEW i \in 1..n + 1, NEW j \in 1..n + 1, i < j
                   PROVE  cloudKeyPoses'[i].time < cloudKeyPoses'[j].time
        OBVIOUS
      <4>1. i \in 1..n /\ cloudKeyPoses'[i].time = cloudKeyPoses[i].time
        BY <3>2, <3>5
      <4>2. CASE j = n + 1
        BY <3>3, <3>5, <4>1, <4>2
      <4>3. CASE j # n + 1
        BY <3>5, <3>6, <4>1, <4>3
      <4>4. QED  BY <4>2, <4>3
    <3>8. \A i \in 1..n + 1 : cloudKeyPoses'[i].time <= timeLaserInfoCur
      BY <1>a, <1>b, <3>3, <3>5 DEF Numbers
    <3>9. QED  BY <2>2, <3>4, <3>7, <3>8 DEF TimesAscend
  <2>3. QED  BY <1>3, <2>1, <2>2 DEF saveKeyFramesAndFactor
<1>4. ASSUME SaveFrames
      PROVE  TimesAscend'
  BY <1>4 DEF SaveFrames, input, TimesAscend, Numbers
<1>5. ASSUME PublishSolution
      PROVE  TimesAscend'
  <2>1. step' = "idle" /\ UNCHANGED timeLaserInfoCur
    BY <1>5 DEF PublishSolution, input
  <2>2. CASE aLoopIsClosed /\ correctPoses
    <3>1. /\ Numbers' = Numbers
          /\ \A k \in Numbers : cloudKeyPoses'[k].time = cloudKeyPoses[k].time
      BY <2>2, CorrectedPoses DEF MapInv, SolutionPending, Numbers
    <3>2. QED  BY <2>1, <3>1 DEF TimesAscend
  <2>3. CASE UNCHANGED keyVars
    BY <2>1, <2>3 DEF keyVars, TimesAscend, Numbers
  <2>4. QED  BY <1>5, <2>2, <2>3 DEF PublishSolution
<1>6. ASSUME NEW cur, NEW pre, loopInfoHandler(cur, pre)
      PROVE  TimesAscend'
  BY <1>6 DEF loopInfoHandler, input, keyVars, TimesAscend, Numbers
<1>7. ASSUME performLoopClosure
      PROVE  TimesAscend'
  BY <1>7 DEF performLoopClosure, input, keyVars, TimesAscend, Numbers
<1>8. ASSUME UNCHANGED mappingVars
      PROVE  TimesAscend'
  BY <1>8 DEF mappingVars, input, keyVars, TimesAscend, Numbers
<1>9. QED  BY <1>1, <1>2, <1>3, <1>4, <1>5, <1>6, <1>7, <1>8 DEF MappingNext

\* A key frame keeps its clouds and its time, whatever happens to its pose.
LEMMA FramesStay ==
  ASSUME MappingTypes, MapInv, [MappingNext]_mappingVars
  PROVE  /\ Len(keyFrames') \in Nat /\ Len(keyFrames) <= Len(keyFrames')
         /\ \A k \in 1..Len(keyFrames) : keyFrames'[k] = keyFrames[k]
         /\ \A k \in Numbers : k \in Numbers' /\ cloudKeyPoses'[k].time = cloudKeyPoses[k].time
<1>a. Len(keyFrames) \in Nat
  BY DEF MappingTypes
<1>1. CASE UNCHANGED <<keyFrames, cloudKeyPoses>>
  BY <1>a, <1>1 DEF Numbers
<1>2. ASSUME NEW shift \in Shifts, NEW from \in 1..MaxClouds,
             saveKeyFramesAndFactor(shift, from), ~UNCHANGED cloudKeyPoses
      PROVE  /\ UNCHANGED keyFrames
             /\ \A k \in Numbers : k \in Numbers' /\ cloudKeyPoses'[k].time = cloudKeyPoses[k].time
  <2> DEFINE new == [at |-> transformTobeMapped', time |-> timeLaserInfoCur]
  <2>1. UNCHANGED keyFrames /\ cloudKeyPoses' = Append(cloudKeyPoses, new)
    BY <1>2 DEF saveKeyFramesAndFactor
  <2> HIDE DEF new
  <2>2. /\ Len(cloudKeyPoses') = Len(cloudKeyPoses) + 1 /\ Len(cloudKeyPoses) \in Nat
        /\ \A k \in Numbers : cloudKeyPoses'[k] = cloudKeyPoses[k]
    BY <2>1 DEF MappingTypes, Numbers
  <2>3. QED  BY <2>1, <2>2 DEF Numbers
<1>3. CASE SaveFrames
  BY <1>3 DEF SaveFrames, MappingTypes, Numbers
<1>4. CASE PublishSolution
  <2>1. CASE aLoopIsClosed /\ correctPoses
    <3>1. /\ Numbers' = Numbers
          /\ \A k \in Numbers : cloudKeyPoses'[k].time = cloudKeyPoses[k].time
      BY <2>1, CorrectedPoses DEF MapInv, SolutionPending, Numbers
    <3>2. QED  BY <1>a, <1>4, <3>1 DEF PublishSolution
  <2>2. CASE UNCHANGED keyVars
    BY <1>1, <2>2 DEF keyVars
  <2>3. QED  BY <1>4, <2>1, <2>2 DEF PublishSolution
<1>5. \/ UNCHANGED <<keyFrames, cloudKeyPoses>> \/ SaveFrames \/ PublishSolution
      \/ \E shift \in Shifts, from \in 1..MaxClouds : saveKeyFramesAndFactor(shift, from)
  BY DEF MappingNext, mappingVars, laserCloudInfoHandler, Match,
     loopInfoHandler, performLoopClosure, keyVars
<1>6. CASE \E shift \in Shifts, from \in 1..MaxClouds : saveKeyFramesAndFactor(shift, from)
  <2>1. UNCHANGED keyFrames
    BY <1>6 DEF saveKeyFramesAndFactor
  <2>2. QED  BY <1>a, <1>1, <1>2, <1>6, <2>1
<1>7. QED  BY <1>1, <1>3, <1>4, <1>5, <1>6

\* The loop thread copies all of the key frames, when it holds the lock.
LEMMA CopyKept ==
  ASSUME MappingTypes, MapInv, CopyKnown, [MappingNext]_mappingVars
  PROVE  CopyKnown'
<1>1. CASE UNCHANGED copy_cloudKeyPoses
  <2>1. /\ Len(copy_cloudKeyPoses) \in Nat /\ Len(cloudKeyPoses) \in Nat
        /\ Len(keyFrames) \in Nat /\ Len(keyFrames) <= Len(cloudKeyPoses)
    BY DEF CopyKnown, MapInv, FramesComplete, MappingTypes
  <2>2. \A k \in Copied : k \in Numbers
    BY <2>1 DEF CopyKnown, Copied, Numbers
  <2>3. QED  BY <1>1, <2>1, <2>2, FramesStay DEF CopyKnown, Copied
<1>2. CASE CopyPoses /\ UNCHANGED keyVars
  <2>1. copy_cloudKeyPoses' = cloudKeyPoses /\ Len(keyFrames) = Len(cloudKeyPoses)
    BY <1>2 DEF CopyPoses, Locked, MapInv, FramesComplete
  <2>2. QED
    BY <1>2, <2>1, KeyPosesAre DEF CopyKnown, Copied, MappingTypes, keyVars
<1>3. QED
  BY <1>1, <1>2 DEF MappingNext, mappingVars, laserCloudInfoHandler, Match, SaveFrames, PublishSolution,
     saveKeyFramesAndFactor, loopInfoHandler, performLoopClosure, looping

LEMMA LoopInfoKept ==
  ASSUME MappingTypes, TimesAscend, LoopInfoTrue, [MappingNext]_mappingVars
  PROVE  LoopInfoTrue'
<1>1. CASE UNCHANGED loopInfoVec
  BY <1>1 DEF LoopInfoTrue
<1>2. ASSUME NEW k \in Numbers, NEW l \in Numbers, k > l,
             loopInfoHandler(cloudKeyPoses[k].time, cloudKeyPoses[l].time)
      PROVE  LoopInfoTrue'
  <2> DEFINE new == <<cloudKeyPoses[k].time, cloudKeyPoses[l].time>>
             all == Append(loopInfoVec, new)
  <2>1. new \in Int \X Int /\ new[1] > new[2]
    BY <1>2, KeyPosesAre DEF TimesAscend, Numbers
  <2>2. loopInfoVec' = IF Len(all) > 5 THEN Tail(all) ELSE all
    BY <1>2 DEF loopInfoHandler
  <2> HIDE DEF new
  <2>3. /\ all \in Seq(Int \X Int) /\ all # <<>>
        /\ \A i \in 1..Len(all) : all[i][1] > all[i][2]
    <3>0. loopInfoVec \in Seq(Int \X Int) /\ new \in Int \X Int
      BY <2>1 DEF LoopInfoTrue
    <3>1. /\ all \in Seq(Int \X Int) /\ Len(all) = Len(loopInfoVec) + 1 /\ all # <<>>
          /\ Len(loopInfoVec) \in Nat
          /\ all[Len(loopInfoVec) + 1] = new
          /\ \A i \in 1..Len(loopInfoVec) : all[i] = loopInfoVec[i]
      <4> DEFINE Pair == Int \X Int
      <4>1. loopInfoVec \in Seq(Pair) /\ new \in Pair
        BY <3>0
      <4> HIDE DEF Pair
      <4>2. /\ all \in Seq(Pair) /\ Len(all) = Len(loopInfoVec) + 1 /\ all # <<>>
            /\ Len(loopInfoVec) \in Nat
            /\ all[Len(loopInfoVec) + 1] = new
            /\ \A i \in 1..Len(loopInfoVec) : all[i] = loopInfoVec[i]
        BY <4>1
      <4>3. QED  BY <4>2 DEF Pair
    <3> HIDE DEF all
    <3>2. \A i \in 1..Len(all) : i = Len(loopInfoVec) + 1 \/ i \in 1..Len(loopInfoVec)
      BY <3>1
    <3>3. \A i \in 1..Len(all) : all[i][1] > all[i][2]
      BY <2>1, <3>1, <3>2 DEF LoopInfoTrue
    <3>4. QED  BY <3>1, <3>3
  <2> HIDE DEF all
  <2>4. /\ Tail(all) \in Seq(Int \X Int) /\ Len(Tail(all)) = Len(all) - 1
        /\ \A i \in 1..Len(Tail(all)) : Tail(all)[i] = all[i + 1]
    BY <2>3
  <2>5. QED  BY <2>2, <2>3, <2>4 DEF LoopInfoTrue
<1>3. CASE loopInfoVec # <<>> /\ loopInfoVec' = Tail(loopInfoVec)
  <2>1. /\ Tail(loopInfoVec) \in Seq(Int \X Int)
        /\ Len(Tail(loopInfoVec)) = Len(loopInfoVec) - 1 /\ Len(loopInfoVec) \in Nat
        /\ \A i \in 1..Len(Tail(loopInfoVec)) : Tail(loopInfoVec)[i] = loopInfoVec[i + 1]
    BY <1>3 DEF LoopInfoTrue
  <2>2. QED  BY <1>3, <2>1 DEF LoopInfoTrue
<1>4. CASE performLoopClosure
  BY <1>1, <1>3, <1>4 DEF performLoopClosure, DetectLoop
<1>5. QED
  BY <1>1, <1>2, <1>4 DEF MappingNext, mappingVars, laserCloudInfoHandler, Match, SaveFrames,
     PublishSolution, saveKeyFramesAndFactor, external

\* What was true of a loop's key frames stays so.
LEMMA TrueLoopsStay ==
  ASSUME MappingTypes, MapInv, [MappingNext]_mappingVars, NEW loop, IsTrue(loop)
  PROVE  IsTrue(loop)'
<1>1. /\ Len(keyFrames) \in Nat /\ Len(keyFrames') \in Nat
      /\ Len(keyFrames) <= Len(keyFrames')
      /\ \A k \in 1..Len(keyFrames) : keyFrames'[k] = keyFrames[k]
  BY FramesStay DEF MappingTypes
<1>2. QED  BY <1>1 DEF IsTrue

LEMMA LoopsKept ==
  ASSUME MappingTypes, MapInv, LoopInv, [MappingNext]_mappingVars
  PROVE  LoopsTrue'
<1> USE DEF LoopInv
<1>1. CASE UNCHANGED looping /\ loopIndexQueue' \in {loopIndexQueue, {}}
  BY <1>1, TrueLoopsStay DEF LoopsTrue, looping
<1>2. CASE CopyPoses /\ UNCHANGED <<found, loopIndexContainer, loopIndexQueue>>
  BY <1>2, TrueLoopsStay DEF LoopsTrue, CopyPoses
<1>3. ASSUME NEW pair \in Copied \X Copied, NEW converges \in BOOLEAN,
             DetectLoop(pair, converges),
             UNCHANGED <<copy_cloudKeyPoses, loopIndexContainer, loopIndexQueue>>
      PROVE  LoopsTrue'
  <2>1. CASE loopStep' = "sleep"
    BY <1>3, <2>1, TrueLoopsStay DEF LoopsTrue
  <2>2. CASE /\ loopStep' = "push" /\ found' = Align(pair[1], pair[2])
             /\ pair \in IF detectLoopClosureExternal # {} THEN detectLoopClosureExternal
                         ELSE detectLoopClosureDistance
    <3>1. copy_cloudKeyPoses \in Seq(KeyPoses) /\ copy_cloudKeyPoses # <<>>
      BY DEF CopyKnown, Copied
    <3>2. \A i, j \in Copied : i < j => copy_cloudKeyPoses[i].time < copy_cloudKeyPoses[j].time
      <4>1. /\ Len(copy_cloudKeyPoses) \in Nat /\ Len(cloudKeyPoses) \in Nat
            /\ Len(keyFrames) \in Nat /\ Len(keyFrames) <= Len(cloudKeyPoses)
        BY DEF CopyKnown, MapInv, FramesComplete, MappingTypes
      <4>2. Copied \subseteq Numbers
        BY <4>1 DEF CopyKnown, Copied, Numbers
      <4>3. QED  BY <4>2 DEF CopyKnown, TimesAscend
    <3>3. /\ pair[1] \in Copied /\ pair[2] \in Copied /\ pair[2] < pair[1]
          /\ pair[1] \notin DOMAIN loopIndexContainer
      <4>1. CASE pair \in detectLoopClosureExternal
        BY <3>1, <3>2, <4>1, ExternalLoop
      <4>2. CASE pair \in detectLoopClosureDistance
        BY <3>1, <4>2, DistanceLoop
      <4>3. QED  BY <2>2, <4>1, <4>2
    <3>4. PICK loop : loop = Align(pair[1], pair[2])
      OBVIOUS
    <3>5. IsTrue(loop) /\ loop.from = pair[1] /\ found' = loop
      BY <2>2, <3>3, <3>4, AlignIsTrue
    <3>6. IsTrue(found)'
      <4>1. IsTrue(loop)'
        BY <3>5, TrueLoopsStay
      <4>2. QED  BY <3>5, <4>1 DEF IsTrue
    <3>7. \A x \in loopIndexQueue : IsTrue(x)'
      BY TrueLoopsStay DEF LoopsTrue
    <3>8. QED  BY <1>3, <2>2, <3>3, <3>5, <3>6, <3>7 DEF LoopsTrue
  <2>3. QED  BY <1>3, <2>1, <2>2 DEF DetectLoop
<1>4. CASE PushLoop
  <2> DEFINE container == [k \in DOMAIN loopIndexContainer \cup {found.from} |->
                              IF k = found.from THEN found.to ELSE loopIndexContainer[k]]
  <2>1. /\ loopStep = "push" /\ loopStep' = "sleep" /\ loopIndexContainer' = container
        /\ loopIndexQueue' = loopIndexQueue \cup {found}
    BY <1>4 DEF PushLoop
  <2>2. DOMAIN loopIndexContainer' = DOMAIN loopIndexContainer \cup {found.from}
    BY <2>1
  <2> HIDE DEF container
  <2>3. IsTrue(found) /\ found.from \notin DOMAIN loopIndexContainer
    BY <2>1 DEF LoopsTrue
  <2>4. \A loop \in loopIndexQueue' : IsTrue(loop)' /\ loop.from \in DOMAIN loopIndexContainer'
    <3>1. ASSUME NEW loop \in loopIndexQueue'
          PROVE  IsTrue(loop) /\ loop.from \in DOMAIN loopIndexContainer'
      BY <2>1, <2>2, <2>3 DEF LoopsTrue
    <3>2. QED  BY <3>1, TrueLoopsStay
  <2>5. \A x, y \in loopIndexQueue' : x.from = y.from => x = y
    BY <2>1, <2>3 DEF LoopsTrue
  <2>6. QED  BY <2>1, <2>4, <2>5 DEF LoopsTrue
<1>5. CASE performLoopClosure
  BY <1>2, <1>3, <1>4, <1>5 DEF performLoopClosure
<1>6. CASE \E shift \in Shifts, from \in 1..MaxClouds : saveKeyFramesAndFactor(shift, from)
  BY <1>1, <1>6 DEF saveKeyFramesAndFactor, addLoopFactor
<1>7. QED
  BY <1>1, <1>5, <1>6 DEF MappingNext, mappingVars, laserCloudInfoHandler, Match, SaveFrames,
     PublishSolution, loopInfoHandler

-----------------------------------------------------------------------------
LEMMA NothingKept ==
  ASSUME MappingTypes, MapInv, LoopsTrue, NothingYet, [MappingNext]_mappingVars
  PROVE  NothingYet'
<1> SUFFICES ASSUME keyFrames' = <<>>
             PROVE  NothingYet'
  BY DEF NothingYet
<1>1. keyFrames = <<>>
  <2>1. Len(keyFrames) \in Nat /\ Len(keyFrames) <= Len(keyFrames') /\ Len(keyFrames') = 0
    BY FramesStay DEF MappingTypes
  <2>2. QED  BY <2>1 DEF MappingTypes
<1>2. /\ step # "correct" /\ transformTobeMapped = 0 /\ ~lastGuessed /\ loopIndexQueue = {}
      /\ incremental.odometry = NoPose /\ incremental.back = NoPose
      /\ step # "frames" => cloudKeyPoses = <<>>
  <2>1. step # "frames" => Len(cloudKeyPoses) = 0
    BY <1>1 DEF MapInv, FramesComplete
  <2>2. QED  BY <1>1, <2>1 DEF NothingYet, MappingTypes
<1>3. ASSUME NEW moved \in Steps, NEW gap \in Gaps, NEW odometry \in BOOLEAN,
             NEW enough \in BOOLEAN, laserCloudInfoHandler(moved, gap, odometry, enough)
      PROVE  NothingYet'
  BY <1>2, <1>3 DEF laserCloudInfoHandler, matching, NothingYet
<1>4. ASSUME NEW converges \in BOOLEAN, Match(converges)
      PROVE  NothingYet'
  <2>1. CASE UNCHANGED <<timeLastProcessing, matching, incremental>> /\ step' = "idle"
    BY <1>2, <1>4, <2>1 DEF Match, matching, NothingYet
  <2>2. CASE /\ step' = "save" /\ UNCHANGED matching
             /\ incremental' = [incremental EXCEPT !.front = transformTobeMapped]
    BY <1>2, <1>4, <2>2 DEF Match, matching, NothingYet, MappingTypes
  <2>3. QED  BY <1>2, <1>4, <2>1, <2>2 DEF Match
<1>5. ASSUME NEW shift \in Shifts, NEW from \in 1..MaxClouds,
             saveKeyFramesAndFactor(shift, from)
      PROVE  NothingYet'
  <2>1. saveFrame
    BY <1>2, <1>5 DEF saveKeyFramesAndFactor, saveFrame
  <2>2. /\ step' = "frames" /\ addLoopFactor(shift, from) /\ from \in DOMAIN addOdomFactor
        /\ transformTobeMapped' = isamCurrentEstimate'[Len(addOdomFactor)]
        /\ UNCHANGED <<lastGuessed, incremental>>
    BY <1>5, <2>1 DEF saveKeyFramesAndFactor
  <2>3. transformTobeMapped' = 0 /\ loopIndexQueue' = {}
    BY <1>2, <2>2, EstimatesAre DEF addLoopFactor
  <2>4. QED  BY <1>2, <2>2, <2>3 DEF NothingYet
<1>6. ~SaveFrames
  <2>1. ASSUME SaveFrames
        PROVE  FALSE
    <3>1. PICK a \in Int : keyFrames' = Append(keyFrames, a)
      BY <2>1 DEF SaveFrames, MappingTypes
    <3>2. /\ Len(Append(keyFrames, a)) = Len(keyFrames) + 1 /\ Len(keyFrames) \in Nat
          /\ Len(<<>>) = 0
      BY DEF MappingTypes
    <3>3. Append(keyFrames, a) # <<>>
      BY <3>2
    <3>4. QED  BY <3>1, <3>3
  <2>2. QED  BY <2>1
<1>7. ~PublishSolution
  BY <1>2 DEF PublishSolution
<1>8. ASSUME NEW cur, NEW pre, loopInfoHandler(cur, pre)
      PROVE  NothingYet'
  BY <1>2, <1>8 DEF loopInfoHandler, matching, NothingYet
<1>9. ASSUME performLoopClosure
      PROVE  NothingYet'
  <2>1. Len(keyFrames) = 0 /\ loopStep # "push"
    BY <1>1 DEF LoopsTrue, IsTrue
  <2>2. loopIndexQueue' = loopIndexQueue
    BY <1>9, <2>1 DEF performLoopClosure, PushLoop
  <2>3. QED  BY <1>2, <1>9, <2>2 DEF performLoopClosure, matching, NothingYet
<1>10. ASSUME UNCHANGED mappingVars
       PROVE  NothingYet'
  BY <1>2, <1>10 DEF mappingVars, matching, NothingYet
<1>11. QED
  BY <1>3, <1>4, <1>5, <1>6, <1>7, <1>8, <1>9, <1>10 DEF MappingNext

LEMMA ClocksKept ==
  ASSUME MappingTypes, ClocksRight, [MappingNext]_mappingVars
  PROVE  ClocksRight'
<1>1. ASSUME NEW moved \in Steps, NEW gap \in Gaps, NEW odometry \in BOOLEAN,
             NEW enough \in BOOLEAN, laserCloudInfoHandler(moved, gap, odometry, enough)
      PROVE  ClocksRight'
  <2>1. gap \in Int /\ gap > 0
    BY MappingAssumption
  <2>2. timeLaserInfoCur' = timeLaserInfoCur + gap /\ UNCHANGED timeLastProcessing
    BY <1>1 DEF laserCloudInfoHandler
  <2>3. timeLastProcessing < timeLaserInfoCur'
    BY <2>1, <2>2 DEF ClocksRight, MappingTypes
  <2>4. QED  BY <2>1, <2>2, <2>3 DEF ClocksRight, MappingTypes
<1>2. ASSUME NEW converges \in BOOLEAN, Match(converges)
      PROVE  ClocksRight'
  BY <1>2 DEF Match, input, ClocksRight, MappingTypes
<1>3. QED
  BY <1>1, <1>2 DEF MappingNext, mappingVars, SaveFrames, PublishSolution, saveKeyFramesAndFactor,
     loopInfoHandler, performLoopClosure, input, ClocksRight

-----------------------------------------------------------------------------
\* A cloud that is matched, or that has a guess to go on from, ends at its
\* true place as the newest key frame sees it; so does the way to it.
LEMMA MatchKeepsWay ==
  ASSUME MappingTypes, MapInv, WayInv, step = "match", cloudKeyPoses # <<>>, ~astray',
         NEW converges \in BOOLEAN, scan2MapOptimization(converges)
  PROVE  /\ transformTobeMapped' = Offset + cloudInfo.at
         /\ incremental'.odometry \in Int /\ incremental'.back \in Int
         /\ incremental'.odometry + incremental'.back - incremental'.front
                = cloudInfo.at - keyFrames[1]
<1>1. /\ ~astray /\ cloudInfo.enough
      /\ converges \/ (lastGuessed /\ cloudInfo.odom_available)
  BY DEF scan2MapOptimization
<1>2. Len(keyFrames) = Len(cloudKeyPoses) /\ keyFrames # <<>> /\ CacheTrue
  <2>1. Len(keyFrames) = Len(cloudKeyPoses) /\ CacheTrue
    BY DEF MapInv, FramesComplete
  <2>2. QED  BY <2>1 DEF MappingTypes
<1>3. Offset \in Int /\ keyFrames[1] \in Int /\ cloudInfo.at \in Int /\ transformTobeMapped \in Int
  BY <1>2, OffsetIsInt DEF MappingTypes
<1>4. /\ incremental.odometry \in Int
      /\ incremental.odometry = transformTobeMapped - Offset - keyFrames[1]
      /\ lastGuessed => lastImuPreTransformation = transformTobeMapped - Offset
  BY <1>1, <1>2 DEF WayInv, Settled
<1>5. transformTobeMapped' = Offset + cloudInfo.at
  <2>1. transformTobeMapped' = LMOptimization(converges)
    BY <1>1 DEF scan2MapOptimization
  <2>2. CASE converges
    BY <1>2, <2>1, <2>2, NewestFits DEF LMOptimization
  <2>3. CASE ~converges
    <3>1. lastGuessed /\ cloudInfo.odom_available
      BY <1>1, <2>3
    <3>2. lastImuPreTransformation = transformTobeMapped - Offset
      BY <1>4, <3>1
    <3>3. lastImuPreTransformation # NoPose
      BY <1>3, <3>2, MappingAssumption
    <3>4. transformTobeMapped'
              = transformTobeMapped + cloudInfo.at - lastImuPreTransformation
      BY <2>1, <2>3, <3>1, <3>3 DEF LMOptimization, updateInitialGuess
    <3>5. QED  BY <1>3, <3>2, <3>4
  <2>4. QED  BY <2>2, <2>3
<1>6. /\ incremental'.odometry = incremental.odometry
      /\ incremental'.back = transformTobeMapped'
      /\ incremental'.front = transformTobeMapped
  <2>1. incremental' = [incremental EXCEPT !.front = transformTobeMapped,
                          !.back = IF cloudInfo.enough THEN transformTobeMapped' ELSE @]
    BY Zenon DEF scan2MapOptimization
  <2>2. incremental \in [front : Int, back : Poses, odometry : Poses]
    BY DEF MappingTypes
  <2>3. incremental'.front = transformTobeMapped /\ incremental'.odometry = incremental.odometry
    BY <2>1, <2>2
  <2>4. incremental'.back = transformTobeMapped'
    BY <1>1, <2>1, <2>2, SMTT(20)
  <2>5. QED  BY <2>3, <2>4
<1>7. incremental'.odometry \in Int /\ incremental'.back \in Int
  <2>1. Offset + cloudInfo.at \in Int
    BY <1>3
  <2>2. QED  BY <1>4, <1>5, <1>6, <2>1, Zenon
<1>8. incremental'.odometry + incremental'.back - incremental'.front = cloudInfo.at - keyFrames[1]
  <2>1. (transformTobeMapped - Offset - keyFrames[1]) + (Offset + cloudInfo.at)
            - transformTobeMapped = cloudInfo.at - keyFrames[1]
    BY <1>3
  <2>2. QED  BY <1>4, <1>5, <1>6, <2>1, Zenon
<1>9. QED  BY <1>5, <1>7, <1>8

LEMMA WayKept ==
  ASSUME MappingTypes, MappingTypes', MapInv, NothingYet, ClocksRight, WayInv,
         [MappingNext]_mappingVars
  PROVE  WayInv'
<1> SUFFICES ASSUME ~astray'
             PROVE  WayInv'
  BY DEF WayInv
<1>a. Len(keyFrames) \in Nat /\ Len(cloudKeyPoses) \in Nat /\ FramesComplete
      /\ (keyFrames = <<>> <=> Len(keyFrames) = 0)
      /\ (cloudKeyPoses = <<>> <=> Len(cloudKeyPoses) = 0)
  BY DEF MappingTypes, MapInv
<1>1. ASSUME NEW moved \in Steps, NEW gap \in Gaps, NEW odometry \in BOOLEAN,
             NEW enough \in BOOLEAN, laserCloudInfoHandler(moved, gap, odometry, enough)
      PROVE  WayInv'
  BY <1>1 DEF laserCloudInfoHandler, keyVars, matching, WayInv, Settled, Offset, Newest
<1>2. ASSUME NEW converges \in BOOLEAN, Match(converges)
      PROVE  WayInv'
  <2>1. CASE /\ timeLaserInfoCur - timeLastProcessing < mappingProcessInterval
             /\ step' = "idle" /\ UNCHANGED <<timeLastProcessing, matching, incremental>>
    BY <1>2, <2>1 DEF Match, input, keyVars, matching, ClocksRight, MappingTypes,
                      WayInv, Settled, Offset, Newest
  <2>2. CASE /\ cloudKeyPoses = <<>> /\ step' = "save" /\ UNCHANGED matching
    <3>1. keyFrames = <<>>
      BY <1>2, <1>a, <2>2 DEF Match, FramesComplete
    <3>2. keyFrames' = <<>> /\ ~lastGuessed'
      BY <1>2, <2>2, <3>1 DEF Match, keyVars, matching, NothingYet
    <3>3. QED  BY <2>2, <3>2 DEF WayInv
  <2>3. CASE /\ cloudKeyPoses # <<>> /\ step' = "save"
             /\ lastImuPreTransformation' =
                    IF cloudInfo.odom_available THEN cloudInfo.at ELSE lastImuPreTransformation
             /\ scan2MapOptimization(converges)
             /\ lastGuessed' = cloudInfo.odom_available
    <3>1. UNCHANGED <<cloudInfo, keyFrames, cloudKeyPoses>> /\ step = "match"
      BY <1>2 DEF Match, input, keyVars
    <3>2. /\ transformTobeMapped' = Offset + cloudInfo.at
          /\ WayTrue'
      BY <2>3, <3>1, MatchKeepsWay DEF WayTrue
    <3>3. lastGuessed' => lastImuPreTransformation' = cloudInfo'.at
      BY <2>3, <3>1
    <3>4. Offset' = Offset
      BY <3>1 DEF Offset, Newest
    <3>5. QED  BY <2>3, <3>1, <3>2, <3>3, <3>4 DEF WayInv
  <2>4. QED  BY <1>2, <2>1, <2>2, <2>3 DEF Match
<1>3. ASSUME NEW shift \in Shifts, NEW from \in 1..MaxClouds,
             saveKeyFramesAndFactor(shift, from)
      PROVE  WayInv'
  <2>1. /\ step = "save" /\ ~astray /\ Len(keyFrames) = Len(cloudKeyPoses)
        /\ UNCHANGED <<cloudInfo, keyFrames, lastImuPreTransformation, lastGuessed, incremental>>
    BY <1>3, <1>a DEF saveKeyFramesAndFactor, input, FramesComplete
  <2>2. keyFrames # <<>> => transformTobeMapped = Offset + cloudInfo.at /\ WayTrue
    BY <2>1 DEF WayInv
  <2>3. lastGuessed => lastImuPreTransformation = cloudInfo.at
    BY <2>1 DEF WayInv
  <2>4. CASE ~saveFrame /\ step' = "correct" /\ UNCHANGED <<cloudKeyPoses, transformTobeMapped>>
    <3>1. cloudKeyPoses # <<>> /\ keyFrames # <<>>
      BY <1>a, <2>1, <2>4 DEF saveFrame
    <3>2. Offset' = Offset /\ (WayTrue <=> WayTrue')
      BY <2>1, <2>4 DEF Offset, Newest, WayTrue
    <3>3. QED  BY <2>1, <2>2, <2>3, <2>4, <3>1, <3>2 DEF WayInv
  <2>5. CASE /\ step' = "frames"
             /\ cloudKeyPoses' = Append(cloudKeyPoses, [at |-> transformTobeMapped',
                                                        time |-> timeLaserInfoCur])
    <3> DEFINE new == [at |-> transformTobeMapped', time |-> timeLaserInfoCur]
    <3>1. new.at = transformTobeMapped' /\ cloudKeyPoses' = Append(cloudKeyPoses, new)
      BY <2>5
    <3> HIDE DEF new
    <3>2. Newest'.at = transformTobeMapped'
      BY <3>1 DEF MappingTypes, Newest
    <3>3. WayTrue <=> WayTrue'
      BY <2>1 DEF WayTrue
    <3>4. QED  BY <2>1, <2>2, <2>3, <2>5, <3>2, <3>3 DEF WayInv
  <2>6. QED  BY <1>3, <2>4, <2>5 DEF saveKeyFramesAndFactor
<1>4. ASSUME SaveFrames
      PROVE  WayInv'
  <2>1. /\ step = "frames" /\ step' = "correct" /\ ~astray
        /\ Len(keyFrames) = Len(cloudKeyPoses) - 1
        /\ UNCHANGED <<cloudInfo, cloudKeyPoses, transformTobeMapped,
                       lastImuPreTransformation, lastGuessed, incremental>>
    BY <1>4, <1>a DEF SaveFrames, input, matching, FramesComplete
  <2>2. /\ Len(keyFrames') = Len(keyFrames) + 1
        /\ keyFrames'[Len(keyFrames) + 1] = cloudInfo.at
        /\ keyFrames # <<>> => keyFrames'[1] = keyFrames[1]
    BY <1>4, <1>a DEF SaveFrames, MappingTypes
  <2>3. Newest.at = transformTobeMapped /\ Newest.at \in Int /\ cloudInfo.at \in Int
    BY <2>1, <1>a, KeyPosesAre DEF WayInv, MappingTypes, Newest
  <2>4. Offset' = transformTobeMapped - cloudInfo.at
    BY <1>a, <2>1, <2>2, <2>3 DEF Offset, Newest
  <2>5. transformTobeMapped' = Offset' + cloudInfo'.at
    BY <2>1, <2>3, <2>4
  <2>6. WayTrue' \/ Beginning'
    <3>1. CASE keyFrames = <<>>
      BY <1>a, <2>1, <2>2, <3>1 DEF NothingYet, Beginning
    <3>2. CASE keyFrames # <<>>
      BY <2>1, <2>2, <3>2 DEF WayInv, WayTrue
    <3>3. QED  BY <3>1, <3>2
  <2>7. lastGuessed' => lastImuPreTransformation' = cloudInfo'.at
    BY <2>1 DEF WayInv
  <2>8. QED  BY <2>1, <2>5, <2>6, <2>7 DEF WayInv
<1>5. ASSUME PublishSolution
      PROVE  WayInv'
  <2>1. /\ step = "correct" /\ step' = "idle" /\ ~astray
        /\ UNCHANGED <<cloudInfo, keyFrames, transformTobeMapped, lastImuPreTransformation,
                       lastGuessed>>
        /\ Len(keyFrames) = Len(cloudKeyPoses) /\ keyFrames # <<>> /\ cloudKeyPoses # <<>>
    BY <1>5, <1>a DEF PublishSolution, input, FramesComplete, NothingYet
  <2>2. Newest'.at = Newest.at
    <3>1. CASE aLoopIsClosed /\ correctPoses
      <4>1. /\ Len(cloudKeyPoses') = Len(cloudKeyPoses) /\ Len(cloudKeyPoses) \in Numbers
            /\ \A k \in Numbers : cloudKeyPoses'[k].at = isamCurrentEstimate[k]
        BY <1>a, <2>1, <3>1, CorrectedPoses DEF MapInv, SolutionPending, Numbers
      <4>2. isamCurrentEstimate[Len(cloudKeyPoses)] = Newest.at
        BY <3>1 DEF MapInv, SolutionPending
      <4>3. QED  BY <4>1, <4>2 DEF Newest
    <3>2. CASE UNCHANGED keyVars
      BY <3>2 DEF keyVars, Newest
    <3>3. QED  BY <1>5, <3>1, <3>2 DEF PublishSolution
  <2>3. Offset' = Offset
    BY <2>1, <2>2 DEF Offset
  <2>4. /\ Offset \in Int /\ keyFrames[1] \in Int /\ cloudInfo.at \in Int
        /\ transformTobeMapped \in Int /\ incremental.front \in Int
    BY <2>1, OffsetIsInt DEF MappingTypes
  <2>5. transformTobeMapped = Offset + cloudInfo.at
    BY <2>1 DEF WayInv
  <2>6. /\ incremental'.odometry \in Int
        /\ incremental'.odometry = transformTobeMapped - Offset - keyFrames[1]
    <3>1. CASE WayTrue
      <4>1. incremental.odometry # NoPose /\ incremental.back # NoPose
        BY <3>1, MappingAssumption DEF WayTrue
      <4>2. incremental'.odometry = incremental.odometry + incremental.back - incremental.front
        BY <1>5, <4>1 DEF PublishSolution, publishOdometry, MappingTypes
      <4>3. QED  BY <2>4, <2>5, <3>1, <4>2 DEF WayTrue
    <3>2. CASE Beginning
      <4>1. incremental'.odometry = 0
        BY <1>5, <3>2 DEF PublishSolution, publishOdometry, Beginning, MappingTypes
      <4>2. keyFrames[1] = cloudInfo.at
        BY <3>2 DEF Beginning
      <4>3. QED  BY <2>4, <2>5, <4>1, <4>2
    <3>3. QED  BY <2>1, <3>1, <3>2 DEF WayInv
  <2>7. lastGuessed => lastImuPreTransformation = transformTobeMapped - Offset
    BY <2>1, <2>4, <2>5 DEF WayInv
  <2>8. Settled' /\ transformTobeMapped' = Offset' + cloudInfo'.at
    BY <2>1, <2>3, <2>5, <2>6, <2>7 DEF Settled
  <2>9. QED  BY <2>1, <2>8 DEF WayInv
<1>6. ASSUME \/ \E cur, pre : loopInfoHandler(cur, pre)
             \/ performLoopClosure \/ UNCHANGED mappingVars
      PROVE  WayInv'
  <2>1. UNCHANGED <<input, step, timeLastProcessing, keyVars, matching, incremental>>
    BY <1>6 DEF loopInfoHandler, performLoopClosure, mappingVars
  <2>2. QED
    BY <2>1 DEF input, keyVars, matching, WayInv, Settled, WayTrue, Beginning, Offset, Newest
<1>7. QED
  BY <1>1, <1>2, <1>3, <1>4, <1>5, <1>6 DEF MappingNext

-----------------------------------------------------------------------------
LEMMA MappingInductive ==
  /\ MappingInit => MappingInv
  /\ MappingInv /\ [MappingNext]_mappingVars => MappingInv'
<1>1. MappingInit => MappingInv
  <2> SUFFICES ASSUME MappingInit
               PROVE  MappingInv
    OBVIOUS
  <2>1. Len(<<>>) = 0 /\ <<>> \in Seq(KeyPoses) /\ <<>> \in Seq(Int) /\ <<>> \in Seq(Int \X Int)
    OBVIOUS
  <2>2. MappingTypes
    <3>1. incremental \in [front : Int, back : Poses, odometry : Poses]
      BY DEF MappingInit, Poses
    <3>2. cloudInfo \in [at : Int, odom_available : BOOLEAN, enough : BOOLEAN]
      BY DEF MappingInit
    <3>3. cloudKeyPoses \in Seq(KeyPoses) /\ keyFrames \in Seq(Int)
      BY <2>1, Zenon DEF MappingInit
    <3>4. timeLastProcessing \in Int
      BY MappingAssumption DEF MappingInit
    <3>5. QED  BY <3>1, <3>2, <3>3, <3>4 DEF MappingInit, MappingTypes, Poses
  <2>3. /\ cloudKeyPoses = <<>> /\ keyFrames = <<>> /\ copy_cloudKeyPoses = <<>>
        /\ loopInfoVec = <<>> /\ laserCloudMapContainer = <<>> /\ globalPath = <<>>
        /\ loopIndexQueue = {} /\ ~aLoopIsClosed /\ step = "idle" /\ loopStep = "sleep"
    BY DEF MappingInit
  <2>4. MapInv
    BY <2>1, <2>3 DEF MapInv, FramesComplete, CacheTrue, PathTrue, SolutionPending
  <2>5. LoopInv
    BY <2>1, <2>3 DEF LoopInv, TimesAscend, CopyKnown, LoopInfoTrue, LoopsTrue, Numbers, Copied
  <2>6. IncrementalInv
    BY <2>3, MappingAssumption DEF MappingInit, IncrementalInv, NothingYet, ClocksRight, WayInv
  <2>7. QED  BY <2>2, <2>4, <2>5, <2>6 DEF MappingInv
<1>2. ASSUME MappingInv, [MappingNext]_mappingVars
      PROVE  MappingInv'
  <2>1. MappingTypes'
    BY <1>2, TypesKept DEF MappingInv, MapInv
  <2>2. MapInv'
    BY <1>2, <2>1, MapKept DEF MappingInv
  <2>3. LoopInv'
    BY <1>2, TimesKept, CopyKept, LoopInfoKept, LoopsKept DEF MappingInv, LoopInv
  <2>4. IncrementalInv'
    BY <1>2, <2>1, NothingKept, ClocksKept, WayKept DEF MappingInv, LoopInv, IncrementalInv
  <2>5. QED  BY <2>1, <2>2, <2>3, <2>4 DEF MappingInv
<1>3. QED  BY <1>1, <1>2

THEOREM MappingCorrect == MappingSpec => []MappingInv
BY MappingInductive, PTL DEF MappingSpec

\* Whenever a cloud is taken up, what was cached of the map, the path and the
\* key frames are of one solution (correctPoses, extractCloud).
THEOREM MapIsOfOneSolution == MappingSpec => []MapOfOneSolution
<1>1. MappingInv => MapOfOneSolution
  <2> SUFFICES ASSUME MappingInv, step = "idle"
               PROVE  /\ \A k \in DOMAIN laserCloudMapContainer :
                             laserCloudMapContainer[k] = cloudKeyPoses[k].at
                      /\ globalPath = updatePath(cloudKeyPoses)
                      /\ Len(keyFrames) = Len(cloudKeyPoses)
    BY DEF MapOfOneSolution
  <2>1. Len(keyFrames) = Len(cloudKeyPoses) /\ DOMAIN cloudKeyPoses = 1..Len(cloudKeyPoses)
    BY DEF MappingInv, MappingTypes, MapInv, FramesComplete
  <2>2. globalPath = updatePath(cloudKeyPoses)
    BY <2>1 DEF MappingInv, MapInv, PathTrue, updatePath
  <2>3. QED  BY <2>1, <2>2 DEF MappingInv, MapInv, CacheTrue
<1>2. QED  BY <1>1, MappingCorrect, PTL

\* A loop's factor is the way there really is between its two key frames, and
\* no key frame has two loops (performLoopClosure).
THEOREM LoopFactorsAreTrue == MappingSpec => []LoopFactorsTrue
<1>1. MappingInv => LoopFactorsTrue
  <2> SUFFICES ASSUME MappingInv
               PROVE  LoopFactorsTrue
    OBVIOUS
  <2>1. /\ Len(keyFrames) \in Nat /\ Len(cloudKeyPoses) \in Nat
        /\ Len(keyFrames) <= Len(cloudKeyPoses)
    BY DEF MappingInv, MappingTypes, MapInv, FramesComplete
  <2>2. QED
    BY <2>1 DEF MappingInv, LoopInv, LoopsTrue, CopyKnown, IsTrue, LoopFactorsTrue, Numbers
<1>2. QED  BY <1>1, MappingCorrect, PTL

\* While clouds are matched or guessed, the incremental odometry is the way
\* since the first key frame, whatever loops have moved (publishOdometry).
THEOREM IncrementalIsTrue == MappingSpec => []IncrementalTrue
<1>1. MappingInv => IncrementalTrue
  <2> SUFFICES ASSUME MappingInv, step = "idle", ~astray, incremental.odometry # NoPose,
                      timeLastProcessing = timeLaserInfoCur
               PROVE  incremental.odometry = cloudInfo.at - keyFrames[1]
    BY DEF IncrementalTrue
  <2>1. keyFrames # <<>>
    BY DEF MappingInv, IncrementalInv, NothingYet
  <2>2. cloudKeyPoses # <<>> /\ Len(keyFrames) = Len(cloudKeyPoses)
    BY <2>1 DEF MappingInv, MappingTypes, MapInv, FramesComplete
  <2>3. /\ incremental.odometry = transformTobeMapped - Offset - keyFrames[1]
        /\ transformTobeMapped = Offset + cloudInfo.at
    BY <2>1, <2>2 DEF MappingInv, IncrementalInv, WayInv, Settled
  <2>4. Offset \in Int /\ keyFrames[1] \in Int /\ cloudInfo.at \in Int
    BY <2>2, OffsetIsInt DEF MappingInv, MappingTypes
  <2>5. QED  BY <2>3, <2>4
<1>2. QED  BY <1>1, MappingCorrect, PTL

-----------------------------------------------------------------------------
\* Stamps are times, or none.
Stamps == Nat \cup {NoTime}

PreintegrationTypes ==
  /\ received \in Nat /\ toCorrect \in Stamps /\ toFuse \in Stamps
  /\ odometries \in Seq(Nat) /\ lastImuT_opt \in Stamps /\ lastImuT_imu \in Stamps
  /\ systemInitialized \in BOOLEAN /\ doneFirstOpt \in BOOLEAN
  /\ key \in Nat \ {0} /\ corrected \in Stamps /\ deltaTij \in Nat
  /\ lidarOdomTime \in Stamps /\ imuOdomQueue \in Seq(Nat)

\* Corrections are as far behind the messages as their ways take, and IMU
\* odometry is not further.
Latencies ==
  /\ toCorrect # NoTime => corrected < toCorrect /\ toCorrect \in 1..received
  /\ corrected # NoTime => corrected \in 1..received
  /\ \A stamp \in {toFuse, lidarOdomTime} : stamp # NoTime => stamp + MinLatency <= received
  /\ \A i \in 1..Len(odometries) :
       odometries[i] <= received /\ received <= odometries[i] + MaxDelay
  /\ \A i \in 1..Len(imuOdomQueue) : imuOdomQueue[i] <= received

\* What a queue begins with: messages are kept from the last correction on.
Since == IF corrected = NoTime THEN 1 ELSE corrected

\* The queues have the messages from a correction to the newest one.
QueuesWhole ==
  /\ imuQueOpt = Consecutive(Since, received)
  /\ \E b \in 1..Since : imuQueImu = Consecutive(b, received)
  /\ lastImuT_opt # NoTime => corrected # NoTime /\ lastImuT_opt = corrected - 1

\* The prediction is from the last correction over all the messages since; the
\* step to the first one alone may be the default.
PredictionWhole ==
  /\ systemInitialized => corrected # NoTime /\ keys = 0..key - 1
  /\ ~doneFirstOpt => lastImuT_imu = NoTime
  /\ doneFirstOpt =>
       /\ systemInitialized /\ prevStateOdom = corrected
       /\ integrated = Consecutive(corrected, received)
       /\ \/ deltaTij = Period * (received - corrected + 1) /\ lastImuT_imu \in {NoTime, received}
          \/ /\ deltaTij = Period * (received - corrected) + DefaultStep
             /\ lastImuT_imu = received

\* The last factor joins two corrections over the messages between them.
FactorTrue ==
  factor # NoFactor =>
    /\ factor.over = Consecutive(factor.between[1], factor.between[2] - 1)
    /\ AsLong(factor.duration, Len(factor.over))

\* IMU odometry is in order, and is fused with an older lidar odometry.
FusionInOrder ==
  /\ \A i, j \in 1..Len(odometries) : i <= j => odometries[i] <= odometries[j]
  /\ \A i, j \in 1..Len(imuOdomQueue) : i <= j => imuOdomQueue[i] <= imuOdomQueue[j]
  /\ \A i \in 1..Len(imuOdomQueue), j \in 1..Len(odometries) : imuOdomQueue[i] <= odometries[j]
  /\ FusionHasOdometry

LioInv ==
  /\ PreintegrationTypes /\ Latencies /\ QueuesWhole /\ PredictionWhole /\ FactorTrue
  /\ FusionInOrder

-----------------------------------------------------------------------------
\* How many messages are popped is told by what they are.
LEMMA PoppedIs ==
  ASSUME NEW queue \in Seq(Int), NEW time \in Int, NEW n \in 0..Len(queue),
         \A i \in 1..n : queue[i] < time, n < Len(queue) => queue[n + 1] >= time
  PROVE  Popped(queue, time) = n
<1> DEFINE m == Popped(queue, time)
<1>1. /\ m \in 0..Len(queue) /\ \A i \in 1..m : queue[i] < time
      /\ m < Len(queue) => queue[m + 1] >= time
  BY DEF Popped
<1> HIDE DEF m
<1>2. \A i \in 1..Len(queue) : queue[i] \in Int
  OBVIOUS
<1>3. ~(m < n)
  <2>1. ASSUME m < n  PROVE m + 1 \in 1..n /\ m < Len(queue) /\ m + 1 \in 1..Len(queue)
    BY <1>1, <2>1
  <2>2. QED  BY <1>1, <1>2, <2>1
<1>4. ~(n < m)
  <2>1. ASSUME n < m  PROVE n + 1 \in 1..m /\ n < Len(queue) /\ n + 1 \in 1..Len(queue)
    BY <1>1, <2>1
  <2>2. QED  BY <1>1, <1>2, <2>1
<1>5. QED  BY <1>1, <1>3, <1>4 DEF m

\* It is a number: messages are popped until one is not old or none is left.
LEMMA PoppedHolds ==
  ASSUME NEW queue \in Seq(Int), NEW time \in Int
  PROVE  /\ Popped(queue, time) \in 0..Len(queue)
         /\ \A i \in 1..Popped(queue, time) : queue[i] < time
         /\ Popped(queue, time) < Len(queue) => queue[Popped(queue, time) + 1] >= time
<1> DEFINE S == {n \in 0..Len(queue) : n < Len(queue) => queue[n + 1] >= time}
           m == Min(S)
<1>1. S \in SUBSET Nat /\ Len(queue) \in S
  OBVIOUS
<1> HIDE DEF S
<1>2. m \in S /\ \A y \in S : m <= y
  BY <1>1, MinIs
<1> HIDE DEF m
<1>3. m \in 0..Len(queue) /\ (m < Len(queue) => queue[m + 1] >= time)
  BY <1>2 DEF S
<1>4. ASSUME NEW i \in 1..m  PROVE queue[i] < time
  <2>1. i - 1 \in 0..Len(queue) /\ i - 1 < m /\ i - 1 < Len(queue) /\ (i - 1) + 1 = i
    BY <1>3
  <2>2. i - 1 \notin S
    BY <1>2, <1>3, <2>1
  <2>3. ~(queue[i] >= time)
    BY <2>1, <2>2 DEF S
  <2>4. queue[i] \in Int
    BY <1>3
  <2>5. QED  BY <2>3, <2>4
<1>5. Popped(queue, time) = m
  BY <1>3, <1>4, PoppedIs
<1>6. QED  BY <1>3, <1>4, <1>5

\* Messages in a row: the first, the last, and one more.
LEMMA ConsecutiveHolds ==
  ASSUME NEW a \in Int, NEW r \in Int, a <= r + 1
  PROVE  /\ Consecutive(a, r) \in Seq(Int) /\ Len(Consecutive(a, r)) = r - a + 1
         /\ \A i \in 1..r - a + 1 : Consecutive(a, r)[i] = a + i - 1
         /\ a <= r => /\ Consecutive(a, r) # <<>>
                      /\ Head(Consecutive(a, r)) = a /\ Last(Consecutive(a, r)) = r
         /\ a = r + 1 => Consecutive(a, r) = <<>>
<1> DEFINE s == Consecutive(a, r)
           n == r - a + 1
<1>1. n \in Nat /\ s = [i \in 1..n |-> a + i - 1]
  BY DEF Consecutive
<1>2. s \in Seq(Int) /\ Len(s) = n /\ \A i \in 1..n : s[i] = a + i - 1
  BY <1>1
<1> HIDE DEF s
<1>3. ASSUME a <= r  PROVE s # <<>> /\ Head(s) = a /\ Last(s) = r
  <2>1. n >= 1 /\ 1 \in 1..n /\ n \in 1..n
    BY <1>1, <1>3
  <2>2. s # <<>> /\ Head(s) = s[1]
    BY <1>2, <2>1
  <2>3. s[1] = a /\ s[n] = r
    BY <1>2, <2>1
  <2>4. QED  BY <1>2, <2>2, <2>3 DEF Last
<1>4. ASSUME a = r + 1  PROVE s = <<>>
  BY <1>2, <1>4
<1>5. QED  BY <1>2, <1>3, <1>4 DEF s

LEMMA ConsecutiveGrows ==
  ASSUME NEW a \in Int, NEW r \in Int, a <= r + 1
  PROVE  Append(Consecutive(a, r), r + 1) = Consecutive(a, r + 1)
<1> DEFINE s == Consecutive(a, r)
           t == Consecutive(a, r + 1)
           u == Append(s, r + 1)
<1>1. s \in Seq(Int) /\ Len(s) = r - a + 1 /\ \A i \in 1..r - a + 1 : s[i] = a + i - 1
  BY ConsecutiveHolds
<1>2. t \in Seq(Int) /\ Len(t) = r - a + 2 /\ \A i \in 1..r - a + 2 : t[i] = a + i - 1
  <2>1. r + 1 \in Int /\ a <= (r + 1) + 1 /\ (r + 1) - a + 1 = r - a + 2
    OBVIOUS
  <2>2. QED  BY <2>1, ConsecutiveHolds
<1> HIDE DEF s, t
<1>3. /\ u \in Seq(Int) /\ Len(u) = r - a + 2 /\ u[r - a + 2] = r + 1
      /\ \A i \in 1..r - a + 1 : u[i] = s[i]
  <2>1. /\ u \in Seq(Int) /\ Len(u) = Len(s) + 1 /\ u[Len(s) + 1] = r + 1
        /\ \A i \in 1..Len(s) : u[i] = s[i]
    BY <1>1, r + 1 \in Int, AppendProperties
  <2> HIDE DEF u
  <2>2. Len(s) + 1 = r - a + 2
    BY <1>1
  <2>3. QED  BY <1>1, <2>1, <2>2
<1> HIDE DEF u
<1>4. ASSUME NEW i \in 1..r - a + 2  PROVE u[i] = t[i]
  <2>1. CASE i \in 1..r - a + 1
    BY <1>1, <1>2, <1>3, <2>1
  <2>2. CASE i = r - a + 2
    BY <1>2, <1>3, <2>2
  <2>3. QED  BY <2>1, <2>2
<1>5. u = t
  BY <1>2, <1>3, <1>4, SeqEqual
<1>6. QED  BY <1>5 DEF s, t, u

\* Popping messages in a row up to a time leaves the row from that time on.
LEMMA PopConsecutive ==
  ASSUME NEW a \in Int, NEW r \in Int, NEW t \in Int, a <= t, t <= r + 1
  PROVE  /\ Older(Consecutive(a, r), t) = Consecutive(a, t - 1)
         /\ NotOlder(Consecutive(a, r), t) = Consecutive(t, r)
<1> DEFINE s == Consecutive(a, r)
           n == t - a
           front == Consecutive(a, t - 1)
           rest == Consecutive(t, r)
<1>1. s \in Seq(Int) /\ Len(s) = r - a + 1 /\ \A i \in 1..r - a + 1 : s[i] = a + i - 1
  BY a <= r + 1, ConsecutiveHolds
<1>2. front \in Seq(Int) /\ Len(front) = n /\ \A i \in 1..n : front[i] = a + i - 1
  <2>1. t - 1 \in Int /\ a <= (t - 1) + 1 /\ (t - 1) - a + 1 = n
    OBVIOUS
  <2>2. QED  BY <2>1, ConsecutiveHolds
<1>3. rest \in Seq(Int) /\ Len(rest) = r - t + 1 /\ \A i \in 1..r - t + 1 : rest[i] = t + i - 1
  BY ConsecutiveHolds
<1> HIDE DEF s, front, rest
<1>4. n \in 0..Len(s) /\ n \in Nat
  BY <1>1
<1>5. \A i \in 1..n : s[i] < t
  BY <1>1
<1>6. n < Len(s) => s[n + 1] >= t
  BY <1>1
<1> HIDE DEF n
<1>7. Popped(s, t) = n
  BY <1>1, <1>4, <1>5, <1>6, PoppedIs
<1>8. SubSeq(s, 1, n) = front
  <2>1. /\ SubSeq(s, 1, n) \in Seq(Int) /\ Len(SubSeq(s, 1, n)) = n
        /\ \A i \in 1..n : SubSeq(s, 1, n)[i] = s[i]
    BY <1>1, <1>4, SubSeqProperties
  <2> DEFINE u == SubSeq(s, 1, n)
  <2> HIDE DEF u
  <2>2. \A i \in 1..n : u[i] = front[i]
    BY <1>1, <1>2, <1>4, <2>1 DEF u
  <2>3. u = front
    BY <1>2, <2>1, <2>2, SeqEqual DEF u
  <2>4. QED  BY <2>3 DEF u
<1>9. SubSeq(s, n + 1, Len(s)) = rest
  <2> DEFINE u == SubSeq(s, n + 1, Len(s))
  <2>1. /\ u \in Seq(Int) /\ Len(u) = Len(s) - n
        /\ \A i \in 1..Len(s) - n : u[i] = s[n + i]
    BY <1>1, <1>4, SubSeqProperties
  <2> HIDE DEF u
  <2>2. Len(u) = Len(rest)
    BY <1>1, <1>3, <2>1 DEF n
  <2>3. ASSUME NEW i \in 1..Len(rest)  PROVE u[i] = rest[i]
    <3>1. i \in 1..Len(s) - n /\ n + i \in 1..r - a + 1
      BY <1>1, <1>3 DEF n
    <3>2. u[i] = a + (n + i) - 1
      BY <1>1, <2>1, <3>1
    <3>3. QED  BY <1>3, <3>2 DEF n
  <2>4. u = rest
    BY <1>3, <2>1, <2>2, <2>3, SeqEqual
  <2>5. QED  BY <2>4 DEF u
<1>10. QED  BY <1>7, <1>8, <1>9 DEF Older, NotOlder, s, front, rest

-----------------------------------------------------------------------------
\* The invariant holds at first.
LEMMA PreintegrationBegins == PreintegrationInit => LioInv
<1> SUFFICES ASSUME PreintegrationInit  PROVE LioInv
  OBVIOUS
<1> USE DEF PreintegrationInit
<1>1. PreintegrationTypes
  <2>1. NoTime \in Stamps /\ 0 \in Nat /\ 1 \in Nat \ {0} /\ FALSE \in BOOLEAN
    BY DEF Stamps
  <2>2. odometries \in Seq(Nat) /\ imuOdomQueue \in Seq(Nat)
    BY EmptySeq
  <2>3. QED  BY <2>1, <2>2, Zenon DEF PreintegrationTypes
<1>a. Latencies
  <2>1. Len(odometries) = 0 /\ Len(imuOdomQueue) = 0
    OBVIOUS
  <2>2. QED  BY <2>1 DEF Latencies
<1>2. QueuesWhole
  <2>1. Since = 1 /\ Consecutive(1, 0) = <<>>
    BY ConsecutiveHolds DEF Since, NoTime
  <2>2. QED  BY <2>1 DEF QueuesWhole, NoTime
<1>3. PredictionWhole /\ FactorTrue
  BY DEF PredictionWhole, FactorTrue
<1>4. FusionInOrder
  BY DEF FusionInOrder, FusionHasOdometry
<1>5. QED  BY <1>1, <1>a, <1>2, <1>3, <1>4 DEF LioInv

\* From which message on the queues are is a number.
LEMMA SinceHolds ==
  ASSUME PreintegrationTypes, Latencies
  PROVE  /\ Since \in Nat \ {0} /\ Since <= received + 1
         /\ corrected # NoTime => Since = corrected
         /\ toCorrect # NoTime => Since <= toCorrect /\ toCorrect \in Nat /\ toCorrect <= received
BY DEF PreintegrationTypes, Latencies, Since, Stamps, NoTime

\* How long the message after the last one takes.
LEMMA StepHolds ==
  ASSUME NEW r \in Nat, NEW before \in Stamps
  PROVE  /\ before = NoTime => Duration(<<r>>, before) = DefaultStep
         /\ before # NoTime => Duration(<<r>>, before) = Period * (r - before)
<1>1. <<r>> # <<>> /\ Last(<<r>>) = r /\ Head(<<r>>) = r
  BY DEF Last
<1>2. DefaultStep + Period * (r - r) = DefaultStep
  BY PreintegrationAssumption
<1>3. QED  BY <1>1, <1>2, Zenon DEF Duration

\* How long messages in a row take.
LEMMA RowHolds ==
  ASSUME NEW a \in Int, NEW r \in Int, a <= r, NEW before
  PROVE  /\ Duration(Consecutive(a, r), before) =
              IF before = NoTime THEN DefaultStep + Period * (r - a) ELSE Period * (r - before)
         /\ LastOf(Consecutive(a, r), before) = r
<1>1. /\ Consecutive(a, r) # <<>>
      /\ Head(Consecutive(a, r)) = a /\ Last(Consecutive(a, r)) = r
  BY a <= r + 1, ConsecutiveHolds
<1>2. QED  BY <1>1, Zenon DEF Duration, LastOf

\* As long as it should be.
LEMMA AsLongIs ==
  ASSUME NEW n \in Nat \ {0}, NEW duration \in Int,
         duration = Period * n \/ duration = Period * (n - 1) + DefaultStep
  PROVE  AsLong(duration, n)
<1>1. Period * n = Period * (n - 1) + Period /\ Period * n \in Int /\ Period * (n - 1) \in Int
  BY PreintegrationAssumption
<1>2. DefaultStep \in Int /\ Period \in Int /\ DefaultStep <= Period
  BY PreintegrationAssumption
<1>3. QED  BY <1>1, <1>2 DEF AsLong

-----------------------------------------------------------------------------
\* A message joins the queues, and the prediction where there is one.
LEMMA MessageKeeps == LioInv /\ imuHandler => LioInv'
<1> SUFFICES ASSUME LioInv, imuHandler  PROVE LioInv'
  OBVIOUS
<1>1. /\ PreintegrationTypes /\ Latencies /\ QueuesWhole /\ PredictionWhole /\ FactorTrue
      /\ FusionInOrder
  BY DEF LioInv
<1>2. /\ \A i \in 1..Len(odometries) : received + 1 - odometries[i] <= MaxDelay
      /\ received' = received + 1
      /\ imuQueOpt' = Append(imuQueOpt, received + 1)
      /\ imuQueImu' = Append(imuQueImu, received + 1)
      /\ UNCHANGED <<toCorrect, toFuse, lastImuT_opt, systemInitialized, doneFirstOpt>>
      /\ UNCHANGED <<key, keys, prevState_, factor, corrected, prevStateOdom>>
      /\ UNCHANGED <<lidarOdomTime, imuOdomQueue, published>>
      /\ \/ ~doneFirstOpt /\ UNCHANGED <<lastImuT_imu, integrated, deltaTij, odometries>>
         \/ /\ doneFirstOpt
            /\ lastImuT_imu' = received + 1 /\ integrated' = Append(integrated, received + 1)
            /\ deltaTij' = deltaTij + Duration(<<received'>>, lastImuT_imu)
            /\ odometries' = Append(odometries, received + 1)
  BY DEF imuHandler, graph, fusion
<1>3. /\ received \in Nat /\ received + 1 \in Nat /\ odometries \in Seq(Nat)
      /\ lastImuT_imu \in Stamps /\ deltaTij \in Nat
  BY <1>1 DEF PreintegrationTypes
<1>4. doneFirstOpt =>
        /\ systemInitialized /\ prevStateOdom = corrected
        /\ integrated = Consecutive(corrected, received) /\ corrected \in 1..received
        /\ \/ deltaTij = Period * (received - corrected + 1) /\ lastImuT_imu \in {NoTime, received}
           \/ /\ deltaTij = Period * (received - corrected) + DefaultStep
              /\ lastImuT_imu = received
  BY <1>1 DEF PredictionWhole, Latencies
<1>5. doneFirstOpt =>
        \/ deltaTij' = Period * (received' - corrected + 1)
        \/ deltaTij' = Period * (received' - corrected) + DefaultStep
  <2> SUFFICES ASSUME doneFirstOpt
               PROVE  \/ deltaTij' = Period * (received' - corrected + 1)
                      \/ deltaTij' = Period * (received' - corrected) + DefaultStep
    OBVIOUS
  <2>1. /\ lastImuT_imu = NoTime => Duration(<<received'>>, lastImuT_imu) = DefaultStep
        /\ lastImuT_imu # NoTime =>
             Duration(<<received'>>, lastImuT_imu) = Period * (received' - lastImuT_imu)
    <3>1. received' \in Nat
      BY <1>2, <1>3
    <3>2. QED  BY <1>3, <3>1, StepHolds, Zenon
  <2>2. received \in Int /\ corrected \in Int /\ Period \in Int /\ DefaultStep \in Int
    BY <1>1, PreintegrationAssumption DEF PreintegrationTypes, Stamps, NoTime
  <2>3. CASE lastImuT_imu = NoTime
    <3>1. deltaTij = Period * (received - corrected + 1)
      BY <1>3, <1>4, <2>3 DEF NoTime
    <3>2. deltaTij' = Period * (received - corrected + 1) + DefaultStep
      BY <1>2, <2>1, <2>3, <3>1
    <3>3. received' - corrected = received - corrected + 1
      BY <1>2, <2>2
    <3>4. QED  BY <3>2, <3>3
  <2>4. CASE lastImuT_imu # NoTime
    <3>1. lastImuT_imu = received /\ Period * (received' - received) = Period
      BY <1>2, <1>4, <2>2, <2>4
    <3>2. deltaTij' = deltaTij + Period
      BY <1>2, <2>1, <2>4, <3>1
    <3>3. received' - corrected = received - corrected + 1
      BY <1>2, <2>2
    <3>4. Period * (received - corrected + 1) + Period = Period * (received - corrected + 2)
      BY <2>2
    <3>5. Period * (received - corrected) + Period = Period * (received - corrected + 1)
      BY <2>2
    <3>6. received' - corrected + 1 = received - corrected + 2
      BY <1>2, <2>2
    <3>7. CASE deltaTij = Period * (received - corrected + 1)
      BY <3>2, <3>4, <3>6, <3>7
    <3>8. CASE deltaTij = Period * (received - corrected) + DefaultStep
      <4>1. Period * (received - corrected) \in Int
        BY <2>2
      <4>2. deltaTij' = Period * (received - corrected + 1) + DefaultStep
        BY <2>2, <3>2, <3>5, <3>8, <4>1
      <4>3. QED  BY <3>3, <4>2
    <3>9. QED  BY <1>4, <3>7, <3>8
  <2>5. QED  BY <2>3, <2>4
<1>a. /\ odometries' \in Seq(Nat)
      /\ \A i \in 1..Len(odometries') :
           \/ i \in 1..Len(odometries) /\ odometries'[i] = odometries[i]
           \/ i = Len(odometries) + 1 /\ odometries'[i] = received + 1
      /\ odometries' = odometries \/ Len(odometries') = Len(odometries) + 1
  <2>1. CASE odometries' = odometries
    BY <1>3, <2>1
  <2>2. CASE odometries' = Append(odometries, received + 1)
    <3>1. /\ odometries' \in Seq(Nat) /\ Len(odometries') = Len(odometries) + 1
          /\ \A i \in 1..Len(odometries) : odometries'[i] = odometries[i]
          /\ odometries'[Len(odometries) + 1] = received + 1
      BY <1>3, <2>2, AppendProperties
    <3>2. Len(odometries) \in Nat
      BY <1>3, LenProperties
    <3>3. QED  BY <3>1, <3>2
  <2>3. QED  BY <1>2, <2>1, <2>2
<1>6. PreintegrationTypes'
  <2>1. doneFirstOpt => deltaTij' \in Nat
    <3> SUFFICES ASSUME doneFirstOpt  PROVE deltaTij' \in Nat
      OBVIOUS
    <3>0. corrected \in Int /\ corrected <= received
      BY <1>4
    <3>1. received' - corrected \in Nat /\ received' - corrected + 1 \in Nat
      BY <1>2, <1>3, <3>0
    <3>2. Period * (received' - corrected) \in Nat /\ Period * (received' - corrected + 1) \in Nat
      BY <3>1, PreintegrationAssumption
    <3>3. QED  BY <1>5, <3>2, PreintegrationAssumption
  <2>2. deltaTij' \in Nat
    BY <1>2, <1>3, <2>1
  <2>3. odometries' \in Seq(Nat) /\ lastImuT_imu' \in Stamps /\ received' \in Nat
    BY <1>2, <1>3, <1>a DEF Stamps
  <2>4. QED  BY <1>1, <1>2, <2>2, <2>3 DEF PreintegrationTypes
<1>7. Latencies'
  <2>1. /\ toCorrect' # NoTime => corrected' < toCorrect' /\ toCorrect' \in 1..received'
        /\ corrected' # NoTime => corrected' \in 1..received'
    BY <1>1, <1>2, <1>3 DEF Latencies
  <2>2. \A stamp \in {toFuse', lidarOdomTime'} : stamp # NoTime => stamp + MinLatency <= received'
    BY <1>1, <1>2, <1>3, PreintegrationAssumption DEF Latencies, PreintegrationTypes, Stamps
  <2>3. ASSUME NEW i \in 1..Len(odometries')
        PROVE  odometries'[i] <= received' /\ received' <= odometries'[i] + MaxDelay
    <3>1. CASE i \in 1..Len(odometries) /\ odometries'[i] = odometries[i]
      <4>1. odometries[i] \in Nat
        BY <1>3, <3>1
      <4>2. odometries[i] <= received
        BY <1>1, <3>1, Zenon DEF Latencies
      <4>3. received + 1 - odometries[i] <= MaxDelay
        BY <1>2, <3>1, Zenon
      <4>4. received' <= odometries[i] + MaxDelay /\ odometries[i] <= received'
        <5>1. MaxDelay \in Int
          BY PreintegrationAssumption
        <5> DEFINE o == odometries[i]
        <5>2. o \in Int /\ o <= received /\ received + 1 - o <= MaxDelay
          BY <4>1, <4>2, <4>3
        <5> HIDE DEF o
        <5>3. received' <= o + MaxDelay /\ o <= received'
          BY <1>2, <1>3, <5>1, <5>2
        <5>4. QED  BY <5>3 DEF o
      <4>5. QED  BY <3>1, <4>4
    <3>2. CASE odometries'[i] = received + 1
      BY <1>2, <1>3, <3>2, PreintegrationAssumption
    <3>3. QED  BY <1>a, <3>1, <3>2
  <2>4. \A i \in 1..Len(imuOdomQueue') : imuOdomQueue'[i] <= received'
    BY <1>1, <1>2 DEF Latencies, PreintegrationTypes
  <2>5. QED  BY <2>1, <2>2, <2>3, <2>4 DEF Latencies
<1>8. QueuesWhole'
  <2>1. Since' = Since /\ Since \in Nat \ {0} /\ Since <= received + 1
    BY <1>1, <1>2, SinceHolds DEF Since
  <2>2. imuQueOpt' = Consecutive(Since, received + 1)
    <3>1. Since \in Int /\ received \in Int
      BY <1>3, <2>1
    <3>2. Append(Consecutive(Since, received), received + 1) = Consecutive(Since, received + 1)
      BY <2>1, <3>1, ConsecutiveGrows
    <3>3. QED  BY <1>1, <1>2, <3>2 DEF QueuesWhole
  <2>3. PICK b \in 1..Since : imuQueImu = Consecutive(b, received)
    BY <1>1 DEF QueuesWhole
  <2>4. imuQueImu' = Consecutive(b, received + 1)
    <3>1. b \in Int /\ received \in Int /\ b <= received + 1
      BY <1>3, <2>1
    <3>2. Append(Consecutive(b, received), received + 1) = Consecutive(b, received + 1)
      BY <3>1, ConsecutiveGrows
    <3>3. QED  BY <1>2, <2>3, <3>2
  <2>5. QED  BY <1>1, <1>2, <2>1, <2>2, <2>4 DEF QueuesWhole
<1>9. PredictionWhole'
  <2>1. doneFirstOpt => integrated' = Consecutive(corrected, received + 1)
    <3> SUFFICES ASSUME doneFirstOpt  PROVE integrated' = Consecutive(corrected, received + 1)
      OBVIOUS
    <3>1. corrected \in Int /\ received \in Int /\ corrected <= received + 1
      BY <1>3, <1>4
    <3>2. Append(Consecutive(corrected, received), received + 1) = Consecutive(corrected, received + 1)
      BY <3>1, ConsecutiveGrows
    <3>3. QED  BY <1>2, <1>4, <3>2
  <2>2. QED  BY <1>1, <1>2, <1>4, <1>5, <2>1 DEF PredictionWhole
<1>10. FactorTrue'
  BY <1>1, <1>2 DEF FactorTrue
<1>11. FusionInOrder'
  <2>1. \A i \in 1..Len(odometries) : odometries[i] \in Nat /\ odometries[i] <= received
    BY <1>1, <1>3 DEF Latencies
  <2>2. \A i \in 1..Len(imuOdomQueue) : imuOdomQueue[i] \in Nat /\ imuOdomQueue[i] <= received
    BY <1>1 DEF PreintegrationTypes, Latencies
  <2>3. \A i, j \in 1..Len(odometries') : i <= j => odometries'[i] <= odometries'[j]
    <3> SUFFICES ASSUME NEW i \in 1..Len(odometries'), NEW j \in 1..Len(odometries'), i <= j
                 PROVE  odometries'[i] <= odometries'[j]
      OBVIOUS
    <3>1. CASE j \in 1..Len(odometries) /\ odometries'[j] = odometries[j]
      <4>1. i \in 1..Len(odometries) /\ odometries'[i] = odometries[i]
        <5>1. Len(odometries) \in Nat /\ Len(odometries') \in Nat
          BY <1>3, <1>a, LenProperties
        <5>2. i # Len(odometries) + 1
          BY <3>1, <5>1
        <5>3. QED  BY <1>a, <5>2
      <4>2. QED  BY <1>1, <3>1, <4>1 DEF FusionInOrder
    <3>2. CASE odometries'[j] = received + 1
      <4>1. odometries'[i] \in Nat /\ odometries'[i] <= received + 1
        <5>1. CASE i \in 1..Len(odometries) /\ odometries'[i] = odometries[i]
          BY <1>3, <2>1, <5>1
        <5>2. CASE odometries'[i] = received + 1
          BY <1>3, <5>2
        <5>3. QED  BY <1>a, <5>1, <5>2
      <4>2. QED  BY <3>2, <4>1
    <3>3. QED  BY <1>a, <3>1, <3>2
  <2>4. \A i \in 1..Len(imuOdomQueue'), j \in 1..Len(odometries') : imuOdomQueue'[i] <= odometries'[j]
    <3> SUFFICES ASSUME NEW i \in 1..Len(imuOdomQueue), NEW j \in 1..Len(odometries')
                 PROVE  imuOdomQueue[i] <= odometries'[j]
      BY <1>2
    <3>1. CASE j \in 1..Len(odometries) /\ odometries'[j] = odometries[j]
      BY <1>1, <3>1 DEF FusionInOrder
    <3>2. CASE odometries'[j] = received + 1
      BY <1>3, <2>2, <3>2
    <3>3. QED  BY <1>a, <3>1, <3>2
  <2>5. \A i, j \in 1..Len(imuOdomQueue') : i <= j => imuOdomQueue'[i] <= imuOdomQueue'[j]
    BY <1>1, <1>2 DEF FusionInOrder
  <2>6. FusionHasOdometry'
    BY <1>1, <1>2 DEF FusionInOrder, FusionHasOdometry
  <2>7. QED  BY <2>3, <2>4, <2>5, <2>6 DEF FusionInOrder
<1>12. QED  BY <1>6, <1>7, <1>8, <1>9, <1>10, <1>11 DEF LioInv

\* The later of two times.
LEMMA MaxOfTwo ==
  ASSUME NEW a \in Int, NEW b \in Int
  PROVE  a <= Max({a, b}) /\ b <= Max({a, b})
<1>1. \E x \in {a, b} : \A y \in {a, b} : x >= y
  <2>1. CASE a >= b
    BY <2>1
  <2>2. CASE b >= a
    BY <2>2
  <2>3. QED  BY <2>1, <2>2
<1>2. \A y \in {a, b} : Max({a, b}) >= y
  BY <1>1, Zenon DEF Max
<1>3. Max({a, b}) \in {a, b}
  BY <1>1, Zenon DEF Max
<1>4. QED  BY <1>2, <1>3

\* A lidar odometry on its way is later than the last one, and late enough.
LEMMA MappingKeeps ==
  ASSUME NEW latency \in MinLatency..MaxLatency, LioInv, Map(received - latency)
  PROVE  LioInv'
<1>1. /\ PreintegrationTypes /\ Latencies /\ QueuesWhole /\ PredictionWhole /\ FactorTrue
      /\ FusionInOrder
  BY DEF LioInv
<1> DEFINE time == received - latency
<1>2. /\ time > 0 /\ time > Max({corrected, lidarOdomTime})
      /\ toCorrect' \in {time, NoTime} /\ toFuse' \in {time, NoTime}
      /\ UNCHANGED <<received, odometries, imuQueOpt, imuQueImu, lastImuT_opt, lastImuT_imu>>
      /\ UNCHANGED <<systemInitialized, doneFirstOpt, key, keys, prevState_, factor, corrected>>
      /\ UNCHANGED <<prevStateOdom, integrated, deltaTij, lidarOdomTime, imuOdomQueue, published>>
  BY DEF Map, preintegration, fusion, clocks, graph
<1>3. /\ received \in Int /\ latency \in Int /\ MinLatency <= latency /\ latency >= 0
      /\ corrected \in Int /\ lidarOdomTime \in Int
  BY <1>1, PreintegrationAssumption DEF PreintegrationTypes, Stamps, NoTime
<1>4. corrected <= Max({corrected, lidarOdomTime}) /\ Max({corrected, lidarOdomTime}) \in Int
  <2>1. Max({corrected, lidarOdomTime}) \in {corrected, lidarOdomTime}
    <3>1. \E x \in {corrected, lidarOdomTime} : \A y \in {corrected, lidarOdomTime} : x >= y
      BY <1>3
    <3>2. QED  BY <3>1, Zenon DEF Max
  <2>2. QED  BY <1>3, <2>1, MaxOfTwo
<1>5. time \in Nat /\ time \in 1..received /\ time + MinLatency <= received /\ corrected < time
  BY <1>2, <1>3, <1>4, PreintegrationAssumption
<1> HIDE DEF time
<1>6. PreintegrationTypes'
  <2>1. toCorrect' \in Stamps /\ toFuse' \in Stamps
    BY <1>2, <1>5 DEF Stamps
  <2>2. QED  BY <1>1, <1>2, <2>1 DEF PreintegrationTypes
<1>7. Latencies'
  <2>1. toCorrect' # NoTime => corrected' < toCorrect' /\ toCorrect' \in 1..received'
    BY <1>2, <1>5
  <2>2. \A stamp \in {toFuse', lidarOdomTime'} : stamp # NoTime => stamp + MinLatency <= received'
    BY <1>1, <1>2, <1>5 DEF Latencies
  <2>3. QED  BY <1>1, <1>2, <2>1, <2>2 DEF Latencies
<1>8. QueuesWhole' /\ PredictionWhole' /\ FactorTrue' /\ FusionInOrder'
  BY <1>1, <1>2 DEF QueuesWhole, Since, PredictionWhole, FactorTrue, FusionInOrder, FusionHasOdometry
<1>9. QED  BY <1>6, <1>7, <1>8 DEF LioInv

\* A correction takes the messages before it off the queues.
LEMMA CorrectionPops ==
  ASSUME PreintegrationTypes, Latencies, QueuesWhole, toCorrect # NoTime
  PROVE  /\ NotOlder(imuQueOpt, toCorrect) = Consecutive(toCorrect, received)
         /\ LastOf(Older(imuQueOpt, toCorrect), lastImuT_opt) \in {NoTime, toCorrect - 1}
         /\ NotOlder(imuQueImu, toCorrect) = Consecutive(toCorrect, received)
         /\ corrected # NoTime =>
              /\ Older(imuQueOpt, toCorrect) = Consecutive(corrected, toCorrect - 1)
              /\ LastOf(Older(imuQueImu, toCorrect), NoTime) = toCorrect - 1
<1>1. /\ Since \in Nat \ {0} /\ Since <= toCorrect /\ toCorrect \in Nat /\ toCorrect <= received
      /\ received \in Nat /\ toCorrect <= received + 1
      /\ corrected # NoTime => Since = corrected /\ corrected < toCorrect
  BY SinceHolds DEF PreintegrationTypes, Latencies
<1>2. PICK b \in 1..Since : imuQueImu = Consecutive(b, received)
  BY DEF QueuesWhole
<1>3. b \in Int /\ b <= toCorrect /\ Since \in Int /\ toCorrect \in Int /\ received \in Int
  BY <1>1
<1>4. /\ Older(imuQueOpt, toCorrect) = Consecutive(Since, toCorrect - 1)
      /\ NotOlder(imuQueOpt, toCorrect) = Consecutive(toCorrect, received)
  <2>1. /\ Older(Consecutive(Since, received), toCorrect) = Consecutive(Since, toCorrect - 1)
        /\ NotOlder(Consecutive(Since, received), toCorrect) = Consecutive(toCorrect, received)
    BY <1>1, <1>3, PopConsecutive
  <2>2. imuQueOpt = Consecutive(Since, received)
    BY DEF QueuesWhole
  <2>3. QED  BY <2>1, <2>2
<1>5. /\ Older(imuQueImu, toCorrect) = Consecutive(b, toCorrect - 1)
      /\ NotOlder(imuQueImu, toCorrect) = Consecutive(toCorrect, received)
  <2>1. /\ Older(Consecutive(b, received), toCorrect) = Consecutive(b, toCorrect - 1)
        /\ NotOlder(Consecutive(b, received), toCorrect) = Consecutive(toCorrect, received)
    BY <1>1, <1>3, PopConsecutive
  <2>2. QED  BY <1>2, <2>1
<1>6. LastOf(Older(imuQueOpt, toCorrect), lastImuT_opt) \in {NoTime, toCorrect - 1}
  <2>1. CASE Since <= toCorrect - 1
    <3>1. LastOf(Consecutive(Since, toCorrect - 1), lastImuT_opt) = toCorrect - 1
      BY <1>3, <2>1, toCorrect - 1 \in Int, RowHolds
    <3>2. QED  BY <1>4, <3>1
  <2>2. CASE Since = toCorrect
    <3>1. corrected = NoTime
      BY <1>1, <2>2
    <3>2. lastImuT_opt = NoTime
      BY <3>1 DEF QueuesWhole
    <3>3. Consecutive(Since, toCorrect - 1) = <<>>
      <4>1. toCorrect - 1 \in Int /\ Since <= (toCorrect - 1) + 1 /\ Since = (toCorrect - 1) + 1
        BY <1>3, <2>2
      <4>2. QED  BY <1>3, <4>1, ConsecutiveHolds
    <3>4. QED  BY <1>4, <3>2, <3>3, Zenon DEF LastOf
  <2>3. QED  BY <1>1, <1>3, <2>1, <2>2
<1>7. ASSUME corrected # NoTime
      PROVE  LastOf(Older(imuQueImu, toCorrect), NoTime) = toCorrect - 1
  <2>1. b <= toCorrect - 1 /\ toCorrect - 1 \in Int
    BY <1>1, <1>3, <1>7
  <2>2. LastOf(Consecutive(b, toCorrect - 1), NoTime) = toCorrect - 1
    BY <1>3, <2>1, RowHolds
  <2>3. QED  BY <1>5, <2>2
<1>8. QED  BY <1>1, <1>4, <1>5, <1>6, <1>7

\* What every correction changes and what it does not.
LEMMA Correcting ==
  ASSUME LioInv, odometryHandler
  PROVE  /\ toCorrect # NoTime /\ toCorrect' = NoTime
         /\ UNCHANGED <<received, toFuse, odometries, lidarOdomTime, imuOdomQueue, published>>
         /\ PreintegrationTypes /\ Latencies /\ QueuesWhole /\ PredictionWhole /\ FactorTrue
         /\ FusionInOrder /\ FusionInOrder'
         /\ toCorrect \in Nat \ {0} /\ toCorrect <= received /\ received \in Nat
         /\ toCorrect \in Stamps /\ corrected < toCorrect
<1>1. /\ toCorrect # NoTime /\ toCorrect' = NoTime
      /\ UNCHANGED <<received, toFuse, odometries, lidarOdomTime, imuOdomQueue, published>>
  BY DEF odometryHandler, fusion
<1>2. /\ PreintegrationTypes /\ Latencies /\ QueuesWhole /\ PredictionWhole /\ FactorTrue
      /\ FusionInOrder
  BY DEF LioInv
<1>3. FusionInOrder'
  BY <1>1, <1>2 DEF FusionInOrder, FusionHasOdometry
<1>4. /\ toCorrect \in Nat \ {0} /\ toCorrect <= received /\ received \in Nat
      /\ toCorrect \in Stamps /\ corrected < toCorrect
  BY <1>1, <1>2 DEF Latencies, PreintegrationTypes, Stamps
<1>5. QED  BY <1>1, <1>2, <1>3, <1>4

\* After it the latencies are as before, if the system has taken it.
LEMMA CorrectedInTime ==
  ASSUME LioInv, odometryHandler, corrected' \in {corrected, toCorrect}
  PROVE  Latencies'
<1>1. /\ toCorrect # NoTime /\ toCorrect' = NoTime
      /\ UNCHANGED <<received, toFuse, odometries, lidarOdomTime, imuOdomQueue>>
      /\ Latencies /\ toCorrect \in 1..received
  BY Correcting
<1>2. corrected' # NoTime => corrected' \in 1..received'
  BY <1>1 DEF Latencies
<1>3. QED  BY <1>1, <1>2 DEF Latencies

\* Nothing but the odometry goes where no message has come.
LEMMA IgnoringKeeps ==
  ASSUME LioInv, odometryHandler, UNCHANGED preintegration
  PROVE  LioInv'
<1>1. /\ toCorrect # NoTime /\ toCorrect' = NoTime
      /\ UNCHANGED <<received, toFuse, odometries, lidarOdomTime, imuOdomQueue, published>>
      /\ PreintegrationTypes /\ QueuesWhole /\ PredictionWhole /\ FactorTrue
      /\ FusionInOrder'
  BY Correcting
<1>2. /\ UNCHANGED <<imuQueOpt, imuQueImu, lastImuT_opt, lastImuT_imu, systemInitialized>>
      /\ UNCHANGED <<doneFirstOpt, key, keys, prevState_, factor, corrected>>
      /\ UNCHANGED <<prevStateOdom, integrated, deltaTij>>
  BY DEF preintegration, clocks, graph
<1>3. PreintegrationTypes'
  BY <1>1, <1>2 DEF PreintegrationTypes, Stamps
<1>4. Latencies'
  BY <1>2, CorrectedInTime
<1>5. QueuesWhole' /\ PredictionWhole' /\ FactorTrue'
  BY <1>1, <1>2 DEF QueuesWhole, Since, PredictionWhole, FactorTrue
<1>6. QED  BY <1>1, <1>3, <1>4, <1>5 DEF LioInv

\* The first correction begins the graph and the queues.
LEMMA InitialisingKeeps ==
  ASSUME LioInv, odometryHandler, ~systemInitialized, Initialise
  PROVE  LioInv'
<1>1. /\ toCorrect # NoTime /\ toCorrect' = NoTime
      /\ UNCHANGED <<received, toFuse, odometries, lidarOdomTime, imuOdomQueue, published>>
      /\ PreintegrationTypes /\ Latencies /\ QueuesWhole /\ PredictionWhole /\ FactorTrue
      /\ FusionInOrder'
      /\ toCorrect \in Nat \ {0} /\ toCorrect <= received /\ received \in Nat
      /\ toCorrect \in Stamps /\ corrected < toCorrect
  BY Correcting
<1>2. /\ imuQueOpt' = NotOlder(imuQueOpt, toCorrect)
      /\ lastImuT_opt' = LastOf(Older(imuQueOpt, toCorrect), lastImuT_opt)
      /\ key' = 1 /\ keys' = {0} /\ deltaTij' = 0 /\ systemInitialized' = TRUE
      /\ corrected' = toCorrect
      /\ UNCHANGED <<imuQueImu, lastImuT_imu, doneFirstOpt, prevState_, prevStateOdom, factor>>
  BY DEF Initialise
<1>3. /\ imuQueOpt' = Consecutive(toCorrect, received)
      /\ lastImuT_opt' \in {NoTime, toCorrect - 1}
  BY <1>1, <1>2, CorrectionPops
<1>4. PreintegrationTypes'
  <2>1. lastImuT_opt' \in Stamps
    BY <1>1, <1>3 DEF Stamps
  <2>2. 1 \in Nat \ {0} /\ 0 \in Nat /\ NoTime \in Stamps
    BY DEF Stamps
  <2>3. QED  BY <1>1, <1>2, <2>1, <2>2 DEF PreintegrationTypes
<1>5. Latencies'
  BY <1>2, CorrectedInTime
<1>6. QueuesWhole'
  <2>1. Since \in Nat \ {0} /\ Since <= toCorrect /\ Since' = toCorrect
    BY <1>1, <1>2, SinceHolds DEF Since
  <2>2. PICK b \in 1..Since : imuQueImu = Consecutive(b, received)
    BY <1>1 DEF QueuesWhole
  <2>3. b \in 1..toCorrect
    BY <1>1, <2>1
  <2>4. \E c \in 1..toCorrect : imuQueImu' = Consecutive(c, received')
    BY <1>1, <1>2, <2>2, <2>3
  <2>5. QED  BY <1>1, <1>2, <1>3, <2>1, <2>4 DEF QueuesWhole
<1>7. PredictionWhole'
  <2>1. ~doneFirstOpt /\ lastImuT_imu = NoTime
    BY <1>1 DEF PredictionWhole
  <2>2. keys' = 0..key' - 1
    BY <1>2
  <2>3. QED  BY <1>1, <1>2, <2>1, <2>2 DEF PredictionWhole
<1>8. FactorTrue'
  BY <1>1, <1>2 DEF FactorTrue
<1>9. QED  BY <1>1, <1>4, <1>5, <1>6, <1>7, <1>8 DEF LioInv

\* The graph has the keys below the new one, also begun anew.
LEMMA GraphWhole ==
  ASSUME PreintegrationTypes, keys = 0..key - 1
  PROVE  /\ GraphBefore[1] \in Nat \ {0}
         /\ GraphBefore[2] \cup {GraphBefore[1]} = 0..(GraphBefore[1] + 1) - 1
<1>1. CASE key = LastKey
  <2>1. GraphBefore[1] = 1 /\ GraphBefore[2] = {0}
    BY <1>1 DEF GraphBefore
  <2>2. {0} \cup {1} = 0..(1 + 1) - 1
    OBVIOUS
  <2>3. QED  BY <2>1, <2>2
<1>2. CASE key # LastKey
  <2>1. GraphBefore[1] = key /\ GraphBefore[2] = keys /\ key \in Nat \ {0}
    BY <1>2 DEF GraphBefore, PreintegrationTypes
  <2>2. (0..key - 1) \cup {key} = 0..(key + 1) - 1
    BY <2>1
  <2>3. QED  BY <2>1, <2>2
<1>3. QED  BY <1>1, <1>2

\* A correction of an initialised system joins the last one by a factor.
LEMMA OptimisingKeeps ==
  ASSUME LioInv, odometryHandler, systemInitialized, Optimise
  PROVE  /\ imuQueOpt' = Consecutive(toCorrect, received)
         /\ lastImuT_opt' \in {NoTime, toCorrect - 1} /\ lastImuT_opt' \in Stamps
         /\ corrected' = toCorrect /\ prevState_' = toCorrect /\ FactorTrue'
         /\ GraphBefore[1] \in Nat \ {0} /\ keys' = 0..(GraphBefore[1] + 1) - 1
         /\ NotOlder(imuQueImu, toCorrect) = Consecutive(toCorrect, received)
         /\ LastOf(Older(imuQueImu, toCorrect), NoTime) = toCorrect - 1
<1>1. /\ toCorrect # NoTime
      /\ PreintegrationTypes /\ Latencies /\ QueuesWhole /\ PredictionWhole
      /\ toCorrect \in Nat \ {0} /\ toCorrect <= received /\ received \in Nat
      /\ corrected < toCorrect
  BY Correcting
<1>2. corrected # NoTime /\ keys = 0..key - 1 /\ corrected \in Nat
  BY <1>1 DEF PredictionWhole, Latencies, PreintegrationTypes, Stamps
<1>3. /\ NotOlder(imuQueOpt, toCorrect) = Consecutive(toCorrect, received)
      /\ LastOf(Older(imuQueOpt, toCorrect), lastImuT_opt) \in {NoTime, toCorrect - 1}
      /\ NotOlder(imuQueImu, toCorrect) = Consecutive(toCorrect, received)
      /\ Older(imuQueOpt, toCorrect) = Consecutive(corrected, toCorrect - 1)
      /\ LastOf(Older(imuQueImu, toCorrect), NoTime) = toCorrect - 1
  BY <1>1, <1>2, CorrectionPops
<1> DEFINE older == Consecutive(corrected, toCorrect - 1)
           time == Duration(older, lastImuT_opt)
<1>4. /\ imuQueOpt' = NotOlder(imuQueOpt, toCorrect)
      /\ lastImuT_opt' = LastOf(Older(imuQueOpt, toCorrect), lastImuT_opt)
      /\ factor' = [over |-> older, duration |-> time, between |-> <<corrected, toCorrect>>]
      /\ keys' = GraphBefore[2] \cup {GraphBefore[1]}
      /\ prevState_' = toCorrect /\ corrected' = toCorrect
  BY <1>3 DEF Optimise
<1>5. toCorrect - 1 \in Int /\ corrected <= toCorrect - 1 /\ corrected \in Int
  BY <1>1, <1>2
<1>6. Len(older) = toCorrect - corrected /\ toCorrect - corrected \in Nat \ {0}
  <2>1. corrected <= (toCorrect - 1) + 1 /\ (toCorrect - 1) - corrected + 1 = toCorrect - corrected
    BY <1>1, <1>2, <1>5
  <2>2. Len(older) = (toCorrect - 1) - corrected + 1
    BY <1>5, <2>1, ConsecutiveHolds
  <2>3. QED  BY <1>1, <1>2, <1>5, <2>1, <2>2
<1>7. AsLong(time, Len(older))
  <2>1. /\ lastImuT_opt = NoTime => time = DefaultStep + Period * ((toCorrect - 1) - corrected)
        /\ lastImuT_opt # NoTime => time = Period * ((toCorrect - 1) - lastImuT_opt)
    BY <1>5, RowHolds
  <2> DEFINE n == toCorrect - corrected
  <2>2. n \in Nat \ {0} /\ (toCorrect - 1) - corrected = n - 1
    BY <1>1, <1>2, <1>6
  <2>3. lastImuT_opt # NoTime => (toCorrect - 1) - lastImuT_opt = n
    BY <1>1, <1>2 DEF QueuesWhole
  <2> HIDE DEF time, older, n
  <2>4. Period * n \in Int /\ Period * (n - 1) \in Int /\ DefaultStep \in Int
    BY <2>2, PreintegrationAssumption
  <2>5. time = Period * n \/ time = Period * (n - 1) + DefaultStep
    BY <2>1, <2>2, <2>3, <2>4
  <2>6. time \in Int
    BY <2>4, <2>5
  <2>7. AsLong(time, n)
    BY <2>2, <2>5, <2>6, AsLongIs
  <2>8. QED  BY <1>6, <2>7 DEF n
<1> HIDE DEF time
<1>8. FactorTrue'
  <2>1. factor'.over = older /\ factor'.duration = time /\ factor'.between[1] = corrected
        /\ factor'.between[2] = toCorrect
    BY <1>4
  <2>2. QED  BY <1>7, <2>1 DEF FactorTrue
<1>9. GraphBefore[1] \in Nat \ {0} /\ keys' = 0..(GraphBefore[1] + 1) - 1
  BY <1>1, <1>2, <1>4, GraphWhole
<1>10. lastImuT_opt' \in Stamps
  BY <1>1, <1>3, <1>4 DEF Stamps
<1>11. QED  BY <1>3, <1>4, <1>8, <1>9, <1>10

\* A failed optimization ends the prediction; the queues are as after any other.
LEMMA FailingKeeps ==
  ASSUME LioInv, odometryHandler, systemInitialized, Optimise, Fail
  PROVE  LioInv'
<1>1. /\ toCorrect' = NoTime
      /\ UNCHANGED <<received, toFuse, odometries, lidarOdomTime, imuOdomQueue, published>>
      /\ PreintegrationTypes /\ Latencies /\ QueuesWhole /\ FusionInOrder'
      /\ toCorrect \in Nat \ {0} /\ toCorrect <= received /\ toCorrect \in Stamps
      /\ toCorrect # NoTime
  BY Correcting
<1>2. /\ imuQueOpt' = Consecutive(toCorrect, received)
      /\ lastImuT_opt' \in {NoTime, toCorrect - 1} /\ lastImuT_opt' \in Stamps
      /\ corrected' = toCorrect /\ FactorTrue'
      /\ GraphBefore[1] \in Nat \ {0}
  BY OptimisingKeeps
<1>3. /\ lastImuT_imu' = NoTime /\ doneFirstOpt' = FALSE /\ systemInitialized' = FALSE
      /\ key' = GraphBefore[1] /\ UNCHANGED <<imuQueImu, deltaTij>>
  BY DEF Fail
<1>4. PreintegrationTypes'
  BY <1>1, <1>2, <1>3, NoTime \in Stamps DEF PreintegrationTypes, Stamps
<1>5. Latencies'
  BY <1>2, CorrectedInTime
<1>6. QueuesWhole'
  <2>1. Since \in Nat \ {0} /\ Since <= toCorrect /\ Since' = toCorrect
    BY <1>1, <1>2, SinceHolds DEF Since
  <2>2. PICK b \in 1..Since : imuQueImu = Consecutive(b, received)
    BY <1>1 DEF QueuesWhole
  <2>3. b \in 1..toCorrect
    BY <1>1, <2>1
  <2>4. \E c \in 1..toCorrect : imuQueImu' = Consecutive(c, received')
    BY <1>1, <1>3, <2>2, <2>3
  <2>5. QED  BY <1>1, <1>2, <2>1, <2>4 DEF QueuesWhole
<1>7. PredictionWhole'
  BY <1>3 DEF PredictionWhole
<1>8. QED  BY <1>1, <1>2, <1>4, <1>5, <1>6, <1>7 DEF LioInv

\* A correction begins the prediction anew, over the messages from it on.
LEMMA RepropagatingKeeps ==
  ASSUME LioInv, odometryHandler, systemInitialized, Optimise, Repropagate,
         key' = GraphBefore[1] + 1, doneFirstOpt' = TRUE,
         UNCHANGED <<lastImuT_imu, systemInitialized>>
  PROVE  LioInv'
<1>1. /\ toCorrect' = NoTime
      /\ UNCHANGED <<received, toFuse, odometries, lidarOdomTime, imuOdomQueue, published>>
      /\ PreintegrationTypes /\ Latencies /\ QueuesWhole /\ PredictionWhole /\ FusionInOrder'
      /\ toCorrect \in Nat \ {0} /\ toCorrect <= received /\ toCorrect \in Stamps
      /\ received \in Nat /\ toCorrect # NoTime
  BY Correcting
<1>2. /\ imuQueOpt' = Consecutive(toCorrect, received)
      /\ lastImuT_opt' \in {NoTime, toCorrect - 1} /\ lastImuT_opt' \in Stamps
      /\ corrected' = toCorrect /\ prevState_' = toCorrect /\ FactorTrue'
      /\ GraphBefore[1] \in Nat \ {0} /\ keys' = 0..(GraphBefore[1] + 1) - 1
      /\ NotOlder(imuQueImu, toCorrect) = Consecutive(toCorrect, received)
      /\ LastOf(Older(imuQueImu, toCorrect), NoTime) = toCorrect - 1
  BY OptimisingKeeps
<1>3. toCorrect \in Int /\ received \in Int /\ toCorrect - 1 # NoTime
  BY <1>1 DEF NoTime
<1>4. Consecutive(toCorrect, received) # <<>>
  BY <1>1, <1>3, toCorrect <= received + 1, ConsecutiveHolds
<1>5. /\ prevStateOdom' = toCorrect
      /\ imuQueImu' = Consecutive(toCorrect, received)
      /\ integrated' = Consecutive(toCorrect, received)
      /\ deltaTij' = Duration(Consecutive(toCorrect, received), toCorrect - 1)
  BY <1>2, <1>4 DEF Repropagate
<1>6. deltaTij' = Period * (received - toCorrect + 1) /\ deltaTij' \in Nat
  <2>1. Duration(Consecutive(toCorrect, received), toCorrect - 1) =
          Period * (received - (toCorrect - 1))
    BY <1>1, <1>3, RowHolds
  <2>2. received - (toCorrect - 1) = received - toCorrect + 1 /\ received - toCorrect + 1 \in Nat
    BY <1>1
  <2>3. QED  BY <1>5, <2>1, <2>2, PreintegrationAssumption
<1>7. PreintegrationTypes'
  <2>1. key' \in Nat \ {0}
    BY <1>2
  <2>2. QED  BY <1>1, <1>2, <1>6, <2>1, NoTime \in Stamps DEF PreintegrationTypes, Stamps
<1>8. Latencies'
  BY <1>2, CorrectedInTime
<1>9. QueuesWhole'
  <2>1. Since' = toCorrect
    BY <1>1, <1>2 DEF Since
  <2>2. \E c \in 1..toCorrect : imuQueImu' = Consecutive(c, received')
    <3>1. toCorrect \in 1..toCorrect
      BY <1>1
    <3>2. QED  BY <1>1, <1>5, <3>1
  <2>3. QED  BY <1>1, <1>2, <2>1, <2>2 DEF QueuesWhole
<1>10. PredictionWhole'
  <2>1. lastImuT_imu' \in {NoTime, received'}
    BY <1>1 DEF PredictionWhole
  <2>2. keys' = 0..key' - 1
    BY <1>2
  <2>3. QED  BY <1>1, <1>2, <1>5, <1>6, <2>1, <2>2 DEF PredictionWhole
<1>11. QED  BY <1>1, <1>2, <1>7, <1>8, <1>9, <1>10 DEF LioInv

\* A correction keeps the invariant, whatever comes of it.
LEMMA CorrectionKeeps == LioInv /\ odometryHandler => LioInv'
<1> SUFFICES ASSUME LioInv, odometryHandler  PROVE LioInv'
  OBVIOUS
<1>1. CASE UNCHANGED preintegration
  BY <1>1, IgnoringKeeps
<1>2. CASE ~systemInitialized /\ Initialise
  BY <1>2, InitialisingKeeps
<1>3. CASE systemInitialized /\ Optimise /\ Fail
  BY <1>3, FailingKeeps
<1>4. CASE /\ systemInitialized /\ Optimise /\ Repropagate
           /\ key' = GraphBefore[1] + 1 /\ doneFirstOpt' = TRUE
           /\ UNCHANGED <<lastImuT_imu, systemInitialized>>
  BY <1>4, RepropagatingKeeps
<1>5. QED  BY <1>1, <1>2, <1>3, <1>4 DEF odometryHandler

\* A lidar odometry replaces the one before.
LEMMA LidarOdometryKeeps == LioInv /\ lidarOdometryHandler => LioInv'
<1> SUFFICES ASSUME LioInv, lidarOdometryHandler  PROVE LioInv'
  OBVIOUS
<1>1. /\ PreintegrationTypes /\ Latencies /\ QueuesWhole /\ PredictionWhole /\ FactorTrue
      /\ FusionInOrder
  BY DEF LioInv
<1>2. /\ lidarOdomTime' = toFuse /\ toFuse' = NoTime
      /\ UNCHANGED <<received, toCorrect, odometries, imuOdomQueue, published>>
      /\ UNCHANGED <<imuQueOpt, imuQueImu, lastImuT_opt, lastImuT_imu, systemInitialized>>
      /\ UNCHANGED <<doneFirstOpt, key, keys, prevState_, factor, corrected>>
      /\ UNCHANGED <<prevStateOdom, integrated, deltaTij>>
  BY DEF lidarOdometryHandler, preintegration, clocks, graph
<1>3. PreintegrationTypes'
  BY <1>1, <1>2, NoTime \in Stamps DEF PreintegrationTypes, Stamps
<1>4. Latencies'
  BY <1>1, <1>2 DEF Latencies
<1>5. QueuesWhole' /\ PredictionWhole' /\ FactorTrue' /\ FusionInOrder'
  BY <1>1, <1>2 DEF QueuesWhole, Since, PredictionWhole, FactorTrue, FusionInOrder, FusionHasOdometry
<1>6. QED  BY <1>1, <1>3, <1>4, <1>5 DEF LioInv

\* An IMU odometry is fused: it is later than the lidar odometry, so that the
\* queue is not empty when all that is not later has been popped.
LEMMA FusingKeeps == LioInv /\ imuOdometryHandler => LioInv'
<1> SUFFICES ASSUME LioInv, imuOdometryHandler  PROVE LioInv'
  OBVIOUS
<1>1. /\ PreintegrationTypes /\ Latencies /\ QueuesWhole /\ PredictionWhole /\ FactorTrue
      /\ FusionInOrder
  BY DEF LioInv
<1> DEFINE first == Head(odometries)
           queue == Append(imuOdomQueue, first)
           left == Left(queue)
<1>2. /\ odometries # <<>> /\ odometries' = Tail(odometries)
      /\ UNCHANGED <<received, toCorrect, toFuse, lidarOdomTime>>
      /\ \/ lidarOdomTime = NoTime /\ imuOdomQueue' = queue /\ UNCHANGED published
         \/ /\ lidarOdomTime # NoTime /\ imuOdomQueue' = left
            /\ published' = IF left = <<>> THEN <<NoTime, NoTime>> ELSE <<Head(left), Last(left)>>
  BY DEF imuOdometryHandler
<1>3. /\ UNCHANGED <<imuQueOpt, imuQueImu, lastImuT_opt, lastImuT_imu, systemInitialized>>
      /\ UNCHANGED <<doneFirstOpt, key, keys, prevState_, factor, corrected>>
      /\ UNCHANGED <<prevStateOdom, integrated, deltaTij>>
  BY DEF imuOdometryHandler, preintegration, clocks, graph
<1>4. /\ odometries \in Seq(Nat) /\ imuOdomQueue \in Seq(Nat) /\ received \in Nat
      /\ lidarOdomTime \in Stamps
  BY <1>1 DEF PreintegrationTypes
<1>5. /\ first \in Nat /\ odometries' \in Seq(Nat) /\ Len(odometries) \in Nat \ {0}
      /\ Len(odometries') = Len(odometries) - 1 /\ first = odometries[1]
      /\ \A i \in 1..Len(odometries') :
           i + 1 \in 1..Len(odometries) /\ odometries'[i] = odometries[i + 1]
  BY <1>2, <1>4, HeadTailProperties
<1>6. first <= received /\ received <= first + MaxDelay
  BY <1>1, <1>5, 1 \in 1..Len(odometries) DEF Latencies
<1>7. /\ queue \in Seq(Nat) /\ Len(queue) = Len(imuOdomQueue) + 1 /\ Len(imuOdomQueue) \in Nat
      /\ queue[Len(imuOdomQueue) + 1] = first
      /\ \A i \in 1..Len(imuOdomQueue) : queue[i] = imuOdomQueue[i]
  BY <1>4, <1>5, AppendProperties, LenProperties
<1> HIDE DEF queue, first
<1>8. /\ \A i \in 1..Len(queue) : queue[i] \in Nat /\ queue[i] <= received
      /\ \A i, j \in 1..Len(queue) : i <= j => queue[i] <= queue[j]
      /\ \A i \in 1..Len(queue), j \in 1..Len(odometries') : queue[i] <= odometries'[j]
  <2>0. \A i \in 1..Len(queue) : \/ i \in 1..Len(imuOdomQueue) /\ queue[i] = imuOdomQueue[i]
                                 \/ i = Len(imuOdomQueue) + 1 /\ queue[i] = first
    BY <1>7
  <2>1. \A i \in 1..Len(queue) : queue[i] \in Nat /\ queue[i] <= received
    <3>1. \A i \in 1..Len(imuOdomQueue) : imuOdomQueue[i] \in Nat /\ imuOdomQueue[i] <= received
      BY <1>1, <1>4 DEF Latencies
    <3>2. QED  BY <1>5, <1>6, <2>0, <3>1
  <2>2. \A i \in 1..Len(imuOdomQueue) : imuOdomQueue[i] <= first /\ imuOdomQueue[i] \in Nat
    BY <1>1, <1>4, <1>5, 1 \in 1..Len(odometries) DEF FusionInOrder
  <2>3. ASSUME NEW i \in 1..Len(queue), NEW j \in 1..Len(queue), i <= j
        PROVE  queue[i] <= queue[j]
    <3>1. CASE j \in 1..Len(imuOdomQueue) /\ queue[j] = imuOdomQueue[j]
      <4>1. i # Len(imuOdomQueue) + 1
        BY <1>7, <2>3, <3>1
      <4>2. i \in 1..Len(imuOdomQueue) /\ queue[i] = imuOdomQueue[i]
        BY <2>0, <4>1
      <4>3. QED  BY <1>1, <2>3, <3>1, <4>2 DEF FusionInOrder
    <3>2. CASE queue[j] = first
      BY <1>5, <2>0, <2>2, <3>2
    <3>3. QED  BY <2>0, <3>1, <3>2
  <2>4. ASSUME NEW i \in 1..Len(queue), NEW j \in 1..Len(odometries')
        PROVE  queue[i] <= odometries'[j]
    <3>1. j + 1 \in 1..Len(odometries) /\ odometries'[j] = odometries[j + 1]
      BY <1>5
    <3>2. CASE i \in 1..Len(imuOdomQueue) /\ queue[i] = imuOdomQueue[i]
      BY <1>1, <3>1, <3>2 DEF FusionInOrder
    <3>3. CASE queue[i] = first
      <4>1. 1 \in 1..Len(odometries) /\ 1 <= j + 1
        BY <1>5
      <4>2. QED  BY <1>1, <1>5, <3>1, <3>3, <4>1 DEF FusionInOrder
    <3>4. QED  BY <2>0, <3>2, <3>3
  <2>5. QED  BY <2>1, <2>3, <2>4
<1> DEFINE n == Popped(queue, lidarOdomTime + 1)
<1>9. ASSUME lidarOdomTime # NoTime
      PROVE  /\ left \in Seq(Nat) /\ left # <<>> /\ n \in 0..Len(queue) /\ n \in Nat
             /\ Len(left) = Len(queue) - n /\ Len(left) \in Nat \ {0}
             /\ \A i \in 1..Len(left) : n + i \in 1..Len(queue) /\ left[i] = queue[n + i]
  <2>1. lidarOdomTime \in Nat /\ lidarOdomTime + 1 \in Int /\ lidarOdomTime + MinLatency <= received
    BY <1>1, <1>4, <1>9 DEF Latencies, Stamps
  <2>2. queue \in Seq(Int)
    BY <1>7
  <2>3. n \in 0..Len(queue) /\ \A i \in 1..n : queue[i] < lidarOdomTime + 1
    BY <2>1, <2>2, PoppedHolds
  <2> HIDE DEF n
  <2>4. first > lidarOdomTime
    BY <1>4, <1>5, <1>6, <2>1, PreintegrationAssumption
  <2>5. n # Len(queue)
    <3> SUFFICES ASSUME n = Len(queue)  PROVE FALSE
      OBVIOUS
    <3>1. Len(imuOdomQueue) + 1 \in 1..n
      BY <1>7, <2>3
    <3>2. first < lidarOdomTime + 1
      BY <1>7, <2>3, <3>1
    <3>3. QED  BY <1>5, <2>1, <2>4, <3>2
  <2>6. left = SubSeq(queue, n + 1, Len(queue))
    BY DEF Left, NotOlder, n
  <2> HIDE DEF left
  <2>7. /\ left \in Seq(Nat) /\ Len(left) = Len(queue) - n
        /\ \A i \in 1..Len(queue) - n : left[i] = queue[n + i]
    BY <1>7, <2>3, <2>6, SubSeqProperties
  <2>8. n \in Nat /\ Len(queue) \in Nat /\ Len(left) \in Nat \ {0}
    BY <1>7, <2>3, <2>5, <2>7
  <2>9. left # <<>>
    BY <2>8
  <2>10. QED  BY <2>3, <2>7, <2>8, <2>9
<1> HIDE DEF left, n
<1>10. \E m \in Nat :
         /\ imuOdomQueue' \in Seq(Nat) /\ Len(imuOdomQueue') \in Nat
         /\ \A i \in 1..Len(imuOdomQueue') :
              m + i \in 1..Len(queue) /\ imuOdomQueue'[i] = queue[m + i]
  <2>1. CASE lidarOdomTime = NoTime
    <3>1. /\ queue \in Seq(Nat) /\ Len(queue) \in Nat /\ imuOdomQueue' = queue
          /\ \A i \in 1..Len(queue) : 0 + i \in 1..Len(queue) /\ queue[i] = queue[0 + i]
      BY <1>2, <1>7, <2>1
    <3>2. /\ imuOdomQueue' \in Seq(Nat) /\ Len(imuOdomQueue') \in Nat
          /\ \A i \in 1..Len(imuOdomQueue') :
               0 + i \in 1..Len(queue) /\ imuOdomQueue'[i] = queue[0 + i]
      BY <3>1
    <3>3. QED  BY <3>2, 0 \in Nat
  <2>2. CASE lidarOdomTime # NoTime
    BY <1>2, <1>9, <2>2
  <2>3. QED  BY <2>1, <2>2
<1>11. PICK m \in Nat :
         /\ imuOdomQueue' \in Seq(Nat) /\ Len(imuOdomQueue') \in Nat
         /\ \A i \in 1..Len(imuOdomQueue') :
              m + i \in 1..Len(queue) /\ imuOdomQueue'[i] = queue[m + i]
  BY <1>10
<1>12. FusionHasOdometry'
  <2>1. CASE lidarOdomTime = NoTime
    BY <1>1, <1>2, <2>1 DEF FusionInOrder, FusionHasOdometry
  <2>2. CASE lidarOdomTime # NoTime
    <3>1. 1 \in 1..Len(left) /\ Len(left) \in 1..Len(left) /\ 1 <= Len(left)
      BY <1>9, <2>2
    <3>2. /\ left[1] = queue[n + 1] /\ left[Len(left)] = queue[n + Len(left)]
          /\ n + 1 \in 1..Len(queue) /\ n + Len(left) \in 1..Len(queue) /\ n + 1 <= n + Len(left)
      BY <1>9, <2>2, <3>1
    <3>3. left[1] \in Nat /\ left[1] <= left[Len(left)]
      BY <1>8, <3>2
    <3>4. published' = <<left[1], left[Len(left)]>>
      <4>1. Head(left) = left[1] /\ Last(left) = left[Len(left)]
        BY <1>9, <2>2 DEF Last
      <4>2. QED  BY <1>2, <1>9, <2>2, <4>1
    <3>5. QED  BY <3>3, <3>4 DEF FusionHasOdometry, NoTime
  <2>3. QED  BY <2>1, <2>2
<1>13. FusionInOrder'
  <2>1. ASSUME NEW i \in 1..Len(odometries'), NEW j \in 1..Len(odometries'), i <= j
        PROVE  odometries'[i] <= odometries'[j]
    <3>1. /\ i + 1 \in 1..Len(odometries) /\ odometries'[i] = odometries[i + 1]
          /\ j + 1 \in 1..Len(odometries) /\ odometries'[j] = odometries[j + 1]
      BY <1>5
    <3>2. i + 1 <= j + 1
      BY <1>5, <2>1
    <3>3. QED  BY <1>1, <3>1, <3>2 DEF FusionInOrder
  <2>2. ASSUME NEW i \in 1..Len(imuOdomQueue'), NEW j \in 1..Len(imuOdomQueue'), i <= j
        PROVE  imuOdomQueue'[i] <= imuOdomQueue'[j]
    <3>1. /\ m + i \in 1..Len(queue) /\ imuOdomQueue'[i] = queue[m + i]
          /\ m + j \in 1..Len(queue) /\ imuOdomQueue'[j] = queue[m + j]
      BY <1>11
    <3>2. m + i <= m + j
      BY <1>11, <2>2
    <3>3. queue[m + i] <= queue[m + j]
      BY <1>8, <3>1, <3>2
    <3>4. QED  BY <3>1, <3>3
  <2>3. ASSUME NEW i \in 1..Len(imuOdomQueue'), NEW j \in 1..Len(odometries')
        PROVE  imuOdomQueue'[i] <= odometries'[j]
    BY <1>8, <1>11
  <2>4. QED  BY <1>12, <2>1, <2>2, <2>3 DEF FusionInOrder
<1>14. PreintegrationTypes'
  BY <1>1, <1>2, <1>3, <1>5, <1>11 DEF PreintegrationTypes
<1>15. Latencies'
  <2>1. \A i \in 1..Len(imuOdomQueue') : imuOdomQueue'[i] <= received'
    BY <1>2, <1>8, <1>11
  <2>2. \A i \in 1..Len(odometries') :
          odometries'[i] <= received' /\ received' <= odometries'[i] + MaxDelay
    BY <1>1, <1>2, <1>5 DEF Latencies
  <2>3. QED  BY <1>1, <1>2, <1>3, <2>1, <2>2 DEF Latencies
<1>16. QueuesWhole' /\ PredictionWhole' /\ FactorTrue'
  BY <1>1, <1>2, <1>3 DEF QueuesWhole, Since, PredictionWhole, FactorTrue
<1>17. QED  BY <1>13, <1>14, <1>15, <1>16 DEF LioInv

\* Every step keeps the invariant.
LEMMA PreintegrationStep == LioInv /\ [PreintegrationNext]_lioVars => LioInv'
<1> SUFFICES ASSUME LioInv, [PreintegrationNext]_lioVars  PROVE LioInv'
  OBVIOUS
<1>1. CASE imuHandler
  BY <1>1, MessageKeeps
<1>2. ASSUME NEW latency \in MinLatency..MaxLatency, Map(received - latency)
      PROVE  LioInv'
  BY <1>2, MappingKeeps
<1>3. CASE odometryHandler
  BY <1>3, CorrectionKeeps
<1>4. CASE lidarOdometryHandler
  BY <1>4, LidarOdometryKeeps
<1>5. CASE imuOdometryHandler
  BY <1>5, FusingKeeps
<1>6. CASE UNCHANGED lioVars
  <2>1. /\ UNCHANGED <<received, toCorrect, toFuse, odometries, lidarOdomTime, imuOdomQueue>>
        /\ UNCHANGED <<imuQueOpt, imuQueImu, lastImuT_opt, lastImuT_imu, systemInitialized>>
        /\ UNCHANGED <<doneFirstOpt, key, keys, prevState_, factor, corrected, published>>
        /\ UNCHANGED <<prevStateOdom, integrated, deltaTij>>
    BY <1>6 DEF lioVars, links, preintegration, clocks, graph, fusion
  <2>2. QED  BY <2>1 DEF LioInv, PreintegrationTypes, Latencies, QueuesWhole, Since,
                    PredictionWhole, FactorTrue, FusionInOrder, FusionHasOdometry
<1>7. QED  BY <1>1, <1>2, <1>3, <1>4, <1>5, <1>6 DEF PreintegrationNext

\* Odometry between two corrections is exact: the prediction is over every
\* message since the last one, once, and as long as they; factors join
\* corrections over the messages between them and keys the graph has; and the
\* pose is moved on from IMU odometry later than the lidar's (imuHandler,
\* odometryHandler, imuOdometryHandler).
THEOREM OdometryIsExact == PreintegrationSpec => []OdometryExact
<1>1. LioInv => OdometryExact
  <2> SUFFICES ASSUME LioInv  PROVE OdometryExact
    OBVIOUS
  <2>1. PreintegrationTypes /\ Latencies /\ PredictionWhole /\ FactorTrue /\ FusionHasOdometry
    BY DEF LioInv, FusionInOrder
  <2>2. PredictionComplete
    <3> SUFFICES ASSUME doneFirstOpt
                 PROVE  /\ prevStateOdom = corrected
                        /\ integrated = Consecutive(corrected, received)
                        /\ AsLong(deltaTij, Len(integrated))
      BY DEF PredictionComplete
    <3>1. /\ prevStateOdom = corrected /\ integrated = Consecutive(corrected, received)
          /\ corrected \in 1..received
          /\ \/ deltaTij = Period * (received - corrected + 1)
             \/ deltaTij = Period * (received - corrected) + DefaultStep
      BY <2>1 DEF PredictionWhole, Latencies
    <3> DEFINE n == received - corrected + 1
    <3>2. /\ received \in Int /\ corrected \in Int /\ corrected <= received + 1
          /\ n \in Nat \ {0} /\ received - corrected = n - 1 /\ deltaTij \in Int
      BY <2>1, <3>1 DEF PreintegrationTypes
    <3>3. Len(integrated) = n
      BY <3>1, <3>2, ConsecutiveHolds
    <3> HIDE DEF n
    <3>4. deltaTij = Period * n \/ deltaTij = Period * (n - 1) + DefaultStep
      BY <3>1, <3>2 DEF n
    <3>5. AsLong(deltaTij, n)
      BY <3>2, <3>4, AsLongIs
    <3>6. QED  BY <3>1, <3>3, <3>5
  <2>3. FactorsExact
    BY <2>1 DEF FactorTrue, PredictionWhole, FactorsExact
  <2>4. QED  BY <2>1, <2>2, <2>3 DEF OdometryExact
<1>2. QED  BY <1>1, PreintegrationBegins, PreintegrationStep, PTL DEF PreintegrationSpec
-----------------------------------------------------------------------------
\* The messages are one period apart, and a scan that is being projected begins
\* at its cloud's stamp.
ProjectionInv ==
  /\ imuQueue \in Seq(Nat) /\ imuQueue # <<>>
  /\ \A i \in 1..Len(imuQueue) - 1 : imuQueue[i + 1] = imuQueue[i] + ImuPeriod
  /\ cloudQueue \in Seq(Nat) /\ scans \in Nat /\ cloudHeader \in Nat
  /\ timeScanCur \in Nat /\ timeScanEnd \in Nat
  /\ projecting => timeScanCur = cloudHeader /\ timeScanEnd = cloudHeader + ScanTime
  /\ Deskewed

\* A scan that is stamped at its start lasts from its stamp on.
LEMMA SpanFromStamp ==
  ASSUME StampedAt = 0, NEW stamp \in Nat
  PROVE  LET begins == (stamp - StampedAt) - stamp
             ends == (stamp - StampedAt + ScanTime) - stamp
         IN  /\ stamp + (IF begins < 0 THEN begins ELSE 0) = stamp
             /\ stamp + (IF begins < 0 THEN 0 ELSE ends) = stamp + ScanTime
<1>1. (stamp - StampedAt) - stamp = 0 /\ (stamp - StampedAt + ScanTime) - stamp = ScanTime
  BY ProjectionAssumption
<1>2. QED  BY <1>1, ProjectionAssumption

\* A loop from the front ends as where messages are popped.
LEMMA BeforeHolds ==
  ASSUME NEW queue \in Seq(Nat), NEW time \in Int
  PROVE  /\ Before(queue, time) \in 0..Len(queue)
         /\ \A i \in 1..Before(queue, time) : queue[i] < time
         /\ Before(queue, time) < Len(queue) => queue[Before(queue, time) + 1] >= time
<1>1. queue \in Seq(Int)
  OBVIOUS
<1>2. Before(queue, time) = Popped(queue, time)
  BY Zenon DEF Before, Popped
<1>3. QED  BY <1>1, <1>2, PoppedHolds

\* What is left of the queue reaches to the scan's start, and what is
\* integrated over to its end.
LEMMA ScanIsCovered ==
  ASSUME ProjectionInv, projecting, ImuCoversScan, imuDeskewInfo
  PROVE  /\ imuQueue' \in Seq(Nat) /\ imuQueue' # <<>>
         /\ \A i \in 1..Len(imuQueue') - 1 : imuQueue'[i + 1] = imuQueue'[i] + ImuPeriod
         /\ imuTime' \in Seq(Nat) /\ Len(imuTime') \in Nat \ {0}
         /\ imuTime'[1] <= timeScanCur /\ timeScanEnd <= imuTime'[Len(imuTime')]
<1>1. /\ imuQueue \in Seq(Nat) /\ imuQueue # <<>>
      /\ \A i \in 1..Len(imuQueue) - 1 : imuQueue[i + 1] = imuQueue[i] + ImuPeriod
      /\ timeScanCur \in Nat /\ timeScanEnd \in Nat /\ timeScanEnd = timeScanCur + ScanTime
  BY DEF ProjectionInv
<1>2. /\ ImuPeriod \in Nat \ {0} /\ Margin \in Nat /\ Margin >= ImuPeriod /\ ScanTime \in Nat
  BY ProjectionAssumption
<1>3. /\ Len(imuQueue) \in Nat \ {0} /\ imuQueue[1] <= timeScanCur
      /\ imuQueue[Len(imuQueue)] >= timeScanEnd
      /\ \A i \in 1..Len(imuQueue) : imuQueue[i] \in Nat
  BY <1>1 DEF ImuCoversScan, Last
<1> DEFINE n == Before(imuQueue, timeScanCur - Margin)
<1>4. /\ n \in 0..Len(imuQueue) /\ \A i \in 1..n : imuQueue[i] < timeScanCur - Margin
      /\ n < Len(imuQueue) => imuQueue[n + 1] >= timeScanCur - Margin
  BY <1>1, <1>2, timeScanCur - Margin \in Int, BeforeHolds
<1>5. imuQueue' = SubSeq(imuQueue, n + 1, Len(imuQueue))
  BY DEF imuDeskewInfo, PopOlder
<1> HIDE DEF n
<1>6. n # Len(imuQueue)
  <2> SUFFICES ASSUME n = Len(imuQueue)  PROVE FALSE
    OBVIOUS
  <2>1. Len(imuQueue) \in 1..n
    BY <1>3
  <2>2. imuQueue[Len(imuQueue)] < timeScanCur - Margin
    BY <1>4, <2>1
  <2>3. imuQueue[Len(imuQueue)] \in Nat
    BY <1>3
  <2>4. QED  BY <1>1, <1>2, <1>3, <2>2, <2>3
<1>7. /\ imuQueue' \in Seq(Nat) /\ Len(imuQueue') = Len(imuQueue) - n
      /\ \A i \in 1..Len(imuQueue) - n : imuQueue'[i] = imuQueue[n + i]
  BY <1>1, <1>3, <1>4, <1>5, SubSeqProperties
<1>8. n \in Nat /\ Len(imuQueue') \in Nat \ {0} /\ n + 1 \in 1..Len(imuQueue)
  BY <1>3, <1>4, <1>6, <1>7
<1>9. imuQueue'[1] <= timeScanCur
  <2>1. imuQueue'[1] = imuQueue[n + 1]
    BY <1>7, <1>8
  <2>2. CASE n = 0
    BY <1>3, <2>1, <2>2
  <2>3. CASE n # 0
    <3>1. n \in 1..Len(imuQueue) - 1 /\ n \in 1..n /\ n \in 1..Len(imuQueue)
      BY <1>3, <1>8, <2>3
    <3>2. imuQueue[n] < timeScanCur - Margin /\ imuQueue[n + 1] = imuQueue[n] + ImuPeriod
      BY <1>1, <1>4, <3>1
    <3>3. imuQueue[n] \in Nat
      BY <1>3, <3>1
    <3>4. QED  BY <1>1, <1>2, <2>1, <3>2, <3>3
  <2>4. QED  BY <2>2, <2>3
<1>10. ASSUME NEW i \in 1..Len(imuQueue') - 1
       PROVE  imuQueue'[i + 1] = imuQueue'[i] + ImuPeriod
  <2>1. /\ n + i \in 1..Len(imuQueue) - 1 /\ n + (i + 1) = (n + i) + 1
        /\ i \in 1..Len(imuQueue) - n /\ i + 1 \in 1..Len(imuQueue) - n
    BY <1>3, <1>7, <1>8
  <2>2. imuQueue'[i] = imuQueue[n + i] /\ imuQueue'[i + 1] = imuQueue[(n + i) + 1]
    BY <1>7, <2>1
  <2>3. QED  BY <1>1, <2>1, <2>2
<1>11. imuQueue'[Len(imuQueue')] >= timeScanEnd
  <2>1. Len(imuQueue') \in 1..Len(imuQueue) - n /\ n + Len(imuQueue') = Len(imuQueue)
    BY <1>3, <1>7, <1>8
  <2>2. QED  BY <1>3, <1>7, <2>1
<1> DEFINE m == Before(imuQueue', timeScanEnd + Margin + 1)
           queue == imuQueue'
<1> HIDE DEF queue
<1>12. /\ m \in 0..Len(queue)
       /\ m < Len(queue) => queue[m + 1] >= timeScanEnd + Margin + 1
  <2>1. queue \in Seq(Nat) /\ timeScanEnd + Margin + 1 \in Int
    BY <1>1, <1>2, <1>7 DEF queue
  <2>2. QED  BY <2>1, BeforeHolds DEF queue
<1>13. imuTime' = SubSeq(queue, 1, m)
  BY DEF imuDeskewInfo, queue
<1> HIDE DEF m
<1>14. /\ queue \in Seq(Nat) /\ Len(queue) \in Nat \ {0} /\ queue[1] <= timeScanCur
       /\ queue[Len(queue)] >= timeScanEnd
       /\ \A i \in 1..Len(queue) - 1 : queue[i + 1] = queue[i] + ImuPeriod
       /\ \A i \in 1..Len(queue) : queue[i] \in Nat
  <2>1. queue \in Seq(Nat) /\ Len(queue) \in Nat \ {0}
    BY <1>7, <1>8 DEF queue
  <2>2. \A i \in 1..Len(queue) : queue[i] \in Nat
    BY <2>1
  <2>3. QED  BY <1>9, <1>10, <1>11, <2>1, <2>2, Zenon DEF queue
<1>15. m # 0
  <2> SUFFICES ASSUME m = 0  PROVE FALSE
    OBVIOUS
  <2>1. queue[1] >= timeScanEnd + Margin + 1 /\ queue[1] \in Nat
    BY <1>12, <1>14
  <2>2. QED  BY <1>1, <1>2, <1>14, <2>1
<1>16. m \in Nat \ {0} /\ m \in 1..Len(queue) /\ 1 \in 1..m /\ m \in 1..m
  BY <1>12, <1>14, <1>15
<1>17. imuTime' \in Seq(Nat) /\ Len(imuTime') = m /\ \A i \in 1..m : imuTime'[i] = queue[i]
  BY <1>13, <1>14, <1>16, SubSeqProperties
<1>18. timeScanEnd <= queue[m]
  <2>1. CASE m = Len(queue)
    BY <1>14, <2>1
  <2>2. CASE m # Len(queue)
    <3>1. m \in 1..Len(queue) - 1 /\ m < Len(queue)
      BY <1>14, <1>16, <2>2
    <3>2. queue[m + 1] >= timeScanEnd + Margin + 1 /\ queue[m + 1] = queue[m] + ImuPeriod
      BY <1>12, <1>14, <3>1
    <3>3. queue[m] \in Nat
      BY <1>14, <1>16
    <3>4. QED  BY <1>1, <1>2, <3>2, <3>3
  <2>3. QED  BY <2>1, <2>2
<1>19. imuTime'[1] <= timeScanCur /\ timeScanEnd <= imuTime'[Len(imuTime')]
  BY <1>14, <1>16, <1>17, <1>18
<1>20. QED  BY <1>7, <1>8, <1>10, <1>14, <1>16, <1>17, <1>19 DEF queue

\* The search ends between the two messages that a time lies between.
LEMMA RotationHolds ==
  ASSUME NEW time \in Int, imuTime' \in Seq(Nat), Len(imuTime') > 1,
         imuTime'[1] <= time, time <= imuTime'[Len(imuTime')]
  PROVE  findRotation(time)[1] <= time /\ time <= findRotation(time)[2]
<1> DEFINE times == imuTime'
           last == Len(times)
           later == {i \in 1..last - 1 : time < times[i]}
           front == IF later = {} THEN last ELSE CHOOSE i \in later : \A j \in later : i <= j
<1>1. findRotation(time) = IF time > times[front] \/ front = 1 THEN <<times[front], times[front]>>
                           ELSE <<times[front - 1], times[front]>>
  BY DEF findRotation
<1>2. /\ last \in Nat /\ last > 1 /\ times[1] <= time /\ time <= times[last]
      /\ \A i \in 1..last : times[i] \in Nat
  OBVIOUS
<1> HIDE DEF times, last
<1>3. /\ front \in 2..last /\ time <= times[front] /\ times[front - 1] <= time
  <2>1. CASE later = {}
    <3>1. front = last /\ last - 1 \in 1..last - 1 /\ last - 1 \notin later
      BY <1>2, <2>1
    <3>2. ~(time < times[last - 1]) /\ times[last - 1] \in Nat
      BY <1>2, <3>1
    <3>3. last \in 2..last /\ time <= times[last] /\ times[last - 1] <= time
      BY <1>2, <3>2
    <3> HIDE DEF front
    <3>4. QED  BY <3>1, <3>3
  <2>2. CASE later # {}
    <3>1. later \in SUBSET Nat
      BY <1>2
    <3>2. /\ Min(later) \in later /\ \A y \in later : Min(later) <= y
      BY <2>2, <3>1, MinIs
    <3>3. front \in later /\ \A j \in later : front <= j
      <4> HIDE DEF later
      <4>1. QED  BY <2>2, <3>2
    <3> HIDE DEF front
    <3>4. front \in 1..last - 1 /\ time < times[front] /\ times[front] \in Nat
      BY <1>2, <3>3
    <3>5. front # 1
      BY <1>2, <3>4
    <3>6. front - 1 \in 1..last - 1 /\ front - 1 \notin later /\ times[front - 1] \in Nat
      <4>1. front - 1 \in 1..last - 1 /\ ~(front <= front - 1) /\ front - 1 \in 1..last
        BY <1>2, <3>4, <3>5
      <4>2. QED  BY <1>2, <3>3, <4>1
    <3>7. ~(time < times[front - 1])
      BY <3>6
    <3>8. times[front - 1] <= time /\ time <= times[front] /\ front \in 2..last
      <4>1. front \in 2..last
        BY <1>2, <3>4, <3>5
      <4>2. QED  BY <3>4, <3>6, <3>7, <4>1
    <3>9. QED  BY <3>8
  <2>3. QED  BY <2>1, <2>2
<1> HIDE DEF front
<1>4. front # 1 /\ ~(time > times[front])
  BY <1>2, <1>3
<1>5. findRotation(time) = <<times[front - 1], times[front]>>
  BY <1>1, <1>4
<1>6. QED  BY <1>3, <1>5

\* Every point of a projected scan is turned by the rotation of its time.
LEMMA ProjectingDeskews ==
  ASSUME StampedAt = 0, ProjectionInv, Project
  PROVE  ProjectionInv'
<1>1. /\ projecting /\ ~projecting' /\ UNCHANGED <<scans, cloudQueue, cloudHeader>>
      /\ UNCHANGED <<timeScanCur, timeScanEnd>>
  BY DEF Project, scan
<1>2. /\ cloudQueue' \in Seq(Nat) /\ scans' \in Nat /\ cloudHeader' \in Nat
      /\ timeScanCur' \in Nat /\ timeScanEnd' \in Nat
      /\ timeScanCur = cloudHeader /\ timeScanEnd = cloudHeader + ScanTime /\ cloudHeader \in Nat
  BY <1>1 DEF ProjectionInv
<1>3. CASE UNCHANGED imuQueue /\ UNCHANGED infos
  BY <1>1, <1>2, <1>3 DEF ProjectionInv, Deskewed, infos
<1>4. CASE /\ ImuCoversScan /\ imuDeskewInfo
           /\ rotations' =
                  IF Len(imuTime') <= 1 THEN {}
                  ELSE {deskewPoint(cloudHeader - StampedAt + tick) : tick \in 0..ScanTime}
  <2>1. /\ imuQueue' \in Seq(Nat) /\ imuQueue' # <<>>
        /\ \A i \in 1..Len(imuQueue') - 1 : imuQueue'[i + 1] = imuQueue'[i] + ImuPeriod
        /\ imuTime' \in Seq(Nat) /\ Len(imuTime') \in Nat \ {0}
        /\ imuTime'[1] <= timeScanCur /\ timeScanEnd <= imuTime'[Len(imuTime')]
    BY <1>1, <1>4, ScanIsCovered
  <2>2. ASSUME NEW point \in rotations'
        PROVE  point.between[1] <= point.captured /\ point.captured <= point.between[2]
    <3>1. Len(imuTime') > 1
      BY <1>4, <2>1, <2>2
    <3>2. PICK tick \in 0..ScanTime : point = deskewPoint(cloudHeader - StampedAt + tick)
      BY <1>4, <2>1, <2>2, <3>1
    <3> DEFINE captured == cloudHeader - StampedAt + tick
    <3>3. /\ captured \in Int /\ timeScanCur + (captured - cloudHeader) = captured
          /\ timeScanCur <= captured /\ captured <= timeScanEnd
      BY <1>2, ProjectionAssumption
    <3>4. point.captured = captured /\ point.between = findRotation(captured)
      BY <3>2, <3>3 DEF deskewPoint, Relative
    <3> HIDE DEF captured
    <3>5. imuTime'[1] <= captured /\ captured <= imuTime'[Len(imuTime')]
      <4> DEFINE first == imuTime'[1]
                 last == imuTime'[Len(imuTime')]
      <4>1. first \in Nat /\ last \in Nat /\ first <= timeScanCur /\ timeScanEnd <= last
        BY <2>1
      <4>2. timeScanCur \in Int /\ timeScanEnd \in Int
        BY <1>2, ProjectionAssumption
      <4> HIDE DEF first, last
      <4>3. first <= captured /\ captured <= last
        BY <3>3, <4>1, <4>2
      <4>4. QED  BY <4>3 DEF first, last
    <3>6. QED  BY <2>1, <3>1, <3>3, <3>4, <3>5, RotationHolds
  <2>3. Deskewed'
    BY <2>2 DEF Deskewed
  <2>4. QED  BY <1>1, <1>2, <2>1, <2>3 DEF ProjectionInv
<1>5. QED  BY <1>3, <1>4 DEF Project

LEMMA ProjectionStep ==
  ASSUME StampedAt = 0, ProjectionInv, [ProjectionNext]_projectionVars
  PROVE  ProjectionInv'
<1>1. CASE ImuArrives
  <2> DEFINE next == Last(imuQueue) + ImuPeriod
  <2>1. /\ imuQueue' = Append(imuQueue, next)
        /\ UNCHANGED <<scans, cloudQueue, projecting, cloudHeader, timeScanCur, timeScanEnd, rotations>>
    BY <1>1 DEF ImuArrives, scan, infos
  <2>2. /\ imuQueue \in Seq(Nat) /\ Len(imuQueue) \in Nat \ {0}
        /\ next = imuQueue[Len(imuQueue)] + ImuPeriod /\ next \in Nat
    BY ProjectionAssumption DEF ProjectionInv, Last
  <2> HIDE DEF next
  <2>3. /\ imuQueue' \in Seq(Nat) /\ Len(imuQueue') = Len(imuQueue) + 1
        /\ imuQueue'[Len(imuQueue) + 1] = next
        /\ \A i \in 1..Len(imuQueue) : imuQueue'[i] = imuQueue[i]
    BY <2>1, <2>2, AppendProperties
  <2>4. imuQueue' # <<>>
    BY <2>2, <2>3
  <2>5. ASSUME NEW i \in 1..Len(imuQueue') - 1
        PROVE  imuQueue'[i + 1] = imuQueue'[i] + ImuPeriod
    <3>1. i \in 1..Len(imuQueue) /\ imuQueue'[i] = imuQueue[i]
      BY <2>2, <2>3
    <3>2. CASE i = Len(imuQueue)
      BY <2>2, <2>3, <3>1, <3>2
    <3>3. CASE i # Len(imuQueue)
      <4>1. i \in 1..Len(imuQueue) - 1 /\ i + 1 \in 1..Len(imuQueue)
        BY <2>2, <3>1, <3>3
      <4>2. imuQueue[i + 1] = imuQueue[i] + ImuPeriod
        BY <4>1 DEF ProjectionInv
      <4>3. QED  BY <2>3, <3>1, <4>1, <4>2
    <3>4. QED  BY <3>2, <3>3
  <2>6. QED  BY <2>1, <2>3, <2>4, <2>5 DEF ProjectionInv, Deskewed
<1>2. CASE OdometryArrives
  BY <1>2 DEF OdometryArrives, scan, infos, ProjectionInv, Deskewed
<1>3. ASSUME NEW lost \in BOOLEAN, CloudArrives(lost)
      PROVE  ProjectionInv'
  <2> DEFINE stamp == scans * ScanTime + StampedAt
             waiting == IF lost THEN cloudQueue ELSE Append(cloudQueue, stamp)
             taken == Head(waiting)
  <2>1. stamp \in Nat
    <3>1. scans * ScanTime \in Nat
      BY ProjectionAssumption DEF ProjectionInv
    <3>2. QED  BY <3>1
  <2>2. waiting \in Seq(Nat)
    <3> HIDE DEF stamp
    <3>1. cloudQueue \in Seq(Nat) /\ Append(cloudQueue, stamp) \in Seq(Nat)
      BY <2>1, AppendProperties DEF ProjectionInv
    <3>2. QED  BY <3>1
  <2>3. /\ scans' = scans + 1 /\ UNCHANGED <<imuQueue, rotations>>
        /\ \/ cloudQueue' = waiting /\ UNCHANGED <<projecting, cloudHeader, timeScanCur, timeScanEnd>>
           \/ /\ Len(waiting) > 2 /\ cloudQueue' = Tail(waiting) /\ cloudHeader' = taken
              /\ timeScanCur' = cloudHeader' +
                     (IF (taken - StampedAt) - taken < 0 THEN (taken - StampedAt) - taken ELSE 0)
              /\ timeScanEnd' = cloudHeader' +
                     (IF (taken - StampedAt) - taken < 0 THEN 0
                      ELSE (taken - StampedAt + ScanTime) - taken)
    BY <1>3 DEF CloudArrives, Relative, scan, infos
  <2> HIDE DEF waiting
  <2>4. CASE cloudQueue' = waiting /\ UNCHANGED <<projecting, cloudHeader, timeScanCur, timeScanEnd>>
    BY <2>2, <2>3, <2>4 DEF ProjectionInv, Deskewed
  <2>5. CASE Len(waiting) > 2 /\ cloudQueue' = Tail(waiting) /\ cloudHeader' = taken
    <3>1. taken \in Nat /\ Tail(waiting) \in Seq(Nat)
      BY <2>2, <2>5, HeadTailProperties
    <3> HIDE DEF taken
    <3>2. CASE /\ timeScanCur' = cloudHeader' +
                     (IF (taken - StampedAt) - taken < 0 THEN (taken - StampedAt) - taken ELSE 0)
               /\ timeScanEnd' = cloudHeader' +
                     (IF (taken - StampedAt) - taken < 0 THEN 0
                      ELSE (taken - StampedAt + ScanTime) - taken)
      <4>1. timeScanCur' = cloudHeader' /\ timeScanEnd' = cloudHeader' + ScanTime
        BY <2>5, <3>1, <3>2, SpanFromStamp
      <4>2. cloudHeader' \in Nat /\ timeScanEnd' \in Nat
        BY <2>5, <3>1, <4>1, ProjectionAssumption
      <4>3. QED  BY <2>3, <2>5, <3>1, <4>1, <4>2 DEF ProjectionInv, Deskewed
    <3>3. CASE UNCHANGED <<projecting, cloudHeader, timeScanCur, timeScanEnd>> /\ cloudQueue' = waiting
      BY <2>4, <3>3
    <3>4. QED  BY <2>3, <3>2, <3>3
  <2>6. QED  BY <2>3, <2>4, <2>5
<1>4. CASE Project
  BY <1>4, ProjectingDeskews
<1>5. CASE UNCHANGED projectionVars
  BY <1>5 DEF projectionVars, queues, scan, infos, ProjectionInv, Deskewed
<1>6. QED  BY <1>1, <1>2, <1>3, <1>4, <1>5 DEF ProjectionNext

\* Where clouds are stamped at their start, every point is turned by the
\* rotation of the time it was captured at: it lies between the two IMU
\* messages its rotation is taken between, for every period and scan time and
\* whatever clouds are lost (deskewPoint, findRotation, imuDeskewInfo).
THEOREM PointsAreDeskewed ==
  ASSUME StampedAt = 0
  PROVE  ProjectionSpec => []Deskewed
<1>1. ProjectionInit => ProjectionInv
  <2> SUFFICES ASSUME ProjectionInit  PROVE ProjectionInv
    OBVIOUS
  <2>1. PICK phase \in 0..ImuPeriod - 1 : imuQueue = <<phase>>
    BY DEF ProjectionInit
  <2>2. phase \in Nat
    BY ProjectionAssumption
  <2>3. imuQueue \in Seq(Nat) /\ imuQueue # <<>> /\ Len(imuQueue) = 1
    BY <2>1, <2>2
  <2>4. \A i \in 1..Len(imuQueue) - 1 : imuQueue[i + 1] = imuQueue[i] + ImuPeriod
    BY <2>3
  <2>5. cloudQueue \in Seq(Nat) /\ Deskewed
    BY EmptySeq DEF ProjectionInit, Deskewed
  <2>6. QED  BY <2>3, <2>4, <2>5, 0 \in Nat DEF ProjectionInit, ProjectionInv
<1>2. ProjectionInv /\ [ProjectionNext]_projectionVars => ProjectionInv'
  BY ProjectionStep
<1>3. ProjectionInv => Deskewed
  BY DEF ProjectionInv
<1>4. QED  BY <1>1, <1>2, <1>3, PTL DEF ProjectionSpec

-----------------------------------------------------------------------------
\* The places of the arrays, and where the next sector begins: at the beginning
\* of its ring if that has too few points for sectors.
Places == 0..ArraySize - 1
Frontier == IF StartRingIndex(ring) <= EndRingIndex(ring) THEN SectorStart(ring, sector)
            ELSE StartRingIndex(ring)
FeaturesTypes ==
  /\ cloud \in Clouds /\ ring \in Nat \ {0} /\ sector \in 0..Sectors - 1
  /\ \A i \in Indices : cloudSmoothness[i].ind \in Places
  /\ cloudNeighborPicked \in [Indices -> BOOLEAN] /\ cloudLabel \in [Indices -> -1..1]
  /\ cornerCloud \subseteq Places /\ surfaceCloud \subseteq Int

Extracting == ring <= Rings(cloud)
EntriesOwn ==
  Extracting => \A i \in Calculated(cloud) : i >= Frontier => cloudSmoothness[i].ind = i
SurfaceBehind == Extracting => \A k \in surfaceCloud : k < Frontier /\ Reach - 1 < Frontier
OccludedPicked ==
  Extracting => \A i \in Indices : i \in cloud.occluded => cloudNeighborPicked[i]
CornersLabelled == \A c \in cornerCloud : cloudLabel[c] = 1
CornersPicks == \A c \in cornerCloud, i \in Indices : i \in ShutOut(c) => cloudNeighborPicked[i]
FeaturesInv ==
  /\ FeaturesTypes /\ EntriesOwn /\ SurfaceBehind /\ OccludedPicked
  /\ CornersLabelled /\ CornersPicks /\ CornersApart

-----------------------------------------------------------------------------
AreApart(c, d) == c < d /\ d - c <= Reach => \E i \in c..(d - 1) : Gap(i)
Picks == [corners : SUBSET Int, flats : SUBSET Int, full : BOOLEAN,
          picked : [Indices -> BOOLEAN]]

\* What has been picked of the entries inds of a sector.
Kept(picks, inds) ==
  /\ picks \in Picks /\ picks.corners \subseteq inds
  /\ \A i \in Indices : cloudNeighborPicked[i] => picks.picked[i]
  /\ \A c \in cornerCloud \cup picks.corners, i \in Indices :
        i \in ShutOut(c) => picks.picked[i]
  /\ \A c, d \in cornerCloud \cup picks.corners : AreApart(c, d)
  /\ picks.flats \cap (cornerCloud \cup picks.corners) = {}
  /\ \A c \in picks.corners : c \notin cloud.occluded

\* A point shuts itself out, and who is not shut out is apart.
LEMMA ShutOutApart ==
  ASSUME NEW c \in Int, NEW d \in Int
  PROVE  /\ c \in ShutOut(c)
         /\ d \notin ShutOut(c) => AreApart(c, d) /\ AreApart(d, c)
<1>0. Reach \in Nat \ {0}
  BY FeaturesAssumption
<1>1. c \in ShutOut(c)
  <2>1. 0 \in {m \in 0..Reach : \A n \in 0..(m - 1) : ~Gap(c + n)} /\ c + 0 = c
    BY <1>0
  <2>2. QED  BY <2>1 DEF ShutOut
<1>2. ASSUME d \notin ShutOut(c), c < d, d - c <= Reach  PROVE \E i \in c..(d - 1) : Gap(i)
  <2>1. d - c \in 0..Reach /\ c + (d - c) = d
    BY <1>0, <1>2
  <2>2. d - c \notin {m \in 0..Reach : \A n \in 0..(m - 1) : ~Gap(c + n)}
    BY <1>2, <2>1 DEF ShutOut
  <2>3. PICK n \in 0..((d - c) - 1) : Gap(c + n)
    BY <2>1, <2>2
  <2>4. c + n \in c..(d - 1)
    BY <2>3
  <2>5. QED  BY <2>3, <2>4
<1>3. ASSUME d \notin ShutOut(c), d < c, c - d <= Reach  PROVE \E i \in d..(c - 1) : Gap(i)
  <2>1. c - d \in 1..Reach /\ c - (c - d) = d
    BY <1>0, <1>3
  <2>2. c - d \notin {m \in 1..Reach : \A n \in 1..m : ~Gap(c - n)}
    BY <1>3, <2>1 DEF ShutOut
  <2>3. PICK n \in 1..(c - d) : Gap(c - n)
    BY <2>1, <2>2
  <2>4. c - n \in d..(c - 1)
    BY <2>3
  <2>5. QED  BY <2>3, <2>4
<1>4. QED  BY <1>1, <1>2, <1>3 DEF AreApart

LEMMA PlacesAre == Places \subseteq Indices /\ Indices \subseteq Int
BY FeaturesAssumption DEF Places, Indices

\* One more corner, or none, keeps this,
LEMMA PickCornerKeeps ==
  ASSUME NEW inds \in SUBSET Places, NEW ind \in inds, NEW picks,
         FeaturesTypes, Extracting, OccludedPicked, Kept(picks, inds), picks.flats = {}
  PROVE  Kept(PickCorner(picks, ind), inds) /\ PickCorner(picks, ind).flats = {}
<1> DEFINE new == [picks EXCEPT !.corners = @ \cup {ind},
                     !.picked = [i \in Indices |-> @[i] \/ i \in ShutOut(ind)]]
           full == [picks EXCEPT !.full = TRUE]
<1>1. /\ picks \in Picks /\ ind \in Indices /\ ind \in Int /\ cornerCloud \subseteq Int
      /\ picks.corners \subseteq Int
  BY PlacesAre DEF Kept, FeaturesTypes, Picks
<1>2. \/ PickCorner(picks, ind) = picks
      \/ PickCorner(picks, ind) = full
      \/ PickCorner(picks, ind) = new /\ ~picks.picked[ind]
  BY DEF PickCorner
<1>3. CASE PickCorner(picks, ind) = full
  <2>1. /\ full \in Picks /\ full.corners = picks.corners /\ full.picked = picks.picked
        /\ full.flats = picks.flats
    BY <1>1 DEF Picks
  <2> HIDE DEF full
  <2>2. Kept(full, inds)
    BY <2>1 DEF Kept
  <2>3. QED  BY <1>3, <2>1, <2>2
<1>4. CASE PickCorner(picks, ind) = new /\ ~picks.picked[ind]
  <2>1. /\ new \in Picks /\ new.corners = picks.corners \cup {ind} /\ new.flats = {}
        /\ \A i \in Indices : new.picked[i] <=> picks.picked[i] \/ i \in ShutOut(ind)
    BY <1>1 DEF Picks
  <2> HIDE DEF new
  <2>2. \A i \in Indices : cloudNeighborPicked[i] => new.picked[i]
    BY <2>1 DEF Kept
  <2>3. \A c \in cornerCloud \cup new.corners, i \in Indices :
            i \in ShutOut(c) => new.picked[i]
    BY <2>1 DEF Kept
  <2>4. \A c \in cornerCloud \cup picks.corners : AreApart(c, ind) /\ AreApart(ind, c)
    BY <1>1, <1>4, ShutOutApart DEF Kept
  <2>5. AreApart(ind, ind)
    BY <1>1 DEF AreApart
  <2>6. \A c, d \in cornerCloud \cup new.corners : AreApart(c, d)
    BY <2>1, <2>4, <2>5 DEF Kept
  <2>7. ind \notin cloud.occluded
    BY <1>1, <1>4 DEF Kept, OccludedPicked
  <2>8. \A c \in new.corners : c \notin cloud.occluded
    BY <2>1, <2>7 DEF Kept
  <2>9. new.corners \subseteq inds
    BY <2>1 DEF Kept
  <2>10. QED  BY <1>4, <2>1, <2>2, <2>3, <2>6, <2>8, <2>9 DEF Kept
<1>5. QED  BY <1>2, <1>3, <1>4

\* and so does one more flat point.
LEMMA PickFlatKeeps ==
  ASSUME NEW inds \in SUBSET Places, NEW ind \in inds, NEW picks,
         FeaturesTypes, Kept(picks, inds)
  PROVE  Kept(PickFlat(picks, ind), inds)
<1> DEFINE new == [picks EXCEPT !.flats = @ \cup {ind},
                     !.picked = [i \in Indices |-> @[i] \/ i \in ShutOut(ind)]]
<1>1. picks \in Picks /\ ind \in Indices /\ ind \in Int /\ cornerCloud \subseteq Int
      /\ picks.corners \subseteq Int
  BY PlacesAre DEF Kept, FeaturesTypes, Picks
<1>2. \/ PickFlat(picks, ind) = picks
      \/ PickFlat(picks, ind) = new /\ ~picks.picked[ind]
  BY DEF PickFlat
<1>3. CASE PickFlat(picks, ind) = new /\ ~picks.picked[ind]
  <2>1. /\ new \in Picks /\ new.corners = picks.corners /\ new.flats = picks.flats \cup {ind}
        /\ \A i \in Indices : new.picked[i] <=> picks.picked[i] \/ i \in ShutOut(ind)
    BY <1>1 DEF Picks
  <2> HIDE DEF new
  <2>2. ind \notin cornerCloud \cup picks.corners
    BY <1>1, <1>3, ShutOutApart DEF Kept
  <2>3. new.flats \cap (cornerCloud \cup new.corners) = {}
    BY <2>1, <2>2 DEF Kept
  <2>4. \A i \in Indices : cloudNeighborPicked[i] => new.picked[i]
    BY <2>1 DEF Kept
  <2>5. \A c \in cornerCloud \cup new.corners, i \in Indices :
            i \in ShutOut(c) => new.picked[i]
    BY <2>1 DEF Kept
  <2>6. /\ \A c, d \in cornerCloud \cup new.corners : AreApart(c, d)
        /\ \A c \in new.corners : c \notin cloud.occluded
        /\ new.corners \subseteq inds
    BY <2>1 DEF Kept
  <2>7. QED  BY <1>3, <2>1, <2>3, <2>4, <2>5, <2>6 DEF Kept
<1>4. QED  BY <1>2, <1>3

-----------------------------------------------------------------------------
\* The loops over a sector, of so many entries, are defined.
CornersLoop(f, sorted, last, count) ==
  f = [n \in 0..count |-> IF n = 0 THEN NonePicked
                          ELSE PickCorner(f[n - 1], sorted[last - n + 1].ind)]
FlatsLoop(f, sorted, first, count, corners) ==
  f = [n \in 0..count |-> IF n = 0 THEN corners
                          ELSE PickFlat(f[n - 1], sorted[first + n - 1].ind)]

LEMMA CornersDefined ==
  ASSUME NEW sorted, NEW last \in Int, NEW count \in Nat
  PROVE  \E f : CornersLoop(f, sorted, last, count)
<1> DEFINE Defined(m, f) == CornersLoop(f, sorted, last, m)
           S == {m \in Nat : \E f : Defined(m, f)}
<1>1. 0 \in S
  <2> DEFINE g == [n \in 0..0 |-> NonePicked]
  <2>1. Defined(0, g)
    BY DEF CornersLoop
  <2>2. QED  BY <2>1
<1>2. ASSUME NEW m \in Nat, m \in S  PROVE m + 1 \in S
  <2>1. PICK f : Defined(m, f)
    BY <1>2
  <2> DEFINE g == [n \in 0..m + 1 |-> IF n = 0 THEN NonePicked
                                      ELSE PickCorner(f[n - 1], sorted[last - n + 1].ind)]
  <2>2. \A n \in 0..m : g[n] = f[n]
    BY <2>1 DEF CornersLoop
  <2>3. Defined(m + 1, g)
    <3>1. \A n \in 0..m + 1 : n # 0 => n - 1 \in 0..m
      OBVIOUS
    <3>2. \A n \in 0..m + 1 : n # 0 => g[n - 1] = f[n - 1]
      <4> HIDE DEF g
      <4>1. QED  BY <2>2, <3>1
    <3>3. QED  BY <3>2 DEF CornersLoop
  <2>4. m + 1 \in Nat
    OBVIOUS
  <2> HIDE DEF g, Defined
  <2>5. QED  BY <2>3, <2>4
<1>3. Nat \subseteq S
  <2> HIDE DEF S
  <2>1. QED  BY <1>1, <1>2, Induction
<1>4. QED  BY <1>3

LEMMA FlatsDefined ==
  ASSUME NEW sorted, NEW first \in Int, NEW count \in Nat, NEW corners
  PROVE  \E f : FlatsLoop(f, sorted, first, count, corners)
<1> DEFINE Defined(m, f) == FlatsLoop(f, sorted, first, m, corners)
           S == {m \in Nat : \E f : Defined(m, f)}
<1>1. 0 \in S
  <2> DEFINE g == [n \in 0..0 |-> corners]
  <2>1. Defined(0, g)
    BY DEF FlatsLoop
  <2>2. QED  BY <2>1
<1>2. ASSUME NEW m \in Nat, m \in S  PROVE m + 1 \in S
  <2>1. PICK f : Defined(m, f)
    BY <1>2
  <2> DEFINE g == [n \in 0..m + 1 |-> IF n = 0 THEN corners
                                      ELSE PickFlat(f[n - 1], sorted[first + n - 1].ind)]
  <2>2. \A n \in 0..m : g[n] = f[n]
    BY <2>1 DEF FlatsLoop
  <2>3. Defined(m + 1, g)
    <3>1. \A n \in 0..m + 1 : n # 0 => n - 1 \in 0..m
      OBVIOUS
    <3>2. \A n \in 0..m + 1 : n # 0 => g[n - 1] = f[n - 1]
      <4> HIDE DEF g
      <4>1. QED  BY <2>2, <3>1
    <3>3. QED  BY <3>2 DEF FlatsLoop
  <2>4. m + 1 \in Nat
    OBVIOUS
  <2> HIDE DEF g, Defined
  <2>5. QED  BY <2>3, <2>4
<1>3. Nat \subseteq S
  <2> HIDE DEF S
  <2>1. QED  BY <1>1, <1>2, Induction
<1>4. QED  BY <1>3

\* What they pick is kept, by induction over the entries.
LEMMA CornersPickedKept ==
  ASSUME FeaturesTypes, Extracting, OccludedPicked, CornersPicks, CornersApart,
         NEW inds \in SUBSET Places, NEW sorted, NEW first \in Int, NEW last \in Int,
         first <= last, \A k \in first..last : sorted[k].ind \in inds
  PROVE  /\ Kept(CornersPicked(sorted, first, last), inds)
         /\ CornersPicked(sorted, first, last).flats = {}
<1> DEFINE count == last - first + 1
           picks == CHOOSE f : f = [n \in 0..count |->
                      IF n = 0 THEN NonePicked
                      ELSE PickCorner(f[n - 1], sorted[last - n + 1].ind)]
<1>0. count \in Nat /\ \A n \in 1..count : n - 1 \in 0..count /\ last - n + 1 \in first..last
  OBVIOUS
<1>1. CornersPicked(sorted, first, last) = picks[count]
  BY DEF CornersPicked
<1>2. picks = [n \in 0..count |-> IF n = 0 THEN NonePicked
                                  ELSE PickCorner(picks[n - 1], sorted[last - n + 1].ind)]
  <2> HIDE DEF count
  <2>1. \E f : CornersLoop(f, sorted, last, count)
    BY <1>0, CornersDefined
  <2>2. QED  BY <2>1, Zenon DEF CornersLoop
<1> HIDE DEF picks, count
<1>3. Kept(NonePicked, inds) /\ NonePicked.flats = {}
  <2>1. NonePicked \in Picks
    BY DEF NonePicked, Picks, FeaturesTypes
  <2>2. \A c, d \in cornerCloud : AreApart(c, d)
    BY DEF CornersApart, AreApart
  <2>3. QED  BY <2>1, <2>2 DEF NonePicked, Kept, CornersPicks
<1> DEFINE S == {n \in Nat : n <= count => Kept(picks[n], inds) /\ picks[n].flats = {}}
<1>4. 0 \in S
  BY <1>0, <1>2, <1>3
<1>5. ASSUME NEW n \in Nat, n \in S  PROVE n + 1 \in S
  <2>1. SUFFICES ASSUME n + 1 <= count
                 PROVE  Kept(picks[n + 1], inds) /\ picks[n + 1].flats = {}
    OBVIOUS
  <2>2. /\ n + 1 \in 0..count /\ n + 1 # 0 /\ (n + 1) - 1 = n /\ n + 1 \in 1..count
    BY <1>0, <2>1
  <2>3. picks[n + 1] = PickCorner(picks[n], sorted[last - (n + 1) + 1].ind)
    BY <1>2, <2>2
  <2>4. sorted[last - (n + 1) + 1].ind \in inds
    BY <1>0, <2>2
  <2>5. Kept(picks[n], inds) /\ picks[n].flats = {}
    BY <1>0, <1>5, <2>1
  <2> DEFINE p == picks[n]
             ind == sorted[last - (n + 1) + 1].ind
  <2> HIDE DEF p, ind
  <2>6. Kept(PickCorner(p, ind), inds) /\ PickCorner(p, ind).flats = {}
    BY <2>4, <2>5, PickCornerKeeps DEF p, ind
  <2>7. QED  BY <2>3, <2>6 DEF p, ind
<1>6. Nat \subseteq S
  <2> HIDE DEF S
  <2>1. QED  BY <1>4, <1>5, Induction
<1>7. QED  BY <1>0, <1>1, <1>6

LEMMA AllPickedKept ==
  ASSUME FeaturesTypes, Extracting, OccludedPicked, CornersPicks, CornersApart,
         NEW inds \in SUBSET Places, NEW sorted, NEW first \in Int, NEW last \in Int,
         first <= last, \A k \in first..last : sorted[k].ind \in inds
  PROVE  Kept(AllPicked(sorted, first, last), inds)
<1> DEFINE count == last - first + 1
           corners == CornersPicked(sorted, first, last)
           picks == CHOOSE f : f = [n \in 0..count |->
                      IF n = 0 THEN corners ELSE PickFlat(f[n - 1], sorted[first + n - 1].ind)]
<1>0. count \in Nat /\ \A n \in 1..count : n - 1 \in 0..count /\ first + n - 1 \in first..last
  OBVIOUS
<1>1. AllPicked(sorted, first, last) = picks[count]
  BY DEF AllPicked
<1>2. picks = [n \in 0..count |-> IF n = 0 THEN corners
                                  ELSE PickFlat(picks[n - 1], sorted[first + n - 1].ind)]
  <2> HIDE DEF count, corners
  <2>1. \E f : FlatsLoop(f, sorted, first, count, corners)
    BY <1>0, FlatsDefined
  <2>2. QED  BY <2>1, Zenon DEF FlatsLoop
<1>3. Kept(corners, inds)
  BY CornersPickedKept
<1> HIDE DEF picks, count, corners
<1> DEFINE S == {n \in Nat : n <= count => Kept(picks[n], inds)}
<1>4. 0 \in S
  BY <1>0, <1>2, <1>3
<1>5. ASSUME NEW n \in Nat, n \in S  PROVE n + 1 \in S
  <2>1. SUFFICES ASSUME n + 1 <= count  PROVE Kept(picks[n + 1], inds)
    OBVIOUS
  <2>2. /\ n + 1 \in 0..count /\ n + 1 # 0 /\ (n + 1) - 1 = n /\ n + 1 \in 1..count
    BY <1>0, <2>1
  <2>3. picks[n + 1] = PickFlat(picks[n], sorted[first + (n + 1) - 1].ind)
    BY <1>2, <2>2
  <2>4. sorted[first + (n + 1) - 1].ind \in inds
    BY <1>0, <2>2
  <2>5. Kept(picks[n], inds)
    BY <1>0, <1>5, <2>1
  <2>6. QED  BY <2>3, <2>4, <2>5, PickFlatKeeps
<1>6. Nat \subseteq S
  <2> HIDE DEF S
  <2>1. QED  BY <1>4, <1>5, Induction
<1>7. QED  BY <1>0, <1>1, <1>6

-----------------------------------------------------------------------------
\* Quotients ascend, and a multiple's is what it is a multiple of.
LEMMA QuotientsAscend ==
  ASSUME NEW M \in Nat \ {0}, NEW a \in Int, NEW b \in Int, a <= b
  PROVE  a \div M <= b \div M
<1> DEFINE q == a \div M
           p == b \div M
           r == a % M
           s == b % M
<1>1. /\ q \in Int /\ r \in 0..M - 1 /\ q * M + r = a
      /\ p \in Int /\ s \in 0..M - 1 /\ p * M + s = b
  BY DivMod
<1> HIDE DEF q, p, r, s
<1>2. q - p >= 1 => (q - p) * M >= M
  BY <1>1
<1>3. (q - p) * M = q * M - p * M
  BY <1>1
<1>4. q * M \in Int /\ p * M \in Int /\ (q - p) * M \in Int /\ M \in Int
  BY <1>1
<1>5. ~(q - p >= 1)
  BY <1>1, <1>2, <1>3, <1>4
<1>6. QED  BY <1>1, <1>5 DEF q, p

LEMMA QuotientIs ==
  ASSUME NEW M \in Nat \ {0}, NEW a \in Int
  PROVE  /\ Quotient(a, M) \in Int
         /\ a >= 0 => Quotient(a, M) >= 0
         /\ \A b \in Int : a <= b => Quotient(a, M) <= Quotient(b, M)
         /\ a >= 0 => Quotient(a * M, M) = a
<1>1. \A c \in Int : c >= 0 => c \div M >= 0
  <2> TAKE c \in Int
  <2>1. 0 \div M = 0
    BY DivModIs, 0 * M + 0 = 0, 0 \in 0..M - 1, 0 \in Int
  <2>2. QED  BY <2>1, QuotientsAscend, 0 \in Int
<1>2. \A c \in Int : c \div M \in Int /\ -c \in Int
  BY DivMod
<1>3. ASSUME NEW b \in Int, a <= b  PROVE Quotient(a, M) <= Quotient(b, M)
  <2>1. CASE a >= 0
    BY <1>3, <2>1, QuotientsAscend DEF Quotient
  <2>2. CASE a < 0 /\ b >= 0
    <3>1. (-a) \div M >= 0 /\ b \div M >= 0 /\ (-a) \div M \in Int /\ b \div M \in Int
      BY <1>1, <1>2, <2>2
    <3>2. QED  BY <2>2, <3>1 DEF Quotient
  <2>3. CASE b < 0
    <3>1. (-b) \div M <= (-a) \div M
      BY <1>2, <1>3, QuotientsAscend
    <3>2. (-a) \div M \in Int /\ (-b) \div M \in Int /\ ~(a >= 0) /\ ~(b >= 0)
      BY <1>2, <1>3, <2>3
    <3>3. QED  BY <3>1, <3>2 DEF Quotient
  <2>4. QED  BY <2>1, <2>2, <2>3
<1>4. ASSUME a >= 0  PROVE Quotient(a * M, M) = a
  <2>1. a * M \in Int /\ a * M >= 0 /\ a * M + 0 = a * M /\ 0 \in 0..M - 1
    BY <1>4
  <2>2. (a * M) \div M = a
    BY <2>1, DivModIs
  <2>3. QED  BY <2>1, <2>2 DEF Quotient
<1>5. Quotient(a, M) \in Int
  BY <1>2 DEF Quotient
<1>6. a >= 0 => Quotient(a, M) >= 0
  BY <1>1 DEF Quotient
<1>7. QED  BY <1>3, <1>4, <1>5, <1>6

\* From the beginning of a ring to its end, by so many parts of a whole.
LEMMA PartsAscend ==
  ASSUME NEW M \in Nat \ {0}, NEW s \in Int, NEW e \in Int, NEW j \in 0..M - 1
  PROVE  LET part(k) == s * (M - k) + e * k
         IN  /\ part(j) \in Int /\ part(j + 1) \in Int
             /\ part(0) = s * M /\ part(M) = e * M
             /\ part(j + 1) - part(j) = e - s
             /\ s <= e => s * M <= part(j) /\ part(j + 1) <= e * M
<1> DEFINE part(k) == s * (M - k) + e * k
<1>1. j \in Nat /\ M - j \in Nat /\ M - (j + 1) \in Nat /\ M \in Nat
  OBVIOUS
<1>2. part(0) = s * M /\ part(M) = e * M
  OBVIOUS
<1>3. s * (M - (j + 1)) = s * (M - j) - s /\ e * (j + 1) = e * j + e
  BY <1>1
<1>4. /\ s * (M - j) \in Int /\ e * j \in Int /\ s * M \in Int /\ e * M \in Int
      /\ s * (M - (j + 1)) \in Int /\ e * (j + 1) \in Int
  BY <1>1
<1>5. part(j + 1) - part(j) = e - s
  BY <1>3, <1>4
<1>6. ASSUME s <= e  PROVE s * M <= part(j) /\ part(j + 1) <= e * M
  <2>1. (e - s) * j >= 0 /\ (e - s) * (M - (j + 1)) >= 0
    BY <1>1, <1>6
  <2>2. (e - s) * j = e * j - s * j /\ s * j \in Int
    BY <1>1
  <2>3. s * (M - j) = s * M - s * j
    BY <1>1
  <2>4. s * M <= part(j)
    BY <1>4, <2>1, <2>2, <2>3
  <2>5. /\ (e - s) * (M - (j + 1)) = e * (M - (j + 1)) - s * (M - (j + 1))
        /\ e * (M - (j + 1)) = e * M - e * (j + 1) /\ e * (M - (j + 1)) \in Int
    BY <1>1
  <2>6. part(j + 1) <= e * M
    BY <1>4, <2>1, <2>5
  <2>7. QED  BY <2>4, <2>6
<1>7. QED  BY <1>2, <1>4, <1>5, <1>6

\* The sectors of a ring follow each other, or have no points.
LEMMA SectorsFollow ==
  ASSUME NEW r \in Int, NEW j \in 0..Sectors - 1,
         NEW s \in Int, NEW e \in Int, s = StartRingIndex(r), e = EndRingIndex(r), s >= 0
  PROVE  /\ SectorStart(r, j) \in Int /\ SectorStart(r, j + 1) \in Int
         /\ SectorStart(r, 0) = s
         /\ s <= e => /\ s <= SectorStart(r, j) /\ SectorStart(r, j + 1) <= e
                      /\ SectorStart(r, j) <= SectorStart(r, j + 1)
         /\ s > e => SectorStart(r, j + 1) <= SectorStart(r, j)
<1>0. Sectors \in Nat \ {0} /\ j \in Int /\ j + 1 \in Int
  BY FeaturesAssumption
<1> DEFINE part(k) == s * (Sectors - k) + e * k
<1>1. /\ part(j) \in Int /\ part(j + 1) \in Int /\ part(0) = s * Sectors
      /\ part(j + 1) - part(j) = e - s
      /\ s <= e => s * Sectors <= part(j) /\ part(j + 1) <= e * Sectors
      /\ s * Sectors \in Int /\ e * Sectors \in Int
  BY <1>0, PartsAscend
<1>2. \A k : SectorStart(r, k) = Quotient(part(k), Sectors)
  BY DEF SectorStart
<1> HIDE DEF part
<1>3. /\ s <= e => part(j) <= part(j + 1)
      /\ s > e => part(j + 1) <= part(j)
  BY <1>1
<1>4. Quotient(s * Sectors, Sectors) = s /\ (e >= 0 => Quotient(e * Sectors, Sectors) = e)
  BY <1>0, QuotientIs
<1>5. SectorStart(r, j) \in Int /\ SectorStart(r, j + 1) \in Int /\ SectorStart(r, 0) = s
  BY <1>0, <1>1, <1>2, <1>4, QuotientIs
<1>6. ASSUME s <= e
      PROVE  /\ s <= SectorStart(r, j) /\ SectorStart(r, j + 1) <= e
             /\ SectorStart(r, j) <= SectorStart(r, j + 1)
  <2>1. Quotient(s * Sectors, Sectors) <= Quotient(part(j), Sectors)
    BY <1>0, <1>1, <1>6, QuotientIs
  <2>2. Quotient(part(j + 1), Sectors) <= Quotient(e * Sectors, Sectors)
    BY <1>0, <1>1, <1>6, QuotientIs
  <2>3. Quotient(part(j), Sectors) <= Quotient(part(j + 1), Sectors)
    BY <1>0, <1>1, <1>3, <1>6, QuotientIs
  <2>4. e >= 0
    BY <1>6
  <2>5. QED  BY <1>2, <1>4, <2>1, <2>2, <2>3, <2>4
<1>7. ASSUME s > e  PROVE SectorStart(r, j + 1) <= SectorStart(r, j)
  BY <1>0, <1>1, <1>2, <1>3, <1>7, QuotientIs
<1>8. QED  BY <1>5, <1>6, <1>7

\* Where the rings of a cloud lie.
LEMMA RingsFollow ==
  ASSUME FeaturesTypes, Extracting
  PROVE  /\ Sectors \in Nat \ {0} /\ Reach \in Nat \ {0} /\ Size(cloud) \in Nat
         /\ Size(cloud) <= ArraySize /\ ArraySize \in Nat
         /\ StartRingIndex(ring) \in Int /\ EndRingIndex(ring) \in Int
         /\ Reach - 1 <= StartRingIndex(ring)
         /\ EndRingIndex(ring) <= Size(cloud) - Reach - 1
         /\ ring + 1 <= Rings(cloud) =>
              /\ StartRingIndex(ring + 1) \in Int /\ EndRingIndex(ring + 1) \in Int
              /\ StartRingIndex(ring) <= StartRingIndex(ring + 1)
              /\ EndRingIndex(ring) < StartRingIndex(ring + 1)
<1> DEFINE before == cloud.before
<1>1. /\ Reach \in Nat \ {0} /\ Sectors \in Nat \ {0} /\ ArraySize \in Nat
      /\ cloud \in Clouds /\ ring \in Nat \ {0}
  BY FeaturesAssumption DEF FeaturesTypes
<1>2. /\ before \in Seq(Nat) /\ before # <<>> /\ before[1] = 0
      /\ \A r, q \in 1..Len(before) : r <= q => before[r] <= before[q]
      /\ Size(cloud) <= ArraySize
  BY <1>1, FeaturesAssumption
<1>3. /\ Size(cloud) = before[Len(before)] /\ ring + 1 <= Len(before) /\ Len(before) \in Nat
      /\ (ring + 1 <= Rings(cloud) <=> ring + 2 <= Len(before))
  BY <1>1, <1>2 DEF Extracting, Rings, Size
<1>4. /\ StartRingIndex(ring) = before[ring] - 1 + Reach
      /\ EndRingIndex(ring) = before[ring + 1] - 1 - Reach
      /\ StartRingIndex(ring + 1) = before[ring + 1] - 1 + Reach
      /\ EndRingIndex(ring + 1) = before[(ring + 1) + 1] - 1 - Reach
  BY DEF StartRingIndex, EndRingIndex
<1> HIDE DEF before
<1>5. /\ before[ring] \in Nat /\ before[ring + 1] \in Nat /\ before[Len(before)] \in Nat
      /\ before[ring] <= before[ring + 1] /\ before[ring + 1] <= before[Len(before)]
      /\ ring + 2 <= Len(before) => before[(ring + 1) + 1] \in Nat
  BY <1>1, <1>2, <1>3
<1>6. Size(cloud) \in Nat /\ Size(cloud) <= ArraySize
  BY <1>2, <1>3, <1>5
<1>7. /\ StartRingIndex(ring) \in Int /\ EndRingIndex(ring) \in Int
      /\ Reach - 1 <= StartRingIndex(ring)
      /\ EndRingIndex(ring) <= Size(cloud) - Reach - 1
  <2>1. StartRingIndex(ring) \in Int /\ EndRingIndex(ring) \in Int
    BY <1>1, <1>4, <1>5
  <2>2. Reach - 1 <= StartRingIndex(ring)
    BY <1>1, <1>4, <1>5
  <2>3. EndRingIndex(ring) <= Size(cloud) - Reach - 1
    BY <1>1, <1>3, <1>4, <1>5
  <2>4. QED  BY <2>1, <2>2, <2>3
<1>8. ring + 1 <= Rings(cloud) =>
        /\ StartRingIndex(ring + 1) \in Int /\ EndRingIndex(ring + 1) \in Int
        /\ StartRingIndex(ring) <= StartRingIndex(ring + 1)
        /\ EndRingIndex(ring) < StartRingIndex(ring + 1)
  <2>1. SUFFICES ASSUME ring + 1 <= Rings(cloud)
                 PROVE  /\ StartRingIndex(ring + 1) \in Int /\ EndRingIndex(ring + 1) \in Int
                        /\ StartRingIndex(ring) <= StartRingIndex(ring + 1)
                        /\ EndRingIndex(ring) < StartRingIndex(ring + 1)
    OBVIOUS
  <2>2. before[(ring + 1) + 1] \in Nat
    BY <1>3, <1>5, <2>1
  <2>3. EndRingIndex(ring + 1) \in Int
    BY <1>1, <1>4, <2>2
  <2>4. StartRingIndex(ring + 1) \in Int
    BY <1>1, <1>4, <1>5
  <2>5. StartRingIndex(ring) <= StartRingIndex(ring + 1)
    BY <1>1, <1>4, <1>5
  <2>6. EndRingIndex(ring) < StartRingIndex(ring + 1)
    BY <1>1, <1>4, <1>5
  <2>7. QED  BY <2>3, <2>4, <2>5, <2>6
<1>9. QED  BY <1>1, <1>6, <1>7, <1>8

\* From one sector to the next the frontier moves on, past the points of a
\* sector that has more than one.
LEMMA FrontierMoves ==
  ASSUME FeaturesTypes, Extracting, NextSector,
         NEW first \in Int, NEW last \in Int,
         first = SectorStart(ring, sector), last = SectorEnd(ring, sector)
  PROVE  /\ Frontier \in Int /\ Reach - 1 <= Frontier
         /\ ring' \in Nat \ {0} /\ sector' \in 0..Sectors - 1
         /\ Extracting' => Frontier' \in Int /\ Frontier <= Frontier'
         /\ first < last => /\ first = Frontier /\ last < Size(cloud) - Reach - 1
                            /\ Extracting' => last < Frontier'
<1> DEFINE s == StartRingIndex(ring)
           e == EndRingIndex(ring)
           S == StartRingIndex(ring + 1)
           E == EndRingIndex(ring + 1)
           next == SectorStart(ring, sector + 1)
<1>1. /\ Sectors \in Nat \ {0} /\ Reach \in Nat \ {0} /\ Size(cloud) \in Nat
      /\ s \in Int /\ e \in Int /\ Reach - 1 <= s /\ s >= 0
      /\ e <= Size(cloud) - Reach - 1
      /\ ring + 1 <= Rings(cloud) => S \in Int /\ E \in Int /\ s <= S /\ e < S
  BY RingsFollow
<1>2. ring \in Nat \ {0} /\ sector \in 0..Sectors - 1
  BY DEF FeaturesTypes
<1>3. /\ next \in Int /\ last = next - 1
      /\ s <= e => s <= first /\ next <= e /\ first <= next
      /\ s > e => next <= first
  BY <1>1, <1>2, SectorsFollow DEF SectorEnd
<1>4. Frontier = IF s <= e THEN first ELSE s
  BY DEF Frontier
<1>5. CASE sector + 1 # Sectors
  <2>1. sector + 1 \in 0..Sectors - 1
    BY <1>1, <1>2, <1>5
  <2>2. (sector + 1) % Sectors = sector + 1
    BY <1>1, <2>1, SmallModulus
  <2>3. ring' = ring /\ sector' = sector + 1 /\ cloud' = cloud
    BY <1>5, <2>2 DEF NextSector
  <2>4. Frontier' = IF s <= e THEN next ELSE s
    BY <2>3 DEF Frontier, StartRingIndex, EndRingIndex, SectorStart
  <2> HIDE DEF s, e, S, E, next
  <2>5. /\ ring' \in Nat \ {0} /\ sector' \in 0..Sectors - 1
        /\ Frontier \in Int /\ Reach - 1 <= Frontier
    BY <1>1, <1>2, <1>3, <1>4, <2>1, <2>3
  <2>6. Frontier' \in Int /\ Frontier <= Frontier'
    BY <1>1, <1>3, <1>4, <2>4
  <2>7. first < last => /\ first = Frontier /\ last < Size(cloud) - Reach - 1
                        /\ last < Frontier'
    BY <1>1, <1>3, <1>4, <2>4
  <2>8. QED  BY <2>5, <2>6, <2>7
<1>6. CASE sector + 1 = Sectors
  <2>1. (sector + 1) % Sectors = 0
    BY <1>1, <1>6, DivModIs, 0 \in 0..Sectors - 1, 1 \in Int, 1 * Sectors + 0 = sector + 1
  <2>2. ring' = ring + 1 /\ sector' = 0 /\ cloud' = cloud /\ ring + 1 \in Int
    BY <1>2, <1>6, <2>1 DEF NextSector
  <2>3. Extracting' => ring + 1 <= Rings(cloud)
    BY <2>2 DEF Extracting
  <2>4. ring + 1 <= Rings(cloud) => SectorStart(ring + 1, 0) = S
    <3>1. SUFFICES ASSUME ring + 1 <= Rings(cloud)  PROVE SectorStart(ring + 1, 0) = S
      OBVIOUS
    <3>2. S \in Int /\ E \in Int /\ S >= 0 /\ 0 \in 0..Sectors - 1 /\ ring + 1 \in Int
      BY <1>1, <2>2, <3>1
    <3>3. QED  BY <3>2, SectorsFollow
  <2>5. Extracting' => Frontier' = S
    BY <2>2, <2>3, <2>4 DEF Frontier, StartRingIndex, EndRingIndex, SectorStart
  <2>6. 0 \in 0..Sectors - 1 /\ ring + 1 \in Nat \ {0}
    BY <1>1, <1>2
  <2> HIDE DEF s, e, S, E, next
  <2>7. QED  BY <1>1, <1>2, <1>3, <1>4, <2>2, <2>3, <2>5, <2>6
<1>7. QED  BY <1>5, <1>6

\* The entries of a sector are its own points, but for the first place of the
\* cloud, whose entry is of an earlier one; then there is no surface yet.
LEMMA EntriesFresh ==
  ASSUME FeaturesTypes, Extracting, EntriesOwn, SurfaceBehind, NextSector,
         NEW first \in Int, NEW last \in Int, first < last,
         first = SectorStart(ring, sector), last = SectorEnd(ring, sector),
         NEW order \in Sorts(first, last)
  PROVE  \E inds \in SUBSET Places :
           /\ \A k \in first..last : Sorted(order)[k].ind \in inds
           /\ inds \cap surfaceCloud = {}
<1>1. /\ first = Frontier /\ last < Size(cloud) - Reach - 1 /\ Reach - 1 <= first
      /\ Reach \in Nat \ {0} /\ Size(cloud) <= ArraySize /\ Size(cloud) \in Nat
      /\ ArraySize \in Nat
  BY FrontierMoves, RingsFollow
<1>2. first..last \subseteq Places /\ first..last \subseteq Indices
  BY <1>1 DEF Places, Indices
<1>3. order \in [first..(last - 1) -> first..(last - 1)]
  BY DEF Sorts
<1>4. \A k \in first..last : \E l \in first..last :
         Sorted(order)[k].ind = cloudSmoothness[l].ind
  <2> TAKE k \in first..last
  <2>1. Sorted(order)[k] = cloudSmoothness[IF k \in first..(last - 1) THEN order[k] ELSE k]
    BY <1>2, <1>3 DEF Sorted
  <2>2. (IF k \in first..(last - 1) THEN order[k] ELSE k) \in first..last
    BY <1>3
  <2>3. QED  BY <2>1, <2>2
<1>5. CASE Reach <= first
  <2>1. \A l \in first..last : cloudSmoothness[l].ind = l
    BY <1>1, <1>5 DEF EntriesOwn, Calculated
  <2>2. first..last \cap surfaceCloud = {}
    BY <1>1 DEF SurfaceBehind
  <2>3. \A k \in first..last : Sorted(order)[k].ind \in first..last
    BY <1>4, <2>1
  <2> DEFINE inds == first..last
  <2> HIDE DEF inds
  <2>4. /\ inds \in SUBSET Places /\ inds \cap surfaceCloud = {}
        /\ \A k \in first..last : Sorted(order)[k].ind \in inds
    BY <1>2, <2>2, <2>3 DEF inds
  <2>5. QED  BY <2>4
<1>6. CASE ~(Reach <= first)
  <2>1. surfaceCloud = {}
    BY <1>1, <1>6 DEF SurfaceBehind
  <2>2. \A k \in first..last : Sorted(order)[k].ind \in Places
    BY <1>2, <1>4 DEF FeaturesTypes
  <2>3. QED  BY <2>1, <2>2
<1>7. QED  BY <1>5, <1>6

-----------------------------------------------------------------------------
\* Picking from a sector keeps the invariant,
LEMMA ExtractKeeps ==
  ASSUME FeaturesInv, Extracting, NextSector,
         NEW first \in Int, NEW last \in Int, first < last,
         first = SectorStart(ring, sector), last = SectorEnd(ring, sector),
         NEW order \in Sorts(first, last), ExtractSector(first, last, order)
  PROVE  FeaturesInv'
<1> DEFINE sorted == Sorted(order)
           picks == AllPicked(sorted, first, last)
<1>1. /\ FeaturesTypes /\ EntriesOwn /\ SurfaceBehind /\ OccludedPicked
      /\ CornersLabelled /\ CornersPicks /\ CornersApart
  BY DEF FeaturesInv
<1>2. /\ cloudSmoothness' = sorted /\ cloudNeighborPicked' = picks.picked
      /\ cloudLabel' = Labelled(picks)
      /\ cornerCloud' = cornerCloud \cup picks.corners
      /\ surfaceCloud' = surfaceCloud \cup {k \in first..last : cloudLabel'[k] <= 0}
      /\ cloud' = cloud
  BY DEF ExtractSector, NextSector
<1>3. PICK inds \in SUBSET Places :
        /\ \A k \in first..last : sorted[k].ind \in inds
        /\ inds \cap surfaceCloud = {}
  BY <1>1, EntriesFresh
<1>4. Kept(picks, inds)
  BY <1>1, <1>3, AllPickedKept
<1>5. /\ first = Frontier /\ last < Size(cloud) - Reach - 1 /\ Reach - 1 <= Frontier
      /\ Frontier \in Int
      /\ ring' \in Nat \ {0} /\ sector' \in 0..Sectors - 1
      /\ Extracting' => Frontier' \in Int /\ Frontier <= Frontier' /\ last < Frontier'
      /\ Reach \in Nat \ {0} /\ Size(cloud) <= ArraySize /\ Size(cloud) \in Nat
      /\ ArraySize \in Nat
  BY <1>1, FrontierMoves, RingsFollow
<1>6. order \in [first..(last - 1) -> first..(last - 1)]
  BY DEF Sorts
<1>7. first..last \subseteq Places /\ Places \subseteq Indices /\ Indices \subseteq Int
  BY <1>5, PlacesAre DEF Places
<1> HIDE DEF picks
<1>8. \A i \in Indices :
        sorted[i] = cloudSmoothness[IF i \in first..(last - 1) THEN order[i] ELSE i]
  BY <1>6 DEF Sorted
<1>9. \A i \in Indices : sorted[i].ind \in Places
  <2> TAKE i \in Indices
  <2>1. (IF i \in first..(last - 1) THEN order[i] ELSE i) \in Indices
    BY <1>6, <1>7
  <2>2. QED  BY <1>1, <1>8, <2>1 DEF FeaturesTypes
<1> HIDE DEF sorted
<1>10. /\ picks.corners \subseteq inds /\ picks.picked \in [Indices -> BOOLEAN]
       /\ picks.flats \cap (cornerCloud \cup picks.corners) = {}
       /\ \A c \in picks.corners : c \notin cloud.occluded
  BY <1>4 DEF Kept, Picks
<1>11. /\ cloudLabel' \in [Indices -> -1..1]
       /\ \A c \in cornerCloud' : cloudLabel'[c] = 1
  <2>1. cloudLabel' = [i \in Indices |-> IF i \in picks.flats THEN -1
                                         ELSE IF i \in picks.corners THEN 1 ELSE cloudLabel[i]]
    BY <1>2 DEF Labelled
  <2>2. cloudLabel \in [Indices -> -1..1] /\ cornerCloud \subseteq Places
    BY <1>1 DEF FeaturesTypes
  <2>3. cloudLabel' \in [Indices -> -1..1]
    BY <2>1, <2>2
  <2>4. ASSUME NEW c \in cornerCloud'  PROVE cloudLabel'[c] = 1
    <3>1. c \in Indices /\ c \notin picks.flats /\ (c \in cornerCloud \/ c \in picks.corners)
      BY <1>2, <1>7, <1>10, <2>2
    <3>2. c \in cornerCloud => cloudLabel[c] = 1
      BY <1>1 DEF CornersLabelled
    <3>3. QED  BY <2>1, <3>1, <3>2
  <2>5. QED  BY <2>3, <2>4
<1>12. FeaturesTypes'
  <2>0. cornerCloud \subseteq Places /\ surfaceCloud \subseteq Int /\ first..last \subseteq Int
    BY <1>1 DEF FeaturesTypes
  <2>1. cornerCloud' \subseteq Places /\ surfaceCloud' \subseteq Int
    BY <1>2, <1>3, <1>10, <2>0
  <2>2. cloud' \in Clouds
    BY <1>1, <1>2 DEF FeaturesTypes
  <2>3. \A i \in Indices : cloudSmoothness'[i].ind \in Places
    BY <1>2, <1>9
  <2>4. cloudNeighborPicked' \in [Indices -> BOOLEAN]
    BY <1>2, <1>10
  <2>5. QED  BY <1>5, <1>11, <2>1, <2>2, <2>3, <2>4 DEF FeaturesTypes
<1>13. EntriesOwn'
  <2>1. SUFFICES ASSUME Extracting', NEW i \in Calculated(cloud), i >= Frontier'
                 PROVE  cloudSmoothness'[i].ind = i
    BY <1>2 DEF EntriesOwn
  <2>2. i \in Int /\ i \in Indices /\ i \notin first..(last - 1) /\ i >= Frontier
    BY <1>5, <2>1 DEF Calculated, Indices
  <2>3. sorted[i] = cloudSmoothness[i]
    BY <1>8, <2>2
  <2>4. QED  BY <1>1, <1>2, <2>2, <2>3 DEF EntriesOwn
<1>14. SurfaceBehind'
  <2>1. SUFFICES ASSUME Extracting', NEW k \in surfaceCloud'
                 PROVE  k < Frontier' /\ Reach - 1 < Frontier'
    BY DEF SurfaceBehind
  <2>2. CASE k \in surfaceCloud
    <3>1. k \in Int /\ k < Frontier /\ Reach - 1 < Frontier
      BY <1>1, <2>2 DEF SurfaceBehind, FeaturesTypes
    <3>2. QED  BY <1>5, <2>1, <3>1
  <2>3. CASE k \in first..last
    BY <1>5, <2>1, <2>3
  <2>4. QED  BY <1>2, <2>1, <2>2, <2>3
<1>15. OccludedPicked'
  BY <1>1, <1>2, <1>4 DEF OccludedPicked, Kept
<1>16. CornersLabelled'
  BY <1>11 DEF CornersLabelled
<1>17. \A c : ShutOut(c)' = ShutOut(c) /\ Gap(c)' = Gap(c)
  BY <1>2 DEF ShutOut, Gap
<1>18. CornersPicks'
  BY <1>2, <1>4, <1>17 DEF CornersPicks, Kept
<1>19. CornersApart'
  <2>1. \A c, d \in cornerCloud' : AreApart(c, d)
    BY <1>2, <1>4 DEF Kept
  <2>2. \A c, d \in cornerCloud' : c < d /\ d - c <= Reach => \E i \in c..(d - 1) : Gap(i)'
    BY <1>17, <2>1 DEF AreApart
  <2>3. \A c \in cornerCloud' : c \notin cloud'.occluded
    BY <1>1, <1>2, <1>10 DEF CornersApart
  <2>4. cornerCloud \cap surfaceCloud = {} /\ picks.corners \cap surfaceCloud = {}
    BY <1>1, <1>3, <1>10 DEF CornersApart
  <2>5. \A c \in cornerCloud' : ~(cloudLabel'[c] <= 0)
    BY <1>11
  <2>6. cornerCloud' \cap surfaceCloud' = {}
    BY <1>2, <2>4, <2>5
  <2>7. QED  BY <2>2, <2>3, <2>6 DEF CornersApart
<1>20. QED  BY <1>12, <1>13, <1>14, <1>15, <1>16, <1>18, <1>19 DEF FeaturesInv

\* and so do passing over one,
LEMMA PassOverKeeps ==
  ASSUME FeaturesInv, Extracting, NextSector,
         UNCHANGED <<cloudSmoothness, cloudNeighborPicked, cloudLabel, cornerCloud,
                     surfaceCloud>>
  PROVE  FeaturesInv'
<1>1. /\ FeaturesTypes /\ EntriesOwn /\ SurfaceBehind /\ OccludedPicked
      /\ CornersLabelled /\ CornersPicks /\ CornersApart
  BY DEF FeaturesInv
<1>2. /\ SectorStart(ring, sector) \in Int /\ SectorEnd(ring, sector) \in Int
  <2>1. /\ StartRingIndex(ring) \in Int /\ EndRingIndex(ring) \in Int
        /\ StartRingIndex(ring) >= 0 /\ ring \in Int /\ sector \in 0..Sectors - 1
    BY <1>1, RingsFollow DEF FeaturesTypes
  <2>2. SectorStart(ring, sector) \in Int /\ SectorStart(ring, sector + 1) \in Int
    BY <2>1, SectorsFollow
  <2>3. QED  BY <2>2 DEF SectorEnd
<1>3. /\ Frontier \in Int /\ Reach - 1 <= Frontier
      /\ ring' \in Nat \ {0} /\ sector' \in 0..Sectors - 1
      /\ Extracting' => Frontier' \in Int /\ Frontier <= Frontier'
      /\ Reach \in Nat \ {0}
  BY <1>1, <1>2, FrontierMoves, RingsFollow
<1>4. cloud' = cloud
  BY DEF NextSector
<1>5. FeaturesTypes'
  BY <1>1, <1>3, <1>4 DEF FeaturesTypes
<1>6. EntriesOwn'
  <2>1. Extracting' => \A i \in Calculated(cloud) : i >= Frontier' => i >= Frontier
    BY <1>3, RingsFollow, <1>1 DEF Calculated
  <2>2. QED  BY <1>1, <1>4, <2>1 DEF EntriesOwn
<1>7. SurfaceBehind'
  BY <1>1, <1>3 DEF SurfaceBehind, FeaturesTypes
<1>8. OccludedPicked' /\ CornersLabelled'
  BY <1>1, <1>4 DEF OccludedPicked, CornersLabelled
<1>9. \A c : ShutOut(c)' = ShutOut(c) /\ Gap(c)' = Gap(c)
  BY <1>4 DEF ShutOut, Gap
<1>10. CornersPicks' /\ CornersApart'
  BY <1>1, <1>4, <1>9 DEF CornersPicks, CornersApart
<1>11. QED  BY <1>5, <1>6, <1>7, <1>8, <1>10 DEF FeaturesInv

\* and the next cloud, which is its own up to the place before the first.
LEMMA HandlerKeeps ==
  ASSUME FeaturesInv, NEW new \in Clouds, FeaturesHandler(new)
  PROVE  FeaturesInv'
<1>1. FeaturesTypes
  BY DEF FeaturesInv
<1>2. /\ cloud' = new /\ ring' = 1 /\ sector' = 0 /\ cornerCloud' = {} /\ surfaceCloud' = {}
      /\ cloudLabel' = [i \in Indices |-> IF i \in Calculated(new) THEN 0 ELSE cloudLabel[i]]
      /\ cloudSmoothness' =
           [i \in Indices |-> IF i \in Calculated(new)
                              THEN [ind |-> i, value |-> new.curvature[i]]
                              ELSE cloudSmoothness[i]]
      /\ cloudNeighborPicked' =
           [i \in Indices |-> \/ i \in new.occluded
                              \/ i \notin Calculated(new) /\ cloudNeighborPicked[i]]
  BY DEF FeaturesHandler
<1>3. /\ Reach \in Nat \ {0} /\ Sectors \in Nat \ {0} /\ ArraySize \in Nat \ {0}
      /\ Size(new) <= ArraySize /\ new.before \in Seq(Nat) /\ new.before # <<>>
  BY FeaturesAssumption
<1>4. Size(new) \in Nat
  BY <1>3 DEF Size
<1>5. Calculated(new) \subseteq Places /\ Calculated(new) \subseteq Indices
  BY <1>3, <1>4 DEF Calculated, Places, Indices
<1>6. FeaturesTypes'
  <2>1. cloudLabel' \in [Indices -> -1..1] /\ cloudNeighborPicked' \in [Indices -> BOOLEAN]
    BY <1>1, <1>2 DEF FeaturesTypes
  <2>2. \A i \in Indices : cloudSmoothness'[i].ind \in Places
    BY <1>1, <1>2, <1>5 DEF FeaturesTypes
  <2>3. QED  BY <1>2, <1>3, <2>1, <2>2 DEF FeaturesTypes
<1>7. EntriesOwn'
  BY <1>2, <1>5 DEF EntriesOwn
<1>8. SurfaceBehind' /\ OccludedPicked' /\ CornersLabelled' /\ CornersPicks' /\ CornersApart'
  BY <1>2 DEF SurfaceBehind, OccludedPicked, CornersLabelled, CornersPicks, CornersApart
<1>9. QED  BY <1>6, <1>7, <1>8 DEF FeaturesInv

LEMMA FeaturesBegin == FeaturesInit => FeaturesInv
<1>1. SUFFICES ASSUME FeaturesInit  PROVE FeaturesInv
  OBVIOUS
<1>2. /\ cloud = CHOOSE new \in Clouds : TRUE
      /\ ring = Rings(cloud) + 1 /\ sector = 0 /\ cornerCloud = {} /\ surfaceCloud = {}
      /\ cloudSmoothness = [i \in Indices |-> [ind |-> 0, value |-> 0]]
      /\ cloudLabel = [i \in Indices |-> 0]
      /\ \E picked \in BOOLEAN : cloudNeighborPicked = [i \in Indices |-> picked]
  BY <1>1 DEF FeaturesInit
<1>3. cloud \in Clouds
  BY <1>2, FeaturesAssumption
<1>4. cloud.before \in Seq(Nat) /\ cloud.before # <<>>
  BY <1>3, FeaturesAssumption
<1>5. Rings(cloud) \in Nat
  BY <1>4 DEF Rings
<1>6. ~Extracting
  BY <1>2, <1>5 DEF Extracting
<1>7. cloudNeighborPicked \in [Indices -> BOOLEAN]
  BY <1>2
<1>8. Sectors \in Nat \ {0} /\ 0 \in Places
  BY FeaturesAssumption DEF Places
<1>9. FeaturesTypes
  BY <1>2, <1>3, <1>5, <1>7, <1>8 DEF FeaturesTypes
<1>10. EntriesOwn /\ SurfaceBehind /\ OccludedPicked
  BY <1>6 DEF EntriesOwn, SurfaceBehind, OccludedPicked
<1>11. CornersLabelled /\ CornersPicks /\ CornersApart
  BY <1>2 DEF CornersLabelled, CornersPicks, CornersApart
<1>12. QED  BY <1>9, <1>10, <1>11 DEF FeaturesInv

LEMMA FeaturesStep == FeaturesInv /\ [FeaturesNext]_featureVars => FeaturesInv'
<1>1. SUFFICES ASSUME FeaturesInv, [FeaturesNext]_featureVars  PROVE FeaturesInv'
  OBVIOUS
<1>2. CASE extractFeatures
  <2> DEFINE sp == SectorStart(ring, sector)
             ep == SectorEnd(ring, sector)
  <2>1. Extracting /\ NextSector
    BY <1>2 DEF extractFeatures, Extracting
  <2>2. \/ UNCHANGED <<cloudSmoothness, cloudNeighborPicked, cloudLabel, cornerCloud,
                       surfaceCloud>>
        \/ sp < ep /\ \E order \in Sorts(sp, ep) : ExtractSector(sp, ep, order)
    BY <1>2 DEF extractFeatures
  <2>3. sp \in Int /\ ep \in Int
    <3>1. /\ StartRingIndex(ring) \in Int /\ EndRingIndex(ring) \in Int
          /\ StartRingIndex(ring) >= 0 /\ ring \in Int /\ sector \in 0..Sectors - 1
      BY <1>1, <2>1, RingsFollow DEF FeaturesInv, FeaturesTypes
    <3>2. SectorStart(ring, sector) \in Int /\ SectorStart(ring, sector + 1) \in Int
      BY <3>1, SectorsFollow
    <3>3. QED  BY <3>2 DEF SectorEnd
  <2>4. CASE UNCHANGED <<cloudSmoothness, cloudNeighborPicked, cloudLabel, cornerCloud,
                         surfaceCloud>>
    BY <1>1, <2>1, <2>4, PassOverKeeps
  <2>5. CASE sp < ep /\ \E order \in Sorts(sp, ep) : ExtractSector(sp, ep, order)
    <3>1. PICK order \in Sorts(sp, ep) : ExtractSector(sp, ep, order)
      BY <2>5
    <3>2. QED  BY <1>1, <2>1, <2>3, <2>5, <3>1, ExtractKeeps
  <2>6. QED  BY <2>2, <2>4, <2>5
<1>3. CASE \E new \in Clouds : FeaturesHandler(new)
  BY <1>1, <1>3, HandlerKeeps
<1>4. CASE UNCHANGED featureVars
  <2>1. FeaturesTypes' = FeaturesTypes /\ EntriesOwn' = EntriesOwn
        /\ SurfaceBehind' = SurfaceBehind /\ OccludedPicked' = OccludedPicked
    BY <1>4 DEF featureVars, FeaturesTypes, EntriesOwn, SurfaceBehind, OccludedPicked, Extracting,
                Frontier, StartRingIndex, EndRingIndex, SectorStart
  <2>2. CornersLabelled' = CornersLabelled /\ CornersPicks' = CornersPicks
        /\ CornersApart' = CornersApart
    BY <1>4 DEF featureVars, CornersLabelled, CornersPicks, CornersApart, ShutOut, Gap
  <2>3. QED  BY <1>1, <2>1, <2>2 DEF FeaturesInv
<1>5. QED  BY <1>1, <1>2, <1>3, <1>4 DEF FeaturesNext

\* Corners are apart from each other, from what is occluded and from the surface,
\* for every reach, number of sectors and corners, in whichever order equal
\* curvatures are sorted and whatever earlier clouds left in the arrays
\* (extractFeatures).
THEOREM CornersAreApart == FeaturesSpec => []CornersApart
<1>1. FeaturesInv => CornersApart
  BY DEF FeaturesInv
<1>2. QED  BY <1>1, FeaturesBegin, FeaturesStep, PTL DEF FeaturesSpec
=============================================================================
