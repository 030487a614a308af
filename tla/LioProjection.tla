----------------------------- MODULE LioProjection -----------------------------
(***************************************************************************)
(* The image projection of LIO-SAM and the converter before it: a cloud    *)
(* waits for two more, its scan for IMU messages that cover it, and each   *)
(* point is turned by what the gyroscope measured up to the point's time.  *)
(* The clouds' points are absolute times, one per tick of their scan; the  *)
(* rotation of a point is the pair of IMU messages it is taken between.    *)
(***************************************************************************)
EXTENDS Integers, Sequences, SequencesExt

CONSTANTS
    Margin,     \* how long before and after the scan messages are of use, at least ImuPeriod
    ImuPeriod,  \* of the IMU messages
    ScanTime,   \* the duration of a scan
    StampedAt,  \* the time of a scan's stamp: 0 at its start, ScanTime at its end
    OdomGaps,   \* the times from one odometry to the next
    MaxStamp,   \* bound on the time of IMU messages and odometry
    MaxScans    \* bound on the scans

ASSUME ProjectionAssumption ==
    /\ ImuPeriod \in Nat \ {0} /\ Margin \in Nat /\ Margin >= ImuPeriod
    /\ ScanTime \in Nat /\ StampedAt \in {0, ScanTime}
    /\ OdomGaps \subseteq Nat /\ MaxStamp \in Nat /\ MaxScans \in Nat

VARIABLES
    lastOdom,     \* the stamp of the newest odometry
    scans,        \* the scans the lidar has finished
    imuQueue,     \* stamps, and those of the other queues
    odomQueue,
    cloudQueue,
    projecting,   \* has a cloud left the queue and is not projected yet
    cloudHeader,  \* its stamp
    timeScanCur,
    timeScanEnd,
    imuTime,      \* the stamps up to which rotations were integrated
    odom_available,
    guess,        \* the stamp of the odometry that is the initial guess
    odomDeskewFlag,
    rotations     \* the last cloud's points, and the rotation of each

queues == <<imuQueue, odomQueue, cloudQueue>>
scan == <<cloudHeader, timeScanCur, timeScanEnd>>
infos == <<imuTime, odom_available, guess, odomDeskewFlag, rotations>>
projectionVars == <<scans, lastOdom, queues, projecting, scan, infos>>

\* How many messages a loop goes over that ends at the first not older than a
\* time, and what is left when they are popped.
Before(queue, time) ==
    CHOOSE n \in 0..Len(queue) :
        /\ \A i \in 1..n : queue[i] < time
        /\ n < Len(queue) => queue[n + 1] >= time
PopOlder(queue, time) == SubSeq(queue, Before(queue, time) + 1, Len(queue))

ProjectionInit ==
    /\ scans = 0
    /\ imuQueue \in {<<phase>> : phase \in 0..(ImuPeriod - 1)}
    /\ lastOdom = 0
    /\ odomQueue = <<>>
    /\ cloudQueue = <<>>
    /\ projecting = FALSE
    /\ cloudHeader = 0
    /\ timeScanCur = 0
    /\ timeScanEnd = 0
    /\ imuTime = <<>>
    /\ odom_available = FALSE
    /\ guess = 0
    /\ odomDeskewFlag = FALSE
    /\ rotations = {}

\* IMU messages come reliably and in order.
ImuArrives ==
    /\ Last(imuQueue) + ImuPeriod <= MaxStamp
    /\ imuQueue' = Append(imuQueue, Last(imuQueue) + ImuPeriod)
    /\ UNCHANGED <<scans, lastOdom, odomQueue, cloudQueue, projecting, scan, infos>>

\* The odometry pauses where it is initialised again.
OdometryArrives ==
    /\ \E gap \in OdomGaps :
           /\ lastOdom + gap <= MaxStamp
           /\ lastOdom' = lastOdom + gap
           /\ odomQueue' = Append(odomQueue, lastOdom')
    /\ UNCHANGED <<scans, imuQueue, cloudQueue, projecting, scan, infos>>

----------------------------------------------------------------------------
\* The time of a point that leaves the converter: that of its cloud taken off.
Relative(time, stamp) == time - stamp

\* A cloud arrives, or is lost; the third last one is taken up.
CloudArrives(lost) ==
    /\ ~projecting
    /\ scans < MaxScans
    /\ scans' = scans + 1
    /\ LET stamp == scans * ScanTime + StampedAt
           waiting == IF lost THEN cloudQueue ELSE Append(cloudQueue, stamp)
           first == Relative(Head(waiting) - StampedAt, Head(waiting))
           last == Relative(Head(waiting) - StampedAt + ScanTime, Head(waiting))
       IN  \/ /\ Len(waiting) <= 2
              /\ cloudQueue' = waiting
              /\ UNCHANGED <<projecting, scan>>
           \/ /\ Len(waiting) > 2
              /\ cloudQueue' = Tail(waiting)
              /\ cloudHeader' = Head(waiting)
              /\ timeScanCur' = cloudHeader' + (IF first < 0 THEN first ELSE 0)
              /\ timeScanEnd' = cloudHeader' + (IF first < 0 THEN 0 ELSE last)
              /\ projecting' = TRUE
    /\ UNCHANGED <<lastOdom, imuQueue, odomQueue, infos>>

ImuCoversScan ==
    /\ imuQueue # <<>>
    /\ Head(imuQueue) <= timeScanCur
    /\ Last(imuQueue) >= timeScanEnd

\* The stamps that rotations are integrated over: from the first message of
\* the margin to the last.
imuDeskewInfo ==
    /\ imuQueue' = PopOlder(imuQueue, timeScanCur - Margin)
    /\ imuTime' = SubSeq(imuQueue', 1, Before(imuQueue', timeScanEnd + Margin + 1))

\* The first odometry of the scan is the guess, or the last one before it.
From(queue, time) ==
    LET after == PopOlder(queue, time)
    IN  IF after = <<>> THEN Last(queue) ELSE Head(after)

odomDeskewInfo ==
    LET queue == PopOlder(odomQueue, timeScanCur - Margin)
        usable == queue # <<>> /\ Head(queue) <= timeScanCur
    IN  /\ odomQueue' = queue
        /\ odom_available' = usable
        /\ guess' = IF usable THEN From(queue, timeScanCur) ELSE guess
        /\ odomDeskewFlag' = (usable /\ Last(queue) >= timeScanEnd)

\* The stamps between which the rotation at a time is interpolated, one stamp
\* twice where it is not.  Mutant: the search stops one message late.
findRotationLate(time) ==
    LET last == Len(imuTime')
        later == {i \in 1..(last - 1) : time < imuTime'[i]}
        front == IF later = {} THEN last
                 ELSE (CHOOSE i \in later : \A j \in later : i <= j) + 1
    IN  IF time > imuTime'[front] \/ front = 1 THEN <<imuTime'[front], imuTime'[front]>>
        ELSE <<imuTime'[front - 1], imuTime'[front]>>

findRotation(time) ==
    LET last == Len(imuTime')
        later == {i \in 1..(last - 1) : time < imuTime'[i]}
        front == IF later = {} THEN last ELSE CHOOSE i \in later : \A j \in later : i <= j
    IN  IF time > imuTime'[front] \/ front = 1 THEN <<imuTime'[front], imuTime'[front]>>
        ELSE <<imuTime'[front - 1], imuTime'[front]>>

deskewPoint(captured) ==
    [captured |-> captured,
     between |-> findRotation(timeScanCur + Relative(captured, cloudHeader))]

\* A cloud is projected, or dropped where no IMU messages cover its scan; a
\* single message is no rotation and leaves the points as they are.
Project ==
    /\ projecting
    /\ projecting' = FALSE
    /\ UNCHANGED <<scans, lastOdom, cloudQueue, scan>>
    /\ \/ /\ ~ImuCoversScan
          /\ UNCHANGED <<imuQueue, odomQueue, infos>>
       \/ /\ ImuCoversScan
          /\ imuDeskewInfo
          /\ odomDeskewInfo
          /\ rotations' =
                 IF Len(imuTime') <= 1 THEN {}
                 ELSE {deskewPoint(cloudHeader - StampedAt + tick) : tick \in 0..ScanTime}

ProjectionNext ==
    \/ ImuArrives
    \/ OdometryArrives
    \/ \E lost \in BOOLEAN : CloudArrives(lost)
    \/ Project

ProjectionSpec == ProjectionInit /\ [][ProjectionNext]_projectionVars

----------------------------------------------------------------------------
\* Every point is turned by the rotation of the time it was captured at: it
\* lies between the two IMU messages its rotation is taken between, however
\* the messages lie to the ends of the scan (deskewPoint, findRotation).
Deskewed ==
    \A point \in rotations :
        point.between[1] <= point.captured /\ point.captured <= point.between[2]
=============================================================================
