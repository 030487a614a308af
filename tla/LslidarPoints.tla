--------------------------- MODULE LslidarPoints ----------------------------
(***************************************************************************)
(* What the lslidar driver does to a single point: the ring it belongs to, *)
(* by the lidar's model, and the angles that the parameters cut out.       *)
(***************************************************************************)
EXTENDS Integers, Sequences, Functions

CONSTANT FullAngle   \* azimuths 0..FullAngle-1: 36000

ASSUME PointsAssumption == FullAngle \in Nat \ {0}

VARIABLES
  ring_,                                 \* the lidar's kind of rings
  angle_disable_min, angle_disable_max,  \* two ranges of angles to cut out,
  disableAngles                          \* and what is made of them: [start, end]
pointVars == <<ring_, angle_disable_min, angle_disable_max, disableAngles>>

-----------------------------------------------------------------------------
Lines == IF ring_ \in {31, 32, 33} THEN 32 ELSE IF ring_ \in {16, 17} THEN 16 ELSE ring_

\* The ring of firing i of a round of all lines.  Mutant: 33's steps
\* of 16 rings go on past the last.
WideRingPast(i) == (i % 4) * 16 + i \div 4
WideRing(i) == (i % 4) * 16 - (IF (i % 4) * 16 >= 24 THEN 24 ELSE 0) + i \div 4
remapped_scan_idx(i) ==
  CASE ring_ = 33 -> WideRing(i)
    [] ring_ = 32 -> (i % 4) * 8 + i \div 4
    [] ring_ \in {31, 16} -> (i % 2) * (Lines \div 2) + i \div 2
    [] ring_ = 17 -> (i % 4) * 4 + i \div 4
    [] ring_ = 8 -> (i % 2) * 4 + i \div 2
    [] OTHER -> 0

-----------------------------------------------------------------------------
Cut(a, b) == [start |-> a, end |-> b]

\* One pair of parameters; a range over 0 degrees becomes two.
RangesOf(min, max) ==
  IF max % FullAngle < min % FullAngle THEN <<Cut(min % FullAngle, FullAngle), Cut(0, max % FullAngle)>>
  ELSE <<Cut(min % FullAngle, max % FullAngle)>>

\* The end of two ranges that overlap.  Mutant: that of the later one.
MergedEndLast(a, b) == b.end
MergedEnd(a, b) == IF a.end < b.end THEN b.end ELSE a.end

\* The lists that sorting by the start may give: equal ones in any order.
Sorts(ranges) ==
  {[i \in DOMAIN ranges |-> ranges[order[i]]] :
    order \in {o \in Bijection(DOMAIN ranges, DOMAIN ranges) :
                \A i, j \in DOMAIN ranges : i < j => ranges[o[i]].start <= ranges[o[j]].start}}

\* One more range, that begins behind the last one or overlaps it.
WithRange(merged, r) ==
  IF merged = <<>> \/ r.start >= merged[Len(merged)].end THEN Append(merged, r)
  ELSE [merged EXCEPT ![Len(merged)] = Cut(@.start, MergedEnd(@, r))]
mergeRanges(sorted) ==
  LET merged[n \in 0..Len(sorted)] ==
        IF n = 0 THEN <<>> ELSE WithRange(merged[n - 1], sorted[n])
  IN  merged[Len(sorted)]

\* A pair of equal angles ends the list, and the ranges so far are not merged.
Same(i) == angle_disable_min[i] % FullAngle = angle_disable_max[i] % FullAngle
Asked(i) == RangesOf(angle_disable_min[i], angle_disable_max[i])
calculateDisableAngles ==
  IF Same(1) THEN {<<Cut(0, 0)>>}
  ELSE IF Same(2) THEN {Append(Asked(1), Cut(0, 0))}
  ELSE {mergeRanges(sorted) : sorted \in Sorts(Asked(1) \o Asked(2))}

\* Is a point at this azimuth kept (poll, is_skip_angle)?
Kept(azimuth) ==
  \/ disableAngles[1] = Cut(0, 0)
  \/ \A i \in 1..Len(disableAngles) :
       ~(azimuth >= disableAngles[i].start /\ azimuth < disableAngles[i].end)

LidarRings == {33, 32, 31, 17, 16, 8, 1}
Angles == (-FullAngle)..FullAngle
PointInit ==
  /\ ring_ \in LidarRings
  /\ angle_disable_min \in [1..2 -> Angles] /\ angle_disable_max \in [1..2 -> Angles]
  /\ ring_ # 33 => angle_disable_min = <<0, 0>> /\ angle_disable_max = <<0, 0>>
  /\ disableAngles \in calculateDisableAngles
PointNext == UNCHANGED pointVars
PointSpec == PointInit /\ [][PointNext]_pointVars

-----------------------------------------------------------------------------
\* The firings of a round have different rings, on every model (poll).
RingsDiffer ==
  {remapped_scan_idx(i) : i \in 0..Lines - 1} = 0..Lines - 1

\* A point is cut out when its azimuth lies in one of the two ranges, going up
\* from the minimum, however the ranges overlap each other or 0 degrees; but
\* ranges that end at 0 degrees, or an empty first one, switch all of them off
\* (calculateDisableAngles, mergeRanges).
Within(azimuth, i) ==
  (azimuth - angle_disable_min[i]) % FullAngle < (angle_disable_max[i] - angle_disable_min[i]) % FullAngle
CutOut ==
  ~Same(1) /\ (\A i \in 1..2 : Same(i) \/ angle_disable_max[i] % FullAngle # 0)
    => \A azimuth \in 0..FullAngle - 1 : Kept(azimuth) <=> \A i \in 1..2 : ~Within(azimuth, i)

\* Points have the rings of their lasers, and those to cut out are.
PointsRight == RingsDiffer /\ CutOut
=============================================================================
