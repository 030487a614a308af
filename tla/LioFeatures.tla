----------------------------- MODULE LioFeatures -------------------------------
(***************************************************************************)
(* The feature extraction of LIO-SAM: every ring of a cloud is cut into    *)
(* sectors, the points of a sector are sorted by curvature, the most       *)
(* curved ones become corners and shut out their neighbours.  The arrays   *)
(* are kept from cloud to cloud, and only the part that a cloud's          *)
(* smoothness is calculated for is written anew.                           *)
(***************************************************************************)
EXTENDS Integers, Sequences, FiniteSets, Functions

CONSTANTS
    Reach,         \* the neighbours on one side: 5
    Sectors,       \* of a ring: 6
    MostCorners,   \* of a sector: 20
    ArraySize,     \* N_SCAN * Horizon_SCAN, the points there is room for
    Clouds,        \* the clouds that come: [before, curvature, gaps, occluded], where
                   \* before has the points before each ring, and in all
    MaxFeatured    \* bound on them

Rings(scan) == Len(scan.before) - 1
Size(scan) == scan.before[Len(scan.before)]
Indices == (-Reach)..(ArraySize + Reach)  \* the arrays, and what is before and after

ASSUME FeaturesAssumption ==
    /\ Reach \in Nat \ {0} /\ Sectors \in Nat \ {0} /\ ArraySize \in Nat \ {0}
    /\ MostCorners \in Nat /\ MaxFeatured \in Nat /\ Clouds # {}
    /\ \A scan \in Clouds :
        /\ scan.before \in Seq(Nat) /\ scan.before # <<>> /\ scan.before[1] = 0
        /\ \A r, q \in 1..Len(scan.before) : r <= q => scan.before[r] <= scan.before[q]
        /\ Size(scan) <= ArraySize

\* Classes of curvature: below surfThreshold, between, above edgeThreshold.
Flat == 0
Edge == 2

VARIABLES
    featured,             \* the clouds handled so far
    cloud,                \* the current one
    cloudSmoothness,      \* the index and the value at each place
    cloudCurvature, cloudNeighborPicked, cloudLabel,
    ring, sector,         \* the next to extract from
    cornerCloud, surfaceCloud

featureVars == <<featured, cloud, cloudSmoothness, cloudCurvature, cloudNeighborPicked,
                 cloudLabel, ring, sector, cornerCloud, surfaceCloud>>

\* The bounds of a ring that cloudExtraction gives.
StartRingIndex(r) == cloud.before[r] - 1 + Reach
EndRingIndex(r) == cloud.before[r + 1] - 1 - Reach

\* Division as C++ does it, towards 0.
Quotient(a, b) == IF a >= 0 THEN a \div b ELSE -((-a) \div b)

SectorStart(r, j) ==
    Quotient(StartRingIndex(r) * (Sectors - j) + EndRingIndex(r) * j, Sectors)
SectorEnd(r, j) == SectorStart(r, j + 1) - 1

\* The arrays are not initialised, the vector is.
FeaturesInit ==
    /\ featured = 0
    /\ cloud = CHOOSE scan \in Clouds : TRUE
    /\ cloudSmoothness = [i \in Indices |-> [ind |-> 0, value |-> 0]]
    /\ \E class \in {Flat, Edge} : cloudCurvature = [i \in Indices |-> class]
    /\ \E picked \in BOOLEAN : cloudNeighborPicked = [i \in Indices |-> picked]
    /\ cloudLabel = [i \in Indices |-> 0]
    /\ ring = Rings(cloud) + 1
    /\ sector = 0
    /\ cornerCloud = {}
    /\ surfaceCloud = {}

\* The points whose smoothness is calculated.
Calculated(scan) == Reach..(Size(scan) - Reach - 1)

\* A cloud arrives when the last one is done.
FeaturesHandler(scan) ==
    /\ ring > Rings(cloud)
    /\ featured < MaxFeatured
    /\ featured' = featured + 1
    /\ cloud' = scan
    /\ cloudCurvature' =
           [i \in Indices |-> IF i \in Calculated(scan) THEN scan.curvature[i]
                              ELSE cloudCurvature[i]]
    /\ cloudLabel' = [i \in Indices |-> IF i \in Calculated(scan) THEN 0 ELSE cloudLabel[i]]
    /\ cloudSmoothness' =
           [i \in Indices |-> IF i \in Calculated(scan)
                              THEN [ind |-> i, value |-> scan.curvature[i]]
                              ELSE cloudSmoothness[i]]
    /\ cloudNeighborPicked' =
           [i \in Indices |-> \/ i \in scan.occluded
                              \/ i \notin Calculated(scan) /\ cloudNeighborPicked[i]]
    /\ ring' = 1
    /\ sector' = 0
    /\ cornerCloud' = {}
    /\ surfaceCloud' = {}

\* Is there a wide gap of columns between two points that follow each other.
Gap(i) == i \in cloud.gaps

\* A point and its neighbours up to the next gap on each side.
\* Mutant: the neighbours on one side only.
ShutOutAfter(ind) ==
    {ind + l : l \in {m \in 0..Reach : \A n \in 0..(m - 1) : ~Gap(ind + n)}}
ShutOut(ind) ==
    {ind + l : l \in {m \in 0..Reach : \A n \in 0..(m - 1) : ~Gap(ind + n)}}
        \cup {ind - l : l \in {m \in 1..Reach : \A n \in 1..m : ~Gap(ind - n)}}

\* One more point, of those sorted, as a corner of the sector.
PickCorner(picks, ind) ==
    IF picks.full \/ picks.picked[ind] \/ cloudCurvature[ind] # Edge THEN picks
    ELSE IF Cardinality(picks.corners) = MostCorners THEN [picks EXCEPT !.full = TRUE]
    ELSE [picks EXCEPT !.corners = @ \cup {ind},
                       !.picked = [i \in Indices |-> @[i] \/ i \in ShutOut(ind)]]

\* One more point as a flat one.
PickFlat(picks, ind) ==
    IF picks.picked[ind] \/ cloudCurvature[ind] # Flat THEN picks
    ELSE [picks EXCEPT !.flats = @ \cup {ind},
                       !.picked = [i \in Indices |-> @[i] \/ i \in ShutOut(ind)]]

\* The orders that a sort by value may bring the entries first..last-1 into.
Sorts(first, last) ==
    {order \in [first..(last - 1) -> first..(last - 1)] :
        /\ IsInjective(order)
        /\ \A k, l \in DOMAIN order : k < l =>
               cloudSmoothness[order[k]].value <= cloudSmoothness[order[l]].value}
Sorted(order) ==
    [i \in Indices |-> cloudSmoothness[IF i \in DOMAIN order THEN order[i] ELSE i]]

\* The corners of the sorted sector, from its last entry to its first, and then
\* its flat points, from the first to the last.
NonePicked == [corners |-> {}, flats |-> {}, full |-> FALSE, picked |-> cloudNeighborPicked]
CornersPicked(sorted, first, last) ==
    LET picks[n \in 0..(last - first + 1)] ==
            IF n = 0 THEN NonePicked ELSE PickCorner(picks[n - 1], sorted[last - n + 1].ind)
    IN  picks[last - first + 1]
AllPicked(sorted, first, last) ==
    LET picks[n \in 0..(last - first + 1)] ==
            IF n = 0 THEN CornersPicked(sorted, first, last)
            ELSE PickFlat(picks[n - 1], sorted[first + n - 1].ind)
    IN  picks[last - first + 1]

Labelled(picks) ==
    [i \in Indices |-> IF i \in picks.flats THEN -1
                       ELSE IF i \in picks.corners THEN 1 ELSE cloudLabel[i]]

NextSector ==
    /\ sector' = (sector + 1) % Sectors
    /\ ring' = IF sector + 1 = Sectors THEN ring + 1 ELSE ring
    /\ UNCHANGED <<featured, cloud, cloudCurvature>>

ExtractSector(first, last, order) ==
    LET picks == AllPicked(Sorted(order), first, last)
    IN  /\ cloudSmoothness' = Sorted(order)
        /\ cloudNeighborPicked' = picks.picked
        /\ cloudLabel' = Labelled(picks)
        /\ cornerCloud' = cornerCloud \cup picks.corners
        /\ surfaceCloud' = surfaceCloud \cup {k \in first..last : cloudLabel'[k] <= 0}

\* Sectors of no more than one point are passed over.
extractFeatures ==
    LET sp == SectorStart(ring, sector)
        ep == SectorEnd(ring, sector)
    IN  /\ ring <= Rings(cloud)
        /\ NextSector
        /\ \/ sp >= ep /\ UNCHANGED <<cloudSmoothness, cloudNeighborPicked, cloudLabel,
                                      cornerCloud, surfaceCloud>>
           \/ sp < ep /\ \E order \in Sorts(sp, ep) : ExtractSector(sp, ep, order)

FeaturesNext == extractFeatures \/ \E scan \in Clouds : FeaturesHandler(scan)

FeaturesSpec == FeaturesInit /\ [][FeaturesNext]_featureVars

----------------------------------------------------------------------------
\* Corners are apart: between two of them, of whatever sectors, there are
\* Reach points or a gap, and none is occluded; the surface has no corner,
\* whatever the arrays kept of earlier clouds (extractFeatures).
CornersApart ==
    /\ \A c, d \in cornerCloud :
           c < d /\ d - c <= Reach => \E i \in c..(d - 1) : Gap(i)
    /\ \A c \in cornerCloud : c \notin cloud.occluded
    /\ cornerCloud \cap surfaceCloud = {}
=============================================================================
