------------------------------- MODULE MCLioSam --------------------------------
(***************************************************************************)
(* The four nodes of LIO-SAM and the transform fusion.  The nodes share no *)
(* state, and what one takes from another is an input of its module; so a  *)
(* behaviour is about one of them, the part.                               *)
(***************************************************************************)
EXTENDS LioFeatures, LioMapping, LioPreintegration, LioProjection

VARIABLE part

\* Two rings of two sectors: corners in a row and apart, with and without a
\* gap, occluded or not, of either class at the first place of a ring.
OfClasses(classes) == [i \in 0..10 |-> classes[i + 1]]
Curvatures == {OfClasses(<<0, 2, 1, 2, 2, 0, 2, 2, 1, 0, 0>>),
               OfClasses(<<0, 2, 2, 2, 2, 2, 2, 2, 2, 2, 2>>),
               OfClasses(<<2, 0, 0, 2, 0, 0, 2, 0, 0, 2, 0>>),
               OfClasses(<<1, 2, 0, 2, 1, 2, 0, 0, 2, 2, 0>>)}
FewClouds == [before : {<<0, 6, 11>>, <<0, 4, 10>>}, curvature : Curvatures,
              gaps : {{}, {2}}, occluded : {{}, {3, 4}}]

lioSamVars == <<part, projectionVars, lioVars, featureVars, mappingVars>>

\* What differs at the start of one part is the same for the others.
LioSamInit ==
    /\ part \in {"projection", "preintegration", "features", "mapping"}
    /\ ProjectionInit /\ (part # "projection" => imuQueue = <<0>>)
    /\ PreintegrationInit
    /\ IF part = "features"
       THEN FeaturesInit
       ELSE /\ featured = 0 /\ ring = 0 /\ sector = 0
            /\ cornerCloud = {} /\ surfaceCloud = {} /\ cloud = <<>>
            /\ cloudSmoothness = <<>> /\ cloudCurvature = <<>>
            /\ cloudNeighborPicked = <<>> /\ cloudLabel = <<>>
    /\ MappingInit

LioSamNext ==
    \/ /\ part = "projection" /\ ProjectionNext
       /\ UNCHANGED <<part, lioVars, featureVars, mappingVars>>
    \/ /\ part = "preintegration" /\ PreintegrationNext
       /\ UNCHANGED <<part, projectionVars, featureVars, mappingVars>>
    \/ /\ part = "features" /\ FeaturesNext
       /\ UNCHANGED <<part, projectionVars, lioVars, mappingVars>>
    \/ /\ part = "mapping" /\ MappingNext
       /\ UNCHANGED <<part, projectionVars, lioVars, featureVars>>

LioSamSpec == LioSamInit /\ [][LioSamNext]_lioSamVars
=============================================================================
