------------------------------ MODULE Handover ------------------------------
(***************************************************************************)
(* What rs_driver expects of a queue between two threads: items numbered   *)
(* in the order they are put are taken in that order, each exactly once,   *)
(* up to Batch at a time, and at most Room wait.                           *)
(***************************************************************************)
EXTENDS Integers

CONSTANTS Room, Batch
VARIABLES put, taken   \* the last item put, and the last one taken

Put == put - taken < Room /\ put' = put + 1 /\ UNCHANGED taken
Take ==
  /\ \E n \in 1..Batch : taken' = taken + n
  /\ taken' <= put
  /\ UNCHANGED put

HandoverInit == put = 0 /\ taken = 0
HandoverNext == Put \/ Take
HandoverSpec == HandoverInit /\ [][HandoverNext]_<<put, taken>>
=============================================================================
