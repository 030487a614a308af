------------------------------ MODULE MCWtbCar ------------------------------
(***************************************************************************)
(* The chassis driver's two sides, which share no state: a behaviour is    *)
(* about one of them.                                                      *)
(***************************************************************************)
EXTENDS WtbCar, CarFeedback

VARIABLE side

\* Commands: a limit of 1 m/s, with commands below, at and above it, one in
\* reverse, and steering with a fraction of a degree to lose.
Forward == [speed |-> 2000, steer |-> 3550]
Slow == [speed |-> 300, steer |-> -50]
Standstill == [speed |-> 0, steer |-> 0]
Reverse == [speed |-> -2000, steer |-> 1000]
MCNav2 == {Forward, Slow, Standstill}
MCAutoware == {Slow, Reverse}

\* Feedback: a car that stands, crawls below MIN_SPEED, moves at it, and turns
\* while it moves; signals below, at and above the borders of half bytes, bytes
\* and sign; a clock set back, and forwards by more than MAX_DT.
MCReports == {[gear |-> "N", speed |-> 0, angle |-> 0],
              [gear |-> "D", speed |-> 4, angle |-> 0],
              [gear |-> "R", speed |-> 5, angle |-> 100],
              [gear |-> "D", speed |-> 10, angle |-> -100]}
ExtremeSpeeds == {0, 15, 16, 255, 256, 4095, 4096, 43981, 65535}
ExtremeAngles == {1, -1, -16, -17, 4095, 4096, -4096, -4097, 32767, -32768}
MCExtremes == [gear : {"R", "D"}, speed : ExtremeSpeeds, angle : {1}]
                \cup [gear : {"D"}, speed : {0, 43981}, angle : ExtremeAngles]
MCCurvature == [a \in ExtremeAngles \cup {0, 100, -100} |-> a \div 10]

MCJumps == {-2, 3}

vars == <<side, carVars, feedbackVars>>
Init == side \in {"command", "feedback"} /\ CarInit /\ FeedbackInit
Next ==
  /\ UNCHANGED side
  /\ \/ side = "command" /\ CarNext /\ UNCHANGED feedbackVars
     \/ side = "feedback" /\ FeedbackNext /\ UNCHANGED carVars
Spec == Init /\ [][Next]_vars
=============================================================================
