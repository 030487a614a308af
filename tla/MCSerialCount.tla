---------------------------- MODULE MCSerialCount -----------------------------
(***************************************************************************)
(* The loop that reads frames, as MCAhrsDriver sets it up; or the count of *)
(* its serial numbers alone, with losses and wrong numbers up to bounds.   *)
(* A behaviour is about the one or the other.                              *)
(***************************************************************************)
EXTENDS MCAhrsDriver, SerialCount

VARIABLE part

\* What differs at the start of one part is the same for the other.
SerialInit ==
    /\ part \in {"frames", "count"}
    /\ AhrsInit /\ (part = "count" => setup = ImuAndAhrs /\ serial_num = 0)
    /\ CountInit /\ (part = "frames" => number = 0)

Frames(action) == part = "frames" /\ action /\ UNCHANGED <<part, countVars>>

SerialNext ==
    \/ Frames(AhrsNext)
    \/ part = "count" /\ CountNext /\ UNCHANGED <<part, vars>>

\* The fairness of AhrsDriver.
SerialSpec ==
    /\ SerialInit /\ [][SerialNext]_<<part, vars, countVars>>
    /\ WF_vars(Frames(processLoop)) /\ SF_vars(Frames(SendFrame(TYPE_IMU)))

\* Stated in AhrsDriver, of the part with the frames: after the last fault the
\* messages come again (processLoop).
FramesComeAgain == part = "frames" => Resynchronises
=============================================================================
