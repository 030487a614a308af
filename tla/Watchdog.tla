------------------------------ MODULE Watchdog ------------------------------
(***************************************************************************)
(* What a command watchdog promises: a machine that only moves while it is *)
(* armed, and that never keeps moving for longer than Deadline after it    *)
(* was last fed.  Arming feeds the watchdog, and so does every command.    *)
(***************************************************************************)
EXTENDS Naturals

CONSTANT Deadline

VARIABLES armed, moving, quiet

Init == armed = FALSE /\ moving = FALSE /\ quiet = 0

Arm == armed' = TRUE /\ quiet' = 0 /\ UNCHANGED moving
Disarm == armed' = FALSE /\ moving' = FALSE /\ quiet' = 0
Feed == armed /\ moving' \in BOOLEAN /\ quiet' = 0 /\ UNCHANGED armed
Stop == moving' = FALSE /\ UNCHANGED <<armed, quiet>>

\* Time stands still before a machine that must stop by now.
Tick == /\ moving => quiet < Deadline
        /\ quiet' = IF quiet < Deadline THEN quiet + 1 ELSE quiet
        /\ UNCHANGED <<armed, moving>>

Next == Arm \/ Disarm \/ Feed \/ Stop \/ Tick
Spec == Init /\ [][Next]_<<armed, moving, quiet>>
=============================================================================
