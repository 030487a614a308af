--------------------------- MODULE MCLidarDriver ---------------------------
(***************************************************************************)
(* The parts of rs_driver that packets go through; a behaviour is about    *)
(* one of them: the node's threads, the queue between two of them, the     *)
(* reading of captured packets, or the choice of the ports to read.        *)
(***************************************************************************)
EXTENDS RsDriver, SyncQueue, LidarInput

VARIABLE part
vars == <<part, driverVars, queueVars, inputVars>>

Init ==
  /\ part \in {"threads", "queue", "input", "ports"}
  /\ DriverInit /\ QueueInit /\ InputInit
  /\ part # "ports" => ports = <<1, 2, 3>>
  /\ part # "input" => firstId = 0
Next ==
  \/ part = "threads" /\ DriverNext /\ UNCHANGED <<part, queueVars, inputVars>>
  \/ part = "queue" /\ QueueNext /\ UNCHANGED <<part, driverVars, inputVars>>
  \/ part = "input" /\ InputNext /\ UNCHANGED <<part, driverVars, queueVars>>
Spec == Init /\ [][Next]_vars /\ (part = "threads" => DriverFairness)
=============================================================================
