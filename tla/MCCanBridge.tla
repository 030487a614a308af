---------------------------- MODULE MCCanBridge ----------------------------
(***************************************************************************)
(* A receive thread alone, with a driver whose calls fail, or two threads  *)
(* over a driver whose calls only fail without a box.                      *)
(***************************************************************************)
EXTENDS CanBridge

MCApart == {[faults |-> 2, unplugs |-> 2, frames |-> 0],
            [faults |-> 0, unplugs |-> 2, frames |-> 3]}

\* Both threads and a driver whose calls fail.
MCRace == {[faults |-> 2, unplugs |-> 0, frames |-> 2]}
=============================================================================
