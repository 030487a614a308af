---------------------------- MODULE SerialNumber ----------------------------
(***************************************************************************)
(* Serial numbers of FDILink frames and how fdilink_ahrs counts the        *)
(* numbers it misses.  A number is an unsigned byte: Modulus is 2^8.       *)
(***************************************************************************)
EXTENDS Integers

CONSTANT Modulus
ASSUME ModulusAssumption == Modulus \in Nat /\ Modulus >= 2

Numbers == 0 .. Modulus - 1

\* What ++ and - 1 make of an unsigned byte.
Succ(n) == IF n = Modulus - 1 THEN 0 ELSE n + 1
Pred(n) == IF n = 0 THEN Modulus - 1 ELSE n - 1

\* The numbers passed over when serial_num comes where expected was due.
\* Mutant: a number that wrapped around is taken for a negative gap.
MissingSigned(serial_num, expected) == serial_num - expected
Missing(serial_num, expected) ==
    IF serial_num < expected THEN Modulus - (expected - serial_num)
                             ELSE serial_num - expected
=============================================================================
