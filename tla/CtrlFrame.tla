------------------------------ MODULE CtrlFrame ------------------------------
(***************************************************************************)
(* The eight bytes of the control frame 0x18C4D2D0 and of the feedback     *)
(* frame 0x18C4D2EF, which share one layout: gear, a 16-bit speed in mm/s  *)
(* and a signed 16-bit angle in 0.01 degree, shifted by half a byte, then  *)
(* the rolling counter and a checksum.                                     *)
(***************************************************************************)
EXTENDS Integers, FiniteSets, FiniteSetsExt, Sequences

Gears == <<"disable", "P", "R", "N", "D">>

\* Hexadecimal digit i of an integer, in two's complement.
Weights == <<1, 16, 256, 4096>>
Digit(n, i) == (n \div Weights[i + 1]) % 16

\* The exclusive or of bytes: a bit is set where an odd number of them has it.
Checksum(bytes) ==
    LET with(bit) == {i \in DOMAIN bytes : (bytes[i] \div bit) % 2 = 1}
    IN  MapThenSumSet(LAMBDA bit : bit * (Cardinality(with(bit)) % 2),
                      {1, 2, 4, 8, 16, 32, 64, 128})

\* data[i] is element i + 1.
CtrlFrameBytes(gear, speed, angle, alive) ==
    LET body == <<(CHOOSE g \in DOMAIN Gears : Gears[g] = gear) - 1 + 16 * Digit(speed, 0),
                  (speed \div 16) % 256,
                  Digit(speed, 3) + 16 * Digit(angle, 0),
                  (angle \div 16) % 256,
                  Digit(angle, 3),
                  0,
                  16 * Digit(alive, 0)>>
    IN Append(body, Checksum(body))

\* Sixteen bits as a signed number.
\* Mutant: -32768 taken for positive.
SignedPositiveLimit(n) == IF n > 32768 THEN n - 65536 ELSE n
Signed(n) == IF n >= 32768 THEN n - 65536 ELSE n

\* The gear is empty where the code names an unknown one by its number.
ParseCtrlFb(data) ==
    LET digit(i, j) == Digit(data[i + 1], j)
    IN [gear  |-> IF digit(0, 0) < Len(Gears) THEN Gears[digit(0, 0) + 1] ELSE "",
        speed |-> 4096 * digit(2, 0) + 16 * data[2] + digit(0, 1),
        angle |-> Signed(4096 * digit(4, 0) + 16 * data[4] + digit(2, 1))]
=============================================================================
