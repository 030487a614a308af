----------------------------- MODULE SerialCount -----------------------------
(***************************************************************************)
(* The serial numbers that fdilink_ahrs counts, frame by frame: which      *)
(* bytes a frame is made of, and how it was lost, is the matter of         *)
(* AhrsDriver.  The number of a parsed frame is counted after its CRC8 has *)
(* been checked; that of a skipped one (TYPE_GROUND, 0x50) as it is read,  *)
(* whether it is the frame's, a damaged one, no number at all after a read *)
(* that timed out, or a byte of something else that looked like a header.  *)
(* Fewer than Modulus frames are lost in a row.  The variables have names  *)
(* of their own, so that one behaviour can be about this count or about    *)
(* the frames.                                                             *)
(***************************************************************************)
EXTENDS SerialNumber

CONSTANTS
    Types,       \* the frame types that are parsed
    AnchorTypes, \* those whose first frame sets read_sn_
    MaxLost,     \* bound on the frames lost, and on the count before the anchor
    MaxWrong     \* bound on the wrong numbers counted

VARIABLES
    last_sn,     \* read_sn_: the serial number of the last frame
    anchored,    \* frist_sn_: has a frame set it
    counted,     \* sn_lost_: the numbers counted as missing
    number,      \* the serial number of the device's next frame
    gap,         \* history: frames lost since the last one that arrived
    lost,        \* history: frames lost between frames that arrived
    arrived_sn,  \* history: the true number of the last frame that arrived
    before,      \* history: what was counted when read_sn_ was set
    wrong,       \* history: wrong numbers counted since then
    phantoms     \* history: those of them that no frame of the device had

numbering == <<number, gap, arrived_sn>>
countVars == <<last_sn, anchored, counted, numbering, lost, before, wrong, phantoms>>

CountTypeOK ==
    /\ last_sn \in Numbers
    /\ anchored \in BOOLEAN
    /\ {number, arrived_sn} \subseteq Numbers
    /\ {counted, gap, lost, before, wrong, phantoms} \subseteq Nat

CountInit ==
    /\ last_sn = 0
    /\ anchored = FALSE
    /\ counted = 0
    /\ number \in Numbers
    /\ arrived_sn = Pred(number)
    /\ gap = 0
    /\ lost = 0
    /\ before = 0
    /\ wrong = 0
    /\ phantoms = 0

\* The device's next frame arrives, the ones before it that did not are known.
Arrives ==
    /\ number' = Succ(number)
    /\ arrived_sn' = number
    /\ gap' = 0

\* A frame does not arrive, or its header is damaged.
Lose ==
    /\ gap < Modulus - 1
    /\ lost + gap < MaxLost
    /\ number' = Succ(number)
    /\ gap' = gap + 1
    /\ UNCHANGED <<last_sn, anchored, counted, lost, arrived_sn, before, wrong, phantoms>>

\* What is counted is of interest once read_sn_ has been set; before that, only
\* how much it is (a bound ends that).
Counts(lostNow, wrongNow, phantomNow) ==
    IF anchored
    THEN /\ lost' = lost + lostNow
         /\ wrong' = wrong + wrongNow
         /\ phantoms' = phantoms + phantomNow
         /\ wrong' <= MaxWrong
         /\ UNCHANGED before
    ELSE /\ before' = IF anchored' THEN counted ELSE counted'
         /\ anchored' \/ counted' <= MaxLost
         /\ UNCHANGED <<lost, wrong, phantoms>>

\* The number that read_sn_ has when the check of a parsed frame starts.
\* Mutant: every frame anchors, not only the first.
CountedFromAlways(type) == IF type \in AnchorTypes THEN Pred(number) ELSE last_sn
CountedFrom(type) ==
    IF type \in AnchorTypes /\ ~anchored THEN Pred(number) ELSE last_sn

\* A parsed frame arrives and its serial number is checked.
checkSN(type) ==
    /\ counted' = counted + Missing(number, Succ(CountedFrom(type)))
    /\ last_sn' = number
    /\ anchored' = (anchored \/ type \in AnchorTypes)
    /\ Arrives
    /\ Counts(gap, 0, 0)

\* ground_sn: the number of a skipped frame is counted without a check.
CountGround(ground_sn) ==
    /\ counted' = counted + Missing(ground_sn, Succ(last_sn))
    /\ last_sn' = ground_sn
    /\ UNCHANGED anchored

SkipFrame(ground_sn) ==
    /\ CountGround(ground_sn)
    /\ Arrives
    /\ Counts(gap, IF ground_sn = number THEN 0 ELSE 1, 0)

\* What is skipped is no frame of the device's, it only began like one.
SkipPhantom(ground_sn) ==
    /\ CountGround(ground_sn)
    /\ UNCHANGED numbering
    /\ Counts(0, 1, 1)

CountNext ==
    \/ Lose
    \/ \E type \in Types : checkSN(type)
    \/ \E ground_sn \in Numbers : SkipFrame(ground_sn) \/ SkipPhantom(ground_sn)
CountSpec == CountInit /\ [][CountNext]_countVars

\* What has been counted since read_sn_ was set, apart from the frames that were
\* lost; a phantom stands for a frame that is not there.
Excess == counted + phantoms - before - lost

\* However the numbers wrap around, the driver counts exactly the frames that
\* were lost since the frame that set read_sn_; every wrong number it counts
\* puts it off by a round at most, either way, and once a right number has come
\* again, by whole rounds (checkSN, and processLoop for skipped frames).
LossExact ==
    anchored =>
        /\ Excess \in -(wrong * Modulus) .. wrong * Modulus
        /\ last_sn = arrived_sn => \E k \in -wrong .. wrong : Excess = k * Modulus

\* The distance from the last frame that arrived to the device's next one is
\* the number of frames lost in between: what makes LossExact inductive.
GapMeasured == Missing(number, Succ(arrived_sn)) = gap
=============================================================================
