--------------------------- MODULE LslidarProofs ---------------------------
(***************************************************************************)
(* Of the lslidar driver: the correction of time stamps is right for every *)
(* resolution of time, as long as seconds and data packets come within     *)
(* poll's limits; the lidar keeps the settings it was asked for, for every *)
(* number of requests and of packets in flight; and the clouds are the     *)
(* turns of the lidar, for every speed and size of packets within the      *)
(* limits of the search for a new turn; and points have the rings of their *)
(* lasers, and those to cut out are, for every circle and two ranges.      *)
(***************************************************************************)
EXTENDS LslidarControl, LslidarStamp, LslidarSweep, LslidarPoints, Lemmas, SequenceTheorems, FiniteSetTheorems

StampInv == now \in Nat /\ StampTrue

\* Seconds a little late or early are those of the packet, or of the second
\* before at its beginning, or of the second after at its end.
LEMMA SecondsNearby ==
  ASSUME NEW time \in Nat, NEW skew \in 1 - Skew..Skew - 1,
         NEW q \in Int, NEW part \in 0..Parts - 1, q * Parts + part = time
  PROVE  LET seconds == (time + skew) \div Parts
         IN  \/ seconds = q
             \/ seconds = q - 1 /\ part < Parts \div 10
             \/ seconds = q + 1 /\ part > Parts - Parts \div 10
<1>1. /\ Parts \in Nat \ {0} /\ Skew \in Nat /\ skew \in Int
      /\ skew < Skew /\ -skew < Skew /\ Parts \div 10 \in Nat /\ Skew <= Parts \div 10
      /\ Parts \div 10 <= Parts
  BY StampAssumption, RoomAssumption
<1> DEFINE tenth == Parts \div 10
           seconds == (time + skew) \div Parts
<1> HIDE DEF tenth
<1>2. CASE part + skew < 0
  <2>1. part + skew + Parts \in 0..Parts - 1 /\ part < tenth
    BY <1>1, <1>2 DEF tenth
  <2>2. (q - 1) * Parts + (part + skew + Parts) = time + skew
    BY <1>1
  <2>3. seconds = q - 1
    BY <1>1, <2>1, <2>2, q - 1 \in Int, time + skew \in Int, DivModIs
  <2>4. QED  BY <2>1, <2>3 DEF tenth
<1>3. CASE part + skew >= Parts
  <2>1. part + skew - Parts \in 0..Parts - 1 /\ part > Parts - tenth
    BY <1>1, <1>3 DEF tenth
  <2>2. (q + 1) * Parts + (part + skew - Parts) = time + skew
    BY <1>1
  <2>3. seconds = q + 1
    BY <1>1, <2>1, <2>2, q + 1 \in Int, time + skew \in Int, DivModIs
  <2>4. QED  BY <2>1, <2>3 DEF tenth
<1>4. CASE part + skew \in 0..Parts - 1
  <2>1. q * Parts + (part + skew) = time + skew
    BY <1>1
  <2>2. seconds = q
    BY <1>1, <1>4, <2>1, time + skew \in Int, DivModIs
  <2>3. QED  BY <2>2
<1>5. QED  BY <1>1, <1>2, <1>3, <1>4

\* A stamp with the right seconds stays, one with the wrong ones is put right.
LEMMA CorrectedTrue ==
  ASSUME NEW bak \in Nat, NEW gap \in 1..MaxGap, NEW part \in 0..Parts - 1,
         NEW stamp \in Int,
         \/ stamp = bak + gap
         \/ stamp = bak + gap - Parts /\ part < Parts \div 10
         \/ stamp = bak + gap + Parts /\ part > Parts - Parts \div 10
  PROVE  Corrected(stamp, bak, part) = bak + gap
<1> DEFINE tenth == Parts \div 10
           fifth == Parts \div 5
<1>1. /\ Parts \in Nat \ {0} /\ gap \in Nat /\ gap >= 1 /\ tenth \in Nat /\ fifth \in Nat
      /\ gap < fifth /\ fifth < Parts
  BY StampAssumption, RoomAssumption
<1>2. /\ Behind(stamp, bak, part) <=> stamp < bak /\ bak - stamp < Parts /\ part < tenth
      /\ Ahead(stamp, bak, part) <=> /\ stamp - bak > Parts /\ stamp - bak < Parts + fifth
                                     /\ part > Parts - tenth
  BY DEF Behind, Ahead
<1> HIDE DEF tenth, fifth
<1>3. CASE stamp = bak + gap
  <2>1. ~Behind(stamp, bak, part) /\ ~Ahead(stamp, bak, part)
    BY <1>1, <1>2, <1>3
  <2>2. QED  BY <1>3, <2>1 DEF Corrected
<1>4. CASE stamp = bak + gap - Parts /\ part < tenth
  <2>1. Behind(stamp, bak, part)
    BY <1>1, <1>2, <1>4
  <2>2. stamp + Parts = bak + gap
    BY <1>1, <1>4
  <2>3. QED  BY <2>1, <2>2 DEF Corrected
<1>5. CASE stamp = bak + gap + Parts /\ part > Parts - tenth
  <2>1. ~Behind(stamp, bak, part) /\ Ahead(stamp, bak, part)
    BY <1>1, <1>2, <1>5
  <2>2. stamp - Parts = bak + gap
    BY <1>1, <1>5
  <2>3. QED  BY <2>1, <2>2 DEF Corrected
<1>6. QED  BY <1>3, <1>4, <1>5 DEF tenth

\* Seconds times Parts, and the part, make up the time or miss it by a second.
LEMMA StampNearby ==
  ASSUME NEW time \in Int, NEW q \in Int, NEW part \in 0..Parts - 1,
         q * Parts + part = time
  PROVE  /\ (q - 1) * Parts + part = time - Parts
         /\ (q + 1) * Parts + part = time + Parts
BY StampAssumption

\* What poll makes of a packet's part of a second and the seconds it has.
LEMMA PacketStamped ==
  ASSUME NEW bak \in Nat, NEW gap \in 1..MaxGap, NEW skew \in 1 - Skew..Skew - 1,
         NEW time \in Nat, time = bak + gap
  PROVE  LET part == time % Parts
         IN  Corrected((((time + skew) \div Parts) * Parts) + part, bak, part) = time
<1> DEFINE q == time \div Parts
           part == time % Parts
           seconds == (time + skew) \div Parts
           stamp == (seconds * Parts) + part
<1>1. Parts \in Nat \ {0} /\ Skew \in Nat /\ time \in Int /\ time + skew \in Int
  BY StampAssumption
<1>2. q \in Int /\ part \in 0..Parts - 1 /\ q * Parts + part = time
  BY <1>1, DivMod
<1>3. seconds \in Int
  BY <1>1
<1> HIDE DEF q, part
<1>4. \/ seconds = q
      \/ seconds = q - 1 /\ part < Parts \div 10
      \/ seconds = q + 1 /\ part > Parts - Parts \div 10
  BY <1>2, SecondsNearby
<1> HIDE DEF seconds
<1>5. stamp \in Int
  BY <1>1, <1>2, <1>3
<1>6. /\ (q - 1) * Parts + part = time - Parts
      /\ (q + 1) * Parts + part = time + Parts
  BY <1>1, <1>2, StampNearby
<1>7. /\ seconds = q => stamp = time
      /\ seconds = q - 1 => stamp = time - Parts
      /\ seconds = q + 1 => stamp = time + Parts
  BY <1>2, <1>6
<1> HIDE DEF stamp
<1>8. /\ seconds = q => stamp = bak + gap
      /\ seconds = q - 1 => stamp = bak + gap - Parts
      /\ seconds = q + 1 => stamp = bak + gap + Parts
  BY <1>1, <1>5, <1>7
<1>9. Corrected(stamp, bak, part) = bak + gap
  BY <1>2, <1>4, <1>5, <1>8, CorrectedTrue
<1>10. QED  BY <1>9 DEF stamp, seconds, part

\* A data packet gets the stamp of its own time, whatever second the device
\* packets are at.
LEMMA StampStep ==
  ASSUME StampInv, [StampPacket]_stampVars
  PROVE  StampInv'
<1>1. CASE UNCHANGED stampVars
  BY <1>1 DEF stampVars, StampInv, StampTrue
<1>2. CASE StampPacket
  <2>1. PICK gap \in 1..MaxGap, skew \in 1 - Skew..Skew - 1 :
          now' = now + gap /\ packet_time_s' = (now' + skew) \div Parts
    BY <1>2 DEF StampPacket
  <2>2. now \in Nat /\ timeStamp_bak = now /\ now' \in Nat
    BY <2>1, StampAssumption DEF StampInv, StampTrue
  <2>3. timeStamp_bak' = Corrected((((now' + skew) \div Parts) * Parts) + (now' % Parts),
                                   now, now' % Parts)
    BY <1>2, <2>1, <2>2 DEF StampPacket
  <2>4. timeStamp_bak' = now'
    BY <2>1, <2>2, <2>3, PacketStamped
  <2>5. QED  BY <2>2, <2>4 DEF StampInv, StampTrue
<1>3. QED  BY <1>1, <1>2

\* Every stamp is its packet's time: for every resolution of time, whenever the
\* seconds change, when data packets come within poll's limits.
THEOREM StampsTrue == StampSpec => []StampTrue
<1>1. StampInit => StampInv
  BY StampAssumption DEF StampInit, StampInv, StampTrue
<1>2. StampInv => StampTrue
  BY DEF StampInv
<1>3. QED  BY <1>1, <1>2, StampStep, PTL DEF StampSpec

-----------------------------------------------------------------------------
\* The configurations there may be: while difop_data was never read half written,
\* those with different ports.
Sound == {c \in Configs : torn \/ c.data # c.dev}

ControlTypes ==
  /\ settings \in Sound /\ difops \in Seq(Sound) /\ commands \in Seq(Sound)
  /\ is_get_difop_ \in BOOLEAN /\ disturbed \in BOOLEAN /\ torn \in BOOLEAN
  /\ difopPoll \in {"read", "copy", "handle", "determine"}
  /\ service \in {"idle", "taken", "check", "wait"}

\* What the next command is made of is a configuration the lidar had,
Copied ==
  /\ is_get_difop_ \/ difopPoll \in {"handle", "determine"} => difop_data \in Sound
  /\ difopPoll = "copy" => fresh \in Sound
  /\ service \in {"taken", "check"} => config \in Sound

\* and, undisturbed, the one it has: at most one command is on its way, and while
\* it is, no request has a packet to use and difopPoll has none in hand; nor while
\* powerOn is about to send it.
Undisturbed ==
  /\ commands = <<wanted>> \/ (commands = <<>> /\ settings = wanted)
  /\ is_get_difop_ \/ difopPoll # "read" => commands = <<>>
  /\ is_get_difop_ \/ difopPoll \in {"handle", "determine"} => difop_data = settings
  /\ difopPoll = "copy" => fresh = settings
  /\ service \in {"taken", "check"} => commands = <<>> /\ config = settings
  /\ service = "check" => difopPoll = "read" /\ ~is_get_difop_

ControlInv == ControlTypes /\ Copied /\ (~disturbed => Undisturbed)

-----------------------------------------------------------------------------
\* Each service changes one setting, and a port to none that is in use.
LEMMA ChangedSound ==
  ASSUME NEW c \in Sound
  PROVE  /\ \A hz \in {5, 10} : [c EXCEPT !["speed"] = hz] \in Sound
         /\ \A on \in BOOLEAN : [c EXCEPT !["laser"] = on] \in Sound
         /\ \A port \in Ports :
              /\ port # c.dev => [c EXCEPT !["data"] = port] \in Sound
              /\ port # c.data => [c EXCEPT !["dev"] = port] \in Sound
BY DEF Sound, Configs

LEMMA ControlBegins == ControlInit => ControlInv
<1> SUFFICES ASSUME ControlInit  PROVE ControlInv
  OBVIOUS
<1>1. settings \in Sound
  BY DEF ControlInit, Sound, Configs, Ports
<1>2. difops \in Seq(Sound) /\ commands \in Seq(Sound)
  BY DEF ControlInit
<1>3. ControlTypes /\ Copied
  BY <1>1, <1>2 DEF ControlInit, ControlTypes, Copied
<1>4. Undisturbed
  BY DEF ControlInit, Undisturbed
<1>5. QED  BY <1>3, <1>4 DEF ControlInv

\* What is read of difop_data is a configuration, and no other than the lidar's if
\* that is what it holds and what is written to it.
LEMMA TakeKeeps == ControlInv /\ TakeConfig => ControlInv'
<1> SUFFICES ASSUME ControlInv, TakeConfig  PROVE ControlInv'
  OBVIOUS
<1> USE DEF ControlInv
<1>1. /\ service = "idle" /\ service' = "taken" /\ is_get_difop_ /\ config' \in Readable
      /\ torn' = (torn \/ Readable # {difop_data})
      /\ UNCHANGED <<settings, difops, commands, disturbed, wanted>>
      /\ UNCHANGED <<difop_data, is_get_difop_, difopPoll, fresh>>
  BY DEF TakeConfig, driverVars
<1>2. difop_data \in Configs /\ difop_data \in Sound
  BY <1>1 DEF Copied, Sound
<1>3. Readable \subseteq Configs
  BY <1>2 DEF Readable
<1>4. torn' \in BOOLEAN /\ (torn => torn')
  BY <1>1, Zenon DEF ControlTypes
<1>5. \A c \in Sound : c \in Sound'
  BY <1>4 DEF Sound, Configs
<1>6. config' \in Sound'
  <2>1. CASE torn'
    BY <1>1, <1>3, <2>1 DEF Sound, Configs
  <2>2. CASE ~torn'
    <3>1. config' = difop_data
      BY <1>1, <2>2
    <3>2. QED  BY <1>2, <1>5, <3>1
  <2>3. QED  BY <2>1, <2>2
<1>7. difops' \in Seq(Sound') /\ commands' \in Seq(Sound')
  <2>1. Sound \subseteq Sound'
    BY <1>5
  <2>2. \A s \in Seq(Sound) : s \in Seq(Sound')
    BY <2>1
  <2>3. QED  BY <1>1, <2>2 DEF ControlTypes
<1>8. ControlTypes'
  BY <1>1, <1>4, <1>5, <1>7 DEF ControlTypes
<1>9. Copied'
  BY <1>1, <1>5, <1>6 DEF Copied
<1>10. (~disturbed => Undisturbed)'
  <2> SUFFICES ASSUME ~disturbed  PROVE Undisturbed'
    BY <1>1
  <2>1. commands = <<>> /\ difop_data = settings /\ settings = wanted
    BY <1>1 DEF Undisturbed
  <2>2. config' = settings
    <3>1. CASE difopPoll = "copy"
      <4>1. fresh = settings /\ settings \in Configs
        BY <1>2, <2>1, <3>1 DEF Undisturbed
      <4>2. config' \in Configs /\ \A f \in DOMAIN config' : config'[f] = settings[f]
        BY <1>1, <2>1, <3>1, <4>1 DEF Readable
      <4>3. QED  BY <4>1, <4>2 DEF Configs
    <3>2. CASE difopPoll # "copy"
      BY <1>1, <2>1, <3>2 DEF Readable
    <3>3. QED  BY <3>1, <3>2
  <2>3. QED  BY <1>1, <2>1, <2>2 DEF Undisturbed
<1>11. QED  BY <1>8, <1>9, <1>10

\* A service clears the flag, and what it sends is its configuration, changed.
LEMMA AcceptKeeps ==
  ASSUME ControlInv, Accept, UNCHANGED <<commands, wanted>>,
         service' = "idle" \/ (service' = "check" /\ config' = config)
  PROVE  ControlInv'
<1> USE DEF ControlInv
<1>1. /\ service = "taken" /\ is_get_difop_' = FALSE
      /\ disturbed' = (disturbed \/ difopPoll # "read")
      /\ UNCHANGED <<settings, difops, difop_data, difopPoll, fresh, torn>>
  BY DEF Accept, Taken
<1>2. Sound' = Sound
  BY <1>1 DEF Sound
<1>3. ControlTypes'
  BY <1>1, <1>2 DEF ControlTypes
<1>4. Copied'
  BY <1>1, <1>2 DEF Copied
<1>5. (~disturbed => Undisturbed)'
  BY <1>1 DEF ControlTypes, Undisturbed
<1>6. QED  BY <1>3, <1>4, <1>5

LEMMA RequestKeeps ==
  ASSUME ControlInv, NEW setting, NEW value, Request(setting, value),
         [config EXCEPT ![setting] = value] \in Sound
  PROVE  ControlInv'
<1> DEFINE command == [config EXCEPT ![setting] = value]
<1> USE DEF ControlInv
<1>1. /\ commands' = Append(commands, command) /\ command \in Sound
      /\ wanted' = [wanted EXCEPT ![setting] = value] /\ service' = "idle"
  BY DEF Request, Transmit, Done
<1>2. /\ service = "taken" /\ is_get_difop_' = FALSE
      /\ disturbed' = (disturbed \/ difopPoll # "read")
      /\ UNCHANGED <<settings, difops, difop_data, difopPoll, fresh, torn>>
  BY DEF Request, Accept, Taken
<1>3. config = wanted => command = wanted'
  BY <1>1
<1> HIDE DEF command
<1>4. Sound' = Sound
  BY <1>2 DEF Sound
<1>5. commands' \in Seq(Sound)
  BY <1>1 DEF ControlTypes
<1>6. ControlTypes'
  BY <1>1, <1>2, <1>4, <1>5 DEF ControlTypes
<1>7. Copied'
  BY <1>1, <1>2, <1>4 DEF Copied
<1>8. (~disturbed => Undisturbed)'
  <2> SUFFICES ASSUME ~disturbed'  PROVE Undisturbed'
    OBVIOUS
  <2>1. ~disturbed /\ difopPoll = "read"
    BY <1>2 DEF ControlTypes
  <2>2. commands = <<>> /\ config = wanted
    BY <1>2, <2>1 DEF Undisturbed
  <2>3. commands' = <<wanted'>>
    BY <1>1, <1>3, <2>2
  <2>4. QED  BY <1>1, <1>2, <2>1, <2>3 DEF Undisturbed
<1>9. QED  BY <1>6, <1>7, <1>8

LEMMA ServicesKeep ==
  ASSUME ControlInv, Services
  PROVE  ControlInv'
<1> USE DEF ControlInv
<1>1. Accept => config \in Sound
  BY DEF Copied, Accept
<1>2. CASE TakeConfig
  BY <1>2, TakeKeeps
<1>3. CASE motorSpeed
  BY <1>1, <1>3, ChangedSound, RequestKeeps DEF motorSpeed, Request
<1>4. CASE PowerOff
  BY <1>1, <1>4, ChangedSound, RequestKeeps DEF PowerOff, Request
<1>5. CASE setDataPort
  <2>1. PICK port \in Ports :
          IF Refused("dev", port) THEN Accept /\ Done /\ UNCHANGED <<commands, wanted>>
          ELSE Request("data", port)
    BY <1>5 DEF setDataPort, SetPort
  <2>2. CASE Refused("dev", port)
    BY <2>1, <2>2, AcceptKeeps DEF Done
  <2>3. CASE ~Refused("dev", port)
    <3>1. Request("data", port) /\ Accept /\ port # config.dev
      BY <2>1, <2>3 DEF Request, Refused
    <3>2. [config EXCEPT !["data"] = port] \in Sound
      BY <1>1, <3>1, ChangedSound
    <3>3. QED  BY <3>1, <3>2, RequestKeeps
  <2>4. QED  BY <2>2, <2>3
<1>6. CASE setDevPort
  <2>1. PICK port \in Ports :
          IF Refused("data", port) THEN Accept /\ Done /\ UNCHANGED <<commands, wanted>>
          ELSE Request("dev", port)
    BY <1>6 DEF setDevPort, SetPort
  <2>2. CASE Refused("data", port)
    BY <2>1, <2>2, AcceptKeeps DEF Done
  <2>3. CASE ~Refused("data", port)
    <3>1. Request("dev", port) /\ Accept /\ port # config.data
      BY <2>1, <2>3 DEF Request, Refused
    <3>2. [config EXCEPT !["dev"] = port] \in Sound
      BY <1>1, <3>1, ChangedSound
    <3>3. QED  BY <3>1, <3>2, RequestKeeps
  <2>4. QED  BY <2>2, <2>3
<1>7. CASE PowerOn
  BY <1>7, AcceptKeeps DEF PowerOn
<1>8. ASSUME AlreadyOn \/ PowerOnReply  PROVE ControlInv'
  <2>1. /\ service' = "idle"
        /\ UNCHANGED <<settings, difops, commands, disturbed, difop_data, is_get_difop_,
                       difopPoll, fresh, wanted, torn>>
    BY <1>8 DEF AlreadyOn, PowerOnReply, Done, driverVars
  <2>2. Sound' = Sound
    BY <2>1 DEF Sound
  <2>3. ControlTypes' /\ Copied'
    BY <2>1, <2>2 DEF ControlTypes, Copied
  <2>4. (~disturbed => Undisturbed)'
    BY <2>1 DEF Undisturbed
  <2>5. QED  BY <2>3, <2>4
<1>9. CASE CommandOn
  <2> DEFINE command == [config EXCEPT !["laser"] = TRUE]
  <2>1. command \in Sound
    BY <1>9, ChangedSound DEF CommandOn, Copied
  <2>2. /\ service = "check" /\ service' = "wait" /\ commands' = Append(commands, command)
        /\ wanted' = [wanted EXCEPT !["laser"] = TRUE]
        /\ UNCHANGED <<settings, difops, disturbed, difop_data, is_get_difop_, difopPoll,
                       fresh, torn>>
    BY <1>9 DEF CommandOn, Transmit, driverVars
  <2>3. config = wanted => command = wanted'
    BY <2>2
  <2> HIDE DEF command
  <2>4. Sound' = Sound
    BY <2>2 DEF Sound
  <2>5. commands' \in Seq(Sound)
    BY <2>1, <2>2 DEF ControlTypes
  <2>6. ControlTypes' /\ Copied'
    BY <2>2, <2>4, <2>5 DEF ControlTypes, Copied
  <2>7. (~disturbed => Undisturbed)'
    <3> SUFFICES ASSUME ~disturbed'  PROVE Undisturbed'
      OBVIOUS
    <3>1. commands = <<>> /\ config = wanted /\ difopPoll = "read" /\ ~is_get_difop_
      BY <2>2 DEF Undisturbed
    <3>2. commands' = <<wanted'>>
      BY <2>2, <2>3, <3>1
    <3>3. QED  BY <2>2, <3>1, <3>2 DEF Undisturbed
  <2>8. QED  BY <2>6, <2>7
<1>10. QED
  BY <1>2, <1>3, <1>4, <1>5, <1>6, <1>7, <1>8, <1>9 DEF Services

\* The lidar, the packets and the threads that read them.
LEMMA PacketsKeep ==
  ASSUME ControlInv,
         \/ SendDifop \/ SendMsop \/ ApplyCommand \/ LoseCommand
         \/ ReadDifop \/ CopyDifop \/ HandleDifop \/ determineLidarType
         \/ PollPacket \/ PollTimeout
  PROVE  ControlInv'
<1> USE DEF ControlInv
<1>1. /\ UNCHANGED <<service, config, wanted, torn>> /\ Sound' = Sound
  BY DEF SendDifop, SendMsop, ApplyCommand, LoseCommand, ReadDifop, CopyDifop, HandleDifop,
         determineLidarType, PollPacket, PollTimeout, requestVars, Sound
<1>2. CASE SendDifop
  <2>1. /\ difops' \in Seq(Sound)
        /\ UNCHANGED <<settings, commands, disturbed, difop_data, is_get_difop_, difopPoll, fresh>>
    BY <1>2 DEF SendDifop, ControlTypes, driverVars
  <2>2. ControlTypes' /\ Copied'
    BY <1>1, <2>1 DEF ControlTypes, Copied
  <2>3. (~disturbed => Undisturbed)'
    BY <1>1, <2>1 DEF Undisturbed
  <2>4. QED  BY <2>2, <2>3
<1>3. CASE SendMsop \/ PollPacket \/ PollTimeout
  <2>1. UNCHANGED <<settings, difops, commands, disturbed, difop_data, is_get_difop_, difopPoll, fresh>>
    BY <1>3 DEF SendMsop, PollPacket, PollTimeout, driverVars
  <2>2. ControlTypes' /\ Copied'
    BY <1>1, <2>1 DEF ControlTypes, Copied
  <2>3. (~disturbed => Undisturbed)'
    BY <1>1, <2>1 DEF Undisturbed
  <2>4. QED  BY <2>2, <2>3
<1>4. CASE ApplyCommand
  <2>1. /\ commands # <<>> /\ settings' = Head(commands) /\ commands' = Tail(commands)
        /\ UNCHANGED <<difops, disturbed, difop_data, is_get_difop_, difopPoll, fresh>>
    BY <1>4 DEF ApplyCommand, driverVars
  <2>2. Head(commands) \in Sound /\ Tail(commands) \in Seq(Sound)
    BY <2>1 DEF ControlTypes
  <2>3. ControlTypes' /\ Copied'
    BY <1>1, <2>1, <2>2 DEF ControlTypes, Copied
  <2>4. (~disturbed => Undisturbed)'
    <3> SUFFICES ASSUME ~disturbed'  PROVE Undisturbed'
      OBVIOUS
    <3>1. /\ commands = <<wanted>> /\ ~is_get_difop_ /\ difopPoll = "read"
          /\ service \notin {"taken", "check"}
      BY <2>1 DEF Undisturbed
    <3>2. commands' = <<>> /\ settings' = wanted
      BY <2>1, <3>1
    <3>3. QED  BY <1>1, <2>1, <3>1, <3>2 DEF Undisturbed
  <2>5. QED  BY <2>3, <2>4
<1>5. CASE LoseCommand
  <2>1. /\ commands # <<>> /\ commands' = Tail(commands) /\ disturbed' = TRUE
        /\ UNCHANGED <<settings, difops, difop_data, is_get_difop_, difopPoll, fresh>>
    BY <1>5 DEF LoseCommand, driverVars
  <2>2. Tail(commands) \in Seq(Sound)
    BY <2>1 DEF ControlTypes
  <2>3. ControlTypes' /\ Copied'
    BY <1>1, <2>1, <2>2 DEF ControlTypes, Copied
  <2>4. QED  BY <2>1, <2>3
<1>6. CASE ReadDifop
  <2>1. /\ difopPoll = "read" /\ difops # <<>> /\ difops' = Tail(difops)
        /\ UNCHANGED <<settings, commands, difop_data, is_get_difop_>>
    BY <1>6 DEF ReadDifop
  <2>2. Head(difops) \in Sound /\ Tail(difops) \in Seq(Sound)
    BY <2>1 DEF ControlTypes
  <2>3. CASE UNCHANGED <<difopPoll, fresh, disturbed>>
    <3>1. ControlTypes' /\ Copied'
      BY <1>1, <2>1, <2>2, <2>3 DEF ControlTypes, Copied
    <3>2. (~disturbed => Undisturbed)'
      BY <1>1, <2>1, <2>3 DEF Undisturbed
    <3>3. QED  BY <3>1, <3>2
  <2>4. CASE /\ difopPoll' = "copy" /\ fresh' = Head(difops)
             /\ disturbed' = (disturbed \/ commands # <<>> \/ Head(difops) # settings
                                \/ service = "check")
    <3>1. ControlTypes'
      BY <1>1, <2>1, <2>2, <2>4 DEF ControlTypes
    <3>2. Copied'
      BY <1>1, <2>1, <2>2, <2>4 DEF Copied
    <3>3. (~disturbed => Undisturbed)'
      <4> SUFFICES ASSUME ~disturbed'  PROVE Undisturbed'
        OBVIOUS
      <4>1. /\ ~disturbed /\ commands = <<>> /\ fresh' = settings /\ service # "check"
        BY <2>4
      <4>2. settings = wanted
        BY <4>1 DEF Undisturbed
      <4>3. QED  BY <1>1, <2>1, <2>4, <4>1, <4>2 DEF Undisturbed
    <3>4. QED  BY <3>1, <3>2, <3>3
  <2>5. QED  BY <1>6, <2>3, <2>4 DEF ReadDifop
<1>7. CASE CopyDifop
  <2>1. /\ difopPoll = "copy" /\ difopPoll' = "handle" /\ difop_data' = fresh
        /\ UNCHANGED <<settings, difops, commands, disturbed, is_get_difop_>>
    BY <1>7 DEF CopyDifop
  <2>2. ControlTypes' /\ Copied'
    BY <1>1, <2>1 DEF ControlTypes, Copied
  <2>3. (~disturbed => Undisturbed)'
    BY <1>1, <2>1 DEF Undisturbed
  <2>4. QED  BY <2>2, <2>3
<1>8. CASE HandleDifop \/ determineLidarType
  <2>1. /\ difopPoll \in {"handle", "determine"} /\ difopPoll' \in {"read", "determine"}
        /\ is_get_difop_' \in {TRUE, is_get_difop_}
        /\ UNCHANGED <<settings, difops, commands, disturbed, difop_data>>
    BY <1>8 DEF HandleDifop, determineLidarType
  <2>2. ControlTypes' /\ Copied'
    BY <1>1, <2>1 DEF ControlTypes, Copied
  <2>3. (~disturbed => Undisturbed)'
    BY <1>1, <2>1 DEF ControlTypes, Undisturbed
  <2>4. QED  BY <2>2, <2>3
<1>9. QED
  BY <1>2, <1>3, <1>4, <1>5, <1>6, <1>7, <1>8

LEMMA ControlStep == ControlInv /\ [ControlNext]_controlVars => ControlInv'
<1> SUFFICES ASSUME ControlInv, [ControlNext]_controlVars  PROVE ControlInv'
  OBVIOUS
<1>1. CASE UNCHANGED controlVars
  <2>1. UNCHANGED <<settings, difops, commands, disturbed, difop_data, is_get_difop_,
                    difopPoll, fresh, service, config, wanted, torn>>
    BY <1>1 DEF controlVars, driverVars, requestVars
  <2>2. Sound' = Sound
    BY <2>1 DEF Sound
  <2>3. ControlTypes' /\ Copied'
    BY <2>1, <2>2 DEF ControlInv, ControlTypes, Copied
  <2>4. (~disturbed => Undisturbed)'
    BY <2>1 DEF ControlInv, Undisturbed
  <2>5. QED  BY <2>3, <2>4 DEF ControlInv
<1>2. QED
  BY <1>1, ServicesKeep, PacketsKeep DEF ControlNext

\* The lidar's ports differ while no service read difop_data half written, and its
\* settings are those asked for unless a command was lost, overtaken by a device
\* packet, or sent while difopPoll had one in hand (motorSpeed, powerOn,
\* setDataPort, difopPoll), for any number of requests, packets and commands.
THEOREM SettingsAreKept == ControlSpec => []SettingsKept
<1>1. ControlInv => SettingsKept
  <2> SUFFICES ASSUME ControlInv  PROVE SettingsKept
    OBVIOUS
  <2>1. PortsDiffer
    BY DEF ControlInv, ControlTypes, Sound, PortsDiffer
  <2>2. commands = <<>> /\ ~disturbed => settings = wanted
    BY DEF ControlInv, Undisturbed
  <2>3. QED  BY <2>1, <2>2 DEF SettingsKept
<1>2. QED
  BY <1>1, ControlBegins, ControlStep, PTL DEF ControlSpec

-----------------------------------------------------------------------------
\* The firings below n of those that got lost from l on, and the firings from a
\* to b that came.
Gone(l, cover, n) == IF n <= l THEN 0 ELSE IF l + cover <= n THEN cover ELSE n - l
Came(l, cover, a, b) == (b - a) - (Gone(l, cover, b) - Gone(l, cover, a))

\* The returns of n firings.
Returns(n) == IF return_mode = 1 THEN n ELSE 2 * n

\* The first firing after those that came: before the packet that was just lost.
Front == IF lost = next - Cover THEN next - Cover ELSE next

\* The first firing of a turn.
Boundary(b) == b \in Nat /\ b % Turn = 0

SweepTypes ==
  /\ return_mode \in {1, 2}
  /\ next \in Nat /\ Turn <= next
  /\ lost = NotLost \/ (lost \in Nat /\ Turn <= lost /\ lost + Cover <= next)
  /\ packet_num \in Nat /\ last_azimuth \in 0..Turn - 1
  /\ is_first_sweep \in BOOLEAN /\ clouds \in Nat
  /\ is_first_sweep => clouds = 0

\* The last packet was looked at; it came in the turn from b on.
Followed(b) == last_azimuth = (Front - 1) - b /\ b < Front /\ Front <= b + Turn

\* It was not, packet_num packets after a sweep began: with the turn from b on, or, if
\* it was the first sweep, with what was taken for a turn although none began.
Unlooked(b) ==
  /\ next - b <= packet_num * Cover + 2 * Cover
  /\ lost = NotLost => next - b <= packet_num * Cover + Cover
  /\ \/ Front - b > packet_num * Cover
     \/ last_azimuth = 0 /\ clouds = 0 /\ next - b > packet_num * Cover + Cover - Near

Located(b) ==
  /\ packet_num > Threshold => Followed(b)
  /\ is_first_sweep => (packet_num <= Threshold => last_azimuth = 0)
  /\ ~is_first_sweep =>
        last_packet_time = Front - 1 /\ (packet_num <= Threshold => Unlooked(b))

\* By how much times are imprecise in dual return.
Slack == IF return_mode = 1 THEN 0 ELSE Block - 1

\* Since the second cloud began, with the turn from b on.
Gathered(b) ==
  /\ ~is_first_sweep /\ b < Front
  /\ cloud.first \in b..b + Turn - 1 /\ cloud.last = Front - 1
  /\ cloud.size \in Nat \ {0} /\ cloud.size = Returns(Came(lost, Cover, b, Front)) + Overhang(b)
  /\ sweep_end_time \in Int
  /\ lost = NotLost \/ Front # next => 2 * (b - 1 - sweep_end_time) \in 0..Slack
  /\ b - Cover - 1 <= sweep_end_time /\ sweep_end_time <= b - 1
  /\ clouds > 1 =>
        /\ Turn <= b
        /\ published.first \in b - Turn..b - 1 /\ published.last \in b - Turn..b - 1
        /\ published.size =
             Returns(Came(lost, Cover, b - Turn, b)) + Overhang(b - Turn) - Overhang(b)

SweepInv ==
  /\ SweepTypes /\ TimesFit
  /\ \E b \in Nat : Boundary(b) /\ Located(b) /\ (clouds > 0 => Gathered(b))

-----------------------------------------------------------------------------
\* The numbers that the assumptions are about, without products.
LEMMA TurnNumbers ==
  /\ Turn \in Nat \ {0} /\ Scans \in Nat \ {0} /\ Block \in Nat \ {0}
  /\ Near \in Nat /\ Threshold \in Nat
BY SweepAssumption

\* The firings of a packet are as many as its returns, or half as many, in whole blocks.
LEMMA CoverIs ==
  ASSUME return_mode \in {1, 2}
  PROVE  /\ Cover \in Nat \ {0}
         /\ return_mode = 1 => Cover = Scans
         /\ return_mode = 2 => 2 * Cover = Scans /\ Cover = Scans \div 2
                               /\ \E q \in Nat \ {0} : Cover = q * Block
<1> DEFINE q == Scans \div (2 * Block)
<1>1. /\ Scans \in Nat \ {0} /\ Block \in Nat \ {0} /\ 2 * Block \in Nat \ {0}
      /\ Scans % (2 * Block) = 0
  BY SweepAssumption
<1>2. q \in Int /\ q * (2 * Block) + (Scans % (2 * Block)) = Scans
  <2>1. PICK w \in Nat \ {0} : w = 2 * Block
    BY <1>1
  <2>2. Scans \div w \in Int /\ (Scans \div w) * w + (Scans % w) = Scans
    BY <1>1, DivMod
  <2>3. QED  BY <2>1, <2>2
<1> HIDE DEF q
<1>3. q * Block \in Int /\ 2 * (q * Block) = Scans
  BY <1>1, <1>2
<1>4. q >= 1
  <2>1. q <= 0 => (0 - q) * Block \in Nat
    BY <1>1, <1>2
  <2>2. (0 - q) * Block = 0 - q * Block
    BY <1>1, <1>2
  <2>3. QED  BY <1>1, <1>2, <1>3, <2>1, <2>2
<1>5. Scans \div 1 = Scans /\ Scans \div 2 = q * Block
  BY <1>1, <1>3
<1>6. return_mode = 1 => Cover = Scans
  BY <1>5 DEF Cover
<1>7. return_mode = 2 => Cover = q * Block /\ Cover = Scans \div 2
  <2>1. return_mode = 2 => Cover = Scans \div 2
    BY DEF Cover
  <2>2. QED  BY <1>5, <2>1
<1>8. q \in Nat \ {0} /\ (return_mode = 2 => 2 * Cover = Scans)
  BY <1>2, <1>3, <1>4, <1>7
<1>9. Cover \in Nat \ {0}
  BY <1>1, <1>2, <1>3, <1>6, <1>7
<1>10. QED  BY <1>6, <1>7, <1>8, <1>9

LEMMA SweepNumbers ==
  ASSUME return_mode \in {1, 2}
  PROVE  /\ Turn \in Nat \ {0} /\ Cover \in Nat \ {0} /\ Near \in Nat /\ Threshold \in Nat
         /\ Threshold * Cover \in Nat
         /\ Cover + 1 < Near /\ Near <= Threshold * Cover + 1
         /\ Threshold * Cover + 2 * Cover + Near <= Turn
<1>1. /\ Turn \in Nat \ {0} /\ Cover \in Nat \ {0} /\ Near \in Nat /\ Threshold \in Nat
      /\ Cover \in {Scans, Scans \div 2}
  BY TurnNumbers, CoverIs
<1>2. (Threshold + 2) * Cover = Threshold * Cover + 2 * Cover /\ Threshold * Cover \in Nat
  BY <1>1
<1>3. QED  BY <1>1, <1>2, SpeedAssumption

\* A packet more, and no more packets than Threshold.
LEMMA PacketsPassed ==
  ASSUME return_mode \in {1, 2}, NEW p \in Nat
  PROVE  /\ p * Cover \in Nat
         /\ (p + 1) * Cover = p * Cover + Cover
         /\ p <= Threshold => p * Cover <= Threshold * Cover
         /\ p < Threshold => p * Cover + Cover <= Threshold * Cover
         /\ 0 * Cover = 0
<1>1. Cover \in Nat /\ Threshold \in Nat
  BY SweepNumbers
<1>2. p * Cover \in Nat /\ (p + 1) * Cover = p * Cover + Cover /\ 0 * Cover = 0
  BY <1>1
<1>3. ASSUME NEW m \in Nat, m <= Threshold  PROVE m * Cover <= Threshold * Cover
  <2>1. (Threshold - m) * Cover \in Nat
    BY <1>1, <1>3
  <2>2. (Threshold - m) * Cover = Threshold * Cover - m * Cover
    BY <1>1
  <2>3. QED  BY <1>1, <2>1, <2>2
<1>4. p < Threshold => p * Cover + Cover <= Threshold * Cover
  BY <1>1, <1>2, <1>3
<1>5. QED  BY <1>2, <1>3, <1>4

\* In the turn from b on the azimuth is the distance from b.
LEMMA AzimuthInTurn ==
  ASSUME NEW b, Boundary(b), NEW n \in Int
  PROVE  /\ b <= n /\ n < b + Turn => n % Turn = n - b /\ n \div Turn = b \div Turn
         /\ n \div Turn = b \div Turn => b <= n /\ n < b + Turn
<1> DEFINE q == b \div Turn
<1>1. Turn \in Nat \ {0} /\ b \in Nat
  BY TurnNumbers DEF Boundary
<1>2. q \in Int /\ q * Turn = b
  BY <1>1, DivMod DEF Boundary
<1> HIDE DEF q
<1>3. ASSUME b <= n, n < b + Turn  PROVE n % Turn = n - b /\ n \div Turn = q
  <2>1. n - b \in 0..Turn - 1 /\ q * Turn + (n - b) = n
    BY <1>1, <1>2, <1>3
  <2>2. QED  BY <1>1, <1>2, <2>1, DivModIs
<1>4. ASSUME n \div Turn = q  PROVE b <= n /\ n < b + Turn
  <2>1. n % Turn \in 0..Turn - 1 /\ (n \div Turn) * Turn + (n % Turn) = n
    BY <1>1, DivMod
  <2>2. b + (n % Turn) = n
    BY <1>2, <1>4, <2>1
  <2>3. QED  BY <1>1, <2>1, <2>2
<1>5. QED  BY <1>3, <1>4 DEF q

\* The turn after a turn, and the one before it.
LEMMA NextBoundary ==
  ASSUME NEW b, Boundary(b)
  PROVE  Boundary(b + Turn) /\ (Turn <= b => Boundary(b - Turn))
<1> DEFINE q == b \div Turn
<1>1. Turn \in Nat \ {0} /\ b \in Nat /\ 0 \in 0..Turn - 1
  BY TurnNumbers DEF Boundary
<1>2. q \in Int /\ q * Turn = b
  BY <1>1, DivMod DEF Boundary
<1> HIDE DEF q
<1>3. (q + 1) * Turn + 0 = b + Turn /\ (q - 1) * Turn + 0 = b - Turn
  BY <1>1, <1>2
<1>4. ASSUME NEW p \in Int, NEW c \in Int, p * Turn + 0 = c  PROVE c % Turn = 0
  BY <1>1, <1>4, DivModIs
<1>5. /\ (b + Turn) % Turn = 0 /\ b + Turn \in Nat
      /\ (b - Turn) % Turn = 0 /\ (Turn <= b => b - Turn \in Nat)
  <2>1. q + 1 \in Int /\ q - 1 \in Int /\ b + Turn \in Nat /\ b - Turn \in Int
    BY <1>1, <1>2
  <2>2. (b + Turn) % Turn = 0 /\ (b - Turn) % Turn = 0
    BY <1>3, <1>4, <2>1
  <2>3. QED  BY <1>1, <2>1, <2>2
<1>6. QED  BY <1>5 DEF Boundary

\* Every firing is in a turn.
LEMMA SomeBoundary ==
  ASSUME NEW n \in Nat
  PROVE  \E b \in Nat : Boundary(b) /\ b <= n /\ n < b + Turn
<1> DEFINE b == n - (n % Turn)
<1>1. Turn \in Nat \ {0} /\ 0 \in 0..Turn - 1
  BY TurnNumbers
<1>2. n % Turn \in 0..Turn - 1 /\ n \div Turn \in Int /\ (n \div Turn) * Turn + (n % Turn) = n
  BY <1>1, DivMod
<1>3. (n \div Turn) * Turn = b
  BY <1>1, <1>2
<1>4. n \div Turn >= 0
  <2>1. SUFFICES ASSUME n \div Turn <= -1  PROVE FALSE
    BY <1>2
  <2> DEFINE q == n \div Turn
             r == n % Turn
  <2>2. q \in Int /\ q <= -1 /\ r \in 0..Turn - 1 /\ q * Turn + r = n
    BY <1>2, <2>1
  <2> HIDE DEF q, r
  <2>3. q * Turn <= -Turn
    <3>1. (-1 - q) * Turn \in Nat
      BY <1>1, <2>2
    <3>2. (-1 - q) * Turn = -Turn - q * Turn
      BY <1>1, <2>2
    <3>3. QED  BY <1>1, <2>2, <3>1, <3>2
  <2>4. QED  BY <1>1, <2>2, <2>3
<1>5. b \in Nat /\ b <= n /\ n < b + Turn
  <2> DEFINE q == n \div Turn
             r == n % Turn
  <2>1. q \in Nat /\ r \in 0..Turn - 1 /\ q * Turn + r = n
    BY <1>2, <1>4
  <2> HIDE DEF q, r
  <2>2. q * Turn \in Nat /\ q * Turn = n - r
    BY <1>1, <2>1
  <2>3. n - r \in Nat /\ n - r <= n /\ n < (n - r) + Turn
    BY <1>1, <2>1, <2>2
  <2>4. QED  BY <2>3 DEF r
<1>6. b % Turn = 0
  <2> DEFINE q == n \div Turn
  <2>1. q \in Int /\ q * Turn + 0 = b /\ b \in Int
    BY <1>2, <1>3, <1>5
  <2> HIDE DEF q, b
  <2>2. QED  BY <1>1, <2>1, DivModIs
<1>7. QED  BY <1>5, <1>6 DEF Boundary

-----------------------------------------------------------------------------
\* In dual return the blocks of a packet come in pairs, of the same firings.
LEMMA DualAt ==
  ASSUME return_mode = 2, next \in Int, NEW k \in Int, NEW r \in 0..Block - 1
  PROVE  /\ k * Block \in Int
         /\ FiringAt(2 * (k * Block) + r) = next + k * Block + r
         /\ FiringAt(2 * (k * Block) + Block + r) = next + k * Block + r
         /\ (k * Block + r) % Block = r
<1> DEFINE b == k * Block
<1>1. Block \in Nat \ {0} /\ 2 * Block \in Nat \ {0} /\ b \in Int
  BY TurnNumbers
<1>2. /\ k * (2 * Block) + r = 2 * b + r /\ k * (2 * Block) + (Block + r) = 2 * b + Block + r
      /\ (2 * k) * Block + r = 2 * b + r /\ (2 * k + 1) * Block + r = 2 * b + Block + r
  BY <1>1
<1>3. /\ r \in 0..2 * Block - 1 /\ Block + r \in 0..2 * Block - 1
      /\ 2 * b + r \in Int /\ 2 * b + Block + r \in Int /\ b + r \in Int
      /\ 2 * k \in Int /\ 2 * k + 1 \in Int
  BY <1>1
<1>4. (2 * b + r) \div (2 * Block) = k /\ (2 * b + Block + r) \div (2 * Block) = k
  BY <1>1, <1>2, <1>3, DivModIs
<1>5. (2 * b + r) % Block = r /\ (2 * b + Block + r) % Block = r
  BY <1>1, <1>2, <1>3, DivModIs
<1>6. (b + r) % Block = r
  BY <1>1, <1>3, DivModIs
<1>7. QED  BY <1>1, <1>3, <1>4, <1>5, <1>6 DEF FiringAt

LEMMA DualReturn ==
  ASSUME NEW i \in Int
  PROVE  \E k \in Int, r \in 0..Block - 1 :
           i = 2 * (k * Block) + r \/ i = 2 * (k * Block) + Block + r
<1> DEFINE k == i \div (2 * Block)
           m == i % (2 * Block)
<1>1. Block \in Nat \ {0} /\ 2 * Block \in Nat \ {0}
  BY TurnNumbers
<1>2. k \in Int /\ m \in 0..2 * Block - 1 /\ k * (2 * Block) + m = i
  BY <1>1, DivMod
<1> HIDE DEF k, m
<1>3. k * (2 * Block) = 2 * (k * Block) /\ k * Block \in Int
  BY <1>1, <1>2
<1>4. CASE m < Block
  <2>1. m \in 0..Block - 1 /\ i = 2 * (k * Block) + m
    BY <1>1, <1>2, <1>3, <1>4
  <2>2. QED  BY <1>2, <2>1
<1>5. CASE Block <= m
  <2>1. m - Block \in 0..Block - 1 /\ i = 2 * (k * Block) + Block + (m - Block)
    BY <1>1, <1>2, <1>3, <1>5
  <2>2. QED  BY <1>2, <2>1
<1>6. QED  BY <1>1, <1>2, <1>4, <1>5

LEMMA BlocksApart ==
  ASSUME NEW k \in Int, NEW m \in Int
  PROVE  /\ k * Block \in Int /\ m * Block \in Int
         /\ k < m => k * Block + Block <= m * Block
         /\ (m - 1) * Block = m * Block - Block
<1>1. Block \in Nat \ {0} /\ k * Block \in Int /\ m * Block \in Int
  BY TurnNumbers
<1>2. k < m => (m - k - 1) * Block \in Nat
  BY <1>1
<1>3. (m - k - 1) * Block = m * Block - k * Block - Block /\ (m - 1) * Block = m * Block - Block
  BY <1>1
<1>4. QED  BY <1>1, <1>2, <1>3

\* The firings of a packet's returns.
LEMMA PacketFirings ==
  ASSUME return_mode \in {1, 2}, next \in Int, NEW i \in 0..Scans - 1
  PROVE  /\ FiringAt(i) \in next..next + Cover - 1
         /\ return_mode = 1 => FiringAt(i) = next + i
         /\ return_mode = 2 => i - 2 * (FiringAt(i) - next) \in 1 - Block..Block
         /\ i > 0 => FiringAt(i) - FiringAt(i - 1) \in (-Cover)..1
         /\ i = 0 => FiringAt(i) = next
         /\ i = Scans - 1 => FiringAt(i) = next + Cover - 1
<1>1. Block \in Nat \ {0} /\ Scans \in Nat \ {0} /\ i \in Int
  BY TurnNumbers
<1>2. CASE return_mode = 1
  BY <1>1, <1>2, CoverIs DEF FiringAt
<1>3. CASE return_mode = 2
  <2>1. PICK q \in Nat \ {0} : Cover = q * Block /\ 2 * Cover = Scans
    BY <1>3, CoverIs
  <2>2. PICK k \in Int, r \in 0..Block - 1 :
          i = 2 * (k * Block) + r \/ i = 2 * (k * Block) + Block + r
    BY <1>1, DualReturn
  <2> DEFINE b == k * Block
             c == q * Block
  <2>3. /\ FiringAt(2 * b + r) = next + b + r /\ FiringAt(2 * b + Block + r) = next + b + r
        /\ b \in Int
    BY <1>3, <2>2, DualAt
  <2>20. c \in Int /\ c = Cover /\ 2 * Cover = Scans
    BY <1>1, <2>1
  <2>4. ASSUME r > 0
        PROVE  /\ FiringAt(2 * b + r - 1) = next + b + r - 1
               /\ FiringAt(2 * b + Block + r - 1) = next + b + r - 1
    <3>1. r - 1 \in 0..Block - 1
      BY <1>1, <2>2, <2>4
    <3>2. /\ FiringAt(2 * b + (r - 1)) = next + b + (r - 1)
          /\ FiringAt(2 * b + Block + (r - 1)) = next + b + (r - 1)
      BY <1>3, <2>2, <3>1, DualAt
    <3>3. /\ 2 * b + (r - 1) = 2 * b + r - 1 /\ 2 * b + Block + (r - 1) = 2 * b + Block + r - 1
          /\ next + b + (r - 1) = next + b + r - 1
      BY <1>1, <2>2, <2>3
    <3>4. QED  BY <3>2, <3>3
  <2>5. FiringAt(2 * b + Block - 1) = next + b + Block - 1 /\ FiringAt(2 * b - 1) = next + b - 1
    <3>1. Block - 1 \in 0..Block - 1 /\ k - 1 \in Int /\ (k - 1) * Block = b - Block
      BY <1>1, <2>2, BlocksApart
    <3>2. /\ FiringAt(2 * b + (Block - 1)) = next + b + (Block - 1)
          /\ FiringAt(2 * (b - Block) + Block + (Block - 1)) = next + (b - Block) + (Block - 1)
      BY <1>3, <2>2, <3>1, DualAt
    <3>3. /\ 2 * b + (Block - 1) = 2 * b + Block - 1 /\ next + b + (Block - 1) = next + b + Block - 1
          /\ 2 * (b - Block) + Block + (Block - 1) = 2 * b - 1
          /\ next + (b - Block) + (Block - 1) = next + b - 1
      BY <1>1, <2>3
    <3>4. QED  BY <3>2, <3>3
  <2>6. /\ k < 0 => b + Block <= 0
        /\ q <= k => c <= b
        /\ k < q => b + Block <= c
        /\ 0 < q => Block <= c
    <3>1. 0 * Block = 0
      BY <1>1
    <3>2. q < k => c + Block <= b
      BY <2>1, <2>2, BlocksApart
    <3>3. QED  BY <1>1, <2>1, <2>2, <2>3, <3>1, <3>2, BlocksApart
  <2>21. 0 <= k => 0 <= b
    <3>1. 0 < k => 0 * Block + Block <= b
      BY <2>2, BlocksApart
    <3>2. k = 0 => b = 0
      BY <1>1
    <3>3. QED  BY <1>1, <2>2, <2>3, <3>1, <3>2
  <2>8. r \in Int /\ 0 <= r /\ r < Block /\ (i = 2 * b + r \/ i = 2 * b + Block + r)
    BY <1>1, <2>2
  <2> HIDE DEF b, c
  <2>7. 0 <= i /\ i < 2 * c
    BY <1>1, <2>20
  <2>9. 0 <= k /\ k < q
    <3>1. b + Block > 0 /\ b < c
      BY <1>1, <2>3, <2>20, <2>7, <2>8
    <3>2. k \in Int /\ q \in Int
      OBVIOUS
    <3>3. QED  BY <1>1, <2>3, <2>20, <2>6, <3>1, <3>2
  <2>10. 0 <= b /\ b + Block <= c
    BY <2>6, <2>9, <2>21
  <2>11. Cover = c /\ Block <= Cover /\ Scans = 2 * c /\ c \in Int
    BY <1>1, <2>1, <2>6, <2>20
  <2>12. FiringAt(i) = next + b + r
    BY <2>3, <2>8
  <2>13. i > 0 => FiringAt(i - 1) \in {next + b + r - 1, next + b + Block - 1}
    BY <1>1, <2>3, <2>4, <2>5, <2>8
  <2>14. i - 2 * (FiringAt(i) - next) \in 1 - Block..Block
    BY <1>1, <2>3, <2>8, <2>12
  <2>15. FiringAt(i) \in next..next + Cover - 1
    BY <1>1, <2>3, <2>8, <2>10, <2>11, <2>12
  <2>16. i > 0 => FiringAt(i) - FiringAt(i - 1) \in (-Cover)..1
    BY <1>1, <2>3, <2>8, <2>10, <2>11, <2>12, <2>13
  <2>17. i = 0 => FiringAt(i) = next
    BY <1>1, <2>3, <2>8, <2>10, <2>12
  <2>18. i = Scans - 1 => FiringAt(i) = next + Cover - 1
    BY <1>1, <2>3, <2>8, <2>10, <2>11, <2>12
  <2>19. QED  BY <1>3, <2>14, <2>15, <2>16, <2>17, <2>18
<1>4. QED  BY <1>2, <1>3

LEMMA PacketEnds ==
  ASSUME return_mode \in {1, 2}, next \in Int
  PROVE  FiringAt(0) = next /\ FiringAt(Scans - 1) = next + Cover - 1
<1>1. 0 \in 0..Scans - 1 /\ Scans - 1 \in 0..Scans - 1
  BY TurnNumbers
<1>2. FiringAt(0) = next
  BY <1>1, PacketFirings
<1>3. FiringAt(Scans - 1) = next + Cover - 1
  BY <1>1, PacketFirings
<1>4. QED  BY <1>2, <1>3

\* The first return of the firing d after a packet's first, and how many firings of its
\* block come before it.
Lag(d) == IF return_mode = 1 THEN 0 ELSE d % Block
Index(d) == Returns(d) - Lag(d)

LEMMA IndexIs ==
  ASSUME return_mode \in {1, 2}, next \in Int, NEW d \in 0..Cover - 1
  PROVE  /\ Index(d) \in 0..Scans - 1 /\ FiringAt(Index(d)) = next + d
         /\ \A i \in 0..Index(d) - 1 : FiringAt(i) < next + d
         /\ d > 0 => Index(d) > 0 /\ FiringAt(Index(d) - 1) = next + d - 1
         /\ Lag(d) \in Int /\ 0 <= Lag(d) /\ Lag(d) <= d /\ Lag(d) <= Slack
<1>1. Block \in Nat \ {0} /\ Scans \in Nat \ {0} /\ Cover \in Nat \ {0} /\ d \in Int
  BY TurnNumbers, CoverIs
<1>2. CASE return_mode = 1
  <2>1. Index(d) = d /\ Lag(d) = 0 /\ Scans = Cover /\ Slack = 0
    BY <1>2, CoverIs DEF Index, Lag, Returns, Slack
  <2>2. \A i \in Int : FiringAt(i) = next + i
    BY <1>2 DEF FiringAt
  <2>3. QED  BY <1>1, <2>1, <2>2
<1>3. CASE return_mode = 2
  <2> DEFINE k == d \div Block
             r == d % Block
             b == k * Block
  <2>1. k \in Int /\ r \in 0..Block - 1 /\ b + r = d
    BY <1>1, DivMod
  <2>2. Lag(d) = r /\ Index(d) = 2 * d - r /\ Scans = 2 * Cover /\ Slack = Block - 1
    BY <1>3, CoverIs DEF Index, Lag, Returns, Slack
  <2> HIDE DEF k, r
  <2>3. b \in Int /\ (0 < k => Block <= b) /\ (k < 0 => b + Block <= 0) /\ (k = 0 => b = 0)
    <3>1. /\ 0 < k => 0 * Block + Block <= b
          /\ k < 0 => b + Block <= 0 * Block
          /\ 0 * Block = 0 /\ b \in Int
      BY <1>1, <2>1, BlocksApart
    <3>2. k = 0 => b = 0
      BY <3>1
    <3>3. QED  BY <1>1, <3>1, <3>2
  <2>4. FiringAt(2 * b + r) = next + b + r
    BY <1>3, <2>1, DualAt
  <2>5. d > 0 => FiringAt(2 * b + r - 1) = next + b + r - 1
    <3>1. CASE r > 0
      <4>1. r - 1 \in 0..Block - 1
        BY <1>1, <2>1, <3>1
      <4>2. FiringAt(2 * b + (r - 1)) = next + b + (r - 1)
        BY <1>3, <2>1, <4>1, DualAt
      <4>3. 2 * b + (r - 1) = 2 * b + r - 1 /\ next + b + (r - 1) = next + b + r - 1
        BY <2>1, <2>3
      <4>4. QED  BY <4>2, <4>3
    <3>2. CASE r = 0
      <4>1. Block - 1 \in 0..Block - 1 /\ k - 1 \in Int /\ (k - 1) * Block = b - Block
        BY <1>1, <2>1, BlocksApart
      <4>2. FiringAt(2 * (b - Block) + Block + (Block - 1)) = next + (b - Block) + (Block - 1)
        BY <1>3, <4>1, DualAt
      <4>3. 2 * (b - Block) + Block + (Block - 1) = 2 * b + r - 1
        BY <1>1, <2>3, <3>2
      <4>4. next + (b - Block) + (Block - 1) = next + b + r - 1
        BY <1>1, <2>3, <3>2
      <4>5. QED  BY <4>2, <4>3, <4>4
    <3>3. QED  BY <1>1, <2>1, <3>1, <3>2
  <2>6. ASSUME NEW i \in 0..(2 * b + r) - 1
        PROVE  FiringAt(i) < next + b + r
    <3>1. PICK m \in Int, p \in 0..Block - 1 :
            i = 2 * (m * Block) + p \/ i = 2 * (m * Block) + Block + p
      <4>1. i \in Int
        BY <2>1, <2>3
      <4>2. QED  BY <4>1, DualReturn
    <3> DEFINE a == m * Block
    <3>2. FiringAt(i) = next + a + p /\ a \in Int
      BY <1>3, <3>1, DualAt
    <3>3. (k < m => b + Block <= a) /\ (m < k => a + Block <= b) /\ (m = k => a = b)
      BY <2>1, <3>1, BlocksApart
    <3>4. /\ p \in Int /\ 0 <= p /\ p < Block /\ r \in Int /\ 0 <= r /\ r < Block
          /\ (i = 2 * a + p \/ i = 2 * a + Block + p) /\ i < 2 * b + r
      BY <1>1, <2>1, <2>3, <2>6, <3>1
    <3> HIDE DEF a
    <3>5. a + p < b + r
      BY <1>1, <2>1, <2>3, <3>1, <3>2, <3>3, <3>4
    <3>6. QED  BY <2>1, <2>3, <3>2, <3>4, <3>5
  <2> HIDE DEF b
  <2>7. Index(d) = 2 * b + r /\ next + d = next + b + r
    BY <2>1, <2>2, <2>3
  <2>8. 0 <= k
    BY <1>1, <2>1, <2>3
  <2>12. 0 <= b /\ r \in Int /\ 0 <= r /\ r <= Block - 1 /\ d \in Int /\ d <= Cover - 1
    BY <1>1, <2>1, <2>3, <2>8
  <2>9. /\ Index(d) \in 0..Scans - 1 /\ (d > 0 => Index(d) > 0)
        /\ Lag(d) \in Int /\ 0 <= Lag(d) /\ Lag(d) <= d /\ Lag(d) <= Slack
    <3>1. Lag(d) \in Int /\ 0 <= Lag(d) /\ Lag(d) <= Slack
      BY <1>1, <2>2, <2>12
    <3>2. r <= d /\ (d > 0 => 2 * d - r > 0) /\ 2 * d - r >= 0
      BY <1>1, <2>1, <2>3, <2>12
    <3>3. 2 * d - r <= Scans - 1
      BY <1>1, <2>2, <2>12
    <3>4. 2 * d - r \in 0..Scans - 1
      BY <1>1, <2>12, <3>2, <3>3
    <3>5. QED  BY <2>2, <3>1, <3>2, <3>4
  <2>10. next + d - 1 = next + b + r - 1
    BY <1>1, <2>1, <2>3
  <2>11. FiringAt(Index(d)) = next + d /\ (d > 0 => FiringAt(Index(d) - 1) = next + d - 1)
    <3>1. PICK j \in Int : j = 2 * b + r
      BY <2>3, <2>12
    <3>4. Index(d) - 1 = 2 * b + r - 1
      <4>1. Index(d) = j
        BY <2>7, <3>1
      <4> HIDE DEF Index
      <4>2. Index(d) - 1 = j - 1
        BY <4>1
      <4>3. QED  BY <2>3, <2>12, <3>1, <4>2
    <3>2. FiringAt(Index(d)) = next + d
      BY <2>4, <2>7
    <3>3. d > 0 => FiringAt(Index(d) - 1) = next + d - 1
      <4> HIDE DEF Index
      <4>1. QED  BY <2>5, <2>10, <3>4
    <3>5. QED  BY <3>2, <3>3
  <2>13. \A i \in 0..Index(d) - 1 : FiringAt(i) < next + d
    BY <2>6, <2>7
  <2>14. QED  BY <2>9, <2>11, <2>13
<1>4. QED  BY <1>2, <1>3

\* It comes as long after its block's first in every packet.
LEMMA LagStays ==
  ASSUME return_mode \in {1, 2}, NEW d \in Int
  PROVE  Lag(d - Cover) = Lag(d)
<1>1. CASE return_mode = 1
  BY <1>1 DEF Lag
<1>2. CASE return_mode = 2
  <2>1. PICK q \in Nat \ {0} : Cover = q * Block
    BY <1>2, CoverIs
  <2> DEFINE k == d \div Block
             r == d % Block
  <2>2. Block \in Nat \ {0} /\ k \in Int /\ r \in 0..Block - 1 /\ k * Block + r = d
    BY TurnNumbers, DivMod
  <2> HIDE DEF k, r
  <2>3. (k - q) * Block + r = d - Cover /\ k - q \in Int /\ d - Cover \in Int
    BY <2>1, <2>2
  <2>4. (d - Cover) % Block = r
    BY <2>2, <2>3, DivModIs
  <2>5. QED  BY <1>2, <2>4 DEF Lag, r
<1>3. QED  BY <1>1, <1>2

\* The azimuths of a turn and the turn after it.
LEMMA AzimuthFrom ==
  ASSUME NEW c, Boundary(c), NEW i, NEW n \in Int, FiringAt(i) = n,
         c <= n, n < c + Turn + Turn
  PROVE  /\ n < c + Turn => AzimuthOf(i) = n - c
         /\ n >= c + Turn => AzimuthOf(i) = n - c - Turn
<1>1. Turn \in Nat /\ c \in Nat /\ AzimuthOf(i) = n % Turn
  BY TurnNumbers DEF Boundary, AzimuthOf
<1>2. n < c + Turn => n % Turn = n - c
  BY <1>1, AzimuthInTurn
<1>3. ASSUME n >= c + Turn  PROVE n % Turn = n - c - Turn
  <2>1. Boundary(c + Turn) /\ c + Turn <= n /\ n < (c + Turn) + Turn
    BY <1>1, <1>3, NextBoundary
  <2>2. n % Turn = n - (c + Turn)
    BY <1>1, <2>1, AzimuthInTurn
  <2>3. QED  BY <1>1, <2>2
<1>4. QED  BY <1>1, <1>2, <1>3

\* Within a turn the azimuth does not start again, though it steps back between blocks;
\* it does where the next turn begins.
LEMMA WrapsWithin ==
  ASSUME return_mode \in {1, 2}, next \in Nat, NEW c, Boundary(c), c <= next,
         NEW i \in 1..Scans - 1
  PROVE  /\ FiringAt(i) < c + Turn /\ FiringAt(i - 1) < c + Turn => ~Wraps(i)
         /\ FiringAt(i) = c + Turn /\ FiringAt(i - 1) = c + Turn - 1 => Wraps(i)
<1>1. /\ Turn \in Nat \ {0} /\ Cover \in Nat \ {0} /\ Near \in Nat /\ c \in Nat
      /\ 1 < Near /\ Cover <= Turn - Near /\ i \in Nat /\ Scans \in Nat
  <2>1. c \in Nat /\ Scans \in Nat
    BY TurnNumbers DEF Boundary
  <2>2. QED  BY <2>1, SweepNumbers
<1>2. Step(i) = Distance(AzimuthOf(i), AzimuthOf(i - 1))
  BY <1>1 DEF Step
<1>3. PICK n, m : n = FiringAt(i) /\ m = FiringAt(i - 1)
  OBVIOUS
<1>4. n \in Int /\ m \in Int /\ n - m \in (-Cover)..1 /\ c <= n /\ c <= m
  <2>1. i \in 0..Scans - 1 /\ i - 1 \in 0..Scans - 1 /\ i > 0
    BY <1>1
  <2>2. n \in next..next + Cover - 1 /\ n - m \in (-Cover)..1
    BY <1>3, <2>1, PacketFirings
  <2>3. m \in next..next + Cover - 1
    BY <1>3, <2>1, PacketFirings
  <2>4. QED  BY <1>1, <2>2, <2>3
<1>5. ASSUME n < c + Turn, m < c + Turn  PROVE ~Wraps(i)
  <2>1. AzimuthOf(i) = n - c
    BY <1>1, <1>3, <1>4, <1>5, AzimuthFrom
  <2>2. AzimuthOf(i - 1) = m - c
    BY <1>1, <1>3, <1>4, <1>5, AzimuthFrom
  <2>3. Distance(n - c, m - c) <= Turn - Near /\ Distance(n - c, m - c) \in Int
    BY <1>1, <1>4 DEF Distance
  <2>4. QED  BY <1>1, <1>2, <2>1, <2>2, <2>3 DEF Wraps
<1>6. ASSUME n = c + Turn, m = c + Turn - 1  PROVE Wraps(i)
  <2>1. AzimuthOf(i) = 0
    <3>1. n < c + Turn + Turn /\ n >= c + Turn /\ n - c - Turn = 0
      BY <1>1, <1>4, <1>6
    <3>2. QED  BY <1>3, <1>4, <3>1, AzimuthFrom
  <2>2. AzimuthOf(i - 1) = Turn - 1
    <3>1. m < c + Turn + Turn /\ m < c + Turn /\ m - c = Turn - 1
      BY <1>1, <1>4, <1>6
    <3>2. QED  BY <1>3, <1>4, <3>1, AzimuthFrom
  <2>3. Distance(0, Turn - 1) = Turn - 1
    BY <1>1 DEF Distance
  <2>4. QED  BY <1>1, <1>2, <2>1, <2>2, <2>3 DEF Wraps
<1>7. QED  BY <1>3, <1>5, <1>6

\* The first return where it starts again is the one that is taken.
LEMMA StartTaken ==
  ASSUME Looks, NEW i \in 0..Scans - 1, Wraps(i), \A j \in 0..i - 1 : ~Wraps(j)
  PROVE  new_sweep_start = i
<1> DEFINE First(k) == Wraps(k) /\ \A j \in 0..k - 1 : ~Wraps(j)
           start == CHOOSE k \in 0..Scans - 1 : First(k)
<1>1. Scans \in Nat \ {0}
  BY TurnNumbers
<1>2. new_sweep_start = start
  BY DEF new_sweep_start
<1>3. start \in 0..Scans - 1 /\ First(start)
  <2>1. First(i)
    OBVIOUS
  <2> HIDE DEF First
  <2>2. QED  BY <2>1
<1> HIDE DEF start
<1>4. ~(start < i) /\ ~(i < start)
  BY <1>1, <1>3
<1>5. QED  BY <1>1, <1>2, <1>3, <1>4

\* The new sweep starts within the packet, at the first return of its turn's firings.
StartsAt(c) == next < c /\ c < next + Cover /\ new_sweep_start = Index(c - next)

LEMMA StartsAtIs ==
  ASSUME return_mode \in {1, 2}, next \in Nat, NEW c \in Nat, StartsAt(c)
  PROVE  /\ next < c /\ c < next + Cover /\ c - next \in Int
         /\ new_sweep_start \in 1..Scans - 1
         /\ new_sweep_start = Returns(c - next) - Lag(c - next)
         /\ FiringAt(new_sweep_start) = c /\ FiringAt(new_sweep_start - 1) = c - 1
         /\ Lag(c - next) \in Int /\ 0 <= Lag(c - next) /\ Lag(c - next) <= c - next
         /\ Lag(c - next) <= Slack
<1> DEFINE d == c - next
<1>1. /\ next < c /\ c < next + Cover /\ new_sweep_start = Index(d) /\ Cover \in Nat
      /\ Scans \in Nat
  BY TurnNumbers, CoverIs DEF StartsAt
<1>2. d \in 0..Cover - 1 /\ d > 0 /\ next + d = c /\ next + d - 1 = c - 1
  BY <1>1
<1> HIDE DEF d
<1>3. /\ Index(d) \in 0..Scans - 1 /\ FiringAt(Index(d)) = next + d
      /\ Index(d) > 0 /\ FiringAt(Index(d) - 1) = next + d - 1
      /\ Lag(d) \in Int /\ 0 <= Lag(d) /\ Lag(d) <= d /\ Lag(d) <= Slack
  BY <1>2, IndexIs
<1>4. new_sweep_start \in 1..Scans - 1
  BY <1>1, <1>3
<1>5. FiringAt(new_sweep_start) = c /\ FiringAt(new_sweep_start - 1) = c - 1
  BY <1>1, <1>2, <1>3
<1>6. new_sweep_start = Returns(d) - Lag(d) /\ d \in Int
  BY <1>1, <1>2 DEF Index
<1>7. QED  BY <1>1, <1>3, <1>4, <1>5, <1>6 DEF d

\* Where a new sweep starts in a packet, c being the turn of the packet's first
\* firing, or the turn before if that firing starts it.
LEMMA StartInTurn ==
  ASSUME return_mode \in {1, 2}, next \in Nat, Looks
  PROVE  /\ Wraps(0) => new_sweep_start = 0
         /\ \A c : Boundary(c) /\ c <= next /\ next < c + Turn /\ ~Wraps(0) =>
              \/ StartsAt(c + Turn)
              \/ new_sweep_start = Scans /\ next + Cover <= c + Turn
<1>1. Turn \in Nat \ {0} /\ Cover \in Nat \ {0} /\ Scans \in Nat \ {0}
  BY TurnNumbers, CoverIs
<1>2. Wraps(0) => new_sweep_start = 0
  BY <1>1, StartTaken, 0 \in 0..Scans - 1
<1>3. ASSUME NEW c, Boundary(c), c <= next, next < c + Turn, ~Wraps(0)
      PROVE  \/ StartsAt(c + Turn)
             \/ new_sweep_start = Scans /\ next + Cover <= c + Turn
  <2> DEFINE d == (c + Turn) - next
             i == Index(d)
  <2>1. c \in Nat /\ d \in Nat \ {0} /\ next + d = c + Turn
    BY <1>1, <1>3 DEF Boundary
  <2>2. \A j \in 1..Scans - 1 :
          /\ FiringAt(j) < c + Turn /\ FiringAt(j - 1) < c + Turn => ~Wraps(j)
          /\ FiringAt(j) = c + Turn /\ FiringAt(j - 1) = c + Turn - 1 => Wraps(j)
    BY <1>3, WrapsWithin
  <2> HIDE DEF d
  <2>3. CASE d < Cover
    <3>1. d \in 0..Cover - 1 /\ d > 0
      BY <1>1, <2>1, <2>3
    <3>2. /\ i \in 0..Scans - 1 /\ i > 0 /\ FiringAt(i) = next + d /\ FiringAt(i - 1) = next + d - 1
          /\ \A j \in 0..i - 1 : FiringAt(j) < next + d
      BY <3>1, IndexIs
    <3> HIDE DEF i
    <3>3. i \in 1..Scans - 1
      BY <1>1, <3>2
    <3>4. Wraps(i)
      BY <1>1, <2>1, <2>2, <3>2, <3>3
    <3>5. ASSUME NEW j \in 0..i - 1  PROVE ~Wraps(j)
      <4>1. CASE j = 0
        BY <1>3, <4>1
      <4>2. CASE j # 0
        <5>1. j \in 1..Scans - 1 /\ j - 1 \in 0..i - 1
          BY <1>1, <3>2, <4>2
        <5>2. FiringAt(j) < c + Turn /\ FiringAt(j - 1) < c + Turn
          BY <2>1, <3>2, <5>1
        <5>3. QED  BY <2>2, <5>1, <5>2
      <4>3. QED  BY <4>1, <4>2
    <3>6. new_sweep_start = i
      BY <3>2, <3>4, <3>5, StartTaken
    <3>7. next < c + Turn /\ c + Turn < next + Cover
      BY <1>1, <1>3, <2>1, <2>3
    <3>8. QED  BY <3>6, <3>7 DEF StartsAt, i, d
  <2>4. CASE Cover <= d
    <3>1. ASSUME NEW j \in 0..Scans - 1  PROVE ~Wraps(j)
      <4>1. CASE j = 0
        BY <1>3, <4>1
      <4>2. CASE j # 0
        <5>1. j \in 1..Scans - 1 /\ j \in 0..Scans - 1 /\ j - 1 \in 0..Scans - 1
          BY <1>1, <4>2
        <5>2. FiringAt(j) \in next..next + Cover - 1
          BY <5>1, PacketFirings
        <5>3. FiringAt(j - 1) \in next..next + Cover - 1
          BY <5>1, PacketFirings
        <5>4. FiringAt(j) < c + Turn /\ FiringAt(j - 1) < c + Turn
          BY <1>1, <2>1, <2>4, <5>2, <5>3
        <5>5. QED  BY <2>2, <5>1, <5>4
      <4>3. QED  BY <4>1, <4>2
    <3>2. new_sweep_start = Scans
      BY <3>1 DEF new_sweep_start
    <3>3. QED  BY <1>1, <2>1, <2>4, <3>2
  <2>5. QED  BY <1>1, <2>1, <2>3, <2>4
<1>4. QED  BY <1>2, <1>3

\* A packet that is looked at, seen from the turn that the packets before it are of.
Sits(b) ==
  /\ b < next /\ Front <= b + Turn
  /\ \/ new_sweep_start = 0 /\ b + Turn <= next
     \/ StartsAt(b + Turn)
     \/ new_sweep_start = Scans /\ next + Cover <= b + Turn

LEMMA SitsBefore ==
  ASSUME return_mode \in {1, 2}, next \in Nat, NEW b \in Nat, Sits(b), new_sweep_start = Scans
  PROVE  b < next /\ next + Cover <= b + Turn
<1>1. Turn \in Nat /\ Scans \in Nat \ {0} /\ b + Turn \in Nat
  BY TurnNumbers
<1>2. ~StartsAt(b + Turn)
  BY <1>1, StartsAtIs
<1>3. QED  BY <1>1, <1>2 DEF Sits

\* Of what types the numbers are, and how far the front is from the next packet.
LEMMA Numbered ==
  ASSUME SweepTypes
  PROVE  /\ return_mode \in {1, 2} /\ NotLost = -Scans /\ Cover <= Scans
         /\ next \in Nat /\ Turn <= next /\ lost \in Int /\ packet_num \in Nat
         /\ last_azimuth \in Nat /\ last_azimuth <= Turn - 1
         /\ Front \in Nat /\ Turn <= Front
         /\ Front = next \/ (Front = next - Cover /\ lost = Front)
         /\ Front = next - Cover => lost # NotLost
         /\ Front = next => lost = NotLost \/ lost + Cover <= next
         /\ Front # next => lost = next - Cover
         /\ lost = next - Cover => Front = next - Cover
<1>1. return_mode \in {1, 2}
  BY DEF SweepTypes
<1>2. Turn \in Nat /\ Cover \in Nat \ {0} /\ Scans \in Nat \ {0} /\ Cover <= Scans
  BY <1>1, TurnNumbers, CoverIs
<1>3. QED  BY <1>1, <1>2 DEF SweepTypes, Front, NotLost

\* After a packet that was looked at, the azimuth is seen to start again at the first
\* firing when the turn is over.
LEMMA FollowedWraps ==
  ASSUME SweepTypes, NEW b, Boundary(b), Followed(b)
  PROVE  Wraps(0) <=> b + Turn <= next
<1>1. /\ Turn \in Nat \ {0} /\ Cover \in Nat \ {0} /\ Near \in Nat /\ b \in Nat /\ next \in Nat
      /\ Cover + 1 < Near /\ 4 * Cover + Near <= Turn
  <2>1. b \in Nat
    BY DEF Boundary
  <2>4. return_mode \in {1, 2}
    BY Numbered
  <2>2. Threshold * Cover >= 2 * Cover
    <3>1. Threshold # 0 /\ Threshold # 1
      BY <2>4, SweepNumbers
    <3>2. (Threshold - 2) * Cover \in Nat
      BY <2>4, <3>1, SweepNumbers
    <3>3. (Threshold - 2) * Cover = Threshold * Cover - 2 * Cover
      BY <2>4, SweepNumbers
    <3>4. QED  BY <2>4, <3>2, <3>3, SweepNumbers
  <2>3. QED  BY <2>1, <2>2, <2>4, SweepNumbers, Numbered
<1>2. /\ last_azimuth = (Front - 1) - b /\ b < Front /\ Front <= b + Turn
      /\ Front \in Nat /\ Front <= next /\ next <= Front + Cover
  BY <1>1, Numbered DEF Followed
<1>3. AzimuthOf(0) = IF next < b + Turn THEN next - b ELSE next - b - Turn
  <2>1. b <= next /\ next < b + Turn + Turn
    BY <1>1, <1>2
  <2>2. FiringAt(0) = next
    BY <1>1, Numbered, PacketEnds
  <2>3. QED  BY <1>1, <2>1, <2>2, AzimuthFrom
<1>4. Step(0) = Distance(AzimuthOf(0), last_azimuth)
  BY DEF Step
<1>5. CASE next < b + Turn
  <2>1. Distance(AzimuthOf(0), last_azimuth) = next - Front + 1
    BY <1>1, <1>2, <1>3, <1>5 DEF Distance
  <2>2. ~Wraps(0)
    BY <1>1, <1>2, <1>4, <2>1 DEF Wraps
  <2>3. QED  BY <1>1, <1>5, <2>2
<1>6. CASE b + Turn <= next
  <2>1. AzimuthOf(0) = next - b - Turn
    BY <1>1, <1>3, <1>6
  <2>2. AzimuthOf(0) < last_azimuth
    BY <1>1, <1>2, <1>6, <2>1
  <2>3. Distance(AzimuthOf(0), last_azimuth) = Turn - 1 - (next - Front)
    BY <1>1, <1>2, <2>1, <2>2 DEF Distance
  <2>4. Wraps(0)
    BY <1>1, <1>2, <1>4, <2>3 DEF Wraps
  <2>5. QED  BY <1>6, <2>4
<1>7. QED  BY <1>1, <1>5, <1>6

\* When the azimuth is looked at again the packet is well within a turn.
LEMMA UnlookedWithin ==
  ASSUME SweepTypes, NEW b, Boundary(b), packet_num = Threshold, Unlooked(b)
  PROVE  b < next /\ next < b + Turn /\ ~Wraps(0)
<1> DEFINE skipped == Threshold * Cover
<1>1. /\ Turn \in Nat \ {0} /\ Cover \in Nat \ {0} /\ Near \in Nat /\ b \in Nat /\ next \in Nat
      /\ skipped \in Nat
      /\ Cover + 1 < Near /\ Near <= skipped + 1 /\ skipped + 2 * Cover + Near <= Turn
      /\ last_azimuth \in Nat /\ last_azimuth <= Turn - 1 /\ Front \in Nat /\ Front <= next
  <2>1. b \in Nat /\ return_mode \in {1, 2}
    BY Numbered DEF Boundary
  <2>2. QED  BY <2>1, SweepNumbers, Numbered
<1>2. /\ next - b <= skipped + 2 * Cover
      /\ \/ Front - b > skipped
         \/ last_azimuth = 0 /\ next - b > skipped + Cover - Near
  BY DEF Unlooked
<1> HIDE DEF skipped
<1>3. b < next /\ next < b + Turn /\ next - b <= Turn - Near
  BY <1>1, <1>2
<1>4. AzimuthOf(0) = next - b
  <2>1. b <= next /\ next < b + Turn + Turn
    BY <1>1, <1>3
  <2>2. FiringAt(0) = next
    BY <1>1, Numbered, PacketEnds
  <2>3. QED  BY <1>1, <1>3, <2>1, <2>2, AzimuthFrom
<1>5. Distance(next - b, last_azimuth) <= Turn - Near
  <2>1. CASE Front - b > skipped
    BY <1>1, <1>3, <2>1 DEF Distance
  <2>2. CASE last_azimuth = 0
    BY <1>1, <1>3, <2>2 DEF Distance
  <2>3. QED  BY <1>2, <2>1, <2>2
<1>6. ~Wraps(0)
  <2>1. Step(0) = Distance(next - b, last_azimuth) /\ Distance(next - b, last_azimuth) \in Int
    BY <1>1, <1>4 DEF Step, Distance
  <2>2. QED  BY <1>1, <1>5, <2>1 DEF Wraps
<1>7. QED  BY <1>3, <1>6

\* So it is known where the new sweep starts.
LEMMA SitsInTurn ==
  ASSUME SweepTypes, NEW b, Boundary(b), Looks,
         packet_num > Threshold => Followed(b), packet_num <= Threshold => Unlooked(b)
  PROVE  Sits(b)
<1>1. /\ Turn \in Nat \ {0} /\ Cover \in Nat \ {0} /\ b \in Nat /\ next \in Nat
      /\ Threshold \in Nat /\ packet_num \in Nat /\ Front \in Nat /\ Front <= next
      /\ return_mode \in {1, 2}
  <2>1. b \in Nat /\ return_mode \in {1, 2}
    BY Numbered DEF Boundary
  <2>2. QED  BY <2>1, SweepNumbers, Numbered
<1>2. packet_num > Threshold \/ packet_num = Threshold
  BY <1>1 DEF Looks
<1>3. b < next /\ Front <= b + Turn /\ (Wraps(0) <=> b + Turn <= next)
  <2>1. CASE packet_num > Threshold
    BY <1>1, <2>1, FollowedWraps DEF Followed
  <2>2. CASE packet_num = Threshold
    <3>1. b < next /\ next < b + Turn /\ ~Wraps(0)
      BY <1>1, <2>2, UnlookedWithin
    <3>2. QED  BY <1>1, <3>1
  <2>3. QED  BY <1>2, <2>1, <2>2
<1>4. CASE Wraps(0)
  BY <1>1, <1>3, <1>4, StartInTurn DEF Sits
<1>5. CASE ~Wraps(0)
  <2>1. b <= next /\ next < b + Turn
    BY <1>1, <1>3, <1>5
  <2>2. StartsAt(b + Turn) \/ (new_sweep_start = Scans /\ next + Cover <= b + Turn)
    BY <1>1, <1>5, <2>1, StartInTurn
  <2>3. QED  BY <1>3, <2>2 DEF Sits
<1>6. QED  BY <1>4, <1>5

-----------------------------------------------------------------------------
\* Shares of the time between two packets for j returns: as packets come Cover apart,
\* two returns to a firing's time in dual return.
Share(j) ==
  IF return_mode = 1 THEN IF Front = next THEN j ELSE 2 * j
  ELSE IF Front = next THEN j \div 2 ELSE j

LEMMA ShareIs ==
  ASSUME return_mode \in {1, 2}, NEW j \in Int
  PROVE  /\ Share(j) \in Int
         /\ return_mode = 1 /\ Front = next => Share(j) = j
         /\ return_mode = 1 /\ Front # next => Share(j) = 2 * j
         /\ return_mode = 2 /\ Front = next => 2 * Share(j) <= j /\ j <= 2 * Share(j) + 1
         /\ return_mode = 2 /\ Front # next => Share(j) = j
<1>1. j \div 2 \in Int /\ 2 * (j \div 2) <= j /\ j <= 2 * (j \div 2) + 1
  OBVIOUS
<1>2. CASE return_mode = 1
  BY <1>2 DEF Share
<1>3. CASE return_mode = 2
  <2> DEFINE h == j \div 2
  <2>1. h \in Int /\ 2 * h <= j /\ j <= 2 * h + 1
    BY <1>1
  <2>2. Share(j) = IF Front = next THEN h ELSE j
    BY <1>3 DEF Share
  <2> HIDE DEF h
  <2>3. QED  BY <1>3, <2>1, <2>2
<1>4. QED  BY <1>2, <1>3

LEMMA SharesWhole ==
  ASSUME SweepTypes, last_packet_time = Front - 1, NEW j \in Int
  PROVE  last_packet_time # -1 /\ (Elapsed * j) \div Scans = Share(j)
<1>1. /\ Turn \in Nat \ {0} /\ Cover \in Nat \ {0} /\ Scans \in Nat \ {0} /\ next \in Nat
      /\ Front = next \/ Front = next - Cover
      /\ Front # -1 + 1 /\ return_mode \in {1, 2}
  BY TurnNumbers, SweepNumbers, Numbered
<1>2. last_packet_time # -1
  BY <1>1
<1>3. Elapsed = IF Front = next THEN Cover ELSE 2 * Cover
  BY <1>1 DEF Elapsed, current_packet_time
<1>4. ASSUME NEW q \in Int, NEW r \in 0..Scans - 1, NEW n \in Int, q * Scans + r = n
      PROVE  n \div Scans = q
  BY <1>1, <1>4, DivModIs
<1>5. CASE return_mode = 1
  <2>1. Cover = Scans
    BY <1>5, CoverIs
  <2>2. CASE Front = next
    <3>1. j * Scans + 0 = Elapsed * j /\ Elapsed * j \in Int /\ 0 \in 0..Scans - 1
      BY <1>1, <1>3, <2>1, <2>2
    <3>2. (Elapsed * j) \div Scans = j
      BY <1>4, <3>1
    <3>3. QED  BY <1>2, <1>5, <2>2, <3>2 DEF Share
  <2>3. CASE Front # next
    <3>1. (2 * j) * Scans + 0 = Elapsed * j /\ Elapsed * j \in Int /\ 2 * j \in Int /\ 0 \in 0..Scans - 1
      BY <1>1, <1>3, <2>1, <2>3
    <3>2. (Elapsed * j) \div Scans = 2 * j
      BY <1>4, <3>1
    <3>3. QED  BY <1>2, <1>5, <2>3, <3>2 DEF Share
  <2>4. QED  BY <2>2, <2>3
<1>6. CASE return_mode = 2
  <2>1. 2 * Cover = Scans
    BY <1>6, CoverIs
  <2>2. CASE Front = next
    <3> DEFINE h == j \div 2
               m == j % 2
    <3>1. h \in Int /\ m \in {0, 1} /\ 2 * h + m = j
      OBVIOUS
    <3>5. Share(j) = h
      BY <1>6, <2>2 DEF Share
    <3> HIDE DEF h, m
    <3>2. /\ h * Scans + m * Cover = Elapsed * j /\ Elapsed * j \in Int
          /\ m * Cover \in 0..Scans - 1
      <4>1. Elapsed * j = Cover * (2 * h + m) /\ Cover * (2 * h + m) = h * (2 * Cover) + m * Cover
        BY <1>1, <1>3, <2>2, <3>1
      <4>2. m * Cover = 0 \/ m * Cover = Cover
        BY <1>1, <3>1
      <4>3. h * (2 * Cover) = h * Scans /\ h * Scans \in Int
        BY <1>1, <2>1, <3>1
      <4>4. QED  BY <1>1, <2>1, <4>1, <4>2, <4>3
    <3>3. (Elapsed * j) \div Scans = h
      BY <1>4, <3>1, <3>2
    <3>4. QED  BY <1>2, <3>3, <3>5
  <2>3. CASE Front # next
    <3>1. j * Scans + 0 = Elapsed * j /\ Elapsed * j \in Int /\ 0 \in 0..Scans - 1
      BY <1>1, <1>3, <2>1, <2>3
    <3>2. (Elapsed * j) \div Scans = j
      BY <1>4, <3>1
    <3>3. QED  BY <1>2, <1>6, <2>3, <3>2 DEF Share
  <2>4. QED  BY <2>2, <2>3
<1>7. QED  BY <1>1, <1>5, <1>6

\* The points of the returns of a packet, from one to another.
ArePoints(new, from, to, times) ==
  /\ Len(new) = to - from /\ (new = <<>> <=> from = to)
  /\ \A k \in 1..to - from : new[k].firing = FiringAt(from + k - 1)
  /\ last_packet_time # -1 => \A k \in 1..to - from : new[k].time = times[from + k - 1]

LEMMA TimedPointsAre ==
  ASSUME NEW from \in 0..Scans, NEW to \in from..Scans, NEW times
  PROVE  ArePoints(TimedPoints(from, to, times), from, to, times)
<1> DEFINE new == TimedPoints(from, to, times)
<1>1. Scans \in Nat /\ to - from \in Nat /\ from \in Nat /\ to \in Nat
  BY TurnNumbers
<1>2. /\ new = [k \in 1..to - from |-> new[k]]
      /\ \A k \in 1..to - from : new[k].firing = FiringAt(from + k - 1)
      /\ last_packet_time # -1 => \A k \in 1..to - from : new[k].time = times[from + k - 1]
  BY DEF TimedPoints
<1> HIDE DEF new
<1> DEFINE size == to - from
<1>3. size \in Nat /\ new = [k \in 1..size |-> new[k]]
  BY <1>1, <1>2
<1> HIDE DEF size
<1>4. new \in Seq({new[k] : k \in 1..size}) /\ Len(new) = size
  <2>1. \A k \in 1..size : new[k] \in {new[j] : j \in 1..size}
    OBVIOUS
  <2>2. new \in [1..size -> {new[j] : j \in 1..size}]
    BY <1>3, <2>1
  <2>3. new \in Seq({new[j] : j \in 1..size})
    BY <1>3, <2>2, SeqDef
  <2>4. Len(new) \in Nat /\ DOMAIN new = 1..Len(new)
    BY <2>3, LenProperties
  <2>5. DOMAIN new = 1..size
    BY <1>3
  <2>6. Len(new) = size
    BY <1>3, <2>4, <2>5
  <2>7. QED  BY <2>3, <2>6
<1>5. new = <<>> <=> size = 0
  BY <1>3, <1>4, EmptySeq
<1>6. Len(new) = to - from /\ (new = <<>> <=> from = to)
  BY <1>1, <1>4, <1>5 DEF size
<1>7. QED  BY <1>2, <1>6 DEF new, ArePoints

\* What they make of a cloud.
LEMMA ExtendedBy ==
  ASSUME NEW from \in 0..Scans, NEW to \in from..Scans, NEW times, NEW c
  PROVE  LET grown == Extended(c, TimedPoints(from, to, times))
         IN  /\ from = to => grown = c
             /\ from < to =>
                  /\ grown.first = IF c.size = 0 THEN FiringAt(from) ELSE c.first
                  /\ grown.last = FiringAt(to - 1)
                  /\ grown.size = c.size + (to - from)
<1> DEFINE new == TimedPoints(from, to, times)
<1>1. Scans \in Nat /\ to - from \in Nat /\ from \in Nat /\ to \in Nat
  BY TurnNumbers
<1>2. ArePoints(new, from, to, times)
  BY TimedPointsAre
<1> HIDE DEF new
<1>3. /\ Len(new) = to - from /\ (new = <<>> <=> from = to)
      /\ \A k \in 1..to - from : new[k].firing = FiringAt(from + k - 1)
  BY <1>2 DEF ArePoints
<1>4. from = to => Extended(c, new) = c
  BY <1>3 DEF Extended
<1>5. ASSUME from < to
      PROVE  /\ Extended(c, new).first = IF c.size = 0 THEN FiringAt(from) ELSE c.first
             /\ Extended(c, new).last = FiringAt(to - 1)
             /\ Extended(c, new).size = c.size + (to - from)
  <2>1. new[1].firing = FiringAt(from) /\ new[Len(new)].firing = FiringAt(to - 1)
    <3>1. /\ 1 \in 1..to - from /\ to - from \in 1..to - from
          /\ from + (1 - 1) = from /\ from + ((to - from) - 1) = to - 1
      BY <1>1, <1>5
    <3>2. new[1].firing = FiringAt(from)
      BY <1>3, <3>1
    <3>3. new[to - from].firing = FiringAt(to - 1)
      BY <1>3, <3>1
    <3>4. QED  BY <1>3, <3>2, <3>3
  <2>2. Extended(c, new) =
          [first |-> IF c.size = 0 THEN new[1].firing ELSE c.first,
           last |-> new[Len(new)].firing, size |-> c.size + Len(new)]
    BY <1>1, <1>3, <1>5 DEF Extended
  <2>3. QED  BY <1>3, <2>1, <2>2
<1>6. QED  BY <1>4, <1>5 DEF new

\* The points of a packet before a sweep ends in it, and those after.
LEMMA OldPointsAre ==
  ASSUME SweepTypes, last_packet_time = Front - 1,
         NEW from \in 0..Scans, NEW to \in from..Scans
  PROVE  /\ Len(OldPoints(from, to)) = to - from
         /\ \A k \in 1..to - from :
              /\ OldPoints(from, to)[k].firing = FiringAt(from + k - 1)
              /\ OldPoints(from, to)[k].time =
                   current_packet_time - sweep_end_time - Share(Scans - from - k)
<1> DEFINE times == [i \in from..to - 1 |->
                      current_packet_time - sweep_end_time - (Elapsed * (Scans - i - 1)) \div Scans]
<1>1. OldPoints(from, to) = TimedPoints(from, to, times)
  BY DEF OldPoints
<1>2. Scans \in Nat /\ from \in Nat /\ to \in Nat /\ last_packet_time # -1
  BY TurnNumbers, SharesWhole, 0 \in Int
<1>3. ASSUME NEW k \in 1..to - from
      PROVE  times[from + k - 1] = current_packet_time - sweep_end_time - Share(Scans - from - k)
  <2>1. from + k - 1 \in from..to - 1 /\ Scans - (from + k - 1) - 1 \in Int
    BY <1>2
  <2>2. times[from + k - 1] =
          current_packet_time - sweep_end_time - (Elapsed * (Scans - (from + k - 1) - 1)) \div Scans
    BY <2>1
  <2>3. Scans - (from + k - 1) - 1 = Scans - from - k
    BY <1>2
  <2>4. QED  BY <2>1, <2>2, <2>3, SharesWhole
<1> HIDE DEF times
<1>4. ArePoints(TimedPoints(from, to, times), from, to, times)
  BY <1>2, TimedPointsAre
<1>5. QED  BY <1>1, <1>2, <1>3, <1>4 DEF ArePoints

LEMMA NewPointsAre ==
  ASSUME SweepTypes, last_packet_time = Front - 1, NEW from \in 0..Scans - 1
  PROVE  /\ Len(NewPoints(from)) = Scans - from
         /\ \A k \in 1..Scans - from :
              /\ NewPoints(from)[k].firing = FiringAt(from + k - 1)
              /\ NewPoints(from)[k].time = Share(k - 1)
<1> DEFINE times == [i \in from..Scans - 1 |-> (Elapsed * (i - from)) \div Scans]
<1>1. NewPoints(from) = TimedPoints(from, Scans, times)
  BY DEF NewPoints
<1>2. Scans \in Nat /\ from \in Nat /\ last_packet_time # -1 /\ from \in 0..Scans /\ Scans \in from..Scans
  BY TurnNumbers, SharesWhole, 0 \in Int
<1>3. ASSUME NEW k \in 1..Scans - from
      PROVE  times[from + k - 1] = Share(k - 1)
  <2>1. from + k - 1 \in from..Scans - 1 /\ k - 1 \in Int
    BY <1>2
  <2>2. times[from + k - 1] = (Elapsed * ((from + k - 1) - from)) \div Scans
    BY <2>1
  <2>3. (from + k - 1) - from = k - 1
    BY <1>2
  <2>4. QED  BY <2>1, <2>2, <2>3, SharesWhole
<1> HIDE DEF times
<1>4. ArePoints(TimedPoints(from, Scans, times), from, Scans, times)
  BY <1>2, TimedPointsAre
<1>5. QED  BY <1>1, <1>2, <1>3, <1>4 DEF ArePoints

-----------------------------------------------------------------------------
\* What Overhang says of a firing, and that it stays when the lidar sends a packet.
LEMMA LagIs ==
  ASSUME return_mode \in {1, 2}
  PROVE  /\ Slack \in Nat /\ Slack < Block /\ Block \in Nat /\ Lag(0) = 0
         /\ \A d \in Int : Lag(d) \in Int /\ 0 <= Lag(d) /\ Lag(d) <= Slack
<1>1. Block \in Nat \ {0} /\ 0 \in 0..Block - 1 /\ 0 * Block + 0 = 0
  BY TurnNumbers
<1>2. 0 % Block = 0
  BY <1>1, DivModIs
<1>3. \A d \in Int : d % Block \in 0..Block - 1
  BY <1>1, DivMod
<1>4. Slack \in Nat /\ Slack < Block
  BY <1>1 DEF Slack
<1>5. Lag(0) = 0
  BY <1>2 DEF Lag
<1>6. ASSUME NEW d \in Int  PROVE Lag(d) \in Int /\ 0 <= Lag(d) /\ Lag(d) <= Slack
  BY <1>1, <1>3, <1>6 DEF Lag, Slack
<1>7. QED  BY <1>1, <1>4, <1>5, <1>6

LEMMA OverhangIs ==
  ASSUME return_mode \in {1, 2}, next \in Int, NEW n \in Int
  PROVE  /\ Overhang(n) = IF n \in lost..lost + Cover - 1 THEN 0 ELSE Lag(n - next)
         /\ Overhang(n) \in Int /\ 0 <= Overhang(n) /\ Overhang(n) <= Slack
<1>1. n - next \in Int /\ Slack \in Nat /\ Lag(n - next) \in Int
      /\ 0 <= Lag(n - next) /\ Lag(n - next) <= Slack
  BY LagIs
<1>2. Overhang(n) = IF n \in lost..lost + Cover - 1 THEN 0 ELSE Lag(n - next)
  BY DEF Overhang, Lag
<1>3. QED  BY <1>1, <1>2

LEMMA OverhangStays ==
  ASSUME return_mode \in {1, 2}, return_mode' = return_mode, next \in Int, next' = next + Cover,
         NEW n \in Int, n \in lost'..lost' + Cover - 1 <=> n \in lost..lost + Cover - 1
  PROVE  Cover' = Cover /\ Slack' = Slack /\ Overhang(n)' = Overhang(n)
<1>1. Cover' = Cover /\ Slack' = Slack
  BY DEF Cover, Slack
<1>2. Cover \in Int
  BY CoverIs
<1>3. Lag(n - next)' = Lag(n - next)
  <2>1. n - next \in Int /\ n - next' = (n - next) - Cover
    BY <1>2
  <2>2. Lag((n - next) - Cover) = Lag(n - next)
    BY <2>1, LagStays
  <2>3. Lag(n - next)' = Lag(n - next')
    BY DEF Lag
  <2>4. QED  BY <2>1, <2>2, <2>3
<1>4. Overhang(n)' = IF n \in lost'..lost' + Cover - 1 THEN 0 ELSE Lag(n - next)'
  BY <1>1 DEF Overhang, Lag
<1>5. Overhang(n) = IF n \in lost..lost + Cover - 1 THEN 0 ELSE Lag(n - next)
  BY OverhangIs
<1>6. QED  BY <1>1, <1>3, <1>4, <1>5

\* The returns of a turn that came are those that TurnSize counts.
LEMMA TurnSizeIs ==
  ASSUME return_mode \in {1, 2}, next \in Int, lost \in Int, NEW b, Boundary(b)
  PROVE  TurnSize(b \div Turn) =
           Returns(Came(lost, Cover, b, b + Turn)) + Overhang(b) - Overhang(b + Turn)
<1> DEFINE turn == b \div Turn
           gone == {n \in lost..lost + Cover - 1 : n \div Turn = turn}
           from == IF lost < b THEN b ELSE lost
           to == IF lost + Cover < b + Turn THEN lost + Cover - 1 ELSE b + Turn - 1
           missing == IF from > to THEN 0 ELSE to - from + 1
<1>1. Turn \in Nat \ {0} /\ Cover \in Nat \ {0} /\ b \in Nat
  BY SweepNumbers DEF Boundary
<1>2. \A n \in Int : n \div Turn = turn <=> b <= n /\ n < b + Turn
  BY AzimuthInTurn
<1>3. turn * Turn = b /\ (turn + 1) * Turn = b + Turn
  <2>1. turn \in Int /\ turn * Turn + (b % Turn) = b
    BY <1>1, DivMod
  <2> HIDE DEF turn
  <2>2. turn * Turn = b
    BY <1>1, <2>1 DEF Boundary
  <2>3. (turn + 1) * Turn = turn * Turn + Turn
    BY <1>1, <2>1
  <2>4. QED  BY <2>2, <2>3
<1>4. TurnSize(turn) = return_mode * (Turn - Cardinality(gone)) - Overhang(b + Turn) + Overhang(b)
  <2> HIDE DEF turn
  <2>1. TurnSize(turn) = return_mode * (Turn - Cardinality(gone))
                           - Overhang((turn + 1) * Turn) + Overhang(turn * Turn)
    BY DEF TurnSize
  <2>2. QED  BY <1>3, <2>1
<1>5. gone = {n \in lost..lost + Cover - 1 : b <= n /\ n < b + Turn}
  BY <1>1, <1>2
<1>6. gone = from..to /\ from \in Int /\ to \in Int
  BY <1>1, <1>5
<1>7. Cardinality(gone) = missing
  <2> HIDE DEF from, to, gone
  <2>1. Cardinality(from..to) = missing
    BY <1>6, FS_Interval
  <2>2. QED  BY <1>6, <2>1
<1>8. Turn - missing = Came(lost, Cover, b, b + Turn) /\ Turn - missing \in Int
  BY <1>1 DEF Came, Gone
<1> HIDE DEF gone, turn, missing
<1>9. Overhang(b) \in Int /\ Overhang(b + Turn) \in Int
  <2>1. b \in Int /\ b + Turn \in Int
    BY <1>1
  <2>2. QED  BY <2>1, OverhangIs
<1>10. return_mode * (Turn - missing) = Returns(Came(lost, Cover, b, b + Turn))
  BY <1>8 DEF Returns
<1>11. TurnSize(turn) = Returns(Came(lost, Cover, b, b + Turn)) + Overhang(b) - Overhang(b + Turn)
  <2> DEFINE all == Returns(Came(lost, Cover, b, b + Turn))
  <2>1. TurnSize(turn) = all - Overhang(b + Turn) + Overhang(b)
    BY <1>4, <1>7, <1>10
  <2>2. all \in Int
    BY <1>8 DEF Returns
  <2> HIDE DEF all
  <2>3. TurnSize(turn) = all + Overhang(b) - Overhang(b + Turn)
    BY <1>9, <2>1, <2>2
  <2>4. QED  BY <2>3 DEF all
<1>12. QED  BY <1>11 DEF turn

\* What is to be shown of a turn that was published.
LEMMA InvIsRight == SweepInv => SweepsRight
<1>1. ASSUME SweepInv, clouds > 1  PROVE IsTurn(published)
  <2>1. PICK b \in Nat : Boundary(b) /\ Gathered(b)
    BY <1>1 DEF SweepInv, SweepTypes
  <2> DEFINE a == b - Turn
  <2>2. /\ Turn \in Nat \ {0} /\ Turn <= b /\ lost \in Int /\ next \in Int /\ return_mode \in {1, 2}
        /\ published.first \in a..b - 1 /\ published.last \in a..b - 1
        /\ published.size = Returns(Came(lost, Cover, a, b)) + Overhang(a) - Overhang(b)
    BY <1>1, <2>1, SweepNumbers, Numbered DEF SweepInv, Gathered
  <2>3. Boundary(a)
    BY <2>1, <2>2, NextBoundary
  <2>4. a \in Nat /\ a + Turn = b
    BY <2>2
  <2> HIDE DEF a
  <2>5. published.first \div Turn = a \div Turn /\ published.last \div Turn = a \div Turn
    <3>1. ASSUME NEW n \in a..b - 1  PROVE n \div Turn = a \div Turn
      <4>1. n \in Int /\ a <= n /\ n < a + Turn
        BY <2>2, <2>4
      <4>2. QED  BY <2>3, <4>1, AzimuthInTurn
    <3>2. QED  BY <2>2, <3>1
  <2>6. TurnSize(a \div Turn) = Returns(Came(lost, Cover, a, b)) + Overhang(a) - Overhang(b)
    BY <2>2, <2>3, <2>4, TurnSizeIs
  <2>7. QED  BY <2>2, <2>5, <2>6 DEF IsTurn
<1>2. SweepInv => TimesFit
  BY DEF SweepInv
<1>3. QED  BY <1>1, <1>2 DEF SweepsRight, LaterSweepsWhole

LEMMA SweepInitInv == SweepInit => SweepInv
<1>1. SUFFICES ASSUME SweepInit  PROVE SweepInv
  OBVIOUS
<1>2. /\ Turn \in Nat \ {0} /\ Threshold \in Nat
  BY TurnNumbers
<1>3. SweepTypes /\ TimesFit
  BY <1>1, <1>2 DEF SweepInit, SweepTypes, TimesFit
<1>4. PICK b \in Nat : Boundary(b)
  BY SomeBoundary, 0 \in Nat
<1>5. Located(b) /\ clouds = 0
  BY <1>1, <1>2 DEF SweepInit, Located
<1>6. QED  BY <1>3, <1>4, <1>5 DEF SweepInv

\* A packet that gets lost is not seen.
LEMMA LosePacketInv ==
  ASSUME SweepInv, LosePacket
  PROVE  SweepInv'
<1>1. PICK b \in Nat : Boundary(b) /\ Located(b) /\ (clouds > 0 => Gathered(b))
  BY DEF SweepInv
<1>2. /\ Turn \in Nat \ {0} /\ Cover \in Nat \ {0} /\ Near \in Nat /\ b \in Nat
      /\ next \in Nat /\ Turn <= next /\ packet_num \in Nat /\ packet_num * Cover \in Nat
      /\ SweepTypes /\ TimesFit
      /\ return_mode \in {1, 2} /\ NotLost = -Scans /\ Cover <= Scans /\ Scans \in Nat
  <2>1. SweepTypes /\ TimesFit
    BY DEF SweepInv
  <2>2. return_mode \in {1, 2} /\ packet_num \in Nat
    BY <2>1, Numbered
  <2>3. QED  BY <2>1, <2>2, TurnNumbers, SweepNumbers, Numbered, PacketsPassed
<1>3. /\ lost = NotLost /\ lost' = next /\ next' = next + Cover
      /\ UNCHANGED <<return_mode>>
      /\ UNCHANGED <<packet_num, last_azimuth, is_first_sweep, last_packet_time,
                     sweep_end_time, cloud, published, clouds, points>>
  BY DEF LosePacket
<1>10. Cover' = Cover /\ Slack' = Slack
  BY <1>3 DEF Cover, Slack
<1>4. Front = next /\ Front' = next /\ lost' # NotLost /\ NotLost' = NotLost
  BY <1>2, <1>3, <1>10 DEF Front, NotLost
<1>5. SweepTypes'
  BY <1>2, <1>3, <1>10 DEF SweepTypes
<1>6. TimesFit'
  <2> DEFINE began == cloud.first - (cloud.first % Turn)
  <2>1. ASSUME clouds > 0, NEW k \in 1..Len(points)
        PROVE  /\ k > 1 => points[k - 1].time <= points[k].time
               /\ points[k].time - (points[k].firing - began)
                    \in (-(Cover + Slack))..Cover + Slack + 1
    <3>1. /\ k > 1 => points[k - 1].time <= points[k].time
          /\ points[k].time - (points[k].firing - began) \in (-(0 + Slack))..(0 + Slack) + 1
      BY <1>2, <1>3, <2>1 DEF TimesFit, Slack
    <3>2. Slack \in Nat
      BY <1>2, LagIs
    <3> HIDE DEF began
    <3>3. QED  BY <1>2, <3>1, <3>2
  <2>2. QED  BY <1>3, <1>4, <1>10, <2>1 DEF TimesFit, Slack
<1>7. Located(b)'
  <2>1. Followed(b) => Followed(b)'
    BY <1>3, <1>4, <1>10 DEF Followed
  <2>2. Unlooked(b) => Unlooked(b)'
    <3> DEFINE passed == packet_num * Cover
    <3>1. ASSUME Unlooked(b)
          PROVE  /\ next + Cover - b <= passed + 2 * Cover
                 /\ \/ next - b > passed
                    \/ last_azimuth = 0 /\ clouds = 0 /\ next + Cover - b > passed + Cover - Near
      <4>1. /\ next - b <= passed + Cover
            /\ \/ next - b > passed
               \/ last_azimuth = 0 /\ clouds = 0 /\ next - b > passed + Cover - Near
        BY <1>3, <1>4, <3>1 DEF Unlooked
      <4> HIDE DEF passed
      <4>2. passed \in Nat
        BY <1>2 DEF passed
      <4>3. QED  BY <1>2, <4>1, <4>2
    <3>2. packet_num' * Cover = passed /\ passed \in Nat
      BY <1>2, <1>3
    <3> HIDE DEF passed
    <3>3. SUFFICES ASSUME Unlooked(b)  PROVE Unlooked(b)'
      OBVIOUS
    <3>4. \/ Front' - b > packet_num' * Cover
          \/ last_azimuth' = 0 /\ clouds' = 0 /\ next' - b > packet_num' * Cover + Cover - Near
      BY <1>2, <1>3, <1>4, <3>1, <3>2, <3>3
    <3>5. next' - b <= packet_num' * Cover + 2 * Cover
      BY <1>2, <1>3, <3>1, <3>2, <3>3
    <3>6. QED  BY <1>4, <1>10, <3>4, <3>5 DEF Unlooked
  <2>3. QED  BY <1>1, <1>3, <1>4, <2>1, <2>2 DEF Located
<1>8. clouds > 0 => Gathered(b)'
  <2>1. SUFFICES ASSUME clouds > 0, Gathered(b)  PROVE Gathered(b)'
    BY <1>1
  <2>2. /\ b < next /\ Came(next, Cover, b, next) = Came(lost, Cover, b, next)
        /\ Turn <= b => Came(next, Cover, b - Turn, b) = Came(lost, Cover, b - Turn, b)
    BY <1>2, <1>3, <1>4, <2>1 DEF Gathered, Came, Gone
  <2>3. ASSUME NEW n \in Nat, n < next  PROVE Overhang(n)' = Overhang(n)
    <3>1. n \in Int /\ next \in Int /\ n \notin lost..lost + Cover - 1
          /\ n \notin lost'..lost' + Cover - 1
      BY <1>2, <1>3, <2>3
    <3>2. QED  BY <1>2, <1>3, <3>1, OverhangStays
  <2>5. Overhang(b)' = Overhang(b) /\ (Turn <= b => Overhang(b - Turn)' = Overhang(b - Turn))
    BY <1>2, <2>2, <2>3
  <2>6. lost' = NotLost' \/ Front' # next' => 2 * (b - 1 - sweep_end_time') \in 0..Slack'
    BY <1>2, <1>3, <1>4, <1>10, <2>1 DEF Gathered
  <2>7. b < Front' /\ ~is_first_sweep' /\ cloud'.last = Front' - 1
    BY <1>3, <1>4, <2>1 DEF Gathered
  <2>8. /\ Returns(Came(lost, Cover, b, Front))' = Returns(Came(lost, Cover, b, Front))
        /\ Turn <= b => Returns(Came(lost, Cover, b - Turn, b))' =
                          Returns(Came(lost, Cover, b - Turn, b))
    BY <1>3, <1>4, <1>10, <2>2 DEF Returns
  <2>9. QED  BY <1>2, <1>3, <1>4, <1>10, <2>1, <2>5, <2>6, <2>7, <2>8 DEF Gathered
<1>9. QED  BY <1>1, <1>3, <1>5, <1>6, <1>7, <1>8 DEF SweepInv

\* A packet is received: the front is then behind it.
LEMMA FrontMoves ==
  ASSUME SweepTypes, return_mode' = return_mode, next' = next + Cover, lost' = lost,
         packet_num' \in Nat, last_azimuth' \in 0..Turn - 1, is_first_sweep' \in BOOLEAN,
         clouds' \in Nat, is_first_sweep' => clouds' = 0
  PROVE  /\ SweepTypes' /\ Front' = next + Cover /\ Front' = next'
         /\ Cover' = Cover /\ Slack' = Slack /\ return_mode \in {1, 2}
<1>1. /\ Turn \in Nat \ {0} /\ Cover \in Nat \ {0} /\ Cover' = Cover /\ Slack' = Slack
      /\ NotLost = -Scans /\ Scans \in Nat /\ Scans > 0 /\ return_mode \in {1, 2}
  <2>1. return_mode \in {1, 2}
    BY DEF SweepTypes
  <2>2. Cover' = Cover /\ Slack' = Slack
    BY DEF Cover, Slack
  <2>3. QED  BY <2>1, <2>2, TurnNumbers, SweepNumbers DEF NotLost
<1>2. SweepTypes'
  BY <1>1 DEF SweepTypes
<1>3. lost # next
  BY <1>1 DEF SweepTypes, NotLost
<1>4. lost' # next' - Cover
  BY <1>1, <1>3 DEF SweepTypes
<1>5. QED  BY <1>1, <1>2, <1>4 DEF Front

LEMMA AzimuthTyped ==
  ASSUME return_mode \in {1, 2}, next \in Nat, NEW i \in 0..Scans - 1
  PROVE  AzimuthOf(i) \in 0..Turn - 1
<1>1. Turn \in Nat \ {0} /\ Cover \in Int
  BY SweepNumbers
<1>2. FiringAt(i) \in next..next + Cover - 1
  BY PacketFirings
<1>3. FiringAt(i) \in Int
  BY <1>1, <1>2
<1>4. QED  BY <1>1, <1>3, DivMod DEF AzimuthOf

\* The first sweep has not begun yet.
LEMMA DiscardInv ==
  ASSUME SweepInv, Discard, return_mode' = return_mode, next' = next + Cover, lost' = lost
  PROVE  SweepInv'
<1>1. PICK b \in Nat : Boundary(b) /\ Located(b)
  BY DEF SweepInv
<1>2. /\ Turn \in Nat \ {0} /\ Cover \in Nat \ {0} /\ Threshold \in Nat
      /\ next \in Nat /\ packet_num \in Nat /\ SweepTypes /\ last_azimuth \in 0..Turn - 1
      /\ return_mode \in {1, 2} /\ Scans - 1 \in 0..Scans - 1
  BY TurnNumbers, SweepNumbers, Numbered DEF SweepInv, SweepTypes
<1>3. /\ is_first_sweep /\ is_first_sweep' = is_first_sweep /\ clouds = 0 /\ clouds' = clouds
      /\ packet_num' = packet_num + 1
      /\ last_azimuth' = IF Looks THEN AzimuthOf(Scans - 1) ELSE last_azimuth
  BY <1>2 DEF Discard, SweepTypes
<1>4. SweepTypes' /\ Front' = next + Cover /\ TimesFit'
  <2>1. last_azimuth' \in 0..Turn - 1
    BY <1>2, <1>3, AzimuthTyped
  <2>2. SweepTypes' /\ Front' = next + Cover
    BY <1>2, <1>3, <2>1, FrontMoves
  <2>3. QED  BY <1>3, <2>2 DEF TimesFit
<1>5. CASE Looks
  <2>1. next + Cover - 1 \in Nat
    BY <1>2
  <2>2. PICK c \in Nat : Boundary(c) /\ c <= next + Cover - 1 /\ next + Cover - 1 < c + Turn
    BY <2>1, SomeBoundary
  <2>3. last_azimuth' = next + Cover - 1 - c
    <3>1. last_azimuth' = (next + (Cover - 1)) % Turn
      <4>1. FiringAt(Scans - 1) = next + (Cover - 1)
        BY <1>2, PacketEnds
      <4>2. QED  BY <1>3, <1>5, <4>1 DEF AzimuthOf
    <3>2. PICK n \in Int : n = next + (Cover - 1)
      BY <1>2
    <3>3. c <= n /\ n < c + Turn
      BY <1>2, <2>2, <3>2
    <3>4. n % Turn = n - c
      BY <2>2, <3>3, AzimuthInTurn
    <3>5. last_azimuth' = n % Turn
      BY <3>1, <3>2
    <3>6. n - c = next + Cover - 1 - c
      BY <1>2, <2>2, <3>2
    <3>7. QED  BY <3>4, <3>5, <3>6
  <2>4. Followed(c)'
    BY <1>2, <1>4, <2>2, <2>3 DEF Followed
  <2>5. ~(packet_num' <= Threshold)
    BY <1>2, <1>3, <1>5 DEF Looks
  <2>6. Located(c)'
    BY <1>3, <2>4, <2>5 DEF Located
  <2>7. QED  BY <1>3, <1>4, <2>2, <2>6 DEF SweepInv
<1>6. CASE ~Looks
  <2>1. packet_num' <= Threshold /\ packet_num <= Threshold /\ ~(packet_num' > Threshold)
    BY <1>2, <1>3, <1>6 DEF Looks
  <2>2. Located(b)'
    BY <1>1, <1>3, <1>6, <2>1 DEF Located
  <2>3. QED  BY <1>1, <1>3, <1>4, <2>2 DEF SweepInv
<1>7. QED  BY <1>5, <1>6

\* The first sweep begins: with a turn, or before one where the last azimuth is not
\* yet known.
LEMMA BeginInv ==
  ASSUME SweepInv, Begin, return_mode' = return_mode, next' = next + Cover, lost' = lost
  PROVE  SweepInv'
<1> DEFINE s == new_sweep_start
<1>1. PICK b \in Nat : Boundary(b) /\ Located(b)
  BY DEF SweepInv
<1>2. /\ Turn \in Nat \ {0} /\ Cover \in Nat \ {0} /\ Threshold \in Nat /\ Near \in Nat
      /\ Cover + 1 < Near /\ Cover < Turn /\ Near < Turn
      /\ next \in Nat /\ packet_num \in Nat /\ SweepTypes /\ last_azimuth \in 0..Turn - 1
      /\ Front \in Nat /\ (Front = next \/ Front = next - Cover)
      /\ (Front # next => lost # NotLost)
      /\ return_mode \in {1, 2} /\ Scans \in Nat \ {0}
  BY TurnNumbers, SweepNumbers, Numbered DEF SweepInv, SweepTypes
<1>3. /\ is_first_sweep /\ is_first_sweep' = FALSE /\ clouds = 0 /\ clouds' = clouds
      /\ packet_num' = 0 /\ s # Scans /\ last_packet_time' = next + Cover - 1
      /\ last_azimuth' = IF s = 0 THEN last_azimuth ELSE AzimuthOf(s - 1)
  BY <1>2 DEF Begin, SweepTypes, current_packet_time
<1>4. Looks
  BY <1>3 DEF new_sweep_start
<1> HIDE DEF s
<1>5. ASSUME NEW c, Boundary(c),
             \/ 0 < next + Cover - c
             \/ last_azimuth' = 0 /\ next + Cover - c > Cover - Near,
             next + Cover - c <= 2 * Cover,
             lost = NotLost => next + Cover - c <= Cover,
             s \in 0..Scans - 1
      PROVE  SweepInv'
  <2>1. last_azimuth' \in 0..Turn - 1
    <3>1. s = 0 \/ s - 1 \in 0..Scans - 1
      BY <1>2, <1>5
    <3>2. QED  BY <1>2, <1>3, <3>1, AzimuthTyped
  <2>2. SweepTypes' /\ Front' = next + Cover /\ Front' = next' /\ Cover' = Cover /\ NotLost' = NotLost
    BY <1>2, <1>3, <2>1, FrontMoves DEF NotLost
  <2>3. TimesFit'
    BY <1>3 DEF TimesFit
  <2>4. packet_num' * Cover = 0 /\ c \in Nat
    BY <1>2, <1>3, <1>5, PacketsPassed DEF Boundary
  <2>5. Unlooked(c)'
    <3>1. next' - c <= packet_num' * Cover + 2 * Cover
      BY <1>2, <1>5, <2>4
    <3>2. lost' = NotLost => next' - c <= packet_num' * Cover + Cover
      BY <1>2, <1>5, <2>2, <2>4
    <3>3. \/ Front' - c > packet_num' * Cover
          \/ last_azimuth' = 0 /\ clouds' = 0 /\ next' - c > packet_num' * Cover + Cover - Near
      BY <1>2, <1>3, <1>5, <2>2, <2>4
    <3>4. QED  BY <2>2, <3>1, <3>2, <3>3 DEF Unlooked
  <2>6. Located(c)'
    BY <1>2, <1>3, <2>2, <2>5 DEF Located
  <2>7. QED  BY <1>3, <1>5, <2>2, <2>3, <2>4, <2>6 DEF SweepInv
<1>6. CASE packet_num > Threshold
  <2>1. Followed(b)
    BY <1>1, <1>6 DEF Located
  <2>2. /\ b < next /\ Front <= b + Turn
        /\ \/ s = 0 /\ b + Turn <= next
           \/ next < b + Turn /\ b + Turn < next + Cover
        /\ s \in 0..Scans - 1
    <3>1. Sits(b)
      BY <1>1, <1>2, <1>4, <1>6, <2>1, SitsInTurn
    <3>2. StartsAt(b + Turn) =>
            /\ next < b + Turn /\ b + Turn < next + Cover /\ s \in 0..Scans - 1
      <4>1. b + Turn \in Nat
        BY <1>2
      <4>2. QED  BY <1>2, <4>1, StartsAtIs DEF s
    <3>3. QED  BY <1>2, <1>3, <3>1, <3>2 DEF Sits, s
  <2>3. Boundary(b + Turn)
    BY <1>1, NextBoundary
  <2>4. /\ 0 < next + Cover - (b + Turn) /\ next + Cover - (b + Turn) <= 2 * Cover
        /\ lost = NotLost => next + Cover - (b + Turn) <= Cover
    BY <1>2, <1>3, <2>2
  <2>5. QED  BY <1>2, <1>5, <2>2, <2>3, <2>4
<1>7. CASE ~(packet_num > Threshold)
  <2>1. PICK c \in Nat : Boundary(c) /\ c <= next /\ next < c + Turn
    BY <1>2, SomeBoundary
  <2>2. Boundary(c + Turn)
    BY <2>1, NextBoundary
  <2>3. last_azimuth = 0
    BY <1>1, <1>2, <1>3, <1>7 DEF Located
  <2>4. CASE Wraps(0)
    <3>1. s = 0
      BY <1>2, <1>4, <2>4, StartInTurn DEF s
    <3>2. AzimuthOf(0) = next - c
      <4>1. c <= next /\ next < c + Turn + Turn /\ next \in Int
        BY <1>2, <2>1
      <4>2. FiringAt(0) = next
        BY <1>2, PacketEnds
      <4>3. QED  BY <2>1, <4>1, <4>2, AzimuthFrom
    <3>3. next - c > Turn - Near
      <4>1. Step(0) = next - c
        BY <1>2, <2>1, <2>3, <3>2 DEF Step, Distance
      <4>2. QED  BY <2>4, <4>1 DEF Wraps
    <3>4. /\ last_azimuth' = 0 /\ next + Cover - (c + Turn) > Cover - Near
          /\ next + Cover - (c + Turn) <= Cover /\ next + Cover - (c + Turn) <= 2 * Cover
      BY <1>2, <1>3, <2>1, <2>3, <3>1, <3>3
    <3>5. 0 \in 0..Scans - 1
      BY <1>2
    <3>6. QED  BY <1>2, <1>5, <2>2, <3>1, <3>4, <3>5
  <2>5. CASE ~Wraps(0)
    <3>1. StartsAt(c + Turn)
      BY <1>2, <1>3, <1>4, <2>1, <2>5, StartInTurn DEF s
    <3>2. /\ 0 < next + Cover - (c + Turn) /\ next + Cover - (c + Turn) <= Cover
          /\ next + Cover - (c + Turn) <= 2 * Cover /\ s \in 0..Scans - 1
      <4>1. c + Turn \in Nat
        BY <1>2
      <4>2. next < c + Turn /\ c + Turn < next + Cover /\ s \in 1..Scans - 1
        BY <1>2, <3>1, <4>1, StartsAtIs DEF s
      <4>3. QED  BY <1>2, <2>1, <4>2
    <3>3. QED  BY <1>5, <2>2, <3>2
  <2>6. QED  BY <2>4, <2>5
<1>8. QED  BY <1>6, <1>7

\* Where the last packet was, while a sweep goes on.
LEMMA OnTheWay ==
  ASSUME SweepInv, ~is_first_sweep, NEW b \in Nat, Located(b), Boundary(b)
  PROVE  /\ last_packet_time = Front - 1 /\ SweepTypes /\ TimesFit
         /\ packet_num > Threshold => Followed(b)
         /\ packet_num <= Threshold => Unlooked(b)
         /\ Looks => Sits(b)
<1>1. /\ last_packet_time = Front - 1 /\ SweepTypes /\ TimesFit
      /\ packet_num > Threshold => Followed(b)
      /\ packet_num <= Threshold => Unlooked(b)
  BY DEF SweepInv, Located
<1>2. QED  BY <1>1, SitsInTurn

\* How far times may be off, and when the next points' times fit.
Margin == (IF lost = NotLost THEN 0 ELSE Cover) + Slack

LEMMA NextTimesFit ==
  ASSUME return_mode' = return_mode, lost' = lost,
         NEW b, Boundary(b), cloud'.first \in b..b + Turn - 1,
         \A k \in 1..Len(points') :
           /\ k > 1 => points'[k - 1].time <= points'[k].time
           /\ points'[k].time - (points'[k].firing - b) \in (-Margin)..Margin + 1
  PROVE  TimesFit'
<1> DEFINE first == cloud'.first
<1>1. Turn \in Nat \ {0} /\ b \in Nat /\ first \in Int /\ b <= first /\ first < b + Turn
  BY TurnNumbers DEF Boundary
<1> HIDE DEF first
<1>2. first - (first % Turn) = b
  <2>1. first % Turn = first - b
    BY <1>1, AzimuthInTurn
  <2>2. QED  BY <1>1, <2>1
<1>3. Margin = (IF lost = NotLost THEN 0 ELSE Cover) + IF return_mode = 1 THEN 0 ELSE Block - 1
  BY DEF Margin, Slack
<1>4. Cover' = Cover /\ NotLost' = NotLost
  BY DEF Cover, NotLost
<1>5. Margin = (IF lost' = NotLost' THEN 0 ELSE Cover') + IF return_mode' = 1 THEN 0 ELSE Block - 1
  BY <1>3, <1>4
<1> HIDE DEF Margin
<1>6. cloud'.first - (cloud'.first % Turn) = b
  BY <1>2 DEF first
<1>7. QED  BY <1>5, <1>6 DEF TimesFit

\* The times of the points of a packet within a turn.
LEMMA OldTimesFit ==
  ASSUME SweepTypes, last_packet_time = Front - 1, NEW b, Boundary(b),
         b <= next, next + Cover <= b + Turn,
         sweep_end_time \in Int, b - Cover - 1 <= sweep_end_time, sweep_end_time <= b - 1,
         lost = NotLost \/ Front # next => 2 * (b - 1 - sweep_end_time) \in 0..Slack,
         points' = OldPoints(0, Scans), return_mode' = return_mode, lost' = lost,
         cloud'.first \in b..b + Turn - 1
  PROVE  TimesFit'
<1> DEFINE new == OldPoints(0, Scans)
<1> HIDE DEF new
<1>1. /\ Cover \in Nat \ {0} /\ Scans \in Nat \ {0} /\ b \in Nat /\ next \in Nat
      /\ (Front = next \/ Front = next - Cover)
      /\ (Front # next => lost # NotLost)
      /\ current_packet_time = next + Cover - 1 /\ return_mode \in {1, 2}
  BY TurnNumbers, SweepNumbers, Numbered DEF Boundary, current_packet_time
<1>2. /\ return_mode = 1 => Cover = Scans
      /\ return_mode = 2 => 2 * Cover = Scans
      /\ Slack \in Nat /\ Block \in Nat
      /\ return_mode = 1 => Slack = 0
      /\ return_mode = 2 => Slack = Block - 1
  BY <1>1, CoverIs, LagIs DEF Slack
<1>3. /\ Len(new) = Scans
      /\ \A k \in 1..Scans :
           /\ new[k].firing = FiringAt(k - 1)
           /\ new[k].time = next + Cover - 1 - sweep_end_time - Share(Scans - k)
  <2>1. 0 \in 0..Scans /\ Scans \in 0..Scans /\ Scans - 0 = Scans
    BY <1>1
  <2>2. /\ Len(new) = Scans - 0
        /\ \A k \in 1..Scans - 0 :
             /\ new[k].firing = FiringAt(0 + k - 1)
             /\ new[k].time = current_packet_time - sweep_end_time - Share(Scans - 0 - k)
    BY <2>1, OldPointsAre DEF new
  <2>3. ASSUME NEW k \in 1..Scans
        PROVE  /\ new[k].firing = FiringAt(k - 1)
               /\ new[k].time = next + Cover - 1 - sweep_end_time - Share(Scans - k)
    <3>1. k \in 1..Scans - 0 /\ 0 + k - 1 = k - 1 /\ Scans - 0 - k = Scans - k
      BY <1>1, <2>1
    <3>2. /\ new[k].firing = FiringAt(0 + k - 1)
          /\ new[k].time = current_packet_time - sweep_end_time - Share(Scans - 0 - k)
      BY <2>2, <3>1
    <3>3. new[k].firing = FiringAt(k - 1)
      BY <3>1, <3>2
    <3>4. Share(Scans - 0 - k) = Share(Scans - k) /\ Share(Scans - k) \in Int
      BY <1>1, <3>1, ShareIs
    <3>5. new[k].time = next + Cover - 1 - sweep_end_time - Share(Scans - k)
      BY <1>1, <3>2, <3>4
    <3>6. QED  BY <3>3, <3>5
  <2>4. QED  BY <2>1, <2>2, <2>3
<1>4. ASSUME NEW k \in 1..Scans
      PROVE  /\ k > 1 => new[k - 1].time <= new[k].time
             /\ new[k].time - (new[k].firing - b) \in (-Margin)..Margin + 1
  <2>1. k > 1 => new[k - 1].time <= new[k].time
    <3> SUFFICES ASSUME k > 1  PROVE new[k - 1].time <= new[k].time
      OBVIOUS
    <3>1. k - 1 \in 1..Scans /\ Scans - k \in Int /\ Scans - (k - 1) \in Int
          /\ Scans - (k - 1) = (Scans - k) + 1
      BY <1>1
    <3>2. /\ new[k].time = next + Cover - 1 - sweep_end_time - Share(Scans - k)
          /\ new[k - 1].time = next + Cover - 1 - sweep_end_time - Share(Scans - (k - 1))
      BY <1>3, <3>1
    <3>3. Share(Scans - k) \in Int /\ Share(Scans - (k - 1)) \in Int
          /\ Share(Scans - k) <= Share(Scans - (k - 1))
      <4>1. PICK j \in Int : j = Scans - k /\ j + 1 = Scans - (k - 1)
        BY <3>1
      <4>2. Share(j) \in Int /\ Share(j + 1) \in Int /\ Share(j) <= Share(j + 1)
        BY <1>1, ShareIs
      <4>3. QED  BY <4>1, <4>2
    <3>4. QED  BY <1>1, <3>2, <3>3
  <2> DEFINE i == k - 1
             e == FiringAt(i) - next
             late == b - 1 - sweep_end_time
             share == Share(Scans - k)
  <2>2. i \in 0..Scans - 1 /\ Scans - k = Scans - 1 - i
    BY <1>1
  <2>3. /\ e \in 0..Cover - 1 /\ FiringAt(i) = next + e
        /\ return_mode = 1 => e = i
        /\ return_mode = 2 => i - 2 * e \in 1 - Block..Block
    <3> HIDE DEF i
    <3>1. /\ FiringAt(i) \in next..next + Cover - 1
          /\ return_mode = 1 => FiringAt(i) = next + i
          /\ return_mode = 2 => i - 2 * (FiringAt(i) - next) \in 1 - Block..Block
      BY <1>1, <2>2, PacketFirings
    <3>2. QED  BY <1>1, <2>2, <3>1
  <2>4. /\ late \in Int /\ 0 <= late /\ late <= Cover
        /\ lost = NotLost \/ Front # next => 2 * late \in 0..Slack
    BY <1>1
  <2>5. /\ share \in Int
        /\ return_mode = 1 /\ Front = next => share = Scans - 1 - i
        /\ return_mode = 1 /\ Front # next => share = 2 * (Scans - 1 - i)
        /\ return_mode = 2 /\ Front = next => 2 * share <= Scans - 1 - i /\ Scans - 1 - i <= 2 * share + 1
        /\ return_mode = 2 /\ Front # next => share = Scans - 1 - i
    <3>1. PICK j \in Int : j = Scans - k /\ j = Scans - 1 - i
      BY <1>1, <2>2
    <3>2. QED  BY <1>1, <3>1, ShareIs
  <2>6. new[k].time - (new[k].firing - b) = Cover - e + late - share
    <3>1. new[k].firing = next + e /\ new[k].time = next + Cover - 1 - sweep_end_time - share
      BY <1>3, <2>3
    <3> HIDE DEF e, share
    <3>2. QED  BY <1>1, <2>3, <2>5, <3>1
  <2>7. i \in Int /\ 0 <= i /\ i <= Scans - 1
    BY <1>1, <2>2
  <2> HIDE DEF i, e, late, share
  <2>8. Cover - e + late - share \in (-Margin)..Margin + 1
    <3>1. CASE return_mode = 1
      BY <1>1, <1>2, <2>3, <2>4, <2>5, <2>7, <3>1 DEF Margin
    <3>2. CASE return_mode = 2 /\ Front = next
      <4>1. /\ 2 * share <= 2 * Cover - 1 - i /\ 2 * Cover - 1 - i <= 2 * share + 1
            /\ 1 - Block <= i - 2 * e /\ i - 2 * e <= Block
        BY <1>1, <1>2, <2>3, <2>5, <2>7, <3>2
      <4>2. CASE lost = NotLost
        <5>1. 0 <= 2 * late /\ 2 * late <= Block - 1
          BY <1>2, <2>4, <3>2, <4>2
        <5>2. QED  BY <1>1, <1>2, <2>3, <2>4, <2>5, <2>7, <3>2, <4>1, <4>2, <5>1 DEF Margin
      <4>3. CASE lost # NotLost
        BY <1>1, <1>2, <2>3, <2>4, <2>5, <2>7, <3>2, <4>1, <4>3 DEF Margin
      <4>4. QED  BY <4>2, <4>3
    <3>3. CASE return_mode = 2 /\ Front # next
      BY <1>1, <1>2, <2>3, <2>4, <2>5, <2>7, <3>3 DEF Margin
    <3>4. QED  BY <1>1, <3>1, <3>2, <3>3
  <2>9. QED  BY <2>1, <2>6, <2>8
<1>5. points' = new
  BY DEF new
<1>6. QED  BY <1>3, <1>4, <1>5, NextTimesFit

\* A packet within a turn.
LEMMA ContinueInv ==
  ASSUME SweepInv, Continue, return_mode' = return_mode, next' = next + Cover, lost' = lost
  PROVE  SweepInv'
<1>1. PICK b \in Nat : Boundary(b) /\ Located(b) /\ (clouds > 0 => Gathered(b))
  BY DEF SweepInv
<1> DEFINE passed == packet_num * Cover
           skipped == Threshold * Cover
<1>2. /\ ~is_first_sweep /\ new_sweep_start = Scans
      /\ is_first_sweep' = is_first_sweep /\ clouds' = clouds
      /\ packet_num' = packet_num + 1 /\ last_packet_time' = next + Cover - 1
      /\ last_azimuth' = IF Looks THEN AzimuthOf(Scans - 1) ELSE last_azimuth
      /\ points' = OldPoints(0, Scans) /\ cloud' = Extended(cloud, points')
      /\ sweep_end_time' = sweep_end_time /\ published' = published
  BY DEF Continue, current_packet_time
<1>3. /\ last_packet_time = Front - 1 /\ SweepTypes /\ TimesFit
      /\ (packet_num > Threshold => Followed(b))
      /\ (packet_num <= Threshold => Unlooked(b))
      /\ (Looks => Sits(b))
  BY <1>1, <1>2, OnTheWay
<1>4. /\ Turn \in Nat \ {0} /\ Cover \in Nat \ {0} /\ Threshold \in Nat /\ Near \in Nat
      /\ skipped \in Nat /\ Near <= skipped + 1 /\ skipped + 2 * Cover + Near <= Turn
      /\ next \in Nat /\ packet_num \in Nat /\ last_azimuth \in 0..Turn - 1 /\ clouds \in Nat
      /\ Front \in Nat /\ (Front = next \/ (Front = next - Cover /\ lost = Front))
      /\ (Front = next => lost = NotLost \/ lost + Cover <= next) /\ lost \in Int
      /\ 0 < Near /\ NotLost = -Scans /\ Cover <= Scans
      /\ return_mode \in {1, 2} /\ Scans \in Nat \ {0} /\ Scans - 1 \in 0..Scans - 1
  BY <1>3, TurnNumbers, SweepNumbers, Numbered DEF SweepTypes
<1>5. /\ passed \in Nat /\ packet_num' * Cover = passed + Cover
      /\ packet_num < Threshold => passed + Cover <= skipped
  BY <1>2, <1>4, PacketsPassed
<1> HIDE DEF passed, skipped
<1>6. /\ SweepTypes' /\ Front' = next + Cover /\ Front' = next'
      /\ Cover' = Cover /\ Slack' = Slack /\ NotLost' = NotLost
  <2>1. last_azimuth' \in 0..Turn - 1
    BY <1>2, <1>4, AzimuthTyped
  <2>2. packet_num' \in Nat /\ clouds' \in Nat
    BY <1>2, <1>4
  <2>3. is_first_sweep' \in BOOLEAN /\ ~is_first_sweep'
    BY <1>2, <1>3 DEF SweepTypes
  <2>4. QED  BY <1>3, <2>1, <2>2, <2>3, FrontMoves DEF NotLost
<1>7. Located(b)'
  <2>1. CASE Looks
    <3>1. b < next /\ next + Cover <= b + Turn
      BY <1>2, <1>3, <1>4, <2>1, SitsBefore
    <3>2. last_azimuth' = next + Cover - 1 - b
      <4>1. last_azimuth' = (next + (Cover - 1)) % Turn
        <5>1. FiringAt(Scans - 1) = next + (Cover - 1)
          BY <1>4, PacketEnds
        <5>2. QED  BY <1>2, <2>1, <5>1 DEF AzimuthOf
      <4>2. PICK n \in Int : n = next + (Cover - 1)
        BY <1>4
      <4>3. b <= n /\ n < b + Turn
        BY <1>4, <3>1, <4>2
      <4>4. n % Turn = n - b
        BY <1>1, <4>3, AzimuthInTurn
      <4>5. last_azimuth' = n % Turn
        BY <4>1, <4>2
      <4>6. n - b = next + Cover - 1 - b
        BY <1>4, <4>2
      <4>7. QED  BY <4>4, <4>5, <4>6
    <3>3. Followed(b)'
      BY <1>4, <1>6, <3>1, <3>2 DEF Followed
    <3>4. ~(packet_num' <= Threshold)
      BY <1>2, <1>4, <2>1 DEF Looks
    <3>5. QED  BY <1>2, <1>4, <1>6, <3>3, <3>4 DEF Located
  <2>2. CASE ~Looks
    <3>1. packet_num < Threshold /\ ~(packet_num' > Threshold) /\ Unlooked(b) /\ last_azimuth' = last_azimuth
      BY <1>2, <1>3, <1>4, <2>2 DEF Looks
    <3>2. /\ next - b <= passed + 2 * Cover
          /\ lost = NotLost => next - b <= passed + Cover
          /\ \/ Front - b > passed
             \/ last_azimuth = 0 /\ clouds = 0 /\ next - b > passed + Cover - Near
      BY <3>1 DEF Unlooked, passed
    <3>3. next' - b <= packet_num' * Cover + 2 * Cover
      BY <1>4, <1>5, <3>2
    <3>4. lost' = NotLost => next' - b <= packet_num' * Cover + Cover
      BY <1>4, <1>5, <3>2
    <3>5. \/ Front' - b > packet_num' * Cover
          \/ last_azimuth' = 0 /\ clouds' = 0 /\ next' - b > packet_num' * Cover + Cover - Near
      BY <1>2, <1>4, <1>5, <1>6, <3>1, <3>2
    <3>6. Unlooked(b)'
      BY <1>6, <3>3, <3>4, <3>5 DEF Unlooked
    <3>7. QED  BY <1>2, <1>4, <1>6, <3>1, <3>6 DEF Located
  <2>3. QED  BY <2>1, <2>2
<1>8. ASSUME clouds > 0
      PROVE  TimesFit' /\ Gathered(b)'
  <2>1. Gathered(b)
    BY <1>1, <1>8
  <2>2. b < Front /\ b <= next /\ next + Cover <= b + Turn
    <3>1. b < Front /\ b <= next
      BY <1>4, <2>1 DEF Gathered
    <3>2. CASE Looks
      BY <1>2, <1>3, <1>4, <3>1, <3>2, SitsBefore
    <3>3. CASE ~Looks
      <4>1. packet_num < Threshold /\ Unlooked(b)
        BY <1>3, <1>4, <3>3 DEF Looks
      <4>2. next - b <= passed + 2 * Cover
        BY <4>1 DEF Unlooked, passed
      <4>3. QED  BY <1>4, <1>5, <3>1, <4>1, <4>2
    <3>4. QED  BY <3>1, <3>2, <3>3
  <2>3. /\ cloud'.first = cloud.first /\ cloud'.last = next + Cover - 1
        /\ cloud'.size = cloud.size + Scans
    <3>1. PICK times : OldPoints(0, Scans) = TimedPoints(0, Scans, times)
      BY DEF OldPoints
    <3>2. 0 \in 0..Scans /\ Scans \in 0..Scans /\ 0 < Scans /\ Scans - 0 = Scans
      BY <1>4
    <3>3. cloud' = Extended(cloud, TimedPoints(0, Scans, times))
      BY <1>2, <3>1
    <3>4. /\ cloud'.first = IF cloud.size = 0 THEN FiringAt(0) ELSE cloud.first
          /\ cloud'.last = FiringAt(Scans - 1)
          /\ cloud'.size = cloud.size + (Scans - 0)
      BY <3>2, <3>3, ExtendedBy
    <3>5. FiringAt(Scans - 1) = next + Cover - 1
      BY <1>4, PacketEnds
    <3>6. QED  BY <2>1, <3>2, <3>4, <3>5 DEF Gathered
  <2>4. TimesFit'
    <3>1. cloud'.first \in b..b + Turn - 1
      BY <2>1, <2>3 DEF Gathered
    <3>2. QED  BY <1>1, <1>2, <1>3, <2>1, <2>2, <3>1, OldTimesFit DEF Gathered
  <2>5. Came(lost, Cover, b, next + Cover) = Came(lost, Cover, b, Front) + Cover
        /\ Came(lost, Cover, b, Front) \in Int
    BY <1>4, <2>2 DEF Came, Gone
  <2>6. Returns(Came(lost, Cover, b, next + Cover)) = Returns(Came(lost, Cover, b, Front)) + Scans
        /\ Returns(Came(lost, Cover, b, Front)) \in Int
    <3> DEFINE came == Came(lost, Cover, b, Front)
    <3>1. Came(lost, Cover, b, next + Cover) = came + Cover /\ came \in Int
      BY <2>5
    <3> HIDE DEF came
    <3>2. Returns(came + Cover) = Returns(came) + Scans /\ Returns(came) \in Int
      BY <1>4, <3>1, CoverIs DEF Returns
    <3>3. QED  BY <3>1, <3>2 DEF came
  <2>7. \A n \in Int : Overhang(n) \in Int
    BY <1>4, OverhangIs
  <2>8. \A n \in Int : Overhang(n)' = Overhang(n)
    BY <1>4, <1>6, OverhangStays
  <2>9. /\ cloud'.first \in b..b + Turn - 1 /\ cloud'.last = Front' - 1 /\ b < Front'
        /\ cloud'.size \in Nat \ {0}
        /\ cloud'.size = Returns(Came(lost, Cover, b, next + Cover)) + Overhang(b)
    <3>1. cloud'.first \in b..b + Turn - 1 /\ cloud'.last = Front' - 1 /\ b < Front'
      BY <1>4, <1>6, <2>1, <2>2, <2>3 DEF Gathered
    <3>2. cloud.size \in Nat \ {0} /\ cloud.size = Returns(Came(lost, Cover, b, Front)) + Overhang(b)
      BY <2>1 DEF Gathered
    <3>3. Overhang(b) \in Int
      BY <2>7
    <3>4. cloud'.size \in Nat \ {0}
          /\ cloud'.size = Returns(Came(lost, Cover, b, next + Cover)) + Overhang(b)
      BY <1>4, <2>3, <2>6, <3>2, <3>3
    <3>5. QED  BY <3>1, <3>4
  <2>10. /\ Returns(Came(lost, Cover, b, Front))' = Returns(Came(lost, Cover, b, next + Cover))
         /\ Returns(Came(lost, Cover, b - Turn, b))' = Returns(Came(lost, Cover, b - Turn, b))
    BY <1>6 DEF Returns
  <2>11. Overhang(b)' = Overhang(b) /\ Overhang(b - Turn)' = Overhang(b - Turn)
    <3>1. b \in Int /\ b - Turn \in Int
      BY <1>4
    <3>2. QED  BY <2>8, <3>1
  <2>12. lost' = NotLost' \/ Front' # next' => 2 * (b - 1 - sweep_end_time') \in 0..Slack'
    BY <1>2, <1>6, <2>1 DEF Gathered
  <2>13. cloud'.size = Returns(Came(lost, Cover, b, Front))' + Overhang(b)'
    BY <2>9, <2>10, <2>11
  <2>14. Gathered(b)'
    BY <1>2, <1>6, <2>1, <2>9, <2>10, <2>11, <2>12, <2>13 DEF Gathered
  <2>15. QED  BY <2>4, <2>14
<1>9. CASE clouds > 0
  BY <1>1, <1>2, <1>6, <1>7, <1>8, <1>9 DEF SweepInv
<1>10. CASE ~(clouds > 0)
  <2>1. TimesFit'
    BY <1>2, <1>10 DEF TimesFit
  <2>2. QED  BY <1>1, <1>2, <1>6, <1>7, <1>10, <2>1 DEF SweepInv
<1>11. QED  BY <1>9, <1>10

\* The times of the points of a new sweep: those since it began, b being the first
\* firing of its turn.
LEMMA NewTimesFit ==
  ASSUME SweepTypes, last_packet_time = Front - 1, NEW b, Boundary(b),
         NEW s \in 0..Scans - 1, Front <= b, next + Cover <= b + Turn,
         s > 0 => next < b /\ s = Returns(b - next) - Lag(b - next) /\ Lag(b - next) <= b - next,
         s = 0 => b <= next,
         points' = NewPoints(s), return_mode' = return_mode, lost' = lost,
         cloud'.first \in b..b + Turn - 1
  PROVE  TimesFit'
<1> DEFINE new == NewPoints(s)
<1> HIDE DEF new
<1>1. /\ Cover \in Nat \ {0} /\ Scans \in Nat \ {0} /\ b \in Nat /\ next \in Nat
      /\ (Front = next \/ Front = next - Cover)
      /\ (Front # next => lost # NotLost) /\ s \in Nat /\ s < Scans
      /\ return_mode \in {1, 2}
  BY TurnNumbers, SweepNumbers, Numbered DEF Boundary
<1>2. /\ return_mode = 1 => Cover = Scans
      /\ return_mode = 2 => 2 * Cover = Scans
      /\ Slack \in Nat /\ Block \in Nat
      /\ return_mode = 1 => Slack = 0
      /\ return_mode = 2 => Slack = Block - 1
  BY <1>1, CoverIs, LagIs DEF Slack
<1>3. /\ Len(new) = Scans - s
      /\ \A k \in 1..Scans - s :
           /\ new[k].firing = FiringAt(s + k - 1)
           /\ new[k].time = Share(k - 1)
  BY NewPointsAre DEF new
<1> DEFINE d == b - next
           lag == Lag(d)
<1>4. /\ d \in Int /\ lag \in Int /\ 0 <= lag /\ lag <= Slack
      /\ s > 0 => 0 < d /\ lag <= d
      /\ s > 0 /\ return_mode = 1 => s = d
      /\ s > 0 /\ return_mode = 2 => s = 2 * d - lag
      /\ s = 0 => d <= 0 /\ -Cover <= d /\ (Front = next => d = 0)
  <2>1. d \in Int
    BY <1>1
  <2>2. lag \in Int /\ 0 <= lag /\ lag <= Slack /\ (return_mode = 1 => lag = 0)
    BY <1>1, <2>1, LagIs DEF Lag
  <2>3. /\ s > 0 => 0 < d /\ lag <= d
        /\ s = 0 => d <= 0 /\ -Cover <= d /\ (Front = next => d = 0)
    BY <1>1
  <2>4. s > 0 => s = Returns(d) - lag
    BY <1>1
  <2> HIDE DEF d, lag
  <2>5. QED  BY <1>1, <2>1, <2>2, <2>3, <2>4 DEF Returns
<1>5. ASSUME NEW k \in 1..Scans - s
      PROVE  /\ k > 1 => new[k - 1].time <= new[k].time
             /\ new[k].time - (new[k].firing - b) \in (-Margin)..Margin + 1
  <2>1. k > 1 => new[k - 1].time <= new[k].time
    <3> SUFFICES ASSUME k > 1  PROVE new[k - 1].time <= new[k].time
      OBVIOUS
    <3>1. k - 1 \in 1..Scans - s /\ k - 1 = (k - 1 - 1) + 1 /\ k - 1 - 1 \in Int
      BY <1>1
    <3>2. new[k].time = Share(k - 1) /\ new[k - 1].time = Share(k - 1 - 1)
      BY <1>3, <3>1
    <3>3. PICK j \in Int : j = k - 1 - 1 /\ j + 1 = k - 1
      BY <3>1
    <3>4. Share(j) \in Int /\ Share(j + 1) \in Int /\ Share(j) <= Share(j + 1)
      BY <1>1, ShareIs
    <3>5. QED  BY <3>2, <3>3, <3>4
  <2> DEFINE i == s + k - 1
             e == FiringAt(i) - next
             share == Share(k - 1)
  <2>2. i \in 0..Scans - 1 /\ k - 1 = i - s
    BY <1>1
  <2>3. /\ e \in 0..Cover - 1 /\ FiringAt(i) = next + e
        /\ return_mode = 1 => e = i
        /\ return_mode = 2 => i - 2 * e \in 1 - Block..Block
    <3> HIDE DEF i
    <3>1. /\ FiringAt(i) \in next..next + Cover - 1
          /\ return_mode = 1 => FiringAt(i) = next + i
          /\ return_mode = 2 => i - 2 * (FiringAt(i) - next) \in 1 - Block..Block
      BY <1>1, <2>2, PacketFirings
    <3>2. QED  BY <1>1, <2>2, <3>1
  <2>5. /\ share \in Int
        /\ return_mode = 1 /\ Front = next => share = i - s
        /\ return_mode = 1 /\ Front # next => share = 2 * (i - s)
        /\ return_mode = 2 /\ Front = next => 2 * share <= i - s /\ i - s <= 2 * share + 1
        /\ return_mode = 2 /\ Front # next => share = i - s
    <3>1. PICK j \in Int : j = k - 1 /\ j = i - s
      BY <1>1, <2>2
    <3>2. QED  BY <1>1, <3>1, ShareIs
  <2>6. new[k].time - (new[k].firing - b) = share - e + d
    <3>1. new[k].firing = next + e /\ new[k].time = share
      BY <1>3, <2>3
    <3> HIDE DEF e, share
    <3>2. QED  BY <1>1, <2>3, <2>5, <3>1
  <2>7. i \in Int /\ s <= i /\ i <= Scans - 1
    BY <1>1, <2>2
  <2> HIDE DEF i, e, d, lag, share
  <2>8. share - e + d \in (-Margin)..Margin + 1
    <3>1. CASE return_mode = 1
      BY <1>1, <1>2, <1>4, <2>3, <2>5, <2>7, <3>1 DEF Margin
    <3>2. CASE return_mode = 2
      <4>1. 1 - Block <= i - 2 * e /\ i - 2 * e <= Block /\ 0 <= e /\ e <= Cover - 1 /\ e \in Int
        BY <1>1, <1>2, <2>3, <2>7, <3>2
      <4>2. CASE s = 0
        BY <1>1, <1>2, <1>4, <2>5, <2>7, <3>2, <4>1, <4>2 DEF Margin
      <4>3. CASE s > 0
        BY <1>1, <1>2, <1>4, <2>5, <2>7, <3>2, <4>1, <4>3 DEF Margin
      <4>4. QED  BY <1>1, <4>2, <4>3
    <3>3. QED  BY <1>1, <3>1, <3>2
  <2>9. QED  BY <2>1, <2>6, <2>8
<1>6. points' = new
  BY DEF new
<1>7. QED  BY <1>3, <1>5, <1>6, NextTimesFit

\* A cloud is published: it ends with its turn, and the next begins with the next.
LEMMA PublishCloudInv ==
  ASSUME SweepInv, PublishCloud, return_mode' = return_mode, next' = next + Cover, lost' = lost
  PROVE  SweepInv'
<1> DEFINE s == new_sweep_start
<1>1. PICK b \in Nat : Boundary(b) /\ Located(b) /\ (clouds > 0 => Gathered(b))
  BY DEF SweepInv
<1> DEFINE c == b + Turn
<1>2. /\ ~is_first_sweep /\ s # Scans
      /\ is_first_sweep' = is_first_sweep /\ clouds' = clouds + 1
      /\ packet_num' = 0 /\ last_packet_time' = next + Cover - 1
      /\ last_azimuth' = AzimuthOf(Scans - 1)
      /\ published' = Extended(cloud, OldPoints(0, s))
      /\ points' = NewPoints(s) /\ cloud' = Extended(Empty, points')
      /\ sweep_end_time' = SweepEnd(s)
  BY DEF PublishCloud, current_packet_time
<1>3. Looks
  BY <1>2 DEF new_sweep_start
<1>4. /\ last_packet_time = Front - 1 /\ SweepTypes /\ TimesFit /\ Sits(b)
  BY <1>1, <1>2, <1>3, OnTheWay
<1>5. /\ Turn \in Nat \ {0} /\ Cover \in Nat \ {0} /\ Threshold \in Nat
      /\ 2 * Cover < Turn
      /\ next \in Nat /\ clouds \in Nat /\ b \in Nat
      /\ Front \in Nat /\ (Front = next \/ (Front = next - Cover /\ lost = Front))
      /\ (Front = next => lost = NotLost \/ lost + Cover <= next) /\ lost \in Int
      /\ (Front # next => lost # NotLost) /\ NotLost = -Scans /\ Cover <= Scans
      /\ return_mode \in {1, 2} /\ Scans \in Nat \ {0} /\ Scans - 1 \in 0..Scans - 1
  BY <1>4, TurnNumbers, SweepNumbers, Numbered DEF SweepTypes
<1>6. /\ b < next /\ Front <= c /\ s \in 0..Scans - 1 /\ c \in Nat
      /\ \/ s = 0 /\ c <= next
         \/ s > 0 /\ StartsAt(c)
  <2>1. c \in Nat
    BY <1>5
  <2>2. StartsAt(c) => s \in 1..Scans - 1
    BY <1>5, <2>1, StartsAtIs
  <2> HIDE DEF s, c
  <2>3. b < next /\ Front <= c /\ ((s = 0 /\ c <= next) \/ StartsAt(c))
    BY <1>2, <1>4 DEF Sits, s, c
  <2>4. QED  BY <1>5, <2>1, <2>2, <2>3
<1> DEFINE d == c - next
           lag == Lag(d)
<1>18. s > 0 =>
         /\ next < c /\ c < next + Cover /\ s = Returns(d) - lag
         /\ FiringAt(s) = c /\ FiringAt(s - 1) = c - 1
         /\ lag \in Int /\ 0 <= lag /\ lag <= d /\ lag <= Slack
  BY <1>5, <1>6, StartsAtIs
<1> HIDE DEF s, lag
<1>7. Boundary(c) /\ Turn <= c /\ c - Turn = b
  <2>1. Boundary(c)
    BY <1>1, NextBoundary
  <2>2. Turn <= c /\ c - Turn = b
    BY <1>5
  <2>3. QED  BY <2>1, <2>2
<1> HIDE DEF c
<1>8. /\ SweepTypes' /\ Front' = next + Cover /\ Front' = next'
      /\ Cover' = Cover /\ Slack' = Slack /\ NotLost' = NotLost
  <2>1. last_azimuth' \in 0..Turn - 1
    BY <1>2, <1>5, AzimuthTyped
  <2>2. packet_num' \in Nat /\ clouds' \in Nat
    BY <1>2, <1>5
  <2>3. is_first_sweep' \in BOOLEAN /\ ~is_first_sweep'
    BY <1>2, <1>4 DEF SweepTypes
  <2>4. QED  BY <1>4, <2>1, <2>2, <2>3, FrontMoves DEF NotLost
<1>9. /\ c < next + Cover /\ next + Cover - c <= 2 * Cover
      /\ (lost = NotLost => next + Cover - c <= Cover)
      /\ next + Cover <= c + Turn /\ d \in Int
      /\ FiringAt(s) \in c..c + Turn - 1
  <2>1. /\ c < next + Cover /\ next + Cover - c <= 2 * Cover
        /\ (lost = NotLost => next + Cover - c <= Cover)
        /\ next + Cover <= c + Turn /\ d \in Int
    BY <1>5, <1>6, <1>18
  <2>2. CASE s = 0
    <3>1. FiringAt(0) = next
      BY <1>5, PacketEnds
    <3>2. QED  BY <1>5, <1>6, <2>1, <2>2, <3>1
  <2>3. CASE s > 0
    BY <1>5, <1>6, <1>18, <2>1, <2>3
  <2>4. QED  BY <1>6, <2>1, <2>2, <2>3
<1>10. Located(c)'
  <2>1. packet_num' * Cover = 0
    BY <1>2, <1>5, PacketsPassed
  <2>2. /\ next' - c <= packet_num' * Cover + 2 * Cover
        /\ lost' = NotLost => next' - c <= packet_num' * Cover + Cover
        /\ Front' - c > packet_num' * Cover
    BY <1>5, <1>6, <1>7, <1>8, <1>9, <2>1
  <2>3. Unlooked(c)'
    BY <1>8, <2>2 DEF Unlooked
  <2>4. QED  BY <1>2, <1>5, <1>8, <2>3 DEF Located
<1>11. cloud'.first = FiringAt(s) /\ cloud'.last = next + Cover - 1 /\ cloud'.size = Scans - s
  <2>1. PICK times : NewPoints(s) = TimedPoints(s, Scans, times)
    BY DEF NewPoints
  <2>2. s \in 0..Scans /\ Scans \in s..Scans /\ s < Scans
    BY <1>5, <1>6
  <2>3. cloud' = Extended(Empty, TimedPoints(s, Scans, times))
    BY <1>2, <2>1
  <2>4. /\ cloud'.first = IF Empty.size = 0 THEN FiringAt(s) ELSE Empty.first
        /\ cloud'.last = FiringAt(Scans - 1)
        /\ cloud'.size = Empty.size + (Scans - s)
    BY <2>2, <2>3, ExtendedBy
  <2>5. FiringAt(Scans - 1) = next + Cover - 1
    BY <1>5, PacketEnds
  <2>6. QED  BY <1>5, <1>6, <2>4, <2>5 DEF Empty
<1>12. TimesFit'
  <2>1. /\ s > 0 => next < c /\ s = Returns(c - next) - Lag(c - next) /\ Lag(c - next) <= c - next
        /\ s = 0 => c <= next
    BY <1>5, <1>6, <1>18 DEF lag
  <2>2. cloud'.first \in c..c + Turn - 1
    BY <1>9, <1>11
  <2>3. QED  BY <1>2, <1>4, <1>5, <1>6, <1>7, <1>9, <2>1, <2>2, NewTimesFit
<1>13. /\ return_mode = 1 => Cover = Scans /\ Slack = 0
       /\ return_mode = 2 => 2 * Cover = Scans
       /\ Slack \in Nat
  BY <1>5, CoverIs, LagIs DEF Slack
<1>14. /\ sweep_end_time' \in Int /\ c - Cover - 1 <= sweep_end_time' /\ sweep_end_time' <= c - 1
       /\ lost = NotLost => 2 * (c - 1 - sweep_end_time') \in 0..Slack
  <2> DEFINE share == Share(Scans - s)
  <2>1. Scans - s \in Int
    BY <1>5, <1>6
  <2>2. sweep_end_time' = (next + Cover - 1) - share
    <3>1. last_packet_time # -1 /\ (Elapsed * (Scans - s)) \div Scans = share
      BY <1>4, <2>1, SharesWhole
    <3> HIDE DEF share
    <3>2. QED  BY <1>2, <3>1 DEF SweepEnd, current_packet_time
  <2>3. /\ share \in Int
        /\ return_mode = 1 /\ Front = next => share = Scans - s
        /\ return_mode = 1 /\ Front # next => share = 2 * (Scans - s)
        /\ return_mode = 2 /\ Front = next => 2 * share <= Scans - s /\ Scans - s <= 2 * share + 1
        /\ return_mode = 2 /\ Front # next => share = Scans - s
    BY <1>5, <2>1, ShareIs
  <2>4. s > 0 => d \in Int /\ 0 < d /\ d < Cover /\ lag \in Int /\ 0 <= lag /\ lag <= d /\ lag <= Slack
                 /\ c = next + d
    BY <1>5, <1>6, <1>9, <1>18
  <2>5. /\ s > 0 /\ return_mode = 1 => s = d - lag
        /\ s > 0 /\ return_mode = 2 => s = 2 * d - lag
    BY <1>18 DEF Returns
  <2> HIDE DEF share, d
  <2>6. CASE s = 0
    BY <1>5, <1>6, <1>13, <2>2, <2>3, <2>6
  <2>7. CASE s > 0
    <3>1. CASE return_mode = 1
      <4>1. s = d /\ Scans = Cover /\ d \in Int /\ 0 < d /\ d < Cover /\ c = next + d
        BY <1>13, <2>4, <2>5, <2>7, <3>1
      <4>2. CASE Front = next
        BY <1>5, <1>13, <2>2, <2>3, <3>1, <4>1, <4>2
      <4>3. CASE Front # next
        BY <1>5, <1>13, <2>2, <2>3, <3>1, <4>1, <4>3
      <4>4. QED  BY <4>2, <4>3
    <3>2. CASE return_mode = 2
      BY <1>5, <1>6, <1>13, <2>2, <2>3, <2>4, <2>5, <2>7, <3>2
    <3>3. QED  BY <1>5, <3>1, <3>2
  <2>8. QED  BY <1>6, <2>6, <2>7
<1>15. Overhang(c) = (IF s = 0 THEN 0 ELSE lag) /\ Overhang(c) \in Int /\ Overhang(b) \in Int
  <2>1. b \in Int /\ c \in Int /\ Lag(0) = 0
    BY <1>5, <1>6, LagIs
  <2>2. /\ Overhang(c) = IF c \in lost..lost + Cover - 1 THEN 0 ELSE lag
        /\ Overhang(c) \in Int /\ Overhang(b) \in Int
    BY <1>5, <2>1, OverhangIs DEF lag
  <2>3. CASE s = 0
    <3>1. c \in lost..lost + Cover - 1 \/ c - next = 0
      BY <1>5, <1>6, <2>3
    <3>2. QED  BY <2>1, <2>2, <2>3, <3>1 DEF lag
  <2>4. CASE s > 0
    <3>1. c \notin lost..lost + Cover - 1
      BY <1>5, <1>6, <1>18, <2>4
    <3>2. QED  BY <2>2, <2>4, <3>1
  <2>5. QED  BY <1>6, <2>3, <2>4
<1>16. Scans - s = Returns(Came(lost, Cover, c, next + Cover)) + Overhang(c)
  <2> DEFINE came == Came(lost, Cover, c, next + Cover)
  <2>1. CASE s = 0
    <3>1. came = Cover
      BY <1>5, <1>6, <2>1 DEF Came, Gone
    <3> HIDE DEF came
    <3>2. Returns(came) = Scans
      BY <1>5, <1>13, <3>1 DEF Returns
    <3>3. QED  BY <1>5, <1>15, <2>1, <3>2 DEF came
  <2>2. CASE s > 0
    <3>1. came = Cover - d
      BY <1>5, <1>6, <1>18, <2>2 DEF Came, Gone
    <3> HIDE DEF came, d
    <3>2. Returns(came) = Scans - Returns(d) /\ Returns(d) \in Int
      BY <1>5, <1>9, <1>13, <3>1 DEF Returns
    <3>3. s = Returns(d) - lag /\ lag \in Int
      BY <1>18, <2>2
    <3>4. Scans - s = Returns(came) + lag
      BY <1>5, <3>2, <3>3
    <3>5. QED  BY <1>15, <2>2, <3>4 DEF came
  <2>3. QED  BY <1>6, <2>1, <2>2
<1>17. ASSUME clouds' > 1
       PROVE  /\ published'.first \in b..c - 1 /\ published'.last \in b..c - 1
              /\ published'.size = Returns(Came(lost, Cover, b, c)) + Overhang(b) - Overhang(c)
  <2>1. /\ Gathered(b) /\ b < Front
    BY <1>1, <1>2, <1>5, <1>17 DEF Gathered
  <2>2. /\ cloud.first \in b..c - 1 /\ cloud.last = Front - 1
        /\ cloud.size \in Nat \ {0}
        /\ cloud.size = Returns(Came(lost, Cover, b, Front)) + Overhang(b)
    BY <1>5, <2>1 DEF Gathered, c
  <2>3. PICK times : OldPoints(0, s) = TimedPoints(0, s, times)
    BY DEF OldPoints
  <2>4. 0 \in 0..Scans /\ s \in 0..Scans /\ s - 0 = s
    BY <1>5, <1>6
  <2>5. published' = Extended(cloud, TimedPoints(0, s, times))
    BY <1>2, <2>3
  <2>6. CASE s = 0
    <3>1. published' = cloud
      BY <2>4, <2>5, <2>6, ExtendedBy
    <3>2. Came(lost, Cover, b, c) = Came(lost, Cover, b, Front)
      BY <1>5, <1>6, <2>1, <2>6 DEF Came, Gone
    <3>3. Front - 1 \in b..c - 1
      BY <1>5, <1>6, <2>1
    <3>4. published'.size = Returns(Came(lost, Cover, b, c)) + Overhang(b) - Overhang(c)
      BY <1>15, <2>2, <2>6, <3>1, <3>2
    <3>5. QED  BY <2>2, <3>1, <3>3, <3>4
  <2>7. CASE s > 0
    <3>1. 0 < s /\ s \in 0..Scans
      BY <2>4, <2>7
    <3>2. /\ published'.first = IF cloud.size = 0 THEN FiringAt(0) ELSE cloud.first
          /\ published'.last = FiringAt(s - 1)
          /\ published'.size = cloud.size + (s - 0)
      BY <2>4, <2>5, <3>1, ExtendedBy
    <3> DEFINE came == Came(lost, Cover, b, Front)
    <3>3. Came(lost, Cover, b, c) = came + d /\ came \in Int
      BY <1>5, <1>6, <1>18, <2>1, <2>7 DEF Came, Gone
    <3> HIDE DEF came, d
    <3>4. Returns(came + d) = Returns(came) + Returns(d) /\ Returns(came) \in Int /\ Returns(d) \in Int
      BY <1>5, <1>9, <3>3 DEF Returns
    <3>5. published'.size = Returns(Came(lost, Cover, b, c)) + Overhang(b) - Overhang(c)
      <4>1. cloud.size = Returns(came) + Overhang(b)
        BY <2>2 DEF came
      <4>2. published'.size = cloud.size + s /\ s = Returns(d) - lag /\ lag \in Int
        BY <1>18, <2>4, <2>7, <3>2
      <4>3. Overhang(c) = lag /\ Overhang(b) \in Int
        BY <1>15, <2>7
      <4>4. published'.size = Returns(came) + Returns(d) + Overhang(b) - Overhang(c)
        BY <3>4, <4>1, <4>2, <4>3
      <4>5. QED  BY <3>3, <3>4, <4>4
    <3>6. published'.last = c - 1 /\ published'.first = cloud.first /\ c - 1 \in b..c - 1
      BY <1>5, <1>6, <1>18, <2>1, <2>2, <2>7, <3>2
    <3>7. QED  BY <2>2, <3>5, <3>6
  <2>8. QED  BY <1>6, <2>6, <2>7
<1>19. Gathered(c)'
  <2>1. \A n \in Int : Overhang(n)' = Overhang(n)
    BY <1>5, <1>8, OverhangStays
  <2>2. Overhang(c)' = Overhang(c) /\ Overhang(b)' = Overhang(b)
    <3>1. b \in Int /\ c \in Int
      BY <1>5, <1>6
    <3>2. Overhang(b)' = Overhang(b)
      BY <2>1, <3>1
    <3>3. Overhang(c)' = Overhang(c)
      BY <2>1, <3>1 DEF c
    <3>4. QED  BY <3>2, <3>3
  <2>3. /\ Returns(Came(lost, Cover, c, Front))' = Returns(Came(lost, Cover, c, next + Cover))
        /\ Returns(Came(lost, Cover, b, c))' = Returns(Came(lost, Cover, b, c))
    BY <1>8 DEF Returns, c
  <2>4. /\ cloud'.first \in c..c + Turn - 1 /\ cloud'.last = Front' - 1 /\ c < Front'
        /\ cloud'.size \in Nat \ {0}
        /\ cloud'.size = Returns(Came(lost, Cover, c, Front))' + Overhang(c)'
    <3>1. Scans - s \in Nat \ {0}
      BY <1>5, <1>6
    <3>2. cloud'.first \in c..c + Turn - 1
      BY <1>9, <1>11
    <3>3. cloud'.last = Front' - 1 /\ c < Front'
      BY <1>5, <1>8, <1>9, <1>11
    <3>4. cloud'.size = Returns(Came(lost, Cover, c, Front))' + Overhang(c)'
      BY <1>11, <1>16, <2>2, <2>3
    <3>5. QED  BY <1>11, <3>1, <3>2, <3>3, <3>4
  <2>5. lost' = NotLost' \/ Front' # next' => 2 * (c - 1 - sweep_end_time') \in 0..Slack'
    BY <1>8, <1>14
  <2>6. clouds' > 1 =>
          /\ published'.first \in c - Turn..c - 1 /\ published'.last \in c - Turn..c - 1
          /\ published'.size =
               Returns(Came(lost, Cover, c - Turn, c))' + Overhang(c - Turn)' - Overhang(c)'
    BY <1>7, <1>17, <2>2, <2>3
  <2>7. ~is_first_sweep' /\ c - Cover' - 1 <= sweep_end_time'
    BY <1>2, <1>8, <1>14
  <2>8. QED  BY <1>7, <1>14, <2>4, <2>5, <2>6, <2>7 DEF Gathered
<1>20. QED  BY <1>6, <1>7, <1>8, <1>10, <1>12, <1>19 DEF SweepInv

LEMMA SweepNextInv == SweepInv /\ [SweepNext]_sweepVars => SweepInv'
<1>1. SUFFICES ASSUME SweepInv, [SweepNext]_sweepVars  PROVE SweepInv'
  OBVIOUS
<1>2. ASSUME poll  PROVE SweepInv'
  <2>1. return_mode' = return_mode /\ next' = next + Cover /\ lost' = lost
    BY <1>2 DEF poll
  <2>2. CASE Discard
    BY <1>1, <2>1, <2>2, DiscardInv
  <2>3. CASE Begin
    BY <1>1, <2>1, <2>3, BeginInv
  <2>4. CASE Continue
    BY <1>1, <2>1, <2>4, ContinueInv
  <2>5. CASE PublishCloud
    BY <1>1, <2>1, <2>5, PublishCloudInv
  <2>6. QED  BY <1>2, <2>2, <2>3, <2>4, <2>5 DEF poll
<1>3. CASE LosePacket
  BY <1>1, <1>3, LosePacketInv
<1>4. CASE UNCHANGED sweepVars
  <2>1. Cover' = Cover /\ Slack' = Slack /\ NotLost' = NotLost
    BY <1>4 DEF sweepVars, Cover, Slack, NotLost
  <2>2. Front' = Front
    BY <1>4, <2>1 DEF sweepVars, Front
  <2>3. SweepTypes' /\ TimesFit'
    BY <1>1, <1>4, <2>1 DEF sweepVars, SweepInv, SweepTypes, TimesFit
  <2>4. PICK b \in Nat : Boundary(b) /\ Located(b) /\ (clouds > 0 => Gathered(b))
    BY <1>1 DEF SweepInv
  <2>5. Located(b)'
    BY <1>4, <2>1, <2>2, <2>4 DEF sweepVars, Located, Followed, Unlooked
  <2>6. /\ Returns(Came(lost, Cover, b, Front))' = Returns(Came(lost, Cover, b, Front))
        /\ Returns(Came(lost, Cover, b - Turn, b))' = Returns(Came(lost, Cover, b - Turn, b))
        /\ Overhang(b)' = Overhang(b) /\ Overhang(b - Turn)' = Overhang(b - Turn)
    BY <1>4, <2>1, <2>2 DEF sweepVars, Returns, Overhang
  <2>7. clouds > 0 => Gathered(b)'
    BY <1>4, <2>1, <2>2, <2>4, <2>6 DEF sweepVars, Gathered
  <2>8. clouds' = clouds
    BY <1>4 DEF sweepVars
  <2>9. QED  BY <2>3, <2>4, <2>5, <2>7, <2>8 DEF SweepInv
<1>5. QED  BY <1>1, <1>2, <1>3, <1>4 DEF SweepNext

\* In single and in dual return, however the packets cut the turns, and wherever one is
\* lost, each cloud published after the first is one turn with all the returns that came
\* for its firings, but for those that come when the next has begun; and the points bear
\* the times since their sweep began (LslidarDriver::poll).
THEOREM SweepsAreRight == SweepSpec => []SweepsRight
<1>1. SweepInit => SweepInv
  BY SweepInitInv
<1>2. SweepInv /\ [SweepNext]_sweepVars => SweepInv'
  BY SweepNextInv
<1>3. SweepInv => SweepsRight
  BY InvIsRight
<1>4. QED  BY <1>1, <1>2, <1>3, PTL DEF SweepSpec

-----------------------------------------------------------------------------
\* The cut-out angles.

\* A range that is not empty, and an angle in one of the first n ranges.
Ranges == [start : Nat, end : Nat]
Proper(r) == r \in Ranges /\ r.start < r.end
InRange(azimuth, r) == r.start <= azimuth /\ azimuth < r.end
Covered(azimuth, ranges, n) == \E i \in 1..n : InRange(azimuth, ranges[i])
ProperList(ranges) ==
  /\ ranges \in Seq(Ranges) /\ ranges # <<>>
  /\ \A i \in 1..Len(ranges) : Proper(ranges[i])

\* The distance from one remainder up to another.
Upwards(M, p, q) == IF p <= q THEN q - p ELSE q - p + M
LEMMA DifferenceModulo ==
  ASSUME NEW M \in Nat \ {0}, NEW b \in Int, NEW m \in Int
  PROVE  (b - m) % M = Upwards(M, m % M, b % M)
<1> DEFINE j == b \div M  q == b % M  k == m \div M  p == m % M
           d == Upwards(M, p, q)
<1>1. /\ j \in Int /\ q \in 0..M - 1 /\ j * M + q = b
      /\ k \in Int /\ p \in 0..M - 1 /\ k * M + p = m
  BY DivMod
<1> HIDE DEF j, q, k, p
<1>2. d \in 0..M - 1
  BY <1>1 DEF Upwards
<1>3. CASE p <= q
  <2>1. (j - k) * M + d = b - m /\ j - k \in Int
    <3>1. (j - k) * M = j * M - k * M /\ j * M \in Int /\ k * M \in Int
      BY <1>1
    <3>2. d = q - p
      BY <1>3 DEF Upwards
    <3> HIDE DEF d
    <3>3. QED  BY <1>1, <3>1, <3>2
  <2> HIDE DEF d
  <2>2. b - m \in Int
    OBVIOUS
  <2> DEFINE n == b - m  i == j - k
  <2>3. n \in Int /\ i \in Int /\ i * M + d = n
    BY <2>1, <2>2
  <2> HIDE DEF n, i
  <2>4. n % M = d
    BY <1>2, <2>3, DivModIs
  <2>5. QED  BY <2>4 DEF n, d, p, q
<1>4. CASE ~(p <= q)
  <2>1. (j - k - 1) * M + d = b - m /\ j - k - 1 \in Int
    <3>1. (j - k - 1) * M = j * M - k * M - M /\ j * M \in Int /\ k * M \in Int
      BY <1>1
    <3>2. d = q - p + M
      BY <1>4 DEF Upwards
    <3> HIDE DEF d
    <3>3. QED  BY <1>1, <3>1, <3>2
  <2> HIDE DEF d
  <2>2. b - m \in Int
    OBVIOUS
  <2> DEFINE n == b - m  i == j - k - 1
  <2>3. n \in Int /\ i \in Int /\ i * M + d = n
    BY <2>1, <2>2
  <2> HIDE DEF n, i
  <2>4. n % M = d
    BY <1>2, <2>3, DivModIs
  <2>5. QED  BY <2>4 DEF n, d, p, q
<1>5. QED  BY <1>3, <1>4

\* An angle is in the range from min up to max.
Between(azimuth, min, max) ==
  (azimuth - min) % FullAngle < (max - min) % FullAngle
LEMMA BetweenIs ==
  ASSUME NEW azimuth \in 0..FullAngle - 1, NEW min \in Int, NEW max \in Int,
         NEW p, NEW q, p = min % FullAngle, q = max % FullAngle
  PROVE  /\ p \in 0..FullAngle - 1 /\ q \in 0..FullAngle - 1
         /\ p < q => (Between(azimuth, min, max) <=> p <= azimuth /\ azimuth < q)
         /\ q < p => (Between(azimuth, min, max) <=> p <= azimuth \/ azimuth < q)
         /\ p = q => ~Between(azimuth, min, max)
<1>1. FullAngle \in Nat \ {0} /\ azimuth \in Int
  BY PointsAssumption
<1>2. p \in 0..FullAngle - 1 /\ q \in 0..FullAngle - 1
  BY <1>1, DivMod
<1>3. azimuth % FullAngle = azimuth
  BY <1>1, SmallModulus
<1>4. (azimuth - min) % FullAngle = Upwards(FullAngle, p, azimuth)
  BY <1>1, <1>3, DifferenceModulo
<1>5. (max - min) % FullAngle = Upwards(FullAngle, p, q)
  BY <1>1, DifferenceModulo
<1>6. Between(azimuth, min, max) <=> Upwards(FullAngle, p, azimuth) < Upwards(FullAngle, p, q)
  BY <1>4, <1>5 DEF Between
<1>7. p < q => (Between(azimuth, min, max) <=> p <= azimuth /\ azimuth < q)
  BY <1>1, <1>2, <1>6 DEF Upwards
<1>8. q < p => (Between(azimuth, min, max) <=> p <= azimuth \/ azimuth < q)
  BY <1>1, <1>2, <1>6 DEF Upwards
<1>9. p = q => ~Between(azimuth, min, max)
  BY <1>1, <1>2, <1>6 DEF Upwards
<1>10. QED  BY <1>2, <1>7, <1>8, <1>9

\* One pair of parameters gives the ranges of its angles.
LEMMA RangesOfRight ==
  ASSUME NEW min \in Int, NEW max \in Int,
         min % FullAngle # max % FullAngle, max % FullAngle # 0
  PROVE  /\ ProperList(RangesOf(min, max))
         /\ \A azimuth \in 0..FullAngle - 1 :
              Covered(azimuth, RangesOf(min, max), Len(RangesOf(min, max)))
                <=> Between(azimuth, min, max)
<1> DEFINE p == min % FullAngle  q == max % FullAngle
<1>1. FullAngle \in Nat \ {0} /\ p \in 0..FullAngle - 1 /\ q \in 0..FullAngle - 1
  BY PointsAssumption, DivMod
<1>2. \A azimuth \in 0..FullAngle - 1 :
        /\ p < q => (Between(azimuth, min, max) <=> p <= azimuth /\ azimuth < q)
        /\ q < p => (Between(azimuth, min, max) <=> p <= azimuth \/ azimuth < q)
  BY BetweenIs
<1>3. p # q /\ q # 0
  OBVIOUS
<1>4. RangesOf(min, max) = IF q < p THEN <<Cut(p, FullAngle), Cut(0, q)>> ELSE <<Cut(p, q)>>
  BY DEF RangesOf
<1> HIDE DEF p, q
<1>5. CASE q < p
  <2> DEFINE R == <<Cut(p, FullAngle), Cut(0, q)>>
  <2>1. /\ Cut(p, FullAngle) \in Ranges /\ Cut(0, q) \in Ranges
        /\ Proper(Cut(p, FullAngle)) /\ Proper(Cut(0, q))
    BY <1>1, <1>3 DEF Ranges, Proper, Cut
  <2>2. R \in Seq(Ranges) /\ Len(R) = 2 /\ R[1] = Cut(p, FullAngle) /\ R[2] = Cut(0, q)
    BY <2>1
  <2> HIDE DEF R
  <2>3. \A i \in 1..2 : i = 1 \/ i = 2
    OBVIOUS
  <2>4. ProperList(R)
    BY <2>1, <2>2, <2>3, EmptySeq DEF ProperList
  <2>5. ASSUME NEW azimuth \in 0..FullAngle - 1
        PROVE  Covered(azimuth, R, 2) <=> Between(azimuth, min, max)
    <3>1. InRange(azimuth, R[1]) <=> p <= azimuth
      BY <1>1, <2>2 DEF InRange, Cut
    <3>2. InRange(azimuth, R[2]) <=> azimuth < q
      BY <1>1, <2>2 DEF InRange, Cut
    <3>3. Covered(azimuth, R, 2) <=> InRange(azimuth, R[1]) \/ InRange(azimuth, R[2])
      BY <2>3, 1 \in 1..2, 2 \in 1..2 DEF Covered
    <3>4. QED  BY <1>2, <1>5, <3>1, <3>2, <3>3
  <2>6. RangesOf(min, max) = R
    BY <1>4, <1>5 DEF R
  <2>7. QED  BY <2>2, <2>4, <2>5, <2>6
<1>6. CASE ~(q < p)
  <2> DEFINE R == <<Cut(p, q)>>
  <2>1. p < q
    BY <1>1, <1>3, <1>6
  <2>2. Cut(p, q) \in Ranges /\ Proper(Cut(p, q))
    BY <1>1, <2>1 DEF Ranges, Proper, Cut
  <2>3. R \in Seq(Ranges) /\ Len(R) = 1 /\ R[1] = Cut(p, q)
    BY <2>2
  <2> HIDE DEF R
  <2>4. \A i \in 1..1 : i = 1
    OBVIOUS
  <2>5. ProperList(R)
    BY <2>2, <2>3, <2>4, EmptySeq DEF ProperList
  <2>6. ASSUME NEW azimuth \in 0..FullAngle - 1
        PROVE  Covered(azimuth, R, 1) <=> Between(azimuth, min, max)
    <3>1. InRange(azimuth, R[1]) <=> p <= azimuth /\ azimuth < q
      BY <2>3 DEF InRange, Cut
    <3>2. Covered(azimuth, R, 1) <=> InRange(azimuth, R[1])
      BY <2>4, 1 \in 1..1 DEF Covered
    <3>3. QED  BY <1>2, <2>1, <3>1, <3>2
  <2>7. RangesOf(min, max) = R
    BY <1>4, <1>6 DEF R
  <2>8. QED  BY <2>3, <2>5, <2>6, <2>7
<1>7. QED  BY <1>5, <1>6

\* Two lists one after the other cover what either does.
LEMMA BothCover ==
  ASSUME NEW A, NEW B, ProperList(A), ProperList(B)
  PROVE  /\ ProperList(A \o B)
         /\ \A azimuth : Covered(azimuth, A \o B, Len(A \o B))
              <=> Covered(azimuth, A, Len(A)) \/ Covered(azimuth, B, Len(B))
<1> DEFINE C == A \o B
<1>1. /\ A \in Seq(Ranges) /\ B \in Seq(Ranges) /\ A # <<>>
      /\ Len(A) \in Nat /\ Len(B) \in Nat
      /\ \A i \in 1..Len(A) : Proper(A[i])
      /\ \A i \in 1..Len(B) : Proper(B[i])
  BY LenProperties DEF ProperList
<1>2. /\ C \in Seq(Ranges) /\ Len(C) = Len(A) + Len(B)
      /\ \A i \in 1..Len(A) + Len(B) : C[i] = IF i <= Len(A) THEN A[i] ELSE B[i - Len(A)]
  BY <1>1, ConcatProperties
<1> HIDE DEF C
<1>3. \A i \in 1..Len(A) : i \in 1..Len(A) + Len(B) /\ C[i] = A[i]
  BY <1>1, <1>2
<1>4. \A i \in 1..Len(B) : Len(A) + i \in 1..Len(A) + Len(B) /\ C[Len(A) + i] = B[i]
  <2>1. ASSUME NEW i \in 1..Len(B)
        PROVE  Len(A) + i \in 1..Len(A) + Len(B) /\ ~(Len(A) + i <= Len(A)) /\ (Len(A) + i) - Len(A) = i
    BY <1>1
  <2>2. QED  BY <1>2, <2>1
<1>5. \A i \in 1..Len(A) + Len(B) :
        \/ i \in 1..Len(A) /\ C[i] = A[i]
        \/ i - Len(A) \in 1..Len(B) /\ C[i] = B[i - Len(A)]
  BY <1>1, <1>2
<1>6. ProperList(C)
  <2>1. C # <<>>
    <3>1. Len(A) # 0
      BY <1>1, EmptySeq
    <3>2. Len(C) # 0
      BY <1>1, <1>2, <3>1
    <3>3. QED  BY <3>2, EmptySeq
  <2>2. QED  BY <1>1, <1>2, <1>5, <2>1 DEF ProperList
<1>7. ASSUME NEW azimuth
      PROVE  Covered(azimuth, C, Len(C)) <=> Covered(azimuth, A, Len(A)) \/ Covered(azimuth, B, Len(B))
  <2>1. Covered(azimuth, C, Len(C)) => Covered(azimuth, A, Len(A)) \/ Covered(azimuth, B, Len(B))
    BY <1>2, <1>5 DEF Covered
  <2>2. Covered(azimuth, A, Len(A)) => Covered(azimuth, C, Len(C))
    BY <1>2, <1>3 DEF Covered
  <2>3. Covered(azimuth, B, Len(B)) => Covered(azimuth, C, Len(C))
    BY <1>2, <1>4 DEF Covered
  <2>4. QED  BY <2>1, <2>2, <2>3
<1>8. QED  BY <1>6, <1>7 DEF C

\* Sorting keeps what a list covers.
LEMMA SortsCover ==
  ASSUME NEW R, ProperList(R), NEW s \in Sorts(R)
  PROVE  /\ ProperList(s)
         /\ \A i, j \in 1..Len(s) : i < j => s[i].start <= s[j].start
         /\ \A azimuth : Covered(azimuth, s, Len(s)) <=> Covered(azimuth, R, Len(R))
<1> DEFINE n == Len(R)
<1>1. R \in Seq(Ranges) /\ R # <<>> /\ n \in Nat /\ DOMAIN R = 1..n /\ \A i \in 1..n : Proper(R[i])
  BY LenProperties DEF ProperList
<1>2. PICK o \in Bijection(1..n, 1..n) :
        /\ s = [i \in 1..n |-> R[o[i]]]
        /\ \A i, j \in 1..n : i < j => R[o[i]].start <= R[o[j]].start
  BY <1>1 DEF Sorts
<1>3. o \in [1..n -> 1..n] /\ \A j \in 1..n : \E i \in 1..n : o[i] = j
  BY DEF Bijection, Injection, Surjection
<1>4. \A i \in 1..n : o[i] \in 1..n /\ s[i] = R[o[i]]
  BY <1>2, <1>3
<1>5. s \in Seq(Ranges) /\ Len(s) = n
  <2>1. \A i \in 1..n : R[i] \in Ranges
    BY <1>1 DEF Proper
  <2>2. s \in [1..n -> Ranges]
    BY <1>2, <1>3, <2>1
  <2>3. s \in Seq(Ranges)
    BY <1>1, <2>2, SeqDef
  <2>4. Len(s) \in Nat /\ DOMAIN s = 1..Len(s) /\ DOMAIN s = 1..n
    BY <1>2, <2>3, LenProperties
  <2>5. n \in Nat
    BY <1>1
  <2> DEFINE l == Len(s)
  <2>6. l \in Nat /\ 1..l = 1..n
    BY <2>4
  <2> HIDE DEF n, l
  <2>7. l = n
    BY <2>5, <2>6
  <2>8. QED  BY <2>3, <2>7 DEF l
<1>6. ProperList(s)
  <2>1. s # <<>>
    BY <1>1, <1>5, EmptySeq
  <2>2. QED  BY <1>1, <1>4, <1>5, <2>1 DEF ProperList
<1>7. \A i, j \in 1..n : i < j => s[i].start <= s[j].start
  BY <1>2, <1>4
<1>8. ASSUME NEW azimuth
      PROVE  Covered(azimuth, s, n) <=> Covered(azimuth, R, n)
  <2> HIDE DEF n
  <2>1. Covered(azimuth, s, n) => Covered(azimuth, R, n)
    BY <1>4 DEF Covered
  <2>2. Covered(azimuth, R, n) => Covered(azimuth, s, n)
    <3>1. SUFFICES ASSUME NEW j \in 1..n, InRange(azimuth, R[j])
                   PROVE  \E i \in 1..n : InRange(azimuth, s[i])
      BY DEF Covered
    <3>2. PICK i \in 1..n : o[i] = j
      BY <1>3
    <3>3. QED  BY <1>4, <3>1, <3>2
  <2>3. QED  BY <2>1, <2>2
<1>9. QED  BY <1>5, <1>6, <1>7, <1>8

\* What the loop has made of the first n ranges.
MergedSoFar(m, s, n) ==
  /\ ProperList(m)
  /\ m[Len(m)].start <= s[n].start
  /\ \A azimuth \in 0..FullAngle - 1 : Covered(azimuth, m, Len(m)) <=> Covered(azimuth, s, n)

LEMMA CoveredMore ==
  ASSUME NEW s, NEW n \in Nat, NEW azimuth
  PROVE  Covered(azimuth, s, n + 1) <=> Covered(azimuth, s, n) \/ InRange(azimuth, s[n + 1])
<1>1. \A i : i \in 1..n + 1 <=> i \in 1..n \/ i = n + 1
  OBVIOUS
<1>2. QED  BY <1>1 DEF Covered

LEMMA MergeKeeps ==
  ASSUME NEW m, NEW s, NEW n \in Nat \ {0}, MergedSoFar(m, s, n),
         Proper(s[n]), Proper(s[n + 1]), s[n].start <= s[n + 1].start
  PROVE  MergedSoFar(WithRange(m, s[n + 1]), s, n + 1)
<1> DEFINE r == s[n + 1]
           k == Len(m)
           l == m[k]
<1>1. /\ m \in Seq(Ranges) /\ m # <<>> /\ k \in Nat /\ k # 0 /\ k \in 1..k
      /\ \A i \in 1..k : Proper(m[i])
      /\ Proper(l) /\ l \in Ranges /\ r \in Ranges
      /\ \A azimuth \in 0..FullAngle - 1 : Covered(azimuth, m, k) <=> Covered(azimuth, s, n)
  <2>1. /\ m \in Seq(Ranges) /\ m # <<>> /\ k \in Nat /\ k # 0
        /\ \A i \in 1..k : Proper(m[i])
        /\ \A azimuth \in 0..FullAngle - 1 : Covered(azimuth, m, k) <=> Covered(azimuth, s, n)
    BY LenProperties, EmptySeq DEF MergedSoFar, ProperList
  <2> HIDE DEF k
  <2>2. k \in 1..k
    BY <2>1
  <2>3. QED  BY <2>1, <2>2 DEF Proper
<1>2. /\ l.start \in Nat /\ l.end \in Nat /\ l.start < l.end
      /\ r.start \in Nat /\ r.end \in Nat /\ r.start < r.end
      /\ l.start <= r.start
  <2>1. l.start <= s[n].start
    BY DEF MergedSoFar
  <2>2. s[n].start \in Nat
    BY DEF Proper, Ranges
  <2>3. Proper(r)
    OBVIOUS
  <2> HIDE DEF l, r
  <2>4. /\ l.start \in Nat /\ l.end \in Nat /\ l.start < l.end
        /\ r.start \in Nat /\ r.end \in Nat /\ r.start < r.end
    BY <1>1, <2>3 DEF Proper, Ranges
  <2>5. s[n].start <= r.start
    BY DEF r
  <2>6. QED  BY <2>1, <2>2, <2>4, <2>5
<1>3. Proper(r) /\ n \in Nat
  OBVIOUS
<1>4. \A azimuth : Covered(azimuth, s, n + 1) <=> Covered(azimuth, s, n) \/ InRange(azimuth, r)
  BY CoveredMore
<1>5. WithRange(m, r) = IF r.start >= l.end THEN Append(m, r)
                        ELSE [m EXCEPT ![k] = Cut(l.start, MergedEnd(l, r))]
  BY <1>1 DEF WithRange
<1> HIDE DEF r, k, l
<1>6. CASE r.start >= l.end
  <2> DEFINE M == Append(m, r)
  <2>1. /\ M \in Seq(Ranges) /\ Len(M) = k + 1 /\ M[k + 1] = r
        /\ \A i \in 1..k : M[i] = m[i]
    BY <1>1, AppendProperties DEF k
  <2> HIDE DEF M
  <2>2. \A i \in 1..k + 1 : i \in 1..k \/ i = k + 1
    BY <1>1
  <2>3. ProperList(M)
    <3>1. M # <<>>
      BY <1>1, <2>1, EmptySeq
    <3>2. QED  BY <1>1, <1>3, <2>1, <2>2, <3>1 DEF ProperList
  <2>4. ASSUME NEW azimuth \in 0..FullAngle - 1
        PROVE  Covered(azimuth, M, k + 1) <=> Covered(azimuth, s, n + 1)
    <3>1. Covered(azimuth, M, k + 1) <=> Covered(azimuth, M, k) \/ InRange(azimuth, r)
      BY <1>1, <2>1, CoveredMore
    <3>2. Covered(azimuth, M, k) <=> Covered(azimuth, m, k)
      BY <2>1 DEF Covered
    <3>3. QED  BY <1>1, <1>4, <3>1, <3>2
  <2>5. MergedSoFar(M, s, n + 1)
    <3>1. M[Len(M)].start <= s[n + 1].start
      BY <1>2, <2>1 DEF r
    <3>2. QED  BY <2>1, <2>3, <2>4, <3>1 DEF MergedSoFar
  <2>6. WithRange(m, r) = M
    BY <1>5, <1>6 DEF M
  <2>7. QED  BY <2>5, <2>6 DEF r
<1>7. CASE ~(r.start >= l.end)
  <2> DEFINE c == Cut(l.start, MergedEnd(l, r))
             M == [m EXCEPT ![k] = c]
  <2>1. c \in Ranges /\ Proper(c) /\ c.start = l.start
    BY <1>2 DEF Cut, MergedEnd, Ranges, Proper
  <2>2. \A azimuth \in 0..FullAngle - 1 :
          InRange(azimuth, c) <=> InRange(azimuth, l) \/ InRange(azimuth, r)
    <3>1. c.end = IF l.end < r.end THEN r.end ELSE l.end
      BY DEF Cut, MergedEnd
    <3>2. FullAngle \in Nat
      BY PointsAssumption
    <3> HIDE DEF c
    <3>3. QED  BY <1>2, <1>7, <2>1, <3>1, <3>2 DEF InRange
  <2> HIDE DEF c
  <2>3. /\ M \in Seq(Ranges) /\ Len(M) = k /\ M[k] = c
        /\ \A i \in 1..k : i # k => M[i] = m[i]
    <3>1. M \in Seq(Ranges) /\ Len(M) = k /\ M[k] = c
      BY <1>1, <2>1, ExceptSeq DEF k
    <3>2. \A i \in 1..k : i # k => M[i] = m[i]
      BY <1>1, ExceptSeq DEF k
    <3>3. QED  BY <3>1, <3>2
  <2> HIDE DEF M
  <2>4. ProperList(M)
    <3>1. M # <<>>
      BY <1>1, <2>3, EmptySeq
    <3>2. \A i \in 1..k : Proper(M[i])
      BY <1>1, <2>1, <2>3
    <3>3. QED  BY <2>3, <3>1, <3>2 DEF ProperList
  <2>5. ASSUME NEW azimuth \in 0..FullAngle - 1
        PROVE  Covered(azimuth, M, k) <=> Covered(azimuth, s, n + 1)
    <3>1. Covered(azimuth, M, k) <=> Covered(azimuth, m, k) \/ InRange(azimuth, r)
      <4>1. \A i \in 1..k : i # k => (InRange(azimuth, M[i]) <=> InRange(azimuth, m[i]))
        BY <2>3
      <4>2. InRange(azimuth, M[k]) <=> InRange(azimuth, m[k]) \/ InRange(azimuth, r)
        BY <2>2, <2>3 DEF l
      <4>3. QED  BY <1>1, <4>1, <4>2 DEF Covered
    <3>2. QED  BY <1>1, <1>4, <3>1
  <2>6. MergedSoFar(M, s, n + 1)
    <3>1. M[Len(M)].start <= s[n + 1].start
      BY <1>2, <2>1, <2>3 DEF r
    <3>2. QED  BY <2>3, <2>4, <2>5, <3>1 DEF MergedSoFar
  <2>7. WithRange(m, r) = M
    BY <1>5, <1>7 DEF M, c
  <2>8. QED  BY <2>6, <2>7 DEF r
<1>8. QED  BY <1>6, <1>7

\* The loop over the sorted ranges.
MergeLoop(f, sorted, count) ==
  f = [n \in 0..count |-> IF n = 0 THEN <<>> ELSE WithRange(f[n - 1], sorted[n])]

LEMMA MergeDefined ==
  ASSUME NEW sorted, NEW count \in Nat
  PROVE  \E f : MergeLoop(f, sorted, count)
<1> DEFINE Defined(m, f) == MergeLoop(f, sorted, m)
           S == {m \in Nat : \E f : Defined(m, f)}
<1>1. 0 \in S
  <2> DEFINE g == [n \in 0..0 |-> <<>>]
  <2>1. Defined(0, g)
    BY DEF MergeLoop
  <2>2. QED  BY <2>1
<1>2. ASSUME NEW m \in Nat, m \in S  PROVE m + 1 \in S
  <2>1. PICK f : Defined(m, f)
    BY <1>2
  <2> DEFINE g == [n \in 0..m + 1 |-> IF n = 0 THEN <<>> ELSE WithRange(f[n - 1], sorted[n])]
  <2>2. \A n \in 0..m : g[n] = f[n]
    BY <2>1 DEF MergeLoop
  <2>3. Defined(m + 1, g)
    <3>1. \A n \in 0..m + 1 : n # 0 => n - 1 \in 0..m
      OBVIOUS
    <3>2. \A n \in 0..m + 1 : n # 0 => g[n - 1] = f[n - 1]
      <4> HIDE DEF g
      <4>1. QED  BY <2>2, <3>1
    <3>3. QED  BY <3>2 DEF MergeLoop
  <2>4. m + 1 \in Nat
    OBVIOUS
  <2> HIDE DEF g, Defined
  <2>5. QED  BY <2>3, <2>4
<1>3. Nat \subseteq S
  <2> HIDE DEF S
  <2>1. QED  BY <1>1, <1>2, Induction
<1>4. QED  BY <1>3

\* The merged list covers what the sorted one does.
LEMMA MergeCovers ==
  ASSUME NEW s, ProperList(s),
         \A i, j \in 1..Len(s) : i < j => s[i].start <= s[j].start
  PROVE  MergedSoFar(mergeRanges(s), s, Len(s))
<1> DEFINE count == Len(s)
           merged == CHOOSE f : MergeLoop(f, s, count)
<1>1. /\ s \in Seq(Ranges) /\ s # <<>> /\ count \in Nat /\ count # 0
      /\ \A i \in 1..count : Proper(s[i])
  BY LenProperties, EmptySeq DEF ProperList
<1>2. MergeLoop(merged, s, count)
  <2>1. \E f : MergeLoop(f, s, count)
    BY <1>1, MergeDefined
  <2>2. QED  BY <2>1, Zenon
<1>3. mergeRanges(s) = merged[count]
  BY DEF mergeRanges, MergeLoop
<1> HIDE DEF merged, count
<1>4. /\ merged[0] = <<>>
      /\ \A n \in 1..count : merged[n] = WithRange(merged[n - 1], s[n])
  BY <1>1, <1>2 DEF MergeLoop
<1> DEFINE S == {n \in Nat : n + 1 <= count => MergedSoFar(merged[n + 1], s, n + 1)}
<1>5. 0 \in S
  <2> DEFINE M == <<s[1]>>
  <2>1. 1 \in 1..count /\ Proper(s[1]) /\ s[1] \in Ranges
    BY <1>1 DEF Proper
  <2>2. merged[1] = M
    <3>1. merged[1] = WithRange(<<>>, s[1])
      BY <1>4, <2>1, 1 - 1 = 0
    <3>2. WithRange(<<>>, s[1]) = Append(<<>>, s[1])
      BY DEF WithRange
    <3>3. Append(<<>>, s[1]) = M
      BY <2>1
    <3>4. QED  BY <3>1, <3>2, <3>3
  <2>3. M \in Seq(Ranges) /\ Len(M) = 1 /\ M[1] = s[1]
    BY <2>1
  <2> HIDE DEF M
  <2>4. ProperList(M)
    <3>1. M # <<>> /\ \A i \in 1..1 : i = 1
      BY <2>3, EmptySeq
    <3>2. QED  BY <2>1, <2>3, <3>1 DEF ProperList
  <2>5. \A azimuth : Covered(azimuth, M, 1) <=> Covered(azimuth, s, 1)
    BY <2>3 DEF Covered
  <2>6. M[Len(M)].start <= s[1].start
    BY <2>1, <2>3 DEF Proper, Ranges
  <2>7. MergedSoFar(M, s, 1)
    BY <2>3, <2>4, <2>5, <2>6 DEF MergedSoFar
  <2>8. 0 + 1 = 1 /\ 0 \in Nat
    OBVIOUS
  <2>9. QED  BY <2>2, <2>7, <2>8
<1>6. ASSUME NEW n \in Nat, n \in S  PROVE n + 1 \in S
  <2>1. SUFFICES ASSUME (n + 1) + 1 <= count
                 PROVE  MergedSoFar(merged[(n + 1) + 1], s, (n + 1) + 1)
    OBVIOUS
  <2> DEFINE k == n + 1
  <2>2. /\ k \in Nat \ {0} /\ k <= count /\ k \in 1..count /\ k + 1 \in 1..count
        /\ (k + 1) - 1 = k /\ k < k + 1
    BY <1>1, <2>1
  <2>3. MergedSoFar(merged[k], s, k)
    BY <1>6, <2>2
  <2> HIDE DEF k
  <2>4. Proper(s[k]) /\ Proper(s[k + 1]) /\ s[k].start <= s[k + 1].start
    BY <1>1, <2>2 DEF count
  <2>5. merged[k + 1] = WithRange(merged[k], s[k + 1])
    BY <1>4, <2>2
  <2>6. MergedSoFar(merged[k + 1], s, k + 1)
    BY <2>2, <2>3, <2>4, <2>5, MergeKeeps
  <2>7. QED  BY <2>6 DEF k
<1>7. Nat \subseteq S
  <2> HIDE DEF S
  <2>1. QED  BY <1>5, <1>6, Induction
<1>8. count - 1 \in Nat /\ (count - 1) + 1 = count
  BY <1>1
<1>9. MergedSoFar(merged[count], s, count)
  BY <1>7, <1>8
<1>10. QED  BY <1>3, <1>9 DEF count

-----------------------------------------------------------------------------
\* The list that is used, whichever way the sort goes.
PointInv ==
  /\ ring_ \in LidarRings
  /\ angle_disable_min \in [1..2 -> Int] /\ angle_disable_max \in [1..2 -> Int]
  /\ disableAngles \in calculateDisableAngles

LEMMA CutOutIsRight == PointInv => CutOut
<1> SUFFICES ASSUME PointInv,
                    ~Same(1), \A i \in 1..2 : Same(i) \/ angle_disable_max[i] % FullAngle # 0,
                    NEW azimuth \in 0..FullAngle - 1
             PROVE  Kept(azimuth) <=> \A i \in 1..2 : ~Within(azimuth, i)
  BY DEF CutOut
<1> DEFINE F == FullAngle
<1>1. /\ \A i \in 1..2 : angle_disable_min[i] \in Int /\ angle_disable_max[i] \in Int
      /\ 1 \in 1..2 /\ 2 \in 1..2 /\ \A i \in 1..2 : i = 1 \/ i = 2
      /\ azimuth \in Nat
  BY PointsAssumption DEF PointInv
<1>2. \A i \in 1..2 : Within(azimuth, i)
                        <=> Between(azimuth, angle_disable_min[i], angle_disable_max[i])
  BY DEF Within, Between
<1>3. ASSUME NEW i \in 1..2, ~Same(i)
      PROVE  /\ ProperList(Asked(i))
             /\ Covered(azimuth, Asked(i), Len(Asked(i))) <=> Within(azimuth, i)
  <2> DEFINE min == angle_disable_min[i]  max == angle_disable_max[i]
  <2>1. min \in Int /\ max \in Int /\ min % FullAngle # max % FullAngle /\ max % FullAngle # 0
    BY <1>1, <1>3 DEF Same
  <2>2. Asked(i) = RangesOf(min, max)
    BY DEF Asked
  <2>3. Within(azimuth, i) <=> Between(azimuth, min, max)
    BY <1>2
  <2> HIDE DEF min, max
  <2>4. QED  BY <2>1, <2>2, <2>3, RangesOfRight
\* Of a list that does not begin with an empty range, what it covers is cut out.
<1>4. ASSUME disableAngles[1] # Cut(0, 0)
      PROVE  Kept(azimuth) <=> ~Covered(azimuth, disableAngles, Len(disableAngles))
  BY <1>4 DEF Kept, Covered, InRange
<1>5. ASSUME NEW R, Proper(R)  PROVE R # Cut(0, 0)
  BY <1>5 DEF Proper, Cut
<1>6. CASE Same(2)
  <2> DEFINE A == Asked(1)
  <2>1. ProperList(A) /\ (Covered(azimuth, A, Len(A)) <=> Within(azimuth, 1))
    BY <1>1, <1>3
  <2>2. disableAngles = Append(A, Cut(0, 0))
    BY <1>6 DEF PointInv, calculateDisableAngles
  <2> HIDE DEF A
  <2>3. A \in Seq(Ranges) /\ Len(A) \in Nat /\ 1 \in 1..Len(A) /\ \A i \in 1..Len(A) : Proper(A[i])
    BY <2>1, LenProperties, EmptySeq DEF ProperList
  <2>4. Cut(0, 0) \in Ranges
    BY DEF Cut, Ranges
  <2>5. /\ Len(disableAngles) = Len(A) + 1 /\ disableAngles[Len(A) + 1] = Cut(0, 0)
        /\ \A i \in 1..Len(A) : disableAngles[i] = A[i]
    BY <2>2, <2>3, <2>4, AppendProperties
  <2>6. disableAngles[1] # Cut(0, 0)
    BY <1>5, <2>3, <2>5
  <2>7. Covered(azimuth, disableAngles, Len(A) + 1)
          <=> Covered(azimuth, disableAngles, Len(A)) \/ InRange(azimuth, disableAngles[Len(A) + 1])
    BY <2>3, CoveredMore
  <2>8. Covered(azimuth, disableAngles, Len(A)) <=> Covered(azimuth, A, Len(A))
    BY <2>5 DEF Covered
  <2>9. ~InRange(azimuth, Cut(0, 0))
    BY <1>1 DEF InRange, Cut
  <2>10. ~Within(azimuth, 2)
    <3>1. (angle_disable_max[2] - angle_disable_min[2]) % F = 0
      <4> DEFINE min == angle_disable_min[2]  max == angle_disable_max[2]
                 p == max % F
      <4>1. F \in Nat \ {0} /\ min \in Int /\ max \in Int /\ p \in 0..F - 1
        BY <1>1, PointsAssumption, DivMod
      <4>2. min % F = p
        BY <1>6 DEF Same
      <4> HIDE DEF F, min, max
      <4>3. (max - min) % F = Upwards(F, p, p)
        BY <4>1, <4>2, DifferenceModulo
      <4> HIDE DEF p
      <4>4. Upwards(F, p, p) = 0
        BY <4>1 DEF Upwards
      <4>5. QED  BY <4>3, <4>4 DEF F, min, max
    <3>2. azimuth - angle_disable_min[2] \in Int /\ FullAngle \in Nat \ {0}
      BY <1>1, PointsAssumption
    <3>3. (azimuth - angle_disable_min[2]) % F \in 0..F - 1
      BY <3>2, DivMod
    <3>4. QED  BY <3>1, <3>2, <3>3 DEF Within
  <2>11. QED  BY <1>1, <1>4, <2>1, <2>5, <2>6, <2>7, <2>8, <2>9, <2>10
<1>7. CASE ~Same(2)
  <2> DEFINE A == Asked(1)
             B == Asked(2)
  <2>1. /\ ProperList(A) /\ (Covered(azimuth, A, Len(A)) <=> Within(azimuth, 1))
        /\ ProperList(B) /\ (Covered(azimuth, B, Len(B)) <=> Within(azimuth, 2))
    BY <1>1, <1>3, <1>7
  <2>2. PICK s \in Sorts(A \o B) : disableAngles = mergeRanges(s)
    BY <1>7 DEF PointInv, calculateDisableAngles
  <2> HIDE DEF A, B
  <2>3. /\ ProperList(A \o B)
        /\ Covered(azimuth, A \o B, Len(A \o B)) <=> Within(azimuth, 1) \/ Within(azimuth, 2)
    BY <2>1, BothCover
  <2>4. /\ ProperList(s)
        /\ \A i, j \in 1..Len(s) : i < j => s[i].start <= s[j].start
        /\ Covered(azimuth, s, Len(s)) <=> Covered(azimuth, A \o B, Len(A \o B))
    BY <2>3, SortsCover
  <2>5. MergedSoFar(disableAngles, s, Len(s))
    BY <2>2, <2>4, MergeCovers
  <2>6. /\ ProperList(disableAngles)
        /\ Covered(azimuth, disableAngles, Len(disableAngles)) <=> Covered(azimuth, s, Len(s))
    BY <2>5 DEF MergedSoFar
  <2>7. disableAngles[1] # Cut(0, 0)
    <3>1. Len(disableAngles) \in Nat /\ 1 \in 1..Len(disableAngles)
      BY <2>6, LenProperties, EmptySeq DEF ProperList
    <3>2. QED  BY <1>5, <2>6, <3>1 DEF ProperList
  <2>8. QED  BY <1>1, <1>4, <2>3, <2>4, <2>6, <2>7
<1>8. QED  BY <1>6, <1>7

-----------------------------------------------------------------------------
\* The rings of a round of firings.  Of firings in groups of M, number q * M + r
\* is the one with quotient q and remainder r.
LEMMA Grouping ==
  ASSUME NEW M \in {1, 2, 4}, NEW Q \in Nat, NEW i \in 0..Q * M - 1
  PROVE  i % M \in 0..M - 1 /\ i \div M \in 0..Q - 1
<1> DEFINE q == i \div M  r == i % M
<1>1. r \in 0..M - 1 /\ q \in Int /\ q * M + r = i
  BY DivMod
<1> HIDE DEF q, r
<1>2. q \in 0..Q - 1
  <2>1. CASE M = 1
    BY <1>1, <2>1
  <2>2. CASE M = 2
    BY <1>1, <2>2
  <2>3. CASE M = 4
    BY <1>1, <2>3
  <2>4. QED  BY <2>1, <2>2, <2>3
<1>3. QED  BY <1>1, <1>2 DEF q, r

HasNumber(i, M, q, r) == i % M = r /\ i \div M = q
LEMMA Numbering ==
  ASSUME NEW M \in {1, 2, 4}, NEW Q \in Nat, NEW q \in 0..Q - 1, NEW r \in 0..M - 1
  PROVE  \E i \in 0..Q * M - 1 : HasNumber(i, M, q, r)
<1> DEFINE i == q * M + r
<1>1. M \in Nat \ {0} /\ q \in Int /\ r \in 0..M - 1
  OBVIOUS
<1>2. i \in 0..Q * M - 1
  <2>1. CASE M = 1
    BY <2>1
  <2>2. CASE M = 2
    BY <2>2
  <2>3. CASE M = 4
    BY <2>3
  <2>4. QED  BY <2>1, <2>2, <2>3
<1>3. i \in Int
  BY <1>1
<1> DEFINE j == i
<1>4. j \in Int /\ q * M + r = j /\ j \in 0..Q * M - 1
  BY <1>2, <1>3
<1> HIDE DEF i, j
<1>5. j % M = r /\ j \div M = q
  BY <1>1, <1>4, DivModIs
<1>6. QED  BY <1>4, <1>5 DEF HasNumber

\* A ring for every firing, and a firing for every ring.
LEMMA RingsMeet ==
  ASSUME \A i \in 0..Lines - 1 : remapped_scan_idx(i) \in 0..Lines - 1,
         \A n \in 0..Lines - 1 : \E i \in 0..Lines - 1 : remapped_scan_idx(i) = n
  PROVE  RingsDiffer
BY DEF RingsDiffer

LEMMA WideRings == ASSUME ring_ = 33  PROVE RingsDiffer
<1>1. Lines = 8 * 4 /\ \A i : remapped_scan_idx(i) = WideRing(i)
  BY DEF Lines, remapped_scan_idx
<1>2. ASSUME NEW i \in 0..8 * 4 - 1  PROVE WideRing(i) \in 0..8 * 4 - 1
  <2>1. i % 4 \in 0..3 /\ i \div 4 \in 0..7
    BY Grouping
  <2>2. QED  BY <2>1 DEF WideRing
<1>3. ASSUME NEW n \in 0..8 * 4 - 1  PROVE \E i \in 0..8 * 4 - 1 : WideRing(i) = n
  <2>1. PICK q \in 0..7, r \in 0..3 : n = (IF r = 0 THEN 0 ELSE IF r = 1 THEN 16 ELSE IF r = 2 THEN 8 ELSE 24) + q
    <3>1. CASE n < 8
      BY <3>1, n \in 0..7, 0 \in 0..3
    <3>2. CASE n >= 8 /\ n < 16
      BY <3>2, n - 8 \in 0..7, 2 \in 0..3
    <3>3. CASE n >= 16 /\ n < 24
      BY <3>3, n - 16 \in 0..7, 1 \in 0..3
    <3>4. CASE n >= 24
      BY <3>4, n - 24 \in 0..7, 3 \in 0..3
    <3>5. QED  BY <3>1, <3>2, <3>3, <3>4
  <2>2. PICK i \in 0..8 * 4 - 1 : HasNumber(i, 4, q, r)
    <3>1. 4 \in {1, 2, 4} /\ 8 \in Nat /\ q \in 0..8 - 1 /\ r \in 0..4 - 1
      OBVIOUS
    <3>2. QED  BY <3>1, Numbering
  <2>3. WideRing(i) = n
    BY <2>1, <2>2 DEF WideRing, HasNumber
  <2>4. QED  BY <2>3
<1>4. QED  BY <1>1, <1>2, <1>3, RingsMeet

\* Rings in steps of S, over M groups.
Stepped(M, S) ==
  /\ Lines = S * M
  /\ \A i \in 0..S * M - 1 : remapped_scan_idx(i) = (i % M) * S + i \div M
LEMMA SteppedRings ==
  ASSUME NEW M \in {1, 2, 4}, NEW S \in Nat \ {0}, Stepped(M, S)
  PROVE  RingsDiffer
<1>1. ASSUME NEW i \in 0..S * M - 1  PROVE (i % M) * S + i \div M \in 0..S * M - 1
  <2>1. i % M \in 0..M - 1 /\ i \div M \in 0..S - 1
    BY Grouping
  <2> DEFINE r == i % M  q == i \div M
  <2>2. r \in 0..M - 1 /\ q \in 0..S - 1
    BY <2>1
  <2> HIDE DEF r, q
  <2>3. r * S + q \in 0..S * M - 1
    <3>1. r = 0 \/ r = 1 \/ r = 2 \/ r = 3
      BY <2>2
    <3>2. CASE r = 0
      BY <2>2, <3>2
    <3>3. CASE r = 1
      BY <2>2, <3>3
    <3>4. CASE r = 2
      BY <2>2, <3>4
    <3>5. CASE r = 3
      BY <2>2, <3>5
    <3>6. QED  BY <3>1, <3>2, <3>3, <3>4, <3>5
  <2>4. QED  BY <2>3 DEF r, q
<1>2. ASSUME NEW n \in 0..S * M - 1  PROVE \E i \in 0..S * M - 1 : (i % M) * S + i \div M = n
  <2> DEFINE r == n \div S  q == n % S
  <2>1. r \in Int /\ q \in 0..S - 1 /\ r * S + q = n
    BY DivMod
  <2> HIDE DEF r, q
  <2>2. r \in 0..M - 1
    <3>1. ~(r < 0)
      <4>1. r < 0 => r * S + q < 0
        <5>1. r < 0 => r * S <= -S
          BY <2>1
        <5>2. QED  BY <2>1, <5>1
      <4>2. QED  BY <2>1, <4>1
    <3>2. ~(r >= M)
      <4>1. r >= M => r * S >= S * M
        BY <2>1
      <4>2. QED  BY <2>1, <4>1
    <3>3. QED  BY <2>1, <3>1, <3>2
  <2>3. PICK i \in 0..S * M - 1 : HasNumber(i, M, q, r)
    BY <2>1, <2>2, S \in Nat, Numbering
  <2>4. QED  BY <2>1, <2>3 DEF HasNumber
<1>3. QED  BY <1>1, <1>2, RingsMeet DEF Stepped

LEMMA RingsAreRight == PointInv => RingsDiffer
<1> SUFFICES ASSUME PointInv  PROVE RingsDiffer
  OBVIOUS
<1>1. CASE ring_ = 33
  BY <1>1, WideRings
<1>2. CASE ring_ = 32
  <2>1. Stepped(4, 8)
    BY <1>2 DEF Stepped, Lines, remapped_scan_idx
  <2>2. QED  BY <2>1, SteppedRings
<1>3. CASE ring_ = 31
  <2>1. Lines = 32 /\ \A i : remapped_scan_idx(i) = (i % 2) * (32 \div 2) + i \div 2
    BY <1>3 DEF Lines, remapped_scan_idx
  <2>2. 32 \div 2 = 16
    BY DivModIs, 32 \in Int, 16 \in Int, 16 * 2 + 0 = 32, 0 \in 0..2 - 1
  <2>3. Stepped(2, 16)
    BY <2>1, <2>2, 16 * 2 = 32 DEF Stepped
  <2>4. QED  BY <2>3, SteppedRings
<1>4. CASE ring_ = 17
  <2>1. Stepped(4, 4)
    BY <1>4 DEF Stepped, Lines, remapped_scan_idx
  <2>2. QED  BY <2>1, SteppedRings
<1>5. CASE ring_ = 16
  <2>1. Lines = 16 /\ \A i : remapped_scan_idx(i) = (i % 2) * (16 \div 2) + i \div 2
    BY <1>5 DEF Lines, remapped_scan_idx
  <2>2. 16 \div 2 = 8
    BY DivModIs, 16 \in Int, 8 \in Int, 8 * 2 + 0 = 16, 0 \in 0..2 - 1
  <2>3. Stepped(2, 8)
    BY <2>1, <2>2, 8 * 2 = 16 DEF Stepped
  <2>4. QED  BY <2>3, SteppedRings
<1>6. CASE ring_ = 8
  <2>1. Stepped(2, 4)
    BY <1>6 DEF Stepped, Lines, remapped_scan_idx
  <2>2. QED  BY <2>1, SteppedRings
<1>7. CASE ring_ = 1
  <2>1. Lines = 1 /\ \A i : remapped_scan_idx(i) = 0
    BY <1>7 DEF Lines, remapped_scan_idx
  <2>2. QED  BY <2>1 DEF RingsDiffer
<1>8. QED  BY <1>1, <1>2, <1>3, <1>4, <1>5, <1>6, <1>7 DEF PointInv, LidarRings

LEMMA InvIsPointsRight == PointInv => PointsRight
BY CutOutIsRight, RingsAreRight DEF PointsRight

\* Every firing of a round has a ring of its own, and of every two ranges of
\* angles, just what lies in one of them is cut out, whichever way they are sorted.
THEOREM PointsAreRight == PointSpec => []PointsRight
<1>1. PointInit => PointInv
  <2>1. FullAngle \in Nat
    BY PointsAssumption
  <2>2. Angles \subseteq Int
    BY <2>1 DEF Angles
  <2>3. QED  BY <2>2 DEF PointInit, PointInv
<1>2. PointInv /\ [PointNext]_pointVars => PointInv'
  BY DEF PointInv, PointNext, pointVars, calculateDisableAngles, Same, Asked
<1>3. QED  BY <1>1, <1>2, InvIsPointsRight, PTL DEF PointSpec
=============================================================================
