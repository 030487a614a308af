--------------------------- MODULE LslidarControl ---------------------------
(***************************************************************************)
(* The lslidar driver's services change settings of the lidar by sending   *)
(* back the whole configuration of its last device packet (DIFOP), with    *)
(* the setting changed.  Three threads read two sockets: poll and powerOn  *)
(* data packets (MSOP), difopPoll device packets, and data packets too     *)
(* when it must find out which lidar it has (determineLidarType).  A       *)
(* service and difopPoll share difop_data without a lock, and the flag     *)
(* is_get_difop_, which the one clears after it has copied difop_data and  *)
(* the other sets some time after it has written it.                       *)
(* Packets and commands may be late or lost.  motorControl, motorSpeed,    *)
(* timeService, setDataIp and setDestinationIp differ from motorSpeed and  *)
(* setDataPort here in the bytes they set only.                            *)
(***************************************************************************)
EXTENDS Integers, Sequences

CONSTANTS
  MaxRequests,   \* bound: accepted requests to the services
  MaxFlight      \* bound: packets or commands in flight

VARIABLES
  settings,            \* the lidar's configuration
  difops, commands,    \* in flight: configurations both
  msop,                \* data packets in the driver's socket, at most one
  difop_data, is_get_difop_, start_process_msop_,
  difopPoll,           \* "read", "copy" with a packet being written to difop_data,
  fresh,               \* "handle" from then on, "determine" in determineLidarType
  service, config,     \* where a request is, which blocks the others; its config_data
  wanted,              \* the configuration that the accepted requests make
  disturbed,           \* was a command lost or overtaken by a device packet, or sent
                       \* while difopPoll had one in hand?
  torn,                \* was difop_data read while another packet was written to it?
  requests
driverVars == <<difop_data, is_get_difop_, start_process_msop_, difopPoll, fresh>>
requestVars == <<service, config, wanted, torn, requests>>
controlVars == <<settings, difops, commands, msop, disturbed, driverVars, requestVars>>

Ports == 1..3          \* the driver listens to 1 for MSOP and 2 for DIFOP
Configs == [laser : BOOLEAN, speed : {5, 10}, data : Ports, dev : Ports]
NoConfig == [laser |-> FALSE, speed |-> 0, data |-> 0, dev |-> 0]

ControlInit ==
  /\ settings \in [laser : BOOLEAN, speed : {10}, data : {1}, dev : {2}]
  /\ difops = <<>> /\ commands = <<>> /\ msop = 0
  /\ difop_data = NoConfig /\ is_get_difop_ = FALSE /\ start_process_msop_ = FALSE
  /\ difopPoll = "read" /\ fresh = NoConfig /\ service = "idle" /\ config = NoConfig
  /\ wanted = settings /\ disturbed = FALSE /\ torn = FALSE /\ requests = 0

-----------------------------------------------------------------------------
\* The lidar: device packets always, data packets while its laser is on.
SendDifop ==
  /\ Len(difops) < MaxFlight
  /\ difops' = Append(difops, settings)
  /\ UNCHANGED <<settings, commands, msop, disturbed, driverVars, requestVars>>

SendMsop ==
  /\ settings.laser /\ settings.data = 1 /\ msop = 0
  /\ msop' = 1
  /\ UNCHANGED <<settings, difops, commands, disturbed, driverVars, requestVars>>

ApplyCommand ==
  /\ commands # <<>>
  /\ settings' = Head(commands) /\ commands' = Tail(commands)
  /\ UNCHANGED <<difops, msop, disturbed, driverVars, requestVars>>

LoseCommand ==
  /\ commands # <<>>
  /\ commands' = Tail(commands)
  /\ disturbed' = TRUE
  /\ UNCHANGED <<settings, difops, msop, driverVars, requestVars>>

-----------------------------------------------------------------------------
\* difopPoll reads the next packet; those that the lidar sends to another port do
\* not come,
ReadDifop ==
  /\ difopPoll = "read" /\ difops # <<>>
  /\ difops' = Tail(difops)
  /\ IF Head(difops).dev # 2
     THEN UNCHANGED <<difopPoll, fresh, disturbed>>
     ELSE /\ difopPoll' = "copy" /\ fresh' = Head(difops)
          /\ disturbed' = (disturbed \/ commands # <<>> \/ Head(difops) # settings
                             \/ service = "check")
  /\ UNCHANGED <<settings, commands, msop, difop_data, is_get_difop_, start_process_msop_,
                 requestVars>>

\* has written it to difop_data,
CopyDifop ==
  /\ difopPoll = "copy"
  /\ difop_data' = fresh /\ fresh' = NoConfig
  /\ difopPoll' = "handle"
  /\ UNCHANGED <<settings, difops, commands, msop, disturbed, is_get_difop_,
                 start_process_msop_, requestVars>>

\* and taken from it what it tells of the lidar, all but its type.
\* When does difopPoll call determineLidarType?  Mutant: for the first packet only.
MustDetermineFirst == ~start_process_msop_ /\ ~is_get_difop_
MustDetermine == ~start_process_msop_

HandleDifop ==
  /\ difopPoll = "handle"
  /\ IF MustDetermine THEN difopPoll' = "determine" /\ UNCHANGED is_get_difop_
     ELSE difopPoll' = "read" /\ is_get_difop_' = TRUE
  /\ UNCHANGED <<settings, difops, commands, msop, disturbed, difop_data,
                 start_process_msop_, fresh, requestVars>>

\* determineLidarType waits for a data packet; its timeouts change nothing.
determineLidarType ==
  /\ difopPoll = "determine" /\ msop = 1
  /\ msop' = 0
  /\ start_process_msop_' = TRUE
  /\ is_get_difop_' = TRUE
  /\ difopPoll' = "read"
  /\ UNCHANGED <<settings, difops, commands, disturbed, difop_data, fresh, requestVars>>

\* poll takes a packet, which it decodes if start_process_msop_,
PollPacket ==
  /\ msop = 1
  /\ msop' = 0
  /\ UNCHANGED <<settings, difops, commands, disturbed, driverVars, requestVars>>

\* or none comes in 3 s.
NoMsop == msop = 0 /\ ~(settings.laser /\ settings.data = 1)
PollTimeout ==
  /\ NoMsop
  /\ start_process_msop_' = FALSE
  /\ UNCHANGED <<settings, difops, commands, msop, disturbed, difop_data, is_get_difop_,
                 difopPoll, fresh, requestVars>>

-----------------------------------------------------------------------------
\* What a service may read of difop_data: while difopPoll writes it, each byte may
\* be old or new, so that a setting of two bytes may be neither.
Readable ==
  IF difopPoll = "copy"
  THEN {c \in Configs : \A f \in DOMAIN c : fresh[f] = difop_data[f] => c[f] = fresh[f]}
  ELSE {difop_data}

\* A service copies difop_data once is_get_difop_ is set.  One at a time does, and
\* nothing else clears the flag, so that it is still set when the copy is made.
TakeConfig ==
  /\ service = "idle" /\ is_get_difop_ /\ requests < MaxRequests
  /\ service' = "taken" /\ config' \in Readable
  /\ torn' = (torn \/ Readable # {difop_data})
  /\ requests' = requests + 1
  /\ UNCHANGED <<settings, difops, commands, msop, disturbed, driverVars, wanted>>

\* Each accepted request waits for another device packet.  Mutant: it does not.
TakenKept == is_get_difop_
Taken == FALSE

\* Then it clears the flag, which difopPoll may be about to set.
Accept ==
  /\ service = "taken"
  /\ is_get_difop_' = Taken
  /\ disturbed' = (disturbed \/ difopPoll # "read")
  /\ UNCHANGED <<settings, difops, msop, difop_data, start_process_msop_, difopPoll, fresh,
                 torn, requests>>

Transmit(command) ==
  /\ Len(commands) < MaxFlight
  /\ commands' = Append(commands, command)

Done == service' = "idle" /\ config' = NoConfig

\* A request for one setting, which makes the lidar's all those of config_data.
Request(setting, value) ==
  /\ Accept
  /\ Transmit([config EXCEPT ![setting] = value])
  /\ wanted' = [wanted EXCEPT ![setting] = value]
  /\ Done

motorSpeed == \E hz \in {5, 10} : Request("speed", hz)
PowerOff == Request("laser", FALSE)

\* A port that the other kind of packet uses is refused.  Mutant: it is not.
RefusedNever(other, port) == FALSE
Refused(other, port) == port = config[other]
SetPort(setting, other) ==
  \E port \in Ports :
    IF Refused(other, port)
    THEN Accept /\ Done /\ UNCHANGED <<commands, wanted>>
    ELSE Request(setting, port)
setDataPort == SetPort("data", "dev")
setDevPort == SetPort("dev", "data")

\* powerOn: a request to power on first waits for a data packet,
PowerOn ==
  /\ Accept
  /\ service' = "check" /\ UNCHANGED config
  /\ UNCHANGED <<commands, wanted>>

\* and if one comes answers that the lidar is on already,
AlreadyOn ==
  /\ service = "check" /\ msop = 1
  /\ msop' = 0
  /\ Done
  /\ UNCHANGED <<settings, difops, commands, disturbed, driverVars, wanted, torn, requests>>

\* else sends the command
CommandOn ==
  /\ service = "check" /\ NoMsop
  /\ Transmit([config EXCEPT !["laser"] = TRUE])
  /\ wanted' = [wanted EXCEPT !["laser"] = TRUE]
  /\ service' = "wait" /\ config' = NoConfig
  /\ UNCHANGED <<settings, difops, msop, disturbed, driverVars, torn, requests>>

\* and waits for a data packet, for 20 s at most.
PowerOnReply ==
  /\ service = "wait"
  /\ \/ msop = 1 /\ msop' = 0
     \/ NoMsop /\ commands = <<>> /\ UNCHANGED msop
  /\ Done
  /\ UNCHANGED <<settings, difops, commands, disturbed, driverVars, wanted, torn, requests>>

Services ==
  \/ TakeConfig \/ motorSpeed \/ PowerOff \/ setDataPort \/ setDevPort
  \/ PowerOn \/ AlreadyOn \/ CommandOn \/ PowerOnReply
ControlNext ==
  \/ SendDifop \/ SendMsop \/ ApplyCommand \/ LoseCommand
  \/ ReadDifop \/ CopyDifop \/ HandleDifop \/ determineLidarType \/ PollPacket \/ PollTimeout \/ Services

\* The lidar sends on, the threads run, and of the threads that wait for a
\* data packet, none is left out for ever.
ControlFairness ==
  /\ WF_controlVars(SendDifop) /\ WF_controlVars(SendMsop) /\ WF_controlVars(ApplyCommand)
  /\ WF_controlVars(ReadDifop) /\ WF_controlVars(CopyDifop) /\ WF_controlVars(HandleDifop)
  /\ SF_controlVars(determineLidarType)
  /\ WF_controlVars(PollTimeout)

ControlSpec == ControlInit /\ [][ControlNext]_controlVars /\ ControlFairness

-----------------------------------------------------------------------------
\* The lidar's two ports differ whatever packets and commands were outdated or
\* lost, so that its packets never come mixed (setDataPort, setDevPort), unless a
\* service read difop_data while difopPoll wrote other settings to it.
PortsDiffer == ~torn => settings.data # settings.dev

\* When no command is on its way, the lidar's settings are all those that were
\* asked for, unless a command got lost, or a device packet came that was sent
\* before a command was applied, or one was in difopPoll's hand (from its reading
\* until is_get_difop_ is set, determineLidarType included) when a request cleared
\* is_get_difop_: that packet becomes usable once more, and the next request
\* undoes this one.  Requests never share a device packet otherwise.
SettingsKept == PortsDiffer /\ (commands = <<>> /\ ~disturbed => settings = wanted)

\* While the lidar sends data packets, the driver comes to decode them, also
\* after they stopped for a while (difopPoll, determineLidarType, poll).
DecodingStarts ==
  settings.laser /\ settings.data = 1 /\ settings.dev = 2
    ~> start_process_msop_ \/ ~(settings.laser /\ settings.data = 1 /\ settings.dev = 2)
=============================================================================
