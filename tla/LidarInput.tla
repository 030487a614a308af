----------------------------- MODULE LidarInput -----------------------------
(***************************************************************************)
(* How rs_driver gets datagrams out of a capture of the network: whole     *)
(* ones by port (InputPcap, InputSock), and those of a jumbo lidar, which  *)
(* come as IP fragments that Jumbo puts together.  A lidar's datagrams all *)
(* have the same number of fragments and successive IP ids.  Other hosts'  *)
(* datagrams, whole or in fragments of their own, come between them with   *)
(* any id; Jumbo tells them apart by the id alone.                         *)
(***************************************************************************)
EXTENDS Integers, Sequences, SequencesExt, FiniteSets

CONSTANTS
  Fragments,     \* fragments of a lidar's datagram, more than one
  Ids,           \* IP ids 0..Ids-1: 65536
  MaxDatagrams,  \* bound: datagrams of the lidar, fewer than Ids
  MaxOthers      \* bound: datagrams and fragments of other hosts

ASSUME InputAssumption ==
  /\ Fragments \in Nat \ {0, 1} /\ Ids \in Nat /\ MaxOthers \in Nat
  /\ MaxDatagrams \in 1..Ids - 1

VARIABLES
  ports,              \* the ports configured: msop, difop, imu
  ip_id_, buf,        \* the fragments in buf_
  firstId,            \* the id of the lidar's first datagram
  datagram, fragment, \* the fragment of the lidar that comes next
  intact,             \* the lidar's datagrams all of whose fragments came
  others,             \* datagrams and fragments of other hosts that came
  spoilt,             \* history: the lidar's datagrams that those got in the way of
  udp                 \* the datagrams new_fragment returned, as fragments
inputVars == <<ports, ip_id_, buf, firstId, datagram, fragment, intact, others, spoilt, udp>>

IdOf(d) == (firstId + d) % Ids

\* In half fragments: <<0, 1>> and <<0, 2>> are of another host, the one half as
\* long as a fragment of the lidar, the other as long.
Foreign == {<<0, 1>>, <<0, 2>>}
buf_off_ == 2 * Len(buf) - Cardinality({i \in 1..Len(buf) : buf[i] = <<0, 1>>})

InputInit ==
  /\ ports \in {1} \X (0..2) \X (0..3)
  /\ ip_id_ = 0 /\ buf = <<>>
  /\ firstId \in 0..Ids - 1
  /\ datagram = 1 /\ fragment = 1 /\ intact = 1..MaxDatagrams
  /\ others = 0 /\ spoilt = {} /\ udp = <<>>

\* new_fragment: data at offset off of the datagram with this id; `more` come.
\* Mutant: a fragment is not looked at for where it belongs.
AppendedAnywhere(off) == TRUE
Appended(off) == off = buf_off_
\* A first fragment begins a datagram.  Mutant: only when none is unfinished.
BeginsIdle(off, more) == off = 0 /\ more /\ ip_id_ = 0
Begins(off, more) == off = 0 /\ more

new_fragment(id, data, off, more) ==
  IF id = ip_id_
  THEN /\ buf' = IF Appended(off) THEN Append(buf, data) ELSE buf
       /\ ip_id_' = IF Appended(off) /\ ~more THEN 0 ELSE ip_id_
       /\ udp' = IF Appended(off) /\ ~more THEN Append(udp, buf') ELSE udp
  ELSE /\ ip_id_' = IF Begins(off, more) THEN id ELSE ip_id_
       /\ buf' = IF Begins(off, more) THEN <<data>> ELSE buf
       /\ udp' = IF off = 0 /\ ~more THEN Append(udp, <<data>>) ELSE udp

NextFragment ==
  /\ fragment' = IF fragment = Fragments THEN 1 ELSE fragment + 1
  /\ datagram' = IF fragment = Fragments THEN datagram + 1 ELSE datagram

\* recvPacket reads the next fragment of the lidar,
ReadFragment ==
  /\ datagram <= MaxDatagrams
  /\ new_fragment(IdOf(datagram), <<datagram, fragment>>, 2 * (fragment - 1), fragment < Fragments)
  /\ NextFragment
  /\ UNCHANGED <<ports, firstId, intact, others, spoilt>>

\* or the capture lacks it,
LoseFragment ==
  /\ datagram <= MaxDatagrams
  /\ intact' = intact \ {datagram}
  /\ NextFragment
  /\ UNCHANGED <<ports, ip_id_, buf, firstId, others, spoilt, udp>>

\* or a datagram of another host is next, in one piece,
ReadOther ==
  /\ others < MaxOthers
  /\ others' = others + 1
  /\ \E id \in 0..Ids - 1, data \in Foreign : new_fragment(id, data, 0, FALSE)
  /\ UNCHANGED <<ports, firstId, datagram, fragment, intact, spoilt>>

\* The lidar's datagrams that a fragment of another host gets in the way of:
\* those still to come that have its id, the one being received that a first
\* fragment takes the place of, and what is in buf_ when that has its id (0 is
\* the id of what is left there of a complete datagram).
SpoiltBy(id, off) ==
  {d \in 1..MaxDatagrams :
     \/ d >= datagram /\ IdOf(d) = id
     \/ d = datagram /\ fragment > 1 /\ off = 0
     \/ id = ip_id_ /\ \E i \in 1..Len(buf) : buf[i][1] = d}

\* or a fragment of one.
ReadOtherFragment ==
  /\ others < MaxOthers
  /\ others' = others + 1
  /\ \E id \in 0..Ids - 1, data \in Foreign, off \in 0..2 * (Fragments + MaxOthers), more \in BOOLEAN :
       /\ off # 0 \/ more
       /\ new_fragment(id, data, off, more)
       /\ spoilt' = spoilt \cup SpoiltBy(id, off)
  /\ UNCHANGED <<ports, firstId, datagram, fragment, intact>>

InputNext == ReadFragment \/ LoseFragment \/ ReadOther \/ ReadOtherFragment

InputSpec == InputInit /\ [][InputNext]_inputVars

-----------------------------------------------------------------------------
\* The ports that InputSock::init opens a socket for: a port of 0, or one that
\* has a socket, gets none.  Mutant: the IMU's is compared with msop_port alone.
ImuSocketMsop == ports[3] \notin {0, ports[1]}
ImuSocket == ports[3] \notin {0, ports[1], ports[2]}
DifopSocket == ports[2] \notin {0, ports[1]}
Sockets ==
  <<ports[1]>> \o (IF DifopSocket THEN <<ports[2]>> ELSE <<>>)
               \o (IF ImuSocket THEN <<ports[3]>> ELSE <<>>)

\* Does InputPcap::recvPacket push a datagram for this port?
Filtered(port) ==
  \/ port = ports[1]
  \/ port = ports[2] /\ ports[2] \notin {0, ports[1]}
  \/ port = ports[3] /\ ports[3] \notin {0, ports[1], ports[2]}

-----------------------------------------------------------------------------
Carries(u, d) == \E i \in 1..Len(u) : u[i][1] = d

\* Nothing of other hosts gets into datagram d, nor takes its place: none of their
\* fragments does what SpoiltBy says.  Id 0, which Jumbo takes for "no datagram"
\* (ip_id_), is that of anything left in buf_ besides.
Unspoilt(d) == d \notin spoilt /\ (others > 0 => IdOf(d) # 0)

\* What new_fragment returns with anything of an unspoilt datagram is all of it, in
\* order, and nothing else, whatever is lost (Jumbo::new_fragment).
WholeDatagrams ==
  \A i \in 1..Len(udp) : \A d \in 1..MaxDatagrams :
    Carries(udp[i], d) /\ Unspoilt(d) => udp[i] = [f \in 1..Fragments |-> <<d, f>>]

\* An unspoilt datagram of which no fragment is lost is returned, and once, but
\* for one whose id is 0: its first fragment does not begin a datagram.
IntactReturned ==
  \A d \in intact \cap 1..datagram - 1 :
    IdOf(d) # 0 /\ Unspoilt(d) => Cardinality({i \in 1..Len(udp) : Carries(udp[i], d)}) = 1

\* The sockets give the datagrams that a capture of them gives, each once,
\* whichever of the three ports are the same or 0 (InputSock::init, InputPcap).
SameDatagrams ==
  \A port \in 1..3 :
    Cardinality({i \in 1..Len(Sockets) : Sockets[i] = port}) = IF Filtered(port) THEN 1 ELSE 0

\* Datagrams arrive whole, those that are intact do, and each once, as far as
\* other hosts' fragments leave them alone.
DatagramsRight == WholeDatagrams /\ IntactReturned /\ SameDatagrams
=============================================================================
