------------------------------ MODULE RsDriver ------------------------------
(***************************************************************************)
(* rslidar_sdk_node at work: the main thread, and the three threads of a   *)
(* source: one receives packets into pooled buffers, one decodes them into *)
(* point clouds, one sends the clouds.  Each hand-over between threads is  *)
(* a SyncQueue (see Handover), here a sequence that is never full.         *)
(* Packets are numbered from 1.                                            *)
(***************************************************************************)
EXTENDS Integers, FiniteSets, Sequences, SequencesExt

CONSTANTS
  Vlen,         \* VLEN: buffers in the pool of recvPacket, 16
  PacketBatch,  \* packets in a batch of processPacket, 50
  MaxPackets,   \* bound: packets of the lidar
  MaxShort      \* bound: datagrams too short to hold a packet

ASSUME DriverAssumption ==
  Vlen \in Nat \ {0} /\ PacketBatch \in Nat \ {0} /\ MaxPackets \in Nat /\ MaxShort \in Nat

VARIABLES
  main,                         \* where the main thread is
  to_exit_recv_, to_exit_handle_, to_exit_process_,
  recv, pkt_pool, msgs, k,      \* the receiving thread; 0 is a null pointer
  handle, pkt_batch,            \* the handling thread
  free_pkt_queue_, pkt_queue_,
  content,                      \* the packet that each buffer holds
  point_cloud_, points,         \* the decoder's cloud; the packets in each cloud
  free_point_cloud_queue_, point_cloud_queue_,
  process, sending,             \* the thread that sends clouds, and its cloud
  received, short,              \* packets that came, and short datagrams
  delivered                     \* the packets in clouds that were sent
recvVars == <<to_exit_recv_, recv, pkt_pool, msgs, k, received, short>>
handleVars == <<to_exit_handle_, handle, pkt_batch>>
cloudVars == <<to_exit_process_, process, sending, delivered>>
ringVars == <<free_pkt_queue_, pkt_queue_, free_point_cloud_queue_, point_cloud_queue_>>
dataVars == <<content, point_cloud_, points>>
driverVars == <<main, recvVars, handleVars, cloudVars, ringVars, dataVars>>

Buffers == 1..Vlen + MaxPackets + 1
Clouds == 1..MaxPackets + 3
InPool == {pkt_pool[i] : i \in 1..Vlen} \ {0}
BuffersHeld == <<InPool, ToSet(free_pkt_queue_), ToSet(pkt_queue_), ToSet(pkt_batch)>>
\* splitFrame has handed the cloud over that getPointCloud is about to replace.
CloudsHeld ==
  <<{sending} \ {0}, ToSet(free_point_cloud_queue_), ToSet(point_cloud_queue_),
    IF handle = "cloud" THEN {} ELSE {point_cloud_}>>

\* make_shared: an object that no pointer holds, the first.
Fresh(all, held) ==
  {x \in all : x \notin UNION ToSet(held) /\ \A y \in all : y < x => y \in UNION ToSet(held)}

-----------------------------------------------------------------------------
\* main: init of the source makes the thread that sends, and the first cloud.
DriverInit ==
  /\ main = "init"
  /\ to_exit_recv_ = FALSE /\ to_exit_handle_ = FALSE /\ to_exit_process_ = FALSE
  /\ recv = "off" /\ pkt_pool = [i \in 1..Vlen |-> 0] /\ msgs = <<>> /\ k = 0
  /\ handle = "off" /\ pkt_batch = <<>>
  /\ free_pkt_queue_ = <<>> /\ pkt_queue_ = <<>> /\ content = [b \in Buffers |-> 0]
  /\ point_cloud_ = 1 /\ points = [c \in Clouds |-> <<>>]
  /\ free_point_cloud_queue_ = <<>> /\ point_cloud_queue_ = <<>>
  /\ process = "pop" /\ sending = 0
  /\ received = 0 /\ short = 0 /\ delivered = <<>>

\* start: the handling thread first, then the input's.
Start ==
  /\ main = "init"
  /\ main' = "wait"
  /\ handle' = "pop" /\ recv' = "select"
  /\ UNCHANGED <<to_exit_recv_, pkt_pool, msgs, k, received, short, to_exit_handle_, pkt_batch>>
  /\ UNCHANGED <<cloudVars, ringVars, dataVars>>

\* SIGINT, while main waits for it: one that comes before is lost.
sigHandler ==
  /\ main = "wait"
  /\ main' = "stop"
  /\ UNCHANGED <<recvVars, handleVars, cloudVars, ringVars, dataVars>>

\* stop of the input: the flag, then the join.  Mutant: no flag is set.
StopInputUnset ==
  /\ main = "stop"
  /\ main' = "join recv"
  /\ UNCHANGED <<recvVars, handleVars, cloudVars, ringVars, dataVars>>
StopInput ==
  /\ main = "stop"
  /\ to_exit_recv_' = TRUE
  /\ main' = "join recv"
  /\ UNCHANGED <<recv, pkt_pool, msgs, k, received, short>>
  /\ UNCHANGED <<handleVars, cloudVars, ringVars, dataVars>>

StopHandle ==
  /\ main = "join recv" /\ recv = "off"
  /\ to_exit_handle_' = TRUE
  /\ main' = "join handle"
  /\ UNCHANGED <<handle, pkt_batch, recvVars, cloudVars, ringVars, dataVars>>

\* The points of the unfinished cloud are cleared.
StopDriver ==
  /\ main = "join handle" /\ handle = "off"
  /\ points' = [points EXCEPT ![point_cloud_] = <<>>]
  /\ to_exit_process_' = TRUE
  /\ main' = "join process"
  /\ UNCHANGED <<content, point_cloud_, process, sending, delivered>>
  /\ UNCHANGED <<recvVars, handleVars, ringVars>>

StopSource ==
  /\ main = "join process" /\ process = "off"
  /\ main' = "down"
  /\ UNCHANGED <<recvVars, handleVars, cloudVars, ringVars, dataVars>>

\* The destructor stops again; its join throws, since the thread is joined.
Destroy ==
  /\ main = "down"
  /\ main' = "terminated"
  /\ UNCHANGED <<recvVars, handleVars, cloudVars, ringVars, dataVars>>
DriverEnded == main = "terminated" /\ UNCHANGED driverVars

-----------------------------------------------------------------------------
\* The receiving thread: before select it looks at the flag; a timeout or a
\* signal only repeats that, any other failure ends the thread.
Select ==
  /\ recv = "select"
  /\ \/ to_exit_recv_ /\ recv' = "off"
     \/ ~to_exit_recv_ /\ recv' \in {"refill", "off"}
  /\ UNCHANGED <<main, to_exit_recv_, pkt_pool, msgs, k, received, short>>
  /\ UNCHANGED <<handleVars, cloudVars, ringVars, dataVars>>

\* packetGet for the first slot of the pool that is empty.
packetGet ==
  /\ recv = "refill"
  /\ \E i \in 1..Vlen :
       /\ pkt_pool[i] = 0 /\ \A j \in 1..i - 1 : pkt_pool[j] # 0
       /\ IF free_pkt_queue_ = <<>>
          THEN /\ \E b \in Fresh(Buffers, BuffersHeld) : pkt_pool' = [pkt_pool EXCEPT ![i] = b]
               /\ UNCHANGED free_pkt_queue_
          ELSE /\ pkt_pool' = [pkt_pool EXCEPT ![i] = Head(free_pkt_queue_)]
               /\ free_pkt_queue_' = Tail(free_pkt_queue_)
  /\ UNCHANGED <<main, to_exit_recv_, recv, msgs, k, received, short, pkt_queue_>>
  /\ UNCHANGED <<free_point_cloud_queue_, point_cloud_queue_, handleVars, cloudVars, dataVars>>

\* The packets among the datagrams from i to j of a recvmmsg.
PacketsIn(lengths, i, j) == Cardinality({n \in i..j : lengths[n]})

\* recvmmsg fills the first buffers of the pool, or none when it fails: TRUE is
\* a datagram long enough.
recvmmsg ==
  /\ recv = "refill" /\ \A i \in 1..Vlen : pkt_pool[i] # 0
  /\ \E n \in 0..Vlen : \E lengths \in [1..n -> BOOLEAN] :
       LET Packets(i) == PacketsIn(lengths, 1, i) IN
       /\ received + Packets(n) <= MaxPackets /\ short + n - Packets(n) <= MaxShort
       /\ msgs' = lengths
       /\ content' = [b \in Buffers |->
            IF \E i \in 1..n : pkt_pool[i] = b
            THEN LET i == CHOOSE j \in 1..n : pkt_pool[j] = b
                 IN IF lengths[i] THEN received + Packets(i) ELSE 0
            ELSE content[b]]
       /\ received' = received + Packets(n) /\ short' = short + n - Packets(n)
  /\ k' = 1 /\ recv' = "push"
  /\ UNCHANGED <<main, to_exit_recv_, pkt_pool, handleVars, cloudVars, ringVars>>
  /\ UNCHANGED <<point_cloud_, points>>

\* The slot of a buffer that is pushed.  Mutant: it keeps the buffer.
PushedKept == pkt_pool
Pushed == [pkt_pool EXCEPT ![k] = 0]

\* packetPut of a packet; a short datagram's buffer stays in the pool.
packetPut ==
  /\ recv = "push" /\ k <= Len(msgs)
  /\ IF msgs[k] THEN pkt_queue_' = Append(pkt_queue_, pkt_pool[k]) /\ pkt_pool' = Pushed
     ELSE UNCHANGED <<pkt_queue_, pkt_pool>>
  /\ k' = k + 1
  /\ UNCHANGED <<main, to_exit_recv_, recv, msgs, received, short, free_pkt_queue_>>
  /\ UNCHANGED <<free_point_cloud_queue_, point_cloud_queue_, handleVars, cloudVars, dataVars>>

RecvNext ==
  /\ recv = "push" /\ k > Len(msgs)
  /\ recv' = "select" /\ msgs' = <<>> /\ k' = 0
  /\ UNCHANGED <<main, to_exit_recv_, pkt_pool, received, short>>
  /\ UNCHANGED <<handleVars, cloudVars, ringVars, dataVars>>

-----------------------------------------------------------------------------
\* Is there something for popBatch?  Mutant: only as much as it may take.
AvailableAll == Len(pkt_queue_) >= PacketBatch
Available == pkt_queue_ # <<>>

\* The handling thread, processPacket: the flag is looked at between batches.
popBatch ==
  /\ handle = "pop"
  /\ \/ /\ to_exit_handle_
        /\ handle' = "off"
        /\ UNCHANGED <<pkt_batch, pkt_queue_>>
     \/ /\ ~to_exit_handle_ /\ Available
        /\ LET n == IF Len(pkt_queue_) < PacketBatch THEN Len(pkt_queue_) ELSE PacketBatch
           IN /\ pkt_batch' = SubSeq(pkt_queue_, 1, n)
              /\ pkt_queue_' = SubSeq(pkt_queue_, n + 1, Len(pkt_queue_))
        /\ handle' = "packet"
  /\ UNCHANGED <<main, to_exit_handle_, free_pkt_queue_>>
  /\ UNCHANGED <<free_point_cloud_queue_, point_cloud_queue_, recvVars, cloudVars, dataVars>>

\* A packet that begins a frame splits the cloud before its own points are
\* added, unless the cloud is empty.
processMsopPkt ==
  /\ handle = "packet"
  /\ \E newFrame \in BOOLEAN :
       handle' = IF newFrame /\ points[point_cloud_] # <<>> THEN "split" ELSE "points"
  /\ UNCHANGED <<main, to_exit_handle_, pkt_batch, recvVars, cloudVars, ringVars, dataVars>>

\* splitFrame: the cloud is handed over,
splitFrame ==
  /\ handle = "split"
  /\ point_cloud_queue_' = Append(point_cloud_queue_, point_cloud_)
  /\ handle' = "cloud"
  /\ UNCHANGED <<main, to_exit_handle_, pkt_batch, free_pkt_queue_, pkt_queue_>>
  /\ UNCHANGED <<free_point_cloud_queue_, recvVars, cloudVars, dataVars>>

\* and replaced by one that the sender is done with, emptied, or by a new one.
getPointCloud ==
  /\ handle = "cloud"
  /\ \E cloud \in IF free_point_cloud_queue_ # <<>> THEN {Head(free_point_cloud_queue_)}
                   ELSE Fresh(Clouds, CloudsHeld) :
       point_cloud_' = cloud /\ points' = [points EXCEPT ![cloud] = <<>>]
  /\ free_point_cloud_queue_' =
       IF free_point_cloud_queue_ = <<>> THEN <<>> ELSE Tail(free_point_cloud_queue_)
  /\ handle' = "points"
  /\ UNCHANGED <<main, to_exit_handle_, pkt_batch, free_pkt_queue_, pkt_queue_>>
  /\ UNCHANGED <<point_cloud_queue_, content, recvVars, cloudVars>>

\* The packet's points, read from its buffer; the buffer is free again.
internalProcessPacket ==
  /\ handle = "points"
  /\ points' = [points EXCEPT ![point_cloud_] = Append(@, content[Head(pkt_batch)])]
  /\ free_pkt_queue_' = Append(free_pkt_queue_, Head(pkt_batch))
  /\ pkt_batch' = Tail(pkt_batch)
  /\ handle' = IF Len(pkt_batch) = 1 THEN "pop" ELSE "packet"
  /\ UNCHANGED <<main, to_exit_handle_, pkt_queue_, free_point_cloud_queue_>>
  /\ UNCHANGED <<point_cloud_queue_, content, point_cloud_, recvVars, cloudVars>>

-----------------------------------------------------------------------------
\* The sending thread, processPointCloud.  Mutant: a cloud that is taken from
\* the queue is free at once.
FreedWhenTaken(cloud) == free_point_cloud_queue_' = Append(free_point_cloud_queue_, cloud)
Freed(cloud) == UNCHANGED free_point_cloud_queue_

popWait ==
  /\ process = "pop"
  /\ \/ /\ to_exit_process_
        /\ process' = "off"
        /\ UNCHANGED <<sending, point_cloud_queue_, free_point_cloud_queue_>>
     \/ /\ ~to_exit_process_ /\ point_cloud_queue_ # <<>>
        /\ sending' = Head(point_cloud_queue_)
        /\ point_cloud_queue_' = Tail(point_cloud_queue_)
        /\ Freed(Head(point_cloud_queue_))
        /\ process' = "send"
  /\ UNCHANGED <<main, to_exit_process_, delivered, free_pkt_queue_, pkt_queue_>>
  /\ UNCHANGED <<recvVars, handleVars, dataVars>>

sendPointCloud ==
  /\ process = "send"
  /\ delivered' = delivered \o points[sending]
  /\ process' = "free"
  /\ UNCHANGED <<main, to_exit_process_, sending, recvVars, handleVars, ringVars, dataVars>>

FreeCloud ==
  /\ process = "free"
  /\ free_point_cloud_queue_' = Append(free_point_cloud_queue_, sending)
  /\ sending' = 0
  /\ process' = "pop"
  /\ UNCHANGED <<main, to_exit_process_, delivered, free_pkt_queue_, pkt_queue_>>
  /\ UNCHANGED <<point_cloud_queue_, recvVars, handleVars, dataVars>>

-----------------------------------------------------------------------------
MainNext == Start \/ StopInput \/ StopHandle \/ StopDriver \/ StopSource \/ Destroy
recvPacket == Select \/ packetGet \/ recvmmsg \/ packetPut \/ RecvNext
processPacket == popBatch \/ processMsopPkt \/ splitFrame \/ getPointCloud \/ internalProcessPacket
processPointCloud == popWait \/ sendPointCloud \/ FreeCloud
DriverNext == MainNext \/ sigHandler \/ DriverEnded \/ recvPacket \/ processPacket \/ processPointCloud

\* The scheduler runs every thread; select returns at least once a second.
DriverFairness ==
  /\ WF_driverVars(MainNext) /\ WF_driverVars(recvPacket)
  /\ WF_driverVars(processPacket) /\ WF_driverVars(processPointCloud)

DriverSpec == DriverInit /\ [][DriverNext]_driverVars /\ DriverFairness

-----------------------------------------------------------------------------
Disjoint(sets) == \A i, j \in DOMAIN sets : i # j => sets[i] \cap sets[j] = {}

\* No two parts of the program hold the same buffer, or the same cloud: packets
\* and clouds are recycled while other threads use theirs (packetGet, packetPut,
\* getPointCloud, processPointCloud).
OneOwner ==
  /\ \A i, j \in 1..Vlen : i # j /\ pkt_pool[i] # 0 => pkt_pool[i] # pkt_pool[j]
  /\ IsInjective(free_pkt_queue_) /\ IsInjective(pkt_queue_) /\ IsInjective(pkt_batch)
  /\ Disjoint(BuffersHeld)
  /\ IsInjective(free_point_cloud_queue_) /\ IsInjective(point_cloud_queue_)
  /\ Disjoint(CloudsHeld)

\* A sequence of the packets that follow the packet n.
Follow(packets, n) == \A i \in 1..Len(packets) : packets[i] = n + i
ContentOf(bufs) == [i \in 1..Len(bufs) |-> content[bufs[i]]]
Sending == IF process = "send" THEN points[sending] ELSE <<>>
Decoding == IF handle = "cloud" THEN <<>> ELSE points[point_cloud_]
Running == main \in {"init", "wait", "stop", "join recv", "join handle"}
\* The packets of the last recvmmsg from slot i of the pool on, when not pushed yet.
Unpushed(i) == IF recv = "push" THEN PacketsIn(msgs, i, Len(msgs)) ELSE 0

\* Until the driver is stopped, all packets that were received are in the
\* clouds that were sent, in those that wait, in the decoder's, or on their way
\* to it, each once and in the order they came (recvPacket to processPointCloud):
\* each of these begins where the one before ends.
NothingLost ==
  LET waiting == point_cloud_queue_
      pushed == received - Unpushed(k)
      popped == pushed - Len(pkt_queue_)
      decoded == popped - Len(pkt_batch)
      split == decoded - Len(Decoding)
  IN Running =>
       /\ Follow(delivered, 0) /\ Follow(Sending, Len(delivered))
       /\ \E ends \in [0..Len(waiting) -> 0..received] :
            /\ ends[0] = Len(delivered) + Len(Sending) /\ ends[Len(waiting)] = split
            /\ \A i \in 1..Len(waiting) :
                 /\ ends[i] = ends[i - 1] + Len(points[waiting[i]])
                 /\ Follow(points[waiting[i]], ends[i - 1])
       /\ Follow(Decoding, split)
       /\ Follow(ContentOf(pkt_batch), decoded) /\ Follow(ContentOf(pkt_queue_), popped)
       /\ recv = "push" =>
            \A i \in k..Len(msgs) :
              msgs[i] => content[pkt_pool[i]] = received - Unpushed(i + 1)

\* A signal ends the program, whatever the threads are at (stop).
SignalEnds == main = "stop" ~> main = "terminated"

\* While the program runs, each packet reaches the decoder's cloud, and with
\* the frame it belongs to the receiver of the clouds.
PacketsDecoded ==
  \A n \in 1..MaxPackets :
    received >= n ~> \/ main # "wait"
                     \/ n \in ToSet(points[point_cloud_]) \cup ToSet(delivered)

\* Buffers and clouds are each somebody's, and nothing in them gets lost.
BuffersAccounted == OneOwner /\ NothingLost

\* The threads serve the packets while the program runs, and let it end.
ThreadsServe == SignalEnds /\ PacketsDecoded
=============================================================================
