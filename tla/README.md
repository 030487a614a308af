# Verification of the WTB car's software

TLA+ models of the nodes that carry a velocity command from Autoware or Nav2 to
the chassis of the WTB car, of those that bring odometry, inertial measurements
and point clouds back, and of the localisation built on them; TLC configurations
that check them on small instances; and TLAPS proofs that hold for every value
of the constants.

## 1. The system

| Part | State it keeps | Operations | Talks to |
|---|---|---|---|
| `wtb_vehicle_interface` (`vehicle_interface.cpp`) | mode, gear, time of the last control command, last steering angle | `onControlCmd`, `onGearCmd`, `onCarStatus`, `onOdom`, `onControlModeRequest`, 100 ms `onTimer` | publishes `/twist_cmd` or `/cmd_vel`, `/run_static`, status reports |
| `wtb_car_node` (`wtb_car.cpp`), command side | gate `enable_run_`, time of the stop, last `/run_static` message, rolling counter | `CmdVelCallback`, `TwistCmdVelCallback`, `run_static_callback`, `stop` | publishes CAN frames on `can_rx_2` |
| `wtb_car_node`, feedback side | odometry pose, last speed and angle, battery | `can_tx_callback`, `CalculateAndPublished` | publishes `/car_odom`, `/wtb_car_message` |
| `can_bridge` (`can_bridge_node.cpp`) | `can_f`, `dwRel`, the receive thread | `Init_Can`, `can_receive_loop`, `can_rx_callback_1/2`, destructor | the USB-CAN box, `can_tx_1/2` |
| `fdilink_ahrs` (`ahrs_driver.cpp`) | serial parser, frame buffers, serial-number count | `processLoop`, `checkSN` | publishes the IMU topics |
| `rslidar_sdk`: decoders of `rs_driver` | the cloud of the running turn, split strategy, return mode, angles known or not | `processMsopPkt`, `processDifopPkt` for twenty lidars | clouds to the node |
| `rslidar_sdk`: node, threads, queues | pools of buffers and clouds, four `SyncQueue`s, exit flags | `start`, `recvPacket`, `processPacket`, `processPointCloud`, `stop`, `~SourceDriver` | sockets, point cloud topic |
| `rs_driver`: captured input | fragments of the running datagram | `Jumbo::new_fragment`, `InputPcap::recvPacket`, `InputSock::init` | capture files |
| `lslidar_driver` | last device packet, decoding or not, sweep, stamps | `poll`, `difopPoll`, `determineLidarType`, the services | the lidar's two ports, point cloud topic |
| `LIO-SAM` | queues of IMU messages, odometry and clouds; factor graph; key frames and their cached clouds | the handlers of `imageProjection`, `featureExtraction`, `imuPreintegration`, `mapOptmization`; the loop closing thread | each other, and Nav2 by the odometry |
| `common_sensor_launch` | cached point-cloud field offsets | per-message conversions | lidar topics, LIO-SAM |
| `my_navigation2/scripts` | goals, enable flag | gateway and traffic light scripts around Nav2's action | Nav2 |
| `serial` | | the serial port | `fdilink_ahrs` |

The nodes run as separate processes and interact through ROS 2 topics with
KEEP_LAST histories.  `wtb_vehicle_interface` spins one callback at a time.
`wtb_car_node` uses a multi-threaded executor, but all its subscriptions are in
the node's default, mutually exclusive callback group, so its callbacks do not
overlap either.  `can_bridge`, the two lidar drivers and the mapping of LIO-SAM
have threads of their own, which share members with more or fewer locks.

What makes the parts correct, and what is hard about them:

* **Interface**: a moving command must not outlive the commander (the watchdog
  in `onTimer`), leaving the autonomous modes must stop the car, and neither may
  be undone by a callback that runs later.  Hard: the order of commands, mode
  requests, gear changes and timer runs.
* **Driver, command side**: a stop closes the gate, the gate opens only on a
  start or after a time, and the chassis can trust the rolling counter.  Hard:
  the duplicate filter, two velocity topics behind one gate, topics that overflow.
* **Bridge**: the open flag means that both channels run, the bridge recovers
  from faults and unplugging, and the destructor returns.  Hard: a data race on
  `dwRel`, retries, shutdown at any moment.
* **Driver, feedback side**: the odometer follows the wheels and not the clock,
  the frame layout means the same both ways.  Hard: a system clock that is set
  while the car moves, two kinds of frames feeding one message object.
* **AHRS driver**: a message is made of one frame that was sent, losses are
  counted exactly, and the parser finds back after damage.  Hard: a fault at any
  byte, and a second one while the parser recovers; numbers that wrap around.
* **The whole path**: a halt is not overtaken by older commands, and a car whose
  commander falls silent comes to rest although frames are lost.
* **Lidar decoders**: a cloud is one turn, or one frame, with stamps and times of
  its own firings.  Hard: a turn that ends inside a packet, lost, damaged, late
  and dark packets, return modes that the decoder learns of late, and thirteen
  plus seven decoders that repeat each other with small differences.
* **rslidar node**: buffers and clouds have one owner, nothing is lost between
  threads, and a signal ends the process.  Hard: recycling by reference over four
  queues, joins of threads that wait.
* **lslidar driver**: a request changes the setting it names and no other; sweeps
  are turns.  Hard: whole configurations that are sent back from an old device
  packet, three threads that read one socket.
* **LIO-SAM**: points are turned by the rotation of their own time, odometry is
  integrated over each IMU message once, corners keep apart, and map, path and
  loops are of one solution.  Hard: queues on both sides of a scan, corrections
  that come late, arrays kept from cloud to cloud, a second thread that works on
  copies of poses while they are moved.

`PROJECT.json` lists every component, hazard, run, theorem and finding.

## 2. The modules

| Module | Models | How it corresponds to the code |
|---|---|---|
| `RosTopic` | a KEEP_LAST topic (external) | `Publish` drops the oldest message when full |
| `Watchdog` | abstract: what a command watchdog promises | arm, disarm, feed, stop, and time that never passes the deadline of a moving machine |
| `VehicleInterface` | `wtb_vehicle_interface` | one action per callback; `elapsed` is `now() - last_control_time_` |
| `CommandSilence` | the same with a history variable | `silence`: time since a control command was last accepted |
| `WtbCar` | `wtb_car_node`, command side | one action per callback; a send is a burst of three frames |
| `CanBridge` | `can_bridge` | one step per driver call, per test of its result, per poll and per store of `dwRel` |
| `DriveChain` | composition of `VehicleInterface` and `WtbCar` with a lossy link | the topics of one are the inputs of the other |
| `CtrlFrame` | the CAN frame of control and feedback | packing and unpacking of the eight bytes |
| `CarFeedback` | `wtb_car_node`, feedback side | one action per kind of frame; `dt` is `now() - last_time_` |
| `SerialNumber` | arithmetic on serial numbers | `++`, `- 1` and the gap of `checkSN` |
| `SerialCount` | `checkSN` over a stream of frames | one step per frame that arrives, is skipped or is lost, and per skip of what only looked like a frame |
| `AhrsDriver` | `processLoop` | one step per read; all that follows the read belongs to it |
| `LidarDecoder` | what the decoders share | operators on a record `d`: split strategies, block iterators, sections, stamps, the checks of a packet |
| `MechLidars`, `MemsLidars` | thirteen spinning and seven solid-state lidars | per lidar a record of its constants, and its DIFOP and MSOP operators |
| `MechDecoding`, `MemsDecoding` | a lidar, the network, and its decoder | one step per packet sent, lost, damaged or late |
| `Handover` | abstract: a queue between two threads | items taken once, in the order they were put |
| `SyncQueue` | `rs_driver`'s queue | one step per atomic load or store and per slot |
| `RsDriver` | the rslidar node's four threads | one step per access to a queue, per flag and per join |
| `LidarInput` | jumbo fragments, and ports | one step per fragment or datagram in the capture, and per lost fragment |
| `LslidarControl` | services and threads of the lslidar driver | one step per packet read, per copy of it, per setting and clearing of the flag, per timeout and per request |
| `LslidarSweep` | `LslidarDriver::poll`: sweeps and times | one step per packet |
| `LslidarPoints`, `LslidarStamp` | rings and cut-out angles; stamps of type 3 | operators over every parameter; one step per packet |
| `LioProjection` | `imageProjection.cpp`, and the times that `point_cloud_transformer.cpp` gives it | one step per callback; `Project` is the part of `cloudHandler` after the cloud left its queue |
| `LioPreintegration` | `imuPreintegration.cpp`: `IMUPreintegration`, `TransformFusion` | one step per callback |
| `LioFeatures` | `featureExtraction.cpp` | one step per cloud and per sector |
| `LioMapping` | `mapOptmization.cpp` | `laserCloudInfoHandler` in four steps, the loop thread in three, between which others may run |
| `...Proofs`, `Lemmas` | | theorems |
| `MC...` | | constants for TLC, and parts that share no state put side by side |

### Correspondence

**VehicleInterface.** Speeds and angles are integers in model units; the clamps
are the code's.  `publish_twist_cmd` is a parameter read at construction and so
an initial choice.  `onOdom` (a pure copy) and the gear report (a copy of
`current_gear_`) are left out.  `since_timer` is the time since the timer last
fired; the timer is assumed to run when due (`Tick` waits for it), so delays of
the executor are not part of the watchdog's bound.  `chassis_cmd` is a history
variable: the last command published, on whichever topic.

**WtbCar.** Speeds are in mm/s and angles in hundredths of a degree, the units
of the CAN frame.  The truncation to whole degrees and the cut to sixteen bits
are kept; bytes and checksum are in `CtrlFrame`.  `last_sent` and `last_topic` are
history variables: the last frame and the topic it answers.  `since_stop` is
`now() - enable_last_time`, `Unset` before the first stop.  The node takes `""`,
its initial value, for a repeated message; nobody sends it.

**CanBridge.** `Init_Can` is a sequence of five driver calls.  Each stores its
result in `dwRel` and then tests `dwRel`; a subscription callback may store the
result of a transmission in between.  That race is undefined behaviour, so a
test may see the member or the value the call returned; both happen in builds
without optimisation and with it.  Driver and box are external: a call can
succeed on a box that is there and was prepared by the calls before, and a
pulled box loses its state.  `Can_close`, `sendMsg1` and `sendMsg2` are never
called and have no action.

**DriveChain.** Both nodes over the topics between them, a publisher of "stop"
on `/run_static`, and a link to the chassis that loses frames while it is down,
which is what `CanBridge` leaves visible of the bridge: transmissions that fail
are not repeated.  Nav2 does not run beside Autoware, so the interface is the
only commander.

**CtrlFrame, CarFeedback.** The eight bytes with their half-byte borders and the
checksum, which nobody tests on the way back.  Control and feedback frames share
one layout, so `CtrlFrameBytes` also stands for the chassis that reports.
`x_` and `y_` are sums of steps of length `v * dt` along the heading; `path` is the
sum of the lengths, signed, and bounds both.  The heading is an integer, a half
turn is `HalfTurn`; `tan(delta) / WHEELBASE` is a table over the angles that occur.
`get_clock()` is the system clock: `SetClock` moves it either way.

**AhrsDriver, SerialCount.** The line carries tokens, not bytes: CRC8 and CRC16
are one token each, and the contents are a few tokens long.  Every fault is one
of a damaged token, a lost token, or a read that times out with part of what it
asked for.  Both checks are taken to detect every damage, and no content holds a
whole frame of its own, though one holds a byte like a frame's first.  Reading a
check value where a number is expected gives any noise byte; that it looks like a
frame's first byte, once the parser is misled, counts as a fault.
`serial_.read` throwing when the device disappears ends the process and is left
out.  `SerialCount` is the same count without the bytes.  A parsed frame whose header
is damaged, which CRC8 finds, counts as lost; the number of a skipped frame (`TYPE_GROUND`, 0x50)
is counted as it is read, with no check: the frame's own, any other after damage or a
read that timed out (`ground_sn` is not initialised), or a byte of something that only
looked like such a header (`SkipPhantom`).  Its `last_sn`, `anchored` and `counted` are `read_sn_`,
`frist_sn_` and `sn_lost_`, with names of their own so that one behaviour of the run
can be about the count or about the frames; `AnchorTypes` are the frame types whose
branch in `processLoop` sets `frist_sn_`.

**LidarDecoder, MechLidars, MemsLidars.** A decoder is a record, and an
operation maps it to the next.  Azimuths are parts of a `Round`, times are counted
in block durations.  A packet is what its bytes tell: blocks with azimuths, the
return mode, a stamp; a wrong block id is a place in it.  The twenty decoders
differ in how many blocks and channels they have, how they tell the return mode
and which of the six block iterators they use; these differences are kept, in
operators that several lidars share where their code is the same.  Of a point
remain the firing it is of and whether it is in the cloud: coordinates,
intensities, channel angles and temperatures are left out.  The lidar itself, with
its blind zone, its two ways of returning and its faults, is external.

**MemsDecoding.** `MemsSetup` says what the network may do to the numbers: come out of
order by less than `SeqRange`, those lost in a row included, or in order with fewer lost
in a row than that.  A datagram of `RSM1_Jumbo` has more numbers than may be missing
(63 against 10).  After one that is lost `prev_seq_` stays where it was until numbers
begin again; if the first datagram of the next frame is lost too, the first number seen
of that frame is again ahead of `prev_seq_`, and the two frames become one cloud.  The
code says nothing about such losses, so `RSM1_Jumbo` loses at most one datagram in the
model, and the case is listed with the hazard at `split_strategy.hpp:122`.

**RsDriver, SyncQueue, LidarInput.** Buffers and clouds are numbers; `content` and
`points` say what is in them, so that a buffer that two parts hold shows.  Between
the threads `RsDriver` uses what `Handover` promises, and `SyncQueue` shows that the
ring with its two atomic indices keeps that promise.  `RsDriver`'s queues are
never full.  DIFOP and IMU packets go the same way as MSOP packets and have no
step of their own.
`LidarInput` lets other hosts' datagrams come between, whole (`ReadOther`) or in
fragments (`ReadOtherFragment`): a first fragment takes over `ip_id_` and the buffer
(`jumbo.hpp:150-160`), and the lidar's datagram it displaces, or whose bytes it gets
mixed into, is `spoilt`.  `DatagramsRight` is about the others.

**LslidarControl.** A command carries the whole configuration, as the code sends
the last device packet back with one setting changed.  The settings kept are the
two ports, the motor's speed and the laser; the services that only set other bytes
behave as `motorSpeed` and `setDataPort` and are not repeated.  `difopPoll` reads a
packet, writes it to `difop_data` without a lock, takes from it what it tells of the
lidar and only then sets `is_get_difop_`: these are steps of their own (`ReadDifop`,
`CopyDifop`, `HandleDifop`, `determineLidarType`), and `fresh` is the packet in its hand.
A service tests the flag and copies `difop_data` (`TakeConfig`), then clears the flag and
sends (`Accept`).  One thread runs the services and nothing else clears the flag, so that
test and copy are one step; a copy made while `difopPoll` writes may have any mixture
of the two packets (`Readable`; the header's four bytes are the same in all).  `wanted`,
`disturbed` and `torn` are history variables: what was asked for; that a command was
lost, a packet outdated, or one in `difopPoll`'s hand when the flag was cleared, which
sets the flag again for a packet that may have been used; that a copy was a mixture.

**LslidarSweep, LslidarPoints, LslidarStamp.** A firing's number is its time and,
modulo `Turn`, its azimuth (`AzimuthOf`).  `FiringAt` says which firing a return of a
packet is of: in single return each of its own; in dual return (`return_mode` 2,
`decodePacket`) the blocks of a packet come in pairs of the same firings, and the
azimuth steps back by a block between the two of a pair.  `poll` takes a step for the
end of a turn only where it is nearly a whole turn, so a turn that ends in the first
block of a pair ends there for good: the second returns of the firings before go to
the next cloud (`Overhang`), and `TurnSize` counts them there.  The code gives each
return a time as if it were a firing, which is late or early by less than a block.
Publishing a cloud (`PublishCloud`) is a step of `poll`,
although the code leaves it to a detached thread.  `SpeedAssumption` relates packets,
the ten degrees in which `poll` recognises the step of the azimuth, and the ten
packets it does not look at after one; it holds of the lidars of 16 lines and more:
a C16 at 10 Hz sends about 85 packets of 384 firings in a turn.  A C32 at 5 Hz in dual
return is outside: its ten packets cover less than ten degrees.

**LioProjection.** A scan's points are one per tick; `between` is the pair of IMU
messages that a point's rotation is interpolated from.  Where the scan is stamped
(`StampedAt`) is a parameter, since drivers differ in it.

**LioPreintegration.** `integrated` and `factor.over` list the IMU messages that an
integrator was given.  The optimization is the new state, or a failure (impossible
speed or bias), and adds nothing else.  A scan's odometry goes out on two topics,
each of which may lose it.  IMU odometry is under way for at most `MaxDelay`,
below `MinLatency`, the time the mapping needs; without this assumption
`imuOdomQueue.front()` is read of an empty queue.

**LioFeatures.** Curvatures are three classes; a sector's sort leaves equal ones in
any order.  A cloud says how many points are before each ring (`before`), what the
curvatures are, and where gaps and occlusions are.  The arrays (`ArraySize` places)
are the code's, with what earlier clouds left in them.  Sectors and corners are
parameters.

**LioMapping.** Poses are places on a line.  A key frame's clouds stand for the true
place they were taken at, so matching moves the guess to where the clouds fit,
which is wrong by as much as the map is.  A loop's factor moves later key frames by
any of `Shifts`.  `mtx` is held over the four steps of a cloud (`step # "idle"`); the
loop thread takes it twice.  `astray` is a history variable: some cloud had neither
enough features nor odometry to go on from.  GPS factors are switched off in
`wtb_mapping_params.yaml`; `publishGlobalMap` and `saveMapService` only read.

## 3. The runs

Parts that share no state are checked side by side where one run can answer for
them: a variable chosen at the start says which one a behaviour is about.

| Run | Shows |
|---|---|
| `vehicle_interface` | the watchdog's bound (`WatchdogBound`); outside the autonomous modes the chassis was told to stand still (`ManualStandsStill`); refinement of `Watchdog` (`KeepsWatchdog`); a mode that lasts is reported (`ModeTracked`) |
| `chassis` | the gate's accounting (`GateClosedByStop`), what a closed gate keeps out (`ClosedGateHolds`), what reopens it (`ReopensForAReason`), consecutive rolling counters across overflow (`PendingFramesConsecutive`); heading and odometer against the clock (`PoseBounded`), every signal as it was meant and the last battery level (`ReportsFaithful`); the bridge's open flag (`OpenMeansRunning`), recovery (`BridgeRecovers`) and join (`JoinReturns`) |
| `drive_chain` | a halt is not overtaken (`HaltReachesChassis`); a silent commander's car comes to rest (`ComesToRest`) |
| `ahrs_driver` | no message is made of parts (`MessageIsSent`), a fault costs one frame more than the longest skip reaches into at most (`FaultsCostFrames`), messages come again (`FramesComeAgain`), the loss count is exact across the wrap-around, and off by at most a round per wrong number that a skip counts (`LossExact`) |
| `lidars` | clouds are turns, or blocks as requested, and the input thread splits alike (`TurnsSplit`); stamps and block times (`TimesRight`); solid-state frames (`FramesWhole`); lslidar's settings (`SettingsKept`), sweeps (`SweepsRight`), rings and cut-outs (`PointsRight`), stamps (`StampTrue`); decoding begins when data comes (`DecodingStarts`) |
| `lidar_driver` | one owner for every buffer and cloud and nothing lost between threads (`BuffersAccounted`); the queue's batches (`InOrder`) and its refinement of `Handover` (`HandsOver`); datagrams put together as far as other hosts' fragments leave them alone (`DatagramsRight`); packets get through while the node runs, and a signal ends it (`ThreadsServe`) |
| `lio_sam` | every point turned by the rotation of its time (`Deskewed`); prediction, factors and fusion over each message once (`OdometryExact`); corners apart (`CornersApart`); map, path and key frames of one solution (`MapOfOneSolution`), true loop factors (`LoopFactorsTrue`), an incremental odometry that no loop moves (`IncrementalTrue`) |

Five runs end in a counterexample; each is a disagreement between the code and
a comment or document beside it:

| Run | Counterexample |
|---|---|
| `command_silence` | repeating the mode request feeds the watchdog: the car moves on after control commands have ceased |
| `wtb_car_twist` | a message on `/twist_cmd` moves the car although the gate is closed |
| `can_bridge_race` | a transmission between a failing driver call and its test makes `Init_Can` report success with a channel down |
| `ahrs_borrowed` | an IMU message publishes the orientation of an AHRS frame that failed its check |
| `lio_deskew` | where a scan is stamped at its end, points are turned by the rotation of a time one scan too early |

### Bounds

* `vehicle_interface`: speeds and angles below, at and above the limits; timeout
  3 and period 2, so that the timeout falls between two timer runs; topics of
  depth 1, so that every second message overflows.  Ages saturate at `Horizon`,
  past which no guard and no property tells them apart.  Nothing else is bounded.
* `chassis`, command side: the real counter modulus 16 and a history of 4, which
  the second burst overflows; a threshold of 2 ticks.  Commands below, at and above
  the limit, in reverse, and with a fraction of a degree.  Feedback side: two clock
  changes, the longer one beyond `MAX_DT`; speeds below, at and above `MIN_SPEED`,
  turns that pass a half turn in one step and a full turn in two; signals around
  every border of half bytes, bytes and sign before time passes (`Extremes`).
  Bridge: 2 faults and 2 times unplugging let a second fault hit the retry of the
  first, and 3 frames race calls that succeed; faults and transmissions are kept
  apart here, because together they break the flag (`can_bridge_race`).  Receive buffers of 2
  tell empty, partly full and full apart.
* `drive_chain`: one moving command, two mode requests, one gear command, one
  external stop, one outage; topics of depth 1 and a frame history shorter than a
  burst.  One of each reaches every order of the hazards.
* `ahrs_driver`: contents of one to four tokens, all of different length as in the
  code; `Backlog` bounds the tokens that wait when the device sends, `longestSkip`
  stands for the 259 bytes that the largest length skips: more than four frames
  where two faults are allowed.  `debt`, the frames a fault has cost, saturates past
  the bound that is checked.  Serial numbers wrap around after three, and the
  losses go round once; two wrong numbers, of skipped frames or of none.
* `lidars`: a turn of 144 blocks and a blind zone of 18; behaviours end after
  `EndTime` firings, which is most of one turn, begun so that it holds the split
  angle; one fault anywhere, of the kinds `FaultsOf` names for each lidar.
  Solid-state frames of 15 packets (`SeqRange` 3 against 10), which are three datagrams
  of `RSM1_Jumbo`; four frames, three losses or one late packet.  lslidar: two requests, the
  second of which is the first that can undo another, and two packets in flight; four turns
  of 74 firings, in packets of four blocks of three returns, in single and in dual return,
  with one packet lost anywhere; every pair of ranges on a circle of
  six azimuths; stamps through three changes of the second.
* `lidar_driver`: three packets in a pool of two buffers and batches of two, so that
  buffers are recycled and batches are cut; a ring of four slots that eight items go
  round twice; two datagrams of three
  fragments with two datagrams or fragments of other hosts among them, of any of the four
  ids, at any offset; ids that wrap around.
* `lio_sam`: four scans at every offset to the IMU messages; eight IMU messages
  with the graph begun anew at the third key; two clouds of rings of four to six
  points in two sectors; four clouds, one loop information, and a cache of two.
  `lio_deskew` is the first of these with `StampedAt` at the end of the scan.

### Fairness

* `FairSpec` (`VehicleInterface`): time passes and the executor runs a due timer
  (`rclcpp::spin`).  No callback that depends on somebody else is fair.
* `BridgeFairness`: the receive thread and a callback that has returned from the
  driver are scheduled, and a box that was pulled out is plugged in again; no
  fairness for frames, faults or shutdown.
* `FairChainSpec`: timer, time, each of the driver's three subscriptions (the
  executor serves ready subscriptions in turn), the bridge, and the end of an
  outage.  Commands, requests and stops are not fair.
* `SerialSpec`: the loop runs, and the device streams its frames again and again.
  Strong fairness, because the line may be full now and then.  Faults are not fair.
* `ControlFairness`: the lidar sends, its packets arrive, the threads run;
  `determineLidarType` is strongly fair among the threads that read one socket.
  Requests and losses are not fair.
* `DriverFairness`: the scheduler runs each of the four threads; `select` times out
  after a second.  Packets and the signal are not fair.

Deadlock is checked where a program only stops at an explicit step (`CanBridge`
ends in `Ended`).  `lidars`, `lidar_driver`, `lio_sam` and `lio_deskew` stop where
their inputs are used up and do not check it; what must go on there is said by
`DecodingStarts` and `ThreadsServe`.

## 4. The proofs

All proofs are for every value of the constants under the assumptions named in the
modules: limits are naturals, the timer period and the depths are positive, commands
are integers; the stop threshold may be negative.  Each theorem rests on an inductive
invariant, checked with TLC before it was proved; its conjuncts are named, and the
proof has one lemma for each action or each part that an action can disturb.

* `VehicleInterfaceProofs`.  `TypeCorrect` includes that every command on a
  chassis topic is within the limits.  `WatchdogBound` is not inductive, because
  `Tick` could age a command beyond the bound: the invariant has to say that a
  command older than the timeout is tolerated only since the last timer run.
  `IInv == TypeOK /\ ManualStandsStill /\ FreshUntilTimer` does, and
  `WatchdogBounded` and `ManualIsStill` follow from it.  `WatchdogImplemented`
  proves the refinement of `Watchdog` step by step: commands feed, autonomous
  requests arm, the manual request disarms, the timer and PARK or NEUTRAL stop,
  everything else stutters; the tick uses `FreshUntilTimer`.
* `ChassisProofs`, the driver's command side.  `CarTypeCorrect`: whatever integers are
  commanded, every frame fits the fields of the protocol (`SendTyped` over the burst,
  `PublishKeepsTopic` for the topic).  `GateAccounted` rests on `GateInv`, which adds
  that an age is unset or a number, so that growing older cannot make a recorded stop
  unset.  `ReopenJustified` is an action property.  `GateHolds` excepts a command on
  `/twist_cmd`; `wtb_car_twist` shows that the exception is needed.
  `CounterContinues`: the topic is a chain that ends in the newest frame
  (`EndsIn`), each of a burst's three publications extends it and may drop its
  oldest frame (`PublishKeepsChain`), and the counter that comes next follows the
  newest frame's (`CounterFollows`), for any modulus (`NextRemainder`).
* `ChassisProofs`, the bridge.  `OpenIsRunning` assumes `Quiet`: nothing is transmitted,
  so every test of `Init_Can` sees the result of its own call.  The invariant follows
  the receive thread: before or after its k-th call, the calls before it having
  prepared a box that is still open (`Prepared`), or polling, with all five behind it
  when the flag is set.  `can_bridge_race` shows that the assumption is needed.
* `ChassisProofs`, the driver's feedback side.  `PoseIsBounded`, for every set of
  reports, every curvature, `MAX_DT` and `MIN_SPEED`: the heading, because the loops
  that bring it into one turn end there, and the odometer, because what it went and
  what the next step may still add stay behind the wheels and one limited step for
  each clock change (`PathBehind`).  `ReportsAreFaithful` is an action property: bytes
  and half bytes are quotients and remainders, and putting them together gives the
  number back, for every speed and angle of sixteen bits.
* `DriveChainProofs`.  `HaltArrives`: the command published last is the newest on its
  way (`CommandOnItsWay`), which needs that the interface uses one of the two topics
  only (`OneTopic`), or the frame sent last stops the car (`HaltSent`) and is itself
  the newest on its way or obeyed (`FrameOnItsWay`, unless the link was ever down).
  A command that a closed gate drops is no exception, because a gate that is closed
  was closed by a stop (`ClosedGateHolds`).
* `AhrsProofs`, the frames.  `MessagesAreSent`, for contents of any length, any number of
  faults and any look-alikes: on the line the check value of a header is followed by
  that of a content of its type, unless that one is lost or damaged (`Paired`), so a
  pair of checks that both succeed is of one frame, and the content that is checked is
  the one that was sent.  `LineAssumption` says that lengths and types are bytes and
  contents are made of bytes.
* `AhrsProofs`, the count, for numbers of any width.  `LossExact` is not inductive: the
  next frame adds the distance to the last number, so the invariant must say that
  the distance from the last frame that arrived is the number of frames lost since
  (`GapMeasured`, with `MissingOneMore` as its arithmetic) and that a gap is shorter
  than a round.  A wrong number leaves `read_sn_` away from the truth, so `ExcessInv` keeps
  what the count is off by equal to that distance, up to whole rounds; a right number
  closes the distance, and `WholeRounds` gives the bound of one round per wrong number.
  What is counted before a frame sets `read_sn_`, which starts at 0, says nothing of
  losses and is kept apart (`before`), so `LossesCounted` holds whatever comes first.
* `LidarDriverProofs`, the queue, for every capacity and every size of a batch.
  `QueueInv` says what the two threads leave each other between their accesses: the
  slots between the indices hold the items after the last one taken (`Queued`), a
  push that passed its test keeps its room although the other thread moves `head_`
  (`Pushing`), a pop copies no more than was there when it looked (`Popping`).  From
  it follow `QueueInOrder`, and `QueueHandsOver`: `PushStore` is `Handover`'s `Put`,
  `PopStore` its `Take`, and every other step stutters.
* `LidarDriverProofs`, the threads.  `BuffersAreAccounted`, for every pool and batch: a
  buffer is in one queue or in the hand of one thread (`InHand`, `BuffersApart`,
  `CloudsApart`), and while the driver runs, there is a number of packets such that the
  clouds hold those before it and the buffers those after it, each in order, part by
  part along their way (`Accounted`).
* `LidarDriverProofs`, captured input.  `DatagramsAreRight`, for any number of fragments
  and of IP ids, and any that other hosts send.  A datagram is spoilt if another host's
  fragment does one of three things that `Jumbo` cannot tell from the lidar's own
  (`SpoiltBy`): it has the id of one still to come, it is a first fragment while one is
  being received, or it has the id that `buf_` is held under.  `OtherOutcome` shows that
  these three are all: of an unspoilt datagram `buf_` holds the beginning and no more
  (`Collected`, `Awaited`), and all that has come while nothing was lost (`Unbroken`); what
  was returned of it is whole and returned once (`Returned`), and what was intact was
  returned (`Complete`).
* `LidarDriverProofs`, the solid-state decoders.  `FramesAreWhole`, for any number of packets
  in a frame and in a jumbo datagram, any `SeqRange` and any number of losses that
  `MemsSetup` allows.  `FramesInv` says where the decoder is behind the lidar: nothing was
  decoded yet (`AtStart`), or packet `ns` of frame `nf` was the last one (`Reached`), with
  fewer than `SeqRange` numbers between it and the next to be sent (`OnTrack`); the packet
  that is late is in that gap, or was overtaken by fewer than `SeqRange` (`HeldWith`).
  `prev_seq_` is then the number of `ns`, whatever came late, and tells the next packet
  from one of the next frame (`SeqAnswers`).  After a lost datagram of `RSM1_Jumbo` the
  decoder is behind until numbers begin again (`Behind`), which holds for one loss only:
  the attempt to prove it for two showed how two frames become one cloud.  The recursive
  functions over a packet's blocks and a datagram's packets are shown to exist.
* `LslidarProofs`.  `StampsTrue`, for every resolution of time: a second that
  is late or early by less than a tenth is the packet's own, or the one before
  while the packet is in the first tenth, or the one after while it is in the last
  (`SecondsNearby`), and `Behind` and `Ahead` tell these three apart as long as
  packets come within a fifth of a second (`CorrectedTrue`).  `RoomAssumption` names
  the two limits, which are those `poll` tests for.  `SettingsAreKept`: while nothing
  was disturbed, the settings are those that were asked for, or one command that makes
  them so is on its way, and whoever holds a copy of a device packet holds the
  settings themselves (`Undisturbed`); no command is on its way while the flag is set or
  `difopPoll` has a packet in hand.  `SweepsAreRight`: there is a turn boundary `b`
  that the sweep began at; `last_azimuth` tells how far after it the last packet was
  looked at, or the packets since are too few for another turn (`Located`), and the
  running cloud has exactly the returns since `b` that came, the published one those of
  the turn before, in dual return each with what is left over of the turn before its own
  (`Gathered`).  What dual return needs is where a packet's firings are (`PacketFirings`),
  which return is the first of a firing (`IndexIs`), and that this is the same in every
  packet (`LagStays`).  It needs `SpeedAssumption`: without it the step of the
  azimuth could fall in a packet that `poll` does not look at.  `PointsAreRight`: while
  the sorted ranges are merged, the list so far covers what they do, and its last range
  begins before all that are to come (`MergedSoFar`, by induction over the list); a
  difference of angles is that of their remainders, or a turn more
  (`DifferenceModulo`); rings are quotients and remainders of a firing's number
  (`SteppedRings`).  Ranges that switch each other off are excepted, as in the property.
* `LioProofs`, the mapping.  `MappingInv`: the cached clouds, the path and the key frames
  are of the solution that is current or about to be (`MapInv`); the copies of the loop
  thread keep their times, though their poses are moved, and a loop's factor is the
  true way (`LoopInv`); pose, odometry and guess are wrong by the same amount, which is
  why the difference that the incremental odometry adds is not (`WayInv`).  From these
  `MapIsOfOneSolution`, `LoopFactorsAreTrue` and `IncrementalIsTrue`.
* `LioProofs`, the odometry.  `OdometryIsExact` rests on `LioInv`: the queues hold the
  messages from a correction on without a gap (`QueuesWhole`), the prediction is over
  all messages since the last correction (`PredictionWhole`), a factor over those
  between the two it joins (`FactorTrue`), and IMU odometry is in order and older than
  what is still to come (`FusionInOrder`), which uses `MaxDelay < MinLatency`.
* `LioProofs`, the projection.  `PointsAreDeskewed` assumes `StampedAt = 0`, clouds that
  are stamped at the start of their scan, and a margin around the scan no shorter than
  the period of the IMU; `lio_deskew` shows that it is false for the other stamp.
* `LioProofs`, the features.  `CornersAreApart`, for clouds of any size, any parameters and
  every order a sort by value may give, rests on `FeaturesInv`: the entries up to the
  frontier of the cloud at work are its own, what corners shut out stays picked, labels
  are kept, and the surface ends behind them.  The first place of the arrays may have
  an entry of an earlier cloud, and is met only while there is no surface yet.  What the
  two loops over a sector pick is shown by induction over its entries (`Kept`), with
  `Lemmas`' `Induction`; so is that the recursive functions that model them exist.
* `Lemmas` holds what these share: facts about topics, quotients and remainders, and
  `Induction` (a set that has 0 and every successor of its members has all naturals),
  from the library's fact that the naturals are well founded.

Model-checked only:

* every liveness property (the proof system has no rules for fairness): `ModeTracked`,
  `BridgeRecovers`, `JoinReturns`, `ComesToRest`, `FramesComeAgain`, `DecodingStarts` and
  `ThreadsServe`;
* `FaultsCostFrames`: its invariant would have to follow the parser through every state
  it can be misled into, and a bound on each;
* `TurnsSplit` and `TimesRight`: the spinning lidars' decoders go through the blocks of
  a packet one by one, and an invariant would be needed for each of thirteen lidars.

Operators whose comment says *Mutant* are faults a programmer could make; putting
one in place of the definition after it must make the property named in
`PROJECT.json` fail, which shows that the property depends on that code.

## 5. Not modelled

* Floating-point rounding, message stamps and reports that copy a value, logging.
* `fdilink_ahrs`: the CRC tables, which fields of a frame go into which message,
  `imu_tf` (a message copied into a transform).
* `rs_driver`: coordinates, intensities, channel angles, IMU packets, the device's
  temperature and versions; input by epoll, which is not built; the repetition and
  the pace of capture files.
* `rslidar_sdk`: clearing a full packet queue (`lidar_driver_impl.hpp:405`).  It takes
  a queue full of packets while its only consumer is between two accesses, and the
  model counts fewer packets; it is listed as a hazard without a property.
* `lslidar_driver`: coordinates, laser scans, the publishing threads, capture files.
  A lidar that was powered off before the driver started is listed with its hazard:
  `powerOn` is refused until `determineLidarType` has seen a data packet, which
  that lidar does not send.
* `LIO-SAM`: the solver, the surface and corner fits, the geometry of the range
  image, GPS factors and `simpleGpsOdom` (switched off in the parameters),
  `publishGlobalMap` and `saveMapService`, which only read.
* `common_sensor_launch`: field offsets and the conversion to Autoware's point
  type; a script that publishes an empty message periodically.
* `wtb_car_only.cpp`, an older variant of the driver that no launch file starts.
* The navigation scripts: the gateway raises in its constructor, which calls
  `wait_for_server` on a service client; the traffic light scripts are experiments
  driven by hand.
* The `serial` library (third-party; `AhrsDriver` models a read with a timeout),
  launch files, parameters, robot description and maps.

## 6. Plan

1. `CarLoop`: compose `WtbCar`, `CtrlFrame` and `CarFeedback`, with `onCarStatus` of
   `VehicleInterface`.  Properties: signs of angles in reverse over the whole loop,
   what the interface reports while the car stands.
2. Compose `CanBridge` itself into `DriveChain` in place of the lossy link, and
   show that the link is an abstraction of it.
3. `AhrsDriver` refines `SerialCount`: `read_sn_`, `frist_sn_` and `sn_lost_` are the
   same, parsed frames that fail their header are lost, skipped ones are counted unchecked.
4. Compose `LioPreintegration` and `LioMapping`: the correction that the one takes
   is the odometry of the other, with the mapping's own latency.
5. Proofs: `FaultsCostFrames`, and the turns and times of the decoders.
