----------------------------- MODULE CanBridge -----------------------------
(***************************************************************************)
(* can_bridge_node: two threads around one USB-CAN box with two channels.  *)
(*   - The executor's thread runs can_rx_callback_1/2: one VCI_Transmit    *)
(*     per frame, its result stored in dwRel.                              *)
(*   - The receive thread wakes every 50 ms, and either polls both channels*)
(*     or, when can_f is 0, runs Init_Can again.                           *)
(* Init_Can stores each driver call's result in the same member dwRel and  *)
(* then tests dwRel, without a lock: a data race with the other thread.    *)
(* Each access of dwRel is a step of its own, and a test may see either    *)
(* the member or, where the compiler kept it, the result just returned.    *)
(* The box and its driver (controlcan.h) are external.                     *)
(***************************************************************************)
EXTENDS Naturals, Sequences

CONSTANTS
  Budgets,     \* bounds a behaviour may start with: [faults, unplugs, frames]
  RxSize       \* receive buffer of a channel of the box

ASSUME BridgeAssumption ==
  /\ Budgets \subseteq [faults : Nat, unplugs : Nat, frames : Nat]
  /\ RxSize \in Nat \ {0}

Channels == {1, 2}

VARIABLES
  dwRel, can_f,             \* members of the node
  pc,                       \* receive thread (before spin: the constructor)
  callback,                 \* executor thread: idle, or a result not yet stored
  spinning, ok,             \* constructor returned; rclcpp::ok()
  plugged, opened, inited, started, rx,  \* the box: buffered frames per channel
  publishing,               \* channels whose last poll published frames
  faults,                   \* driver calls still to fail with the box plugged in
  unplugs,                  \* times the box is still to be pulled out
  frames                    \* frames the executor's thread is still to transmit

box == <<plugged, opened, inited, started>>
bounds == <<faults, unplugs, frames>>
bridgeVars == <<dwRel, can_f, pc, callback, spinning, ok, box, rx, publishing, bounds>>

Idle == [state |-> "idle"]
Storing(result) == [state |-> "store", result |-> result]

\* Init_Can's calls in program order; Call(k) stores dwRel, Test(k, result)
\* tests it after the call returned result.
\* Mutant: the last call, which starts channel 2, is missing.
CallsToInit2 == <<"open", "init1", "start1", "init2">>
Calls == <<"open", "init1", "start1", "init2", "start2">>
Call(k) == <<"call", Calls[k]>>
Test(k, result) == <<"test", Calls[k], result>>
ChannelOf == [init1 |-> 1, start1 |-> 1, init2 |-> 2, start2 |-> 2]

BridgeInit ==
  /\ dwRel \in {0, 1}         \* uninitialised member
  /\ can_f = 0
  /\ pc = Call(1)
  /\ callback = Idle
  /\ spinning = FALSE /\ ok = TRUE
  /\ plugged \in BOOLEAN /\ opened = FALSE
  /\ inited = {} /\ started = {}
  /\ rx = [c \in Channels |-> 0] /\ publishing = {}
  /\ \E b \in Budgets : faults = b.faults /\ unplugs = b.unplugs /\ frames = b.frames

-----------------------------------------------------------------------------
\* The driver: a call can succeed on a box that is there and was prepared for
\* it, and as often as faults allows fails nevertheless.

CanSucceed(call) ==
  /\ plugged
  /\ call # "open" => opened
  /\ call \in {"start1", "start2"} => ChannelOf[call] \in inited

Succeed(call) ==
  /\ CanSucceed(call)
  /\ opened' = TRUE
  /\ inited' = IF call \in {"init1", "init2"} THEN inited \cup {ChannelOf[call]} ELSE inited
  /\ started' = CASE call \in {"init1", "init2"} -> started \ {ChannelOf[call]}
                  [] call \in {"start1", "start2"} -> started \cup {ChannelOf[call]}
                  [] OTHER -> started
  /\ dwRel' = 1
  /\ UNCHANGED <<plugged, bounds>>

Fail(call) ==
  /\ CanSucceed(call) => faults > 0
  /\ faults' = IF CanSucceed(call) THEN faults - 1 ELSE faults
  /\ dwRel' = 0
  /\ UNCHANGED <<box, unplugs, frames>>

-----------------------------------------------------------------------------
\* Receive thread: Init_Can.

\* Init_Can returns: to the constructor, which starts the thread, or to the loop.
Return == pc' = <<"loop">> /\ spinning' = TRUE

CallDriver(k) ==
  /\ pc = Call(k)
  /\ Succeed(Calls[k]) \/ Fail(Calls[k])
  /\ pc' = Test(k, dwRel')
  /\ UNCHANGED <<can_f, callback, spinning, ok, rx, publishing>>

TestResult(k, result) ==
  /\ pc = Test(k, result)
  /\ \E seen \in {result, dwRel} :
       \/ /\ seen # 1
          /\ can_f' = 0
          /\ Return
          /\ UNCHANGED rx
       \/ /\ seen = 1 /\ k < Len(Calls)
          /\ pc' = Call(k + 1)
          /\ rx' = IF k = 1 THEN [c \in Channels |-> 0] ELSE rx   \* VCI_ClearBuffer
          /\ UNCHANGED <<can_f, spinning>>
       \/ /\ seen = 1 /\ k = Len(Calls)
          /\ can_f' = 1
          /\ Return
          /\ UNCHANGED rx
  /\ UNCHANGED <<dwRel, callback, ok, box, publishing, bounds>>

\* Receive thread: the condition of the loop in can_receive_loop.
\* Mutant: while (true).
CheckNothing ==
  /\ pc = <<"loop">> /\ pc' = <<"sleep">>
  /\ UNCHANGED <<dwRel, can_f, callback, spinning, ok, box, rx, publishing, bounds>>
CheckOk ==
  /\ pc = <<"loop">>
  /\ pc' = IF ok THEN <<"sleep">> ELSE <<"done">>
  /\ UNCHANGED <<dwRel, can_f, callback, spinning, ok, box, rx, publishing, bounds>>

\* It wakes after 50 ms and runs can_receive_parse, still ok or not.
Wake ==
  /\ pc = <<"sleep">>
  /\ pc' = IF can_f = 0 THEN Call(1) ELSE <<"receive", 1>>
  /\ UNCHANGED <<dwRel, can_f, callback, spinning, ok, box, rx, publishing, bounds>>

\* What is polled after channel c.  Mutant: one channel too many.
PollAfterAll(c) == <<"receive", c + 1>>
PollAfter(c) == IF c = 1 THEN <<"receive", 2>> ELSE <<"loop">>
\* The open flag when polling c failed.  Mutant: the loss goes unnoticed.
NeverLost(c) == can_f
AfterLoss(c) == IF c = 1 THEN 0 ELSE can_f

\* VCI_Receive empties the buffer (it holds less than the 2500 frames one call
\* fetches) or returns -1 when the box is gone, which only channel 1 notices.
Receive(c) ==
  /\ pc = <<"receive", c>>
  /\ \/ /\ opened
        /\ rx' = [rx EXCEPT ![c] = 0]
        /\ publishing' = IF rx[c] > 0 THEN publishing \cup {c} ELSE publishing \ {c}
        /\ pc' = PollAfter(c)
        /\ UNCHANGED can_f
     \/ /\ ~opened
        /\ can_f' = AfterLoss(c)
        /\ pc' = <<"loop">>
        /\ publishing' = publishing \ {c}
        /\ UNCHANGED rx
  /\ UNCHANGED <<dwRel, callback, spinning, ok, box, bounds>>

ReceiveThread ==
  \/ \E k \in 1..Len(Calls) :
       CallDriver(k) \/ \E result \in {0, 1} : TestResult(k, result)
  \/ CheckOk
  \/ Wake
  \/ \E c \in Channels : Receive(c)

-----------------------------------------------------------------------------
\* Executor thread: can_rx_callback_1/2 transmit one frame, whatever can_f
\* says; the result goes to dwRel when the call has returned.
Transmit(c) ==
  /\ spinning /\ ok /\ callback = Idle
  /\ frames > 0 /\ frames' = frames - 1
  /\ callback' = Storing(IF plugged /\ opened /\ c \in started THEN 1 ELSE 0)
  /\ UNCHANGED <<dwRel, can_f, pc, spinning, ok, box, rx, publishing, faults, unplugs>>

StoreResult ==
  /\ callback.state = "store"
  /\ dwRel' = callback.result
  /\ callback' = Idle
  /\ UNCHANGED <<can_f, pc, spinning, ok, box, rx, publishing, bounds>>

-----------------------------------------------------------------------------
\* The environment: the box is pulled out and plugged in again, frames arrive
\* from the bus, the process is asked to stop.
Unplug ==
  /\ plugged /\ unplugs > 0
  /\ plugged' = FALSE /\ opened' = FALSE /\ inited' = {} /\ started' = {}
  /\ rx' = [c \in Channels |-> 0]
  /\ unplugs' = unplugs - 1
  /\ UNCHANGED <<dwRel, can_f, pc, callback, spinning, ok, publishing, faults, frames>>

Plug ==
  /\ ~plugged /\ plugged' = TRUE
  /\ UNCHANGED <<dwRel, can_f, pc, callback, spinning, ok, opened, inited, started,
                 rx, publishing, bounds>>

BusFrame(c) ==
  /\ c \in started /\ rx[c] < RxSize
  /\ rx' = [rx EXCEPT ![c] = @ + 1]
  /\ UNCHANGED <<dwRel, can_f, pc, callback, spinning, ok, box, publishing, bounds>>

Shutdown ==
  /\ ok /\ ok' = FALSE
  /\ UNCHANGED <<dwRel, can_f, pc, callback, spinning, box, rx, publishing, bounds>>

\* The process has ended; nothing else is expected to happen.
Ended == pc = <<"done">> /\ UNCHANGED bridgeVars

BridgeNext ==
  \/ ReceiveThread
  \/ \E c \in Channels : Transmit(c) \/ BusFrame(c)
  \/ StoreResult \/ Unplug \/ Plug \/ Shutdown \/ Ended

BridgeSpec == BridgeInit /\ [][BridgeNext]_bridgeVars
\* Threads are scheduled, and a box that was pulled out is plugged in again.
BridgeFairness == /\ WF_bridgeVars(ReceiveThread)
                  /\ WF_bridgeVars(StoreResult)
                  /\ WF_bridgeVars(Plug)
FairBridgeSpec == BridgeSpec /\ BridgeFairness

-----------------------------------------------------------------------------
\* can_bridge_node.cpp:398, "device open state, 0: closed, 1: open": a node that
\* believes the box open, on a box still open, has both channels running.
OpenMeansRunning == can_f = 1 /\ opened /\ pc[1] # "call" /\ pc[1] # "test" => started = Channels

\* Faults and unplugging are finite, and after the last of them the node ends
\* up polling an open box whose two channels both run, unless it is stopped.
Running == can_f = 1 /\ opened /\ started = Channels
EventuallyRunning == <>[](Running \/ ~ok)

\* The destructor's join returns: however Init_Can and polling interleave, the
\* receive thread sees rclcpp::ok() become false.
JoinReturns == ~ok ~> pc = <<"done">>
=============================================================================
