--------------------------- MODULE SchedulingLayer ---------------------------
(***************************************************************************)
(* The scheduling layer of a server: the demultiplexer hands the packets   *)
(* of the upper layer to the VOQ of their destination, the controller      *)
(* creates VOQs on demand and removes idle ones, the scheduling algorithm  *)
(* sets their rates as a file says (ScheduleFromFile) and may send         *)
(* scheduling packets.  Demultiplexer and multiplexer connect VOQs to      *)
(* their gates by the same code at the same time, so one set of gates      *)
(* stands for both.                                                        *)
(*                                                                         *)
(* A simulation runs one handler at a time; those of one instant come in   *)
(* any order.  The times of the schedule are not modelled, only their      *)
(* order.                                                                  *)
(***************************************************************************)
EXTENDS VirtualOutputQueue, FiniteSets

CONSTANTS
  Dests,             \* the other servers
  Rates,             \* rates in the file of the schedule, in bits per tick
  MinVOQSendRate,    \* the rate of a new VOQ
  PktBits,           \* size of the packets
  ScriptLines,       \* bound: lines of the schedule for this server
  MaxQueue,          \* bound: packets of a VOQ when a scheduling packet is sent
  MaxDebt            \* bound: bits a VOQ has sent in advance

ASSUME SchedulingAssumption ==
  /\ Dests \subseteq Nat
  /\ Rates \subseteq Nat /\ MinVOQSendRate \in Nat
  /\ PktBits \in Nat \ {0}
  /\ \A r \in (Rates \cup {MinVOQSendRate}) \ {0} : PktBits % r = 0

None == -1    \* no gate, no packet, not scheduled

VARIABLES
  options,          \* accounting of scheduling packets, never changed
  scheduledRates,   \* messages of the schedule still to come, the next one last
  voqMap,           \* the VOQs, by destination
  voqGates,         \* gates of the demultiplexer, None once the VOQ is removed
  freeVoqGates,     \* gates without a VOQ, latest first
  arriving,         \* packet from the demultiplexer to the VOQ of a destination
  timeoutIn,        \* ticks until CheckVOQTimeoutEvent_, or None
  stopped           \* the simulation stopped: a new VOQ's gate was connected

layer == <<voqMap, voqGates, freeVoqGates, timeoutIn, stopped>>
vars == <<options, scheduledRates, arriving, layer>>

(* parseScript(): the lines for this server, last first.                   *)
Schedules ==
  UNION {[1 .. n -> [destination : Dests, rate : Rates]] : n \in 0 .. ScriptLines}

Init ==
  /\ options \in Options
  /\ scheduledRates \in Schedules
  /\ voqMap = << >>
  /\ voqGates = << >>
  /\ freeVoqGates = << >>
  /\ arriving = None
  /\ timeoutIn = None
  /\ stopped = FALSE

With(f, d, x) == [e \in DOMAIN f \cup {d} |-> IF e = d THEN x ELSE f[e]]
Without(f, D) == [e \in DOMAIN f \ D |-> f[e]]

(* connectToVoq(): a free gate, or one behind those counted by the map,    *)
(* which may be connected: removed VOQs keep their entries.                *)
NewGate == IF freeVoqGates = << >> THEN Cardinality(DOMAIN voqGates) ELSE Head(freeVoqGates)

(* The multiplexer's gates go the same way as the demultiplexer's.          *)
ConnectToVoq(d) ==
  /\ stopped' = \E e \in DOMAIN voqMap : voqGates[e] = NewGate
  /\ voqGates' = With(voqGates, d, NewGate)
  /\ freeVoqGates' = IF freeVoqGates = << >> THEN << >> ELSE Tail(freeVoqGates)

(* scheduleVoqTimeout(), called for the first VOQ.                         *)
ArmTimeout(size) ==
  timeoutIn' = IF VOQTimeout > 0 /\ size = 1 THEN VOQTimeout ELSE timeoutIn

(* disconnectFromVoq() of the demultiplexer for each removed VOQ, and of   *)
(* the multiplexer: its gate becomes the first one of the free list.       *)
Disconnected(D) == [d \in DOMAIN voqGates |-> IF d \in D THEN None ELSE voqGates[d]]
Freed(order) == [i \in DOMAIN order |-> voqGates[order[Len(order) + 1 - i]]] \o freeVoqGates

(* SchedulingAlgorithm::newVoqAllocated().                                 *)
NewVoqAllocated == SetSendingRate(NewVoq, MinVOQSendRate)

(* pktArrivedForNewDestination() and allocateVoq().                        *)
NewVoqFor(d, rate) ==
  /\ voqMap' = With(voqMap, d, SetSendingRate(NewVoqAllocated, rate))
  /\ ConnectToVoq(d)
  /\ ArmTimeout(Cardinality(DOMAIN voqMap) + 1)

Allocated(d) ==
  IF d \in DOMAIN voqMap THEN UNCHANGED layer ELSE NewVoqFor(d, MinVOQSendRate)

Update(d, voq) ==
  /\ voqMap' = [voqMap EXCEPT ![d] = voq]
  /\ UNCHANGED <<voqGates, freeVoqGates, timeoutIn, stopped>>

(* Demultiplexer::handleMessage().                                         *)
FromUpperLayer(d) ==
  /\ arriving = None
  /\ arriving' = d
  /\ Allocated(d)
  /\ UNCHANGED <<options, scheduledRates>>

(* VirtualOutputQueue::handleMessage() for a packet.                       *)
PacketArrives ==
  /\ arriving # None
  /\ arriving' = None
  /\ Update(arriving, HandlePacket(voqMap[arriving], Packet("data", PktBits)))
  /\ UNCHANGED <<options, scheduledRates>>

(* SchedulingController::handleMessage(), handleControlMessage(): a packet *)
(* from another server gets a VOQ for the traffic back.                    *)
FromLowerLayer(d) ==
  /\ Allocated(d)
  /\ UNCHANGED <<options, scheduledRates, arriving>>

(* VirtualOutputQueue::handleMessage() for sendNextPacketEvent_.           *)
SendNextPacket(d) ==
  /\ EventDue(voqMap[d])
  /\ Update(d, HandleEvent(voqMap[d]))
  /\ UNCHANGED <<options, scheduledRates, arriving>>

(* SchedulingController::sendSchedulingPacket().                           *)
SendSchedulingPacket(d) ==
  /\ Len(voqMap[d].queue) < MaxQueue
  /\ voqMap[d].debt + PktBits <= MaxDebt
  /\ Update(d, SendScheduling(voqMap[d], Packet("scheduling", PktBits), options))
  /\ UNCHANGED <<options, scheduledRates, arriving>>

(* ScheduleFromFile::handleMessage(), setScheduledRate().  A rate changes  *)
(* when the bits left take a whole number of ticks at the new one.         *)
SetScheduledRate ==
  /\ scheduledRates # << >>
  /\ LET msg == scheduledRates[Len(scheduledRates)]
         d   == msg.destination
     IN  IF d \in DOMAIN voqMap
         THEN /\ msg.rate > 0 => voqMap[d].bitsLeft % msg.rate = 0
              /\ Update(d, SetSendingRate(voqMap[d], msg.rate))
         ELSE NewVoqFor(d, msg.rate)
  /\ scheduledRates' = SubSeq(scheduledRates, 1, Len(scheduledRates) - 1)
  /\ UNCHANGED <<options, arriving>>

(* Mutant of TimedOut: a VOQ has to be idle for longer.                    *)
TimedOutLate == {d \in DOMAIN voqMap : Inactivity(voqMap[d]) > VOQTimeout + 1}

TimedOut == {d \in DOMAIN voqMap : Inactivity(voqMap[d]) > VOQTimeout}

(* checkVoqTimeout(), removeVoq() for each, in the order of their          *)
(* addresses, then scheduleVoqTimeout().                                   *)
CheckVOQTimeout ==
  /\ timeoutIn = 0
  /\ voqMap' = Without(voqMap, TimedOut)
  /\ voqGates' = Disconnected(TimedOut)
  /\ \E order \in [1 .. Cardinality(TimedOut) -> TimedOut] :
       /\ \A i, j \in DOMAIN order : i < j => order[i] < order[j]
       /\ freeVoqGates' = Freed(order)
  /\ timeoutIn' = IF voqMap' = << >> THEN None ELSE VOQTimeout
  /\ arriving' = IF arriving \in TimedOut THEN None ELSE arriving
  /\ UNCHANGED <<options, scheduledRates, stopped>>

(* Time passes when no event is due.                                       *)
Tick ==
  /\ arriving = None
  /\ timeoutIn # 0
  /\ \A d \in DOMAIN voqMap : ~EventDue(voqMap[d])
  /\ voqMap' = [d \in DOMAIN voqMap |-> AfterTick(voqMap[d])]
  /\ timeoutIn' = IF timeoutIn = None THEN None ELSE timeoutIn - 1
  /\ UNCHANGED <<options, scheduledRates, arriving, voqGates, freeVoqGates, stopped>>

Next ==
  /\ ~stopped
  /\ \/ \E d \in Dests : FromUpperLayer(d) \/ FromLowerLayer(d)
     \/ PacketArrives
     \/ \E d \in DOMAIN voqMap : SendNextPacket(d) \/ SendSchedulingPacket(d)
     \/ SetScheduledRate
     \/ CheckVOQTimeout
     \/ Tick

Spec == Init /\ [][Next]_vars
-----------------------------------------------------------------------------
(* No packet is stuck: a VOQ with packets has its event scheduled, however *)
(* rates, arrivals and scheduling packets interleave                       *)
(* (VirtualOutputQueue::handleMessage, setSendingRate).                    *)
QueuedHaveEvent ==
  \A d \in DOMAIN voqMap : voqMap[d].queue # << >> => voqMap[d].scheduled

(* A VOQ does not send the next packet before its rates, also those that   *)
(* changed on the way, have made up for every packet that is charged,      *)
(* unless scheduling packets are neither free nor queued                   *)
(* (VirtualOutputQueue::scheduleNextTransmission).                         *)
PacedUnlessAhead ==
  options.noSchedAccounting \/ options.queueSchedPkts =>
    \A d \in DOMAIN voqMap :
      LET voq == voqMap[d]
      IN  voq.debt <= IF voq.scheduled THEN voq.bitsLeft ELSE 0

(* A VOQ is removed before it has been idle for twice the timeout, unless  *)
(* scheduling packets, whose sending is not activity, wait in it meanwhile *)
(* (SchedulingController::checkVoqTimeout).                                *)
IdleRemoved ==
  VOQTimeout > 0 /\ (options.noSchedAccounting \/ ~options.queueSchedPkts) =>
    \A d \in DOMAIN voqMap : Inactivity(voqMap[d]) <= 2 * VOQTimeout

(* Demultiplexer::connectToVoq, "get the new gate": the gate of a new VOQ  *)
(* is not connected to another one.                                        *)
NewGateIsFree == ~stopped

=============================================================================
