# Verification of the DataCenter simulation model

The repository is a discrete-event simulation (OMNeT++) of a data-centre
network: servers and switches wired as a fat tree, packets that are spread over
the paths of the tree by a load balancer at the sending server and put back in
order by a resequencer at the receiving one, with an optional scheduling layer
that limits the rates between pairs of servers. This directory holds TLA+
specifications of its protocol logic, TLC configurations that check them on
small instances, and TLAPS proofs of the theorems that matter most.

Notation: source paths are relative to the repository root. *Counterexample*: a
configuration in which TLC finds a behaviour of the code that contradicts what a
comment or a description in the repository says (2.4).

## 1. The system

### 1.1 Execution

Every component is a module of the simulator. A module runs only in
`handleMessage()` (a packet, a control message or a timer of its own) or in
`receiveSignal()` (called synchronously from another module's `emit()`). There
is one thread, so a handler is atomic and **the interleavings are the orders in
which events are processed**: by time, then by scheduling priority, then in the
order in which they were scheduled. An action of the specifications is
therefore one handler with everything it calls, synchronous signals included.

### 1.2 Components

| component | code (`src/model/...`) | state | operations |
|---|---|---|---|
| Load balancer of a server | `node/linkLayer/LoadBalancer.cc`, `Path.cc` | permutation of the paths, index, deficit counters, counters per destination | choose and account a path for each packet |
| Multi-phase load balancer | `node/linkLayer/MPLoadBalancer.cc` | credits per subtree, level and path | as above |
| Hybrid resequencer | `node/resequencingLayer/{HybridResequencer,ResequencerBuffer}.cc`, `common/ServerBuffer.cc` | per peer: queue by timestamp, expected number, longest delay, timer, time of last activity; next number to send | number, receive, time out, age out |
| Sequence-number resequencer | `node/resequencingLayer/SequenceNumberResequencer.cc` | per peer: queue by number, expected number, one event for timeout and removal; longest delay expected | receive, time out, remove the buffer |
| Backlog-schedule application | `node/applicationLayer/BklgSchedApplication/` | bytes left to send, receive, lost; number of unfinished servers | send, receive, drop, statistics interval, end of simulation |
| Message application | `node/applicationLayer/messageApplication/` | script, scheduled messages, active messages with their rates and bursts | create and parse the script, activate, send a segment, share the rate |
| Adjusting applications (server 0) | `MAAdjustRateToThreshold.cc`, `MAAdjustQueueSizeToRate.cc` | rate or queue size, bounds found so far, losses of the flows | measure, adjust, end |
| Traffic patterns | `messageApplication/trafficPatterns/` | - | peers of a server |
| Port queues | `common/L2Queue.cc`, `common/VirtualPacketQueue.cc`, `switch/SwitchPortQueue.cc`, `node/linkLayer/ServerPortQueue.cc` | queue, packet on the line, limits | arrive, finish, drop, change limits |
| Switch control processor | `switch/ControlProcessor.cc`, `common/node_id.cc`, `common/FatTreeNode.cc` | address digits, sub-tree, levels | route up/down, flood control messages, resize queues |
| Scheduling layer | `node/schedulingLayer/*.cc` | virtual output queues, their rates and events, gates | enqueue, send, rate update, create, age out |
| Proxies and file scheduler | `schedulingLayer/proxy`, `schedulingLayer/schedFromFile` | flows of each link with backlog, share and rate; lines of the schedule | request, respond, set a rate |
| TCP application and wrapper | `TCPMessageApplication/`, `transportLayer/Inet*` | a thread and a socket per connection | connect, accept, deliver, fail, ask for status |
| Statistics | `node/linkLayer/ServerPortQueue.cc`, `common/ServerStream.cc`, `common/BandwidthMeter.cc` | bytes per stream, batches | record sent and received packets |
| Packet dropper | `common/PacketDropper.cc` | commands, packets still to drop | drop, pass on, next command |
| Control messages | `node/control/` | - | deliver to the port named |
| Thin layers | `networkLayer/`, `transportLayer/SimpleUDP.cc` | - | convert addresses, forward by kind |
| Packets | `packets/*_m.cc` | - | generated accessors |
| Network generator | `BuildFatTree/` (at the root) | - | write the wiring of a tree |
| Configurations, scripts | `simulations/` (at the root) | - | parameters, plots |

### 1.3 Interactions

    application --> transport --> network --> scheduling --> link layer --> port queue
                                             (VOQs)         (load balancer     |
                                                 resequencer  tags the path)   v
    application <-- transport <-- network <-- ............ <-- switches: up the path,
                                                               down the address digits

* A load balancer writes the *path* into the packet; the switches read one digit
  of it per level on the way up and one digit of the *destination* on the way
  down. Bandwidth meters of `Path` count what was sent per path.
* The resequencer numbers packets at the sender and restores their order at the
  receiver; both keep a buffer per peer, and age it out independently of each
  other. The sequence numbers are the only thing that ties the two together.
* Queues signal `dropPkt` to applications that subscribed; the backlog
  application uses it to stop waiting. Applications signal `finishTime` to
  server 0, which ends the simulation.
* Control messages change the limits of switch queues and the rates of VOQs at
  any moment.

### 1.4 What is hard to test, and what makes each part correct

| component | hard | correct means |
|---|---|---|
| load balancers | random permutations drawn in the middle of scans; overdrafts carried over many rounds; two sets of counters topped up at different times | loads of the paths stay within a constant of each other, for any sequence of packet lengths |
| hybrid resequencer | loss, reordering, delay window learnt while packets wait, timers computed from an old window, peers that age out alone | released once, in order as soon as the window is learnt, never waiting forever |
| backlog application | repeated signals, an unsigned count, drops seen by both ends, an interval timer racing the last signal | the simulation ends, and not under packets of the schedule |
| port queue | limits that change under queued packets; two implementations of the queue behind one interface | limits respected, line never idle with packets waiting |
| switch | digits of a path against levels of the tree; flooding | every packet arrives where it is addressed; a flooded message reaches every switch, and the flood ends |
| scheduling | rate updates racing the send event of a VOQ or its ageing | no packet stuck, the rate respected, idle queues go |
| proxies | two ends of a flow and two shared links, with messages between them | no rate in use that is not reserved, no reservation forgotten |
| multi-phase balancer | credits per sub-tree against a wiring and a routing written elsewhere | credits tell loads; every sub-tree balanced |
| sequence-number resequencer | numbers that wrap, one event with two meanings | in order; nothing dropped that was to be waited for |
| message application | messages that start and finish under way, parameters derived from derived ones | the rate is kept |
| adjusting applications | bounds that close in, estimates far off, noise | the search ends, with the right result |
| TCP | late, lost and repeated segments; failures | each message is received or its failure counted |

`PROJECT.json` lists every hazard at its line, with the properties aimed at it.

## 2. What is modelled

| module | models | state | actions |
|---|---|---|---|
| `PathAccounting` | `Path::performAccounting` | `pathLoad` | `PerformAccounting` |
| `LoadBalancer` | base class: path list, permutation | `pathList`, `currentIndex` | - |
| `RRLoadBalancer` | `RR`, `PRR` | inherited | `RRHandleMessage` |
| `SRRLoadBalancer` | `SRR`, `PSRR` | + `deficitCounter` | `SRRHandleMessage` |
| `RehashLoadBalancer` | `Rehash` | + history `runBytes` | `RehashHandleMessage` |
| `SDLoadBalancer` | `SD`, `PSD` | inherited | `SDHandleMessage` |
| `DestLoadBalancers` | `DSD`, `TP` | + `destPathState` | `DSDHandleMessage`, `TPHandleMessage` |
| `LoadBalancing` | a server configured with one of them | + `scheme` | `Send` |
| `LeastLoadedFirst` | abstract: what sorted deficit promises | `pathLoad` | `Next` |
| `ResequencerBuffer` | the buffer for one peer | `queue`, `expectedSequenceNo`, `maxObservedDelay`, `timeOut` | `HandlePacket`, `HandleTimeout` |
| `HybridResequencer` | both ends and the network between them | + numbering, buffers' age, packets under way | `SendPacket`, `Receive`, `Timeout`, `Remove...Buffer`, `Tick` |
| `BklgSchedApplication` | all servers of a schedule, signals included | `toSnd`, `inFlight`, `toRcv`, `lost`, `leftToFinish`, `statsPending`, `ended` | `Send`, `Receive`, `Drop`, `EmitIntervalStats` |
| `SwitchPortQueue` | `L2Queue`, `VirtualPacketQueue`, `SwitchPortQueue` | `queue`, `onLine`, limits | `StartTransmitting`, `Enqueue`, `DropPacket`, `FinishTransmitting`, `UpdateQueueSize` |
| `FatTree` | `node_id.cc`, `BuildFatTree` | none: levels, radices, digits of addresses and paths, wiring | - |
| `FatTreeRouting` | `ControlProcessor` of every switch, `ControlLogic` of every server, ECMP and VLB at the source | `queue` of every port, `pathAssignments`, `control` messages, `queueSize` of every switch port, history of deliveries | `SendPacket`, `Forward`, `SendControl`, `HandleControl` |
| `MPLoadBalancer` | the multi-phase balancer and the cables its packets take | `linkCredits`, `pathList`, `pktsInRound`, history `load` | `MPHandleMessage` |
| `SequenceNumberResequencer` | the buffer of one sender and the network before it | `buffer`, `event`, `maxExpectedNetworkDelay`, `network`, `outbox`, history `gap` | `SendPacket`, `OtherSender`, `sendToResequencer`, `PacketTimeout`, `RemoveBuffer`, `Tick` |
| `VirtualOutputQueue` | one VOQ, as a record | none: functions from VOQ to VOQ | - |
| `SchedulingLayer` | controller, demultiplexer, `ScheduleFromFile`, all VOQs of a server | `voqMap`, `voqGates`, `freeVoqGates`, `timeoutIn`, `scheduledRates`, `arriving` | `FromUpperLayer`, `FromLowerLayer`, `PacketArrives`, `SendNextPacket`, `SendSchedulingPacket`, `SetScheduledRate`, `CheckVOQTimeout`, `Tick` |
| `LinkProxy` | one link, as a record | none | - |
| `DistAlgProxy` | the proxies of all servers | `linkTo`, `linkFrom`, `requests`, `responses` | `SndReqPkt`, `RcvReqPkt`, `RcvRspPkt` |
| `TrafficPatterns` | the six patterns | none | - |
| `MessageApplication` | script and application of one server | `pairing`, `script`, `scheduled`, `nextArrival`, `active`, `aggregateRate`, history `ahead` | `Reassign`, `WritePairs`, `ParseScript`, `ActivateMessage`, `SendNextSegment`, `StopAtLimit`, `Tick` |
| `ThresholdSearch` | both adjusting applications | `value`, `bytes`, `lastOver`, `lastUnder`, `event`, `emitted` | `StartMeasurement`, `CheckNetworkLoss` |
| `TCPMessageApplication` | threads and sockets of all servers | `threads`, `numBroken`, `fromTcp`, `received` | `outgoingConnection`, `HandleFromTcp` |
| `VirtualIP` | network layer, TCP wrapper, UDP | none: addresses and packets | - |
| `ServerPortQueue`, `BandwidthMeter` | a server's port and its meters, as records | none | - |
| `PacketDropper` | the dropper of a link | `commands`, `dropPacketEvent`, `numPktsToDrop` | `HandleDropEvent`, `PassesOn` |
| `TCPTest` | servers with TCP between them and a dropper, as in the network of that name | + `port`, `client`, `server`, `tries`, `lostPkts`, `lostBytes` | `ActivateMessage`, `ApplicationHandles`, `GetAllSocketStatus`, `SendUdp`, `Retransmit`, `GiveUp`, `ReceivePacket`, `DropPacket`, `FinishTransmitting`, `DropEvent`, `Tick` |

Modules `*_proof` hold theorems, and the definitions their invariants and lemmas
need; each extends the module it is named after, `Scheduling_proof` the scheduling
layer and the rate allocation, `Applications_proof` the backlog schedule and the
threshold search, `LoadBalancing_proof` also the sequence-number resequencer, and
`FatTreeRouting_proof` also the multi-phase balancer, whose theorem is about both,
and the message application. `NumberLemmas` has what several of them need:
induction on the natural numbers, quotients, products and sums. The modules of the schemes
extend each other as the classes inherit from each other, and `LoadBalancing`
composes them: the configured scheme is chosen in `Init` and stays.

Abstractions worth knowing:

* **Permutations.** `pathPermutation()` swaps at random; the model lets it
  return any permutation. `UsePermutations = TRUE` includes the configurations
  without shuffling only for the first list, so it is a CONSTANT.
* **Loops of choosePath.** The loop of the code scans, calls `newRound()` at the
  end of the list and scans again. The model states where the scan stops and
  after how many rounds (`FirstWithCredits`, `RoundsUntilCredits`, `TopUps`), as
  conditions on the counters rather than as a recursion. `MaxPkt` rounds suffice
  to refill a path overdrawn by less than a packet.
* **Loads are relative.** `pathLoad` holds the load of a path minus that of path
  0. The properties speak of differences, and the state space stays finite.
* **Time** of the resequencer is discrete. A packet's timestamp is the time it
  starts on the sender's link; two packets of one sender differ in it, and one
  packet arrives at the receiver at a time, both because a link carries one
  packet at a time.
* **Bytes of a backlog** are counted in packets; the width of
  `leftToFinish_` matters (it wraps), and is `UintMod` in the model.
* **A packet of a port queue** is its length.
* **A tree** is the set of its switches, each named by its depth, its sub-tree
  (the lowest address in it) and its index among the top switches of that
  sub-tree; `Peer` is the other end of a port's cable. The wiring is that of the
  generator, the routing that of the simulated switches: nothing but agreement
  on digits holds the two together.
* **One flow or one control message at a time.** A switch keeps no state between
  packets, so packets of other flows affect a flow by delay only, and any delay
  is a behaviour of the queues as they are: `Forward` may take its time. For the
  same reason one control message shows what every one does. What a limit
  does to packets is left to `SwitchPortQueue`: a packet that is dropped does not
  arrive, and the properties of order and route do not need that it does.
* **A control message on a link** is a member of `control`: it does not wait in
  queues (`L2Queue::handleMessage` sends it on at once). `control` is a set,
  so two copies under way to one port would be merged; but if a second copy was
  ever sent there, it also is in the behaviours in which the first one has been
  handled before, and there `controlReceived` counts both.
* **VOQs, links, ports, meters** are records, and the functions of their modules
  take one to the next: the modules that compose them hold one variable for all
  of a kind. Demultiplexer and multiplexer connect and free gates by the same
  code at the same moments, so one set of gates stands for both.
* **Rates of VOQs** are bits per tick that divide a packet; `bitsLeft` and `debt`
  count what remains of the packet on its way out and what was sent in advance.
  The times of a schedule are left out: its lines come in order, at any time.
* **Links of the proxies** have a capacity of a few units and rates are whole
  units; the code's shares are `double`s. What the module is about, who believes
  what to be reserved, does not depend on the grain.
* **One sender** of the sequence-number resequencer: the buffers share nothing
  but the delay expected of the network, and `OtherSender` raises that.
* **Messages**: a payload is the largest one or alternates with an empty one;
  `alt_max_min_` has no initial value in the code, hence both. With random
  spacing and bursts a time is any in `0 .. MaxWait`, and the length of a burst
  is whether it goes on. Mean lengths and distances of bursts are exact
  fractions. `ahead` counts what was sent beyond `maxSendRate` so far.
* **Searches**: losses are in units of the threshold over the number of flows;
  what the M/M/1/K formulas return is any value in their range. `noisy` means
  that the loss measured need not depend on the rate; then the properties ask
  for the end of the search only. Rates are counted in parts of a step; the
  code's are `double`s, and where their rounding can decide, the model does not:
  the formulas return a step or a part more or less (`RateGuesses`), and of bounds
  one step apart a search by steps may see either no room or some (`NextRates`).
  Queues have a limit in packets, in bytes or both, each with its own edge, and
  the longest queue seen is any that such a loss allows. For the decrement search
  the code decides by the traffic, and by lot for all-to-all traffic, whether
  the mean or the largest loss counts; the model has both (`useMax`).
* **Control packets of the rate allocation** are neither lost nor reordered. That is
  so with the defaults: queues without limit, and scheduling packets that do not wait
  in VOQs. Limited queues and `queueSchedPkts` are not modelled for them, and
  the code has no answer to a lost request or response but the next one.
* **Queues of the hybrid resequencer** have a limit in packets only; the one in bytes,
  which `ServerBuffer.cc:60-61` also checks, is left out.
* **A removed connection** of TCP sends nothing more to the application: in the model
  a connection is gone with the message that has its thread removed, so the late
  message of `TCPMessageApplication.cc:148` does not occur.
* **TCP** is the INET library's. The model opens a connection with SYN and SYNACK,
  sends a message as one segment, tries again after a timeout and gives up with
  RST; the network delays and reorders. Nobody closes a connection in this code.

### 2.1 Runs

| run | properties | what it shows | bounds |
|---|---|---|---|
| `balancing` | `SchemeInv`, `RoundRobinFair`, `SurplusFair`, `SortedDeficitBalanced`, `DestinationsBalanced`, `SDSendsToLeastLoaded`, `TwoPhaseSendsToLeastLoaded` | every scheme keeps the loads together as it promises, those with counters per destination for each destination and two-phase for both at once; SD implements least-loaded-first | 2 paths, 2 destinations, quantum 2, packets of 1 to 3 bytes |
| `resequencer` | `TimerGuardsFront`, `InOrderOnceLearned`, `ReleasedOnce`, `EventuallyReleased` | order, no duplication, no packet stuck, the timer matches the queue | 4 packets, delay at most 3, buffers age out after 3, queues without limit, of 1 and of 2 |
| `backlog` | `ReceiverWaitsForRest`, `CountsUnlessLossy`, `EndsInTimeUnlessLossy`, `EndsUnlessWaiting` | the books of both ends agree, the simulation ends and does so in time | 3 servers, at most 3 pairs with at most 2 packets each |
| `port_queue` | `WithinByteLimit`, `WithinPktLimit`, `BusyWhileQueued` | a queue with real packets respects its limits and never idles | packets of 1 and 2 bytes, 5 queued |
| `routing` | `OnRoute`, `ECMPKeepsOrder`, `ControlReachesReceivers`, `EverythingArrives` | every packet takes the switches of its path and arrives where it is addressed, ECMP's in order; a control message comes to all of its receivers, once, and to nobody else; the queue sizes it sets agree at both ends of a cable | 3 levels, radices down 2, 2, 2 and up 3, 2 (8 servers, 6 paths), 2 packets |
| `scheduling` | `QueuedHaveEvent`, `PacedUnlessAhead`, `IdleRemoved` | no packet stuck and no rate exceeded while rates change; idle VOQs go | 2 destinations, rates 0 to 2, packets of 2 bits, 2 lines of a schedule |
| `rate_allocation` | `RateReserved`, `NoForgottenReservation` | both ends of a flow agree on what is reserved once their messages are through | 3 servers, the 3 flows to a higher address, backlogs to 2, one control packet of a flow under way, be it request or response |
| `seq_resequencer` | `UpInOrder`, `KeepsWaiting`, `DroppedOnlyWhenLate` | order across the wrap of the numbers; what the timeout allows for is waited for, as long as timeouts are within `BufferTimeout` of the start | 8 numbers, 10 packets to time 12, delay at most 3, timeouts 1 and 3, buffer timeout 8 |
| `mp_balancing` | `CreditsTellLoads`, `EachBalanced` | credits tell the loads of the cables, and every sub-tree is balanced | 3 levels, radices down 2, 2, 1 and up 2, 2; packets of 2 bytes, quantum 3 |
| `messages` | `SwapPossible`, `ScriptRegular`, `Paced` | the patterns are regular; uniform traffic keeps its rate, and the bursts to come make it up | 6 servers in 3 pods; messages of 2 segments, or of 2 or 3 in a script that was there before; rates, limits, bursts on and off, injection at rate 1 |
| `threshold_search` | `FindsEdge`, `SearchEnds` | which searches end and which find what they look for, whatever is estimated | 8 steps of a rate, sizes to 7, byte limits 0, 5 and 8, 2 flows |
| `tcp` | `ThreadsKnowPeers`, `MeasurementsAgree`, `DeliveredOrBroken` | threads know their peers, both ports measure the same, no message is lost silently | 2 servers, a message each way, 2 tries, 1 UDP packet, the dropper takes 2 packets |

`HybridResequencer`, `BklgSchedApplication`, `SwitchPortQueue` and
`FatTreeRouting` also define a type invariant `TypeOK`. It holds in the same
configurations; the proofs use it or state what they need of the types
themselves (section 3). The runs leave types to the properties above, which
fail when a type is wrong.

Why the bounds are enough:

* Balancing: packets are shorter (1), as long (2) and longer (3) than a quantum,
  so a path may be left with credits, spent exactly, or overdrawn, and one
  top-up may not be enough. With three paths a shuffle can move a path across
  the scan index: `MCPathBalancing.cfg` has three, for the schemes with one set
  of counters, and also checks `RehashWholeQuanta`. The counters are bounded by
  the invariants, so the state space is *all* of the reachable states, for
  packet sequences of any length; only Rehash, which balances nothing, is cut by
  `MaxImbalance`. That cut ends behaviours, hence `CHECK_DEADLOCK FALSE`.
* Resequencer: four packets make a gap, a late packet and one more in either
  order; sends extend to time 5 so that they fall before and after the removal
  of a buffer aged 3. With a limit of 1 the packet that is dropped may be the one
  the other waits for. The protocol stops when all is sent and released, hence
  `CHECK_DEADLOCK FALSE`.
* Backlog: with three servers a pair can finish while the third server still
  has packets. `UintMod` = 16 stands for 2^32: the wrap happens at zero, and no
  schedule of the bound sends 16 signals. The simulation stops, hence
  `CHECK_DEADLOCK FALSE`.
* Routing: three levels is the least tree with a switch that has both ups and
  downs below another such; that the radices up differ (3 and 2) makes a wrong
  divisor or modulus of a path's digit visible, and every pair of source and
  destination is tried, from the same server to opposite ends of the tree. With
  radices up of 1 the tree is the logical one: `MCLogicalTree.cfg` checks that,
  where a queue stands for the links of a sub-tree. Two
  packets are what order needs: a third adds no new pair. What was sent has
  arrived in the end and nothing happens, hence `CHECK_DEADLOCK FALSE`.
* Port queue: the packets and bytes that fit are more than every limit.
  `MaxQueued` cuts the queue without limits only; FIFO and the loops do not
  depend on its length.
* Scheduling: a packet takes one tick, two, or never goes; rates change at any
  of its ticks. VOQs share only gates, the ageing and the schedule, for which two
  are enough. `MaxQueue` and `MaxDebt` bound what scheduling packets may add
  to a VOQ. The run stops at the disagreement of 2.4, no. 7, and where the bounds
  cut, hence `CHECK_DEADLOCK FALSE`.
* Rate allocation: three servers are the least number with flows that share a
  link at one end and not at the other, and a capacity of 2 cannot give each
  what it asks for. Requests are sent anew in every period, once the one before has
  been answered (`MaxInFlight` = 1): the request of one flow meets requests and
  responses of the two others at either link. With two under way the states are
  too many; the theorems are about any number of servers and of packets under way
  (section 3).
* Sequence numbers: 10 packets go round the 8 numbers; gaps of up to a half of
  them are compared. Timeout 1 is shorter than the delay of the network, 3 is
  not. `BufferTimeout` is 8 and packets are sent up to time 12: packets wait with
  timeouts before and after it, buffers are removed with packets in their queues,
  and packets come for a buffer that was removed. Sending ends, hence
  `CHECK_DEADLOCK FALSE`.
* Multi-phase balancing: the credits are bounded because the loads are
  (`EachBalanced`), so packet sequences have any length. Two links up at each of
  two levels tell a link's number by quotient from that by remainder. The
  credits depend on bytes only in multiples of a packet, and one length not
  dividing the quantum makes them pass zero at different remainders. With more
  lengths the state space is out of reach.
* Messages: three pods of two are what swapping needs to go wrong: with two pods
  every server outside is in the same pod. A message of two segments has a first
  and a last one; two or three messages are active together, of different rates
  of the script. Injection is at 1, so rates are below, equal and above it: bursts
  have ends or none, and one without an end begins and is overtaken by a second
  message.
  Random spacing and alternating payloads are left to the script that was there before,
  as five messages at once with them are too many states.
* Threshold search: 8 steps are more than bisection passes through, both ends
  included. `ULONG_MAX` is the initial bound of sizes, far beyond `MaxEstimate`. The
  limits in bytes are no multiples of a segment, so a queue is never full to
  the last byte; 5 gives way to the next step at once, 8 after one more.
  A search stops, hence `CHECK_DEADLOCK FALSE`.
* TCP: a message each way makes both roles of a server meet; a drop of two takes
  both tries of a segment or one of each connection. The measurement interval
  starts and ends within the clock's range, so packets lie before, across and
  after it. The clock stops after that, hence `CHECK_DEADLOCK FALSE`.

### 2.2 Fairness

The simulator always goes on to its next event; nothing can be postponed while
time passes. This gives weak fairness of `Tick`, `Receive` and `Timeout`
(resequencer), of sending what the schedule demands and of the statistics event
(backlog). A packet under way arrives or is dropped, but it is not assumed to
arrive: fairness is on `Receive(p) \/ Drop(p)`. The network of the resequencer
loses packets by never having them under way.
In the routing module, a port's queue has packets only while its line is busy
with the first of them, and the end of a transmission is an event, hence
fairness of `Forward`; a control message is an event of its own
(`HandleControl`).
The threshold search goes on as long as an event is scheduled. In `TCPTest` the
events of the simulator are fair, and a retransmission timer fires
(`Retransmit \/ GiveUp`); a packet under way is received or dropped.
The other modules state no liveness: what must happen in them is said by
invariants (a queue with packets has an event, an idle queue is gone in time).
No fairness is assumed for actions that an environment may or may not take
(sending, ageing, changing limits).

### 2.3 How to run

    tlc -config MCSchedulingLayer.cfg SchedulingLayer

and likewise for the others; a run takes from a few seconds to three
minutes with two workers.

### 2.4 Disagreements met

The runs above check what the code keeps. These configurations are kept beside
them for what it does not: TLC finds a counterexample to the property named.

| | module, configuration | property |
|---|---|---|
| 1 | `RehashLoadBalancer`, `MCRehashQuantum.cfg` | `QuantumBeforeNewPath` |
| 2 | `HybridResequencer`, `MCResequencerDelivery.cfg` | `DeliveredAsReleased` |
| 3 | `FatTreeRouting`, `MCFlooding.cfg` | `ReachesAllSwitches` |
| 4 | `BklgSchedApplication`, `MCBklgEnds.cfg` | `EndsOnlyWhenFinished` |
| 5 | `BklgSchedApplication`, `MCBklgEnds.cfg` with that property for the invariant | `EndsWhenFinished` |
| 6 | `SwitchPortQueue`, `MCVirtualQueue.cfg` | `BusyWhileQueued` |
| 7 | `SchedulingLayer`, `MCVoqGates.cfg` | `NewGateIsFree` |
| 8 | `SequenceNumberResequencer`, `MCSequenceNumber.cfg` with that property for the invariants | `WaitsForFront` |
| 9 | `MessageApplication`, `MCMessageApplication.cfg` likewise | `EndlessScaledBack` |
| 10 | `ThresholdSearch`, `MCThresholdSearch.cfg` likewise | `LastEmittedIsSought` |
| 11 | the same | `BoundsKnown` |
| 12 | the same, with it for the temporal property | `StepsEnd` |

1. `LoadBalancer.ned` promises that Rehash sends at least a quantum along a path
   before it draws another. After an overdraft a path gets a quantum on top of a
   negative counter and is left earlier.
2. `ResequencerBuffer.cc:185` sets priorities "to ensure that multiple packets
   released at the same time are still delivered in the order they were
   released". The priorities start over in every call: if a timeout and an
   arrival coincide, the packets interleave by priority.
3. `ControlMessage.msg:19` calls `BROADCAST_SWITCHES` a message destined for all
   switches. The intermediate switches reach every switch of the next level, but
   there only the switch with index 0 of a sub-tree floods downwards, and it has
   one link to each sub-tree below, hence reaches one switch of each. In a tree
   of three levels these are top-of-rack switches, which are alone in their
   sub-trees; in a tree of four they are not, and the others are missed wherever
   the sender's flood up did not pass.
4. `BklgSchedApplication.cc:134`: the simulation is to end when all servers have
   finished. A drop makes a server that has finished signal again, each signal
   counts, and the simulation ends under packets of the schedule.
5. The header says the schedule's end terminates the simulation. With a
   statistics interval, the repeated signals take the count past zero before the
   interval is over; the test for zero never succeeds again.
6. `L2Queue` asks `queue.empty()`, which `VirtualPacketQueue` does not override:
   with virtual packets a port goes idle with packets queued.
7. `Demultiplexer.cc:75` says "get the new gate". The new gate's index is the
   number of entries of `voqGates_`, and entries of removed VOQs stay in the map
   with a NULL gate. VOQ 1 goes, and VOQ 2 takes its gate 0; when VOQ 1 comes back
   with no gate free, its own entry is counted already and stays the only new
   one, so the next VOQ is given the same index, which is that of a gate in use.
8. `SequenceNumberResequencer.cc:242`: "If the next timeout is MAXTIME (or simply
   greater than the bufferTimeout), assume the queue is empty". The timeout is a
   time of the simulation, `BufferTimeout` an interval: from `BufferTimeout` after the start
   (10 s by default, 1 s in the test network) the event of a buffer with packets waiting
   means the removal of the buffer, `BufferTimeout` later, and a missing packet is
   not given up when its timeout says so. `KeepsWaiting` is about the timeouts
   before that; in the run, packets wait on both sides of it.
9. `MessageApplication.ned` has `maxSendRate` "Scale back the traffic produced by
   the messages to this limit". `ActiveMessage.cc:224-231` gives a message whose rate reaches
   `InjectionRate` a burst without end. When a second message becomes
   active, both rates are scaled down, but the burst that has begun goes on: its
   message sends at the injection rate to the end. Bursts that are yet to begin have
   the new rates (`BurstsMeetRate`), and none begins without an end unless the rate
   of its message demands it (`EndlessIfUnshared`).
10. `MAAdjustQueueSizeToRate.cc:234`: "The last adjust queue size emitted is the
    value we are looking for", in a range that begins at `queueAdjustVal`. A size is emitted before it
    is tried, so the last one emitted is the one that exceeded the threshold,
    one below the smallest that does not, or 0, out of the range, if 1 does not.
11. `MAAdjustQueueSizeToRate.cc:181`: the new size is to lie "between the largest
    value known to exceed the threshold and the smallest value known not to". The
    first measurement may be under a limit in bytes; the loss it gives is put down to the
    size in packets of the same time, which may not have been what
    limited the queue, and so a bound is known that is none.
12. `MAAdjustRateToThreshold.cc:359`: "we should be done if there is no room between
    the upper and lower bound". The bounds are a step apart then, up to
    rounding; here, unlike in line 311, the difference is compared without the 0.99. If
    it comes out above a step, the clamps return the upper bound, up to rounding,
    and the search tries it over and over. With IEEE doubles that happens, for
    example, at precision 2 and the full rate of 10 Gb/s at first, if the loss exceeds
    the threshold from 0.12 on and not at 0.11.

Met while reading and not made into runs: the comment at `LoadBalancer.cc:319`
on ties against the strict comparison at 312 (no effect on balance); a quantum
of 0 makes `choosePath` loop forever; `HybridResequencer.cc:84-91` goes on with
an iterator it has erased; a drop between servers without a backlog
dereferences NULL; `ServerBuffer.h:46` documents `lastActiveTime_` as the time
the queue became empty, but nothing in a resequencer's buffer updates it after
creation, so that a buffer in use is removed as old (the model has it so:
`GetLastActiveTime`); `ControlProcessor.cc:179` reads `up_radix_[1]`, which a
tree of one level does not have (`FatTreeAssumption` excludes it);
sequence numbers of the hybrid resequencer end at 2^32 - 1 with the simulation;
`ActiveMessage.cc:144`: a message whose payload is configured as the least one,
0, is sent forever; `ActiveMessage.cc:218`: bursts shorter than a packet let the
burst counter drift below zero; `MessageApplication.cc:118` asks for
"AllToAllVictimTenant" where the pattern is called "AllToAllVictim" at 111, so
its partition size is never set; `MessageApplication.cc:171` skips lines that do
start with a character other than a blank, as `find_first_not_of()` returns a
position; `MAAdjustRateToThreshold.cc:221` divides by the number of flows, which
may be 0; `TCPMessageApplication.cc:239` compares the `typeid` of pointers, which
are never those of a class, so a receiving thread is erased from the map of the
sending ones (the model has the socket gone and the maps as they are);
`TCPMessageApplication.cc:198` binds a port that is unique per destination, not
per connection; `ServerPortQueue.cc:93-97` tells the meter the bits of the packet
that is now on the wire; `PacketDropper.cc:81` sends packets of port 2 out of
port 2 again; a drop command forgets what is left of the one before it.

## 3. What is proved

All theorems hold for every value of the constants that satisfies the named
assumptions in the modules (`NumPaths`, `Quantum`, `MaxPkt` positive, packet
sizes in `1 .. MaxPkt`, rates and backlogs natural numbers, and so on). A bound
of the state space (`MaxQueue`, `MaxImbalance`, `MaxInFlight`, ...) is a constant
like the others, so no theorem rests on a small one.

| theorem | property | module |
|---|---|---|
| `SchemeInvariant` | `SchemeInv` | `LoadBalancing_proof` |
| `RRPacketFair` | `RoundRobinFair` | |
| `SRRByteFair` | `SurplusFair` | |
| `SDBalanced` | `SortedDeficitBalanced` | |
| `SDRefines` | `SDSendsToLeastLoaded` | |
| `DestSchemeInvariant`, `DSDBalanced` | the part of `DestinationsBalanced` about DSD | |
| `TPLeastLoaded` | `TwoPhaseSendsToLeastLoaded` | |
| `PacketsUpInOrder` | `UpInOrder` | |
| `ResequencerInvariant` | the inductive invariant | `HybridResequencer_proof` |
| `TimerIsForFront` | `TimerGuardsFront` | |
| `NothingReleasedTwice` | `ReleasedOnce` | |
| `LearnedWindowOrders` | `InOrderOnceLearned` | |
| `NoLossInvariant` | the inductive invariant | `Applications_proof` |
| `CountsWithoutLoss` | `CountsUnlessLossy` | |
| `EndsInTimeWithoutLoss` | `EndsInTimeUnlessLossy` | |
| `ReceiverCountsLosses` | `ReceiverWaitsForRest` | |
| `SearchFindsEdge` | `FindsEdge` | |
| `QueueInvariant` | the inductive invariant | `SwitchPortQueue_proof` |
| `PktLimitRespected` | `WithinPktLimit` | |
| `LineBusyWhileQueued` | `BusyWhileQueued` | |
| `ByteLimitRespected` | `WithinByteLimit` | |
| `OnePathKeepsOrder` | `ECMPKeepsOrder` | `FatTreeRouting_proof` |
| `PacketsStayOnRoute` | `OnRoute` | |
| `ControlMessagesArrive` | `ControlReachesReceivers` | |
| `CreditsAreLoads` | `CreditsTellLoads` | |
| `SwapIsPossible` | `SwapPossible` | |
| `ScriptIsRegular` | `ScriptRegular` | |
| `PairScriptRegular` | the part of `ScriptRegular` about paired permutations | |
| `BurstsMeetTheirRate` | `BurstsMeetRate`, a part of `Paced` | |
| `LayerInvariant` | the inductive invariant | `Scheduling_proof` |
| `VoqEventScheduled` | `QueuedHaveEvent` | |
| `VoqPaced` | `PacedUnlessAhead` | |
| `IdleVoqRemoved` | `IdleRemoved` | |
| `AllocationInvariant` | the inductive invariant | |
| `SourcesKeepToReservations` | `RateReserved` | |
| `ReservationsReleased` | `NoForgottenReservation` | |
| `TCPInvariant` | the inductive invariant | `TCPTest_proof` |
| `PeersKnown` | `ThreadsKnowPeers` | |
| `PortsAgree` | `MeasurementsAgree` | |

**Load balancing.** `SchemeInvariant` is `Spec => []SchemeInv`, and SchemeInv is
inductive as it stands because each scheme's part carries what its fairness
rests on:

* RR: `PacketFair` alone is not inductive: it says nothing about which path
  comes next. `RoundInv` adds that exactly the paths before the index have been
  used once more than those after it.
* SRR: `CreditsMatchLoad` (difference of loads = difference of counters) turns
  the question into one about counters; `CreditsBounded` bounds these between
  `1 - MaxPkt` and `Quantum`, and needs `VisitedSpent`: at a new round every
  path is spent, since those before the index were left spent and the scan
  passed the others. `ByteFair` follows by subtraction.
* SD: the path with the most credits has carried least, by `CreditsMatchLoad`;
  so charging one packet to it keeps `ByteBalanced`, independent of the quantum.
* Rehash: types and `CreditsBounded`.
* DSD and TP have `DestSchemeInv`: each set of counters, whenever it was created
  and however many rounds it has had, differs between two paths as what the
  paths have carried to that destination. With TP the sum of the two sets
  orders the paths as the sum of the two loads does, which is all that
  `TwoPhaseSendsToLeastLoaded` needs: rounds add the same to every path.

`SDRefines` shows `Spec => LLF!Spec`: each step of sorted deficit sends along a
least-loaded path (the same argument), any other scheme is mapped to a stutter.

**Hybrid resequencer.** `ResequencerInv` has, besides the two properties that
are inductive parts of it (`TimerGuardsFront`, `InOrderOnceLearned`):

* `StampsInv`: a timestamp tells packets apart, among those under way, waiting
  and released. Numbers do not, once a sender's buffer has aged out.
  `ReleasedOnce` follows from the timestamps.
* `NumbersInv`: until then numbers are in the order of timestamps.
* `AheadInv`: once the window covers all delays, what was sent since and is not
  released has no number below the expected one. This is where the window
  matters: a gap is given up when the front has waited for the longest delay of
  the network, and then whatever was sent before it has come or is lost.
* `BehindInv`: nor was it sent before a packet that has been released.

**Backlog.** While nothing is lost the receiver waits for what is to be sent or
under way, and `leftToFinish` is the number of unfinished servers; a server
signals when it finishes and once only, as it cannot finish without a send or
receive and has none after. Together with "ended only at count zero" this gives
`EndsInTimeWithoutLoss`. The number of servers and the schedule are arbitrary;
`UintMod` exceeds the number of servers. `ReceiverCountsLosses` holds with losses
too: a drop is counted at the destination unless the source's signal, which is
handled first, has just ended the simulation.

**Port queue.** Types, packet limit and busy line are inductive together, for
`UseVirtual = FALSE` (2.4, no. 6 has the counterexample for `TRUE`). The limit
in bytes is inductive with the types for both. The length in bytes is the
community modules' fold, which sums in an order that is not specified; that the
order does not matter, and with it `ByteLength(Append(q, p)) = ByteLength(q) + p`,
is proved by induction on the number of packets (`SumWithout`).

**Routing.** `OnePathKeepsOrder` does not need the shape of the tree. All of a
flow's packets have one path, so wherever `lookup()` takes them, they follow one
trail of ports. The invariant states that there is such a trail and a hop of it
for every packet, that a packet sent earlier is at no earlier hop, and that
packets at the same hop are queued in order (a trail that came back to a port
would not harm). Deliveries are then in order as well.

`PacketsStayOnRoute` is where the shape matters, for any depth and radices. At
each level, on the way up, a packet is at the switch whose number in its sub-tree
is the path divided by the number of paths that are reachable there, and the sub-tree is
named by the first digits of the source's address; on the way down, of the
destination's. One step of `Forward` must take the one to the other: a quotient
of a quotient is the quotient by the product (`DivisionTwice`), and the tables
`DownLinks` and `PathsReachable` are products of radices by recursion, which
`ProductsExist` allows to be unfolded one level at a time. Quotients and products
of unknown numbers are taken apart by `Division` and hidden behind names, as the
provers do not decide their arithmetic. That two addresses agree up to a level,
which is what `lookup()` compares, is a fact about prefixes (`Prefix...`).

**Control messages.** One to a server is a single copy on the route of path 0.
For a message to all switches, every switch has one port by which a flood
comes to it, `Entry`, and one neighbour that it comes from, `Sender`: the one below
if it is above the source, the first one above otherwise. `Flooded(copies,
received)` says that a copy is at its switch's entry, from one who has heard, to
one who has not; so none is received twice, whatever the order, and
no server is ever sent one. A switch whose sender floods down, or which is above
the source, has received the message or has a copy under way to it; in a tree of at
most three levels that is every switch, so when no copy is left all have it
(`FloodEnds`; for higher trees see 2.4, no. 3). The sizes of queues follow what the
switch has been told, and by `CablesAgree` both ends of a cable are queues for as
many links.

**Multi-phase balancing.** The balancer charges a *link*, a number it computes from the
path without asking anybody; the load is that of the *cable* that
`FatTreeRouting` takes. `LinksAreCables` shows that these are the same, at each
level on the way up (`UpCablesAre`) and down (`DownCablesAre`). Then credits
and loads agree per sub-tree (`Agree`): a packet charges one link and one cable of
the same number, and a new quantum is added to all links of a sub-tree
(`CreditStep`). The invariant needs that `choosePath()` yields a path of the
tree (`FirstLargest`), and that a packet visits each sub-tree once.

**Pairs of traffic.** `PairingInv`: every server has a partner, which has it as
partner, and servers up to the loop's index have theirs in other pods. If a server's
partner is in its own pod, then not all servers outside have partners in that
pod, since two of its places are taken by themselves (a pigeonhole argument on
the servers of a pod, each with a counterpart in any other one); so there is one
to swap with (`SwapFound`), and the swap keeps both of its pairs across pods
(`SwapKeepsPairs`). The theorem assumes that servers are even in number, as the
pairing of two halves of the list and the error commented out in
`TP_PairedPermutation.cc`, "can only be used with an even number of servers", do.

**Scripts.** `ScriptInv`: what has been written is the script of a pattern, made
of a pairing that `PairingInv` holds of. A pattern is regular because a server's receivers can be turned
into its senders and back (`CountsAgree`). For all-to-all traffic, partitions and a victim's tenant
that changes nothing (`SymmetricRegular`); for `LBDestImbalance` it is the mirror
image of the top-of-rack switch, in its pod and among the pods (`Mirror`); a pod
permutation sends one message each way. The last partition and the victim's
tenant have two servers or more, so none sends to itself. The theorem assumes of the
configuration what the patterns do: `TP_LBDestImbalance.cc` counts k/2 servers
per top-of-rack switch with pods k, and spreads a server's messages over as many
switches of a pod as there are paths per pod, which has to be fewer than it has;
and in a partition of one server the traffic would be to that server itself. In the
run, 6 servers in 3 pods with partitions of 4 satisfy all of it.

**Bursts.** `BurstsComputed`: for any bursts with a given length or gap, whatever they
were derived for before, `computeBurstParameters()` yields bursts that meet the rate
it is given, and it keeps signs such that the next call can. `Fraction` has the
value of its terms (`FractionIs`). `BurstInv` says that of all active messages and
the rates they have together, which are numbers as there are finitely many.

**Scheduling layer.** One record predicate per VOQ, `VoqInv`, and one lemma per
function of `VirtualOutputQueue`: a VOQ with packets has its event; what was sent
and not yet paid for by its rate is at most what its event waits for; and an
idle VOQ has been so for at most two timeouts less what is left to the next
check. The last needs `Armed`: once there is a VOQ, a check is at most a timeout
away. Bounds on rates, number of destinations and the length of the schedule are
arbitrary.

**Rate allocation.** `Agreed` relates a flow's record at the source, its record
at the destination and the packets between: the *last* response under way says
what the destination has reserved, and if there is none the source has heard
it. This holds with any number of requests and responses under way, though the
records also change while *other* flows are handled: `OnlyFlow` states that those
leave it alone. Most of the proof is that the allocation gives numbers at
all: sums over the flows of a link (`SumType`) and the share that is divided
among the flows that are not limited by their backlogs.

**TCP's peers.** A thread may be made from any message of TCP for a connection
without a socket, with the address in the message, so the invariant says of
every message under way, and of every packet in a port or on the line, that it
names the two ends of its connection; addresses survive the way to IP addresses
and back (`AddressesConvert`). That does not settle it: such a thread is one that
*receives*, and at the client's end it would be of the wrong type. It is
never made there, by `ClientOK`: no message of a connection comes to its client
before the thread was made, nor after the failure that removes the thread. The
servers, the messages, what is lost and in which order packets arrive are
arbitrary; TCP is the external model of `TCPTest`.

**What ports measure.** `BooksInv` is what `MeasurementsAgree` says, in terms that
each step changes by one. Per stream: what has left the sender's port and the
network (`Gone`) is what the receiver recorded plus what was lost. Both ends
judge by the sender's stamp, so a packet that crosses the end of the measurement
interval is recorded by both or neither (`LineBooks`). Per port: what it sent beyond
what it received or has on the line (`Excess`); these add up to the packets lost,
since a packet that arrives moves one from a port to another. A meter keeps its count
at the end of a batch (`UpdateFacts`). The sums are those of `SumFunction`, whose
recursion is taken apart by `SumRecursion`, and their lemmas say what one changed,
added or removed number does (`SumChange`, `SumOfMore`, `SumWithoutPlace`). The only
new assumption is that there are finitely many servers.

**Order in which packets go up.** `PacketsUpInOrder` is about numbers that wrap: the
model's packets carry the number they would have if numbers did not (`id`), which
the code cannot see, and `OrderInv` relates the two.

* `LiveInOrder`: packets under way or queued are in the order of their times, and
  within half the range of the next number. So a number seen modulo the range
  stands for one of them (`SameNumber`), and serial arithmetic compares two of
  them as their `id`s compare.
* `Expects(e)`: the expected number stands for some `e` that all queued packets are
  ahead of. What went up last precedes `e` and `e` is close to the next number,
  or else, after the buffer has been removed and made anew with 0, `e` is anywhere,
  but then no packet that can still go up precedes what went up. That last
  alternative is what makes the removal harmless, and it needs time:
* `EventFits`: an event that removes the buffer was set `BufferTimeout` ago, so what
  is still under way then was sent after what went up last.

The assumptions are those the code's parameters satisfy: a packet takes no longer
than `BufferTimeout` (10 s by default), serial arithmetic has at least two bits
(`Half`), `MAXTIME` is later than any time there is. The proof changed the model:
`SendPacket` bounds the distance of all numbers that are ever compared, and had
left out those that wait in the queue. With a `BufferTimeout` of 5 TLC then
found `UpInOrder` violated by a number from the round before, which 2^32 numbers
rule out; the bound now covers the queue, and also the 0 that a new buffer may
expect.

**Threshold search.** `SearchInv` has a part per search. Searching for a rate, and
for a queue size with the M/M/1/K model, the edge lies between the bounds found
so far, and so does the value that is tried (`RateBracketed`, `SizeBracketed`); the
search stops only when the bounds leave no room, which gives the result. For
this `NewRate` and `NewSize` must return a value strictly between the bounds,
or the old one when the gap is small, whatever the formulas said
(`NewRateFact`), and a step of the search by steps must stay between them where rounding
lets it go on (`NextRatesFact`). Numbers of flows, steps, parts and sizes are
arbitrary. About queues that had a limit in bytes, and about the decrement search of
sizes, the theorem says nothing, as `FindsEdge` does not: they do not find the edge
(2.4, no. 10 and 11).

**Induction.** The theorems of the library that take a predicate as a parameter
cannot be used with the provers at hand. Where a proof needs induction on the
natural numbers (sums over finite sets, products of radices, positions in a
sequence), it goes by `NatSetInduction` of the module `NumberLemmas`: a *set* of numbers with 0 and the successor of each of its
members contains every number, from `WFMin` and `NatLessThanWellFounded`. For the
same reason the models define recursion by recursive functions, not by RECURSIVE
operators, and `InOrderSeq` picks packets by number rather than sorting a set.

**Only model-checked:**

* liveness and what follows from fairness: `EventuallyReleased`,
  `EndsUnlessWaiting`, `EverythingArrives`, `SearchEnds`, `DeliveredOrBroken`
  (beyond the provers);
* `RehashWholeQuanta`, and the bound of two-phase in `DestinationsBalanced`, for
  which no inductive invariant was found that does not enumerate the counters;
* `KeepsWaiting` and `DroppedOnlyWhenLate`. The first is about timeouts within
  `BufferTimeout` of the start; the run also has those after it (2.4, no. 8). The second
  is not true of every value of the constants: a packet that comes after the
  buffer's removal with a number in the upper half is dropped as old however fast
  it was; `SendPacket` keeps to numbers below that, as a simulation with 2^32 numbers
  does;
* `EndlessIfUnshared`, a part of `Paced`;
* `EachBalanced` and `StaysWithinRate`, another part of `Paced`: how far loads
  differ and how far sending runs ahead is compared with bounds that are
  constants, right for the configuration of the run. What the bounds are for any
  tree and any rates is not known: the credits of one sub-tree are charged by the
  choices made for all others, and a message keeps the time of its next segment
  when rates change.

## 4. Not modelled, and why

* Parsing of scripts, emission of statistics, plots, drawing of random sizes:
  input and output, no protocol state.
* `packets/*_m.cc`: generated accessors. `common/matrix.h`: containers of the
  proxies, modelled as functions.
* Jitter of a port (`L2Queue`): a delay of the first transmission, on by option.
* The data rates of links, those of a logical tree included.
* Rebuilding of packets from cropped fields in `VirtualPacketQueue`: a packet of
  the model is its length.
* In the message application: other payload sizes than the largest and the
  alternating one, statistics of streams, and the sending loop of the application
  that active messages replaced (`sendNextSegment()` without arguments).
* `InetTCPWrapper` itself: the default configuration uses INET's TCP with the
  wrapper of its connections. A request for the status of a connection that TCP
  has dropped is never answered.
* Delays in streams' statistics, periodic measurement of a meter that divides by
  the time since the last one.
* `processing_scripts/`, `simulations/`: parameters and plots.

## 5. Plan

All components with protocol state are modelled, and every invariant that holds
for all values of the constants and for which an inductive one was found is
proved. Open are:

| module | property | what is missing |
|---|---|---|
| `MPLoadBalancer` | `EachBalanced` | a bound in terms of the tree and the quantum, instead of the constant `MaxImbalance` |
| `MessageApplication` | `StaysWithinRate` | likewise, instead of `MaxBurst` |
| `DestLoadBalancers` | `DestinationsBalanced` for two-phase | how far both sets of counters together may drift |
| `RehashLoadBalancer` | `RehashWholeQuanta` | an invariant that relates the bytes of a run to the counter's value before it |
| `MessageApplication` | `EndlessIfUnshared` | an invariant of bursts that have begun |
| `SequenceNumberResequencer` | `KeepsWaiting`, `DroppedOnlyWhenLate` | an inductive invariant of the event and the numbers; for the second, a condition on numbers stated by what the code's types allow |
