--------------------------- MODULE FatTreeRouting ---------------------------
(***************************************************************************)
(* The control processors of the switches.  Packets go up the tree along   *)
(* the path that the source's load balancer has chosen, until they are in  *)
(* the sub-tree of their destination, then down by the digits of its       *)
(* address.  Control messages overtake the queues of the ports; those to   *)
(* all switches are flooded.                                               *)
(*                                                                         *)
(* A behaviour has the packets of one flow, to which other packets only    *)
(* are delay in the first-in first-out queues, or one control message:     *)
(* what handles the ones neither reads nor changes what the others use.    *)
(***************************************************************************)
EXTENDS FatTree, Sequences

CONSTANTS
  BROADCAST_SWITCHES,   \* destination of a message for all switches
  DefaultQueueSize,     \* size of the queue of a link that the tree is built with
  UpdatedQueueSize,     \* size that a message for all switches gives to them
  NumPkts               \* bound: packets of a flow

ASSUME BroadcastAssumption == BROADCAST_SWITCHES \notin Servers
ASSUME QueueSizeAssumption == {DefaultQueueSize, UpdatedQueueSize} \subseteq Nat \ {0}
ASSUME NumPktsAssumption == NumPkts \in Nat \ {0}

VARIABLES
  flow,              \* source, destination and what is sent, never changed:
                     \* packets by the source's load balancer, or a control message
  numSent,           \* packets or messages sent so far
  pathAssignments,   \* pathAssignments_ of ECMPLoadBalancer at the source
  queue,             \* packets in the queue of each port, the one on the line first
  delivered,         \* history: packets in the order they came to a server
  queueSize,         \* limit of the queue of each port of a switch
  control,           \* copies of the control message about to arrive at a port
  controlReceived    \* history: how often a server or a switch was the receiver

vars == <<flow, numSent, pathAssignments, queue, delivered, queueSize, control,
          controlReceived>>

Flows ==
  [sends : {"ECMP", "VLB"}, src : Servers, dest : Servers]
    \cup [sends : {"control"}, src : Servers, dest : Servers \cup {BROADCAST_SWITCHES}]

(* The sizes that the generator writes into the network.                   *)
QueueSizesAsBuilt == [p \in SwitchPorts |-> LinksOfPort(p) * DefaultQueueSize]

Init ==
  /\ flow \in Flows
  /\ numSent = 0
  /\ pathAssignments = << >>
  /\ queue = [p \in Ports |-> << >>]
  /\ delivered = << >>
  /\ queueSize = QueueSizesAsBuilt
  /\ control = {}
  /\ controlReceived = [n \in Nodes |-> 0]

(* Mutant of ChosenPaths: ECMP draws a path for every packet, too.         *)
ChosenPathsAnew(dest) == Paths

(* choosePath(): ECMP draws a path for the first packet to a destination,  *)
(* VLB for every packet.  VLB stands for all other schemes as well.        *)
ChosenPaths(dest) ==
  IF dest \in DOMAIN pathAssignments THEN {pathAssignments[dest]} ELSE Paths

UpPort(node, number) == [node |-> node, dir |-> "up", number |-> number]
DownPort(node, number) == [node |-> node, dir |-> "down", number |-> number]

SendPacket ==
  /\ flow.sends # "control"
  /\ numSent < NumPkts
  /\ numSent' = numSent + 1
  /\ \E path \in ChosenPaths(flow.dest) :
       /\ pathAssignments' = IF flow.sends = "ECMP"
                             THEN [d \in {flow.dest} |-> path] ELSE pathAssignments
       /\ queue' = [queue EXCEPT ![UpPort(Server(flow.src), 0)] =
                      Append(@, [id |-> numSent, path |-> path])]
  /\ UNCHANGED <<flow, delivered, queueSize, control, controlReceived>>

(* lookup(): the port on which a switch sends a message on.                *)
lookup(sw, dest, path) ==
  IF compareSubTree(sw.depth, sw.tree, dest)
  THEN DownPort(sw, getLevelID(sw.depth, dest))
  ELSE UpPort(sw, getPathID(sw.depth, path))

(* The first packet of a queue arrives at the other end of the cable: at   *)
(* its server, or in the queue of another port.                            *)
Forward(port) ==
  /\ queue[port] # << >>
  /\ LET pkt  == Head(queue[port])
         node == Peer(port).node
         left == [queue EXCEPT ![port] = Tail(@)]
     IN  IF node.depth = tree_depth
         THEN /\ queue' = left
              /\ delivered' = Append(delivered, [id |-> pkt.id, at |-> node.tree])
         ELSE /\ queue' = [left EXCEPT ![lookup(node, flow.dest, pkt.path)] = Append(@, pkt)]
              /\ UNCHANGED delivered
  /\ UNCHANGED <<flow, numSent, pathAssignments, queueSize, control, controlReceived>>

(* The message is handled at a node, and copies leave on some of its ports. *)
Handled(node, arrived, out, received) ==
  /\ control' = (control \ arrived) \cup {Peer(p) : p \in out}
  /\ controlReceived' = IF received THEN [controlReceived EXCEPT ![node] = @ + 1]
                        ELSE controlReceived
  /\ UNCHANGED <<flow, pathAssignments, queue, delivered>>

(* handleMessage() of the ControlLogic of a server: the message is for a   *)
(* module of this server, or it leaves on the server's port.               *)
ControlLogic(server, arrived) ==
  LET here == flow.dest = server.tree
  IN  Handled(server, arrived, IF here THEN {} ELSE {UpPort(server, 0)}, here)

SendControl ==
  /\ flow.sends = "control"
  /\ numSent = 0
  /\ numSent' = 1
  /\ ControlLogic(Server(flow.src), {})
  /\ UNCHANGED queueSize

(* Mutant of FloodsDown: every switch floods down.                         *)
FloodsDownAlways(sw) == sw.depth < tree_depth - 1

(* The switches that flood down, among all that a flood up has reached.    *)
FloodsDown(sw) ==
  /\ sw.depth < tree_depth - 1
  /\ IF sw.depth = 0 THEN sw.index % up_radix[1] = 0 ELSE sw.index = 0

(* flood(): the ports on which copies leave.                               *)
Flood(arrival) ==
  LET sw == arrival.node
  IN  (IF FloodsDown(sw) THEN {DownPort(sw, n) : n \in DownPorts(sw)} \ {arrival} ELSE {})
        \cup (IF arrival.dir = "down" THEN {UpPort(sw, n) : n \in UpPorts(sw)} ELSE {})

(* updateQueueSize(): the size told is that of the queue of one link.      *)
updateQueueSize(sw) ==
  queueSize' = [p \in SwitchPorts |->
                  IF p.node = sw THEN LinksOfPort(p) * UpdatedQueueSize ELSE queueSize[p]]

(* handleMessage() of a control processor for a control message: it is     *)
(* flooded and received, or sent on along path 0.  What is sent to all     *)
(* switches is a size of their queues.                                     *)
HandleControl(arrival) ==
  /\ arrival \in control
  /\ \/ /\ arrival.node.depth = tree_depth
        /\ ControlLogic(arrival.node, {arrival})
        /\ UNCHANGED queueSize
     \/ /\ arrival.node.depth < tree_depth
        /\ flow.dest = BROADCAST_SWITCHES
        /\ Handled(arrival.node, {arrival}, Flood(arrival), TRUE)
        /\ updateQueueSize(arrival.node)
     \/ /\ arrival.node.depth < tree_depth
        /\ flow.dest # BROADCAST_SWITCHES
        /\ Handled(arrival.node, {arrival}, {lookup(arrival.node, flow.dest, 0)}, FALSE)
        /\ UNCHANGED queueSize
  /\ UNCHANGED numSent

Next ==
  \/ SendPacket
  \/ \E port \in Ports : Forward(port)
  \/ SendControl
  \/ \E port \in Ports : HandleControl(port)

(* Queues have no limit, so packets move on; control messages do at once.  *)
Fairness ==
  \A port \in Ports : WF_vars(Forward(port)) /\ WF_vars(HandleControl(port))

Spec == Init /\ [][Next]_vars /\ Fairness
-----------------------------------------------------------------------------
TypeOK ==
  /\ flow \in Flows
  /\ numSent \in 0 .. NumPkts
  /\ DOMAIN pathAssignments \subseteq {flow.dest}
  /\ \A d \in DOMAIN pathAssignments : pathAssignments[d] \in Paths
  /\ \A p \in Ports : queue[p] \in Seq([id : 0 .. NumPkts - 1, path : Paths])
  /\ DOMAIN queue = Ports
  /\ delivered \in Seq([id : 0 .. NumPkts - 1, at : Servers])
  /\ queueSize \in [SwitchPorts -> Nat]
  /\ control \subseteq Ports
  /\ controlReceived \in [Nodes -> Nat]

(* Every packet stays on its route: up from the source through the         *)
(* sub-trees that do not hold the destination, then down through those     *)
(* that do, at each level by the one switch that belongs to its path, so   *)
(* that distinct paths lead through distinct intermediate switches; it     *)
(* leaves the tree at its destination (ControlProcessor::lookup).          *)
OnRoute ==
  /\ \A port \in Ports : \A i \in DOMAIN queue[port] :
       LET n == port.node
       IN  /\ n.index = queue[port][i].path \div paths_reachable[n.depth]
           /\ n.tree = SubTree(n.depth, IF port.dir = "up" THEN flow.src ELSE flow.dest)
           /\ port.dir = "up" /\ n.depth < tree_depth
                => SubTree(n.depth, flow.dest) # n.tree
  /\ \A i \in DOMAIN delivered : delivered[i].at = flow.dest

(* ECMP keeps the packets of a flow in order, however they are delayed in  *)
(* queues (ECMPLoadBalancer::choosePath, "Use the same path to the same    *)
(* destination").                                                          *)
ECMPKeepsOrder ==
  flow.sends = "ECMP" =>
    \A i, j \in DOMAIN delivered : i < j => delivered[i].id < delivered[j].id

(* ControlMessage.msg of BROADCAST_SWITCHES: "Message is desitined for all *)
(* switches".                                                              *)
ReachesAllSwitches ==
  numSent = 1 /\ control = {} /\ flow.dest = BROADCAST_SWITCHES =>
    \A sw \in Switches : controlReceived[sw] = 1

IsReceiver(n) ==
  IF flow.dest = BROADCAST_SWITCHES THEN n \in Switches ELSE n = Server(flow.dest)

(* Both ends of a cable between switches have queues of one size, before   *)
(* and after they hear of another, although each computes its own from the *)
(* level it is at; without logical links it is the size that was told.     *)
QueueSizesAgree ==
  \A p \in SwitchPorts :
    LET q == Peer(p)
    IN  /\ q \in SwitchPorts /\ controlReceived[p.node] = controlReceived[q.node]
             => queueSize[p] = queueSize[q]
        /\ paths_reachable[tree_depth] > 1
             => queueSize[p] = IF controlReceived[p.node] = 0
                               THEN DefaultQueueSize ELSE UpdatedQueueSize

(* A control message comes to its server, a broadcast to all switches in   *)
(* trees of at most three levels, each of them once and to no other node,  *)
(* although it goes up and down by many links (ControlProcessor::flood);   *)
(* the switches it has come to agree on the sizes it tells them.           *)
ControlReachesReceivers ==
  /\ QueueSizesAgree
  /\ tree_depth <= 3 => ReachesAllSwitches
  /\ \A n \in Nodes : controlReceived[n] <= IF IsReceiver(n) THEN 1 ELSE 0
  /\ flow.sends = "control" /\ flow.dest \in Servers /\ numSent = 1 /\ control = {}
       => controlReceived[Server(flow.dest)] = 1

(* No message goes round in circles: whatever is sent arrives.             *)
EverythingArrives ==
  \A n \in 1 .. NumPkts :
    numSent = n ~> /\ flow.sends = "control" => control = {}
                   /\ flow.sends # "control" => Len(delivered) >= n

=============================================================================
