------------------------------- MODULE TCPTest ------------------------------
(***************************************************************************)
(* Servers whose TCP applications exchange messages over a network that    *)
(* delays and reorders packets, with a packet dropper before the port of   *)
(* one of them, as in the network TCPTest: application, TCP, network layer *)
(* and port of each server.  Passing a message between the layers of a     *)
(* server takes no time and is one step.                                   *)
(*                                                                         *)
(* TCP itself is INET's.  The model of it opens a connection with SYN and  *)
(* SYNACK, sends the message as one DATA segment that ACK confirms, tries  *)
(* again after a timeout, and gives up with RST after MaxTries.            *)
(***************************************************************************)
EXTENDS Integers, FiniteSets, Sequences, SequencesExt, TCPMessageApplication,
        PacketDropper, BandwidthMeter

CONSTANTS
  WarmupPeriod, SimTimeLimit, EveryPServers,   \* of the ports
  Dropped,      \* the server whose arriving packets pass the dropper
  StatusPeriod, \* getStatusPeriod
  StartTimes,   \* when messages, over TCP or UDP, may start
  DropTimes, DropCounts, MaxCommands,          \* the dropper's scripts
  MaxTries,     \* how often TCP sends a segment before it gives up
  MaxUdp,       \* UDP packets that are sent beside TCP
  MaxTime       \* bound: the clock stops here, after SimTimeLimit

ASSUME ServersAssumption == Servers \subseteq Nat /\ IsFiniteSet(Servers)
ASSUME StatsAssumption == WarmupPeriod \in Nat /\ SimTimeLimit \in Nat /\ EveryPServers \in Nat

Port == INSTANCE ServerPortQueue

NotSent == MaxTime + 1

VARIABLES
  now,
  starts,     \* [connection -> start time of its message, NotSent if there is none]
  port,       \* [server -> its port]
  client,     \* [connection -> TCP's state at the client]
  server,     \* [connection -> TCP's state at the server]
  tries,      \* [connection -> tries of the current segment]
  statusDue,  \* servers that ask for the status of their sockets now
  udp,        \* UDP packets still to be sent
  lostPkts,   \* packets that were dropped
  lostBytes   \* [connection -> bytes dropped of the stream from its first end to the second]

tcpVars == <<client, server, tries>>
lost == <<lostPkts, lostBytes>>
vars == <<now, starts, port, tcpVars, statusDue, udp, lost, appVars, dropperVars>>

Init ==
  /\ now = 0
  /\ starts \in [Connections -> StartTimes \cup {NotSent}]
  /\ port = [s \in Servers |-> Port!NewPort]
  /\ client = [conn \in Connections |-> "CLOSED"]
  /\ server = [conn \in Connections |-> "LISTEN"]
  /\ tries = [conn \in Connections |-> 0]
  /\ statusDue = {}
  /\ udp = MaxUdp
  /\ lostPkts = 0
  /\ lostBytes = [conn \in Connections |-> 0]
  /\ AppInit
  /\ \E script \in Scripts(DropTimes, DropCounts, MaxCommands) : DropperInit(script)

(* TCP hands a segment to the network layer, which hands the packet to the *)
(* port: from the client of a connection, or from its server, whose        *)
(* addresses are those of the segment that was received.                   *)
Size(kind) == IF kind = "DATA" THEN 2 ELSE 1

ToPeer(conn, kind) ==
  [srcIP |-> convertDCAddressToIP(conn[1]), destIP |-> convertDCAddressToIP(conn[2]),
   conn |-> conn, kind |-> kind, bytes |-> Size(kind)]

Reply(segment, kind) ==
  [srcIP |-> segment.destIP, destIP |-> segment.srcIP,
   conn |-> segment.conn, kind |-> kind, bytes |-> Size(kind)]

fromTcpLayer(ports, s, segment) ==
  [ports EXCEPT ![s] = Port!FromUpperLayer(@, encapsulateTCP(segment), now)]

Notify(s, conn, kinds, remoteIP) ==
  fromTcp' = [fromTcp EXCEPT ![s] = @ \o
    [i \in 1 .. Len(kinds) |-> [conn |-> conn, kind |-> kinds[i], remoteIP |-> remoteIP]]]

(* The start time of a message has come: activateMessage().                *)
ActivateMessage(conn) ==
  /\ client[conn] = "CLOSED"
  /\ starts[conn] <= now
  /\ outgoingConnection(conn[1], conn[2])
  /\ client' = [client EXCEPT ![conn] = "SYN_SENT"]
  /\ tries' = [tries EXCEPT ![conn] = 1]
  /\ port' = fromTcpLayer(port, conn[1], ToPeer(conn, "SYN"))
  /\ UNCHANGED <<now, starts, server, statusDue, udp, lost, numBroken, fromTcp, received, dropperVars>>

ApplicationHandles(s) ==
  /\ HandleFromTcp(s)
  /\ UNCHANGED <<now, starts, port, tcpVars, statusDue, udp, lost, dropperVars>>

(* getAllSocketStatus(), periodically: TCP answers for the connections that*)
(* it still has.                                                           *)
HasConnection(s, conn) ==
  IF conn[1] = s THEN client[conn] \in {"SYN_SENT", "ESTABLISHED", "DONE"}
                 ELSE server[conn] = "RECEIVED"

GetAllSocketStatus(s) ==
  /\ s \in statusDue
  /\ statusDue' = statusDue \ {s}
  /\ LET asked == SetToSeq({thread \in threads[s] : HasConnection(s, thread.conn)})
     IN  fromTcp' = [fromTcp EXCEPT ![s] = @ \o
           [i \in 1 .. Len(asked) |->
              [conn |-> asked[i].conn, kind |-> "STATUS",
               remoteIP |-> convertDCAddressToIP(asked[i].destination)]]]
  /\ UNCHANGED <<now, starts, port, tcpVars, udp, lost, threads, numBroken, received,
                 dropperVars>>

(* TCP receives a segment, with the ports after its arrival.               *)
ServerReceives(s, segment, ports) ==
  LET conn == segment.conn
      Answers(kind) == port' = fromTcpLayer(ports, s, Reply(segment, kind))
      Enters(state) == server' = [server EXCEPT ![conn] = state]
  IN  /\ CASE segment.kind = "SYN" /\ server[conn] \in {"LISTEN", "SYN_RCVD"} ->
                Enters("SYN_RCVD") /\ Answers("SYNACK") /\ UNCHANGED fromTcp
           [] segment.kind = "DATA" /\ server[conn] = "SYN_RCVD" ->
                /\ Enters("RECEIVED")
                /\ Answers("ACK")
                /\ Notify(s, conn, <<"ESTABLISHED", "DATA">>, segment.srcIP)
           [] segment.kind = "DATA" /\ server[conn] = "RECEIVED" ->
                Answers("ACK") /\ UNCHANGED <<server, fromTcp>>
           [] segment.kind = "RST" /\ server[conn] = "RECEIVED" ->
                /\ Enters("RESET")
                /\ port' = ports
                /\ Notify(s, conn, <<"FAILURE">>, segment.srcIP)
           [] OTHER -> port' = ports /\ UNCHANGED <<server, fromTcp>>
      /\ UNCHANGED <<client, tries>>

ClientReceives(s, segment, ports) ==
  LET conn == segment.conn
  IN  /\ CASE segment.kind = "SYNACK" /\ client[conn] = "SYN_SENT" ->
                /\ client' = [client EXCEPT ![conn] = "ESTABLISHED"]
                /\ tries' = [tries EXCEPT ![conn] = 1]
                /\ port' = fromTcpLayer(ports, s, Reply(segment, "DATA"))
                /\ Notify(s, conn, <<"ESTABLISHED">>, segment.srcIP)
           [] segment.kind = "ACK" /\ client[conn] = "ESTABLISHED" ->
                /\ client' = [client EXCEPT ![conn] = "DONE"]
                /\ port' = ports
                /\ UNCHANGED <<tries, fromTcp>>
           [] OTHER -> port' = ports /\ UNCHANGED <<client, tries, fromTcp>>
      /\ UNCHANGED server

(* The retransmission timer of the client, which is longer than a segment  *)
(* and its answer take: the segment is sent again, or the connection is    *)
(* given up.                                                               *)
Timeout(conn) ==
  /\ client[conn] \in {"SYN_SENT", "ESTABLISHED"}
  /\ \A s \in Servers : \A pkt \in ToSet(port[s].queue \o port[s].wire) :
       pkt.kind = "UDP" \/ pkt.conn # conn

Retransmit(conn) ==
  /\ Timeout(conn)
  /\ tries[conn] < MaxTries
  /\ tries' = [tries EXCEPT ![conn] = @ + 1]
  /\ LET kind == IF client[conn] = "SYN_SENT" THEN "SYN" ELSE "DATA"
     IN  port' = fromTcpLayer(port, conn[1], ToPeer(conn, kind))
  /\ UNCHANGED <<now, starts, client, server, statusDue, udp, lost, appVars, dropperVars>>

GiveUp(conn) ==
  /\ Timeout(conn)
  /\ tries[conn] = MaxTries
  /\ client' = [client EXCEPT ![conn] = "FAILED"]
  /\ port' = fromTcpLayer(port, conn[1], ToPeer(conn, "RST"))
  /\ Notify(conn[1], conn, <<"FAILURE">>, convertDCAddressToIP(conn[2]))
  /\ UNCHANGED <<now, starts, server, tries, statusDue, udp, lost, threads, numBroken, received,
                 dropperVars>>

SendUdp(s, dest) ==
  /\ udp > 0 /\ now \in StartTimes
  /\ udp' = udp - 1
  /\ port' = [port EXCEPT ![s] = Port!FromUpperLayer(@, UDPPacket(s, dest, 1), now)]
  /\ UNCHANGED <<now, starts, tcpVars, statusDue, lost, appVars, dropperVars>>

(* A packet arrives after its last bit has left the line of its sender.    *)
Arriving(s) ==
  1 .. Len(port[s].wire) - (IF port[s].left > 0 THEN 1 ELSE 0)

WithoutArrived(s, i) == [port EXCEPT ![s].wire = RemoveAt(@, i)]

(* The bytes of a packet that belong to the recorded stream to dest.       *)
StreamBytes(pkt, dest) ==
  IF pkt.destAddr = dest /\ Port!Recorded(pkt, dest) THEN pkt.bytes ELSE 0

DropPacket(s) ==
  \E i \in Arriving(s) :
    LET pkt == port[s].wire[i]
    IN  /\ pkt.destAddr = Dropped
        /\ Drops
        /\ port' = WithoutArrived(s, i)
        /\ lostPkts' = lostPkts + 1
        /\ lostBytes' = [lostBytes EXCEPT ![<<s, Dropped>>] = @ + StreamBytes(pkt, Dropped)]
        /\ UNCHANGED <<now, starts, tcpVars, statusDue, udp, appVars>>

(* handleMessage() of the port, then of the network layer and TCP; a UDP   *)
(* packet ends in the statistics of its application.                       *)
ReceivePacket(s) ==
  \E i \in Arriving(s) :
    LET pkt == port[s].wire[i]
        d == pkt.destAddr
        ports == [WithoutArrived(s, i) EXCEPT ![d] = Port!FromLine(@, d, pkt, now)]
    IN  /\ IF d = Dropped THEN PassesOn ELSE UNCHANGED dropperVars
        /\ \/ /\ toUdp(pkt)
              /\ port' = ports
              /\ UNCHANGED <<tcpVars, fromTcp>>
           \/ /\ toTcp(pkt)
              /\ LET segment == decapsulateTCP(pkt)
                 IN  IF segment.conn[1] = d THEN ClientReceives(d, segment, ports)
                                            ELSE ServerReceives(d, segment, ports)
        /\ UNCHANGED <<now, starts, statusDue, udp, lost, threads, numBroken, received>>

FinishTransmitting(s) ==
  /\ port[s].left = 0
  /\ port' = [port EXCEPT ![s] = Port!finishTransmitting(@, now)]
  /\ UNCHANGED <<now, starts, tcpVars, statusDue, udp, lost, appVars, dropperVars>>

DropEvent ==
  /\ HandleDropEvent(now)
  /\ UNCHANGED <<now, starts, port, tcpVars, statusDue, udp, lost, appVars>>

(* Time passes when nothing is left to do now, up to MaxTime: nothing that *)
(* happens later is recorded.                                              *)
Tick ==
  /\ statusDue = {}
  /\ \A s \in Servers : port[s].left # 0 /\ fromTcp[s] = << >>
  /\ \A conn \in Connections : client[conn] # "CLOSED" \/ starts[conn] > now
  /\ dropPacketEvent = NoEvent \/ dropPacketEvent.dropTime > now
  /\ now < MaxTime \/ \E s \in Servers : port[s].left > 0
  /\ now' = IF now < MaxTime THEN now + 1 ELSE now
  /\ statusDue' = IF now' # now /\ now' % StatusPeriod = 0 THEN Servers ELSE {}
  /\ port' = [s \in Servers |-> [port[s] EXCEPT !.left = IF @ > 0 THEN @ - 1 ELSE @]]
  /\ UNCHANGED <<starts, tcpVars, udp, lost, appVars, dropperVars>>

Next ==
  \/ \E conn \in Connections : ActivateMessage(conn) \/ Retransmit(conn) \/ GiveUp(conn)
  \/ \E conn \in Connections : SendUdp(conn[1], conn[2])
  \/ \E s \in Servers :
       \/ ApplicationHandles(s) \/ GetAllSocketStatus(s)
       \/ DropPacket(s) \/ ReceivePacket(s) \/ FinishTransmitting(s)
  \/ DropEvent
  \/ Tick

(* Events happen when they are due; a packet of the network arrives, and a *)
(* timer of TCP expires if it is not stopped.                              *)
Fairness ==
  /\ \A conn \in Connections :
       /\ WF_vars(ActivateMessage(conn))
       /\ WF_vars(Retransmit(conn) \/ GiveUp(conn))
  /\ \A s \in Servers :
       /\ WF_vars(ApplicationHandles(s) \/ GetAllSocketStatus(s))
       /\ WF_vars(FinishTransmitting(s))
       /\ WF_vars(DropPacket(s) \/ ReceivePacket(s))
  /\ WF_vars(DropEvent)
  /\ WF_vars(Tick)

Spec == Init /\ [][Next]_vars /\ Fairness
-----------------------------------------------------------------------------
(* The address conversions of VirtualIP, its control info and the          *)
(* application agree: the thread of a socket knows the server at the other *)
(* end of its connection, whichever message of TCP made it.                *)
ThreadsKnowPeers ==
  \A s \in Servers : \A thread \in threads[s] :
    \/ thread.type = "send" /\ thread.conn = <<s, thread.destination>>
    \/ thread.type = "receive" /\ thread.conn = <<thread.destination, s>>

(* The bytes of a stream that are under way; the packets that a port has   *)
(* begun to send, and those that it has received or that are under way.    *)
Underway(wire, dest) ==
  SumFunction([i \in DOMAIN wire |-> StreamBytes(wire[i], dest)])

PktsSent(p) == PktsCounted(p.tx) + (IF p.left = Port!Idle THEN 0 ELSE 1)
PktsLeft(p) == PktsCounted(p.rx) + Len(p.wire)

(* What ports measure at different times is the same but for what is on    *)
(* the way or dropped: the bytes of a stream, which both ends judge by the *)
(* stamp of the sender, and the packets of the bandwidth meters, whatever  *)
(* their batches.                                                          *)
MeasurementsAgree ==
  /\ \A conn \in Connections :
       port[conn[1]].sendingStreams[conn[2]] =
         port[conn[2]].receivingStreams[conn[1]] + lostBytes[conn]
           + Underway(port[conn[1]].wire, conn[2])
  /\ SumFunction([s \in Servers |-> PktsSent(port[s])])
       = SumFunction([s \in Servers |-> PktsLeft(port[s])]) + lostPkts

(* Every message is received or its failure counted by the sender.         *)
Settled(conn) ==
  \/ starts[conn] = NotSent
  \/ conn \in received
  \/ /\ client[conn] = "FAILED"
     /\ numBroken[conn[1]] > 0
     /\ SocketOf(conn[1], conn) = {}

DeliveredOrBroken == \A conn \in Connections : <>Settled(conn)
=============================================================================
