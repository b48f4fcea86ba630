---------------------------- MODULE TCPTest_proof ----------------------------
(***************************************************************************)
(* The application's threads know their peers, and what ports measure at   *)
(* both ends agrees: for any number of servers and messages, whatever the  *)
(* network drops, delays or reorders, and whenever TCP's messages to the   *)
(* application are handled.                                                *)
(***************************************************************************)
EXTENDS TCPTest, NumberLemmas, SequenceTheorems

(* The ends of a connection are a server and its peer.                     *)
Between(conn, s, peer) == conn = <<s, peer>> \/ conn = <<peer, s>>

Packets(s) ==
  {pkt \in [srcAddr : {s}, destAddr : Servers, transportProtocol : {"TCP", "UDP"},
            conn : Connections, kind : {"SYN", "SYNACK", "DATA", "ACK", "RST", "UDP"},
            bytes : {1, 2}, timestamp : Nat] : Between(pkt.conn, s, pkt.destAddr)}

Messages(s) ==
  {msg \in [conn : Connections, kind : {"ESTABLISHED", "DATA", "FAILURE", "STATUS"},
            remoteIP : Nat \ {0}] :
     Between(msg.conn, s, convertIPAddressToDC(msg.remoteIP))}

Threads(s) ==
  {thread \in [conn : Connections, type : {"send", "receive"}, destination : Servers] :
     thread.conn = IF thread.type = "send" THEN <<s, thread.destination>>
                                           ELSE <<thread.destination, s>>}

IsPort(s, p) ==
  /\ p = [queue |-> p.queue, left |-> p.left, bitsOnWire |-> p.bitsOnWire, wire |-> p.wire,
          tx |-> p.tx, rx |-> p.rx,
          sendingStreams |-> p.sendingStreams, receivingStreams |-> p.receivingStreams]
  /\ p.queue \in Seq(Packets(s)) /\ p.wire \in Seq(Packets(s))

PortsOK(ports) == DOMAIN ports = Servers /\ \A s \in Servers : IsPort(s, ports[s])

Open == {"SYN_SENT", "ESTABLISHED", "DONE"}

(* At the client of a connection, TCP's messages of it find its thread:    *)
(* none comes after that of its failure, which removes the thread.         *)
ClientOK(conn, state, found, msgs) ==
  LET sender == Thread(conn, "send", conn[2])
      Of(i) == msgs[i].conn = conn
      Fails(i) == Of(i) /\ msgs[i].kind = "FAILURE"
  IN  /\ state = "CLOSED" => \A i \in DOMAIN msgs : ~ Of(i)
      /\ state \in Open => sender \in found /\ \A i \in DOMAIN msgs : ~ Fails(i)
      /\ \A i \in DOMAIN msgs : Of(i) => sender \in found
      /\ \A i, j \in DOMAIN msgs : Fails(i) /\ i < j => ~ Of(j)

TCPInv ==
  /\ now \in Nat /\ PortsOK(port)
  /\ client \in [Connections -> Open \cup {"CLOSED", "FAILED"}]
  /\ DOMAIN threads = Servers
  /\ \A s \in Servers : threads[s] \subseteq Threads(s) /\ IsFiniteSet(threads[s])
  /\ DOMAIN fromTcp = Servers /\ \A s \in Servers : fromTcp[s] \in Seq(Messages(s))
  /\ \A conn \in Connections :
       ClientOK(conn, client[conn], threads[conn[1]], fromTcp[conn[1]])

-----------------------------------------------------------------------------
(* Addresses.                                                              *)

(* The addresses of servers survive the way to IP addresses and back.      *)
LEMMA AddressesConvert ==
  \A a \in Servers : /\ a \in Nat /\ convertDCAddressToIP(a) \in Nat \ {0}
                     /\ convertIPAddressToDC(convertDCAddressToIP(a)) = a
BY ServersAssumption DEF convertDCAddressToIP, convertIPAddressToDC

(* The ends of a connection.                                               *)
LEMMA ConnectionEnds ==
  ASSUME NEW conn \in Connections
  PROVE  /\ conn[1] \in Servers /\ conn[2] \in Servers /\ conn[1] # conn[2]
         /\ conn = <<conn[1], conn[2]>>
BY DEF Connections

(* Each end of a connection knows the other.                               *)
LEMMA PeerIsOtherEnd ==
  ASSUME NEW conn \in Connections, NEW s, NEW peer, Between(conn, s, peer)
  PROVE  /\ Between(conn, peer, s) /\ s # peer /\ s \in Servers /\ peer \in Servers
         /\ conn[1] = s => conn[2] = peer
         /\ conn[1] # s => conn[2] = s /\ conn[1] = peer
         /\ conn = IF conn[1] = s THEN <<s, peer>> ELSE <<peer, s>>
BY ConnectionEnds DEF Between

-----------------------------------------------------------------------------
(* Ports.                                                                  *)

(* A port with another value of a field.                                   *)
WithQueue(p, value) == [p EXCEPT !.queue = value]
WithWire(p, value) == [p EXCEPT !.wire = value]
WithLeft(p, value) == [p EXCEPT !.left = value]
WithBits(p, value) == [p EXCEPT !.bitsOnWire = value]
WithTx(p, value) == [p EXCEPT !.tx = value]
WithRx(p, value) == [p EXCEPT !.rx = value]
WithSent(p, value) == [p EXCEPT !.sendingStreams = value]
WithReceived(p, value) == [p EXCEPT !.receivingStreams = value]

(* Only queue and wire matter.                                             *)
LEMMA FieldsFree ==
  ASSUME NEW s, NEW p, IsPort(s, p), NEW value
  PROVE  /\ value \in Seq(Packets(s)) => IsPort(s, WithQueue(p, value)) /\ IsPort(s, WithWire(p, value))
         /\ IsPort(s, WithLeft(p, value)) /\ IsPort(s, WithBits(p, value))
         /\ IsPort(s, WithTx(p, value)) /\ IsPort(s, WithRx(p, value))
         /\ IsPort(s, WithSent(p, value)) /\ IsPort(s, WithReceived(p, value))
<1>0. /\ p.queue \in Seq(Packets(s)) /\ p.wire \in Seq(Packets(s))
      /\ p = [queue |-> p.queue, left |-> p.left, bitsOnWire |-> p.bitsOnWire, wire |-> p.wire,
              tx |-> p.tx, rx |-> p.rx,
              sendingStreams |-> p.sendingStreams, receivingStreams |-> p.receivingStreams]
  BY DEF IsPort
<1>1. ASSUME value \in Seq(Packets(s)) PROVE IsPort(s, WithQueue(p, value))
  <2>1. WithQueue(p, value)
          = [queue |-> value, left |-> p.left, bitsOnWire |-> p.bitsOnWire, wire |-> p.wire,
             tx |-> p.tx, rx |-> p.rx,
             sendingStreams |-> p.sendingStreams, receivingStreams |-> p.receivingStreams]
    BY <1>0 DEF WithQueue
  <2> QED BY <1>0, <1>1, <2>1 DEF IsPort
<1>2. ASSUME value \in Seq(Packets(s)) PROVE IsPort(s, WithWire(p, value))
  <2>1. WithWire(p, value)
          = [queue |-> p.queue, left |-> p.left, bitsOnWire |-> p.bitsOnWire, wire |-> value,
             tx |-> p.tx, rx |-> p.rx,
             sendingStreams |-> p.sendingStreams, receivingStreams |-> p.receivingStreams]
    BY <1>0 DEF WithWire
  <2> QED BY <1>0, <1>2, <2>1 DEF IsPort
<1>3. IsPort(s, WithLeft(p, value))
  <2>1. WithLeft(p, value)
          = [queue |-> p.queue, left |-> value, bitsOnWire |-> p.bitsOnWire, wire |-> p.wire,
             tx |-> p.tx, rx |-> p.rx,
             sendingStreams |-> p.sendingStreams, receivingStreams |-> p.receivingStreams]
    BY <1>0 DEF WithLeft
  <2> QED BY <1>0, <2>1 DEF IsPort
<1>4. IsPort(s, WithBits(p, value))
  <2>1. WithBits(p, value)
          = [queue |-> p.queue, left |-> p.left, bitsOnWire |-> value, wire |-> p.wire,
             tx |-> p.tx, rx |-> p.rx,
             sendingStreams |-> p.sendingStreams, receivingStreams |-> p.receivingStreams]
    BY <1>0 DEF WithBits
  <2> QED BY <1>0, <2>1 DEF IsPort
<1>5. IsPort(s, WithTx(p, value))
  <2>1. WithTx(p, value)
          = [queue |-> p.queue, left |-> p.left, bitsOnWire |-> p.bitsOnWire, wire |-> p.wire,
             tx |-> value, rx |-> p.rx,
             sendingStreams |-> p.sendingStreams, receivingStreams |-> p.receivingStreams]
    BY <1>0 DEF WithTx
  <2> QED BY <1>0, <2>1 DEF IsPort
<1>6. IsPort(s, WithRx(p, value))
  <2>1. WithRx(p, value)
          = [queue |-> p.queue, left |-> p.left, bitsOnWire |-> p.bitsOnWire, wire |-> p.wire,
             tx |-> p.tx, rx |-> value,
             sendingStreams |-> p.sendingStreams, receivingStreams |-> p.receivingStreams]
    BY <1>0 DEF WithRx
  <2> QED BY <1>0, <2>1 DEF IsPort
<1>7. IsPort(s, WithSent(p, value))
  <2>1. WithSent(p, value)
          = [queue |-> p.queue, left |-> p.left, bitsOnWire |-> p.bitsOnWire, wire |-> p.wire,
             tx |-> p.tx, rx |-> p.rx,
             sendingStreams |-> value, receivingStreams |-> p.receivingStreams]
    BY <1>0 DEF WithSent
  <2> QED BY <1>0, <2>1 DEF IsPort
<1>8. IsPort(s, WithReceived(p, value))
  <2>1. WithReceived(p, value)
          = [queue |-> p.queue, left |-> p.left, bitsOnWire |-> p.bitsOnWire, wire |-> p.wire,
             tx |-> p.tx, rx |-> p.rx,
             sendingStreams |-> p.sendingStreams, receivingStreams |-> value]
    BY <1>0 DEF WithReceived
  <2> QED BY <1>0, <2>1 DEF IsPort
<1> QED BY <1>1, <1>2, <1>3, <1>4, <1>5, <1>6, <1>7, <1>8

(* A packet begins to be sent.                                             *)
LEMMA StartFacts ==
  ASSUME NEW s, NEW p, IsPort(s, p), NEW pkt \in Packets(s), NEW time \in Nat
  PROVE  IsPort(s, Port!startTransmitting(p, pkt, time))
<1> DEFINE stamped == [pkt EXCEPT !.timestamp = time]
           w == Append(p.wire, stamped)
           streams == Port!recordSendStream(p.sendingStreams, stamped)
<1>1. stamped \in Packets(s)
  BY DEF Packets
<1>2. w \in Seq(Packets(s))
  BY <1>1 DEF IsPort
<1>3. Port!startTransmitting(p, pkt, time)
        = [p EXCEPT !.bitsOnWire = pkt.bytes, !.left = pkt.bytes, !.wire = w,
                    !.sendingStreams = streams]
  BY DEF Port!startTransmitting
<1> HIDE DEF w, streams
<1>4. Port!startTransmitting(p, pkt, time)
        = WithSent(WithWire(WithLeft(WithBits(p, pkt.bytes), pkt.bytes), w), streams)
  BY <1>3 DEF WithSent, WithWire, WithLeft, WithBits
<1>5. IsPort(s, WithLeft(WithBits(p, pkt.bytes), pkt.bytes))
  BY FieldsFree
<1> QED BY <1>2, <1>4, <1>5, FieldsFree

(* A packet comes from the layer above.                                    *)
LEMMA FromUpperFacts ==
  ASSUME NEW s, NEW p, IsPort(s, p), NEW pkt \in Packets(s), NEW time \in Nat
  PROVE  IsPort(s, Port!FromUpperLayer(p, pkt, time))
<1> DEFINE q == Append(p.queue, pkt)
<1>1. q \in Seq(Packets(s))
  BY DEF IsPort
<1>2. \/ Port!FromUpperLayer(p, pkt, time) = Port!startTransmitting(p, pkt, time)
      \/ Port!FromUpperLayer(p, pkt, time) = WithQueue(p, q)
  BY DEF Port!FromUpperLayer, WithQueue
<1>3. IsPort(s, Port!startTransmitting(p, pkt, time))
  BY StartFacts
<1>4. IsPort(s, WithQueue(p, q))
  BY <1>1, FieldsFree
<1> QED BY <1>2, <1>3, <1>4

(* A packet comes from the network.                                        *)
LEMMA FromLineFacts ==
  ASSUME NEW s, NEW p, IsPort(s, p), NEW pkt, NEW time
  PROVE  IsPort(s, Port!FromLine(p, s, pkt, time))
<1> DEFINE rx == Port!updateStats(p.rx, time, pkt.bytes)
           streams == Port!recordReceiveStream(p.receivingStreams, s, pkt)
<1>1. Port!FromLine(p, s, pkt, time) = [p EXCEPT !.rx = rx, !.receivingStreams = streams]
  BY DEF Port!FromLine
<1> HIDE DEF rx, streams
<1>2. Port!FromLine(p, s, pkt, time) = WithReceived(WithRx(p, rx), streams)
  BY <1>1 DEF WithReceived, WithRx
<1>3. IsPort(s, WithRx(p, rx))
  BY FieldsFree
<1> QED BY <1>2, <1>3, FieldsFree

(* The line is free for the next packet.                                   *)
LEMMA FinishFacts ==
  ASSUME NEW s, NEW p, IsPort(s, p), NEW time \in Nat
  PROVE  IsPort(s, Port!finishTransmitting(p, time))
<1> DEFINE rest == [p EXCEPT !.queue = Tail(@)]
           next == IF p.queue = << >>
                   THEN [p EXCEPT !.left = Port!Idle]
                   ELSE Port!startTransmitting(rest, Head(p.queue), time)
           tx == Port!updateStats(next.tx, time, next.bitsOnWire)
<1>1. IsPort(s, next)
  <2>1. CASE p.queue = << >>
    <3>1. next = WithLeft(p, Port!Idle)
      BY <2>1 DEF WithLeft
    <3> QED BY <3>1, FieldsFree
  <2>2. CASE p.queue # << >>
    <3> DEFINE q == Tail(p.queue)
    <3>1. q \in Seq(Packets(s)) /\ Head(p.queue) \in Packets(s)
      BY <2>2 DEF IsPort
    <3>2. rest = WithQueue(p, q)
      BY DEF WithQueue
    <3> HIDE DEF q, rest
    <3>3. IsPort(s, rest)
      BY <3>1, <3>2, FieldsFree
    <3> QED BY <2>2, <3>1, <3>3, StartFacts
  <2> QED BY <2>1, <2>2
<1>2. Port!finishTransmitting(p, time) = WithTx(next, tx)
  BY DEF Port!finishTransmitting, WithTx
<1> HIDE DEF next, tx
<1> QED BY <1>1, <1>2, FieldsFree

(* A packet leaves the network for its receiver or the dropper.            *)
LEMMA ArrivedFacts ==
  ASSUME PortsOK(port), NEW s \in Servers, NEW i \in Arriving(s)
  PROVE  /\ PortsOK(WithoutArrived(s, i)) /\ port[s].wire[i] \in Packets(s)
<1> DEFINE w == port[s].wire
           n == Len(w)
<1>1. w \in Seq(Packets(s)) /\ n \in Nat /\ IsPort(s, port[s])
  BY DEF PortsOK, IsPort
<1>2. i \in 1 .. n
  <2>1. i \in 1 .. n \/ i \in 1 .. n - 1
    <3>1. Arriving(s) = 1 .. n - (IF port[s].left > 0 THEN 1 ELSE 0)
      BY DEF Arriving
    <3> HIDE DEF n
    <3> QED BY <1>1, <3>1
  <2> HIDE DEF n
  <2> QED BY <1>1, <2>1
<1>3. w[i] \in Packets(s)
  BY <1>1, <1>2, ElementOfSeq
<1>4. RemoveAt(w, i) \in Seq(Packets(s))
  <2>1. SubSeq(w, 1, i - 1) \in Seq(Packets(s)) /\ SubSeq(w, i + 1, n) \in Seq(Packets(s))
    BY <1>1, <1>2
  <2> HIDE DEF n, w
  <2>2. SubSeq(w, 1, i - 1) \o SubSeq(w, i + 1, n) \in Seq(Packets(s))
    BY <2>1, ConcatProperties
  <2> QED BY <2>2 DEF RemoveAt, n
<1>5. IsPort(s, [port[s] EXCEPT !.wire = RemoveAt(w, i)])
  <2> DEFINE v == RemoveAt(w, i)
  <2>1. v \in Seq(Packets(s))
    BY <1>4
  <2> HIDE DEF v
  <2>2. IsPort(s, [port[s] EXCEPT !.wire = v])
    BY <1>1, <2>1 DEF IsPort
  <2> QED BY <2>2 DEF v
<1>6. WithoutArrived(s, i) = [port EXCEPT ![s] = [port[s] EXCEPT !.wire = RemoveAt(w, i)]]
  BY DEF WithoutArrived
<1>7. PortsOK(WithoutArrived(s, i))
  BY <1>5, <1>6 DEF PortsOK
<1> QED BY <1>3, <1>7

(* TCP sends a segment from one end of its connection to the other.        *)
LEMMA FromTcpFacts ==
  ASSUME NEW ports, PortsOK(ports), now \in Nat, NEW s \in Servers, NEW segment,
         encapsulateTCP(segment) \in Packets(s)
  PROVE  PortsOK(fromTcpLayer(ports, s, segment))
<1> DEFINE sent == Port!FromUpperLayer(ports[s], encapsulateTCP(segment), now)
<1>1. IsPort(s, sent)
  BY FromUpperFacts DEF PortsOK
<1>2. fromTcpLayer(ports, s, segment) = [ports EXCEPT ![s] = sent]
  BY DEF fromTcpLayer
<1> HIDE DEF sent
<1> QED BY <1>1, <1>2 DEF PortsOK

(* The client's segments, and answers to what was received.                *)
LEMMA SegmentFacts ==
  ASSUME NEW kind \in {"SYN", "SYNACK", "DATA", "ACK", "RST"}
  PROVE  /\ \A conn \in Connections : encapsulateTCP(ToPeer(conn, kind)) \in Packets(conn[1])
         /\ \A s \in Servers : \A pkt \in Packets(s) :
              encapsulateTCP(Reply(decapsulateTCP(pkt), kind)) \in Packets(pkt.destAddr)
<1>1. Size(kind) \in {1, 2}
  BY DEF Size
<1>2. ASSUME NEW conn \in Connections
      PROVE  encapsulateTCP(ToPeer(conn, kind)) \in Packets(conn[1])
  <2> DEFINE a == conn[1]
             b == conn[2]
  <2>1. a \in Servers /\ b \in Servers /\ conn = <<a, b>>
    BY ConnectionEnds
  <2>2. encapsulateTCP(ToPeer(conn, kind))
          = [srcAddr |-> a, destAddr |-> b, transportProtocol |-> "TCP", conn |-> conn,
             kind |-> kind, bytes |-> Size(kind), timestamp |-> 0]
    BY <2>1, AddressesConvert DEF encapsulateTCP, ToPeer
  <2> HIDE DEF a, b
  <2>3. Between(conn, a, b)
    BY <2>1 DEF Between
  <2>4. encapsulateTCP(ToPeer(conn, kind)) \in Packets(a)
    BY <1>1, <2>1, <2>2, <2>3 DEF Packets
  <2> QED BY <2>4 DEF a
<1>3. ASSUME NEW s \in Servers, NEW pkt \in Packets(s)
      PROVE  encapsulateTCP(Reply(decapsulateTCP(pkt), kind)) \in Packets(pkt.destAddr)
  <2>1. /\ pkt.srcAddr = s /\ pkt.destAddr \in Servers /\ pkt.conn \in Connections
        /\ Between(pkt.conn, s, pkt.destAddr)
    BY DEF Packets
  <2>2. encapsulateTCP(Reply(decapsulateTCP(pkt), kind))
          = [srcAddr |-> pkt.destAddr, destAddr |-> s, transportProtocol |-> "TCP",
             conn |-> pkt.conn, kind |-> kind, bytes |-> Size(kind), timestamp |-> 0]
    BY <2>1, AddressesConvert DEF encapsulateTCP, decapsulateTCP, Reply
  <2>3. Between(pkt.conn, pkt.destAddr, s)
    BY <2>1, PeerIsOtherEnd
  <2> QED BY <1>1, <2>1, <2>2, <2>3 DEF Packets
<1> QED BY <1>2, <1>3

(* A UDP packet is its sender's.                                           *)
LEMMA UdpFacts ==
  ASSUME NEW conn \in Connections
  PROVE  UDPPacket(conn[1], conn[2], 1) \in Packets(conn[1])
<1> DEFINE a == conn[1]
           b == conn[2]
<1>1. a \in Servers /\ b \in Servers /\ conn = <<a, b>>
  BY ConnectionEnds
<1> HIDE DEF a, b
<1>2. <<a, b>> \in Connections /\ Between(<<a, b>>, a, b)
  BY <1>1 DEF Between
<1>3. UDPPacket(a, b, 1) \in Packets(a)
  BY <1>1, <1>2 DEF UDPPacket, Packets
<1> QED BY <1>3 DEF a, b

-----------------------------------------------------------------------------
(* Messages of TCP to the application.                                     *)

(* More messages do no harm to a client unless they fail its connection    *)
(* or come after that.                                                     *)
LEMMA MoreMessages ==
  ASSUME NEW conn, NEW state, NEW found, NEW s, NEW q \in Seq(Messages(s)), NEW more \in Seq(Messages(s)),
         ClientOK(conn, state, found, q),
         \A i \in DOMAIN more : more[i].conn = conn => state \in Open /\ more[i].kind # "FAILURE"
  PROVE  ClientOK(conn, state, found, q \o more)
<1> DEFINE all == q \o more
           n == Len(q)
           m == Len(more)
           sender == Thread(conn, "send", conn[2])
<1>1. /\ n \in Nat /\ m \in Nat /\ DOMAIN q = 1 .. n /\ DOMAIN more = 1 .. m
      /\ DOMAIN all = 1 .. n + m
      /\ \A i \in 1 .. n : all[i] = q[i]
      /\ \A i \in 1 .. n + m : i > n => all[i] = more[i - n]
  BY ConcatProperties
<1> HIDE DEF all, n, m
<1>2. \A i \in 1 .. n + m : \/ i \in 1 .. n /\ all[i] = q[i]
                            \/ i > n /\ i - n \in 1 .. m /\ all[i] = more[i - n]
  BY <1>1
<1>3. \A i \in 1 .. n + m : all[i].conn = conn => state \in Open \/ (i \in 1 .. n /\ all[i] = q[i])
  <2>1. \A k \in 1 .. m : more[k].conn = conn => state \in Open
    BY <1>1
  <2> QED BY <1>2, <2>1
<1>4. \A i \in 1 .. n + m : all[i].conn = conn /\ all[i].kind = "FAILURE" => i \in 1 .. n /\ all[i] = q[i]
  BY <1>1, <1>2
<1> HIDE DEF sender
<1>5. /\ state = "CLOSED" => \A i \in 1 .. n : ~ (q[i].conn = conn)
      /\ state \in Open => sender \in found /\ \A i \in 1 .. n : ~ (q[i].conn = conn /\ q[i].kind = "FAILURE")
      /\ \A i \in 1 .. n : q[i].conn = conn => sender \in found
      /\ \A i, j \in 1 .. n : q[i].conn = conn /\ q[i].kind = "FAILURE" /\ i < j => ~ (q[j].conn = conn)
  BY <1>1 DEF ClientOK, sender
<1>6. state = "CLOSED" => \A i \in 1 .. n + m : ~ (all[i].conn = conn)
  BY <1>3, <1>5 DEF Open
<1>7. state \in Open => sender \in found /\ \A i \in 1 .. n + m : ~ (all[i].conn = conn /\ all[i].kind = "FAILURE")
  BY <1>4, <1>5
<1>8. \A i \in 1 .. n + m : all[i].conn = conn => sender \in found
  BY <1>3, <1>5
<1>9. \A i, j \in 1 .. n + m : all[i].conn = conn /\ all[i].kind = "FAILURE" /\ i < j => ~ (all[j].conn = conn)
  BY <1>3, <1>4, <1>5
<1>10. ClientOK(conn, state, found, all)
  BY <1>1, <1>6, <1>7, <1>8, <1>9 DEF ClientOK, sender
<1> QED BY <1>10 DEF all

(* A connection that is given up tells its thread, which is still there.   *)
LEMMA FailureLast ==
  ASSUME NEW conn, NEW state \in Open, NEW found, NEW s, NEW q \in Seq(Messages(s)),
         NEW failure \in Messages(s), failure.kind = "FAILURE",
         ClientOK(conn, state, found, q)
  PROVE  ClientOK(conn, "FAILED", found, q \o <<failure>>)
<1> DEFINE all == q \o <<failure>>
           n == Len(q)
           sender == Thread(conn, "send", conn[2])
<1>1. /\ n \in Nat /\ DOMAIN q = 1 .. n /\ DOMAIN all = 1 .. n + 1
      /\ \A i \in 1 .. n : all[i] = q[i]
      /\ all[n + 1] = failure
  OBVIOUS
<1> HIDE DEF all, n, sender
<1>2. sender \in found /\ \A i \in 1 .. n : ~ (q[i].conn = conn /\ q[i].kind = "FAILURE")
  BY <1>1 DEF ClientOK, sender
<1>3. \A i, j \in 1 .. n + 1 : all[i].conn = conn /\ all[i].kind = "FAILURE" /\ i < j => ~ (all[j].conn = conn)
  <2>1. ASSUME NEW i \in 1 .. n + 1, NEW j \in 1 .. n + 1, all[i].conn = conn, all[i].kind = "FAILURE", i < j
        PROVE  FALSE
    <3>1. i \in 1 .. n
      BY <1>1, <2>1
    <3> QED BY <1>1, <1>2, <2>1, <3>1
  <2> QED BY <2>1
<1>4. ClientOK(conn, "FAILED", found, all)
  BY <1>1, <1>2, <1>3 DEF ClientOK, sender, Open
<1> QED BY <1>4 DEF all

(* A message handled: the rest of the messages, and more threads; without  *)
(* the connection's own only after its failure.                            *)
LEMMA MessageHandled ==
  ASSUME NEW conn, NEW state, NEW found, NEW s, NEW q \in Seq(Messages(s)), q # << >>,
         ClientOK(conn, state, found, q), NEW next,
         \/ \A thread \in found : thread.conn = conn => thread \in next
         \/ Head(q).conn = conn /\ Head(q).kind = "FAILURE"
  PROVE  ClientOK(conn, state, next, Tail(q))
<1> DEFINE rest == Tail(q)
           n == Len(q)
           sender == Thread(conn, "send", conn[2])
<1>1. /\ n \in Nat /\ n > 0 /\ DOMAIN q = 1 .. n /\ DOMAIN rest = 1 .. n - 1
      /\ \A i \in 1 .. n - 1 : rest[i] = q[i + 1]
      /\ Head(q) = q[1]
  OBVIOUS
<1>2. sender.conn = conn
  BY DEF Thread
<1> HIDE DEF rest, n, sender
<1>3. /\ state = "CLOSED" => \A i \in 1 .. n : ~ (q[i].conn = conn)
      /\ state \in Open => sender \in found /\ \A i \in 1 .. n : ~ (q[i].conn = conn /\ q[i].kind = "FAILURE")
      /\ \A i \in 1 .. n : q[i].conn = conn => sender \in found
      /\ \A i, j \in 1 .. n : q[i].conn = conn /\ q[i].kind = "FAILURE" /\ i < j => ~ (q[j].conn = conn)
  BY <1>1 DEF ClientOK, sender
<1>4. \A i \in 1 .. n - 1 : i + 1 \in 1 .. n /\ 1 < i + 1 /\ 1 \in 1 .. n
  BY <1>1
<1>5. CASE \A thread \in found : thread.conn = conn => thread \in next
  <2>1. sender \in found => sender \in next
    BY <1>2, <1>5
  <2>2. \A i, j \in 1 .. n - 1 : rest[i].conn = conn /\ rest[i].kind = "FAILURE" /\ i < j
          => ~ (rest[j].conn = conn)
    <3>1. ASSUME NEW i \in 1 .. n - 1, NEW j \in 1 .. n - 1, i < j
          PROVE  i + 1 < j + 1 /\ i + 1 \in 1 .. n /\ j + 1 \in 1 .. n
      BY <1>1, <3>1
    <3> QED BY <1>1, <1>3, <3>1
  <2>3. /\ state = "CLOSED" => \A i \in 1 .. n - 1 : ~ (rest[i].conn = conn)
        /\ state \in Open => sender \in next
        /\ state \in Open => \A i \in 1 .. n - 1 : ~ (rest[i].conn = conn /\ rest[i].kind = "FAILURE")
        /\ \A i \in 1 .. n - 1 : rest[i].conn = conn => sender \in next
    BY <1>1, <1>3, <1>4, <2>1
  <2> QED BY <1>1, <2>2, <2>3 DEF ClientOK, sender, rest
<1>6. CASE Head(q).conn = conn /\ Head(q).kind = "FAILURE"
  <2>1. state # "CLOSED" /\ state \notin Open
    BY <1>1, <1>3, <1>6
  <2>2. \A i \in 1 .. n - 1 : ~ (rest[i].conn = conn)
    BY <1>1, <1>3, <1>4, <1>6
  <2> QED BY <1>1, <2>1, <2>2 DEF ClientOK, rest
<1> QED BY <1>5, <1>6

-----------------------------------------------------------------------------
(* The threads.                                                            *)

(* The thread of a message's connection is the one found, or made with the *)
(* address in the message; one at the client's is found.                   *)
LEMMA FoundFacts ==
  ASSUME NEW s \in Servers, NEW msg \in Messages(s), NEW state, NEW msgs, 1 \in DOMAIN msgs, msgs[1] = msg,
         threads[s] \subseteq Threads(s), IsFiniteSet(threads[s]),
         msg.conn[1] = s => ClientOK(msg.conn, state, threads[s], msgs)
  PROVE  /\ threads[s] \subseteq FoundOrIncoming(s, msg)
         /\ FoundOrIncoming(s, msg) \subseteq Threads(s)
         /\ IsFiniteSet(FoundOrIncoming(s, msg))
<1> DEFINE peer == convertIPAddressToDC(msg.remoteIP)
           made == Thread(msg.conn, "receive", peer)
<1>1. msg.conn \in Connections /\ Between(msg.conn, s, peer)
  BY DEF Messages
<1>2. CASE SocketOf(s, msg.conn) # {}
  BY <1>2 DEF FoundOrIncoming
<1>3. CASE SocketOf(s, msg.conn) = {}
  <2>1. msg.conn[1] # s
    <3>1. SUFFICES ASSUME msg.conn[1] = s PROVE FALSE
      OBVIOUS
    <3>2. Thread(msg.conn, "send", msg.conn[2]) \in threads[s]
      BY <3>1 DEF ClientOK
    <3> QED BY <1>3, <3>2 DEF SocketOf, Thread
  <2>2. msg.conn = <<peer, s>> /\ peer \in Servers
    BY <1>1, <2>1, PeerIsOtherEnd
  <2>3. made \in Threads(s)
    BY <1>1, <2>2 DEF Thread, Threads
  <2>4. FoundOrIncoming(s, msg) = threads[s] \cup {made}
    BY <1>3 DEF FoundOrIncoming
  <2>5. IsFiniteSet(threads[s] \cup {made})
    BY FS_AddElement
  <2> HIDE DEF made
  <2> QED BY <2>3, <2>4, <2>5
<1> QED BY <1>2, <1>3

(* The application handles a message of TCP.                               *)
LEMMA ApplicationStep ==
  ASSUME TCPInv, NEW s \in Servers, ApplicationHandles(s)
  PROVE  TCPInv'
<1> DEFINE q == fromTcp[s]
           msg == Head(q)
           found == FoundOrIncoming(s, msg)
<1>1. /\ q \in Seq(Messages(s)) /\ q # << >> /\ fromTcp' = [fromTcp EXCEPT ![s] = Tail(q)]
      /\ now' = now /\ port' = port /\ client' = client
  BY DEF TCPInv, ApplicationHandles, HandleFromTcp, tcpVars
<1>2. /\ msg \in Messages(s) /\ Tail(q) \in Seq(Messages(s))
      /\ 1 \in DOMAIN q /\ q[1] = msg
  BY <1>1
<1>3. \/ threads' = [threads EXCEPT ![s] = found]
      \/ msg.kind = "FAILURE" /\ threads' = [threads EXCEPT ![s] = removeThread(found, msg.conn)]
  BY DEF ApplicationHandles, HandleFromTcp, Failed, DataArrived, Notified
<1>4. /\ DOMAIN threads = Servers /\ DOMAIN fromTcp = Servers
      /\ threads[s] \subseteq Threads(s) /\ IsFiniteSet(threads[s])
  BY DEF TCPInv
<1>5. msg.conn[1] = s => ClientOK(msg.conn, client[msg.conn], threads[s], q)
  <2>1. msg.conn \in Connections
    BY <1>2 DEF Messages
  <2> QED BY <2>1 DEF TCPInv
<1> HIDE DEF q, msg
<1>6. threads[s] \subseteq found /\ found \subseteq Threads(s) /\ IsFiniteSet(found)
  BY <1>2, <1>4, <1>5, FoundFacts
<1> HIDE DEF found
<1>7. /\ threads'[s] \subseteq found
      /\ \A conn : (\A thread \in threads[s] : thread.conn = conn => thread \in threads'[s])
                     \/ (msg.conn = conn /\ msg.kind = "FAILURE")
  <2>1. CASE threads' = [threads EXCEPT ![s] = found]
    <3>1. threads'[s] = found
      BY <1>4, <2>1
    <3> QED BY <1>6, <3>1
  <2>2. CASE msg.kind = "FAILURE" /\ threads' = [threads EXCEPT ![s] = removeThread(found, msg.conn)]
    <3>1. threads'[s] = {thread \in found : thread.conn # msg.conn}
      BY <1>4, <2>2 DEF removeThread
    <3> QED BY <1>6, <2>2, <3>1
  <2> QED BY <1>3, <2>1, <2>2
<1>8. /\ DOMAIN threads' = Servers /\ \A t \in Servers : t # s => threads'[t] = threads[t]
      /\ DOMAIN fromTcp' = Servers /\ \A t \in Servers : t # s => fromTcp'[t] = fromTcp[t]
      /\ fromTcp'[s] = Tail(q)
  BY <1>1, <1>3, <1>4
<1>9. threads'[s] \subseteq Threads(s) /\ IsFiniteSet(threads'[s])
  BY <1>6, <1>7, FS_Subset
<1>10. \A t \in Servers : threads'[t] \subseteq Threads(t) /\ IsFiniteSet(threads'[t])
  BY <1>8, <1>9 DEF TCPInv
<1>11. \A t \in Servers : fromTcp'[t] \in Seq(Messages(t))
  BY <1>2, <1>8 DEF TCPInv
<1>12. ASSUME NEW conn \in Connections
       PROVE  ClientOK(conn, client'[conn], threads'[conn[1]], fromTcp'[conn[1]])
  <2>1. conn[1] \in Servers /\ ClientOK(conn, client[conn], threads[conn[1]], fromTcp[conn[1]])
    BY ConnectionEnds DEF TCPInv
  <2>2. CASE conn[1] # s
    BY <1>1, <1>8, <2>1, <2>2
  <2>3. CASE conn[1] = s
    <3>1. ClientOK(conn, client[conn], threads[s], q)
      BY <2>1, <2>3 DEF q
    <3>2. \/ \A thread \in threads[s] : thread.conn = conn => thread \in threads'[s]
          \/ Head(q).conn = conn /\ Head(q).kind = "FAILURE"
      BY <1>7 DEF msg
    <3>3. ClientOK(conn, client[conn], threads'[s], Tail(q))
      BY <1>1, <3>1, <3>2, MessageHandled
    <3> QED BY <1>1, <1>8, <2>3, <3>3
  <2> QED BY <2>2, <2>3
<1> QED BY <1>1, <1>8, <1>10, <1>11, <1>12 DEF TCPInv

-----------------------------------------------------------------------------
(* TCP and the network.                                                    *)

(* What a step of TCP or of the network has to keep, the messages to one   *)
(* server and the state of one connection being all that changes for the   *)
(* applications.                                                           *)
LEMMA TcpStep ==
  ASSUME TCPInv, now' = now, PortsOK(port'), threads' = threads,
         NEW s \in Servers, NEW more \in Seq(Messages(s)),
         fromTcp' = [fromTcp EXCEPT ![s] = @ \o more],
         client' \in [Connections -> Open \cup {"CLOSED", "FAILED"}],
         \A conn \in Connections :
           ClientOK(conn, client'[conn], threads[conn[1]], fromTcp'[conn[1]])
  PROVE  TCPInv'
<1> DEFINE q == fromTcp[s] \o more
<1>1. q \in Seq(Messages(s))
  <2>1. fromTcp[s] \in Seq(Messages(s))
    BY DEF TCPInv
  <2> QED BY <2>1, ConcatProperties
<1> HIDE DEF q
<1>2. fromTcp' = [fromTcp EXCEPT ![s] = q]
  BY DEF q
<1>3. DOMAIN fromTcp' = Servers /\ \A t \in Servers : fromTcp'[t] \in Seq(Messages(t))
  BY <1>1, <1>2 DEF TCPInv
<1> QED BY <1>3 DEF TCPInv

(* Nothing is told to the applications.                                    *)
LEMMA SilentStep ==
  ASSUME TCPInv, now' \in Nat, PortsOK(port'), threads' = threads, fromTcp' = fromTcp,
         client' \in [Connections -> Open \cup {"CLOSED", "FAILED"}],
         \A conn \in Connections :
           client'[conn] = client[conn] \/ (client[conn] \in Open /\ client'[conn] \in Open)
  PROVE  TCPInv'
<1>1. ASSUME NEW conn \in Connections
      PROVE  ClientOK(conn, client'[conn], threads[conn[1]], fromTcp[conn[1]])
  <2>1. ClientOK(conn, client[conn], threads[conn[1]], fromTcp[conn[1]])
    BY DEF TCPInv
  <2>2. CASE client'[conn] = client[conn]
    BY <2>1, <2>2
  <2>3. CASE client[conn] \in Open /\ client'[conn] \in Open
    BY <2>1, <2>3 DEF ClientOK, Open
  <2> QED BY <2>2, <2>3
<1> QED BY <1>1 DEF TCPInv

(* Messages for a server, none of them a failure of a client's connection  *)
(* nor for a client that has none.                                         *)
LEMMA HarmlessStep ==
  ASSUME TCPInv, now' = now, PortsOK(port'), threads' = threads,
         NEW s \in Servers, NEW more \in Seq(Messages(s)),
         fromTcp' = [fromTcp EXCEPT ![s] = @ \o more],
         client' \in [Connections -> Open \cup {"CLOSED", "FAILED"}],
         \A conn \in Connections :
           client'[conn] = client[conn] \/ (client[conn] \in Open /\ client'[conn] \in Open),
         \A i \in DOMAIN more : more[i].conn[1] = s =>
           client[more[i].conn] \in Open /\ more[i].kind # "FAILURE"
  PROVE  TCPInv'
<1>1. ASSUME NEW conn \in Connections
      PROVE  ClientOK(conn, client'[conn], threads[conn[1]], fromTcp'[conn[1]])
  <2> DEFINE q == fromTcp[conn[1]]
             now_q == fromTcp'[conn[1]]
  <2>1. conn[1] \in Servers /\ ClientOK(conn, client[conn], threads[conn[1]], q)
    BY ConnectionEnds DEF TCPInv
  <2>2. ClientOK(conn, client[conn], threads[conn[1]], now_q)
    <3>1. CASE conn[1] # s
      BY <2>1, <3>1 DEF TCPInv
    <3>2. CASE conn[1] = s
      <4>1. q \in Seq(Messages(s)) /\ now_q = q \o more
        BY <2>1, <3>2 DEF TCPInv
      <4>2. \A i \in DOMAIN more : more[i].conn = conn => client[conn] \in Open /\ more[i].kind # "FAILURE"
        BY <3>2
      <4> HIDE DEF q, now_q
      <4> QED BY <2>1, <4>1, <4>2, MoreMessages
    <3> QED BY <3>1, <3>2
  <2> HIDE DEF now_q
  <2>3. CASE client'[conn] = client[conn]
    BY <2>2, <2>3 DEF now_q
  <2>4. CASE client[conn] \in Open /\ client'[conn] \in Open
    <3>1. ClientOK(conn, client'[conn], threads[conn[1]], now_q)
      BY <2>2, <2>4 DEF ClientOK, Open
    <3> QED BY <3>1 DEF now_q
  <2> QED BY <2>3, <2>4
<1> QED BY <1>1, TcpStep

(* Messages of TCP about a connection, with the address of the peer.       *)
Told(conn, kinds, peer) ==
  [i \in 1 .. Len(kinds) |->
     [conn |-> conn, kind |-> kinds[i], remoteIP |-> convertDCAddressToIP(peer)]]

(* They name the ends of the connection.                                   *)
LEMMA ToldFacts ==
  ASSUME NEW s, NEW peer, NEW conn \in Connections, Between(conn, s, peer),
         NEW kinds \in Seq({"ESTABLISHED", "DATA", "FAILURE"})
  PROVE  /\ Told(conn, kinds, peer) \in Seq(Messages(s))
         /\ \A i \in DOMAIN Told(conn, kinds, peer) :
              /\ i \in DOMAIN kinds
              /\ Told(conn, kinds, peer)[i].conn = conn
              /\ Told(conn, kinds, peer)[i].kind = kinds[i]
<1> DEFINE msg(i) == [conn |-> conn, kind |-> kinds[i], remoteIP |-> convertDCAddressToIP(peer)]
<1>1. PICK n \in Nat : n = Len(kinds) /\ DOMAIN kinds = 1 .. n
  OBVIOUS
<1>2. \A i \in 1 .. n : kinds[i] \in {"ESTABLISHED", "DATA", "FAILURE"}
  BY <1>1
<1>3. peer \in Servers
  BY PeerIsOtherEnd
<1>4. \A i \in 1 .. n : msg(i) \in Messages(s)
  BY <1>2, <1>3, AddressesConvert DEF Messages
<1>5. Told(conn, kinds, peer) = [i \in 1 .. n |-> msg(i)]
  BY <1>1 DEF Told
<1>6. \A i \in 1 .. n : msg(i).conn = conn /\ msg(i).kind = kinds[i]
  OBVIOUS
<1> HIDE DEF msg
<1>7. [i \in 1 .. n |-> msg(i)] \in Seq(Messages(s))
  BY <1>1, <1>4
<1> QED BY <1>1, <1>5, <1>6, <1>7

(* A message is sent: its thread is made, and TCP opens a connection.      *)
LEMMA ActivateStep ==
  ASSUME TCPInv, NEW conn \in Connections, ActivateMessage(conn)
  PROVE  TCPInv'
<1> DEFINE a == conn[1]
           sender == Thread(conn, "send", conn[2])
<1>1. a \in Servers /\ conn[2] \in Servers /\ conn = <<a, conn[2]>>
  BY ConnectionEnds
<1>2. /\ client[conn] = "CLOSED" /\ client' = [client EXCEPT ![conn] = "SYN_SENT"]
      /\ threads' = [threads EXCEPT ![a] = @ \cup {sender}]
      /\ port' = fromTcpLayer(port, a, ToPeer(conn, "SYN"))
      /\ now' = now /\ fromTcp' = fromTcp
  BY <1>1 DEF ActivateMessage, outgoingConnection
<1>3. PortsOK(port')
  BY <1>1, <1>2, FromTcpFacts, SegmentFacts DEF TCPInv
<1>4. client' \in [Connections -> Open \cup {"CLOSED", "FAILED"}]
  BY <1>2 DEF TCPInv, Open
<1>5. sender \in Threads(a)
  <2> DEFINE b == conn[2]
  <2>1. sender = [conn |-> conn, type |-> "send", destination |-> b]
    BY DEF Thread
  <2>2. b \in Servers /\ conn = <<a, b>>
    BY <1>1
  <2> HIDE DEF a, b, sender
  <2> QED BY <2>1, <2>2 DEF Threads
<1> HIDE DEF sender
<1>6. /\ DOMAIN threads = Servers /\ DOMAIN threads' = Servers
      /\ threads'[a] = threads[a] \cup {sender}
      /\ \A t \in Servers : t # a => threads'[t] = threads[t]
  BY <1>1, <1>2 DEF TCPInv
<1>7. \A t \in Servers : threads'[t] \subseteq Threads(t) /\ IsFiniteSet(threads'[t])
  <2>1. threads[a] \subseteq Threads(a) /\ IsFiniteSet(threads[a])
    BY <1>1 DEF TCPInv
  <2>2. IsFiniteSet(threads[a] \cup {sender})
    BY <2>1, FS_AddElement
  <2>3. threads'[a] \subseteq Threads(a) /\ IsFiniteSet(threads'[a])
    BY <1>5, <1>6, <2>1, <2>2
  <2> QED BY <1>6, <2>3 DEF TCPInv
<1>8. ASSUME NEW c \in Connections
      PROVE  ClientOK(c, client'[c], threads'[c[1]], fromTcp[c[1]])
  <2>1. c[1] \in Servers /\ ClientOK(c, client[c], threads[c[1]], fromTcp[c[1]])
    BY ConnectionEnds DEF TCPInv
  <2>2. threads[c[1]] \subseteq threads'[c[1]]
    BY <1>6, <2>1
  <2>3. CASE c # conn
    <3>1. client'[c] = client[c]
      BY <1>2, <2>3 DEF TCPInv
    <3> QED BY <2>1, <2>2, <3>1 DEF ClientOK
  <2>4. CASE c = conn
    <3>1. client'[c] = "SYN_SENT" /\ sender \in threads'[c[1]]
      BY <1>2, <1>6, <2>4 DEF TCPInv
    <3>2. \A i \in DOMAIN fromTcp[c[1]] : ~ (fromTcp[c[1]][i].conn = c)
      BY <1>2, <2>1, <2>4 DEF ClientOK
    <3> QED BY <2>4, <3>1, <3>2 DEF ClientOK, Open, sender
  <2> QED BY <2>3, <2>4
<1> QED BY <1>2, <1>3, <1>4, <1>6, <1>7, <1>8 DEF TCPInv

(* TCP tries again.                                                        *)
LEMMA RetransmitStep ==
  ASSUME TCPInv, NEW conn \in Connections, Retransmit(conn)
  PROVE  TCPInv'
<1>1. PICK kind \in {"SYN", "DATA"} : port' = fromTcpLayer(port, conn[1], ToPeer(conn, kind))
  BY DEF Retransmit
<1>2. now' = now /\ client' = client /\ threads' = threads /\ fromTcp' = fromTcp
  BY DEF Retransmit, appVars
<1>3. PortsOK(port')
  BY <1>1, ConnectionEnds, FromTcpFacts, SegmentFacts DEF TCPInv
<1> QED BY <1>2, <1>3, SilentStep DEF TCPInv

(* TCP gives a connection up.                                              *)
LEMMA GiveUpStep ==
  ASSUME TCPInv, NEW conn \in Connections, GiveUp(conn)
  PROVE  TCPInv'
<1> DEFINE a == conn[1]
           b == conn[2]
           failure == [conn |-> conn, kind |-> "FAILURE", remoteIP |-> convertDCAddressToIP(b)]
<1>1. a \in Servers /\ b \in Servers /\ conn = <<a, b>>
  BY ConnectionEnds
<1>2. /\ client[conn] \in Open /\ client' = [client EXCEPT ![conn] = "FAILED"]
      /\ port' = fromTcpLayer(port, a, ToPeer(conn, "RST"))
      /\ now' = now /\ threads' = threads
  BY DEF GiveUp, Timeout, Open
<1>3. fromTcp' = [fromTcp EXCEPT ![a] = @ \o <<failure>>]
  <2>1. [i \in 1 .. Len(<<"FAILURE">>) |->
           [conn |-> conn, kind |-> <<"FAILURE">>[i], remoteIP |-> convertDCAddressToIP(b)]]
          = <<failure>>
    OBVIOUS
  <2>2. fromTcp' = [fromTcp EXCEPT ![a] = @ \o
          [i \in 1 .. Len(<<"FAILURE">>) |->
             [conn |-> conn, kind |-> <<"FAILURE">>[i], remoteIP |-> convertDCAddressToIP(b)]]]
    BY DEF GiveUp, Notify
  <2> QED BY <2>1, <2>2
<1>4. PortsOK(port')
  BY <1>1, <1>2, FromTcpFacts, SegmentFacts DEF TCPInv
<1>5. client' \in [Connections -> Open \cup {"CLOSED", "FAILED"}]
  BY <1>2 DEF TCPInv
<1> HIDE DEF a, b
<1>6. failure \in Messages(a) /\ failure.kind = "FAILURE" /\ failure.conn = conn
  <2>1. Between(conn, a, b)
    BY <1>1 DEF Between
  <2> QED BY <1>1, <2>1, AddressesConvert DEF Messages
<1> HIDE DEF failure
<1>7. <<failure>> \in Seq(Messages(a)) /\ DOMAIN <<failure>> = {1} /\ <<failure>>[1] = failure
  BY <1>6
<1>8. ASSUME NEW c \in Connections
      PROVE  ClientOK(c, client'[c], threads[c[1]], fromTcp'[c[1]])
  <2>1. c[1] \in Servers /\ ClientOK(c, client[c], threads[c[1]], fromTcp[c[1]])
    BY ConnectionEnds DEF TCPInv
  <2>2. c # conn => client'[c] = client[c]
    BY <1>2 DEF TCPInv
  <2>3. CASE c[1] # a
    <3>1. c # conn /\ fromTcp'[c[1]] = fromTcp[c[1]]
      BY <1>3, <2>1, <2>3 DEF TCPInv, a
    <3> QED BY <2>1, <2>2, <3>1
  <2>4. CASE c[1] = a /\ c # conn
    <3>1. fromTcp[a] \in Seq(Messages(a)) /\ fromTcp'[a] = fromTcp[a] \o <<failure>>
      BY <1>1, <1>3 DEF TCPInv
    <3>2. \A i \in DOMAIN <<failure>> : ~ (<<failure>>[i].conn = c)
      BY <1>6, <1>7, <2>4
    <3>3. ClientOK(c, client[c], threads[a], fromTcp[a] \o <<failure>>)
      BY <1>7, <2>1, <2>4, <3>1, <3>2, MoreMessages
    <3> QED BY <2>2, <2>4, <3>1, <3>3
  <2>5. CASE c = conn
    <3>1. c[1] = a
      BY <2>5 DEF a
    <3>2. fromTcp[a] \in Seq(Messages(a)) /\ fromTcp'[a] = fromTcp[a] \o <<failure>>
      BY <1>1, <1>3 DEF TCPInv
    <3>3. ClientOK(c, "FAILED", threads[a], fromTcp[a] \o <<failure>>)
      BY <1>2, <1>6, <2>1, <2>5, <3>1, <3>2, FailureLast
    <3>4. client'[c] = "FAILED"
      BY <1>2, <2>5 DEF TCPInv
    <3> QED BY <3>1, <3>2, <3>3, <3>4
  <2> QED BY <2>3, <2>4, <2>5
<1> QED BY <1>1, <1>2, <1>3, <1>4, <1>5, <1>7, <1>8, TcpStep

(* An application sends a packet over UDP.                                 *)
LEMMA SendUdpStep ==
  ASSUME TCPInv, NEW conn \in Connections, SendUdp(conn[1], conn[2])
  PROVE  TCPInv'
<1> DEFINE a == conn[1]
           pkt == UDPPacket(conn[1], conn[2], 1)
           sent == Port!FromUpperLayer(port[a], pkt, now)
<1>1. port' = [port EXCEPT ![a] = sent]
  BY DEF SendUdp
<1>2. now' = now /\ client' = client /\ threads' = threads /\ fromTcp' = fromTcp
  BY DEF SendUdp, tcpVars, appVars
<1>3. a \in Servers /\ pkt \in Packets(a)
  BY ConnectionEnds, UdpFacts
<1> HIDE DEF a, pkt
<1>4. IsPort(a, sent)
  BY <1>3, FromUpperFacts DEF TCPInv, PortsOK
<1> HIDE DEF sent
<1>5. PortsOK(port')
  BY <1>1, <1>4 DEF TCPInv, PortsOK
<1> QED BY <1>2, <1>5, SilentStep DEF TCPInv

(* The line of a port is free.                                             *)
LEMMA FinishStep ==
  ASSUME TCPInv, NEW s \in Servers, FinishTransmitting(s)
  PROVE  TCPInv'
<1> DEFINE next == Port!finishTransmitting(port[s], now)
<1>1. port' = [port EXCEPT ![s] = next]
  BY DEF FinishTransmitting
<1>2. now' = now /\ client' = client /\ threads' = threads /\ fromTcp' = fromTcp
  BY DEF FinishTransmitting, tcpVars, appVars
<1>3. IsPort(s, next)
  BY FinishFacts DEF TCPInv, PortsOK
<1> HIDE DEF next
<1>4. PortsOK(port')
  BY <1>1, <1>3 DEF TCPInv, PortsOK
<1> QED BY <1>2, <1>4, SilentStep DEF TCPInv

(* The network loses a packet.                                             *)
LEMMA DropStep ==
  ASSUME TCPInv, NEW s \in Servers, DropPacket(s)
  PROVE  TCPInv'
<1>1. PICK i \in Arriving(s) : port' = WithoutArrived(s, i)
  BY DEF DropPacket
<1>2. now' = now /\ client' = client /\ threads' = threads /\ fromTcp' = fromTcp
  BY DEF DropPacket, tcpVars, appVars
<1>3. PortsOK(port')
  BY <1>1, ArrivedFacts DEF TCPInv
<1> QED BY <1>2, <1>3, SilentStep DEF TCPInv

(* A command of the dropper.                                               *)
LEMMA DropEventStep ==
  ASSUME TCPInv, DropEvent
  PROVE  TCPInv'
<1>1. /\ now' = now /\ port' = port /\ client' = client /\ threads' = threads
      /\ fromTcp' = fromTcp
  BY DEF DropEvent, tcpVars, appVars
<1> QED BY <1>1, SilentStep DEF TCPInv

(* Time passes.                                                            *)
LEMMA TickStep ==
  ASSUME TCPInv, Tick
  PROVE  TCPInv'
<1> DEFINE left(s) == IF port[s].left > 0 THEN port[s].left - 1 ELSE port[s].left
<1>1. now' = now \/ now' = now + 1
  BY DEF Tick
<1>2. client' = client /\ threads' = threads /\ fromTcp' = fromTcp
  BY DEF Tick, tcpVars, appVars
<1>3. port' = [s \in Servers |-> [port[s] EXCEPT !.left = left(s)]]
  BY DEF Tick
<1> HIDE DEF left
<1>4. port' = [s \in Servers |-> WithLeft(port[s], left(s))]
  BY <1>3 DEF WithLeft
<1>5. \A s \in Servers : IsPort(s, WithLeft(port[s], left(s)))
  BY FieldsFree DEF TCPInv, PortsOK
<1>6. PortsOK(port')
  BY <1>4, <1>5 DEF PortsOK
<1>7. now' \in Nat
  BY <1>1 DEF TCPInv
<1> QED BY <1>2, <1>6, <1>7, SilentStep DEF TCPInv

(* A finite set in any order.                                              *)
LEMMA SetToSeqFacts ==
  ASSUME NEW S, IsFiniteSet(S)
  PROVE  /\ DOMAIN SetToSeq(S) = 1 .. Len(SetToSeq(S)) /\ Len(SetToSeq(S)) \in Nat
         /\ \A i \in DOMAIN SetToSeq(S) : SetToSeq(S)[i] \in S
<1> DEFINE n == Cardinality(S)
<1>1. n \in Nat
  BY FS_CardinalityType
<1>2. \E f \in [1 .. n -> S] : IsInjective(f)
  <2>1. ExistsBijection(1 .. n, S)
    BY FS_CardinalityType
  <2>2. PICK f \in [1 .. n -> S] :
          \A a, b \in 1 .. n : f[a] = f[b] => a = b
    BY <2>1 DEF ExistsBijection, Bijection, Injection, IsInjective
  <2>3. IsInjective(f)
    BY <2>2 DEF IsInjective
  <2> QED BY <2>3
<1>3. SetToSeq(S) \in [1 .. n -> S]
  BY <1>2 DEF SetToSeq
<1> HIDE DEF n
<1> QED BY <1>1, <1>3

(* TCP tells the status of connections that it still has.                  *)
LEMMA StatusStep ==
  ASSUME TCPInv, NEW s \in Servers, GetAllSocketStatus(s)
  PROVE  TCPInv'
<1> DEFINE S == {thread \in threads[s] : HasConnection(s, thread.conn)}
           asked == SetToSeq(S)
           status(thread) == [conn |-> thread.conn, kind |-> "STATUS",
                              remoteIP |-> convertDCAddressToIP(thread.destination)]
           more == [i \in 1 .. Len(asked) |-> status(asked[i])]
<1>1. /\ fromTcp' = [fromTcp EXCEPT ![s] = @ \o more]
      /\ now' = now /\ port' = port /\ client' = client /\ threads' = threads
  BY DEF GetAllSocketStatus, tcpVars
<1>2. threads[s] \subseteq Threads(s) /\ IsFiniteSet(S)
  BY FS_Subset DEF TCPInv
<1>3. ASSUME NEW thread \in S
      PROVE  /\ status(thread) \in Messages(s) /\ status(thread).kind # "FAILURE"
             /\ status(thread).conn[1] = s => client[status(thread).conn] \in Open
  <2>1. /\ thread.conn \in Connections /\ thread.destination \in Servers
        /\ Between(thread.conn, s, thread.destination)
    BY <1>2 DEF Threads, Between
  <2>2. status(thread) \in Messages(s)
    BY <2>1, AddressesConvert DEF Messages
  <2>3. thread.conn[1] = s => client[thread.conn] \in Open
    BY DEF HasConnection, Open
  <2> QED BY <2>2, <2>3
<1>4. Len(asked) \in Nat /\ \A i \in 1 .. Len(asked) : asked[i] \in S
  BY <1>2, SetToSeqFacts
<1> HIDE DEF S, asked, status
<1>5. more \in Seq(Messages(s)) /\ DOMAIN more = 1 .. Len(asked)
  BY <1>3, <1>4
<1>6. \A i \in DOMAIN more : more[i].conn[1] = s =>
        client[more[i].conn] \in Open /\ more[i].kind # "FAILURE"
  BY <1>3, <1>4, <1>5
<1> HIDE DEF more
<1> QED BY <1>1, <1>5, <1>6, HarmlessStep DEF TCPInv

-----------------------------------------------------------------------------
(* Segments that arrive.                                                   *)

(* The server's end: what it tells its application is about a connection   *)
(* of another server.                                                      *)
LEMMA ServerStep ==
  ASSUME TCPInv, NEW s \in Servers, NEW pkt \in Packets(s), NEW ports, PortsOK(ports),
         now' = now, threads' = threads, pkt.conn[1] # pkt.destAddr,
         ServerReceives(pkt.destAddr, decapsulateTCP(pkt), ports)
  PROVE  TCPInv'
<1> DEFINE d == pkt.destAddr
           conn == pkt.conn
           segment == decapsulateTCP(pkt)
<1>1. /\ d \in Servers /\ conn \in Connections /\ Between(conn, d, s)
      /\ segment.conn = conn /\ segment.srcIP = convertDCAddressToIP(s)
  BY PeerIsOtherEnd DEF Packets, decapsulateTCP
<1>2. client' = client
  BY DEF ServerReceives
<1>3. \/ port' = ports
      \/ \E kind \in {"SYNACK", "ACK"} : port' = fromTcpLayer(ports, d, Reply(segment, kind))
  BY DEF ServerReceives
<1>4. \/ fromTcp' = fromTcp
      \/ \E kinds \in Seq({"ESTABLISHED", "DATA", "FAILURE"}) :
           fromTcp' = [fromTcp EXCEPT ![d] = @ \o Told(conn, kinds, s)]
  <2>1. \/ fromTcp' = fromTcp
        \/ Notify(d, conn, <<"ESTABLISHED", "DATA">>, convertDCAddressToIP(s))
        \/ Notify(d, conn, <<"FAILURE">>, convertDCAddressToIP(s))
    BY <1>1 DEF ServerReceives
  <2>2. /\ <<"ESTABLISHED", "DATA">> \in Seq({"ESTABLISHED", "DATA", "FAILURE"})
        /\ <<"FAILURE">> \in Seq({"ESTABLISHED", "DATA", "FAILURE"})
    OBVIOUS
  <2> QED BY <2>1, <2>2 DEF Notify, Told
<1>5. PortsOK(port')
  <2>1. \A kind \in {"SYNACK", "ACK"} : encapsulateTCP(Reply(segment, kind)) \in Packets(d)
    BY SegmentFacts
  <2> HIDE DEF segment, d
  <2> QED BY <1>1, <1>3, <2>1, FromTcpFacts DEF TCPInv
<1> HIDE DEF segment, d, conn
<1>6. CASE fromTcp' = fromTcp
  BY <1>2, <1>5, <1>6, SilentStep DEF TCPInv
<1>7. ASSUME NEW kinds \in Seq({"ESTABLISHED", "DATA", "FAILURE"}),
             fromTcp' = [fromTcp EXCEPT ![d] = @ \o Told(conn, kinds, s)]
      PROVE  TCPInv'
  <2> DEFINE more == Told(conn, kinds, s)
  <2>1. more \in Seq(Messages(d)) /\ \A i \in DOMAIN more : more[i].conn = conn
    BY <1>1, ToldFacts
  <2>2. conn[1] # d
    BY DEF conn, d
  <2>3. fromTcp' = [fromTcp EXCEPT ![d] = @ \o more]
    BY <1>7
  <2> HIDE DEF more
  <2>4. \A i \in DOMAIN more : more[i].conn[1] = d =>
          client[more[i].conn] \in Open /\ more[i].kind # "FAILURE"
    BY <2>1, <2>2
  <2>5. /\ client' \in [Connections -> Open \cup {"CLOSED", "FAILED"}]
        /\ \A c \in Connections :
             client'[c] = client[c] \/ (client[c] \in Open /\ client'[c] \in Open)
    BY <1>2 DEF TCPInv
  <2>6. more \in Seq(Messages(d)) /\ d \in Servers
    BY <1>1, <2>1
  <2> QED BY <1>5, <2>3, <2>4, <2>5, <2>6, HarmlessStep
<1> QED BY <1>4, <1>6, <1>7

(* The client's end: it tells its application of a connection that it has. *)
LEMMA ClientStep ==
  ASSUME TCPInv, NEW s \in Servers, NEW pkt \in Packets(s), NEW ports, PortsOK(ports),
         now' = now, threads' = threads, pkt.conn[1] = pkt.destAddr,
         ClientReceives(pkt.destAddr, decapsulateTCP(pkt), ports)
  PROVE  TCPInv'
<1> DEFINE d == pkt.destAddr
           conn == pkt.conn
           segment == decapsulateTCP(pkt)
           kinds == <<"ESTABLISHED">>
<1>1. /\ d \in Servers /\ conn \in Connections /\ Between(conn, d, s)
      /\ segment.conn = conn /\ segment.srcIP = convertDCAddressToIP(s)
  BY PeerIsOtherEnd DEF Packets, decapsulateTCP
<1>2. \/ port' = ports /\ UNCHANGED fromTcp
      \/ /\ client[conn] = "SYN_SENT"
         /\ port' = fromTcpLayer(ports, d, Reply(segment, "DATA"))
         /\ fromTcp' = [fromTcp EXCEPT ![d] = @ \o Told(conn, kinds, s)]
  BY <1>1 DEF ClientReceives, Notify, Told
<1>3. \/ client' = client
      \/ client[conn] \in Open /\ \E state \in Open : client' = [client EXCEPT ![conn] = state]
  BY <1>1 DEF ClientReceives, Open
<1>4. PortsOK(port')
  <2>1. encapsulateTCP(Reply(segment, "DATA")) \in Packets(d)
    BY SegmentFacts
  <2> HIDE DEF segment, d
  <2> QED BY <1>1, <1>2, <2>1, FromTcpFacts DEF TCPInv
<1> HIDE DEF segment, d, conn
<1>5. /\ client' \in [Connections -> Open \cup {"CLOSED", "FAILED"}]
      /\ \A c \in Connections :
           client'[c] = client[c] \/ (client[c] \in Open /\ client'[c] \in Open)
  BY <1>1, <1>3 DEF TCPInv
<1>6. CASE fromTcp' = fromTcp
  BY <1>4, <1>5, <1>6, SilentStep DEF TCPInv
<1>7. CASE /\ client[conn] = "SYN_SENT"
           /\ fromTcp' = [fromTcp EXCEPT ![d] = @ \o Told(conn, kinds, s)]
  <2> DEFINE more == Told(conn, kinds, s)
  <2>1. kinds \in Seq({"ESTABLISHED", "DATA", "FAILURE"}) /\ DOMAIN kinds = {1}
        /\ kinds[1] = "ESTABLISHED"
    OBVIOUS
  <2> HIDE DEF kinds
  <2>2. /\ more \in Seq(Messages(d))
        /\ \A i \in DOMAIN more : i \in DOMAIN kinds /\ more[i].conn = conn /\ more[i].kind = kinds[i]
    BY <1>1, <2>1, ToldFacts
  <2>3. fromTcp' = [fromTcp EXCEPT ![d] = @ \o more]
    BY <1>7
  <2> HIDE DEF more
  <2>4. \A i \in DOMAIN more : client[more[i].conn] \in Open /\ more[i].kind # "FAILURE"
    BY <1>7, <2>1, <2>2 DEF Open
  <2>5. more \in Seq(Messages(d))
    BY <2>2
  <2>6. d \in Servers
    BY <1>1
  <2> QED BY <1>4, <1>5, <2>3, <2>4, <2>5, <2>6, HarmlessStep
<1> QED BY <1>2, <1>6, <1>7

(* A packet arrives at its destination.                                    *)
LEMMA ReceiveStep ==
  ASSUME TCPInv, NEW s \in Servers, ReceivePacket(s)
  PROVE  TCPInv'
<1>1. PICK i \in Arriving(s) :
        LET pkt == port[s].wire[i]
            d == pkt.destAddr
            ports == [WithoutArrived(s, i) EXCEPT ![d] = Port!FromLine(@, d, pkt, now)]
        IN  /\ \/ port' = ports /\ UNCHANGED <<tcpVars, fromTcp>>
               \/ LET segment == decapsulateTCP(pkt)
                  IN  IF segment.conn[1] = d THEN ClientReceives(d, segment, ports)
                                             ELSE ServerReceives(d, segment, ports)
            /\ UNCHANGED <<now, starts, statusDue, udp, lost, threads, numBroken, received>>
  BY DEF ReceivePacket
<1> DEFINE pkt == port[s].wire[i]
           d == pkt.destAddr
           before == WithoutArrived(s, i)
           atPort == Port!FromLine(before[d], d, pkt, now)
           ports == [before EXCEPT ![d] = atPort]
<1>2. PortsOK(before) /\ pkt \in Packets(s)
  BY ArrivedFacts DEF TCPInv
<1>3. /\ \/ port' = ports /\ client' = client /\ fromTcp' = fromTcp
         \/ pkt.conn[1] = d /\ ClientReceives(d, decapsulateTCP(pkt), ports)
         \/ pkt.conn[1] # d /\ ServerReceives(d, decapsulateTCP(pkt), ports)
      /\ now' = now /\ threads' = threads
  <2>1. decapsulateTCP(pkt).conn = pkt.conn
    BY DEF decapsulateTCP
  <2> QED BY <1>1, <2>1 DEF tcpVars
<1> HIDE DEF pkt, before
<1>4. d \in Servers
  BY <1>2 DEF Packets
<1> HIDE DEF d
<1>5. IsPort(d, atPort)
  BY <1>2, <1>4, FromLineFacts DEF PortsOK
<1> HIDE DEF atPort
<1>6. PortsOK(ports)
  BY <1>2, <1>4, <1>5 DEF PortsOK
<1> HIDE DEF ports
<1>7. CASE port' = ports /\ client' = client /\ fromTcp' = fromTcp
  BY <1>3, <1>6, <1>7, SilentStep DEF TCPInv
<1>8. CASE pkt.conn[1] = d /\ ClientReceives(d, decapsulateTCP(pkt), ports)
  BY <1>2, <1>3, <1>6, <1>8, ClientStep DEF d
<1>9. CASE pkt.conn[1] # d /\ ServerReceives(d, decapsulateTCP(pkt), ports)
  BY <1>2, <1>3, <1>6, <1>9, ServerStep DEF d
<1> QED BY <1>3, <1>7, <1>8, <1>9

-----------------------------------------------------------------------------
(* No message is on its way at first.                                      *)
LEMMA TCPInit == Init => TCPInv
<1> SUFFICES ASSUME Init PROVE TCPInv
  OBVIOUS
<1>1. PortsOK(port)
  <2>1. port = [s \in Servers |-> Port!NewPort]
    BY DEF Init
  <2>2. \A s \in Servers : IsPort(s, Port!NewPort)
    BY DEF IsPort, Port!NewPort
  <2> QED BY <2>1, <2>2 DEF PortsOK
<1>2. /\ now = 0 /\ client = [conn \in Connections |-> "CLOSED"]
      /\ threads = [s \in Servers |-> {}] /\ fromTcp = [s \in Servers |-> << >>]
  BY DEF Init, AppInit
<1>3. IsFiniteSet({})
  BY FS_EmptySet
<1>4. \A conn \in Connections : ClientOK(conn, client[conn], threads[conn[1]], fromTcp[conn[1]])
  <2>1. ASSUME NEW conn \in Connections
        PROVE  ClientOK(conn, client[conn], threads[conn[1]], fromTcp[conn[1]])
    <3>1. client[conn] = "CLOSED" /\ fromTcp[conn[1]] = << >>
      BY <1>2, ConnectionEnds
    <3> QED BY <3>1 DEF ClientOK, Open
  <2> QED BY <2>1
<1>5. /\ now \in Nat /\ DOMAIN threads = Servers /\ DOMAIN fromTcp = Servers
      /\ client \in [Connections -> Open \cup {"CLOSED", "FAILED"}]
  BY <1>2
<1>6. \A s \in Servers : threads[s] = {} /\ fromTcp[s] = << >> /\ << >> \in Seq(Messages(s))
  BY <1>2
<1> QED BY <1>1, <1>3, <1>4, <1>5, <1>6 DEF TCPInv

(* Every step keeps the invariant.                                         *)
LEMMA TCPNext == TCPInv /\ [Next]_vars => TCPInv'
<1> SUFFICES ASSUME TCPInv, [Next]_vars PROVE TCPInv'
  OBVIOUS
<1>1. CASE UNCHANGED vars
  <2>1. /\ now' = now /\ port' = port /\ client' = client /\ threads' = threads
        /\ fromTcp' = fromTcp
    BY <1>1 DEF vars, tcpVars, appVars
  <2> QED BY <2>1, SilentStep DEF TCPInv
<1>2. ASSUME NEW conn \in Connections, ActivateMessage(conn) \/ Retransmit(conn) \/ GiveUp(conn)
      PROVE  TCPInv'
  BY <1>2, ActivateStep, RetransmitStep, GiveUpStep
<1>3. ASSUME NEW conn \in Connections, SendUdp(conn[1], conn[2]) PROVE TCPInv'
  BY <1>3, SendUdpStep
<1>4. ASSUME NEW s \in Servers,
             \/ ApplicationHandles(s) \/ GetAllSocketStatus(s)
             \/ DropPacket(s) \/ ReceivePacket(s) \/ FinishTransmitting(s)
      PROVE  TCPInv'
  BY <1>4, ApplicationStep, StatusStep, DropStep, ReceiveStep, FinishStep
<1>5. CASE DropEvent
  BY <1>5, DropEventStep
<1>6. CASE Tick
  BY <1>6, TickStep
<1> QED BY <1>1, <1>2, <1>3, <1>4, <1>5, <1>6 DEF Next

(* The invariant: ports, messages and threads name the ends of their       *)
(* connection, and TCP's messages to a client find its thread.             *)
THEOREM TCPInvariant == Spec => []TCPInv
BY TCPInit, TCPNext, PTL DEF Spec

(* Every thread of the application, also one made for a connection of      *)
(* another server from the address in TCP's message, knows the server at   *)
(* the other end: for all servers, however packets are lost or overtaken.  *)
THEOREM PeersKnown == Spec => []ThreadsKnowPeers
<1>1. TCPInv => ThreadsKnowPeers
  BY DEF TCPInv, Threads, ThreadsKnowPeers
<1> QED BY <1>1, TCPInvariant, PTL

-----------------------------------------------------------------------------
(* Sums over the servers and over the packets of a line.                   *)

(* A sum of differences.                                                   *)
LEMMA SumDifference ==
  ASSUME NEW S, IsFiniteSet(S), NEW f \in [S -> Int], NEW g \in [S -> Int]
  PROVE  /\ SumOver(f, S) \in Int /\ SumOver(g, S) \in Int
         /\ SumOver([x \in S |-> f[x] - g[x]], S) = SumOver(f, S) - SumOver(g, S)
<1> DEFINE h == [x \in S |-> f[x] - g[x]]
           F(s) == Sums(f, S)[s]
           G(s) == Sums(g, S)[s]
           H(s) == Sums(h, S)[s]
           Differ == {n \in Nat : \A s \in SUBSET S : Cardinality(s) <= n => H(s) = F(s) - G(s)}
<1>1. \A x \in S : f[x] \in Int /\ g[x] \in Int /\ h[x] \in Int /\ h[x] = f[x] - g[x]
  OBVIOUS
<1> HIDE DEF h
<1>2. \A s \in SUBSET S :
        /\ F(s) = SumUp(f, s, Sums(f, S)) /\ F(s) \in Int
        /\ G(s) = SumUp(g, s, Sums(g, S)) /\ G(s) \in Int
        /\ H(s) = SumUp(h, s, Sums(h, S)) /\ H(s) \in Int
  <2>1. /\ Sums(f, S) = [s \in SUBSET S |-> SumUp(f, s, Sums(f, S))]
        /\ \A s \in SUBSET S : Sums(f, S)[s] \in Int
    BY <1>1, SumRecursion
  <2>2. /\ Sums(g, S) = [s \in SUBSET S |-> SumUp(g, s, Sums(g, S))]
        /\ \A s \in SUBSET S : Sums(g, S)[s] \in Int
    BY <1>1, SumRecursion
  <2>3. /\ Sums(h, S) = [s \in SUBSET S |-> SumUp(h, s, Sums(h, S))]
        /\ \A s \in SUBSET S : Sums(h, S)[s] \in Int
    BY <1>1, SumRecursion
  <2> QED BY <2>1, <2>2, <2>3
<1>3. ASSUME NEW s \in SUBSET S, s # {} => H(s \ {Pick(s)}) = F(s \ {Pick(s)}) - G(s \ {Pick(s)})
      PROVE  H(s) = F(s) - G(s)
  <2>1. CASE s = {}
    <3>1. F(s) = 0 /\ G(s) = 0 /\ H(s) = 0
      BY <1>2, <2>1 DEF SumUp
    <3> HIDE DEF F, G, H
    <3> QED BY <3>1
  <2>2. CASE s # {}
    <3> DEFINE z == Pick(s)
               t == s \ {z}
    <3>1. z \in s
      BY <2>2 DEF Pick
    <3>2. F(s) = f[z] + F(t) /\ G(s) = g[z] + G(t) /\ H(s) = h[z] + H(t)
      BY <1>2, <2>2 DEF SumUp
    <3>3. F(t) \in Int /\ G(t) \in Int /\ t \in SUBSET S /\ z \in S
      BY <1>2, <3>1
    <3>4. H(t) = F(t) - G(t)
      BY <1>3, <2>2
    <3> HIDE DEF F, G, H, t, z
    <3>5. f[z] \in Int /\ g[z] \in Int /\ h[z] = f[z] - g[z]
      BY <1>1, <3>3
    <3> QED BY <3>2, <3>3, <3>4, <3>5
  <2> QED BY <2>1, <2>2
<1>4. Differ \in SUBSET Nat
  OBVIOUS
<1> HIDE DEF F, G, H
<1>5. 0 \in Differ
  <2>1. ASSUME NEW s \in SUBSET S, Cardinality(s) <= 0, NEW y \in s PROVE FALSE
    <3>1. /\ Cardinality(s) \in Nat /\ Cardinality(s \ {y}) = Cardinality(s) - 1
          /\ s \ {y} \in SUBSET S
      BY PickSmaller
    <3>2. Cardinality(s \ {y}) \in Nat
      BY <3>1, FS_Subset, FS_CardinalityType
    <3> QED BY <2>1, <3>1, <3>2
  <2>2. ASSUME NEW s \in SUBSET S, Cardinality(s) <= 0 PROVE H(s) = F(s) - G(s)
    BY <1>3, <2>1, <2>2
  <2> QED BY <2>2
<1>6. ASSUME NEW n \in Differ PROVE n + 1 \in Differ
  <2>1. n \in Nat
    OBVIOUS
  <2>2. ASSUME NEW s \in SUBSET S, Cardinality(s) <= n + 1 PROVE H(s) = F(s) - G(s)
    <3>1. ASSUME s # {} PROVE H(s \ {Pick(s)}) = F(s \ {Pick(s)}) - G(s \ {Pick(s)})
      <4>1. Pick(s) \in s
        BY <3>1 DEF Pick
      <4>2. /\ s \ {Pick(s)} \in SUBSET S /\ Cardinality(s) \in Nat
            /\ Cardinality(s \ {Pick(s)}) = Cardinality(s) - 1
        BY <4>1, PickSmaller
      <4>3. Cardinality(s \ {Pick(s)}) <= n
        BY <2>1, <2>2, <4>2
      <4> QED BY <4>2, <4>3
    <3> QED BY <1>3, <3>1
  <2> QED BY <2>1, <2>2
<1>7. Cardinality(S) \in Differ /\ Cardinality(S) \in Nat
  <2> HIDE DEF Differ
  <2> QED BY <1>4, <1>5, <1>6, NatSetInduction, FS_CardinalityType
<1>8. H(S) = F(S) - G(S)
  <2>1. S \in SUBSET S /\ Cardinality(S) <= Cardinality(S)
    BY <1>7
  <2> QED BY <1>7, <2>1
<1>9. F(S) \in Int /\ G(S) \in Int
  <2>1. S \in SUBSET S
    OBVIOUS
  <2> QED BY <1>2, <2>1
<1> QED BY <1>8, <1>9 DEF F, G, H, h, SumOver

(* A sum changes as its only number that changes.                          *)
LEMMA SumChange ==
  ASSUME NEW S, IsFiniteSet(S), NEW f \in [S -> Int], NEW g \in [S -> Int],
         NEW x \in S, \A y \in S \ {x} : g[y] = f[y]
  PROVE  /\ SumOver(f, S) \in Int /\ SumOver(g, S) \in Int
         /\ SumOver(g, S) - g[x] = SumOver(f, S) - f[x]
<1>1. SumOver(f, S) = SumOver(f, S \ {x}) + f[x] /\ SumOver(g, S) = SumOver(g, S \ {x}) + g[x]
  BY SumWithout
<1>2. SumOver(g, S \ {x}) = SumOver(f, S \ {x})
  <2>1. IsFiniteSet(S \ {x}) /\ S \ {x} \in SUBSET (S \ {x})
    BY FS_Subset
  <2>2. \A y \in S \ {x} : f[y] \in Int /\ g[y] \in Int
    OBVIOUS
  <2> QED BY <2>1, <2>2, SameSum DEF SumOver
<1>3. SumOver(f, S) \in Int /\ SumOver(g, S) \in Int
  BY SumDifference
<1>4. SumOver(f, S \ {x}) \in Int
  <2>1. IsFiniteSet(S \ {x})
    BY FS_Subset
  <2>2. \A y \in S \ {x} : f[y] \in Int
    OBVIOUS
  <2>3. S \ {x} \in SUBSET (S \ {x})
    OBVIOUS
  <2> QED BY <2>1, <2>2, <2>3, SumRecursion DEF SumOver
<1>5. f[x] \in Int /\ g[x] \in Int
  OBVIOUS
<1> QED BY <1>1, <1>2, <1>3, <1>4, <1>5

(* The sum of one number more.                                             *)
LEMMA SumOfMore ==
  ASSUME NEW S, IsFiniteSet(S), NEW f \in [S -> Int], NEW x, x \notin S,
         NEW g \in [S \cup {x} -> Int], \A y \in S : g[y] = f[y]
  PROVE  /\ SumOver(f, S) \in Int /\ SumOver(g, S \cup {x}) \in Int
         /\ SumOver(g, S \cup {x}) = SumOver(f, S) + g[x]
<1> DEFINE T == S \cup {x}
<1>1. IsFiniteSet(T) /\ T \ {x} = S /\ x \in T
  BY FS_AddElement
<1>2. SumOver(g, T) = SumOver(g, S) + g[x]
  <2>1. \A y \in T : g[y] \in Int
    OBVIOUS
  <2> HIDE DEF T
  <2>2. SumOver(g, T) = SumOver(g, T \ {x}) + g[x]
    BY <1>1, <2>1, SumWithout
  <2> QED BY <1>1, <2>2
<1>3. SumOver(g, S) = SumOver(f, S)
  <2>1. \A y \in S : f[y] \in Int /\ g[y] \in Int
    OBVIOUS
  <2>2. S \in SUBSET S
    OBVIOUS
  <2> QED BY <2>1, <2>2, SameSum DEF SumOver
<1>4. SumOver(f, S) \in Int /\ SumOver(g, T) \in Int
  <2>1. g \in [T -> Int]
    OBVIOUS
  <2> HIDE DEF T
  <2> QED BY <1>1, <2>1, SumDifference
<1> QED BY <1>2, <1>3, <1>4

(* The sum of one number less, the others moving up.                       *)
LEMMA SumWithoutPlace ==
  ASSUME NEW n \in Nat, NEW i \in 1 .. n + 1, NEW f \in [1 .. n + 1 -> Int],
         NEW g \in [1 .. n -> Int],
         \A k \in 1 .. n : g[k] = IF k < i THEN f[k] ELSE f[k + 1]
  PROVE  /\ SumOver(f, 1 .. n + 1) \in Int /\ SumOver(g, 1 .. n) \in Int
         /\ SumOver(f, 1 .. n + 1) = SumOver(g, 1 .. n) + f[i]
<1> DEFINE place(k) == IF k < i THEN k ELSE k + 1
           Places(k) == {place(j) : j \in 1 .. k}
           Kept == {k \in Nat : k <= n => SumOver(g, 1 .. k) = SumOver(f, Places(k))}
<1>1. \A k \in 1 .. n : /\ place(k) \in 1 .. n + 1 /\ g[k] = f[place(k)]
                        /\ g[k] \in Int /\ f[place(k)] \in Int
  OBVIOUS
<1>2. \A k \in Nat : IsFiniteSet(1 .. k)
  BY FS_Interval
<1>3. \A k \in 0 .. n : Places(k) \subseteq 1 .. n + 1 /\ IsFiniteSet(Places(k))
  <2>1. ASSUME NEW k \in 0 .. n PROVE Places(k) \subseteq 1 .. n + 1
    <3>1. \A j \in 1 .. k : j \in 1 .. n
      OBVIOUS
    <3> QED BY <1>1, <3>1
  <2>2. IsFiniteSet(1 .. n + 1)
    BY <1>2
  <2> HIDE DEF Places
  <2> QED BY <2>1, <2>2, FS_Subset
<1>4. 0 \in Kept
  <2>1. 1 .. 0 = {} /\ Places(0) = {}
    OBVIOUS
  <2>2. SumOver(g, {}) = SumOver(f, {})
    <3>1. IsFiniteSet({}) /\ {} \in SUBSET {}
      BY FS_EmptySet
    <3> QED BY <3>1, SameSum DEF SumOver
  <2> HIDE DEF Places
  <2> QED BY <2>1, <2>2
<1>5. ASSUME NEW k \in Kept PROVE k + 1 \in Kept
  <2> SUFFICES ASSUME k + 1 <= n
               PROVE  SumOver(g, 1 .. k + 1) = SumOver(f, Places(k + 1))
    OBVIOUS
  <2>1. k \in Nat /\ SumOver(g, 1 .. k) = SumOver(f, Places(k)) /\ k + 1 \in 1 .. n
        /\ k \in 0 .. n /\ k + 1 \in 0 .. n
    OBVIOUS
  <2>2. /\ k + 1 \in 1 .. k + 1 /\ (1 .. k + 1) \ {k + 1} = 1 .. k
        /\ place(k + 1) \in Places(k + 1) /\ Places(k + 1) \ {place(k + 1)} = Places(k)
    <3>1. 1 .. k + 1 = (1 .. k) \cup {k + 1} /\ k + 1 \notin 1 .. k
      BY <2>1
    <3>2. \A j \in 1 .. k : place(j) # place(k + 1)
      BY <2>1
    <3> HIDE DEF place
    <3> QED BY <3>1, <3>2
  <2>3. SumOver(g, 1 .. k + 1) = SumOver(g, 1 .. k) + g[k + 1]
    <3>1. \A j \in 1 .. k + 1 : g[j] \in Int
      BY <1>1, <2>1
    <3>2. IsFiniteSet(1 .. k + 1)
      BY <1>2, <2>1
    <3>3. SumOver(g, 1 .. k + 1) = SumOver(g, (1 .. k + 1) \ {k + 1}) + g[k + 1]
      <4> DEFINE K == 1 .. k + 1
                 z == k + 1
      <4>1. IsFiniteSet(K) /\ z \in K /\ \A j \in K : g[j] \in Int
        BY <2>2, <3>1, <3>2
      <4> HIDE DEF K, z
      <4>2. SumOver(g, K) = SumOver(g, K \ {z}) + g[z]
        BY <4>1, SumWithout
      <4> QED BY <4>2 DEF K, z
    <3> QED BY <2>2, <3>3
  <2>4. SumOver(f, Places(k + 1)) = SumOver(f, Places(k)) + f[place(k + 1)]
    <3>1. IsFiniteSet(Places(k + 1)) /\ \A j \in Places(k + 1) : f[j] \in Int
      BY <1>3, <2>1
    <3> HIDE DEF Places, place
    <3>2. SumOver(f, Places(k + 1)) = SumOver(f, Places(k + 1) \ {place(k + 1)}) + f[place(k + 1)]
      BY <2>2, <3>1, SumWithout
    <3> QED BY <2>2, <3>2
  <2> HIDE DEF Places, place
  <2> QED BY <1>1, <2>1, <2>3, <2>4
<1>6. SumOver(g, 1 .. n) = SumOver(f, Places(n))
  <2>1. Kept \in SUBSET Nat
    OBVIOUS
  <2> HIDE DEF Kept
  <2>2. n \in Kept
    BY <1>4, <1>5, <2>1, NatSetInduction
  <2> QED BY <2>2 DEF Kept
<1>7. Places(n) = (1 .. n + 1) \ {i}
  <2>1. ASSUME NEW j \in (1 .. n + 1) \ {i} PROVE j \in Places(n)
    <3>1. CASE j < i
      <4>1. j \in 1 .. n /\ place(j) = j
        BY <3>1
      <4> QED BY <4>1
    <3>2. CASE ~ (j < i)
      <4>1. j - 1 \in 1 .. n /\ place(j - 1) = j
        BY <3>2
      <4> QED BY <4>1
    <3> QED BY <3>1, <3>2
  <2>2. \A j \in 1 .. n : place(j) \in (1 .. n + 1) \ {i}
    OBVIOUS
  <2> HIDE DEF place
  <2> QED BY <2>1, <2>2
<1> HIDE DEF Places, place
<1>8. SumOver(f, 1 .. n + 1) = SumOver(f, (1 .. n + 1) \ {i}) + f[i]
  <2> DEFINE N == 1 .. n + 1
  <2>1. IsFiniteSet(N) /\ i \in N /\ \A j \in N : f[j] \in Int
    BY <1>2
  <2> HIDE DEF N, Kept
  <2>2. SumOver(f, N) = SumOver(f, N \ {i}) + f[i]
    BY <2>1, SumWithout
  <2> QED BY <2>2 DEF N
<1>9. SumOver(f, 1 .. n + 1) \in Int /\ SumOver(g, 1 .. n) \in Int
  <2>1. IsFiniteSet(1 .. n + 1) /\ IsFiniteSet(1 .. n)
    BY <1>2
  <2>2. SumOver(f, 1 .. n + 1) \in Int
    BY <2>1, SumDifference
  <2> QED BY <2>1, <2>2, SumDifference
<1> QED BY <1>6, <1>7, <1>8, <1>9

-----------------------------------------------------------------------------
(* The books of the ports.                                                 *)

Meter(m) == m \in [pkts : Nat, bits : {m.bits}, start : {m.start}, measured : Nat]

PortBooks(p) ==
  /\ p.left \in Int /\ p.left >= -1
  /\ Meter(p.tx) /\ Meter(p.rx)
  /\ p.sendingStreams \in [Servers -> Int] /\ p.receivingStreams \in [Servers -> Int]

(* What of a stream has left its sender's line and the network, and the    *)
(* packets that a port has sent beyond those that are somewhere.           *)
Gone(p, dest) == p.sendingStreams[dest] - Underway(p.wire, dest)
Excess(p) == PktsSent(p) - PktsLeft(p)

SameBooks(p, q) ==
  /\ PortBooks(q) /\ Excess(q) = Excess(p) /\ q.receivingStreams = p.receivingStreams
  /\ \A dest \in Servers : Gone(q, dest) = Gone(p, dest)

Books(ports, pkts, bytes) ==
  /\ \A s \in Servers : PortBooks(ports[s])
  /\ pkts \in Int /\ bytes \in [Connections -> Int]
  /\ \A conn \in Connections :
       Gone(ports[conn[1]], conn[2]) = ports[conn[2]].receivingStreams[conn[1]] + bytes[conn]
  /\ SumOver([s \in Servers |-> Excess(ports[s])], Servers) = pkts

BooksInv == Books(port, lostPkts, lostBytes)

(* What is under way is a number of bytes.                                 *)
LEMMA UnderwayType ==
  ASSUME NEW s, NEW w \in Seq(Packets(s)), NEW dest
  PROVE  /\ Underway(w, dest) \in Int
         /\ Underway(w, dest) = SumOver([i \in 1 .. Len(w) |-> StreamBytes(w[i], dest)], 1 .. Len(w))
         /\ Len(w) \in Nat /\ DOMAIN w = 1 .. Len(w)
         /\ \A i \in 1 .. Len(w) : w[i] \in Packets(s) /\ StreamBytes(w[i], dest) \in Int
<1> DEFINE n == Len(w)
           shares == [i \in 1 .. n |-> StreamBytes(w[i], dest)]
<1>1. n \in Nat /\ DOMAIN w = 1 .. n /\ \A i \in 1 .. n : w[i] \in Packets(s)
  OBVIOUS
<1> HIDE DEF n
<1>2. \A i \in 1 .. n : StreamBytes(w[i], dest) \in Int
  BY <1>1 DEF StreamBytes, Packets
<1>3. shares \in [1 .. n -> Int] /\ DOMAIN shares = 1 .. n
  BY <1>2
<1>4. Underway(w, dest) = SumFunction(shares)
  BY <1>1 DEF Underway
<1> HIDE DEF shares
<1>5. SumFunction(shares) = SumOver(shares, 1 .. n)
  BY <1>3 DEF SumFunction, SumFunctionOnSet, FoldFunctionOnSet, MapThenFoldSet, SumOver, Sums, SumUp, Pick
<1>6. SumOver(shares, 1 .. n) \in Int
  <2>1. IsFiniteSet(1 .. n)
    BY <1>1, FS_Interval
  <2> QED BY <1>3, <2>1, SumDifference
<1> QED BY <1>1, <1>2, <1>4, <1>5, <1>6 DEF n, shares

(* A packet more is under way.                                             *)
LEMMA AppendUnderway ==
  ASSUME NEW s, NEW w \in Seq(Packets(s)), NEW pkt \in Packets(s), NEW dest
  PROVE  /\ Underway(Append(w, pkt), dest) = Underway(w, dest) + StreamBytes(pkt, dest)
         /\ StreamBytes(pkt, dest) \in Int
<1> DEFINE n == Len(w)
           v == Append(w, pkt)
           f == [i \in 1 .. n |-> StreamBytes(w[i], dest)]
           g == [i \in 1 .. n + 1 |-> StreamBytes(v[i], dest)]
<1>1. v \in Seq(Packets(s)) /\ Len(v) = n + 1 /\ v[n + 1] = pkt /\ \A i \in 1 .. n : v[i] = w[i]
  OBVIOUS
<1>2. n \in Nat /\ Underway(w, dest) = SumOver(f, 1 .. n) /\ f \in [1 .. n -> Int]
  BY UnderwayType
<1> HIDE DEF n, v
<1>3. Underway(v, dest) = SumOver(g, 1 .. n + 1) /\ g \in [1 .. n + 1 -> Int]
  BY <1>1, UnderwayType
<1>4. /\ \A i \in 1 .. n : g[i] = f[i] /\ i \in 1 .. n + 1
      /\ g[n + 1] = StreamBytes(pkt, dest) /\ g[n + 1] \in Int
  BY <1>1, <1>2, <1>3
<1> HIDE DEF f, g
<1>5. SumOver(g, 1 .. n + 1) = SumOver(f, 1 .. n) + g[n + 1]
  <2> DEFINE S == 1 .. n
             x == n + 1
  <2>1. S \cup {x} = 1 .. n + 1 /\ x \notin S /\ IsFiniteSet(S)
    <3>1. IsFiniteSet(S)
      BY <1>2, FS_Interval
    <3> QED BY <1>2, <3>1
  <2>2. f \in [S -> Int] /\ g \in [S \cup {x} -> Int] /\ \A y \in S : g[y] = f[y]
    BY <1>2, <1>3, <1>4, <2>1
  <2> HIDE DEF S, x
  <2>3. SumOver(g, S \cup {x}) = SumOver(f, S) + g[x]
    BY <2>1, <2>2, SumOfMore
  <2> QED BY <2>1, <2>3 DEF S, x
<1> QED BY <1>2, <1>3, <1>4, <1>5 DEF v

(* A packet less is under way, wherever it was.                            *)
LEMMA RemoveUnderway ==
  ASSUME NEW s, NEW w \in Seq(Packets(s)), NEW i \in 1 .. Len(w), NEW dest
  PROVE  /\ RemoveAt(w, i) \in Seq(Packets(s)) /\ Len(RemoveAt(w, i)) = Len(w) - 1
         /\ w[i] \in Packets(s) /\ StreamBytes(w[i], dest) \in Int
         /\ Underway(w, dest) = Underway(RemoveAt(w, i), dest) + StreamBytes(w[i], dest)
<1> DEFINE n == Len(w) - 1
           v == RemoveAt(w, i)
           f == [k \in 1 .. n + 1 |-> StreamBytes(w[k], dest)]
           g == [k \in 1 .. n |-> StreamBytes(v[k], dest)]
<1>1. Len(w) = n + 1 /\ n \in Nat /\ i \in 1 .. n + 1
  OBVIOUS
<1>2. /\ v \in Seq(Packets(s)) /\ Len(v) = n
      /\ \A k \in 1 .. n : v[k] = IF k < i THEN w[k] ELSE w[k + 1]
  <2> DEFINE a == SubSeq(w, 1, i - 1)
             b == SubSeq(w, i + 1, Len(w))
  <2>1. a \in Seq(Packets(s)) /\ Len(a) = i - 1 /\ \A k \in 1 .. i - 1 : a[k] = w[k]
    OBVIOUS
  <2>2. /\ b \in Seq(Packets(s)) /\ Len(b) = (n + 1) - i
        /\ \A k \in 1 .. (n + 1) - i : b[k] = w[i + k]
    OBVIOUS
  <2>3. v = a \o b
    BY DEF RemoveAt
  <2> HIDE DEF n, a, b, v
  <2>4. /\ v \in Seq(Packets(s)) /\ Len(v) = Len(a) + Len(b)
        /\ \A k \in 1 .. Len(a) + Len(b) : v[k] = IF k <= Len(a) THEN a[k] ELSE b[k - Len(a)]
    BY <2>1, <2>2, <2>3, ConcatProperties
  <2>5. Len(a) + Len(b) = n
    BY <1>1, <2>1, <2>2
  <2>6. ASSUME NEW k \in 1 .. n PROVE v[k] = IF k < i THEN w[k] ELSE w[k + 1]
    <3>1. CASE k < i
      <4>1. k \in 1 .. i - 1 /\ k <= Len(a)
        BY <1>1, <2>1, <3>1
      <4> QED BY <2>1, <2>4, <2>5, <3>1, <4>1
    <3>2. CASE ~ (k < i)
      <4>1. /\ k - (i - 1) \in 1 .. (n + 1) - i /\ i + (k - (i - 1)) = k + 1 /\ ~ (k <= Len(a))
            /\ k - Len(a) = k - (i - 1)
        BY <1>1, <2>1, <3>2
      <4>2. v[k] = b[k - (i - 1)]
        BY <2>4, <2>5, <4>1
      <4>3. b[k - (i - 1)] = w[i + (k - (i - 1))]
        BY <2>2, <4>1
      <4> QED BY <3>2, <4>1, <4>2, <4>3
    <3> QED BY <3>1, <3>2
  <2> QED BY <2>4, <2>5, <2>6
<1>3. /\ Underway(w, dest) = SumOver(f, 1 .. n + 1) /\ f \in [1 .. n + 1 -> Int]
      /\ \A k \in 1 .. n + 1 : w[k] \in Packets(s)
  <2> HIDE DEF n
  <2> QED BY <1>1, UnderwayType
<1> HIDE DEF n, v
<1>4. Underway(v, dest) = SumOver(g, 1 .. n) /\ g \in [1 .. n -> Int]
  BY <1>2, UnderwayType
<1>5. \A k \in 1 .. n : g[k] = IF k < i THEN f[k] ELSE f[k + 1]
  <2> SUFFICES ASSUME NEW k \in 1 .. n PROVE g[k] = IF k < i THEN f[k] ELSE f[k + 1]
    OBVIOUS
  <2>1. k \in 1 .. n + 1 /\ k + 1 \in 1 .. n + 1
    BY <1>1
  <2> QED BY <1>2, <2>1
<1>6. f[i] = StreamBytes(w[i], dest) /\ f[i] \in Int
  BY <1>1, <1>3
<1> HIDE DEF f, g
<1>7. SumOver(f, 1 .. n + 1) = SumOver(g, 1 .. n) + f[i]
  BY <1>1, <1>3, <1>4, <1>5, SumWithoutPlace
<1> QED BY <1>1, <1>2, <1>3, <1>4, <1>6, <1>7 DEF v

(* A meter counts the packet it is told of, at the end of a batch as well. *)
LEMMA UpdateFacts ==
  ASSUME NEW m, Meter(m), NEW time, NEW bits
  PROVE  /\ Meter(Port!updateStats(m, time, bits))
         /\ PktsCounted(Port!updateStats(m, time, bits)) = PktsCounted(m) + 1
         /\ PktsCounted(m) \in Int
<1> DEFINE current == IF Port!BatchOver(m, time) THEN Port!measureBandwidth(m, time) ELSE m
<1>1. Meter(current) /\ PktsCounted(current) = PktsCounted(m) /\ PktsCounted(m) \in Int
  BY DEF Meter, PktsCounted, Port!measureBandwidth
<1>2. Port!updateStats(m, time, bits) = [current EXCEPT !.pkts = @ + 1, !.bits = @ + bits]
  BY DEF Port!updateStats
<1> HIDE DEF current
<1> DEFINE a == current.pkts + 1
           b == current.bits + bits
           u == [current EXCEPT !.pkts = a, !.bits = b]
<1>3. a \in Nat
  BY <1>1 DEF Meter
<1>4. Port!updateStats(m, time, bits) = u
  BY <1>2
<1>5. /\ u \in [pkts : {a}, bits : {b}, start : {current.start}, measured : {current.measured}]
      /\ current.measured \in Nat
  <2> HIDE DEF a, b
  <2> QED BY <1>1 DEF Meter
<1>6. u.pkts = a /\ u.bits = b /\ u.start = current.start /\ u.measured = current.measured
  <2> HIDE DEF a, b, u
  <2> QED BY <1>5
<1>7. Meter(u)
  <2> HIDE DEF a, b, u
  <2> QED BY <1>3, <1>5, <1>6 DEF Meter
<1>8. PktsCounted(u) = PktsCounted(current) + 1
  <2>1. u.measured + u.pkts = (current.measured + current.pkts) + 1
    <3>1. current.pkts \in Nat
      BY <1>1 DEF Meter
    <3> HIDE DEF u
    <3> QED BY <1>5, <1>6, <3>1
  <2> QED BY <2>1 DEF PktsCounted
<1> QED BY <1>1, <1>4, <1>7, <1>8

(* The values of a port's fields.                                          *)
Fields(queue, left, bits, wire, tx, rx, sent, got) ==
  [queue : {queue}, left : {left}, bitsOnWire : {bits}, wire : {wire},
   tx : {tx}, rx : {rx}, sendingStreams : {sent}, receivingStreams : {got}]

(* A port has them, also after an assignment to some of them.              *)
LEMMA PortFields ==
  ASSUME NEW s, NEW p, IsPort(s, p), NEW a, NEW b, NEW c, NEW d
  PROVE  /\ [p EXCEPT !.bitsOnWire = a, !.left = b, !.wire = c, !.sendingStreams = d]
              \in Fields(p.queue, b, a, c, p.tx, p.rx, d, p.receivingStreams)
         /\ [p EXCEPT !.rx = a, !.receivingStreams = b]
              \in Fields(p.queue, p.left, p.bitsOnWire, p.wire, p.tx, a, p.sendingStreams, b)
         /\ [p EXCEPT !.queue = a]
              \in Fields(a, p.left, p.bitsOnWire, p.wire, p.tx, p.rx,
                         p.sendingStreams, p.receivingStreams)
         /\ [p EXCEPT !.left = a]
              \in Fields(p.queue, a, p.bitsOnWire, p.wire, p.tx, p.rx,
                         p.sendingStreams, p.receivingStreams)
         /\ [p EXCEPT !.wire = a]
              \in Fields(p.queue, p.left, p.bitsOnWire, a, p.tx, p.rx,
                         p.sendingStreams, p.receivingStreams)
         /\ [p EXCEPT !.tx = a]
              \in Fields(p.queue, p.left, p.bitsOnWire, p.wire, a, p.rx,
                         p.sendingStreams, p.receivingStreams)
<1>1. p \in Fields(p.queue, p.left, p.bitsOnWire, p.wire, p.tx, p.rx,
                   p.sendingStreams, p.receivingStreams)
  BY DEF IsPort, Fields
<1>2. [p EXCEPT !.bitsOnWire = a, !.left = b, !.wire = c, !.sendingStreams = d]
        \in Fields(p.queue, b, a, c, p.tx, p.rx, d, p.receivingStreams)
  BY <1>1 DEF Fields
<1>3. [p EXCEPT !.rx = a, !.receivingStreams = b]
        \in Fields(p.queue, p.left, p.bitsOnWire, p.wire, p.tx, a, p.sendingStreams, b)
  BY <1>1 DEF Fields
<1>4. [p EXCEPT !.queue = a]
        \in Fields(a, p.left, p.bitsOnWire, p.wire, p.tx, p.rx,
                   p.sendingStreams, p.receivingStreams)
  BY <1>1 DEF Fields
<1>5. [p EXCEPT !.left = a]
        \in Fields(p.queue, a, p.bitsOnWire, p.wire, p.tx, p.rx,
                   p.sendingStreams, p.receivingStreams)
  BY <1>1 DEF Fields
<1>6. [p EXCEPT !.wire = a]
        \in Fields(p.queue, p.left, p.bitsOnWire, a, p.tx, p.rx,
                   p.sendingStreams, p.receivingStreams)
  BY <1>1 DEF Fields
<1>7. [p EXCEPT !.tx = a]
        \in Fields(p.queue, p.left, p.bitsOnWire, p.wire, a, p.rx,
                   p.sendingStreams, p.receivingStreams)
  BY <1>1 DEF Fields
<1> QED BY <1>2, <1>3, <1>4, <1>5, <1>6, <1>7

(* And these are its fields.                                               *)
LEMMA FieldsAre ==
  ASSUME NEW p, NEW queue, NEW left, NEW bits, NEW wire, NEW tx, NEW rx, NEW sent, NEW got,
         p \in Fields(queue, left, bits, wire, tx, rx, sent, got)
  PROVE  /\ p.left = left /\ p.wire = wire /\ p.tx = tx /\ p.rx = rx
         /\ p.sendingStreams = sent /\ p.receivingStreams = got
BY DEF Fields

(* Books in terms of the fields.                                           *)
LEMMA ExcessIs ==
  ASSUME NEW s, NEW p, IsPort(s, p), PortBooks(p)
  PROVE  /\ PktsSent(p) = PktsCounted(p.tx) + (IF p.left = -1 THEN 0 ELSE 1)
         /\ Excess(p) = (PktsCounted(p.tx) + (IF p.left = -1 THEN 0 ELSE 1))
                          - (PktsCounted(p.rx) + Len(p.wire))
         /\ PktsCounted(p.tx) \in Int /\ PktsCounted(p.rx) \in Int /\ Len(p.wire) \in Int
         /\ Excess(p) \in Int
<1>1. PktsCounted(p.tx) \in Int /\ PktsCounted(p.rx) \in Int
  BY DEF PortBooks, Meter, PktsCounted
<1>2. Len(p.wire) \in Int
  <2>1. p.wire \in Seq(Packets(s))
    BY DEF IsPort
  <2> DEFINE w == p.wire
  <2> HIDE DEF w
  <2>2. Len(w) \in Int
    BY <2>1 DEF w
  <2> QED BY <2>2 DEF w
<1>3. Excess(p) = (PktsCounted(p.tx) + (IF p.left = -1 THEN 0 ELSE 1))
                    - (PktsCounted(p.rx) + Len(p.wire))
  BY DEF Excess, PktsSent, PktsLeft, Port!Idle
<1>4. PktsSent(p) = PktsCounted(p.tx) + (IF p.left = -1 THEN 0 ELSE 1)
  BY DEF PktsSent, Port!Idle
<1> QED BY <1>1, <1>2, <1>3, <1>4

(* A packet that begins to be sent is recorded in its stream as under way, *)
(* and counts as sent from now on.                                         *)
LEMMA StartBooks ==
  ASSUME NEW s, NEW p, IsPort(s, p), PortBooks(p), NEW pkt \in Packets(s), NEW time \in Nat
  PROVE  LET q == Port!startTransmitting(p, pkt, time)
         IN  /\ PortBooks(q) /\ q.left \in Int /\ q.left > 0 /\ q.tx = p.tx
             /\ Excess(q) = PktsCounted(p.tx) - (PktsCounted(p.rx) + Len(p.wire))
             /\ q.receivingStreams = p.receivingStreams
             /\ \A dest \in Servers : Gone(q, dest) = Gone(p, dest)
<1> DEFINE stamped == [pkt EXCEPT !.timestamp = time]
           w == Append(p.wire, stamped)
           streams == Port!recordSendStream(p.sendingStreams, stamped)
           q == Port!startTransmitting(p, pkt, time)
<1>1. stamped \in Packets(s) /\ pkt.bytes \in {1, 2} /\ stamped.destAddr \in Servers
      /\ stamped.bytes \in {1, 2}
  BY DEF Packets
<1>2. q = [p EXCEPT !.bitsOnWire = pkt.bytes, !.left = pkt.bytes, !.wire = w,
                    !.sendingStreams = streams]
  BY DEF Port!startTransmitting
<1>3. p.wire \in Seq(Packets(s))
  BY DEF IsPort
<1>4. w \in Seq(Packets(s)) /\ Len(w) = Len(p.wire) + 1 /\ Len(p.wire) \in Nat
  <2> DEFINE v == p.wire
  <2>1. v \in Seq(Packets(s))
    BY <1>3
  <2> HIDE DEF v, stamped
  <2>2. Append(v, stamped) \in Seq(Packets(s)) /\ Len(Append(v, stamped)) = Len(v) + 1
        /\ Len(v) \in Nat
    BY <1>1, <2>1
  <2> QED BY <2>2 DEF v
<1>5. /\ streams \in [Servers -> Int]
      /\ \A dest \in Servers : streams[dest] = p.sendingStreams[dest] + StreamBytes(stamped, dest)
  <2> DEFINE old == p.sendingStreams
             d == stamped.destAddr
             bytes == stamped.bytes
  <2>1. old \in [Servers -> Int] /\ d \in Servers /\ bytes \in Int
    BY <1>1 DEF PortBooks
  <2>2. streams = IF Port!Recorded(stamped, d) THEN [old EXCEPT ![d] = @ + bytes] ELSE old
    BY StatsAssumption DEF Port!recordSendStream, Port!StreamRecord, Port!Recorded, Port!InMeasurementInterval
  <2>3. \A dest \in Servers : StreamBytes(stamped, dest) =
          IF dest = d /\ Port!Recorded(stamped, d) THEN bytes ELSE 0
    BY DEF StreamBytes
  <2> HIDE DEF old, d, bytes, stamped, streams
  <2>4. /\ streams \in [Servers -> Int]
        /\ \A dest \in Servers : streams[dest] = old[dest] + StreamBytes(stamped, dest)
    BY <2>1, <2>2, <2>3
  <2> QED BY <2>4 DEF old
<1> HIDE DEF w, streams, q
<1>6. IsPort(s, q)
  BY StartFacts DEF q
<1>7. /\ q.left = pkt.bytes /\ q.wire = w /\ q.tx = p.tx /\ q.rx = p.rx
      /\ q.sendingStreams = streams /\ q.receivingStreams = p.receivingStreams
  <2>1. q \in Fields(p.queue, pkt.bytes, pkt.bytes, w, p.tx, p.rx, streams, p.receivingStreams)
    BY <1>2, PortFields
  <2> QED BY <2>1, FieldsAre
<1>8. PortBooks(q)
  BY <1>1, <1>5, <1>7 DEF PortBooks
<1>9. Excess(q) = PktsCounted(p.tx) - (PktsCounted(p.rx) + Len(p.wire))
  <2> DEFINE x == PktsCounted(p.tx)
             y == PktsCounted(p.rx)
             n == Len(p.wire)
  <2>1. x \in Int /\ y \in Int /\ n \in Int
    BY ExcessIs
  <2>2. Excess(q) = (x + 1) - (y + (n + 1))
    <3>1. ~ (q.left = -1)
      BY <1>1, <1>7
    <3> QED BY <1>4, <1>6, <1>7, <1>8, <3>1, ExcessIs
  <2> HIDE DEF x, y, n
  <2>3. (x + 1) - (y + (n + 1)) = x - (y + n)
    BY <2>1
  <2> QED BY <2>2, <2>3 DEF x, y, n
<1>10. ASSUME NEW dest \in Servers PROVE Gone(q, dest) = Gone(p, dest)
  <2> DEFINE a == p.sendingStreams[dest]
             b == Underway(p.wire, dest)
             c == StreamBytes(stamped, dest)
  <2>1. Underway(w, dest) = b + c /\ c \in Int /\ b \in Int
    BY <1>1, <1>3, AppendUnderway, UnderwayType DEF w
  <2>2. streams[dest] = a + c /\ a \in Int
    BY <1>5 DEF PortBooks
  <2>3. Gone(q, dest) = (a + c) - (b + c) /\ Gone(p, dest) = a - b
    BY <1>7, <2>1, <2>2 DEF Gone
  <2> HIDE DEF a, b, c
  <2> QED BY <2>1, <2>2, <2>3
<1>11. q.left \in Int /\ q.left > 0
  BY <1>1, <1>7
<1> QED BY <1>7, <1>8, <1>9, <1>10, <1>11 DEF q

(* A packet from the layer above is queued or begins to be sent.           *)
LEMMA FromUpperBooks ==
  ASSUME NEW s, NEW p, IsPort(s, p), PortBooks(p), NEW pkt \in Packets(s), NEW time \in Nat
  PROVE  SameBooks(p, Port!FromUpperLayer(p, pkt, time))
<1>1. CASE p.left = Port!Idle
  <2> DEFINE q == Port!startTransmitting(p, pkt, time)
  <2>1. Port!FromUpperLayer(p, pkt, time) = q
    BY <1>1 DEF Port!FromUpperLayer
  <2>2. /\ PortBooks(q)
        /\ Excess(q) = PktsCounted(p.tx) - (PktsCounted(p.rx) + Len(p.wire))
        /\ q.receivingStreams = p.receivingStreams
        /\ \A dest \in Servers : Gone(q, dest) = Gone(p, dest)
    BY StartBooks
  <2>3. Excess(p) = PktsCounted(p.tx) - (PktsCounted(p.rx) + Len(p.wire))
    <3> DEFINE x == PktsCounted(p.tx)
               y == PktsCounted(p.rx) + Len(p.wire)
    <3>1. Excess(p) = (x + 0) - y /\ x \in Int
      BY <1>1, ExcessIs DEF Port!Idle
    <3> HIDE DEF x, y
    <3> QED BY <3>1 DEF x, y
  <2> QED BY <2>1, <2>2, <2>3 DEF SameBooks
<1>2. CASE p.left # Port!Idle
  <2> DEFINE queue == Append(p.queue, pkt)
             q == Port!FromUpperLayer(p, pkt, time)
  <2>1. q = [p EXCEPT !.queue = queue]
    BY <1>2 DEF Port!FromUpperLayer
  <2> HIDE DEF q, queue
  <2>2. q \in Fields(queue, p.left, p.bitsOnWire, p.wire, p.tx, p.rx,
                     p.sendingStreams, p.receivingStreams)
    BY <2>1, PortFields
  <2>3. /\ q.left = p.left /\ q.wire = p.wire /\ q.tx = p.tx /\ q.rx = p.rx
        /\ q.sendingStreams = p.sendingStreams /\ q.receivingStreams = p.receivingStreams
    BY <2>2, FieldsAre
  <2> QED BY <2>3 DEF q, SameBooks, PortBooks, Excess, PktsSent, PktsLeft, Gone
<1> QED BY <1>1, <1>2

(* When the line is free, the packet that has been sent is counted by the  *)
(* meter instead, also if another one begins to be sent.                   *)
LEMMA FinishBooks ==
  ASSUME NEW s, NEW p, IsPort(s, p), PortBooks(p), p.left = 0, NEW time \in Nat
  PROVE  SameBooks(p, Port!finishTransmitting(p, time))
<1> DEFINE rest == [p EXCEPT !.queue = Tail(@)]
           next == IF p.queue = << >>
                   THEN [p EXCEPT !.left = Port!Idle]
                   ELSE Port!startTransmitting(rest, Head(p.queue), time)
           tx == Port!updateStats(next.tx, time, next.bitsOnWire)
           q == Port!finishTransmitting(p, time)
           x == PktsCounted(p.tx)
           y == PktsCounted(p.rx) + Len(p.wire)
<1>1. x \in Int /\ y \in Int /\ Excess(p) = (x + 1) - y
  <2>1. ~ (p.left = -1)
    OBVIOUS
  <2> QED BY <2>1, ExcessIs
<1>2. /\ IsPort(s, next) /\ PortBooks(next) /\ next.tx = p.tx /\ Excess(next) = x - y
      /\ next.receivingStreams = p.receivingStreams
      /\ \A dest \in Servers : Gone(next, dest) = Gone(p, dest)
  <2>1. CASE p.queue = << >>
    <3>1. next \in Fields(p.queue, -1, p.bitsOnWire, p.wire, p.tx, p.rx,
                          p.sendingStreams, p.receivingStreams)
      BY <2>1, PortFields DEF Port!Idle
    <3>2. next = WithLeft(p, Port!Idle)
      BY <2>1 DEF WithLeft
    <3> HIDE DEF next
    <3>3. IsPort(s, next)
      BY <3>2, FieldsFree
    <3>4. /\ next.left = -1 /\ next.wire = p.wire /\ next.tx = p.tx /\ next.rx = p.rx
          /\ next.sendingStreams = p.sendingStreams /\ next.receivingStreams = p.receivingStreams
      BY <3>1, FieldsAre
    <3>5. PortBooks(next)
      BY <3>4 DEF PortBooks
    <3>6. Excess(next) = (x + 0) - y
      BY <3>3, <3>4, <3>5, ExcessIs
    <3>7. Excess(next) = x - y
      <4> HIDE DEF x, y
      <4> QED BY <1>1, <3>6
    <3> QED BY <3>3, <3>4, <3>5, <3>7 DEF Gone
  <2>2. CASE p.queue # << >>
    <3> DEFINE queue == Tail(p.queue)
               pkt == Head(p.queue)
    <3>1. queue \in Seq(Packets(s)) /\ pkt \in Packets(s)
      BY <2>2 DEF IsPort
    <3>2. rest \in Fields(queue, p.left, p.bitsOnWire, p.wire, p.tx, p.rx,
                          p.sendingStreams, p.receivingStreams)
      BY PortFields
    <3>3. rest = WithQueue(p, queue)
      BY DEF WithQueue
    <3>4. next = Port!startTransmitting(rest, pkt, time)
      BY <2>2
    <3> HIDE DEF rest, queue, pkt, next
    <3>5. IsPort(s, rest)
      BY <3>1, <3>3, FieldsFree
    <3>6. /\ rest.left = p.left /\ rest.wire = p.wire /\ rest.tx = p.tx /\ rest.rx = p.rx
          /\ rest.sendingStreams = p.sendingStreams /\ rest.receivingStreams = p.receivingStreams
      BY <3>2, FieldsAre
    <3>7. PortBooks(rest)
      BY <3>6 DEF PortBooks
    <3>8. IsPort(s, next)
      BY <3>1, <3>4, <3>5, StartFacts
    <3>9. /\ PortBooks(next) /\ next.tx = rest.tx
          /\ Excess(next) = PktsCounted(rest.tx) - (PktsCounted(rest.rx) + Len(rest.wire))
          /\ next.receivingStreams = rest.receivingStreams
          /\ \A dest \in Servers : Gone(next, dest) = Gone(rest, dest)
      BY <3>1, <3>4, <3>5, <3>7, StartBooks
    <3>10. \A dest \in Servers : Gone(rest, dest) = Gone(p, dest)
      BY <3>6 DEF Gone
    <3> QED BY <3>6, <3>8, <3>9, <3>10
  <2> QED BY <2>1, <2>2
<1>3. q = [next EXCEPT !.tx = tx]
  BY DEF Port!finishTransmitting
<1> HIDE DEF next, q
<1>4. Meter(tx) /\ PktsCounted(tx) = x + 1
  BY <1>2, UpdateFacts DEF PortBooks
<1> HIDE DEF tx
<1>5. q = WithTx(next, tx) /\ IsPort(s, q)
  <2>1. q = WithTx(next, tx)
    BY <1>3 DEF WithTx
  <2> QED BY <1>2, <2>1, FieldsFree
<1>6. q \in Fields(next.queue, next.left, next.bitsOnWire, next.wire, tx, next.rx,
                   next.sendingStreams, next.receivingStreams)
  BY <1>2, <1>3, PortFields
<1>7. /\ q.left = next.left /\ q.wire = next.wire /\ q.tx = tx /\ q.rx = next.rx
      /\ q.sendingStreams = next.sendingStreams /\ q.receivingStreams = next.receivingStreams
  BY <1>6, FieldsAre
<1>8. PortBooks(q)
  BY <1>2, <1>4, <1>7 DEF PortBooks
<1>9. Excess(q) = Excess(p)
  <2> DEFINE busy == IF next.left = -1 THEN 0 ELSE 1
             z == PktsCounted(next.rx) + Len(next.wire)
  <2>1. Excess(next) = (x + busy) - z /\ z \in Int
    BY <1>2, ExcessIs
  <2>2. Excess(q) = ((x + 1) + busy) - z
    BY <1>4, <1>5, <1>7, <1>8, ExcessIs
  <2>3. busy \in Int
    OBVIOUS
  <2> HIDE DEF x, y, busy, z
  <2> QED BY <1>1, <1>2, <2>1, <2>2, <2>3
<1>10. \A dest \in Servers : Gone(q, dest) = Gone(p, dest)
  BY <1>2, <1>7 DEF Gone
<1> QED BY <1>2, <1>7, <1>8, <1>9, <1>10 DEF SameBooks, q

(* A packet from the network is counted, and recorded by the same test as  *)
(* at its source.                                                          *)
Arrived(p, q, s, share) ==
  /\ PortBooks(q) /\ Excess(q) = Excess(p) - 1
  /\ q.receivingStreams = [p.receivingStreams EXCEPT ![s] = @ + share]
  /\ \A dest \in Servers : Gone(q, dest) = Gone(p, dest)

(* So is a packet that FromLine() takes.                                   *)
LEMMA LineBooks ==
  ASSUME NEW s \in Servers, NEW pkt \in Packets(s), NEW d, d = pkt.destAddr,
         NEW p, IsPort(d, p), PortBooks(p), NEW time
  PROVE  Arrived(p, Port!FromLine(p, d, pkt, time), s, StreamBytes(pkt, d))
<1> DEFINE q == Port!FromLine(p, d, pkt, time)
           share == StreamBytes(pkt, d)
           rx == Port!updateStats(p.rx, time, pkt.bytes)
           streams == Port!recordReceiveStream(p.receivingStreams, d, pkt)
<1>1. q = [p EXCEPT !.rx = rx, !.receivingStreams = streams]
  BY DEF Port!FromLine
<1>2. Meter(rx) /\ PktsCounted(rx) = PktsCounted(p.rx) + 1
  BY UpdateFacts DEF PortBooks
<1>3. /\ streams \in [Servers -> Int]
      /\ streams = [p.receivingStreams EXCEPT ![s] = @ + share]
  <2> DEFINE old == p.receivingStreams
             bytes == pkt.bytes
  <2>1. old \in [Servers -> Int] /\ bytes \in Int /\ pkt.srcAddr = s
    BY DEF PortBooks, Packets
  <2>2. streams = IF Port!Recorded(pkt, d) THEN [old EXCEPT ![s] = @ + bytes] ELSE old
    BY <2>1, StatsAssumption DEF Port!recordReceiveStream, Port!ReceiveStreamRecord, Port!StreamRecord,
                           Port!Recorded, Port!InMeasurementInterval
  <2>3. share = IF Port!Recorded(pkt, d) THEN bytes ELSE 0
    BY DEF StreamBytes
  <2> HIDE DEF old, bytes, streams, share
  <2>4. old = [old EXCEPT ![s] = @ + 0]
    BY <2>1
  <2>5. streams = [old EXCEPT ![s] = @ + share]
    BY <2>2, <2>3, <2>4
  <2>6. streams \in [Servers -> Int]
    BY <2>1, <2>2
  <2> QED BY <2>5, <2>6 DEF old
<1> HIDE DEF rx, streams, q, share
<1>4. q \in Fields(p.queue, p.left, p.bitsOnWire, p.wire, p.tx, rx, p.sendingStreams, streams)
  <2>1. [p EXCEPT !.rx = rx, !.receivingStreams = streams]
          \in Fields(p.queue, p.left, p.bitsOnWire, p.wire, p.tx, rx, p.sendingStreams, streams)
    BY PortFields
  <2> QED BY <1>1, <2>1
<1>5. /\ q.left = p.left /\ q.wire = p.wire /\ q.tx = p.tx /\ q.rx = rx
      /\ q.sendingStreams = p.sendingStreams /\ q.receivingStreams = streams
  BY <1>4, FieldsAre
<1>6. PortBooks(q)
  BY <1>2, <1>3, <1>5 DEF PortBooks
<1>7. Excess(q) = Excess(p) - 1
  <2> DEFINE a == PktsCounted(p.tx) + (IF p.left = -1 THEN 0 ELSE 1)
             b == PktsCounted(p.rx)
             n == Len(p.wire)
  <2>1. Excess(p) = a - (b + n) /\ a \in Int /\ b \in Int /\ n \in Int
    BY ExcessIs
  <2>2. Excess(q) = a - ((b + 1) + n)
    BY <1>2, <1>5 DEF Excess, PktsSent, PktsLeft, Port!Idle
  <2> HIDE DEF a, b, n
  <2> QED BY <2>1, <2>2
<1>8. \A dest \in Servers : Gone(q, dest) = Gone(p, dest)
  BY <1>5 DEF Gone
<1> QED BY <1>3, <1>5, <1>6, <1>7, <1>8 DEF q, share, Arrived

(* A packet that arrives, or is dropped, is no longer under way.           *)
LEMMA ArrivedBooks ==
  ASSUME NEW s, NEW p, IsPort(s, p), PortBooks(p), NEW i \in 1 .. Len(p.wire)
  PROVE  LET q == [p EXCEPT !.wire = RemoveAt(@, i)]
         IN  /\ PortBooks(q) /\ Excess(q) = Excess(p) + 1
             /\ q.receivingStreams = p.receivingStreams
             /\ \A dest \in Servers : /\ StreamBytes(p.wire[i], dest) \in Int
                                      /\ Gone(q, dest) = Gone(p, dest) + StreamBytes(p.wire[i], dest)
<1> DEFINE w == p.wire
           v == RemoveAt(w, i)
           q == [p EXCEPT !.wire = v]
<1>1. w \in Seq(Packets(s)) /\ i \in 1 .. Len(w)
  BY DEF IsPort
<1> HIDE DEF w
<1>2. /\ Len(v) = Len(w) - 1 /\ Len(w) \in Int /\ v \in Seq(Packets(s))
      /\ \A dest : /\ Underway(w, dest) = Underway(v, dest) + StreamBytes(w[i], dest)
                   /\ StreamBytes(w[i], dest) \in Int
                   /\ Underway(v, dest) \in Int
  <2>1. Len(v) = Len(w) - 1 /\ Len(w) \in Int /\ v \in Seq(Packets(s))
    BY <1>1, RemoveUnderway
  <2>2. ASSUME NEW dest
        PROVE  /\ Underway(w, dest) = Underway(v, dest) + StreamBytes(w[i], dest)
               /\ StreamBytes(w[i], dest) \in Int
    BY <1>1, RemoveUnderway
  <2> HIDE DEF v
  <2>3. ASSUME NEW dest PROVE Underway(v, dest) \in Int
    BY <2>1, UnderwayType
  <2> QED BY <2>1, <2>2, <2>3
<1> HIDE DEF v
<1>3. q \in Fields(p.queue, p.left, p.bitsOnWire, v, p.tx, p.rx,
                   p.sendingStreams, p.receivingStreams)
  BY PortFields
<1> HIDE DEF q
<1>4. /\ q.left = p.left /\ q.wire = v /\ q.tx = p.tx /\ q.rx = p.rx
      /\ q.sendingStreams = p.sendingStreams /\ q.receivingStreams = p.receivingStreams
  BY <1>3, FieldsAre
<1>5. PortBooks(q)
  BY <1>4 DEF PortBooks
<1>6. Excess(q) = Excess(p) + 1
  <2> DEFINE a == PktsCounted(p.tx) + (IF p.left = -1 THEN 0 ELSE 1)
             b == PktsCounted(p.rx)
             n == Len(w)
  <2>1. Excess(p) = a - (b + n) /\ a \in Int /\ b \in Int
    BY ExcessIs DEF w
  <2>2. Excess(q) = a - (b + (n - 1)) /\ n \in Int
    BY <1>2, <1>4 DEF Excess, PktsSent, PktsLeft, Port!Idle
  <2> HIDE DEF a, b, n
  <2> QED BY <2>1, <2>2
<1>7. ASSUME NEW dest \in Servers
      PROVE  Gone(q, dest) = Gone(p, dest) + StreamBytes(w[i], dest)
  <2> DEFINE a == p.sendingStreams[dest]
             b == Underway(v, dest)
             c == StreamBytes(w[i], dest)
  <2>1. a \in Int /\ b \in Int /\ c \in Int /\ Underway(w, dest) = b + c
    BY <1>2 DEF PortBooks
  <2>2. Gone(p, dest) = a - (b + c) /\ Gone(q, dest) = a - b
    BY <1>4, <2>1 DEF Gone, w
  <2> HIDE DEF a, b, c
  <2>3. a - b = (a - (b + c)) + c
    BY <2>1
  <2> QED BY <2>2, <2>3 DEF c
<1> QED BY <1>2, <1>4, <1>5, <1>6, <1>7 DEF q, v, w

-----------------------------------------------------------------------------
(* The books of all ports.                                                 *)

(* Excesses are numbers.                                                   *)
LEMMA ExcessType ==
  ASSUME NEW ports, PortsOK(ports), \A s \in Servers : PortBooks(ports[s])
  PROVE  [s \in Servers |-> Excess(ports[s])] \in [Servers -> Int]
<1>1. \A s \in Servers : Excess(ports[s]) \in Int
  BY ExcessIs DEF PortsOK
<1> QED BY <1>1

(* What changes no port's books changes none of all.                       *)
LEMMA KeepBooks ==
  ASSUME NEW ports, NEW after, NEW pkts, NEW bytes, Books(ports, pkts, bytes),
         \A s \in Servers : SameBooks(ports[s], after[s])
  PROVE  Books(after, pkts, bytes)
<1>1. \A s \in Servers : PortBooks(after[s]) /\ Excess(after[s]) = Excess(ports[s])
  BY DEF SameBooks
<1>2. [s \in Servers |-> Excess(after[s])] = [s \in Servers |-> Excess(ports[s])]
  BY <1>1
<1>3. ASSUME NEW conn \in Connections
      PROVE  Gone(after[conn[1]], conn[2]) = after[conn[2]].receivingStreams[conn[1]] + bytes[conn]
  <2>1. conn[1] \in Servers /\ conn[2] \in Servers
    BY ConnectionEnds
  <2>2. Gone(ports[conn[1]], conn[2]) = ports[conn[2]].receivingStreams[conn[1]] + bytes[conn]
    BY DEF Books
  <2>3. Gone(after[conn[1]], conn[2]) = Gone(ports[conn[1]], conn[2])
    BY <2>1 DEF SameBooks
  <2>4. after[conn[2]].receivingStreams = ports[conn[2]].receivingStreams
    BY <2>1 DEF SameBooks
  <2> QED BY <2>2, <2>3, <2>4
<1>4. /\ pkts \in Int /\ bytes \in [Connections -> Int]
      /\ SumOver([s \in Servers |-> Excess(ports[s])], Servers) = pkts
  BY DEF Books
<1> QED BY <1>1, <1>2, <1>3, <1>4 DEF Books

(* One port changes, and not its books.                                    *)
LEMMA KeepBooksAt ==
  ASSUME NEW ports, PortsOK(ports), NEW pkts, NEW bytes, Books(ports, pkts, bytes),
         NEW s \in Servers, NEW p, SameBooks(ports[s], p)
  PROVE  Books([ports EXCEPT ![s] = p], pkts, bytes)
<1> DEFINE after == [ports EXCEPT ![s] = p]
<1>1. after[s] = p /\ \A x \in Servers : x # s => after[x] = ports[x]
  BY DEF PortsOK
<1> HIDE DEF after
<1>2. \A x \in Servers : SameBooks(ports[x], ports[x])
  BY DEF Books, SameBooks
<1>3. \A x \in Servers : SameBooks(ports[x], after[x])
  BY <1>1, <1>2
<1>4. Books(after, pkts, bytes)
  BY <1>3, KeepBooks
<1> QED BY <1>4 DEF after

(* TCP sends a segment.                                                    *)
LEMMA FromTcpBooks ==
  ASSUME NEW ports, PortsOK(ports), NEW pkts, NEW bytes, Books(ports, pkts, bytes),
         now \in Nat, NEW s \in Servers, NEW segment, encapsulateTCP(segment) \in Packets(s)
  PROVE  Books(fromTcpLayer(ports, s, segment), pkts, bytes)
<1> DEFINE p == Port!FromUpperLayer(ports[s], encapsulateTCP(segment), now)
<1>1. IsPort(s, ports[s]) /\ PortBooks(ports[s])
  BY DEF PortsOK, Books
<1>2. SameBooks(ports[s], p)
  BY <1>1, FromUpperBooks
<1>3. fromTcpLayer(ports, s, segment) = [ports EXCEPT ![s] = p]
  BY DEF fromTcpLayer
<1> HIDE DEF p
<1>4. Books([ports EXCEPT ![s] = p], pkts, bytes)
  BY <1>2, KeepBooksAt
<1> QED BY <1>3, <1>4

(* A packet that leaves the network: what that does to the books.          *)
Taken(ports, s, d, share) ==
  /\ d \in Servers /\ d # s /\ <<s, d>> \in Connections /\ share \in Int
  /\ PortsOK(ports) /\ \A x \in Servers : x # s => ports[x] = port[x]
  /\ PortBooks(ports[s]) /\ Excess(ports[s]) = Excess(port[s]) + 1
  /\ ports[s].receivingStreams = port[s].receivingStreams
  /\ \A dest \in Servers :
       Gone(ports[s], dest) = Gone(port[s], dest) + (IF dest = d THEN share ELSE 0)

(* A packet that arrives or is lost.                                       *)
LEMMA TakenBooks ==
  ASSUME TCPInv, BooksInv, NEW s \in Servers, NEW i \in Arriving(s), NEW pkt,
         pkt = port[s].wire[i], NEW d, d = pkt.destAddr, NEW share, share = StreamBytes(pkt, d),
         NEW mid, mid = WithoutArrived(s, i)
  PROVE  pkt \in Packets(s) /\ Taken(mid, s, d, share)
<1> DEFINE p == port[s]
           q == [p EXCEPT !.wire = RemoveAt(@, i)]
<1>1. PortsOK(port) /\ IsPort(s, p) /\ PortBooks(p)
  BY DEF TCPInv, PortsOK, BooksInv, Books
<1>2. pkt \in Packets(s) /\ PortsOK(mid)
  BY <1>1, ArrivedFacts
<1>3. pkt.conn \in Connections /\ Between(pkt.conn, s, d)
  BY <1>2 DEF Packets
<1>4. d \in Servers /\ d # s
  BY <1>3, PeerIsOtherEnd
<1>5. <<s, d>> \in Connections
  BY <1>4 DEF Connections
<1>6. i \in 1 .. Len(p.wire)
  <2> DEFINE n == Len(p.wire)
  <2>1. n \in Nat
    BY <1>1, ExcessIs DEF IsPort
  <2>2. i \in 1 .. n \/ i \in 1 .. n - 1
    <3>1. Arriving(s) = 1 .. n - (IF port[s].left > 0 THEN 1 ELSE 0)
      BY DEF Arriving
    <3> HIDE DEF n
    <3> QED BY <2>1, <3>1
  <2> HIDE DEF n
  <2>3. i \in 1 .. n
    BY <2>1, <2>2
  <2> QED BY <2>3 DEF n
<1>7. /\ PortBooks(q) /\ Excess(q) = Excess(p) + 1
      /\ q.receivingStreams = p.receivingStreams
      /\ \A dest \in Servers : /\ StreamBytes(pkt, dest) \in Int
                               /\ Gone(q, dest) = Gone(p, dest) + StreamBytes(pkt, dest)
  BY <1>1, <1>6, ArrivedBooks
<1>8. mid = [port EXCEPT ![s] = q]
  BY DEF WithoutArrived
<1>9. mid[s] = q /\ \A x \in Servers : x # s => mid[x] = port[x]
  <2> HIDE DEF q
  <2> QED BY <1>1, <1>8 DEF PortsOK
<1>10. \A dest \in Servers : StreamBytes(pkt, dest) = IF dest = d THEN share ELSE 0
  BY DEF StreamBytes
<1> HIDE DEF q, p
<1> QED BY <1>2, <1>4, <1>5, <1>7, <1>9, <1>10 DEF p, Taken

(* A packet arrives: one less under way, one more received.                *)
LEMMA ArrivalBooks ==
  ASSUME TCPInv, BooksInv, NEW s \in Servers, NEW i \in Arriving(s), NEW pkt,
         pkt = port[s].wire[i], NEW d, d = pkt.destAddr,
         NEW ports, ports = [WithoutArrived(s, i) EXCEPT ![d] = Port!FromLine(@, d, pkt, now)]
  PROVE  PortsOK(ports) /\ Books(ports, lostPkts, lostBytes)
<1> DEFINE mid == WithoutArrived(s, i)
           q == Port!FromLine(mid[d], d, pkt, now)
           share == StreamBytes(pkt, d)
<1>0. /\ ports = [mid EXCEPT ![d] = q] /\ mid = WithoutArrived(s, i)
      /\ q = Port!FromLine(mid[d], d, pkt, now) /\ share = StreamBytes(pkt, d)
  OBVIOUS
<1> HIDE DEF mid, q, share
<1>1. /\ pkt \in Packets(s) /\ d \in Servers /\ d # s /\ PortsOK(mid)
      /\ \A x \in Servers : x # s => mid[x] = port[x]
      /\ PortBooks(mid[s]) /\ Excess(mid[s]) = Excess(port[s]) + 1
      /\ mid[s].receivingStreams = port[s].receivingStreams
      /\ share \in Int
      /\ \A dest \in Servers : Gone(mid[s], dest) = Gone(port[s], dest) + (IF dest = d THEN share ELSE 0)
  <2>1. pkt \in Packets(s) /\ Taken(mid, s, d, share)
    BY <1>0, TakenBooks
  <2> QED BY <2>1 DEF Taken
<1>2. /\ PortsOK(port) /\ \A x \in Servers : PortBooks(port[x])
      /\ lostPkts \in Int /\ lostBytes \in [Connections -> Int]
      /\ \A conn \in Connections :
           Gone(port[conn[1]], conn[2]) = port[conn[2]].receivingStreams[conn[1]] + lostBytes[conn]
      /\ SumOver([x \in Servers |-> Excess(port[x])], Servers) = lostPkts
  BY DEF TCPInv, BooksInv, Books
<1>3. mid[d] = port[d] /\ IsPort(d, mid[d]) /\ PortBooks(mid[d])
  <2> QED BY <1>1, <1>2 DEF PortsOK
<1>4. /\ PortBooks(q) /\ Excess(q) = Excess(port[d]) - 1
      /\ q.receivingStreams = [port[d].receivingStreams EXCEPT ![s] = @ + share]
      /\ \A dest \in Servers : Gone(q, dest) = Gone(port[d], dest)
  <2>1. /\ PortBooks(q) /\ Excess(q) = Excess(mid[d]) - 1
        /\ q.receivingStreams = [mid[d].receivingStreams EXCEPT ![s] = @ + share]
        /\ \A dest \in Servers : Gone(q, dest) = Gone(mid[d], dest)
    <3> DEFINE p == mid[d]
    <3>1. IsPort(d, p) /\ PortBooks(p) /\ q = Port!FromLine(p, d, pkt, now)
      BY <1>0, <1>3
    <3> HIDE DEF p
    <3>2. Arrived(p, Port!FromLine(p, d, pkt, now), s, StreamBytes(pkt, d))
      BY <1>1, <3>1, LineBooks
    <3>3. Arrived(p, q, s, share)
      BY <1>0, <3>1, <3>2
    <3> QED BY <3>3 DEF p, Arrived
  <2> QED BY <1>3, <2>1
<1>5. IsPort(d, q)
  BY <1>0, <1>3, FromLineFacts
<1>6. /\ ports[d] = q /\ ports[s] = mid[s] /\ DOMAIN ports = Servers
      /\ \A x \in Servers : x # d => ports[x] = mid[x]
      /\ \A x \in Servers : x # d /\ x # s => ports[x] = port[x]
  BY <1>0, <1>1 DEF PortsOK
<1>7. PortsOK(ports)
  BY <1>1, <1>5, <1>6 DEF PortsOK
<1>8. \A x \in Servers : PortBooks(ports[x])
  BY <1>1, <1>2, <1>4, <1>6
<1>9. ASSUME NEW conn \in Connections
      PROVE  Gone(ports[conn[1]], conn[2]) = ports[conn[2]].receivingStreams[conn[1]] + lostBytes[conn]
  <2> DEFINE a == conn[1]
             b == conn[2]
             old == port[b].receivingStreams
             new == ports[b].receivingStreams
             more == IF a = s /\ b = d THEN share ELSE 0
  <2>1. a \in Servers /\ b \in Servers /\ a # b
    BY ConnectionEnds
  <2>2. Gone(port[a], b) = old[a] + lostBytes[conn] /\ lostBytes[conn] \in Int
    BY <1>2
  <2>3. old \in [Servers -> Int]
    BY <1>2, <2>1 DEF PortBooks
  <2> HIDE DEF a, b
  <2>4. Gone(ports[a], b) = Gone(port[a], b) + more
    <3>0. Gone(port[a], b) \in Int
      <4> HIDE DEF old
      <4> QED BY <2>1, <2>2, <2>3
    <3> DEFINE g == Gone(port[a], b)
    <3>1. g \in Int /\ g + 0 = g
      BY <3>0
    <3>2. CASE a = s
      BY <1>1, <1>6, <2>1, <3>2
    <3>3. CASE a # s /\ a # d
      <4>1. Gone(ports[a], b) = g
        BY <1>6, <2>1, <3>3
      <4> HIDE DEF g
      <4> QED BY <3>1, <3>3, <4>1 DEF g
    <3>4. CASE a = d
      <4>1. Gone(ports[a], b) = g
        BY <1>4, <1>6, <2>1, <3>4
      <4>2. more = 0
        BY <1>1, <3>4
      <4> HIDE DEF g, more
      <4> QED BY <3>1, <4>1, <4>2 DEF g
    <3> QED BY <3>2, <3>3, <3>4
  <2>5. new[a] = old[a] + more
    <3>1. CASE b = d
      <4>1. new = [old EXCEPT ![s] = @ + share]
        BY <1>4, <1>6, <3>1
      <4> HIDE DEF new, old
      <4> QED BY <1>1, <2>1, <2>3, <3>1, <4>1
    <3>2. CASE b # d
      <4>1. new = old
        BY <1>1, <1>6, <2>1, <3>2
      <4> HIDE DEF new, old
      <4> QED BY <2>1, <2>3, <3>2, <4>1
    <3> QED BY <3>1, <3>2
  <2>6. more \in Int /\ old[a] \in Int
    BY <1>1, <2>1, <2>3
  <2>7. Gone(ports[a], b) = new[a] + lostBytes[conn]
    <3> HIDE DEF old, new, more
    <3> QED BY <2>2, <2>4, <2>5, <2>6
  <2> QED BY <2>7 DEF a, b
<1>10. SumOver([x \in Servers |-> Excess(ports[x])], Servers) = lostPkts
  <2> DEFINE f == [x \in Servers |-> Excess(port[x])]
             g == [x \in Servers |-> Excess(mid[x])]
             h == [x \in Servers |-> Excess(ports[x])]
  <2>1. \A x \in Servers : PortBooks(mid[x])
    BY <1>1, <1>2
  <2>2. f \in [Servers -> Int] /\ g \in [Servers -> Int] /\ h \in [Servers -> Int]
    BY <1>1, <1>2, <1>7, <1>8, <2>1, ExcessType
  <2>3. /\ g[s] = f[s] + 1 /\ \A x \in Servers \ {s} : g[x] = f[x]
        /\ h[d] = g[d] - 1 /\ \A x \in Servers \ {d} : h[x] = g[x]
    BY <1>1, <1>3, <1>4, <1>6
  <2>4. SumOver(f, Servers) = lostPkts
    BY <1>2
  <2> HIDE DEF f, g, h
  <2>5. SumOver(g, Servers) - g[s] = SumOver(f, Servers) - f[s] /\ SumOver(g, Servers) \in Int
    BY <2>2, <2>3, ServersAssumption, SumChange
  <2>6. SumOver(h, Servers) - h[d] = SumOver(g, Servers) - g[d] /\ SumOver(h, Servers) \in Int
    BY <1>1, <2>2, <2>3, ServersAssumption, SumChange
  <2>7. f[s] \in Int /\ g[d] \in Int
    BY <1>1, <2>2
  <2>8. SumOver(h, Servers) = lostPkts
    <3> DEFINE a == f[s]
               b == g[d]
               F == SumOver(f, Servers)
               G == SumOver(g, Servers)
               H == SumOver(h, Servers)
    <3>1. /\ G - (a + 1) = F - a /\ H - (b - 1) = G - b /\ F = lostPkts
          /\ a \in Int /\ b \in Int /\ G \in Int /\ H \in Int /\ lostPkts \in Int
      BY <1>2, <2>3, <2>4, <2>5, <2>6, <2>7
    <3> HIDE DEF a, b, F, G, H
    <3>2. H = lostPkts
      BY <3>1
    <3> QED BY <3>2 DEF H
  <2> QED BY <2>8 DEF h
<1>11. Books(ports, lostPkts, lostBytes)
  BY <1>2, <1>8, <1>9, <1>10 DEF Books
<1> QED BY <1>7, <1>11

(* A packet that is dropped is one less under way, and one more lost.      *)
LEMMA DroppedBooks ==
  ASSUME TCPInv, BooksInv, NEW s \in Servers, NEW i \in Arriving(s), NEW pkt,
         pkt = port[s].wire[i], NEW d, d = pkt.destAddr, NEW share, share = StreamBytes(pkt, d)
  PROVE  Books(WithoutArrived(s, i), lostPkts + 1, [lostBytes EXCEPT ![<<s, d>>] = @ + share])
<1> DEFINE ports == WithoutArrived(s, i)
           gone == <<s, d>>
           bytes == [lostBytes EXCEPT ![gone] = @ + share]
<1>0. ports = WithoutArrived(s, i)
  OBVIOUS
<1> HIDE DEF ports
<1>1. Taken(ports, s, d, share)
  BY <1>0, TakenBooks
<1>2. /\ PortsOK(port) /\ \A x \in Servers : PortBooks(port[x])
      /\ lostPkts \in Int /\ lostBytes \in [Connections -> Int]
      /\ \A conn \in Connections :
           Gone(port[conn[1]], conn[2]) = port[conn[2]].receivingStreams[conn[1]] + lostBytes[conn]
      /\ SumOver([x \in Servers |-> Excess(port[x])], Servers) = lostPkts
  BY DEF TCPInv, BooksInv, Books
<1>3. \A x \in Servers : PortBooks(ports[x])
  BY <1>1, <1>2 DEF Taken
<1>4. gone \in Connections /\ gone[1] = s /\ gone[2] = d
  BY <1>1 DEF Taken
<1> HIDE DEF gone
<1>5. bytes \in [Connections -> Int] /\ bytes[gone] = lostBytes[gone] + share
      /\ \A conn \in Connections : conn # gone => bytes[conn] = lostBytes[conn]
  BY <1>1, <1>2, <1>4 DEF Taken
<1> HIDE DEF bytes
<1>6. ASSUME NEW conn \in Connections
      PROVE  Gone(ports[conn[1]], conn[2]) = ports[conn[2]].receivingStreams[conn[1]] + bytes[conn]
  <2> DEFINE a == conn[1]
             b == conn[2]
             old == port[b].receivingStreams[a]
  <2>1. /\ a \in Servers /\ b \in Servers /\ old \in Int /\ lostBytes[conn] \in Int
        /\ Gone(port[a], b) = old + lostBytes[conn]
    BY <1>2, ConnectionEnds DEF PortBooks
  <2>2. ports[b].receivingStreams[a] = old
    <3>1. ports[b].receivingStreams = port[b].receivingStreams
      BY <1>1, <2>1 DEF Taken
    <3> QED BY <3>1
  <2>3. CASE a = s /\ b = d
    <3>1. conn = gone
      <4>1. conn = <<a, b>>
        BY ConnectionEnds
      <4> QED BY <2>3, <4>1 DEF gone
    <3>2. Gone(ports[a], b) = Gone(port[a], b) + share /\ share \in Int
      BY <1>1, <2>1, <2>3 DEF Taken
    <3>3. bytes[conn] = lostBytes[conn] + share
      BY <1>5, <3>1
    <3> DEFINE g == Gone(port[a], b)
               h == Gone(ports[a], b)
               l == lostBytes[conn]
    <3>4. g = old + l /\ h = g + share /\ bytes[conn] = l + share
      BY <2>1, <3>2, <3>3
    <3>5. l \in Int /\ share \in Int /\ old \in Int
      BY <2>1, <3>2
    <3> HIDE DEF g, h, l, old
    <3>6. h = old + bytes[conn]
      BY <3>4, <3>5
    <3> QED BY <2>2, <3>6 DEF h
  <2>4. CASE ~ (a = s /\ b = d)
    <3>1. bytes[conn] = lostBytes[conn]
      BY <1>4, <1>5, <2>4
    <3>2. Gone(ports[a], b) = Gone(port[a], b)
      <4>1. CASE a # s
        BY <1>1, <2>1, <4>1 DEF Taken
      <4>2. CASE a = s /\ b # d
        <5> DEFINE g == Gone(port[a], b)
        <5>1. Gone(ports[a], b) = g + 0
          BY <1>1, <2>1, <4>2 DEF Taken
        <5>2. g \in Int
          <6> HIDE DEF old
          <6> QED BY <2>1
        <5> HIDE DEF g
        <5>3. Gone(ports[a], b) = g
          BY <5>1, <5>2
        <5> QED BY <5>3 DEF g
      <4> QED BY <2>4, <4>1, <4>2
    <3> QED BY <2>1, <2>2, <3>1, <3>2
  <2> QED BY <2>3, <2>4
<1>7. SumOver([x \in Servers |-> Excess(ports[x])], Servers) = lostPkts + 1
  <2> DEFINE f == [x \in Servers |-> Excess(port[x])]
             g == [x \in Servers |-> Excess(ports[x])]
  <2>1. f \in [Servers -> Int] /\ g \in [Servers -> Int]
    BY <1>1, <1>2, <1>3, ExcessType DEF Taken
  <2>2. g[s] = f[s] + 1 /\ \A x \in Servers \ {s} : g[x] = f[x]
    BY <1>1 DEF Taken
  <2>3. SumOver(f, Servers) = lostPkts
    BY <1>2
  <2> HIDE DEF f, g
  <2>4. SumOver(g, Servers) - g[s] = SumOver(f, Servers) - f[s] /\ SumOver(g, Servers) \in Int
    BY <2>1, <2>2, ServersAssumption, SumChange
  <2>5. f[s] \in Int
    BY <2>1
  <2>6. SumOver(g, Servers) = lostPkts + 1
    <3> DEFINE a == f[s]
               F == SumOver(f, Servers)
               G == SumOver(g, Servers)
    <3>1. /\ G - (a + 1) = F - a /\ F = lostPkts
          /\ a \in Int /\ G \in Int /\ lostPkts \in Int
      BY <1>2, <2>2, <2>3, <2>4, <2>5
    <3> HIDE DEF a, F, G
    <3>2. G = lostPkts + 1
      BY <3>1
    <3> QED BY <3>2 DEF G
  <2> QED BY <2>6 DEF g
<1>8. Books(ports, lostPkts + 1, bytes)
  BY <1>2, <1>3, <1>5, <1>6, <1>7 DEF Books
<1> QED BY <1>8 DEF ports, bytes, gone

(* No numbers, no sum.                                                     *)
LEMMA NoSum ==
  ASSUME NEW q
  PROVE  SumOver(q, {}) = 0
<1>1. Sums(q, {}) = [s \in SUBSET {} |-> SumUp(q, s, Sums(q, {}))]
  BY FS_EmptySet, SumRecursion
<1>2. {} \in SUBSET {} /\ SumUp(q, {}, Sums(q, {})) = 0
  BY DEF SumUp
<1> QED BY <1>1, <1>2 DEF SumOver

-----------------------------------------------------------------------------
(* The steps.                                                              *)

(* TCP sends a segment, or sends a segment for one that it receives.       *)
LEMMA AnswerBooks ==
  ASSUME NEW s \in Servers, NEW pkt \in Packets(s), NEW ports, PortsOK(ports),
         Books(ports, lostPkts, lostBytes), now \in Nat,
         NEW d, d = pkt.destAddr, NEW segment, segment = decapsulateTCP(pkt),
         ClientReceives(d, segment, ports) \/ ServerReceives(d, segment, ports)
  PROVE  Books(port', lostPkts, lostBytes)
<1>1. d \in Servers
  BY PeerIsOtherEnd DEF Packets
<1>2. \/ port' = ports
      \/ \E kind \in {"DATA", "SYNACK", "ACK"} : port' = fromTcpLayer(ports, d, Reply(segment, kind))
  BY DEF ClientReceives, ServerReceives
<1>3. \A kind \in {"DATA", "SYNACK", "ACK"} : encapsulateTCP(Reply(segment, kind)) \in Packets(d)
  BY SegmentFacts
<1>4. \A kind \in {"DATA", "SYNACK", "ACK"} :
        Books(fromTcpLayer(ports, d, Reply(segment, kind)), lostPkts, lostBytes)
  BY <1>1, <1>3, FromTcpBooks
<1> QED BY <1>2, <1>4

(* A packet arrives at its destination.                                    *)
LEMMA ReceiveBooks ==
  ASSUME TCPInv, BooksInv, NEW s \in Servers, ReceivePacket(s)
  PROVE  BooksInv'
<1>1. PICK i \in Arriving(s) :
        LET pkt == port[s].wire[i]
            d == pkt.destAddr
            ports == [WithoutArrived(s, i) EXCEPT ![d] = Port!FromLine(@, d, pkt, now)]
        IN  /\ \/ port' = ports
               \/ ClientReceives(d, decapsulateTCP(pkt), ports)
               \/ ServerReceives(d, decapsulateTCP(pkt), ports)
            /\ UNCHANGED lost
  BY DEF ReceivePacket
<1> DEFINE pkt == port[s].wire[i]
           d == pkt.destAddr
           ports == [WithoutArrived(s, i) EXCEPT ![d] = Port!FromLine(@, d, pkt, now)]
           segment == decapsulateTCP(pkt)
<1>2. pkt = port[s].wire[i] /\ d = pkt.destAddr /\ segment = decapsulateTCP(pkt)
      /\ ports = [WithoutArrived(s, i) EXCEPT ![d] = Port!FromLine(@, d, pkt, now)]
  OBVIOUS
<1>3. \/ port' = ports
      \/ ClientReceives(d, segment, ports) \/ ServerReceives(d, segment, ports)
  BY <1>1
<1>4. lostPkts' = lostPkts /\ lostBytes' = lostBytes
  BY <1>1 DEF lost
<1>5. pkt \in Packets(s)
  BY ArrivedFacts DEF TCPInv
<1> HIDE DEF pkt, d, ports, segment
<1>6. PortsOK(ports) /\ Books(ports, lostPkts, lostBytes)
  BY <1>2, ArrivalBooks
<1>7. Books(port', lostPkts, lostBytes)
  <2>1. CASE port' = ports
    BY <1>6, <2>1
  <2>2. CASE ClientReceives(d, segment, ports) \/ ServerReceives(d, segment, ports)
    <3>1. now \in Nat
      BY DEF TCPInv
    <3> QED BY <1>2, <1>5, <1>6, <2>2, <3>1, AnswerBooks
  <2> QED BY <1>3, <2>1, <2>2
<1> QED BY <1>4, <1>7 DEF BooksInv

(* The network loses a packet.                                             *)
LEMMA DropBooks ==
  ASSUME TCPInv, BooksInv, NEW s \in Servers, DropPacket(s)
  PROVE  BooksInv'
<1>1. PICK i \in Arriving(s) :
        LET pkt == port[s].wire[i]
        IN  /\ pkt.destAddr = Dropped
            /\ port' = WithoutArrived(s, i)
            /\ lostPkts' = lostPkts + 1
            /\ lostBytes' = [lostBytes EXCEPT ![<<s, Dropped>>] = @ + StreamBytes(pkt, Dropped)]
  BY DEF DropPacket
<1> DEFINE pkt == port[s].wire[i]
           share == StreamBytes(pkt, Dropped)
<1>2. pkt = port[s].wire[i] /\ Dropped = pkt.destAddr /\ share = StreamBytes(pkt, Dropped)
      /\ lostBytes' = [lostBytes EXCEPT ![<<s, Dropped>>] = @ + share]
  BY <1>1
<1> HIDE DEF pkt, share
<1>3. Books(WithoutArrived(s, i), lostPkts + 1, [lostBytes EXCEPT ![<<s, Dropped>>] = @ + share])
  BY <1>2, DroppedBooks
<1> QED BY <1>1, <1>2, <1>3 DEF BooksInv

(* A segment of TCP's own accord: to open a connection, again, or RST.     *)
LEMMA SegmentBooks ==
  ASSUME TCPInv, BooksInv, NEW conn \in Connections,
         ActivateMessage(conn) \/ Retransmit(conn) \/ GiveUp(conn)
  PROVE  BooksInv'
<1>1. PICK kind \in {"SYN", "DATA", "RST"} : port' = fromTcpLayer(port, conn[1], ToPeer(conn, kind))
  BY DEF ActivateMessage, Retransmit, GiveUp
<1>2. lostPkts' = lostPkts /\ lostBytes' = lostBytes
  BY DEF ActivateMessage, Retransmit, GiveUp, lost
<1>3. conn[1] \in Servers /\ encapsulateTCP(ToPeer(conn, kind)) \in Packets(conn[1])
  BY ConnectionEnds, SegmentFacts
<1>4. Books(fromTcpLayer(port, conn[1], ToPeer(conn, kind)), lostPkts, lostBytes)
  BY <1>3, FromTcpBooks DEF TCPInv, BooksInv
<1> QED BY <1>1, <1>2, <1>4 DEF BooksInv

(* An application sends a packet over UDP.                                 *)
LEMMA UdpBooks ==
  ASSUME TCPInv, BooksInv, NEW conn \in Connections, SendUdp(conn[1], conn[2])
  PROVE  BooksInv'
<1> DEFINE a == conn[1]
           pkt == UDPPacket(conn[1], conn[2], 1)
           sent == Port!FromUpperLayer(port[a], pkt, now)
<1>1. port' = [port EXCEPT ![a] = sent] /\ lostPkts' = lostPkts /\ lostBytes' = lostBytes
  BY DEF SendUdp, lost
<1>2. a \in Servers /\ pkt \in Packets(a)
  BY ConnectionEnds, UdpFacts
<1> HIDE DEF a, pkt
<1>3. SameBooks(port[a], sent)
  BY <1>2, FromUpperBooks DEF TCPInv, PortsOK, BooksInv, Books
<1> HIDE DEF sent
<1>4. Books([port EXCEPT ![a] = sent], lostPkts, lostBytes)
  BY <1>2, <1>3, KeepBooksAt DEF TCPInv, BooksInv
<1> QED BY <1>1, <1>4 DEF BooksInv

(* The line of a port is free.                                             *)
LEMMA LineFreeBooks ==
  ASSUME TCPInv, BooksInv, NEW s \in Servers, FinishTransmitting(s)
  PROVE  BooksInv'
<1> DEFINE next == Port!finishTransmitting(port[s], now)
<1>1. /\ port' = [port EXCEPT ![s] = next] /\ lostPkts' = lostPkts /\ lostBytes' = lostBytes
      /\ port[s].left = 0
  BY DEF FinishTransmitting, lost
<1>2. SameBooks(port[s], next)
  BY <1>1, FinishBooks DEF TCPInv, PortsOK, BooksInv, Books
<1> HIDE DEF next
<1>3. Books([port EXCEPT ![s] = next], lostPkts, lostBytes)
  BY <1>2, KeepBooksAt DEF TCPInv, BooksInv
<1> QED BY <1>1, <1>3 DEF BooksInv

(* Time passes: a packet on the line stays there.                          *)
LEMMA TimeBooks ==
  ASSUME TCPInv, BooksInv, Tick
  PROVE  BooksInv'
<1> DEFINE left(s) == IF port[s].left > 0 THEN port[s].left - 1 ELSE port[s].left
           next(s) == [port[s] EXCEPT !.left = left(s)]
<1>1. port' = [s \in Servers |-> next(s)] /\ lostPkts' = lostPkts /\ lostBytes' = lostBytes
  BY DEF Tick, lost
<1>2. ASSUME NEW s \in Servers PROVE SameBooks(port[s], next(s))
  <2> DEFINE p == port[s]
             l == left(s)
             q == next(s)
  <2>1. IsPort(s, p) /\ PortBooks(p)
    BY DEF TCPInv, PortsOK, BooksInv, Books
  <2>2. /\ l \in Int /\ l >= -1
        /\ (l = -1) <=> (p.left = -1)
    <3> DEFINE m == p.left
    <3>1. m \in Int /\ m >= -1 /\ l = IF m > 0 THEN m - 1 ELSE m
      BY <2>1 DEF PortBooks
    <3> HIDE DEF m, l
    <3>2. l \in Int /\ l >= -1 /\ ((l = -1) <=> (m = -1))
      BY <3>1
    <3> QED BY <3>2 DEF m
  <2>3. q = [p EXCEPT !.left = l]
    OBVIOUS
  <2> HIDE DEF p, l, q
  <2>4. q \in Fields(p.queue, l, p.bitsOnWire, p.wire, p.tx, p.rx,
                     p.sendingStreams, p.receivingStreams)
    BY <2>1, <2>3, PortFields
  <2>5. /\ q.left = l /\ q.wire = p.wire /\ q.tx = p.tx /\ q.rx = p.rx
        /\ q.sendingStreams = p.sendingStreams /\ q.receivingStreams = p.receivingStreams
    BY <2>4, FieldsAre
  <2>6. SameBooks(p, q)
    BY <2>1, <2>2, <2>5 DEF SameBooks, PortBooks, Excess, PktsSent, PktsLeft, Gone, Port!Idle
  <2> QED BY <2>6 DEF p, q
<1> HIDE DEF next
<1>3. \A s \in Servers : SameBooks(port[s], port'[s])
  BY <1>1, <1>2
<1>4. Books(port', lostPkts, lostBytes)
  BY <1>3, KeepBooks DEF BooksInv
<1> QED BY <1>1, <1>4 DEF BooksInv

(* Nothing is sent, received or lost at first.                             *)
LEMMA BooksInit == Init => BooksInv
<1> SUFFICES ASSUME Init PROVE BooksInv
  OBVIOUS
<1> DEFINE new == Port!NewPort
<1>1. /\ port = [s \in Servers |-> new]
      /\ lostPkts = 0 /\ lostBytes = [conn \in Connections |-> 0]
  BY DEF Init
<1>2. /\ new.left = -1 /\ new.wire = << >>
      /\ new.sendingStreams = [x \in Servers |-> 0]
      /\ new.receivingStreams = [x \in Servers |-> 0]
      /\ Meter(new.tx) /\ PktsCounted(new.tx) = 0 /\ Meter(new.rx) /\ PktsCounted(new.rx) = 0
  BY DEF Port!NewPort, Port!NewMeter, Port!Idle, Meter, PktsCounted
<1> HIDE DEF new
<1>3. PortBooks(new)
  BY <1>2 DEF PortBooks
<1>4. Excess(new) = 0
  <2>1. Len(new.wire) = 0
    BY <1>2
  <2>2. PktsSent(new) = 0 + 0 /\ PktsLeft(new) = 0 + 0
    BY <1>2, <2>1 DEF PktsSent, PktsLeft, Port!Idle
  <2> QED BY <2>2 DEF Excess
<1>5. ASSUME NEW dest \in Servers PROVE Gone(new, dest) = 0
  <2>1. Underway(<< >>, dest) = 0
    <3> DEFINE f == [i \in 1 .. 0 |-> StreamBytes(<< >>[i], dest)]
    <3>1. << >> \in Seq(Packets(dest)) /\ Len(<< >>) = 0
      OBVIOUS
    <3>2. Underway(<< >>, dest) = SumOver(f, 1 .. 0)
      BY <3>1, UnderwayType
    <3>3. 1 .. 0 = {}
      OBVIOUS
    <3> HIDE DEF f
    <3>4. SumOver(f, {}) = 0
      BY NoSum
    <3> QED BY <3>2, <3>3, <3>4
  <2> QED BY <1>2, <2>1 DEF Gone
<1>6. SumOver([s \in Servers |-> Excess(port[s])], Servers) = 0
  <2> DEFINE zero == [s \in Servers |-> 0]
  <2>1. [s \in Servers |-> Excess(port[s])] = zero
    BY <1>1, <1>4
  <2>2. zero \in [Servers -> Int] /\ [s \in Servers |-> zero[s] - zero[s]] = zero
    OBVIOUS
  <2> HIDE DEF zero
  <2>3. /\ SumOver([s \in Servers |-> zero[s] - zero[s]], Servers)
             = SumOver(zero, Servers) - SumOver(zero, Servers)
        /\ SumOver(zero, Servers) \in Int
    BY <2>2, ServersAssumption, SumDifference
  <2>4. SumOver(zero, Servers) = 0
    BY <2>2, <2>3
  <2> QED BY <2>1, <2>4
<1>7. ASSUME NEW conn \in Connections
      PROVE  Gone(port[conn[1]], conn[2]) = port[conn[2]].receivingStreams[conn[1]] + lostBytes[conn]
  BY <1>1, <1>2, <1>5, ConnectionEnds
<1>8. lostBytes \in [Connections -> Int] /\ \A s \in Servers : PortBooks(port[s])
  BY <1>1, <1>3
<1> QED BY <1>1, <1>6, <1>7, <1>8 DEF BooksInv, Books

(* Every step keeps the books.                                             *)
LEMMA BooksNext == TCPInv /\ BooksInv /\ [Next]_vars => BooksInv'
<1> SUFFICES ASSUME TCPInv, BooksInv, [Next]_vars PROVE BooksInv'
  OBVIOUS
<1>1. CASE UNCHANGED <<port, lost>>
  BY <1>1 DEF BooksInv, lost
<1>2. CASE UNCHANGED vars
  BY <1>1, <1>2 DEF vars
<1>3. ASSUME NEW conn \in Connections, ActivateMessage(conn) \/ Retransmit(conn) \/ GiveUp(conn)
      PROVE  BooksInv'
  BY <1>3, SegmentBooks
<1>4. ASSUME NEW conn \in Connections, SendUdp(conn[1], conn[2]) PROVE BooksInv'
  BY <1>4, UdpBooks
<1>5. ASSUME NEW s \in Servers, ApplicationHandles(s) \/ GetAllSocketStatus(s) PROVE BooksInv'
  <2>1. UNCHANGED <<port, lost>>
    BY <1>5 DEF ApplicationHandles, GetAllSocketStatus
  <2> QED BY <1>1, <2>1
<1>6. ASSUME NEW s \in Servers, DropPacket(s) \/ ReceivePacket(s) \/ FinishTransmitting(s)
      PROVE  BooksInv'
  BY <1>6, DropBooks, ReceiveBooks, LineFreeBooks
<1>7. CASE DropEvent
  BY <1>1, <1>7 DEF DropEvent
<1>8. CASE Tick
  BY <1>8, TimeBooks
<1> QED BY <1>2, <1>3, <1>4, <1>5, <1>6, <1>7, <1>8 DEF Next

(* What the books say.                                                     *)
LEMMA BooksAgree == BooksInv /\ TCPInv => MeasurementsAgree
<1> SUFFICES ASSUME BooksInv, TCPInv PROVE MeasurementsAgree
  OBVIOUS
<1>1. ASSUME NEW conn \in Connections
      PROVE  port[conn[1]].sendingStreams[conn[2]] =
               port[conn[2]].receivingStreams[conn[1]] + lostBytes[conn]
                 + Underway(port[conn[1]].wire, conn[2])
  <2> DEFINE a == conn[1]
             b == conn[2]
             x == port[a].sendingStreams[b]
             y == port[b].receivingStreams[a]
             z == lostBytes[conn]
             u == Underway(port[a].wire, b)
  <2>1. a \in Servers /\ b \in Servers
    BY ConnectionEnds
  <2>2. x \in Int /\ y \in Int /\ z \in Int
    BY <2>1 DEF BooksInv, Books, PortBooks
  <2>3. u \in Int
    BY <2>1, UnderwayType DEF TCPInv, PortsOK, IsPort
  <2>4. x - u = y + z
    BY DEF BooksInv, Books, Gone
  <2> HIDE DEF x, y, z, u
  <2>5. x = y + z + u
    BY <2>2, <2>3, <2>4
  <2> QED BY <2>5 DEF x, y, z, u
<1> DEFINE f == [s \in Servers |-> PktsSent(port[s])]
           g == [s \in Servers |-> PktsLeft(port[s])]
           h == [s \in Servers |-> Excess(port[s])]
<1>2. ASSUME NEW s \in Servers
      PROVE  f[s] \in Int /\ g[s] \in Int /\ h[s] = f[s] - g[s] /\ h[s] \in Int
  <2> DEFINE p == port[s]
  <2>1. IsPort(s, p) /\ PortBooks(p)
    BY DEF TCPInv, PortsOK, BooksInv, Books
  <2> HIDE DEF p
  <2>2. /\ PktsCounted(p.tx) \in Int /\ PktsCounted(p.rx) \in Int /\ Len(p.wire) \in Int
        /\ PktsSent(p) = PktsCounted(p.tx) + (IF p.left = -1 THEN 0 ELSE 1) /\ Excess(p) \in Int
    BY <2>1, ExcessIs
  <2>3. PktsSent(p) \in Int /\ PktsLeft(p) \in Int
    BY <2>2 DEF PktsLeft
  <2>4. Excess(p) = PktsSent(p) - PktsLeft(p)
    BY DEF Excess
  <2> QED BY <2>2, <2>3, <2>4 DEF p
<1>3. f \in [Servers -> Int] /\ g \in [Servers -> Int] /\ h \in [Servers -> Int]
  BY <1>2
<1>4. SumOver(h, Servers) = lostPkts /\ lostPkts \in Int
  BY DEF BooksInv, Books
<1> HIDE DEF f, g, h
<1>5. /\ SumOver(h, Servers) = SumOver(f, Servers) - SumOver(g, Servers)
      /\ SumOver(f, Servers) \in Int /\ SumOver(g, Servers) \in Int
  <2>1. h = [s \in Servers |-> f[s] - g[s]]
    BY <1>2, <1>3
  <2> QED BY <1>3, <2>1, ServersAssumption, SumDifference
<1>6. SumFunction(f) = SumOver(f, Servers) /\ SumFunction(g) = SumOver(g, Servers)
  BY <1>3 DEF SumFunction, SumFunctionOnSet, FoldFunctionOnSet, MapThenFoldSet, SumOver, Sums, SumUp, Pick
<1>7. SumFunction(f) = SumFunction(g) + lostPkts
  BY <1>4, <1>5, <1>6
<1> QED BY <1>1, <1>7 DEF MeasurementsAgree, f, g

(* Ports at both ends measure the same, but for what is on its way or      *)
(* lost, for all finite sets of servers and however packets are delayed,   *)
(* overtaken or dropped: streams are judged by the stamp of the sender,    *)
(* and no meter loses a packet at the end of a batch.                      *)
THEOREM PortsAgree == Spec => []MeasurementsAgree
<1>1. Spec => []BooksInv
  BY BooksInit, BooksNext, TCPInvariant, PTL DEF Spec
<1> QED BY <1>1, BooksAgree, TCPInvariant, PTL
=============================================================================
