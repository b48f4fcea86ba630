-------------------------- MODULE ServerPortQueue ---------------------------
(***************************************************************************)
(* ServerPortQueue, the L2Queue of a server's port: it stamps a packet     *)
(* when its transmission starts, records the bytes of the streams to and   *)
(* from other servers, and feeds two bandwidth meters.  A port is a record *)
(* and an operation returns the port after it.  Limits of the queue are    *)
(* SwitchPortQueue's; here they are 0, their default.  The latency, path   *)
(* and order statistics of a stream are left out: bytes are recorded under *)
(* the same conditions.                                                    *)
(***************************************************************************)
EXTENDS Integers, Sequences, BandwidthMeter

CONSTANTS
  Servers,        \* addresses
  WarmupPeriod,   \* packets stamped before it are not recorded
  SimTimeLimit,   \* nor those stamped after it
  EveryPServers   \* limitStatsToEveryPServers, 0 for all

(* left: ticks until the line is free, Idle when nothing is being sent.    *)
(* wire: packets that have left towards the network, in sending order.     *)
Idle == -1

NewPort ==
  [queue |-> << >>, left |-> Idle, bitsOnWire |-> 0, wire |-> << >>,
   tx |-> NewMeter, rx |-> NewMeter,
   sendingStreams |-> [s \in Servers |-> 0], receivingStreams |-> [s \in Servers |-> 0]]

IsPthServer(address) == EveryPServers = 0 \/ address % EveryPServers = 0

InMeasurementInterval(pkt) == pkt.timestamp \in WarmupPeriod .. SimTimeLimit

(* Both ends of a stream ask whether its destination, the receiver itself, *)
(* is a p'th server.                                                       *)
Recorded(pkt, destination) == InMeasurementInterval(pkt) /\ IsPthServer(destination)

(* record() of a stream, which asks about the stamp once more; streams are *)
(* created with their first packet, here they exist with 0 bytes.          *)
StreamRecord(streams, otherServer, pkt) ==
  IF pkt.timestamp > SimTimeLimit THEN streams
  ELSE [streams EXCEPT ![otherServer] = @ + pkt.bytes]

ReceiveStreamRecord(streams, otherServer, pkt) ==
  IF pkt.timestamp < WarmupPeriod THEN streams
  ELSE StreamRecord(streams, otherServer, pkt)

recordSendStream(streams, pkt) ==
  IF Recorded(pkt, pkt.destAddr) THEN StreamRecord(streams, pkt.destAddr, pkt) ELSE streams

(* Mutant of recordReceiveStream: it asks about the other server.          *)
recordReceiveStreamOther(streams, address, pkt) ==
  IF Recorded(pkt, pkt.srcAddr) THEN ReceiveStreamRecord(streams, pkt.srcAddr, pkt)
  ELSE streams

recordReceiveStream(streams, address, pkt) ==
  IF Recorded(pkt, address) THEN ReceiveStreamRecord(streams, pkt.srcAddr, pkt)
  ELSE streams

startTransmitting(port, pkt, now) ==
  LET stamped == [pkt EXCEPT !.timestamp = now]
  IN  [port EXCEPT !.bitsOnWire = pkt.bytes,
                   !.left = pkt.bytes,
                   !.wire = Append(@, stamped),
                   !.sendingStreams = recordSendStream(@, stamped)]

(* handleMessage() for a packet of the server, and for one from the line.  *)
FromUpperLayer(port, pkt, now) ==
  IF port.left = Idle
  THEN startTransmitting(port, pkt, now)
  ELSE [port EXCEPT !.queue = Append(@, pkt)]

FromLine(port, address, pkt, now) ==
  [port EXCEPT !.rx = updateStats(@, now, pkt.bytes),
               !.receivingStreams = recordReceiveStream(@, address, pkt)]

(* The queue starts the next packet first, so that the meter is told the   *)
(* size of that one instead of the packet that was finished.               *)
finishTransmitting(port, now) ==
  LET next == IF port.queue = << >>
              THEN [port EXCEPT !.left = Idle]
              ELSE startTransmitting([port EXCEPT !.queue = Tail(@)], Head(port.queue), now)
  IN  [next EXCEPT !.tx = updateStats(@, now, next.bitsOnWire)]
=============================================================================
