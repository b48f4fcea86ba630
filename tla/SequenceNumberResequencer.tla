--------------------- MODULE SequenceNumberResequencer ----------------------
(***************************************************************************)
(* The buffer a SequenceNumberResequencer keeps for one sending server,    *)
(* with the network in front of it, which delays each packet by 1 ..       *)
(* MaxDelay and may lose it.  Numbers are taken modulo 2 * Half and        *)
(* compared by serial arithmetic.  One event serves as both timeouts of    *)
(* the buffer: its name says which of the two it is.                       *)
(***************************************************************************)
EXTENDS Integers, Sequences, FiniteSetsExt

CONSTANTS
  Half,           \* half the range of the numbers, 2 ^ (SEQUENCE_NO_BITS - 1)
  MAXTIME,        \* later than any time there is
  Timeouts,       \* the values of the parameter Timeout
  BufferTimeout,  \* the parameter BufferTimeout, not 0
  MaxDelay,       \* the longest delay of the network
  NumPkts,        \* bound: packets sent
  LastSend        \* bound: time of the last packet

(* Serial arithmetic takes numbers of at least two bits.                   *)
ASSUME HalfAssumption == Half \in Nat \ {0, 1}
(* The state for a sender is kept longer than its packets travel: 10 s are *)
(* the default, 1 s in the test network.                                   *)
ASSUME TimesAssumption ==
  /\ BufferTimeout \in Nat /\ MaxDelay \in 0 .. BufferTimeout /\ LastSend \in Nat
  /\ Timeouts \subseteq Nat /\ MAXTIME \in Nat
  /\ \A t \in Timeouts \cup {0} :
       MAXTIME > LastSend + BufferTimeout + 2 * MaxDelay + t

VARIABLES
  now,        \* simTime()
  timeoutPar, \* the parameter Timeout of this simulation
  adaptive,   \* adaptiveTimout_
  maxExpectedNetworkDelay,
  buffer,     \* the SequenceNumberBuffer, or NoBuffer
  event,      \* its timeout event: name, scheduled or not, arrival time
  stopped,    \* an event was scheduled in the past: the simulation has ended
  numSent,    \* packets sent so far
  network,    \* packets under way
  outbox,     \* the packet last sent up, then those of the last step
  gap         \* history: two packets in a row were lost, last one as well

ResequencerVars ==
  <<now, timeoutPar, adaptive, maxExpectedNetworkDelay, buffer, event,
    stopped, numSent, network, outbox, gap>>
params == <<timeoutPar, adaptive>>
-----------------------------------------------------------------------------
Modulus == 2 * Half

(* Mutant of seqNoLessThan: the numbers are compared as they are.          *)
seqNoLessThanPlain(s, t) == s < t

seqNoLessThan(s, t) == \/ s < t /\ t - s < Half
                       \/ s > t /\ s - t > Half

NoBuffer == [expected |-> 0, queue |-> {}, timeout |-> 0, exists |-> FALSE]
NewEvent == [name |-> "", scheduled |-> FALSE, arrival |-> 0]

(* front(): the queue is sorted by seqNoComparison().                      *)
Front(queue) == CHOOSE p \in queue :
                  \A q \in queue \ {p} : seqNoLessThan(p.seq, q.seq)

(* The packets releaseOrderedPackets() pops, in order: those that go on    *)
(* from the expected number.                                               *)
Numbered(queue, n) == {p \in queue : p.seq = n % Modulus}

Ordered(queue, expected) ==
  LET run == CHOOSE k \in 0 .. Modulus :
               /\ Numbered(queue, expected + k) = {}
               /\ \A j \in 0 .. k - 1 : Numbered(queue, expected + j) # {}
  IN  [k \in 1 .. run |-> CHOOSE p \in Numbered(queue, expected + k - 1) : TRUE]

(* calculateTimeout()                                                      *)
calculateTimeout(queue) ==
  IF queue = {} THEN MAXTIME ELSE Front(queue).ts + maxExpectedNetworkDelay'

(* The buffer with releaseOrderedPackets() done, and what it released.     *)
releaseOrderedPackets(queue, expected) ==
  LET out == Ordered(queue, expected)
      rest == queue \ {out[k] : k \in DOMAIN out}
  IN  [buf |-> [expected |-> (expected + Len(out)) % Modulus, queue |-> rest,
                timeout |-> calculateTimeout(rest), exists |-> TRUE],
       out |-> out]

(* Mutant of handlePacket: an old packet goes up, too.                     *)
handlePacketKeepsOld(b, pkt) ==
  IF pkt.seq = b.expected
  THEN LET r == releaseOrderedPackets(b.queue, (pkt.seq + 1) % Modulus)
       IN  [r EXCEPT !.out = <<pkt>> \o @]
  ELSE IF seqNoLessThan(pkt.seq, b.expected)
  THEN [buf |-> b, out |-> <<pkt>>]
  ELSE LET q == b.queue \cup {pkt}
       IN  [buf |-> [b EXCEPT !.queue = q, !.timeout = calculateTimeout(q)],
            out |-> << >>]

(* handlePacket(): in order, old, or out of order.                         *)
handlePacket(b, pkt) ==
  IF pkt.seq = b.expected
  THEN LET r == releaseOrderedPackets(b.queue, (pkt.seq + 1) % Modulus)
       IN  [r EXCEPT !.out = <<pkt>> \o @]
  ELSE IF seqNoLessThan(pkt.seq, b.expected)
  THEN [buf |-> b, out |-> << >>]
  ELSE LET q == b.queue \cup {pkt}
       IN  [buf |-> [b EXCEPT !.queue = q, !.timeout = calculateTimeout(q)],
            out |-> << >>]

(* handleTimeout() of the buffer: one number is given up.                  *)
GiveUp(b) == releaseOrderedPackets(b.queue, (b.expected + 1) % Modulus)

(* Mutant of setTimeout: the event only moves to later times.              *)
setTimeoutLater(timeoutEvent, timeoutTime) ==
  LET name == IF timeoutTime > BufferTimeout THEN "B" ELSE "S"
      time == IF name = "B" THEN now + BufferTimeout ELSE timeoutTime
  IN  /\ stopped' = (time < now)
      /\ event' = IF time < timeoutEvent.arrival THEN timeoutEvent
                  ELSE [name |-> name, arrival |-> time, scheduled |-> TRUE]

(* setTimeout().  A time that is over makes it call handleTimeout(), and,  *)
(* when this has set the event anew, schedule the event at that past time. *)
setTimeout(timeoutEvent, timeoutTime) ==
  LET name == IF timeoutTime > BufferTimeout THEN "B" ELSE "S"
      time == IF name = "B" THEN now + BufferTimeout ELSE timeoutTime
  IN  /\ stopped' = (time < now)
      /\ event' = IF time < now THEN timeoutEvent
                  ELSE [name |-> name, arrival |-> time, scheduled |->
                          \/ timeoutEvent.scheduled
                          \/ time # timeoutEvent.arrival]

SendUp(packets) ==
  outbox' = <<outbox[Len(outbox)]>> \o [k \in DOMAIN packets |-> packets[k].id]
-----------------------------------------------------------------------------
ResequencerInit ==
  /\ now = 0
  /\ timeoutPar \in Timeouts /\ adaptive \in BOOLEAN
  /\ maxExpectedNetworkDelay = timeoutPar
  /\ buffer = NoBuffer /\ event = NewEvent /\ stopped = FALSE
  /\ numSent = 0 /\ network = {} /\ outbox = <<-1>>
  /\ gap = [open |-> FALSE, seen |-> FALSE]

(* A new packet of the sender.  Bound: the numbers that are compared, of   *)
(* packets under way or queued and the one expected, lie less than half    *)
(* the range apart, as they do with 2^32 numbers; so does 0, if a new      *)
(* buffer may expect it when the packet arrives.                           *)
SendPacket(lost) ==
  /\ ~ stopped /\ numSent < NumPkts /\ now <= LastSend
  /\ \A p \in network : p.ts # now
  /\ (numSent + 1 - buffer.expected) % Modulus < Half
  /\ \A p \in network \cup buffer.queue : numSent + 1 - p.id < Half
  /\ event.name # "S" /\ event.arrival <= now + MaxDelay => numSent % Modulus < Half - 1
  /\ numSent' = numSent + 1
  /\ network' = IF lost THEN network
                ELSE network \cup {[id |-> numSent, ts |-> now,
                                    seq |-> numSent % Modulus]}
  /\ gap' = [open |-> lost, seen |-> gap.seen \/ (lost /\ gap.open)]
  /\ UNCHANGED <<now, params, maxExpectedNetworkDelay, buffer, event, stopped,
                 outbox>>

(* computeMaxExpectedNetworkDelay(), for a packet of this sender or of     *)
(* another one.                                                            *)
computeMaxExpectedNetworkDelay(delay) ==
  maxExpectedNetworkDelay' = IF adaptive
                             THEN Max({maxExpectedNetworkDelay, delay})
                             ELSE maxExpectedNetworkDelay

OtherSender(delay) ==
  /\ ~ stopped /\ adaptive /\ delay > maxExpectedNetworkDelay
  /\ computeMaxExpectedNetworkDelay(delay)
  /\ UNCHANGED <<now, params, buffer, event, stopped, numSent, network, outbox,
                 gap>>

(* sendToResequencer(); lookupBuffer() creates the buffer if need be.      *)
sendToResequencer(pkt) ==
  /\ ~ stopped /\ pkt.ts < now
  /\ network' = network \ {pkt}
  /\ computeMaxExpectedNetworkDelay(now - pkt.ts)
  /\ LET r == handlePacket([buffer EXCEPT !.exists = TRUE], pkt)
     IN  /\ buffer' = r.buf
         /\ SendUp(r.out)
         /\ setTimeout(event, r.buf.timeout)
  /\ UNCHANGED <<now, params, numSent, gap>>

Due(name) == ~ stopped /\ event.scheduled /\ event.arrival = now
             /\ event.name = name

(* handleTimeout() for a packet: the event is no longer scheduled, its     *)
(* arrival time stays.                                                     *)
PacketTimeout ==
  /\ Due("S")
  /\ UNCHANGED maxExpectedNetworkDelay
  /\ LET r == GiveUp(buffer)
     IN  /\ buffer' = r.buf
         /\ SendUp(r.out)
         /\ setTimeout([event EXCEPT !.scheduled = FALSE], r.buf.timeout)
  /\ UNCHANGED <<now, params, numSent, network, gap>>

(* handleTimeout() for the buffer, removeBuffer().                         *)
RemoveBuffer ==
  /\ Due("B")
  /\ buffer' = NoBuffer /\ event' = NewEvent
  /\ UNCHANGED <<now, params, maxExpectedNetworkDelay, stopped, numSent,
                 network, outbox, gap>>

Tick ==
  /\ ~ stopped
  /\ ~ (event.scheduled /\ event.arrival = now)
  /\ \A p \in network : now < p.ts + MaxDelay
  /\ now < LastSend \/ network # {} \/ event.scheduled
  /\ now' = now + 1
  /\ UNCHANGED <<params, maxExpectedNetworkDelay, buffer, event, stopped,
                 numSent, network, outbox, gap>>

ResequencerNext ==
  \/ \E lost \in BOOLEAN : SendPacket(lost)
  \/ \E delay \in 1 .. MaxDelay : OtherSender(delay)
  \/ \E pkt \in network : sendToResequencer(pkt)
  \/ PacketTimeout
  \/ RemoveBuffer
  \/ Tick

ResequencerSpec == ResequencerInit /\ [][ResequencerNext]_ResequencerVars
-----------------------------------------------------------------------------
(* Whatever is lost and overtaken, numbers wrapping around included, the   *)
(* packets go up in the order in which they were sent, none of them twice  *)
(* (handlePacket(), releaseOrderedPackets()).                              *)
UpInOrder == \A i \in 2 .. Len(outbox) : outbox[i - 1] < outbox[i]

(* While no two packets in a row are lost and the network is no slower     *)
(* than Timeout, packets that wait have a timeout ahead of them, when they *)
(* are to be given up, if this is within BufferTimeout of the start of the *)
(* simulation (setTimeout()).  Later, see WaitsForFront.                   *)
KeepsWaiting ==
  timeoutPar >= MaxDelay /\ ~ gap.seen =>
    /\ ~ stopped
    /\ buffer.queue # {} /\ buffer.timeout <= BufferTimeout =>
         event.scheduled /\ event.name = "S" /\ event.arrival = buffer.timeout

(* What setTimeout() is to do at any time, and does not: it compares a     *)
(* time with an interval and takes a buffer whose packets are to be given  *)
(* up later than BufferTimeout for an empty one, which is then removed     *)
(* with them, or waits as long again; see the README, 2.4.                 *)
WaitsForFront ==
  timeoutPar >= MaxDelay /\ ~ gap.seen => (buffer.queue # {} => event.name = "S")

(* A packet is only dropped as old when it took longer than Timeout, the   *)
(* time the resequencer is to wait for a missing packet (drop()).          *)
DroppedOnlyWhenLate ==
  [][\A p \in network \ network' :
       \/ p \in buffer'.queue
       \/ \E i \in 2 .. Len(outbox') : outbox'[i] = p.id
       \/ now - p.ts > timeoutPar]_ResequencerVars
=============================================================================
