------------------------- MODULE ResequencerBuffer --------------------------
(***************************************************************************)
(* ResequencerBuffer: puts the packets of one sender back in order.  A     *)
(* packet that does not carry the expected sequence number waits, in the   *)
(* order of the sender's timestamps, until the gap before it is filled or  *)
(* until it has been under way for the longest delay observed so far.  A   *)
(* packet that has itself taken the longest delay observed goes up at once.*)
(*                                                                         *)
(* Timestamps are taken when the packet starts on the sender's link, so    *)
(* those of two packets differ and the queue is the set of its packets.    *)
(***************************************************************************)
EXTENDS Integers, Sequences, FiniteSets, SequencesExt

CONSTANT NoTimer    \* timeOutEvent_ is not scheduled

VARIABLES
  now,                \* simTime()
  queueSizePackets,   \* limit of the queue in packets, 0 for none
  queue,              \* queue_: packets [seq, ts], sorted by timestamp ts
  expectedSequenceNo, \* expectedSequenceNo_
  maxObservedDelay,   \* maxObservedDelay_
  timeOut,            \* arrival time of timeOutEvent_
  released,           \* history: packets in the order of releasePacket()
  outbox              \* packets on their way up at this instant, each with its
                      \* scheduling priority, in the order they were sent

bufferVars == <<queueSizePackets, queue, expectedSequenceNo, maxObservedDelay, timeOut>>

ByTimestamp(p, r) == p.ts < r.ts

FrontPkt(q) == CHOOSE p \in q : \A r \in q : p.ts <= r.ts

Delay(pkt) == now - pkt.ts

(* minObservedDelay_ and delayThreshold_ are only reported.                *)
UpdatedWindow(pkt) ==
  IF Delay(pkt) > maxObservedDelay THEN Delay(pkt) ELSE maxObservedDelay

(* The packets releaseOrderedPackets() takes from the front of the queue   *)
(* when seqNo is expected: while each one is the next one.                 *)
InOrderFrom(q, seqNo) ==
  {p \in q : \A r \in q : r.ts <= p.ts =>
               r.seq = seqNo + Cardinality({s \in q : s.ts < r.ts})}

(* They come in the order of their numbers.                                *)
InOrderSeq(q, seqNo) ==
  LET inOrder == InOrderFrom(q, seqNo)
  IN  [k \in 1 .. Cardinality(inOrder) |-> CHOOSE p \in inOrder : p.seq = seqNo + k - 1]

(* incrementSeqNo() for each of them.                                      *)
ExpectedAfter(q, seqNo) == seqNo + Cardinality(InOrderFrom(q, seqNo))

Release(pkts) == released' = released \o pkts

(* send() to the upper layer; scheduling priorities 1, 2, ... for packets  *)
(* from the queue, 0 for one that has just arrived.                        *)
SendUp(first, fromQueue) ==
  outbox' = outbox \o [i \in 1 .. Len(first) |-> [pkt |-> first[i], prio |-> 0]]
                   \o [i \in 1 .. Len(fromQueue) |-> [pkt |-> fromQueue[i], prio |-> i]]

(* Mutant of UpdateTimeout: a timer that runs is left as it is.            *)
UpdateTimeoutOnce(q, maxDelay) ==
  timeOut' = IF q = {} THEN NoTimer
             ELSE IF timeOut # NoTimer /\ timeOut >= now THEN timeOut
             ELSE FrontPkt(q).ts + maxDelay

(* updateTimeout(), for the queue and the window a handler leaves behind.  *)
UpdateTimeout(q, maxDelay) ==
  timeOut' = IF q = {} THEN NoTimer
             ELSE LET t == FrontPkt(q).ts + maxDelay
                  IN  IF t < now THEN now ELSE t

(* Mutant of HandlePacketInOrder: what it releases stays queued.           *)
HandlePacketInOrderKeeps(pkt) ==
  LET inOrder == InOrderSeq(queue, pkt.seq + 1)
  IN  /\ pkt.seq = expectedSequenceNo
      /\ expectedSequenceNo' = ExpectedAfter(queue, pkt.seq + 1)
      /\ Release(<<pkt>> \o inOrder)
      /\ SendUp(<<pkt>>, inOrder)
      /\ UNCHANGED queue

HandlePacketInOrder(pkt) ==
  LET inOrder == InOrderSeq(queue, pkt.seq + 1)
  IN  /\ pkt.seq = expectedSequenceNo
      /\ queue' = queue \ InOrderFrom(queue, pkt.seq + 1)
      /\ expectedSequenceNo' = ExpectedAfter(queue, pkt.seq + 1)
      /\ Release(<<pkt>> \o inOrder)
      /\ SendUp(<<pkt>>, inOrder)

(* packetIsLate(): the window already includes this packet's own delay.    *)
PacketIsLate(pkt) == Delay(pkt) >= UpdatedWindow(pkt)

(* Mutant of HandleLatePacket: a packet is late a tick too soon.           *)
HandleAlmostLatePacket(pkt) ==
  /\ pkt.seq # expectedSequenceNo
  /\ Delay(pkt) + 1 >= UpdatedWindow(pkt)
  /\ Release(<<pkt>>)
  /\ SendUp(<<pkt>>, << >>)
  /\ UNCHANGED <<queue, expectedSequenceNo>>

(* dropOldPackets_ is never set: a late packet goes up at once.            *)
HandleLatePacket(pkt) ==
  /\ pkt.seq # expectedSequenceNo
  /\ PacketIsLate(pkt)
  /\ Release(<<pkt>>)
  /\ SendUp(<<pkt>>, << >>)
  /\ UNCHANGED <<queue, expectedSequenceNo>>

(* A packet that finds the queue full is dropped.  The limit is the one in *)
(* packets; that in bytes, which the code checks as well, is left out.     *)
Enqueue(pkt) ==
  queue' = IF queueSizePackets # 0 /\ Cardinality(queue) >= queueSizePackets
           THEN queue ELSE queue \cup {pkt}

HandleOutOfOrderPacket(pkt) ==
  /\ pkt.seq # expectedSequenceNo
  /\ ~ PacketIsLate(pkt)
  /\ Enqueue(pkt)
  /\ UNCHANGED <<expectedSequenceNo, released, outbox>>

HandlePacket(pkt) ==
  /\ UNCHANGED queueSizePackets
  /\ maxObservedDelay' = UpdatedWindow(pkt)
  /\ \/ HandlePacketInOrder(pkt)
     \/ HandleLatePacket(pkt)
     \/ HandleOutOfOrderPacket(pkt)
  /\ UpdateTimeout(queue', maxObservedDelay')

(* Mutant of HandleTimeout: it never gives up on the gap.                  *)
HandleTimeoutWaits ==
  /\ timeOut = now
  /\ UpdateTimeout(queue, maxObservedDelay)
  /\ UNCHANGED <<queueSizePackets, queue, expectedSequenceNo, maxObservedDelay,
                 released, outbox>>

(* handleTimeout() gives up on the gap before the packet at the front.     *)
HandleTimeout ==
  /\ timeOut = now
  /\ LET first == FrontPkt(queue).seq
     IN  /\ expectedSequenceNo' = ExpectedAfter(queue, first)
         /\ queue' = queue \ InOrderFrom(queue, first)
         /\ Release(InOrderSeq(queue, first))
         /\ SendUp(<< >>, InOrderSeq(queue, first))
  /\ UpdateTimeout(queue', maxObservedDelay)
  /\ UNCHANGED <<queueSizePackets, maxObservedDelay>>

(* initialize() of a buffer that has been created.                         *)
ResetBuffer ==
  /\ UNCHANGED queueSizePackets
  /\ queue' = {}
  /\ expectedSequenceNo' = 0
  /\ maxObservedDelay' = 0
  /\ timeOut' = NoTimer

BufferInit ==
  /\ queue = {}
  /\ expectedSequenceNo = 0
  /\ maxObservedDelay = 0
  /\ timeOut = NoTimer

=============================================================================
