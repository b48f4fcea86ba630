------------------------- MODULE HybridResequencer --------------------------
(***************************************************************************)
(* The HybridResequencer modules of a sending and a receiving server with  *)
(* the network between them, for the packets of this sender.  The network  *)
(* delays each packet by 1 .. MaxDelay and may lose it; one packet at a    *)
(* time arrives over the receiver's link.  Both servers drop the state     *)
(* they keep for the other one when checkBufferTimeout() finds it old.     *)
(***************************************************************************)
EXTENDS ResequencerBuffer

CONSTANTS
  MaxDelay,       \* the longest delay of the network
  BufferTimeout,  \* bufferTimeoutTime_
  QueueSizes,     \* the values of queueSizePackets; 0 is no limit
  NumPkts,        \* bound: packets sent
  LastSend        \* bound: time of the last packet

ASSUME TimesAssumption ==
  MaxDelay \in Nat \ {0} /\ BufferTimeout \in Nat \ {0} /\ LastSend \in Nat
ASSUME QueueSizesAssumption == QueueSizes \subseteq Nat
ASSUME NumPktsAssumption == NumPkts \in Nat
ASSUME NoTimerAssumption == NoTimer \notin Int

VARIABLES
  numSent,            \* packets sent so far
  sendingSequenceNo,  \* sendingSequenceNo_ of the sender's buffer
  senderCreated,      \* when the sender's buffer was created, or NoTimer
  network,            \* packets under way
  linkUsed,           \* a packet has arrived at this instant
  lastActiveTime,     \* lastActiveTime_ of the receiver's buffer, or NoTimer
                      \* while there is none
  learnedAt,          \* history: when its window first held MaxDelay, or NoTimer
  renumbered          \* history: the sender has dropped its numbering

netVars == <<numSent, sendingSequenceNo, senderCreated, network>>
vars == <<now, bufferVars, released, outbox, netVars, linkUsed,
          lastActiveTime, learnedAt, renumbered>>

Init ==
  /\ now = 0
  /\ queueSizePackets \in QueueSizes
  /\ BufferInit
  /\ released = << >> /\ outbox = << >>
  /\ numSent = 0 /\ sendingSequenceNo = 0 /\ senderCreated = NoTimer
  /\ network = {} /\ linkUsed = FALSE /\ renumbered = FALSE
  /\ lastActiveTime = NoTimer /\ learnedAt = NoTimer

Deadline(pkt) == pkt.ts + MaxDelay

(* lookupBuffer() creates the buffer of a peer if there is none.           *)
LookedUp(created) == IF created = NoTimer THEN now ELSE created

(* addSequenceNo() and the timestamp the packet gets on the link.          *)
Numbered == [seq |-> sendingSequenceNo, ts |-> now]

(* addSequenceNumber() and send(); the packet gets its timestamp as it     *)
(* starts on the link.  A lost packet leaves no trace but its number.      *)
SendPacket(lost) ==
  /\ numSent < NumPkts
  /\ now <= LastSend
  /\ \A p \in network : p.ts # now
  /\ numSent' = numSent + 1
  /\ sendingSequenceNo' = sendingSequenceNo + 1
  /\ senderCreated' = LookedUp(senderCreated)
  /\ network' = IF lost THEN network
                ELSE network \cup {Numbered}
  /\ UNCHANGED <<now, bufferVars, released, outbox, linkUsed,
                 lastActiveTime, learnedAt, renumbered>>

Learn ==
  learnedAt' = IF learnedAt = NoTimer /\ maxObservedDelay' = MaxDelay
               THEN now ELSE learnedAt

(* sendToResequencer()                                                     *)
ReceivePacket(pkt) ==
  /\ ~ linkUsed
  /\ pkt.ts < now
  /\ \A r \in network \ {pkt} : now < Deadline(r)
  /\ network' = network \ {pkt}
  /\ linkUsed' = TRUE
  /\ HandlePacket(pkt)
  /\ lastActiveTime' = LookedUp(lastActiveTime)
  /\ Learn
  /\ UNCHANGED <<now, numSent, sendingSequenceNo, senderCreated, renumbered>>

Timeout ==
  /\ HandleTimeout
  /\ UNCHANGED <<now, netVars, linkUsed, lastActiveTime, learnedAt, renumbered>>

(* getLastActiveTime()                                                     *)
GetLastActiveTime == IF queue # {} THEN now ELSE lastActiveTime

(* checkBufferTimeout() removes the receiver's buffer.  The check runs     *)
(* every BufferTimeout from the creation of a first buffer, for whichever  *)
(* peer that was, hence at any moment for this one; the loop goes on with  *)
(* an iterator it has erased, so a check that removes another peer's       *)
(* buffer may miss this one.                                               *)
RemoveReceiveBuffer ==
  /\ lastActiveTime # NoTimer
  /\ now - GetLastActiveTime > BufferTimeout
  /\ ResetBuffer
  /\ lastActiveTime' = NoTimer
  /\ learnedAt' = NoTimer
  /\ released' = << >>
  /\ UNCHANGED <<now, outbox, netVars, linkUsed, renumbered>>

(* The same at the sender, whose buffer holds no packets of this flow.     *)
RemoveSendBuffer ==
  /\ senderCreated # NoTimer
  /\ now - senderCreated > BufferTimeout
  /\ senderCreated' = NoTimer
  /\ sendingSequenceNo' = 0
  /\ renumbered' = TRUE
  /\ UNCHANGED <<now, bufferVars, released, outbox, numSent, network, linkUsed,
                 lastActiveTime, learnedAt>>

(* The upper layer receives what was sent up at this instant by priority,  *)
(* then in the order of sending; arrivals and timeouts of this instant,    *)
(* scheduled before, come first.                                           *)
DeliveryOrder ==
  LET before(i, j) == \/ outbox[i].prio < outbox[j].prio
                      \/ outbox[i].prio = outbox[j].prio /\ i < j
      order == SetToSortSeq(DOMAIN outbox, before)
  IN  [k \in 1 .. Len(outbox) |-> outbox[order[k]].pkt]

(* The next event is later than now.                                       *)
Tick ==
  /\ timeOut # now
  /\ \A p \in network : now < Deadline(p)
  /\ now < LastSend \/ network # {} \/ queue # {} \/ outbox # << >>
  /\ now' = now + 1
  /\ outbox' = << >>
  /\ linkUsed' = FALSE
  /\ UNCHANGED <<bufferVars, released, netVars, lastActiveTime, learnedAt,
                 renumbered>>

Receive == \E pkt \in network : ReceivePacket(pkt)

Next ==
  \/ \E lost \in BOOLEAN : SendPacket(lost)
  \/ Receive
  \/ Timeout
  \/ RemoveReceiveBuffer
  \/ RemoveSendBuffer
  \/ Tick

(* The simulation goes on to its next event as long as there is one.       *)
Spec == Init /\ [][Next]_vars /\ WF_vars(Tick) /\ WF_vars(Receive) /\ WF_vars(Timeout)
-----------------------------------------------------------------------------
Times == 0 .. LastSend + 2 * MaxDelay + 1
Packets == [seq : 0 .. NumPkts - 1, ts : 0 .. LastSend]

TypeOK ==
  /\ now \in Times
  /\ queueSizePackets \in QueueSizes
  /\ queue \in SUBSET Packets /\ network \in SUBSET Packets
  /\ expectedSequenceNo \in 0 .. NumPkts
  /\ maxObservedDelay \in 0 .. MaxDelay
  /\ timeOut \in Times \cup {NoTimer}
  /\ numSent \in 0 .. NumPkts /\ sendingSequenceNo \in 0 .. NumPkts
  /\ \A t \in {senderCreated, lastActiveTime, learnedAt} : t \in Times \cup {NoTimer}
  /\ \A i \in DOMAIN released : released[i] \in Packets
  /\ \A i \in DOMAIN outbox : outbox[i].pkt \in Packets /\ outbox[i].prio \in 0 .. NumPkts
  /\ linkUsed \in BOOLEAN /\ renumbered \in BOOLEAN

(* The timer runs exactly while packets wait, and for the one that was     *)
(* sent first: handleTimeout() never finds the queue empty, no packet      *)
(* waits beyond the longest delay observed, and updateTimeout() never      *)
(* meets a timeout in the past.                                            *)
TimerGuardsFront ==
  IF queue = {} THEN timeOut = NoTimer
  ELSE timeOut = FrontPkt(queue).ts + maxObservedDelay /\ timeOut >= now

(* Once the window covers every delay of the network, the packets sent     *)
(* from then on are released in the order they were sent, whatever is lost *)
(* or delayed, and although gaps are given up on timeout -- as long as the *)
(* sender keeps its numbering: numbers that start afresh may be the very   *)
(* ones expected, and a packet with such a number does not wait.           *)
InOrderOnceLearned ==
  learnedAt # NoTimer /\ ~ renumbered =>
    \A i, j \in DOMAIN released :
      i < j /\ released[i].ts >= learnedAt /\ released[j].ts >= learnedAt
        => released[i].ts < released[j].ts

(* Every packet that reached the buffer is waiting, was released once or   *)
(* dropped by a full queue (releasePacket(), releaseOrderedPackets()).     *)
ReleasedOnce ==
  /\ \A i, j \in DOMAIN released : i # j => released[i] # released[j]
  /\ \A i \in DOMAIN released : released[i] \notin queue \cup network

(* Every packet that is put in the queue leaves it.                        *)
EventuallyReleased ==
  \A t \in 0 .. LastSend :
    (\E p \in queue : p.ts = t) ~> (\A p \in queue : p.ts # t)

(* ResequencerBuffer.cc: "Set the scheduling priority to ensure that       *)
(* multiple packets released at the same time are still delivered in the   *)
(* order they were released" -- here for packets whose order of release is *)
(* also the order they were sent in.                                       *)
DeliveredAsReleased ==
  LET out == [k \in 1 .. Len(outbox) |-> outbox[k].pkt]
  IN  (\A i, j \in DOMAIN out : i < j => ByTimestamp(out[i], out[j]))
        => DeliveryOrder = out

=============================================================================
