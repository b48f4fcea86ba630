-------------------------- MODULE Scheduling_proof --------------------------
(***************************************************************************)
(* What the VOQs of a server keep invariant, whatever the rates, the       *)
(* destinations, the timeout and the order of the handlers: a VOQ with     *)
(* packets has its event, it is paced by its rate, and an idle one is      *)
(* removed in time.                                                        *)
(* Then the proxies that set these rates: a flow's source and destination  *)
(* agree on its reservation in any network of servers, with any number of  *)
(* control packets under way.  A link gives a flow a rate that depends on  *)
(* sums over its other flows; that those are numbers at all is most of the *)
(* work.                                                                   *)
(***************************************************************************)
EXTENDS SchedulingLayer, DistAlgProxy,
        NumberLemmas, SequenceTheorems

Packets == [kind : {"data", "scheduling"}, bits : Nat]

Voqs ==
  [sendingRate : Nat, queue : Seq(Packets), scheduled : BOOLEAN,
   bitsLeft : Nat, idle : Nat, debt : Nat]

Messages == [destination : Dests, rate : Rates]

TypeOK ==
  /\ options \in Options
  /\ scheduledRates \in Seq(Messages)
  /\ DOMAIN voqMap \subseteq Dests /\ IsFiniteSet(DOMAIN voqMap)
  /\ \A d \in DOMAIN voqMap : voqMap[d] \in Voqs
  /\ arriving \in DOMAIN voqMap \cup {None}

(* The bits charged and not yet made up for are still to be sent.          *)
Paced(voq) == voq.debt <= IF voq.scheduled THEN voq.bitsLeft ELSE 0

Ready(voq) == voq.queue # << >> => voq.scheduled

DataOnly(voq) == \A i \in DOMAIN voq.queue : voq.queue[i].kind = "data"

(* The next check comes before the VOQ has been idle for two timeouts.     *)
ActiveUntil(voq, left) == voq.queue = << >> => voq.idle + left <= 2 * VOQTimeout

PacingOn(opts) == opts.noSchedAccounting \/ opts.queueSchedPkts

RemovalOn(opts) == VOQTimeout > 0 /\ (opts.noSchedAccounting \/ ~opts.queueSchedPkts)

VoqInv(voq, opts, left) ==
  /\ Ready(voq)
  /\ PacingOn(opts) => Paced(voq)
  /\ RemovalOn(opts) => DataOnly(voq) /\ ActiveUntil(voq, left)

(* Once there is a VOQ the next check is at most a timeout away.           *)
Armed == RemovalOn(options) /\ DOMAIN voqMap # {} => timeoutIn \in 0 .. VOQTimeout

LayerInv ==
  /\ TypeOK
  /\ \A d \in DOMAIN voqMap : VoqInv(voqMap[d], options, timeoutIn)
  /\ Armed

-----------------------------------------------------------------------------
(* The operations of a VOQ.                                                *)

(* A new VOQ, whatever rates are set before it gets a packet.              *)
LEMMA NewVoqFacts ==
  ASSUME NEW rate \in Nat
  PROVE  LET voq == SetSendingRate(NewVoqAllocated, rate)
         IN  /\ voq \in Voqs
             /\ Ready(voq) /\ Paced(voq) /\ DataOnly(voq)
             /\ voq.idle = 0
<1> DEFINE voq == SetSendingRate(NewVoqAllocated, rate)
<1>1. NewVoqAllocated = [NewVoq EXCEPT !.sendingRate = MinVOQSendRate]
  BY DEF NewVoqAllocated, SetSendingRate, NewVoq
<1>2. voq = [NewVoq EXCEPT !.sendingRate = rate]
  BY <1>1 DEF SetSendingRate, NewVoq
<1>3. voq = [sendingRate |-> rate, queue |-> << >>, scheduled |-> TRUE,
             bitsLeft |-> 0, idle |-> 0, debt |-> 0]
  BY <1>2 DEF NewVoq
<1> HIDE DEF voq
<1>4. voq \in Voqs
  BY <1>3 DEF Voqs
<1>5. Ready(voq) /\ Paced(voq) /\ DataOnly(voq) /\ voq.idle = 0
  BY <1>3 DEF Ready, Paced, DataOnly
<1> QED BY <1>4, <1>5 DEF voq

(* A packet that is sent and charged schedules the event for the next one: *)
(* without one before, or with one that never comes, after its own bits.   *)
LEMMA SendPacketFacts ==
  ASSUME NEW voq \in Voqs, NEW pkt \in Packets,
         NEW next, next = SendPacket(voq, pkt, FALSE)
  PROVE  /\ next \in Voqs
         /\ next.queue = voq.queue /\ next.scheduled = TRUE
         /\ next.bitsLeft
              = pkt.bits + (IF voq.scheduled /\ voq.sendingRate = 0 THEN voq.bitsLeft ELSE 0)
         /\ next.debt = voq.debt + pkt.bits
         /\ next.idle = IF pkt.kind = "data" THEN 0 ELSE voq.idle
<1> DEFINE active == IF pkt.kind = "data" THEN [voq EXCEPT !.idle = 0] ELSE voq
           charged == ScheduleNext(active, pkt.bits)
<1>1. pkt.bits \in Nat
  BY DEF Packets
<1>2. /\ active \in Voqs
      /\ active.queue = voq.queue /\ active.scheduled = voq.scheduled
      /\ active.sendingRate = voq.sendingRate /\ active.bitsLeft = voq.bitsLeft
      /\ active.debt = voq.debt
      /\ active.idle = IF pkt.kind = "data" THEN 0 ELSE voq.idle
  BY DEF Voqs
<1>3. next = [charged EXCEPT !.debt = @ + pkt.bits]
  BY DEF SendPacket
<1> DEFINE bitsLeft == pkt.bits + (IF voq.scheduled /\ voq.sendingRate = 0
                                  THEN voq.bitsLeft ELSE 0)
           debt == voq.debt + pkt.bits
<1>4. bitsLeft \in Nat /\ debt \in Nat
  BY <1>1 DEF Voqs
<1>5. charged = [active EXCEPT !.scheduled = TRUE, !.bitsLeft = bitsLeft]
  BY <1>2 DEF ScheduleNext
<1> HIDE DEF active, bitsLeft
<1>6. /\ charged \in Voqs
      /\ charged.queue = active.queue /\ charged.scheduled = TRUE
      /\ charged.bitsLeft = bitsLeft
      /\ charged.debt = active.debt /\ charged.idle = active.idle
  BY <1>2, <1>4, <1>5 DEF Voqs
<1> HIDE DEF charged
<1>7. next = [charged EXCEPT !.debt = debt]
  BY <1>2, <1>3, <1>6
<1> HIDE DEF debt
<1>8. /\ next \in Voqs
      /\ next.queue = charged.queue /\ next.scheduled = charged.scheduled
      /\ next.bitsLeft = charged.bitsLeft /\ next.debt = debt
      /\ next.idle = charged.idle
  BY <1>4, <1>6, <1>7 DEF Voqs
<1> QED BY <1>2, <1>6, <1>8 DEF bitsLeft, debt

(* A packet that arrives is sent if the VOQ has no event, else it waits.   *)
LEMMA HandlePacketFacts ==
  ASSUME NEW voq \in Voqs, Ready(voq), NEW bits \in Nat,
         NEW next, next = HandlePacket(voq, Packet("data", bits))
  PROVE  /\ next \in Voqs
         /\ Ready(next)
         /\ Paced(voq) => Paced(next)
         /\ DataOnly(voq) => DataOnly(next)
         /\ \A left \in Int : left <= VOQTimeout /\ ActiveUntil(voq, left) => ActiveUntil(next, left)
<1> DEFINE pkt == Packet("data", bits)
<1>0. VOQTimeout \in Nat
  BY VOQAssumption
<1>1. pkt \in Packets /\ pkt.kind = "data" /\ pkt.bits = bits
  BY DEF Packet, Packets
<1> HIDE DEF pkt
<1>2. CASE ~voq.scheduled
  <2>1. next = SendPacket(voq, pkt, FALSE)
    BY <1>2 DEF HandlePacket, pkt
  <2>2. /\ next \in Voqs
        /\ next.queue = voq.queue /\ next.scheduled = TRUE /\ next.idle = 0
        /\ next.bitsLeft = bits + 0 /\ next.debt = voq.debt + bits
    <3>1. /\ next \in Voqs
          /\ next.queue = voq.queue /\ next.scheduled = TRUE
          /\ next.bitsLeft
               = pkt.bits + (IF voq.scheduled /\ voq.sendingRate = 0 THEN voq.bitsLeft ELSE 0)
          /\ next.debt = voq.debt + pkt.bits
          /\ next.idle = IF pkt.kind = "data" THEN 0 ELSE voq.idle
      BY <1>1, <2>1, SendPacketFacts
    <3> QED BY <1>1, <1>2, <3>1
  <2> QED BY <1>0, <1>2, <2>2 DEF Ready, Paced, DataOnly, ActiveUntil, Voqs
<1>3. CASE voq.scheduled /\ Full(voq)
  BY <1>3 DEF HandlePacket
<1>4. CASE voq.scheduled /\ ~Full(voq)
  <2>1. next = [voq EXCEPT !.queue = Append(@, pkt)]
    BY <1>4 DEF HandlePacket, pkt
  <2>2. /\ voq.queue \in Seq(Packets)
        /\ Append(voq.queue, pkt) \in Seq(Packets) /\ Append(voq.queue, pkt) # << >>
        /\ \A i \in DOMAIN Append(voq.queue, pkt) :
             \/ Append(voq.queue, pkt)[i] = pkt
             \/ i \in DOMAIN voq.queue /\ Append(voq.queue, pkt)[i] = voq.queue[i]
    BY <1>1 DEF Voqs
  <2>3. /\ next \in Voqs
        /\ next.queue = Append(voq.queue, pkt) /\ next.scheduled = voq.scheduled
        /\ next.bitsLeft = voq.bitsLeft /\ next.debt = voq.debt
    BY <2>1, <2>2 DEF Voqs
  <2>4. DataOnly(voq) => DataOnly(next)
    BY <1>1, <2>2, <2>3 DEF DataOnly
  <2>5. next.queue # << >>
    BY <2>2, <2>3
  <2>6. Ready(next) /\ (Paced(voq) => Paced(next))
    BY <1>4, <2>3 DEF Ready, Paced
  <2>7. \A left \in Int : ActiveUntil(next, left)
    BY <2>5 DEF ActiveUntil
  <2> QED BY <2>3, <2>4, <2>6, <2>7
<1> QED BY <1>2, <1>3, <1>4

(* The event sends the packet that waits first, or finds none.             *)
LEMMA HandleEventFacts ==
  ASSUME NEW voq \in Voqs, EventDue(voq), NEW next, next = HandleEvent(voq)
  PROVE  /\ next \in Voqs
         /\ Ready(next)
         /\ Paced(voq) => Paced(next)
         /\ DataOnly(voq) => DataOnly(next)
         /\ \A left \in Int :
              left <= VOQTimeout /\ DataOnly(voq) /\ ActiveUntil(voq, left)
                => ActiveUntil(next, left)
<1>0. VOQTimeout \in Nat
  BY VOQAssumption
<1> DEFINE free == [voq EXCEPT !.scheduled = FALSE]
<1>1. CASE voq.queue = << >>
  <2>1. next = free
    BY <1>1 DEF HandleEvent
  <2> QED BY <1>1, <2>1 DEF EventDue, Ready, Paced, DataOnly, ActiveUntil, Voqs
<1>2. CASE voq.queue # << >>
  <2> DEFINE pkt == Head(voq.queue)
             rest == Tail(voq.queue)
  <2>1. /\ pkt \in Packets /\ rest \in Seq(Packets)
        /\ \A i \in DOMAIN rest : i + 1 \in DOMAIN voq.queue /\ rest[i] = voq.queue[i + 1]
        /\ 1 \in DOMAIN voq.queue /\ pkt = voq.queue[1]
    BY <1>2 DEF Voqs
  <2>2. next = SendPacket([free EXCEPT !.queue = rest], pkt, FALSE)
    BY <1>2 DEF HandleEvent
  <2> HIDE DEF pkt, rest
  <2> DEFINE waiting == [free EXCEPT !.queue = rest]
  <2>7. /\ waiting \in Voqs /\ waiting.queue = rest /\ ~waiting.scheduled
        /\ waiting.debt = voq.debt /\ waiting.idle = voq.idle
    BY <2>1 DEF Voqs
  <2> HIDE DEF waiting
  <2>3. /\ next \in Voqs
        /\ next.queue = rest /\ next.scheduled = TRUE
        /\ next.bitsLeft = pkt.bits + 0 /\ next.debt = voq.debt + pkt.bits
        /\ next.idle = IF pkt.kind = "data" THEN 0 ELSE voq.idle
    <3>1. next = SendPacket(waiting, pkt, FALSE)
      BY <2>2 DEF waiting
    <3>2. /\ next \in Voqs
          /\ next.queue = waiting.queue /\ next.scheduled = TRUE
          /\ next.bitsLeft = pkt.bits + (IF waiting.scheduled /\ waiting.sendingRate = 0
                                         THEN waiting.bitsLeft ELSE 0)
          /\ next.debt = waiting.debt + pkt.bits
          /\ next.idle = IF pkt.kind = "data" THEN 0 ELSE waiting.idle
      <4>1. pkt \in Packets /\ waiting \in Voqs
        BY <2>1, <2>7
      <4> QED BY ONLY <4>1, <3>1, SendPacketFacts
    <3> QED BY <2>7, <3>2
  <2>4. pkt.bits \in Nat
    BY <2>1 DEF Packets
  <2>5. Paced(voq) => Paced(next)
    BY <2>3, <2>4 DEF EventDue, Paced, Voqs
  <2>6. DataOnly(voq) => DataOnly(next) /\ next.idle = 0
    BY <2>1, <2>3 DEF DataOnly
  <2> QED BY <1>0, <2>3, <2>5, <2>6 DEF Ready, ActiveUntil
<1> QED BY <1>1, <1>2

(* A change of the rate leaves the event and what is still to be sent.     *)
LEMMA SetSendingRateFacts ==
  ASSUME NEW voq \in Voqs, Ready(voq), NEW rate \in Nat,
         NEW next, next = SetSendingRate(voq, rate)
  PROVE  /\ next \in Voqs
         /\ Ready(next)
         /\ Paced(voq) => Paced(next)
         /\ DataOnly(voq) => DataOnly(next)
         /\ \A left \in Int : ActiveUntil(voq, left) => ActiveUntil(next, left)
<1>1. next = [voq EXCEPT !.sendingRate = rate]
  BY DEF SetSendingRate, Ready
<1>2. /\ next \in Voqs
      /\ next.queue = voq.queue /\ next.scheduled = voq.scheduled
      /\ next.bitsLeft = voq.bitsLeft /\ next.debt = voq.debt /\ next.idle = voq.idle
  BY <1>1 DEF Voqs
<1> QED BY <1>2 DEF Ready, Paced, DataOnly, ActiveUntil

(* A scheduling packet never leaves packets without an event; it is paced  *)
(* unless it overtakes them at its charge, and only queued ones delay the  *)
(* removal of the VOQ.                                                     *)
LEMMA SendSchedulingFacts ==
  ASSUME NEW voq \in Voqs, Ready(voq), NEW bits \in Nat, NEW opts \in Options,
         NEW next, next = SendScheduling(voq, Packet("scheduling", bits), opts)
  PROVE  /\ next \in Voqs
         /\ Ready(next)
         /\ (opts.noSchedAccounting \/ opts.queueSchedPkts) /\ Paced(voq) => Paced(next)
         /\ (opts.noSchedAccounting \/ ~opts.queueSchedPkts) =>
              /\ DataOnly(voq) => DataOnly(next)
              /\ \A left \in Int : ActiveUntil(voq, left) => ActiveUntil(next, left)
<1> DEFINE pkt == Packet("scheduling", bits)
<1>1. pkt \in Packets /\ pkt.kind = "scheduling" /\ pkt.bits = bits
  BY DEF Packet, Packets
<1> HIDE DEF pkt
<1>2. opts.noSchedAccounting \in BOOLEAN /\ opts.queueSchedPkts \in BOOLEAN
  BY DEF Options
<1>3. CASE ~opts.noSchedAccounting /\ opts.queueSchedPkts /\ voq.scheduled
  <2>1. next = [voq EXCEPT !.queue = << pkt >> \o @]
    BY <1>3 DEF SendScheduling, pkt
  <2>2. << pkt >> \o voq.queue \in Seq(Packets)
    BY <1>1 DEF Voqs
  <2>3. /\ next \in Voqs /\ next.scheduled = voq.scheduled
        /\ next.bitsLeft = voq.bitsLeft /\ next.debt = voq.debt
    BY <2>1, <2>2 DEF Voqs
  <2> QED BY <1>3, <2>3 DEF Ready, Paced
<1>4. CASE opts.noSchedAccounting
  <2>1. next = voq
    BY <1>1, <1>4 DEF SendScheduling, SendPacket, pkt
  <2> QED BY <2>1
<1>5. CASE ~opts.noSchedAccounting /\ ~(opts.queueSchedPkts /\ voq.scheduled)
  <2>1. next = SendPacket(voq, pkt, FALSE)
    BY <1>2, <1>5 DEF SendScheduling, pkt
  <2>2. /\ next \in Voqs
        /\ next.queue = voq.queue /\ next.scheduled = TRUE
        /\ next.bitsLeft = pkt.bits + (IF voq.scheduled /\ voq.sendingRate = 0
                                       THEN voq.bitsLeft ELSE 0)
        /\ next.debt = voq.debt + pkt.bits
        /\ next.idle = voq.idle
    BY <1>1, <2>1, SendPacketFacts
  <2>3. ASSUME opts.queueSchedPkts, Paced(voq) PROVE Paced(next)
    <3>1. ~voq.scheduled /\ voq.debt = 0
      BY <1>5, <2>3 DEF Paced, Voqs
    <3> QED BY <1>1, <2>2, <3>1 DEF Paced
  <2> QED BY <1>5, <2>2, <2>3 DEF Ready, DataOnly, ActiveUntil
<1> QED BY <1>2, <1>3, <1>4, <1>5

(* What is charged is made up for no later than the bits are sent, and the *)
(* VOQ gets one tick older.                                                *)
LEMMA AfterTickFacts ==
  ASSUME NEW voq \in Voqs, Ready(voq), NEW next, next = AfterTick(voq)
  PROVE  /\ next \in Voqs
         /\ Ready(next)
         /\ Paced(voq) => Paced(next)
         /\ DataOnly(voq) => DataOnly(next)
         /\ \A left \in Int : ActiveUntil(voq, left) => ActiveUntil(next, left - 1)
<1> DEFINE bitsLeft == IF voq.scheduled
                       THEN voq.bitsLeft - LowerOf(voq.bitsLeft, voq.sendingRate)
                       ELSE voq.bitsLeft
           debt == voq.debt - LowerOf(voq.debt, voq.sendingRate)
           idle == LowerOf(voq.idle + 1, 2 * VOQTimeout + 1)
<1>1. VOQTimeout \in Nat
  BY VOQAssumption
<1>2. /\ bitsLeft \in Nat /\ debt \in Nat /\ idle \in Nat
      /\ idle <= voq.idle + 1
      /\ voq.scheduled /\ voq.debt <= voq.bitsLeft => debt <= bitsLeft
      /\ voq.debt <= 0 => debt <= 0
  BY <1>1 DEF Voqs, LowerOf
<1>3. next = [voq EXCEPT !.bitsLeft = bitsLeft, !.debt = debt, !.idle = idle]
  BY DEF AfterTick
<1> HIDE DEF bitsLeft, debt, idle
<1>4. /\ next \in Voqs
      /\ next.queue = voq.queue /\ next.scheduled = voq.scheduled
      /\ next.bitsLeft = bitsLeft /\ next.debt = debt /\ next.idle = idle
  BY <1>2, <1>3 DEF Voqs
<1>5. voq.idle \in Nat
  BY DEF Voqs
<1>6. \A left \in Int : ActiveUntil(voq, left) => ActiveUntil(next, left - 1)
  BY <1>1, <1>2, <1>4, <1>5 DEF ActiveUntil
<1> QED BY <1>2, <1>4, <1>6 DEF Ready, Paced, DataOnly

-----------------------------------------------------------------------------
(* The handlers of the layer.                                              *)

(* The invariant holds at the start.                                       *)
LEMMA LayerInit == Init => LayerInv
<1> SUFFICES ASSUME Init PROVE LayerInv
  OBVIOUS
<1>1. options \in Options /\ arriving = None /\ DOMAIN voqMap = {}
  BY DEF Init
<1>2. scheduledRates \in Seq(Messages)
  <2>1. PICK n \in 0 .. ScriptLines :
          scheduledRates \in [1 .. n -> [destination : Dests, rate : Rates]]
    BY DEF Init, Schedules
  <2>2. n \in Nat
    OBVIOUS
  <2> QED BY <2>1, <2>2, SeqDef DEF Messages
<1>3. IsFiniteSet(DOMAIN voqMap)
  BY <1>1, FS_EmptySet
<1> QED BY <1>1, <1>2, <1>3 DEF LayerInv, TypeOK, Armed

(* A handler that changes one VOQ keeps the invariant if the VOQ does.     *)
LEMMA UpdateStep ==
  ASSUME LayerInv, NEW d \in DOMAIN voqMap, NEW next,
         next \in Voqs, VoqInv(next, options, timeoutIn),
         Update(d, next),
         options' = options, scheduledRates' \in Seq(Messages),
         arriving' \in {arriving, None}
  PROVE  LayerInv'
<1>1. /\ voqMap' = [voqMap EXCEPT ![d] = next] /\ timeoutIn' = timeoutIn
      /\ DOMAIN voqMap' = DOMAIN voqMap
  BY DEF Update
<1>2. ASSUME NEW e \in DOMAIN voqMap PROVE voqMap'[e] \in {voqMap[e], next}
  BY <1>1
<1>3. TypeOK'
  BY <1>1, <1>2 DEF LayerInv, TypeOK
<1>4. ASSUME NEW e \in DOMAIN voqMap PROVE VoqInv(voqMap'[e], options', timeoutIn')
  <2>1. VoqInv(voqMap[e], options, timeoutIn)
    BY DEF LayerInv
  <2> QED BY <1>1, <1>2, <2>1
<1>5. Armed'
  BY <1>1 DEF LayerInv, Armed
<1> QED BY <1>1, <1>3, <1>4, <1>5 DEF LayerInv

(* A new VOQ is within its first timeout, since the check is armed with    *)
(* the first VOQ and never left for later than a timeout.                  *)
LEMMA NewVoqStep ==
  ASSUME LayerInv, NEW d \in Dests, d \notin DOMAIN voqMap, NEW rate \in Nat,
         NewVoqFor(d, rate),
         options' = options, scheduledRates' \in Seq(Messages),
         arriving' \in {arriving, d}
  PROVE  LayerInv'
<1> DEFINE voq == SetSendingRate(NewVoqAllocated, rate)
<1>1. /\ voq \in Voqs
      /\ Ready(voq) /\ Paced(voq) /\ DataOnly(voq) /\ voq.idle = 0
  BY NewVoqFacts
<1> HIDE DEF voq
<1>2. /\ voqMap' = With(voqMap, d, voq)
      /\ ArmTimeout(Cardinality(DOMAIN voqMap) + 1)
  BY DEF NewVoqFor, voq
<1>3. /\ DOMAIN voqMap' = DOMAIN voqMap \cup {d}
      /\ \A e \in DOMAIN voqMap : voqMap'[e] = voqMap[e]
      /\ voqMap'[d] = voq
  BY <1>2 DEF With
<1>4. VOQTimeout \in Nat
  BY VOQAssumption
<1>5. TypeOK'
  <2>1. IsFiniteSet(DOMAIN voqMap \cup {d})
    BY FS_AddElement DEF LayerInv, TypeOK
  <2> QED BY <1>1, <1>3, <2>1 DEF LayerInv, TypeOK
<1>6. /\ DOMAIN voqMap # {} => timeoutIn' = timeoutIn
      /\ DOMAIN voqMap = {} /\ VOQTimeout > 0 => timeoutIn' = VOQTimeout
  <2>1. IsFiniteSet(DOMAIN voqMap)
    BY DEF LayerInv, TypeOK
  <2>2. /\ Cardinality(DOMAIN voqMap) \in Nat
        /\ Cardinality(DOMAIN voqMap) = 0 <=> DOMAIN voqMap = {}
    BY <2>1, FS_CardinalityType, FS_EmptySet
  <2> QED BY <1>2, <2>2 DEF ArmTimeout
<1>7. Armed' /\ (RemovalOn(options) => timeoutIn' \in 0 .. VOQTimeout)
  <2>1. RemovalOn(options) => VOQTimeout > 0
    BY DEF RemovalOn
  <2>2. ASSUME RemovalOn(options) PROVE timeoutIn' \in 0 .. VOQTimeout
    <3>1. CASE DOMAIN voqMap = {}
      BY <1>4, <1>6, <2>1, <2>2, <3>1
    <3>2. CASE DOMAIN voqMap # {}
      BY <1>6, <2>2, <3>2 DEF LayerInv, Armed
    <3> QED BY <3>1, <3>2
  <2> QED BY <2>2 DEF Armed
<1>8. VoqInv(voq, options', timeoutIn')
  BY <1>1, <1>4, <1>7 DEF VoqInv, ActiveUntil
<1>9. ASSUME NEW e \in DOMAIN voqMap PROVE VoqInv(voqMap'[e], options', timeoutIn')
  <2>1. VoqInv(voqMap[e], options, timeoutIn) /\ timeoutIn' = timeoutIn
    BY <1>6 DEF LayerInv
  <2> QED BY <1>3, <2>1
<1> QED BY <1>3, <1>5, <1>7, <1>8, <1>9 DEF LayerInv

(* pktArrivedForNewDestination(), by a packet of either side.              *)
LEMMA AllocatedStep ==
  ASSUME LayerInv, NEW d \in Dests, Allocated(d),
         options' = options, scheduledRates' = scheduledRates,
         arriving' \in {arriving, d}
  PROVE  LayerInv'
<1>1. scheduledRates' \in Seq(Messages)
  BY DEF LayerInv, TypeOK
<1>2. CASE d \in DOMAIN voqMap
  <2>1. voqMap' = voqMap /\ timeoutIn' = timeoutIn
    BY <1>2 DEF Allocated, layer
  <2>2. \A e \in DOMAIN voqMap : VoqInv(voqMap'[e], options', timeoutIn')
    BY <2>1 DEF LayerInv
  <2> QED BY <1>1, <1>2, <2>1, <2>2 DEF LayerInv, TypeOK, Armed
<1>3. CASE d \notin DOMAIN voqMap
  <2>1. NewVoqFor(d, MinVOQSendRate) /\ MinVOQSendRate \in Nat
    BY <1>3, SchedulingAssumption DEF Allocated
  <2> QED BY <1>1, <1>3, <2>1, NewVoqStep
<1> QED BY <1>2, <1>3

(* A packet comes to its queue.                                            *)
LEMMA PacketArrivesStep ==
  ASSUME LayerInv, PacketArrives
  PROVE  LayerInv'
<1> DEFINE d == arriving
           next == HandlePacket(voqMap[d], Packet("data", PktBits))
<1>1. /\ d \in DOMAIN voqMap /\ arriving' = None /\ Update(d, next)
      /\ options' = options /\ scheduledRates' = scheduledRates
  BY DEF PacketArrives, LayerInv, TypeOK
<1>2. /\ voqMap[d] \in Voqs /\ VoqInv(voqMap[d], options, timeoutIn)
      /\ scheduledRates' \in Seq(Messages)
  BY <1>1 DEF LayerInv, TypeOK
<1>3. PktBits \in Nat
  BY SchedulingAssumption
<1>4. /\ next \in Voqs /\ Ready(next)
      /\ Paced(voqMap[d]) => Paced(next)
      /\ DataOnly(voqMap[d]) => DataOnly(next)
      /\ \A left \in Int :
           left <= VOQTimeout /\ ActiveUntil(voqMap[d], left) => ActiveUntil(next, left)
  BY <1>2, <1>3, HandlePacketFacts DEF VoqInv
<1> HIDE DEF next, d
<1>5. VoqInv(next, options, timeoutIn)
  <2>1. RemovalOn(options) => timeoutIn \in Int /\ timeoutIn <= VOQTimeout
    BY <1>1, VOQAssumption DEF LayerInv, Armed
  <2> QED BY <1>2, <1>4, <2>1 DEF VoqInv
<1> QED BY <1>1, <1>2, <1>4, <1>5, UpdateStep

(* The send event of a queue.                                              *)
LEMMA SendNextPacketStep ==
  ASSUME LayerInv, NEW d \in DOMAIN voqMap, SendNextPacket(d)
  PROVE  LayerInv'
<1> DEFINE next == HandleEvent(voqMap[d])
<1>1. /\ EventDue(voqMap[d]) /\ Update(d, next)
      /\ options' = options /\ scheduledRates' = scheduledRates /\ arriving' = arriving
  BY DEF SendNextPacket
<1>2. /\ voqMap[d] \in Voqs /\ VoqInv(voqMap[d], options, timeoutIn)
      /\ scheduledRates' \in Seq(Messages)
  BY <1>1 DEF LayerInv, TypeOK
<1>3. /\ next \in Voqs /\ Ready(next)
      /\ Paced(voqMap[d]) => Paced(next)
      /\ DataOnly(voqMap[d]) => DataOnly(next)
      /\ \A left \in Int :
           left <= VOQTimeout /\ DataOnly(voqMap[d]) /\ ActiveUntil(voqMap[d], left)
             => ActiveUntil(next, left)
  BY <1>1, <1>2, HandleEventFacts
<1> HIDE DEF next
<1>4. VoqInv(next, options, timeoutIn)
  <2>1. RemovalOn(options) => timeoutIn \in Int /\ timeoutIn <= VOQTimeout
    BY VOQAssumption DEF LayerInv, Armed
  <2> QED BY <1>2, <1>3, <2>1 DEF VoqInv
<1> QED BY <1>1, <1>2, <1>3, <1>4, UpdateStep

(* A scheduling packet passes its queue.                                   *)
LEMMA SendSchedulingPacketStep ==
  ASSUME LayerInv, NEW d \in DOMAIN voqMap, SendSchedulingPacket(d)
  PROVE  LayerInv'
<1> DEFINE next == SendScheduling(voqMap[d], Packet("scheduling", PktBits), options)
<1>1. /\ Update(d, next)
      /\ options' = options /\ scheduledRates' = scheduledRates /\ arriving' = arriving
  BY DEF SendSchedulingPacket
<1>2. /\ voqMap[d] \in Voqs /\ VoqInv(voqMap[d], options, timeoutIn)
      /\ scheduledRates' \in Seq(Messages) /\ options \in Options /\ PktBits \in Nat
  BY <1>1, SchedulingAssumption DEF LayerInv, TypeOK
<1>3. /\ next \in Voqs /\ Ready(next)
      /\ PacingOn(options) /\ Paced(voqMap[d]) => Paced(next)
      /\ RemovalOn(options) =>
           /\ DataOnly(voqMap[d]) => DataOnly(next)
           /\ \A left \in Int : ActiveUntil(voqMap[d], left) => ActiveUntil(next, left)
  BY <1>2, SendSchedulingFacts DEF VoqInv, PacingOn, RemovalOn
<1> HIDE DEF next
<1>4. VoqInv(next, options, timeoutIn)
  <2>1. RemovalOn(options) => timeoutIn \in Int
    BY VOQAssumption DEF LayerInv, Armed
  <2> QED BY <1>2, <1>3, <2>1 DEF VoqInv
<1> QED BY <1>1, <1>2, <1>3, <1>4, UpdateStep

(* A line of the schedule sets a rate.                                     *)
LEMMA SetScheduledRateStep ==
  ASSUME LayerInv, SetScheduledRate
  PROVE  LayerInv'
<1> DEFINE n == Len(scheduledRates)
           msg == scheduledRates[n]
           d == msg.destination
           next == SetSendingRate(voqMap[d], msg.rate)
<1>1. /\ scheduledRates \in Seq(Messages) /\ scheduledRates # << >>
      /\ scheduledRates' = SubSeq(scheduledRates, 1, n - 1)
      /\ options' = options /\ arriving' = arriving
  BY DEF SetScheduledRate, LayerInv, TypeOK
<1>2. n \in Nat /\ n > 0 /\ msg \in Messages
  BY <1>1
<1>3. d \in Dests /\ msg.rate \in Nat
  BY <1>2, SchedulingAssumption DEF Messages
<1>4. scheduledRates' \in Seq(Messages)
  BY <1>1, <1>2
<1>5. IF d \in DOMAIN voqMap THEN Update(d, next) ELSE NewVoqFor(d, msg.rate)
  BY DEF SetScheduledRate
<1> HIDE DEF n, msg, d
<1>6. CASE d \in DOMAIN voqMap
  <2>1. voqMap[d] \in Voqs /\ VoqInv(voqMap[d], options, timeoutIn)
    BY <1>6 DEF LayerInv, TypeOK
  <2>2. /\ next \in Voqs /\ Ready(next)
        /\ Paced(voqMap[d]) => Paced(next)
        /\ DataOnly(voqMap[d]) => DataOnly(next)
        /\ \A left \in Int : ActiveUntil(voqMap[d], left) => ActiveUntil(next, left)
    BY <1>3, <2>1, SetSendingRateFacts DEF VoqInv
  <2> HIDE DEF next
  <2>3. VoqInv(next, options, timeoutIn)
    <3>1. RemovalOn(options) => timeoutIn \in Int
      BY <1>6, VOQAssumption DEF LayerInv, Armed
    <3> QED BY <2>1, <2>2, <3>1 DEF VoqInv
  <2> QED BY <1>1, <1>4, <1>5, <1>6, <2>2, <2>3, UpdateStep
<1>7. CASE d \notin DOMAIN voqMap
  BY <1>1, <1>3, <1>4, <1>5, <1>7, NewVoqStep
<1> QED BY <1>6, <1>7

(* The VOQs that are left after a check have been idle for no longer than  *)
(* a timeout, and the next check is a timeout away.                        *)
LEMMA CheckVOQTimeoutStep ==
  ASSUME LayerInv, CheckVOQTimeout
  PROVE  LayerInv'
<1>1. /\ voqMap' = Without(voqMap, TimedOut)
      /\ timeoutIn' = IF voqMap' = << >> THEN None ELSE VOQTimeout
      /\ arriving' = IF arriving \in TimedOut THEN None ELSE arriving
      /\ options' = options /\ scheduledRates' = scheduledRates
  BY DEF CheckVOQTimeout
<1>2. /\ DOMAIN voqMap' = DOMAIN voqMap \ TimedOut
      /\ \A d \in DOMAIN voqMap' : d \in DOMAIN voqMap /\ voqMap'[d] = voqMap[d]
  BY <1>1 DEF Without
<1>3. VOQTimeout \in Nat
  BY VOQAssumption
<1>4. TypeOK'
  <2>1. IsFiniteSet(DOMAIN voqMap')
    BY <1>2, FS_Difference DEF LayerInv, TypeOK
  <2>2. arriving' \in DOMAIN voqMap' \cup {None}
    BY <1>1, <1>2 DEF LayerInv, TypeOK
  <2> QED BY <1>1, <1>2, <2>1, <2>2 DEF LayerInv, TypeOK
<1>5. DOMAIN voqMap' # {} => timeoutIn' = VOQTimeout
  BY <1>1
<1>6. Armed'
  BY <1>3, <1>5 DEF Armed
<1>7. ASSUME NEW d \in DOMAIN voqMap' PROVE VoqInv(voqMap'[d], options', timeoutIn')
  <2>1. d \in DOMAIN voqMap /\ voqMap'[d] = voqMap[d] /\ ~ (Inactivity(voqMap[d]) > VOQTimeout)
    BY <1>2 DEF TimedOut
  <2>2. VoqInv(voqMap[d], options, timeoutIn) /\ voqMap[d].idle \in Nat
    BY <2>1 DEF LayerInv, TypeOK, Voqs
  <2>3. ActiveUntil(voqMap[d], VOQTimeout)
    BY <1>3, <2>1, <2>2 DEF ActiveUntil, Inactivity
  <2> QED BY <1>1, <1>5, <2>1, <2>2, <2>3 DEF VoqInv
<1> QED BY <1>4, <1>6, <1>7 DEF LayerInv

(* A tick brings the next check nearer as the VOQs get older.              *)
LEMMA TickStep ==
  ASSUME LayerInv, Tick
  PROVE  LayerInv'
<1>1. /\ voqMap' = [d \in DOMAIN voqMap |-> AfterTick(voqMap[d])]
      /\ timeoutIn # 0
      /\ timeoutIn' = IF timeoutIn = None THEN None ELSE timeoutIn - 1
      /\ options' = options /\ scheduledRates' = scheduledRates /\ arriving' = arriving
  BY DEF Tick
<1>2. VOQTimeout \in Nat
  BY VOQAssumption
<1>3. RemovalOn(options) /\ DOMAIN voqMap # {} =>
        timeoutIn \in 1 .. VOQTimeout /\ timeoutIn' = timeoutIn - 1
  BY <1>1, <1>2 DEF LayerInv, Armed, None
<1>4. ASSUME NEW d \in DOMAIN voqMap
      PROVE  voqMap'[d] \in Voqs /\ VoqInv(voqMap'[d], options', timeoutIn')
  <2>1. voqMap'[d] = AfterTick(voqMap[d])
    BY <1>1
  <2>2. voqMap[d] \in Voqs /\ VoqInv(voqMap[d], options, timeoutIn)
    BY DEF LayerInv, TypeOK
  <2>3. /\ voqMap'[d] \in Voqs /\ Ready(voqMap'[d])
        /\ Paced(voqMap[d]) => Paced(voqMap'[d])
        /\ DataOnly(voqMap[d]) => DataOnly(voqMap'[d])
        /\ \A left \in Int : ActiveUntil(voqMap[d], left) => ActiveUntil(voqMap'[d], left - 1)
    BY <2>1, <2>2, AfterTickFacts DEF VoqInv
  <2>4. RemovalOn(options) => timeoutIn \in Int /\ timeoutIn' = timeoutIn - 1
    BY <1>2, <1>3
  <2> QED BY <1>1, <2>2, <2>3, <2>4 DEF VoqInv
<1>5. DOMAIN voqMap' = DOMAIN voqMap
  BY <1>1
<1>6. Armed'
  BY <1>1, <1>2, <1>3, <1>5 DEF Armed
<1>7. TypeOK'
  BY <1>1, <1>4, <1>5 DEF LayerInv, TypeOK
<1> QED BY <1>4, <1>5, <1>6, <1>7 DEF LayerInv

(* Every step keeps the invariant.                                         *)
LEMMA LayerNext == LayerInv /\ [Next]_vars => LayerInv'
<1> SUFFICES ASSUME LayerInv, [Next]_vars PROVE LayerInv'
  OBVIOUS
<1>1. ASSUME NEW d \in Dests, FromUpperLayer(d) PROVE LayerInv'
  BY <1>1, AllocatedStep DEF FromUpperLayer
<1>2. ASSUME NEW d \in Dests, FromLowerLayer(d) PROVE LayerInv'
  BY <1>2, AllocatedStep DEF FromLowerLayer
<1>3. CASE UNCHANGED vars
  <2>1. /\ voqMap' = voqMap /\ options' = options /\ timeoutIn' = timeoutIn
        /\ scheduledRates' = scheduledRates /\ arriving' = arriving
    BY <1>3 DEF vars, layer
  <2>2. \A d \in DOMAIN voqMap : VoqInv(voqMap'[d], options', timeoutIn')
    BY <2>1 DEF LayerInv
  <2> QED BY <2>1, <2>2 DEF LayerInv, TypeOK, Armed
<1> QED BY <1>1, <1>2, <1>3, PacketArrivesStep, SendNextPacketStep, SendSchedulingPacketStep,
           SetScheduledRateStep, CheckVOQTimeoutStep, TickStep DEF Next

(* Every VOQ keeps its type and its part of the invariant, and the check   *)
(* for idle VOQs is armed while there are any; a packet on its way to a    *)
(* VOQ never meets one that was removed (Demultiplexer, removeVoq).        *)
THEOREM LayerInvariant == Spec => []LayerInv
BY LayerInit, LayerNext, PTL DEF Spec

(* No packet of a VOQ is stuck, for every schedule of rates.               *)
THEOREM VoqEventScheduled == Spec => []QueuedHaveEvent
<1>1. LayerInv => QueuedHaveEvent
  BY DEF LayerInv, VoqInv, Ready, QueuedHaveEvent
<1> QED BY <1>1, LayerInvariant, PTL

(* A VOQ keeps to its rates, for every order of data, scheduling packets   *)
(* and changes of the rate.                                                *)
THEOREM VoqPaced == Spec => []PacedUnlessAhead
<1>1. LayerInv => PacedUnlessAhead
  BY DEF LayerInv, VoqInv, PacingOn, Paced, PacedUnlessAhead
<1> QED BY <1>1, LayerInvariant, PTL

(* An idle VOQ is removed within two timeouts, for every timeout.          *)
THEOREM IdleVoqRemoved == Spec => []IdleRemoved
<1>1. LayerInv => IdleRemoved
  <2> SUFFICES ASSUME LayerInv, RemovalOn(options), NEW d \in DOMAIN voqMap
               PROVE  Inactivity(voqMap[d]) <= 2 * VOQTimeout
    BY DEF IdleRemoved, RemovalOn
  <2>1. /\ ActiveUntil(voqMap[d], timeoutIn) /\ voqMap[d].idle \in Nat
        /\ timeoutIn \in Nat /\ VOQTimeout \in Nat
    BY VOQAssumption DEF LayerInv, TypeOK, Voqs, VoqInv, Armed
  <2> QED BY <2>1 DEF ActiveUntil, Inactivity
<1> QED BY <1>1, LayerInvariant, PTL

-----------------------------------------------------------------------------
(* The recursion of BklgPropShares: the flows that get what they ask for.  *)
MoreLimited(U, B, Q, c) == U \cup {i \in DOMAIN B \ U : Q[i] < ShareBeside(U, i, B, Q, c)}
LimitedUpTo(n, limited, B, Q, c) == IF n = 0 THEN {} ELSE MoreLimited(limited[n - 1], B, Q, c)
AllLimited(B, Q, c) ==
  CHOOSE limited : limited = [n \in 0 .. Cardinality(DOMAIN B) |-> LimitedUpTo(n, limited, B, Q, c)]

FlowRecords == [bklg : Nat, share : Int, rate : Int]

IsLink(link) ==
  /\ link = [flows |-> link.flows, u_l |-> link.u_l, overhead |-> link.overhead]
  /\ IsFiniteSet(DOMAIN link.flows)
  /\ \A g \in DOMAIN link.flows : link.flows[g] \in FlowRecords
  /\ link.u_l \in Int /\ link.overhead \in Nat

(* Only the record of flow f differs at a link from what it was, and only  *)
(* the flow may be new.                                                    *)
OnlyFlow(f, link, next) ==
  /\ IsLink(next)
  /\ f \in DOMAIN next.flows /\ DOMAIN link.flows \subseteq DOMAIN next.flows
  /\ \A g : g # f => RecordOf(next, g) = RecordOf(link, g)

Requests == [bklg : Nat, request : Int]
Responses == [share : Int, rate : Int]

AllocationTypes ==
  /\ config \in [overhead : Overheads, enforceBacklogConstraint : BOOLEAN, max_min : BOOLEAN]
  /\ DOMAIN linkTo = Servers /\ \A i \in Servers : IsLink(linkTo[i])
  /\ DOMAIN linkFrom = Servers /\ \A i \in Servers : IsLink(linkFrom[i])
  /\ requests \in [Flows -> Seq(Requests)]
  /\ responses \in [Flows -> Seq(Responses)]

(* What a flow's record s at its source, where it is if it is [known], its *)
(* record d at its destination and the packets between them say of each    *)
(* other: the last response under way tells what the destination has       *)
(* reserved; when there is none, the source has heard it.                  *)
Agreed(known, s, d, reqs, rsps) ==
  /\ reqs # << >> \/ rsps # << >> => known
  /\ d.share = 0 => d.rate = 0
  /\ rsps = << >> => s.share = d.share /\ s.rate <= d.rate
  /\ rsps # << >> => rsps[Len(rsps)].share = d.share /\ rsps[Len(rsps)].rate = d.rate

AgreedFlow(f) ==
  Agreed(f \in DOMAIN linkTo[Src(f)].flows,
         RecordOf(linkTo[Src(f)], f), RecordOf(linkFrom[Dst(f)], f), requests[f], responses[f])

AllocationInv == AllocationTypes /\ \A f \in Flows : AgreedFlow(f)

-----------------------------------------------------------------------------
(* Rates of flows.                                                         *)

(* The flows that get what they ask for are flows of the link.             *)
LEMMA LimitedFlows ==
  ASSUME NEW B, IsFiniteSet(DOMAIN B), NEW Q, NEW c
  PROVE  AllLimited(B, Q, c)[Cardinality(DOMAIN B)] \subseteq DOMAIN B
<1> DEFINE F == DOMAIN B
           C == Cardinality(F)
           rec(n, limited) == LimitedUpTo(n, limited, B, Q, c)
<1>1. C \in Nat
  BY FS_CardinalityType
<1>2. \A U \in SUBSET F : MoreLimited(U, B, Q, c) \in SUBSET F
  BY DEF MoreLimited
<1> HIDE DEF C, F
<1>3. ASSUME NEW limited, NEW n \in 0 .. C, n # 0 => limited[n - 1] \in SUBSET F
      PROVE  rec(n, limited) \in SUBSET F
  BY <1>2, <1>3 DEF LimitedUpTo
<1> DEFINE UpTo(n, limited) == \A k \in 0 .. C : k <= n => limited[k] = rec(k, limited)
           Reached == {n \in Nat : \E limited \in [0 .. C -> SUBSET F] : UpTo(n, limited)}
<1>4. 0 \in Reached
  <2> DEFINE none == [k \in 0 .. C |-> {}]
  <2>1. none \in [0 .. C -> SUBSET F]
    OBVIOUS
  <2>2. ASSUME NEW k \in 0 .. C, k <= 0 PROVE none[k] = rec(k, none)
    <3>1. k = 0
      BY <2>2
    <3> QED BY <3>1 DEF LimitedUpTo
  <2> QED BY <2>1, <2>2
<1>5. ASSUME NEW n \in Reached PROVE n + 1 \in Reached
  <2>1. n \in Nat
    OBVIOUS
  <2>2. PICK limited \in [0 .. C -> SUBSET F] : UpTo(n, limited)
    OBVIOUS
  <2> DEFINE more == [k \in 0 .. C |-> rec(k, limited)]
  <2>3. more \in [0 .. C -> SUBSET F]
    <3>1. ASSUME NEW k \in 0 .. C PROVE rec(k, limited) \in SUBSET F
      <4>1. k # 0 => k - 1 \in 0 .. C
        BY <1>1
      <4> QED BY <1>3, <4>1
    <3> QED BY <3>1
  <2>4. ASSUME NEW k \in 0 .. C, k <= n + 1 PROVE more[k] = rec(k, more)
    <3>1. CASE k = 0
      BY <3>1 DEF LimitedUpTo
    <3>2. CASE k # 0
      <4>1. k - 1 \in 0 .. C /\ k - 1 <= n
        BY <1>1, <2>1, <2>4, <3>2
      <4>2. more[k - 1] = limited[k - 1]
        BY <2>2, <4>1
      <4> QED BY <3>2, <4>2 DEF LimitedUpTo
    <3> QED BY <3>1, <3>2
  <2> HIDE DEF more
  <2>5. UpTo(n + 1, more)
    BY <2>4
  <2>6. n + 1 \in Nat
    BY <2>1
  <2> HIDE DEF UpTo
  <2> QED BY <2>3, <2>5, <2>6
<1>6. AllLimited(B, Q, c) = [n \in 0 .. C |-> rec(n, AllLimited(B, Q, c))]
  <2>1. C \in Reached
    <3>1. Reached \in SUBSET Nat
      OBVIOUS
    <3> HIDE DEF Reached
    <3> QED BY <1>1, <1>4, <1>5, <3>1, NatSetInduction
  <2>2. PICK limited \in [0 .. C -> SUBSET F] : UpTo(C, limited)
    BY <2>1
  <2>3. ASSUME NEW k \in 0 .. C PROVE limited[k] = rec(k, limited)
    <3>1. k <= C
      BY <1>1
    <3> QED BY <2>2, <3>1
  <2>4. limited = [n \in 0 .. C |-> rec(n, limited)]
    BY <2>3
  <2> QED BY <2>4 DEF AllLimited, C, F
<1> DEFINE Within == {n \in Nat : n <= C => AllLimited(B, Q, c)[n] \in SUBSET F}
<1>7. 0 \in Within
  <2>1. 0 \in 0 .. C
    BY <1>1
  <2> QED BY <1>3, <1>6, <2>1
<1>8. ASSUME NEW n \in Within PROVE n + 1 \in Within
  <2> SUFFICES ASSUME n + 1 <= C PROVE AllLimited(B, Q, c)[n + 1] \in SUBSET F
    OBVIOUS
  <2>1. n \in Nat /\ n <= C /\ n + 1 \in 0 .. C /\ (n + 1) - 1 = n
    BY <1>1
  <2>2. AllLimited(B, Q, c)[n] \in SUBSET F
    BY <2>1
  <2>3. AllLimited(B, Q, c)[n + 1] = rec(n + 1, AllLimited(B, Q, c))
    BY <1>6, <2>1
  <2> QED BY <1>3, <2>1, <2>2, <2>3
<1>9. C \in Within
  <2>1. Within \in SUBSET Nat
    OBVIOUS
  <2> HIDE DEF Within
  <2> QED BY <1>1, <1>7, <1>8, <2>1, NatSetInduction
<1>10. C <= C
  BY <1>1
<1> QED BY <1>9, <1>10 DEF C, F

(* A flow's share of what the others leave is a number.                    *)
LEMMA ShareBesideType ==
  ASSUME NEW B, IsFiniteSet(DOMAIN B), \A i \in DOMAIN B : B[i] \in Nat,
         NEW Q, \A i \in DOMAIN B : Q[i] \in Int, NEW c \in Int,
         NEW U \in SUBSET DOMAIN B, NEW i \in DOMAIN B
  PROVE  ShareBeside(U, i, B, Q, c) \in Int
<1> DEFINE left == c - SumFunctionOnSet(Q, U)
           b_l == SumFunctionOnSet(B, DOMAIN B \ U)
<1>1. SumFunctionOnSet(Q, U) \in Int
  <2>1. IsFiniteSet(U) /\ \A j \in U : Q[j] \in Int
    BY FS_Subset
  <2>2. Int \in {Nat, Int}
    OBVIOUS
  <2> QED BY <2>1, <2>2, SumType
<1>2. b_l \in Nat
  <2>1. DOMAIN B \ U \in SUBSET DOMAIN B
    OBVIOUS
  <2>2. IsFiniteSet(DOMAIN B \ U) /\ \A j \in DOMAIN B \ U : B[j] \in Nat
    BY <2>1, FS_Subset
  <2>3. Nat \in {Nat, Int}
    OBVIOUS
  <2> QED BY <2>2, <2>3, SumType
<1>3. left \in Int
  BY <1>1
<1>4. ShareBeside(U, i, B, Q, c) = IF B[i] = 0 \/ b_l = 0 THEN 0 ELSE (left * B[i]) \div b_l
  BY DEF ShareBeside
<1> HIDE DEF left, b_l
<1>5. PICK b \in Nat : b = B[i]
  OBVIOUS
<1>6. CASE b_l = 0
  BY <1>4, <1>6
<1>7. CASE b_l # 0
  <2>1. left * b \in Int
    BY <1>3, <1>5
  <2>2. \A x \in Int : x \div b_l \in Int
    BY <1>2, <1>7
  <2>3. (left * B[i]) \div b_l \in Int
    BY <1>5, <2>1, <2>2
  <2> QED BY <1>4, <2>3
<1> QED BY <1>6, <1>7

(* The shares of a link are numbers.                                       *)
LEMMA SharesType ==
  ASSUME NEW B, IsFiniteSet(DOMAIN B), \A i \in DOMAIN B : B[i] \in Nat,
         NEW Q, \A i \in DOMAIN B : Q[i] \in Int, NEW c \in Int,
         NEW i \in DOMAIN B
  PROVE  BklgPropShares(B, Q, c)[i] \in Int
<1> DEFINE U == AllLimited(B, Q, c)[Cardinality(DOMAIN B)]
<1>1. BklgPropShares(B, Q, c) =
        [j \in DOMAIN B |-> IF j \in U THEN Q[j] ELSE ShareBeside(U, j, B, Q, c)]
  BY DEF BklgPropShares, AllLimited, LimitedUpTo, MoreLimited
<1>2. U \in SUBSET DOMAIN B
  BY LimitedFlows
<1> HIDE DEF U
<1>3. ShareBeside(U, i, B, Q, c) \in Int
  BY <1>2, ShareBesideType
<1> QED BY <1>1, <1>3

-----------------------------------------------------------------------------
(* What the operations of a link do to the records of its flows.           *)

(* A link starts without flows.                                            *)
LEMMA NewLinkType ==
  ASSUME NEW overhead \in Nat
  PROVE  IsLink(NewLink(overhead)) /\ \A f : RecordOf(NewLink(overhead), f) = NewRecord
<1>1. DOMAIN NewLink(overhead).flows = {}
  BY DEF NewLink
<1>2. IsLink(NewLink(overhead))
  BY <1>1, CapacityAssumption, FS_EmptySet DEF NewLink, IsLink
<1> QED BY <1>1, <1>2 DEF RecordOf

(* A flow that is added has an empty record, the others keep theirs.       *)
LEMMA AddFlowKeeps ==
  ASSUME NEW link, IsLink(link), NEW f
  PROVE  OnlyFlow(f, link, AddFlow(link, f)) /\ RecordOf(AddFlow(link, f), f) = RecordOf(link, f)
<1>1. CASE f \in DOMAIN link.flows
  BY <1>1 DEF AddFlow, OnlyFlow
<1>2. CASE f \notin DOMAIN link.flows
  <2> DEFINE F == DOMAIN link.flows \cup {f}
             flows == [g \in F |-> IF g = f THEN NewRecord ELSE link.flows[g]]
             u_l == c_l - (link.overhead * Cardinality(F))
             next == [flows |-> flows, u_l |-> u_l, overhead |-> link.overhead]
  <2>1. IsFiniteSet(F) /\ Cardinality(F) \in Nat
    BY FS_AddElement, FS_CardinalityType DEF IsLink
  <2>2. u_l \in Int
    <3>1. link.overhead \in Nat
      BY DEF IsLink
    <3> HIDE DEF F
    <3>2. link.overhead * Cardinality(F) \in Int
      BY <2>1, <3>1
    <3> QED BY <3>2, CapacityAssumption
  <2>3. AddFlow(link, f) = next
    <3> DEFINE old == link.flows
               ovh == link.overhead
               u == link.u_l
    <3>1. link = [flows |-> old, u_l |-> u, overhead |-> ovh]
      BY DEF IsLink
    <3>2. AddFlow(link, f) = [link EXCEPT !.flows = flows, !.u_l = u_l]
      BY <1>2 DEF AddFlow
    <3> HIDE DEF flows, u_l, old, ovh, u
    <3>3. AddFlow(link, f) = [flows |-> flows, u_l |-> u_l, overhead |-> ovh]
      BY <3>1, <3>2
    <3> QED BY <3>3 DEF ovh
  <2>4. DOMAIN flows = F /\ \A g \in F : flows[g] = IF g = f THEN NewRecord ELSE link.flows[g]
    OBVIOUS
  <2>5. NewRecord \in FlowRecords
    BY DEF NewRecord, FlowRecords
  <2>6. \A g \in F : flows[g] \in FlowRecords
    BY <2>4, <2>5 DEF IsLink
  <2>7. link.overhead \in Nat
    BY DEF IsLink
  <2>8. next.flows = flows /\ next.u_l = u_l /\ next.overhead = link.overhead
    OBVIOUS
  <2>9. IsLink(next)
    <3> HIDE DEF flows, u_l
    <3> QED BY <2>1, <2>2, <2>4, <2>6, <2>7 DEF IsLink
  <2>10. \A g : RecordOf(next, g) = RecordOf(link, g)
    BY <1>2, <2>4, <2>8 DEF RecordOf
  <2> QED BY <2>3, <2>4, <2>8, <2>9, <2>10 DEF OnlyFlow
<1> QED BY <1>1, <1>2

(* A flow's record at a link is replaced.                                  *)
LEMMA RecordReplaced ==
  ASSUME NEW link, IsLink(link), NEW f \in DOMAIN link.flows, NEW rec \in FlowRecords,
         NEW next, next = [link EXCEPT !.flows = [@ EXCEPT ![f] = rec]]
  PROVE  OnlyFlow(f, link, next) /\ RecordOf(next, f) = rec /\ next.u_l = link.u_l
<1> DEFINE flows == [link.flows EXCEPT ![f] = rec]
<1>1. next = [flows |-> flows, u_l |-> link.u_l, overhead |-> link.overhead]
  <2> DEFINE old == link.flows
             ovh == link.overhead
             u == link.u_l
  <2>1. link = [flows |-> old, u_l |-> u, overhead |-> ovh] /\ next = [link EXCEPT !.flows = flows]
    BY DEF IsLink
  <2> HIDE DEF flows, old, ovh, u
  <2>2. next = [flows |-> flows, u_l |-> u, overhead |-> ovh]
    BY <2>1
  <2> QED BY <2>2 DEF old, ovh, u
<1>2. /\ DOMAIN flows = DOMAIN link.flows
      /\ \A g \in DOMAIN link.flows : flows[g] = IF g = f THEN rec ELSE link.flows[g]
  OBVIOUS
<1> HIDE DEF flows
<1>3. next.flows = flows /\ next.u_l = link.u_l /\ next.overhead = link.overhead
  BY <1>1
<1>4. IsLink(next)
  BY <1>1, <1>2, <1>3 DEF IsLink
<1>5. \A g : g # f => RecordOf(next, g) = RecordOf(link, g)
  BY <1>2, <1>3 DEF RecordOf
<1>6. RecordOf(next, f) = rec
  BY <1>2, <1>3 DEF RecordOf
<1> QED BY <1>2, <1>3, <1>4, <1>5, <1>6 DEF OnlyFlow

(* handleReqPkt(): the flow keeps its share and its rate.                  *)
LEMMA RequestKeeps ==
  ASSUME NEW link, IsLink(link), NEW f, NEW pkt, pkt.bklg \in Nat
  PROVE  /\ OnlyFlow(f, link, HandleReqPkt(link, f, pkt))
         /\ RecordOf(HandleReqPkt(link, f, pkt), f).share = RecordOf(link, f).share
         /\ RecordOf(HandleReqPkt(link, f, pkt), f).rate = RecordOf(link, f).rate
<1> DEFINE added == AddFlow(link, f)
           rec == [added.flows[f] EXCEPT !.bklg = pkt.bklg]
           next == HandleReqPkt(link, f, pkt)
<1>1. OnlyFlow(f, link, added) /\ RecordOf(added, f) = RecordOf(link, f)
  BY AddFlowKeeps
<1>2. next = [added EXCEPT !.flows = [@ EXCEPT ![f] = rec]]
  BY DEF HandleReqPkt
<1> HIDE DEF added, next
<1>3. IsLink(added) /\ f \in DOMAIN added.flows /\ RecordOf(added, f) = added.flows[f]
  BY <1>1 DEF OnlyFlow, RecordOf
<1>4. added.flows[f] \in FlowRecords
  BY <1>3 DEF IsLink
<1>5. rec \in FlowRecords /\ rec.share = added.flows[f].share /\ rec.rate = added.flows[f].rate
  BY <1>4 DEF FlowRecords
<1> HIDE DEF rec
<1>6. OnlyFlow(f, added, next) /\ RecordOf(next, f) = rec
  BY <1>2, <1>3, <1>5, RecordReplaced
<1>7. OnlyFlow(f, link, next)
  BY <1>1, <1>6 DEF OnlyFlow
<1>8. RecordOf(next, f).share = RecordOf(link, f).share /\ RecordOf(next, f).rate = RecordOf(link, f).rate
  BY <1>1, <1>3, <1>5, <1>6
<1> QED BY <1>7, <1>8 DEF next

(* The share that a link gives to a flow is a number.                      *)
LEMMA ShareOfType ==
  ASSUME NEW link, IsLink(link), NEW f \in DOMAIN link.flows, NEW pkt, pkt.request \in Int
  PROVE  ShareOf(link, f, pkt) \in Int
<1> DEFINE F == DOMAIN link.flows
           B == [g \in F |-> link.flows[g].bklg]
           Q == [g \in F |-> IF g = f THEN pkt.request ELSE link.flows[g].share]
<1>1. \A g \in F : link.flows[g].bklg \in Nat /\ link.flows[g].share \in Int
  BY DEF IsLink, FlowRecords
<1>2. DOMAIN B = F /\ \A g \in F : B[g] \in Nat /\ Q[g] \in Int
  BY <1>1
<1>3. IsFiniteSet(F) /\ link.u_l \in Int
  BY DEF IsLink
<1>4. ShareOf(link, f, pkt) = BklgPropShares(B, Q, link.u_l)[f]
  BY DEF ShareOf
<1> HIDE DEF B, Q, F
<1>5. f \in F
  BY DEF F
<1> QED BY <1>2, <1>3, <1>4, <1>5, SharesType

(* assignRate(): a number, no more than what is asked for, and nothing if  *)
(* nothing is.                                                             *)
LEMMA assignRateFacts ==
  ASSUME NEW link, IsLink(link), NEW f \in DOMAIN link.flows, NEW rate \in Int
  PROVE  /\ assignRate(link, f, rate) \in Int
         /\ assignRate(link, f, rate) <= rate
         /\ rate = 0 => assignRate(link, f, rate) = 0
<1> DEFINE rates == [g \in DOMAIN link.flows |-> link.flows[g].rate]
           available == link.u_l - (SumRates(link) - link.flows[f].rate)
           most == Max({0, available})
<1>1. \A g \in DOMAIN link.flows : link.flows[g].rate \in Int
  BY DEF IsLink, FlowRecords
<1>2. SumRates(link) \in Int
  <2>1. DOMAIN rates = DOMAIN link.flows /\ \A g \in DOMAIN link.flows : rates[g] \in Int
    BY <1>1
  <2>2. SumRates(link) = SumFunctionOnSet(rates, DOMAIN link.flows)
    BY <2>1 DEF SumRates, SumFunction
  <2> HIDE DEF rates
  <2>3. Int \in {Nat, Int} /\ IsFiniteSet(DOMAIN link.flows)
    BY DEF IsLink
  <2> QED BY <2>1, <2>2, <2>3, SumType
<1>3. available \in Int
  <2>1. link.u_l \in Int /\ link.flows[f].rate \in Int
    BY <1>1 DEF IsLink
  <2> QED BY <1>2, <2>1
<1> HIDE DEF available
<1>4. most \in {0, available} /\ most >= 0
  <2>1. \E x \in {0, available} : \A y \in {0, available} : x >= y
    <3>1. CASE available >= 0
      BY <1>3, <3>1
    <3>2. CASE ~ (available >= 0)
      BY <1>3, <3>2
    <3> QED BY <3>1, <3>2
  <2>2. most \in {0, available} /\ \A y \in {0, available} : most >= y
    BY <2>1 DEF Max
  <2> QED BY <2>2
<1> HIDE DEF most
<1>5. most \in Int
  BY <1>3, <1>4
<1>6. Min({rate, most}) \in {rate, most} /\ \A y \in {rate, most} : Min({rate, most}) <= y
  <2>1. \E x \in {rate, most} : \A y \in {rate, most} : x <= y
    <3>1. CASE rate <= most
      BY <1>5, <3>1
    <3>2. CASE ~ (rate <= most)
      BY <1>5, <3>2
    <3> QED BY <3>1, <3>2
  <2> QED BY <2>1 DEF Min
<1>7. assignRate(link, f, rate) = Min({rate, most})
  BY DEF assignRate, most, available
<1>8. PICK least : least = Min({rate, most})
  OBVIOUS
<1>9. least \in Int /\ least <= rate /\ (rate = 0 => least = 0)
  BY <1>4, <1>5, <1>6, <1>8
<1> QED BY <1>7, <1>8, <1>9

(* handleRspPkt(): the flow has the share of the response, and at most its *)
(* rate.                                                                   *)
LEMMA ResponseAssigns ==
  ASSUME NEW link, IsLink(link), NEW f \in DOMAIN link.flows,
         NEW pkt, pkt.share \in Int, pkt.rate \in Int
  PROVE  /\ OnlyFlow(f, link, HandleRspPkt(link, f, pkt))
         /\ RecordOf(HandleRspPkt(link, f, pkt), f) = HandleRspPkt(link, f, pkt).flows[f]
         /\ RecordOf(HandleRspPkt(link, f, pkt), f).share = pkt.share
         /\ RecordOf(HandleRspPkt(link, f, pkt), f).rate \in Int
         /\ RecordOf(HandleRspPkt(link, f, pkt), f).rate <= pkt.rate
         /\ pkt.rate = 0 => RecordOf(HandleRspPkt(link, f, pkt), f).rate = 0
<1> DEFINE rate == assignRate(link, f, pkt.rate)
           rec == [[link.flows[f] EXCEPT !.share = pkt.share] EXCEPT !.rate = rate]
           next == HandleRspPkt(link, f, pkt)
<1>1. rate \in Int /\ rate <= pkt.rate /\ (pkt.rate = 0 => rate = 0)
  BY assignRateFacts
<1>2. next = [link EXCEPT !.flows = [@ EXCEPT ![f] = rec]]
  <2> DEFINE old == link.flows
             ovh == link.overhead
             u == link.u_l
  <2>1. link = [flows |-> old, u_l |-> u, overhead |-> ovh] /\ f \in DOMAIN old
    BY DEF IsLink
  <2>2. next = [link EXCEPT !.flows[f].share = pkt.share, !.flows[f].rate = rate]
    BY DEF HandleRspPkt
  <2>3. rec = [[old[f] EXCEPT !.share = pkt.share] EXCEPT !.rate = rate]
    OBVIOUS
  <2> HIDE DEF old, ovh, u, rate, rec, next
  <2>4. next = [link EXCEPT !.flows = [old EXCEPT ![f] = rec]]
    BY ONLY <2>1, <2>2, <2>3
  <2> QED BY <2>4 DEF old
<1> HIDE DEF rate, next
<1>3. link.flows[f] \in FlowRecords
  BY DEF IsLink
<1>4. rec \in FlowRecords /\ rec.share = pkt.share /\ rec.rate = rate
  BY <1>1, <1>3 DEF FlowRecords
<1> HIDE DEF rec
<1>5. OnlyFlow(f, link, next) /\ RecordOf(next, f) = rec
  BY <1>2, <1>4, RecordReplaced
<1>6. RecordOf(next, f) = next.flows[f]
  BY <1>5 DEF OnlyFlow, RecordOf
<1> QED BY <1>1, <1>4, <1>5, <1>6 DEF next

-----------------------------------------------------------------------------
(* The invariant.                                                          *)

(* The ends of a flow are servers.                                         *)
LEMMA FlowEnds == ASSUME NEW f \in Flows PROVE Src(f) \in Servers /\ Dst(f) \in Servers
BY DEF Flows, Src, Dst

(* A flow has a record everywhere.                                         *)
LEMMA RecordType ==
  ASSUME NEW link, IsLink(link), NEW f
  PROVE  RecordOf(link, f) \in FlowRecords
<1>1. NewRecord \in FlowRecords
  BY DEF NewRecord, FlowRecords
<1> QED BY <1>1 DEF RecordOf, IsLink

(* The invariant holds at the start.                                       *)
LEMMA AllocationInit == AllocateInit => AllocationInv
<1> SUFFICES ASSUME AllocateInit PROVE AllocationInv
  OBVIOUS
<1>1. config.overhead \in Nat /\ config \in [overhead : Overheads, enforceBacklogConstraint : BOOLEAN, max_min : BOOLEAN]
  BY RatesAssumption DEF AllocateInit
<1>2. /\ DOMAIN linkTo = Servers /\ \A i \in Servers : linkTo[i] = NewLink(config.overhead)
      /\ DOMAIN linkFrom = Servers /\ \A i \in Servers : linkFrom[i] = NewLink(config.overhead)
  BY DEF AllocateInit
<1>3. requests \in [Flows -> Seq(Requests)] /\ responses \in [Flows -> Seq(Responses)]
  BY DEF AllocateInit
<1>4. AllocationTypes
  BY <1>1, <1>2, <1>3, NewLinkType DEF AllocationTypes
<1>5. ASSUME NEW f \in Flows PROVE AgreedFlow(f)
  <2>1. RecordOf(linkTo[Src(f)], f) = NewRecord /\ RecordOf(linkFrom[Dst(f)], f) = NewRecord
    BY <1>1, <1>2, FlowEnds, NewLinkType
  <2>2. requests[f] = << >> /\ responses[f] = << >>
    BY DEF AllocateInit
  <2>3. NewRecord.share = NewRecord.share /\ NewRecord.rate = 0 /\ NewRecord.rate <= NewRecord.rate
    BY DEF NewRecord
  <2> QED BY <2>1, <2>2, <2>3 DEF AgreedFlow, Agreed
<1> QED BY <1>4, <1>5 DEF AllocationInv

(* What a flow's packets do to one of its links leaves other flows alone.  *)
LEMMA OthersAgree ==
  ASSUME NEW f \in Flows, NEW g \in Flows, g # f, AllocationTypes, AgreedFlow(g),
         linkTo' = linkTo \/ (\E link : /\ linkTo' = [linkTo EXCEPT ![Src(f)] = link]
                                        /\ OnlyFlow(f, linkTo[Src(f)], link)),
         linkFrom' = linkFrom \/ (\E link : /\ linkFrom' = [linkFrom EXCEPT ![Dst(f)] = link]
                                            /\ OnlyFlow(f, linkFrom[Dst(f)], link)),
         requests'[g] = requests[g], responses'[g] = responses[g]
  PROVE  AgreedFlow(g)'
<1>1. /\ RecordOf(linkTo'[Src(g)], g) = RecordOf(linkTo[Src(g)], g)
      /\ g \in DOMAIN linkTo[Src(g)].flows => g \in DOMAIN linkTo'[Src(g)].flows
  <2>1. CASE linkTo' = linkTo
    BY <2>1
  <2>2. ASSUME NEW link, linkTo' = [linkTo EXCEPT ![Src(f)] = link],
               OnlyFlow(f, linkTo[Src(f)], link)
        PROVE  /\ RecordOf(linkTo'[Src(g)], g) = RecordOf(linkTo[Src(g)], g)
               /\ g \in DOMAIN linkTo[Src(g)].flows => g \in DOMAIN linkTo'[Src(g)].flows
    <3>1. CASE Src(g) = Src(f)
      <4>1. linkTo'[Src(g)] = link
        BY <2>2, <3>1, FlowEnds DEF AllocationTypes
      <4> QED BY <2>2, <3>1, <4>1 DEF OnlyFlow
    <3>2. CASE Src(g) # Src(f)
      <4>1. linkTo'[Src(g)] = linkTo[Src(g)]
        BY <2>2, <3>2, FlowEnds DEF AllocationTypes
      <4> QED BY <4>1
    <3> QED BY <3>1, <3>2
  <2> QED BY <2>1, <2>2
<1>2. RecordOf(linkFrom'[Dst(g)], g) = RecordOf(linkFrom[Dst(g)], g)
  <2>1. CASE linkFrom' = linkFrom
    BY <2>1
  <2>2. ASSUME NEW link, linkFrom' = [linkFrom EXCEPT ![Dst(f)] = link],
               OnlyFlow(f, linkFrom[Dst(f)], link)
        PROVE  RecordOf(linkFrom'[Dst(g)], g) = RecordOf(linkFrom[Dst(g)], g)
    <3>1. CASE Dst(g) = Dst(f)
      <4>1. linkFrom'[Dst(g)] = link
        BY <2>2, <3>1, FlowEnds DEF AllocationTypes
      <4> QED BY <2>2, <3>1, <4>1 DEF OnlyFlow
    <3>2. CASE Dst(g) # Dst(f)
      <4>1. linkFrom'[Dst(g)] = linkFrom[Dst(g)]
        BY <2>2, <3>2, FlowEnds DEF AllocationTypes
      <4> QED BY <4>1
    <3> QED BY <3>1, <3>2
  <2> QED BY <2>1, <2>2
<1>3. Agreed(g \in DOMAIN linkTo'[Src(g)].flows,
             RecordOf(linkTo'[Src(g)], g), RecordOf(linkFrom'[Dst(g)], g), requests'[g], responses'[g])
  BY <1>1, <1>2 DEF AgreedFlow, Agreed
<1> QED BY <1>3 DEF AgreedFlow, RecordOf

(* SndReqPkt(): the source has heard of a backlog, nothing else.           *)
LEMMA SndReqPktAgrees ==
  ASSUME AllocationInv, NEW f \in Flows, NEW bklg \in 0 .. MaxBklg, SndReqPkt(f, bklg)
  PROVE  AllocationInv'
<1> DEFINE here == linkTo[Src(f)]
           link == HandleReqPkt(here, f, Demand(bklg))
           req == [Demand(bklg) EXCEPT !.request = ShareOf(link, f, Demand(bklg))]
<1>1. AllocationTypes /\ \A g \in Flows : AgreedFlow(g)
  BY DEF AllocationInv
<1>2. /\ linkTo' = [linkTo EXCEPT ![Src(f)] = link]
      /\ requests' = [requests EXCEPT ![f] = Append(@, req)]
      /\ config' = config /\ linkFrom' = linkFrom /\ responses' = responses
  BY DEF SndReqPkt
<1>3. Demand(bklg) \in Requests
  BY CapacityAssumption, RatesAssumption DEF Demand, Requests
<1>4. Demand(bklg).bklg \in Nat /\ Demand(bklg).request \in Int
  BY <1>3 DEF Requests
<1>5. Src(f) \in Servers /\ Dst(f) \in Servers /\ IsLink(here)
  BY <1>1, FlowEnds DEF AllocationTypes
<1> HIDE DEF here
<1>6. /\ OnlyFlow(f, here, link)
      /\ RecordOf(link, f).share = RecordOf(here, f).share
      /\ RecordOf(link, f).rate = RecordOf(here, f).rate
  BY <1>4, <1>5, RequestKeeps
<1> HIDE DEF link
<1>7. IsLink(link) /\ f \in DOMAIN link.flows
  BY <1>6 DEF OnlyFlow
<1>8. ShareOf(link, f, Demand(bklg)) \in Int
  BY <1>4, <1>7, ShareOfType
<1>9. req \in Requests
  BY <1>3, <1>8 DEF Requests
<1> HIDE DEF req
<1>10. requests' \in [Flows -> Seq(Requests)]
  BY <1>1, <1>2, <1>9 DEF AllocationTypes
<1>11. DOMAIN linkTo' = Servers /\ \A i \in Servers : linkTo'[i] = IF i = Src(f) THEN link ELSE linkTo[i]
  BY <1>1, <1>2 DEF AllocationTypes
<1>12. AllocationTypes'
  <2>1. \A i \in Servers : IsLink(linkTo'[i])
    BY <1>1, <1>7, <1>11 DEF AllocationTypes
  <2> QED BY <1>1, <1>2, <1>10, <1>11, <2>1 DEF AllocationTypes, IsLink, Requests, Responses, FlowRecords
<1>13. ASSUME NEW g \in Flows, g # f PROVE AgreedFlow(g)'
  <2>1. requests'[g] = requests[g] /\ responses'[g] = responses[g]
    BY <1>1, <1>2, <1>13 DEF AllocationTypes
  <2>2. \E l : linkTo' = [linkTo EXCEPT ![Src(f)] = l] /\ OnlyFlow(f, linkTo[Src(f)], l)
    BY <1>2, <1>6 DEF here
  <2> QED BY <1>1, <1>2, <1>13, <2>1, <2>2, OthersAgree
<1>14. AgreedFlow(f)'
  <2>1. linkTo'[Src(f)] = link /\ linkFrom'[Dst(f)] = linkFrom[Dst(f)] /\ responses'[f] = responses[f]
    BY <1>2, <1>5, <1>11
  <2>2. Agreed(f \in DOMAIN linkTo'[Src(f)].flows,
               RecordOf(linkTo'[Src(f)], f), RecordOf(linkFrom'[Dst(f)], f), requests'[f], responses'[f])
    BY <1>1, <1>6, <1>7, <2>1 DEF AgreedFlow, Agreed, here
  <2> QED BY <2>2 DEF AgreedFlow, RecordOf
<1> QED BY <1>12, <1>13, <1>14 DEF AllocationInv

(* RcvReqPkt(): the response says what the destination's link now holds.   *)
LEMMA RcvReqPktAgrees ==
  ASSUME AllocationInv, NEW f \in Flows, RcvReqPkt(f)
  PROVE  AllocationInv'
<1> DEFINE there == linkFrom[Dst(f)]
           pkt == Head(requests[f])
           link == HandleReqPkt(there, f, pkt)
           s == ShareOf(link, f, pkt)
           given == [share |-> s, rate |-> s]
           done == HandleRspPkt(link, f, given)
           rsp == [share |-> s, rate |-> done.flows[f].rate]
<1>1. AllocationTypes /\ \A g \in Flows : AgreedFlow(g)
  BY DEF AllocationInv
<1>2. /\ linkFrom' = [linkFrom EXCEPT ![Dst(f)] = done]
      /\ requests' = [requests EXCEPT ![f] = Tail(@)]
      /\ responses' = [responses EXCEPT ![f] = Append(@, rsp)]
      /\ config' = config /\ linkTo' = linkTo /\ requests[f] # << >>
  BY DEF RcvReqPkt
<1>3. requests[f] \in Seq(Requests) /\ responses[f] \in Seq(Responses)
  BY <1>1 DEF AllocationTypes
<1>4. pkt \in Requests /\ Tail(requests[f]) \in Seq(Requests)
  BY <1>2, <1>3
<1> HIDE DEF pkt
<1>5. pkt.bklg \in Nat /\ pkt.request \in Int
  BY <1>4 DEF Requests
<1>6. Src(f) \in Servers /\ Dst(f) \in Servers /\ IsLink(there)
  BY <1>1, FlowEnds DEF AllocationTypes
<1> HIDE DEF there
<1>7. OnlyFlow(f, there, link)
  BY <1>5, <1>6, RequestKeeps
<1> HIDE DEF link
<1>8. IsLink(link) /\ f \in DOMAIN link.flows
  BY <1>7 DEF OnlyFlow
<1>9. s \in Int
  BY <1>5, <1>8, ShareOfType
<1> HIDE DEF s
<1>10. given.share = s /\ given.rate = s
  OBVIOUS
<1> HIDE DEF given
<1>11. /\ OnlyFlow(f, link, done)
       /\ RecordOf(done, f) = done.flows[f]
       /\ RecordOf(done, f).share = s
       /\ RecordOf(done, f).rate \in Int
       /\ s = 0 => RecordOf(done, f).rate = 0
  BY <1>8, <1>9, <1>10, ResponseAssigns
<1> HIDE DEF done
<1>12. OnlyFlow(f, there, done)
  BY <1>7, <1>11 DEF OnlyFlow
<1>13. /\ rsp \in Responses
       /\ rsp.share = RecordOf(done, f).share /\ rsp.rate = RecordOf(done, f).rate
  BY <1>9, <1>11 DEF Responses
<1> HIDE DEF rsp
<1>14. /\ Append(responses[f], rsp) \in Seq(Responses) /\ Append(responses[f], rsp) # << >>
       /\ Append(responses[f], rsp)[Len(Append(responses[f], rsp))] = rsp
  <2>1. Len(Append(responses[f], rsp)) = Len(responses[f]) + 1
    BY <1>3, <1>13, AppendProperties
  <2>2. Append(responses[f], rsp)[Len(responses[f]) + 1] = rsp
    BY <1>3, <1>13, AppendProperties
  <2> QED BY <1>3, <1>13, <2>1, <2>2, AppendProperties
<1>15. /\ requests' \in [Flows -> Seq(Requests)]
       /\ responses' \in [Flows -> Seq(Responses)]
  BY <1>1, <1>2, <1>4, <1>14 DEF AllocationTypes
<1>16. DOMAIN linkFrom' = Servers /\ \A i \in Servers : linkFrom'[i] = IF i = Dst(f) THEN done ELSE linkFrom[i]
  BY <1>1, <1>2 DEF AllocationTypes
<1>17. AllocationTypes'
  <2>1. \A i \in Servers : IsLink(linkFrom'[i])
    BY <1>1, <1>12, <1>16 DEF AllocationTypes, OnlyFlow
  <2> QED BY <1>1, <1>2, <1>15, <1>16, <2>1 DEF AllocationTypes, IsLink, Requests, Responses, FlowRecords
<1>18. ASSUME NEW g \in Flows, g # f PROVE AgreedFlow(g)'
  <2>1. requests'[g] = requests[g] /\ responses'[g] = responses[g]
    BY <1>1, <1>2, <1>18 DEF AllocationTypes
  <2>2. \E l : linkFrom' = [linkFrom EXCEPT ![Dst(f)] = l] /\ OnlyFlow(f, linkFrom[Dst(f)], l)
    BY <1>2, <1>12 DEF there
  <2> QED BY <1>1, <1>2, <1>18, <2>1, <2>2, OthersAgree
<1>19. AgreedFlow(f)'
  <2>1. /\ linkTo'[Src(f)] = linkTo[Src(f)] /\ linkFrom'[Dst(f)] = done
        /\ responses'[f] = Append(responses[f], rsp)
    BY <1>1, <1>2, <1>6, <1>16 DEF AllocationTypes
  <2>2. f \in DOMAIN linkTo[Src(f)].flows
    BY <1>1, <1>2 DEF AgreedFlow, Agreed
  <2>3. Agreed(f \in DOMAIN linkTo'[Src(f)].flows,
               RecordOf(linkTo'[Src(f)], f), RecordOf(linkFrom'[Dst(f)], f), requests'[f], responses'[f])
    BY <1>11, <1>13, <1>14, <2>1, <2>2 DEF Agreed
  <2> QED BY <2>3 DEF AgreedFlow, RecordOf
<1> QED BY <1>17, <1>18, <1>19 DEF AllocationInv

(* RcvRspPkt(): with its last response, the source has heard of what the   *)
(* destination holds.                                                      *)
LEMMA RcvRspPktAgrees ==
  ASSUME AllocationInv, NEW f \in Flows, RcvRspPkt(f)
  PROVE  AllocationInv'
<1> DEFINE here == linkTo[Src(f)]
           rsp == Head(responses[f])
           link == HandleRspPkt(here, f, rsp)
           n == Len(responses[f])
<1>1. AllocationTypes /\ \A g \in Flows : AgreedFlow(g)
  BY DEF AllocationInv
<1>2. /\ linkTo' = [linkTo EXCEPT ![Src(f)] = link]
      /\ responses' = [responses EXCEPT ![f] = Tail(@)]
      /\ config' = config /\ linkFrom' = linkFrom /\ requests' = requests /\ responses[f] # << >>
  BY DEF RcvRspPkt
<1>3. responses[f] \in Seq(Responses)
  BY <1>1 DEF AllocationTypes
<1>4. rsp \in Responses /\ Tail(responses[f]) \in Seq(Responses) /\ rsp = responses[f][1]
  BY <1>2, <1>3
<1>5. /\ n \in Nat \ {0} /\ Len(Tail(responses[f])) = n - 1
      /\ Tail(responses[f]) = << >> <=> n = 1
      /\ n # 1 => Tail(responses[f])[n - 1] = responses[f][n]
  <2>1. n \in Nat \ {0} /\ Len(Tail(responses[f])) = n - 1
    BY <1>2, <1>3
  <2>2. Tail(responses[f]) = << >> <=> n = 1
    <3> DEFINE rest == Tail(responses[f])
    <3>1. rest \in Seq(Responses) /\ Len(rest) = n - 1
      BY <1>4, <2>1
    <3> HIDE DEF rest, n
    <3>2. rest = << >> => Len(rest) = 0
      BY EmptySeq
    <3>3. rest # << >> => Len(rest) # 0
      BY <3>1, EmptySeq
    <3>4. n = 1 <=> Len(rest) = 0
      BY <2>1, <3>1
    <3>5. rest = << >> <=> n = 1
      BY <3>2, <3>3, <3>4
    <3> QED BY <3>5 DEF rest
  <2>3. \A i \in 1 .. n - 1 : Tail(responses[f])[i] = responses[f][i + 1]
    BY <1>2, <1>3
  <2>4. n # 1 => Tail(responses[f])[n - 1] = responses[f][n]
    <3>1. SUFFICES ASSUME n # 1 PROVE Tail(responses[f])[n - 1] = responses[f][n]
      OBVIOUS
    <3> HIDE DEF n
    <3>2. n - 1 \in 1 .. n - 1 /\ (n - 1) + 1 = n
      BY <2>1, <3>1
    <3> QED BY <2>3, <3>2
  <2> QED BY <2>1, <2>2, <2>4
<1> HIDE DEF rsp
<1>6. rsp.share \in Int /\ rsp.rate \in Int
  BY <1>4 DEF Responses
<1>7. /\ Src(f) \in Servers /\ Dst(f) \in Servers /\ IsLink(here)
      /\ f \in DOMAIN here.flows
  BY <1>1, <1>2, FlowEnds DEF AllocationTypes, AgreedFlow, Agreed
<1> HIDE DEF here
<1>8. /\ OnlyFlow(f, here, link)
      /\ RecordOf(link, f).share = rsp.share
      /\ RecordOf(link, f).rate <= rsp.rate
  BY <1>6, <1>7, ResponseAssigns
<1> HIDE DEF link
<1>9. IsLink(link) /\ f \in DOMAIN link.flows
  BY <1>8 DEF OnlyFlow
<1>10. responses' \in [Flows -> Seq(Responses)]
  BY <1>1, <1>2, <1>4 DEF AllocationTypes
<1>11. DOMAIN linkTo' = Servers /\ \A i \in Servers : linkTo'[i] = IF i = Src(f) THEN link ELSE linkTo[i]
  BY <1>1, <1>2 DEF AllocationTypes
<1>12. AllocationTypes'
  <2>1. \A i \in Servers : IsLink(linkTo'[i])
    BY <1>1, <1>9, <1>11 DEF AllocationTypes
  <2> QED BY <1>1, <1>2, <1>10, <1>11, <2>1 DEF AllocationTypes, IsLink, Requests, Responses, FlowRecords
<1>13. ASSUME NEW g \in Flows, g # f PROVE AgreedFlow(g)'
  <2>1. requests'[g] = requests[g] /\ responses'[g] = responses[g]
    BY <1>1, <1>2, <1>13 DEF AllocationTypes
  <2>2. \E l : linkTo' = [linkTo EXCEPT ![Src(f)] = l] /\ OnlyFlow(f, linkTo[Src(f)], l)
    BY <1>2, <1>8 DEF here
  <2> QED BY <1>1, <1>2, <1>13, <2>1, <2>2, OthersAgree
<1>14. AgreedFlow(f)'
  <2>1. /\ linkTo'[Src(f)] = link /\ linkFrom'[Dst(f)] = linkFrom[Dst(f)]
        /\ requests'[f] = requests[f] /\ responses'[f] = Tail(responses[f])
    BY <1>1, <1>2, <1>7, <1>11 DEF AllocationTypes
  <2> DEFINE d == RecordOf(linkFrom[Dst(f)], f)
             s == RecordOf(link, f)
  <2>2. /\ d.share = 0 => d.rate = 0
        /\ responses[f][n].share = d.share /\ responses[f][n].rate = d.rate
    BY <1>1, <1>2 DEF AgreedFlow, Agreed
  <2> HIDE DEF d, n
  <2>3. CASE n = 1
    <3>1. Tail(responses[f]) = << >> /\ rsp.share = d.share /\ rsp.rate = d.rate
      BY <1>4, <1>5, <2>2, <2>3
    <3>2. Agreed(TRUE, s, d, requests[f], Tail(responses[f]))
      BY <1>8, <2>2, <3>1 DEF Agreed
    <3> QED BY <1>9, <2>1, <3>2 DEF AgreedFlow, RecordOf, d, Agreed
  <2>4. CASE n # 1
    <3>1. Agreed(TRUE, s, d, requests[f], Tail(responses[f]))
      BY <1>5, <2>2, <2>4 DEF Agreed
    <3> QED BY <1>9, <2>1, <3>1 DEF AgreedFlow, RecordOf, d, Agreed
  <2> QED BY <2>3, <2>4
<1> QED BY <1>12, <1>13, <1>14 DEF AllocationInv

(* Every step keeps the invariant.                                         *)
LEMMA AllocationNext == AllocationInv /\ [AllocateNext]_allocateVars => AllocationInv'
<1> SUFFICES ASSUME AllocationInv, [AllocateNext]_allocateVars PROVE AllocationInv'
  OBVIOUS
<1>1. ASSUME NEW f \in Flows, NEW bklg \in 0 .. MaxBklg, SndReqPkt(f, bklg) PROVE AllocationInv'
  BY <1>1, SndReqPktAgrees
<1>2. ASSUME NEW f \in Flows, RcvReqPkt(f) PROVE AllocationInv'
  BY <1>2, RcvReqPktAgrees
<1>3. ASSUME NEW f \in Flows, RcvRspPkt(f) PROVE AllocationInv'
  BY <1>3, RcvRspPktAgrees
<1>4. CASE UNCHANGED allocateVars
  <2>1. AllocationTypes'
    BY <1>4 DEF allocateVars, AllocationInv, AllocationTypes, IsLink, Requests, Responses, FlowRecords
  <2>2. ASSUME NEW f \in Flows PROVE AgreedFlow(f)'
    BY <1>4 DEF allocateVars, AllocationInv, AgreedFlow, Agreed, RecordOf
  <2> QED BY <2>1, <2>2 DEF AllocationInv
<1> QED BY <1>1, <1>2, <1>3, <1>4 DEF AllocateNext

(* The two ends of a flow and the packets between them always agree on its *)
(* reservation, as Agreed says (DistAlgProxy::sndReqPkt, rcvReqPkt,        *)
(* rcvRspPkt).                                                             *)
THEOREM AllocationInvariant == AllocateSpec => []AllocationInv
BY AllocationInit, AllocationNext, PTL DEF AllocateSpec

(* With no control packets of a flow under way, its source sends no faster *)
(* than its destination has reserved, whatever the backlogs of the flows   *)
(* and the capacities of the links.                                        *)
THEOREM SourcesKeepToReservations == AllocateSpec => []RateReserved
<1>1. AllocationInv => RateReserved
  BY DEF AllocationInv, RateReserved, AgreedFlow, Agreed
<1> QED BY <1>1, AllocationInvariant, PTL

(* A flow that holds nothing at its source, and will not ask again until   *)
(* there is something to send, holds nothing at its destination.           *)
THEOREM ReservationsReleased == AllocateSpec => []NoForgottenReservation
<1>1. AllocationInv => NoForgottenReservation
  BY DEF AllocationInv, NoForgottenReservation, AgreedFlow, Agreed, Idle
<1> QED BY <1>1, AllocationInvariant, PTL

=============================================================================
