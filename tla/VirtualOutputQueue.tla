------------------------- MODULE VirtualOutputQueue -------------------------
(***************************************************************************)
(* A virtual output queue (VOQ): the packets of a server for one           *)
(* destination, sent at the rate the scheduling algorithm has set.  A VOQ  *)
(* is a record; its operations map a VOQ to the VOQ after the call.        *)
(*                                                                         *)
(* Time is counted in ticks and rates in bits per tick.  An event of the   *)
(* VOQ that is scheduled is given by the bits left to send until then, at  *)
(* whatever rate; at a rate of 0 it never comes (MAXTIME).                 *)
(***************************************************************************)
EXTENDS Integers, Sequences

CONSTANTS
  MaxVOQSize,    \* queueSizePackets of a VOQ, 0 for no limit
  VOQTimeout     \* ticks after which an idle VOQ is removed, 0 to disable

ASSUME VOQAssumption == MaxVOQSize \in Nat /\ VOQTimeout \in Nat

Packet(kind, bits) == [kind |-> kind, bits |-> bits]

(* The parameters noSchedAccounting and queueSchedPkts.                    *)
Options == [noSchedAccounting : BOOLEAN, queueSchedPkts : BOOLEAN]

(* initialize(): the event is scheduled at MAXTIME, since the rate is 0.   *)
NewVoq ==
  [sendingRate |-> 0,
   queue       |-> << >>,
   scheduled   |-> TRUE,    \* sendNextPacketEvent_ is scheduled
   bitsLeft    |-> 0,       \* bits to send until it comes
   idle        |-> 0,       \* ticks since lastActiveTime_, as long as it matters
   debt        |-> 0]       \* history: bits sent and charged that the rate has
                            \* not made up for yet

(* scheduleNextTransmission(): bits to send before the next packet.  When  *)
(* the event is scheduled already, the bits up to then count as sent.      *)
ScheduleNext(voq, bits) ==
  [voq EXCEPT !.scheduled = TRUE,
              !.bitsLeft = bits + (IF voq.scheduled /\ voq.sendingRate = 0 THEN @ ELSE 0)]

(* sendPacket(): only data counts as activity; scheduling packets that are *)
(* not queued may be free of charge.                                       *)
SendPacket(voq, pkt, free) ==
  LET active == IF pkt.kind = "data" THEN [voq EXCEPT !.idle = 0] ELSE voq
  IN  IF free THEN active
      ELSE [ScheduleNext(active, pkt.bits) EXCEPT !.debt = @ + pkt.bits]

Full(voq) == MaxVOQSize > 0 /\ Len(voq.queue) >= MaxVOQSize

(* Mutant of HandlePacket: a packet is queued only behind other packets.   *)
HandlePacketHasty(voq, pkt) ==
  IF voq.queue = << >> THEN SendPacket(voq, pkt, FALSE)
  ELSE IF Full(voq) THEN voq ELSE [voq EXCEPT !.queue = Append(@, pkt)]

(* handleMessage() for a packet: it is sent unless the event is scheduled. *)
HandlePacket(voq, pkt) ==
  IF ~voq.scheduled THEN SendPacket(voq, pkt, FALSE)
  ELSE IF Full(voq) THEN voq ELSE [voq EXCEPT !.queue = Append(@, pkt)]

EventDue(voq) == voq.scheduled /\ voq.sendingRate > 0 /\ voq.bitsLeft = 0

(* handleMessage() for sendNextPacketEvent_.                               *)
HandleEvent(voq) ==
  LET free == [voq EXCEPT !.scheduled = FALSE]
  IN  IF voq.queue = << >> THEN free
      ELSE SendPacket([free EXCEPT !.queue = Tail(@)], Head(voq.queue), FALSE)

(* Mutant of SetSendingRate: the event is cancelled, not rescheduled, when *)
(* the rate becomes 0.                                                     *)
SetSendingRateCancels(voq, rate) ==
  [voq EXCEPT !.sendingRate = rate, !.scheduled = @ /\ rate > 0]

(* setSendingRate(): what the old rate has left to send goes on at the new *)
(* one.  (The code's other branch, for packets without an event, is        *)
(* written out although no VOQ gets there.)                                *)
SetSendingRate(voq, rate) ==
  IF ~voq.scheduled /\ voq.queue # << >>
  THEN ScheduleNext([voq EXCEPT !.sendingRate = rate], 0)
  ELSE [voq EXCEPT !.sendingRate = rate]

(* sendSchedulingPacket(): at once, or ahead of the packets that wait.     *)
SendScheduling(voq, pkt, options) ==
  IF ~options.noSchedAccounting /\ options.queueSchedPkts /\ voq.scheduled
  THEN [voq EXCEPT !.queue = << pkt >> \o @]
  ELSE SendPacket(voq, pkt, options.noSchedAccounting)

LowerOf(a, b) == IF a < b THEN a ELSE b

(* One tick: the line sends at the rate, the VOQ gets older.               *)
AfterTick(voq) ==
  LET sent(bits) == bits - LowerOf(bits, voq.sendingRate)
  IN  [voq EXCEPT !.bitsLeft = IF voq.scheduled THEN sent(@) ELSE @,
                  !.debt = sent(@),
                  !.idle = LowerOf(@ + 1, 2 * VOQTimeout + 1)]

(* getLastActiveTime(): a VOQ with packets is active.                      *)
Inactivity(voq) == IF voq.queue # << >> THEN 0 ELSE voq.idle

=============================================================================
