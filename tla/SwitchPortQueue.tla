-------------------------- MODULE SwitchPortQueue ---------------------------
(***************************************************************************)
(* SwitchPortQueue, an L2Queue whose packets may be kept in a              *)
(* VirtualPacketQueue: the output queue of a switch port.  While a packet  *)
(* is on the line further packets wait in the queue, which is limited in   *)
(* bytes and in packets (0: no limit).  The control processor may change   *)
(* the limits at any time; packets at the back are dropped to respect them.*)
(* A packet is represented by its length.                                  *)
(***************************************************************************)
EXTENDS Integers, Sequences, SequencesExt

CONSTANTS
  UseVirtual,   \* useVirtualPacketQueue
  PktBytes,     \* lengths of packets
  ByteLimits,   \* values of queueSizeBytes, initially and in update messages
  PktLimits,    \* values of queueSizePkts, likewise
  MaxQueued     \* bound: packets in a queue without limits

ASSUME UseVirtualAssumption == UseVirtual \in BOOLEAN
ASSUME PktBytesAssumption == PktBytes \subseteq Nat \ {0}
ASSUME LimitsAssumption == ByteLimits \subseteq Nat /\ PktLimits \subseteq Nat
ASSUME MaxQueuedAssumption == MaxQueued \in Nat

VARIABLES
  queue,          \* the queued packets, wherever they are stored
  onLine,         \* length of the packet on the line, 0 if idle; a packet is
                  \* on the line while endTransmissionEvent is scheduled
  queueSizeBytes,
  queueSizePkts

vars == <<queue, onLine, queueSizeBytes, queueSizePkts>>

(* getByteLength() and getLength() count the stored packets either way.    *)
ByteLength(q) == FoldSeq(+, 0, q)
GetLength(q) == Len(q)

(* A virtual queue keeps the fields of a packet and rebuilds it from them. *)
Insert(q, pkt) == Append(q, pkt)
Pop(q) == Tail(q)
PopBackTo(q, n) == SubSeq(q, 1, n)

(* length() and empty() are those of cQueue, which VirtualPacketQueue does *)
(* not override: its own list, where a virtual queue keeps nothing.        *)
BaseLength(q) == IF UseVirtual THEN 0 ELSE Len(q)
(* Mutant of BaseEmpty: the last packet is overlooked.                     *)
BaseAlmostEmpty(q) == BaseLength(q) <= 1

BaseEmpty(q) == BaseLength(q) = 0

Init ==
  /\ queue = << >>
  /\ onLine = 0
  /\ queueSizeBytes \in ByteLimits
  /\ queueSizePkts \in PktLimits

(* Mutants of Full: the packet itself is not counted in.                   *)
FullWithoutBytes(pkt) ==
  \/ queueSizePkts # 0 /\ BaseLength(queue) >= queueSizePkts
  \/ queueSizeBytes # 0 /\ ByteLength(queue) > queueSizeBytes
FullWithoutPkt(pkt) ==
  \/ queueSizePkts # 0 /\ BaseLength(queue) > queueSizePkts
  \/ queueSizeBytes # 0 /\ ByteLength(queue) + pkt > queueSizeBytes

Full(pkt) ==
  \/ queueSizePkts # 0 /\ BaseLength(queue) >= queueSizePkts
  \/ queueSizeBytes # 0 /\ ByteLength(queue) + pkt > queueSizeBytes

(* handleMessage() for a packet from the switch: idle, busy, busy and full *)
StartTransmitting(pkt) ==
  /\ onLine = 0
  /\ onLine' = pkt
  /\ UNCHANGED <<queue, queueSizeBytes, queueSizePkts>>

Enqueue(pkt) ==
  /\ onLine # 0
  /\ ~ Full(pkt)
  /\ Len(queue) < MaxQueued
  /\ queue' = Insert(queue, pkt)
  /\ UNCHANGED <<onLine, queueSizeBytes, queueSizePkts>>

DropPacket(pkt) ==
  /\ onLine # 0
  /\ Full(pkt)
  /\ UNCHANGED vars

(* handleMessage() for endTransmissionEvent.                               *)
FinishTransmitting ==
  /\ onLine # 0
  /\ IF BaseEmpty(queue)
     THEN onLine' = 0 /\ UNCHANGED queue
     ELSE onLine' = Head(queue) /\ queue' = Pop(queue)
  /\ UNCHANGED <<queueSizeBytes, queueSizePkts>>

(* The loops of updateQueueSize(): packets are popped from the back until  *)
(* the limit, if there is one, is respected.                               *)
RespectsBytes(q, limit) == limit = 0 \/ ByteLength(q) <= limit
RespectsPkts(q, limit) == limit = 0 \/ GetLength(q) <= limit

UpdateQueueSize(bytes, pkts) ==
  /\ \E kept \in 0 .. Len(queue) :
       LET fits(n) == /\ RespectsBytes(PopBackTo(queue, n), bytes)
                      /\ RespectsPkts(PopBackTo(queue, n), pkts)
       IN  /\ fits(kept)
           /\ \A n \in kept + 1 .. Len(queue) : ~ fits(n)
           /\ queue' = PopBackTo(queue, kept)
  /\ queueSizeBytes' = bytes
  /\ queueSizePkts' = pkts
  /\ UNCHANGED onLine

(* A control message overtakes the packet on the line and leaves no trace. *)
Next ==
  \/ \E pkt \in PktBytes : StartTransmitting(pkt) \/ Enqueue(pkt) \/ DropPacket(pkt)
  \/ FinishTransmitting
  \/ \E bytes \in ByteLimits, pkts \in PktLimits : UpdateQueueSize(bytes, pkts)

Spec == Init /\ [][Next]_vars
-----------------------------------------------------------------------------
TypeOK ==
  /\ queue \in Seq(PktBytes)
  /\ onLine \in PktBytes \cup {0}
  /\ queueSizeBytes \in ByteLimits
  /\ queueSizePkts \in PktLimits

(* L2Queue.h: "Queue will drop packets once either of above limits are     *)
(* exceeded" -- at all times, also after a limit has been lowered.         *)
WithinByteLimit == queueSizeBytes # 0 => ByteLength(queue) <= queueSizeBytes
WithinPktLimit == queueSizePkts # 0 => Len(queue) <= queueSizePkts

(* L2Queue.h: "While one frame is transmitted, additional frames get       *)
(* queued up" -- and only then: the line never idles while packets wait.   *)
BusyWhileQueued == queue # << >> => onLine # 0

=============================================================================
