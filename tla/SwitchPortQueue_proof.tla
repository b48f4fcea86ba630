----------------------- MODULE SwitchPortQueue_proof ------------------------
(***************************************************************************)
(* An output queue that keeps its packets itself (useVirtualPacketQueue is *)
(* off) never holds more packets than allowed and never lets the line idle *)
(* while packets wait; and however packets are stored, it never holds more *)
(* bytes than allowed.  All packet lengths and limits.  The bytes of a     *)
(* queue are a fold over a sequence, defined by a choice of the next       *)
(* packet: the lemmas on sums show that the choice does not matter.        *)
(***************************************************************************)
EXTENDS SwitchPortQueue, NumberLemmas, SequenceTheorems

(* The bytes of a queue are such a sum.                                    *)
LEMMA ByteLengthIsSum == ASSUME NEW q PROVE ByteLength(q) = SumOver(q, DOMAIN q)
BY DEF ByteLength, FoldSeq, FoldFunction, FoldFunctionOnSet, MapThenFoldSet, SumOver, Sums, SumUp, Pick

(* Lengths of packets are numbers.                                         *)
LEMMA SizesAreNumbers == \A pkt \in PktBytes : pkt \in Int
BY PktBytesAssumption

(* The bytes of a queue are a number, and a packet appended adds its own.  *)
LEMMA AppendBytes ==
  ASSUME NEW q \in Seq(PktBytes), NEW pkt \in PktBytes
  PROVE  /\ ByteLength(q) \in Int
         /\ ByteLength(Append(q, pkt)) = ByteLength(q) + pkt
<1> DEFINE n == Len(q)
           more == Append(q, pkt)
<1>1. n \in Nat /\ DOMAIN q = 1 .. n /\ \A i \in 1 .. n : q[i] \in Int
  <2>1. n \in Nat /\ DOMAIN q = 1 .. n /\ \A i \in 1 .. n : q[i] \in PktBytes
    OBVIOUS
  <2> HIDE DEF n
  <2> QED BY <2>1, SizesAreNumbers
<1>2. /\ DOMAIN more = 1 .. n + 1 /\ more[n + 1] = pkt
      /\ \A i \in 1 .. n : more[i] = q[i]
  OBVIOUS
<1>3. pkt \in Int
  BY PktBytesAssumption
<1> HIDE DEF n, more
<1>4. \A i \in 1 .. n + 1 : more[i] \in Int
  <2>1. ASSUME NEW i \in 1 .. n + 1 PROVE i \in 1 .. n \/ i = n + 1
    BY <1>1
  <2> QED BY <1>1, <1>2, <1>3, <2>1
<1>5. IsFiniteSet(1 .. n) /\ IsFiniteSet(1 .. n + 1)
  BY <1>1, FS_Interval
<1>6. ByteLength(q) = SumOver(q, 1 .. n) /\ ByteLength(more) = SumOver(more, 1 .. n + 1)
  BY <1>1, <1>2, ByteLengthIsSum
<1>7. SumOver(more, 1 .. n + 1) = SumOver(more, 1 .. n) + pkt
  <2>1. n + 1 \in 1 .. n + 1 /\ (1 .. n + 1) \ {n + 1} = 1 .. n
    BY <1>1
  <2>2. SumOver(more, 1 .. n + 1) = SumOver(more, (1 .. n + 1) \ {n + 1}) + more[n + 1]
    BY <1>4, <1>5, <2>1, SumWithout
  <2> QED BY <1>2, <2>1, <2>2
<1>8. SumOver(more, 1 .. n) = SumOver(q, 1 .. n)
  <2>1. 1 .. n \in SUBSET (1 .. n) /\ \A i \in 1 .. n : more[i] \in Int
    BY <1>1, <1>2
  <2> QED BY <1>1, <1>2, <1>5, <2>1, SameSum DEF SumOver
<1>9. SumOver(q, 1 .. n) \in Int
  <2>1. 1 .. n \in SUBSET (1 .. n)
    OBVIOUS
  <2> QED BY <1>1, <1>5, <2>1, SumRecursion DEF SumOver
<1> QED BY <1>6, <1>7, <1>8, <1>9 DEF more

(* A queue without its first packet has the bytes of the others.           *)
LEMMA TailBytes ==
  ASSUME NEW q \in Seq(PktBytes), q # << >>
  PROVE  ByteLength(q) = ByteLength(Tail(q)) + Head(q)
<1> DEFINE n == Len(q)
           rest == Tail(q)
<1>1. /\ n \in Nat \ {0} /\ DOMAIN q = 1 .. n /\ Head(q) = q[1]
      /\ \A i \in 1 .. n : q[i] \in Int
  <2>1. /\ n \in Nat \ {0} /\ DOMAIN q = 1 .. n /\ Head(q) = q[1]
        /\ \A i \in 1 .. n : q[i] \in PktBytes
    OBVIOUS
  <2> HIDE DEF n
  <2> QED BY <2>1, SizesAreNumbers
<1>2. DOMAIN rest = 1 .. n - 1 /\ \A i \in 1 .. n - 1 : rest[i] = q[i + 1]
  OBVIOUS
<1> HIDE DEF n, rest
<1>3. \A i \in 1 .. n - 1 : rest[i] \in Int
  <2>1. ASSUME NEW i \in 1 .. n - 1 PROVE i + 1 \in 1 .. n
    BY <1>1
  <2> QED BY <1>1, <1>2, <2>1
<1>4. \A k \in Nat : IsFiniteSet(1 .. k) /\ IsFiniteSet(2 .. k + 1)
  BY FS_Interval
<1> DEFINE Shifted == {k \in Nat : k <= n - 1 => SumOver(rest, 1 .. k) = SumOver(q, 2 .. k + 1)}
<1>5. 0 \in Shifted
  <2>1. 1 .. 0 = {} /\ 2 .. 0 + 1 = {}
    OBVIOUS
  <2>2. SumOver(rest, {}) = SumOver(q, {})
    <3>1. IsFiniteSet({}) /\ {} \in SUBSET {}
      BY FS_EmptySet
    <3> QED BY <3>1, SameSum DEF SumOver
  <2> QED BY <2>1, <2>2
<1>6. ASSUME NEW k \in Shifted PROVE k + 1 \in Shifted
  <2> SUFFICES ASSUME k + 1 <= n - 1
               PROVE  SumOver(rest, 1 .. k + 1) = SumOver(q, 2 .. (k + 1) + 1)
    OBVIOUS
  <2>1. k \in Nat /\ SumOver(rest, 1 .. k) = SumOver(q, 2 .. k + 1)
    BY <1>1
  <2>2. /\ k + 1 \in 1 .. k + 1 /\ (1 .. k + 1) \ {k + 1} = 1 .. k
        /\ k + 2 \in 2 .. (k + 1) + 1 /\ (2 .. (k + 1) + 1) \ {k + 2} = 2 .. k + 1
        /\ k + 1 \in 1 .. n - 1 /\ 1 .. k + 1 \subseteq 1 .. n - 1 /\ 2 .. (k + 1) + 1 \subseteq 1 .. n
    BY <1>1, <2>1
  <2>3. IsFiniteSet(1 .. k + 1) /\ IsFiniteSet(2 .. (k + 1) + 1)
    BY <1>4, <2>1
  <2>4. SumOver(rest, 1 .. k + 1) = SumOver(rest, (1 .. k + 1) \ {k + 1}) + rest[k + 1]
    <3>1. \A i \in 1 .. k + 1 : rest[i] \in Int
      BY <1>3, <2>2
    <3> QED BY <2>2, <2>3, <3>1, SumWithout
  <2>5. SumOver(q, 2 .. (k + 1) + 1) = SumOver(q, (2 .. (k + 1) + 1) \ {k + 2}) + q[k + 2]
    <3>1. \A i \in 2 .. (k + 1) + 1 : q[i] \in Int
      BY <1>1, <2>2
    <3> QED BY <2>2, <2>3, <3>1, SumWithout
  <2>6. rest[k + 1] = q[k + 2]
    <3>1. (k + 1) + 1 = k + 2
      BY <2>1
    <3> QED BY <1>2, <2>2, <3>1
  <2> QED BY <2>1, <2>2, <2>4, <2>5, <2>6
<1>7. SumOver(rest, 1 .. n - 1) = SumOver(q, 2 .. n)
  <2>1. Shifted \in SUBSET Nat
    OBVIOUS
  <2> HIDE DEF Shifted
  <2>2. n - 1 \in Nat /\ (n - 1) + 1 = n /\ n - 1 <= n - 1
    BY <1>1
  <2>3. n - 1 \in Shifted
    BY <1>5, <1>6, <2>1, <2>2, NatSetInduction
  <2> QED BY <2>2, <2>3 DEF Shifted
<1>8. SumOver(q, 1 .. n) = SumOver(q, 2 .. n) + q[1]
  <2>1. 1 \in 1 .. n /\ (1 .. n) \ {1} = 2 .. n /\ n \in Nat
    BY <1>1
  <2>2. SumOver(q, 1 .. n) = SumOver(q, (1 .. n) \ {1}) + q[1]
    BY <1>1, <1>4, <2>1, SumWithout
  <2> QED BY <2>1, <2>2
<1>9. ByteLength(q) = SumOver(q, 1 .. n) /\ ByteLength(rest) = SumOver(rest, 1 .. n - 1)
  BY <1>1, <1>2, ByteLengthIsSum
<1> QED BY <1>1, <1>7, <1>8, <1>9 DEF rest

-----------------------------------------------------------------------------
(* The limits.                                                             *)

(* The queue holds packets, within its limit in bytes.                     *)
BytesInv == TypeOK /\ WithinByteLimit

QueueInv == TypeOK /\ WithinPktLimit /\ BusyWhileQueued

(* The invariant holds at the start.                                       *)
LEMMA QueueInit == Init => QueueInv
<1> SUFFICES ASSUME Init PROVE QueueInv
  OBVIOUS
<1>1. Len(queue) = 0 /\ queue \in Seq(PktBytes)
  BY DEF Init
<1>2. queueSizePkts \in Nat
  BY LimitsAssumption DEF Init
<1> QED BY <1>1, <1>2 DEF Init, QueueInv, TypeOK, WithinPktLimit, BusyWhileQueued

(* Every step keeps the invariant.                                         *)
LEMMA QueueNext ==
  ASSUME UseVirtual = FALSE
  PROVE  QueueInv /\ [Next]_vars => QueueInv'
<1> SUFFICES ASSUME QueueInv, [Next]_vars PROVE QueueInv'
  OBVIOUS
<1> USE DEF QueueInv, TypeOK, WithinPktLimit, BusyWhileQueued
<1>1. /\ queueSizePkts \in Nat
      /\ \A pkt \in PktBytes : pkt \in Nat /\ pkt # 0
  BY LimitsAssumption, PktBytesAssumption
<1>2. CASE UNCHANGED vars
  BY <1>2 DEF vars
<1>3. ASSUME NEW pkt \in PktBytes, StartTransmitting(pkt) PROVE QueueInv'
  BY <1>1, <1>3 DEF StartTransmitting
<1>4. ASSUME NEW pkt \in PktBytes, Enqueue(pkt) PROVE QueueInv'
  <2>1. /\ queue' = Append(queue, pkt) /\ onLine' = onLine /\ onLine # 0
        /\ queueSizePkts' = queueSizePkts /\ queueSizeBytes' = queueSizeBytes
        /\ ~ Full(pkt)
    BY <1>4 DEF Enqueue, Insert
  <2>2. /\ queue' \in Seq(PktBytes) /\ Len(queue') = Len(queue) + 1
        /\ Len(queue) \in Nat
    BY <2>1
  <2>3. queueSizePkts # 0 => Len(queue) < queueSizePkts
    <3>1. queueSizePkts # 0 => ~ (BaseLength(queue) >= queueSizePkts)
      BY <2>1 DEF Full
    <3>2. BaseLength(queue) = Len(queue)
      BY DEF BaseLength
    <3> QED BY <1>1, <2>2, <3>1, <3>2
  <2> QED BY <1>1, <2>1, <2>2, <2>3
<1>5. ASSUME NEW pkt \in PktBytes, DropPacket(pkt) PROVE QueueInv'
  BY <1>5 DEF DropPacket, vars
<1>6. CASE FinishTransmitting
  <2>1. BaseEmpty(queue) <=> queue = << >>
    BY DEF BaseEmpty, BaseLength
  <2>2. CASE queue = << >>
    BY <1>6, <2>1, <2>2 DEF FinishTransmitting
  <2>3. CASE queue # << >>
    <3>1. /\ onLine' = Head(queue) /\ queue' = Tail(queue)
          /\ queueSizePkts' = queueSizePkts /\ queueSizeBytes' = queueSizeBytes
      BY <1>6, <2>1, <2>3 DEF FinishTransmitting, Pop
    <3>2. /\ Head(queue) \in PktBytes /\ Tail(queue) \in Seq(PktBytes)
          /\ Len(Tail(queue)) = Len(queue) - 1 /\ Len(queue) \in Nat
      BY <2>3
    <3> QED BY <1>1, <3>1, <3>2
  <2> QED BY <2>2, <2>3
<1>7. ASSUME NEW bytes \in ByteLimits, NEW pkts \in PktLimits,
             UpdateQueueSize(bytes, pkts)
      PROVE  QueueInv'
  <2>1. PICK kept \in 0 .. Len(queue) :
          /\ RespectsPkts(SubSeq(queue, 1, kept), pkts)
          /\ queue' = SubSeq(queue, 1, kept)
    BY <1>7 DEF UpdateQueueSize, PopBackTo
  <2>2. queueSizeBytes' = bytes /\ queueSizePkts' = pkts /\ onLine' = onLine
    BY <1>7 DEF UpdateQueueSize
  <2>3. SubSeq(queue, 1, kept) \in Seq(PktBytes) /\ Len(SubSeq(queue, 1, kept)) = kept
    OBVIOUS
  <2>4. WithinPktLimit'
    BY <2>1, <2>2 DEF RespectsPkts, GetLength
  <2>5. BusyWhileQueued'
    <3>1. CASE queue = << >>
      <4>1. kept = 0
        BY <3>1
      <4> QED BY <2>1, <2>3, <4>1
    <3>2. CASE queue # << >>
      BY <2>2, <3>2
    <3> QED BY <3>1, <3>2
  <2> QED BY <2>1, <2>2, <2>3, <2>4, <2>5
<1> QED BY <1>2, <1>3, <1>4, <1>5, <1>6, <1>7 DEF Next

(* The queue keeps its type, its limit in packets and the line busy.       *)
THEOREM QueueInvariant ==
  ASSUME UseVirtual = FALSE
  PROVE  Spec => []QueueInv
BY QueueInit, QueueNext, PTL DEF Spec

(* L2Queue.h's limit in packets holds at all times, also right after the   *)
(* control processor has lowered it.                                       *)
THEOREM PktLimitRespected ==
  ASSUME UseVirtual = FALSE
  PROVE  Spec => []WithinPktLimit
<1>1. QueueInv => WithinPktLimit
  BY DEF QueueInv
<1> QED BY <1>1, QueueInvariant, PTL

(* No packet waits in a queue whose line is idle.                          *)
THEOREM LineBusyWhileQueued ==
  ASSUME UseVirtual = FALSE
  PROVE  Spec => []BusyWhileQueued
<1>1. QueueInv => BusyWhileQueued
  BY DEF QueueInv
<1> QED BY <1>1, QueueInvariant, PTL

(* The limit in bytes holds at the start.                                  *)
LEMMA BytesInit == Init => BytesInv
<1> SUFFICES ASSUME Init PROVE BytesInv
  OBVIOUS
<1>1. TypeOK
  BY DEF Init, TypeOK
<1>2. ByteLength(queue) = 0
  <2>1. DOMAIN queue = {}
    BY DEF Init
  <2>2. SumOver(queue, {}) = 0
    <3>1. IsFiniteSet({}) /\ {} \in SUBSET {}
      BY FS_EmptySet
    <3>2. Sums(queue, {}) = [s \in SUBSET {} |-> SumUp(queue, s, Sums(queue, {}))]
      BY <3>1, SumRecursion
    <3> QED BY <3>1, <3>2 DEF SumOver, SumUp
  <2> QED BY <2>1, <2>2, ByteLengthIsSum
<1>3. queueSizeBytes \in Nat
  BY LimitsAssumption DEF Init
<1> QED BY <1>1, <1>2, <1>3 DEF BytesInv, WithinByteLimit

(* Every step keeps the limit in bytes.                                    *)
LEMMA BytesNext == BytesInv /\ [Next]_vars => BytesInv'
<1> SUFFICES ASSUME BytesInv, [Next]_vars PROVE BytesInv'
  OBVIOUS
<1> USE DEF BytesInv
<1>1. /\ queueSizeBytes \in Nat
      /\ \A pkt \in PktBytes : pkt \in Nat /\ pkt # 0
  BY LimitsAssumption, PktBytesAssumption DEF TypeOK
<1>2. CASE UNCHANGED vars
  BY <1>2 DEF vars, TypeOK, WithinByteLimit
<1>3. ASSUME NEW pkt \in PktBytes, StartTransmitting(pkt) PROVE BytesInv'
  BY <1>3 DEF StartTransmitting, TypeOK, WithinByteLimit
<1>4. ASSUME NEW pkt \in PktBytes, Enqueue(pkt) PROVE BytesInv'
  <2>1. /\ queue' = Append(queue, pkt) /\ onLine' = onLine
        /\ queueSizePkts' = queueSizePkts /\ queueSizeBytes' = queueSizeBytes
        /\ ~ Full(pkt)
    BY <1>4 DEF Enqueue, Insert
  <2>2. TypeOK'
    BY <2>1 DEF TypeOK
  <2>3. ByteLength(queue) \in Int /\ ByteLength(queue') = ByteLength(queue) + pkt
    BY <2>1, AppendBytes DEF TypeOK
  <2>4. queueSizeBytes # 0 => ~ (ByteLength(queue) + pkt > queueSizeBytes)
    BY <2>1 DEF Full
  <2>5. queueSizeBytes # 0 => ByteLength(queue) + pkt <= queueSizeBytes
    BY <1>1, <2>3, <2>4
  <2>6. WithinByteLimit'
    <3>1. queueSizeBytes' # 0 => ByteLength(queue') <= queueSizeBytes'
      BY <2>1, <2>3, <2>5
    <3> QED BY <3>1 DEF WithinByteLimit
  <2> QED BY <2>2, <2>6
<1>5. ASSUME NEW pkt \in PktBytes, DropPacket(pkt) PROVE BytesInv'
  BY <1>5 DEF DropPacket, vars, TypeOK, WithinByteLimit
<1>6. CASE FinishTransmitting
  <2>1. queueSizePkts' = queueSizePkts /\ queueSizeBytes' = queueSizeBytes
    BY <1>6 DEF FinishTransmitting
  <2>2. CASE BaseEmpty(queue)
    BY <1>6, <2>1, <2>2 DEF FinishTransmitting, TypeOK, WithinByteLimit
  <2>3. CASE ~ BaseEmpty(queue)
    <3>1. /\ onLine' = Head(queue) /\ queue' = Tail(queue) /\ queue \in Seq(PktBytes)
          /\ queue # << >>
      <4>1. queue # << >>
        BY <2>3, UseVirtualAssumption DEF BaseEmpty, BaseLength
      <4> QED BY <1>6, <2>3, <4>1 DEF FinishTransmitting, Pop, TypeOK
    <3>2. Head(queue) \in PktBytes /\ Tail(queue) \in Seq(PktBytes)
      BY <3>1
    <3>3. TypeOK'
      BY <2>1, <3>1, <3>2 DEF TypeOK
    <3>4. ByteLength(queue) = ByteLength(queue') + Head(queue)
      BY <3>1, TailBytes
    <3>5. ByteLength(queue') \in Int /\ Head(queue) \in Nat
      BY <1>1, <3>1, <3>2, AppendBytes
    <3>6. queueSizeBytes' # 0 => ByteLength(queue') <= queueSizeBytes'
      BY <1>1, <2>1, <3>4, <3>5 DEF WithinByteLimit
    <3>7. WithinByteLimit'
      BY <3>6 DEF WithinByteLimit
    <3> QED BY <3>3, <3>7
  <2> QED BY <2>2, <2>3
<1>7. ASSUME NEW bytes \in ByteLimits, NEW pkts \in PktLimits,
             UpdateQueueSize(bytes, pkts)
      PROVE  BytesInv'
  <2>1. PICK kept \in 0 .. Len(queue) :
          /\ RespectsBytes(SubSeq(queue, 1, kept), bytes)
          /\ queue' = SubSeq(queue, 1, kept)
    BY <1>7 DEF UpdateQueueSize, PopBackTo
  <2>2. queueSizeBytes' = bytes /\ queueSizePkts' = pkts /\ onLine' = onLine
    BY <1>7 DEF UpdateQueueSize
  <2>3. SubSeq(queue, 1, kept) \in Seq(PktBytes)
    BY DEF TypeOK
  <2>4. TypeOK'
    BY <2>1, <2>2, <2>3 DEF TypeOK
  <2>5. bytes # 0 => ByteLength(queue') <= bytes
    BY <2>1 DEF RespectsBytes
  <2>6. WithinByteLimit'
    BY <2>2, <2>5 DEF WithinByteLimit
  <2> QED BY <2>4, <2>6
<1> QED BY <1>2, <1>3, <1>4, <1>5, <1>6, <1>7 DEF Next

(* L2Queue.h's limit in bytes holds at all times, whichever way packets    *)
(* are stored, also right after the control processor has lowered it.      *)
THEOREM ByteLimitRespected == Spec => []WithinByteLimit
<1>1. BytesInv => WithinByteLimit
  BY DEF BytesInv
<1> QED BY <1>1, BytesInit, BytesNext, PTL DEF Spec

=============================================================================
