----------------------- MODULE HybridResequencer_proof -----------------------
(***************************************************************************)
(* The resequencer with a delay window, for every delay of the network,    *)
(* every size of the queue and any number of packets: its timer is always  *)
(* set for the packet at the front, every packet is released at most once, *)
(* and in order from the moment the window has grown to the delays of the  *)
(* network.                                                                *)
(***************************************************************************)
EXTENDS HybridResequencer, FiniteSetTheorems, SequenceTheorems, TLAPS

Pkts == [seq : Nat, ts : Nat]

(* Packets that may still be released.                                     *)
Pending == network \cup queue

Learned == learnedAt # NoTimer /\ ~ renumbered

PacketsOK ==
  /\ now \in Nat /\ maxObservedDelay \in 0 .. MaxDelay
  /\ expectedSequenceNo \in Nat /\ sendingSequenceNo \in Nat
  /\ learnedAt \in Nat \cup {NoTimer}
  /\ queue \subseteq Pkts /\ IsFiniteSet(queue) /\ network \subseteq Pkts
  /\ released \in Seq(Pkts)

(* Timestamps tell packets apart; those that arrived were sent before, and *)
(* those under way are not overdue.                                        *)
StampsInv ==
  /\ network \cap queue = {}
  /\ \A p, r \in Pending : p.ts = r.ts => p = r
  /\ \A p \in network : p.ts <= now /\ now <= Deadline(p)
  /\ \A p \in queue : p.ts < now
  /\ \A i \in DOMAIN released : released[i].ts < now
  /\ \A i \in DOMAIN released : \A p \in Pending : released[i].ts # p.ts
  /\ \A i, j \in DOMAIN released : i # j => released[i].ts # released[j].ts

(* While the sender keeps its numbering, numbers grow with timestamps.     *)
NumbersInv ==
  ~ renumbered =>
    /\ expectedSequenceNo <= sendingSequenceNo
    /\ \A p \in Pending : p.seq < sendingSequenceNo
    /\ \A p, r \in Pending : p.ts < r.ts => p.seq < r.seq

(* Once the window covers all delays, no packet that was sent since, nor   *)
(* one that is sent now, has a smaller number than expected.               *)
AheadInv ==
  /\ learnedAt # NoTimer => maxObservedDelay = MaxDelay
  /\ ~ renumbered =>
       \A p \in Pending : p.ts = now \/ (learnedAt # NoTimer /\ p.ts >= learnedAt)
                            => p.seq >= expectedSequenceNo

(* Nor was it sent before one that has been released.                      *)
BehindInv ==
  Learned =>
    \A i \in DOMAIN released : \A p \in Pending :
      released[i].ts >= learnedAt /\ p.ts >= learnedAt => released[i].ts < p.ts

ResequencerInv ==
  /\ PacketsOK /\ TimerGuardsFront /\ StampsInv
  /\ NumbersInv /\ AheadInv /\ BehindInv /\ InOrderOnceLearned

-----------------------------------------------------------------------------
(* The queue.                                                              *)

(* A set of natural numbers that is not empty has a least one.             *)
LEMMA LeastNumber ==
  ASSUME NEW T \in SUBSET Nat, T # {}
  PROVE  \E m \in T : \A k \in T : m <= k
<1> DEFINE R == OpToRel(<, Nat)
<1>1. IsWellFoundedOn(R, Nat)
  BY NatLessThanWellFounded
<1>2. \A a, b \in Nat : <<a, b>> \in R <=> a < b
  BY DEF OpToRel
<1> HIDE DEF R
<1>3. PICK m \in T : \A k \in T : ~ (<<k, m>> \in R)
  BY <1>1, WFMin
<1>4. ASSUME NEW k \in T PROVE m <= k
  <2>1. k \in Nat /\ m \in Nat /\ ~ (k < m)
    BY <1>2, <1>3
  <2> QED BY <2>1
<1> QED BY <1>4

(* The front of the queue is the packet that was sent first.               *)
LEMMA FrontFacts ==
  ASSUME NEW q, q \subseteq Pkts, q # {}
  PROVE  /\ FrontPkt(q) \in q
         /\ \A r \in q : FrontPkt(q).ts <= r.ts
<1> DEFINE T == {p.ts : p \in q}
<1>1. T \subseteq Nat /\ T # {}
  BY DEF Pkts
<1>2. PICK m \in T : \A k \in T : m <= k
  BY <1>1, LeastNumber
<1>3. \E p \in q : \A r \in q : p.ts <= r.ts
  BY <1>2
<1> QED BY <1>3 DEF FrontPkt

(* The packets taken from the queue carry the numbers from the one that is *)
(* expected on without a gap, in the order of their timestamps.            *)
LEMMA InOrderFacts ==
  ASSUME NEW q, q \subseteq Pkts, IsFiniteSet(q),
         \A p, r \in q : p.ts = r.ts => p = r,
         NEW n \in Nat,
         NEW I, I = InOrderFrom(q, n), NEW m, m = Cardinality(I)
  PROVE  /\ I \subseteq q /\ m \in Nat
         /\ \A p \in I : p.seq \in n .. n + m - 1
         /\ \A p, r \in I : p.ts < r.ts <=> p.seq < r.seq
         /\ \A k \in n .. n + m - 1 : \E p \in I : p.seq = k
<1> DEFINE before(p) == {s \in q : s.ts < p.ts}
           rank(p) == Cardinality(before(p))
<1>1. I \subseteq q /\ IsFiniteSet(I) /\ m \in Nat
  <2>1. I \in SUBSET q
    BY DEF InOrderFrom
  <2> QED BY <2>1, FS_Subset, FS_CardinalityType
<1>2. ASSUME NEW p \in q PROVE p.ts \in Nat /\ p.seq \in Nat
  BY DEF Pkts
<1>3. ASSUME NEW p \in I, NEW r \in q, r.ts <= p.ts PROVE r.seq = n + rank(r)
  BY <1>3 DEF InOrderFrom
<1>4. ASSUME NEW p \in I PROVE before(p) \subseteq I \ {p}
  <2> SUFFICES ASSUME NEW s \in q, s.ts < p.ts PROVE s \in I /\ s # p
    OBVIOUS
  <2>1. s.ts \in Nat /\ p.ts \in Nat /\ s # p
    BY <1>1, <1>2
  <2>2. ASSUME NEW r \in q, r.ts <= s.ts PROVE r.seq = n + rank(r)
    <3>1. r.ts <= p.ts
      BY <1>2, <2>1, <2>2
    <3> QED BY <1>3, <3>1
  <2> QED BY <2>1, <2>2 DEF InOrderFrom
<1>5. ASSUME NEW p \in q PROVE IsFiniteSet(before(p)) /\ rank(p) \in Nat
  <2>1. before(p) \in SUBSET q
    OBVIOUS
  <2> QED BY <2>1, FS_Subset, FS_CardinalityType
<1>6. ASSUME NEW p \in I PROVE p.seq = n + rank(p) /\ rank(p) \in 0 .. m - 1
  <2>1. p.ts <= p.ts /\ p \in q
    BY <1>1, <1>2
  <2>2. p.seq = n + rank(p)
    BY <1>3, <2>1
  <2>3. IsFiniteSet(I \ {p}) /\ Cardinality(I \ {p}) = m - 1
    BY <1>1, FS_RemoveElement
  <2>4. before(p) \in SUBSET (I \ {p})
    BY <1>4
  <2> HIDE DEF before
  <2>5. rank(p) <= m - 1
    BY <2>3, <2>4, FS_Subset
  <2> QED BY <1>1, <1>5, <2>1, <2>2, <2>5
<1>7. ASSUME NEW p \in I, NEW r \in I, p.ts < r.ts PROVE rank(p) < rank(r)
  <2>1. p \in q /\ r \in q
    BY <1>1
  <2>2. before(p) \in SUBSET (before(r) \ {p}) /\ p \in before(r)
    BY <1>2, <1>7, <2>1
  <2>3. IsFiniteSet(before(r)) /\ rank(r) \in Nat /\ rank(p) \in Nat
    BY <1>5, <2>1
  <2> HIDE DEF before
  <2>4. IsFiniteSet(before(r) \ {p}) /\ Cardinality(before(r) \ {p}) = rank(r) - 1
    BY <2>2, <2>3, FS_RemoveElement
  <2>5. rank(p) <= rank(r) - 1
    BY <2>2, <2>4, FS_Subset
  <2> QED BY <2>3, <2>5
<1>8. ASSUME NEW p \in I, NEW r \in I, p # r PROVE rank(p) # rank(r)
  <2>1. p.ts \in Nat /\ r.ts \in Nat /\ p.ts # r.ts
    BY <1>1, <1>2, <1>8
  <2>2. p.ts < r.ts \/ r.ts < p.ts
    BY <2>1
  <2>3. rank(p) \in Nat /\ rank(r) \in Nat
    BY <1>1, <1>5
  <2>4. rank(p) < rank(r) \/ rank(r) < rank(p)
    BY <1>7, <2>2
  <2> QED BY <2>3, <2>4
<1> HIDE DEF rank
<1>9. ASSUME NEW k \in 0 .. m - 1 PROVE \E p \in I : rank(p) = k
  <2> SUFFICES ASSUME \A p \in I : rank(p) # k PROVE FALSE
    OBVIOUS
  <2> DEFINE T == (0 .. m - 1) \ {k}
             f == [p \in I |-> rank(p)]
  <2>1. /\ IsFiniteSet(0 .. m - 1)
        /\ Cardinality(0 .. m - 1) = m
    <3>1. 0 \in Int /\ m - 1 \in Int
      BY <1>1
    <3> QED BY <1>1, <3>1, FS_Interval
  <2>2. IsFiniteSet(T) /\ Cardinality(T) = m - 1
    <3> DEFINE S == 0 .. m - 1
    <3>1. IsFiniteSet(S) /\ Cardinality(S) = m /\ k \in S /\ T = S \ {k}
      BY <2>1
    <3> HIDE DEF S, T, f, rank
    <3> QED BY <3>1, FS_RemoveElement
  <2>3. f \in [I -> T]
    BY <1>6
  <2> HIDE DEF T, f
  <2>4. Cardinality(T) < Cardinality(I)
    BY <1>1, <2>2
  <2>5. \E x, y \in I : x # y /\ f[x] = f[y]
    BY <1>1, <2>2, <2>3, <2>4, FS_PigeonHole
  <2> QED BY <1>8, <2>5 DEF f
<1>10. \A p \in I : p.seq \in n .. n + m - 1
  BY <1>1, <1>6
<1>11. \A p, r \in I : p.ts < r.ts <=> p.seq < r.seq
  <2> SUFFICES ASSUME NEW p \in I, NEW r \in I PROVE p.ts < r.ts <=> p.seq < r.seq
    OBVIOUS
  <2>1. /\ p.seq = n + rank(p) /\ r.seq = n + rank(r)
        /\ rank(p) \in Nat /\ rank(r) \in Nat
        /\ p.ts \in Nat /\ r.ts \in Nat
    BY <1>1, <1>2, <1>6
  <2>2. p.ts < r.ts => rank(p) < rank(r)
    BY <1>7
  <2>3. r.ts < p.ts => rank(r) < rank(p)
    BY <1>7
  <2>4. p.ts = r.ts => p = r
    BY <1>1
  <2> QED BY <2>1, <2>2, <2>3, <2>4
<1>12. ASSUME NEW k \in n .. n + m - 1 PROVE \E p \in I : p.seq = k
  <2>1. k - n \in 0 .. m - 1
    BY <1>1
  <2>2. PICK p \in I : rank(p) = k - n
    BY <1>9, <2>1
  <2> QED BY <1>6, <2>2
<1> QED BY <1>1, <1>10, <1>11, <1>12

(* The packets released together: those found in order, once each, by      *)
(* number.                                                                 *)
LEMMA InOrderSeqFacts ==
  ASSUME NEW q, q \subseteq Pkts, IsFiniteSet(q),
         \A p, r \in q : p.ts = r.ts => p = r,
         NEW n \in Nat,
         NEW I, I = InOrderFrom(q, n), NEW s, s = InOrderSeq(q, n)
  PROVE  /\ s \in Seq(I)
         /\ \A i, j \in DOMAIN s : i < j => s[i].seq < s[j].seq /\ s[i].ts < s[j].ts
         /\ \A p \in I : \E i \in DOMAIN s : s[i].seq = p.seq
         /\ \A p, r \in I : p.seq = r.seq => p = r
<1> DEFINE m == Cardinality(I)
<1>1. /\ I \subseteq q /\ m \in Nat
      /\ \A p \in I : p.seq \in n .. n + m - 1
      /\ \A p, r \in I : p.ts < r.ts <=> p.seq < r.seq
      /\ \A k \in n .. n + m - 1 : \E p \in I : p.seq = k
  BY InOrderFacts
<1>2. s = [k \in 1 .. m |-> CHOOSE p \in I : p.seq = n + k - 1]
  BY DEF InOrderSeq
<1> HIDE DEF m
<1>3. ASSUME NEW k \in 1 .. m PROVE s[k] \in I /\ s[k].seq = n + k - 1
  <2>1. n + k - 1 \in n .. n + m - 1
    BY <1>1
  <2>2. \E p \in I : p.seq = n + k - 1
    BY <1>1, <2>1
  <2> QED BY <1>2, <2>2
<1>4. s \in Seq(I) /\ DOMAIN s = 1 .. m
  <2>1. s \in [1 .. m -> I]
    BY <1>2, <1>3
  <2> QED BY <1>1, <2>1, SeqDef
<1>5. ASSUME NEW i \in DOMAIN s, NEW j \in DOMAIN s, i < j
      PROVE  s[i].seq < s[j].seq /\ s[i].ts < s[j].ts
  <2>1. s[i].seq = n + i - 1 /\ s[j].seq = n + j - 1 /\ s[i] \in I /\ s[j] \in I
    BY <1>3, <1>4
  <2>2. s[i].seq < s[j].seq
    BY <1>4, <1>5, <2>1
  <2> QED BY <1>1, <2>1, <2>2
<1>6. ASSUME NEW p \in I PROVE \E i \in DOMAIN s : s[i].seq = p.seq
  <2>1. p.seq - n + 1 \in 1 .. m
    BY <1>1
  <2>2. s[p.seq - n + 1].seq = n + (p.seq - n + 1) - 1
    BY <1>3, <2>1
  <2>3. p.seq \in Int
    BY <1>1
  <2> QED BY <1>4, <2>1, <2>2, <2>3
<1>7. ASSUME NEW p \in I, NEW r \in I, p.seq = r.seq PROVE p = r
  <2>1. p \in q /\ r \in q /\ p.ts \in Nat /\ r.ts \in Nat
    BY <1>1 DEF Pkts
  <2>2. ~ (p.ts < r.ts) /\ ~ (r.ts < p.ts)
    BY <1>1, <1>7
  <2> QED BY <2>1, <2>2
<1> QED BY <1>4, <1>5, <1>6, <1>7

(* What is in the queue has not been under way for longer than the window. *)
LEMMA WaitsWithinWindow ==
  ASSUME PacketsOK, TimerGuardsFront, NEW p \in queue
  PROVE  p.ts + maxObservedDelay >= now
<1>1. /\ FrontPkt(queue) \in queue /\ FrontPkt(queue).ts <= p.ts
      /\ FrontPkt(queue).ts + maxObservedDelay >= now
  BY FrontFacts DEF PacketsOK, TimerGuardsFront
<1>2. FrontPkt(queue).ts \in Nat /\ p.ts \in Nat
  BY <1>1 DEF PacketsOK, Pkts
<1> QED BY <1>1, <1>2, TimesAssumption DEF PacketsOK

(* The timer is never set in the past, so it is set for the front.         *)
LEMMA UpdateTimeoutFacts ==
  ASSUME now \in Nat, NEW q, q \subseteq Pkts, NEW window \in Nat,
         \A p \in q : p.ts + window >= now,
         UpdateTimeout(q, window)
  PROVE  IF q = {} THEN timeOut' = NoTimer
         ELSE timeOut' = FrontPkt(q).ts + window /\ timeOut' >= now
<1>1. CASE q = {}
  BY <1>1 DEF UpdateTimeout
<1>2. CASE q # {}
  <2> DEFINE t == FrontPkt(q).ts + window
  <2>1. FrontPkt(q) \in q
    BY <1>2, FrontFacts
  <2>2. t >= now /\ t \in Nat
    BY <2>1 DEF Pkts
  <2>3. timeOut' = IF t < now THEN now ELSE t
    BY <1>2 DEF UpdateTimeout
  <2> HIDE DEF t
  <2>4. timeOut' = t /\ timeOut' >= now
    BY <2>2, <2>3
  <2> QED BY <1>2, <2>4 DEF t
<1> QED BY <1>1, <1>2

-----------------------------------------------------------------------------
(* A release.                                                              *)

(* Packets that are pending are released, each once, and are not pending   *)
(* any more.                                                               *)
Released(s) ==
  /\ s \in Seq(Pending)
  /\ \A i, j \in DOMAIN s : i # j => s[i] # s[j]
  /\ released' = released \o s
  /\ now' = now
  /\ network' \subseteq network
  /\ network' \cap queue' = {}
  /\ \A p \in Pending' : p \in Pending /\ \A i \in DOMAIN s : s[i] # p
  /\ \A p \in queue' : p.ts < now
  /\ \A i \in DOMAIN s : s[i].ts < now

(* A place in two sequences joined lies in the one or in the other.        *)
LEMMA ConcatFacts ==
  ASSUME NEW S, NEW a \in Seq(S), NEW b \in Seq(S), NEW i \in DOMAIN (a \o b)
  PROVE  \/ i \in DOMAIN a /\ (a \o b)[i] = a[i]
         \/ /\ i \notin DOMAIN a
            /\ i - Len(a) \in DOMAIN b /\ (a \o b)[i] = b[i - Len(a)]
<1>1. /\ Len(a \o b) = Len(a) + Len(b)
      /\ Len(a) \in Nat /\ Len(b) \in Nat
      /\ DOMAIN a = 1 .. Len(a) /\ DOMAIN b = 1 .. Len(b)
      /\ DOMAIN (a \o b) = 1 .. Len(a) + Len(b)
  OBVIOUS
<1>2. i \in 1 .. Len(a) + Len(b)
  BY <1>1
<1> QED BY <1>1, <1>2

(* A release keeps what is known of timestamps.                            *)
LEMMA ReleaseKeepsStamps ==
  ASSUME PacketsOK, StampsInv, NEW s, Released(s)
  PROVE  released' \in Seq(Pkts) /\ StampsInv'
<1>1. Pending \subseteq Pkts
  BY DEF Pending, PacketsOK
<1>2. s \in Seq(Pkts) /\ released \in Seq(Pkts) /\ released' = released \o s
  BY <1>1 DEF Released, PacketsOK
<1>3. released' \in Seq(Pkts)
  BY <1>2
<1>4. ASSUME NEW i \in DOMAIN released'
      PROVE  \/ i \in DOMAIN released /\ released'[i] = released[i]
             \/ /\ i \notin DOMAIN released
                /\ i - Len(released) \in DOMAIN s /\ released'[i] = s[i - Len(released)]
  BY <1>2, ConcatFacts
<1>5. ASSUME NEW i \in DOMAIN s PROVE s[i] \in Pending
  BY DEF Released
<1>6. ASSUME NEW i \in DOMAIN released' PROVE released'[i].ts < now'
  BY <1>4, <1>5 DEF Released, StampsInv
<1>7. ASSUME NEW i \in DOMAIN released', NEW p \in Pending'
      PROVE  released'[i].ts # p.ts
  BY <1>4, <1>5 DEF Released, StampsInv
<1>8. ASSUME NEW i \in DOMAIN released', NEW j \in DOMAIN released', i # j
      PROVE  released'[i].ts # released'[j].ts
  <2>1. /\ Len(released) \in Nat /\ DOMAIN released' \subseteq Int
    BY <1>2, <1>3
  <2>2. CASE i \in DOMAIN released /\ j \in DOMAIN released
    BY <1>4, <1>8, <2>2 DEF StampsInv
  <2>3. CASE i \in DOMAIN released /\ j \notin DOMAIN released
    BY <1>4, <1>5, <2>3 DEF StampsInv
  <2>4. CASE i \notin DOMAIN released /\ j \in DOMAIN released
    BY <1>4, <1>5, <2>4 DEF StampsInv
  <2>5. CASE i \notin DOMAIN released /\ j \notin DOMAIN released
    <3> DEFINE k == i - Len(released)
               l == j - Len(released)
    <3>1. k \in DOMAIN s /\ l \in DOMAIN s /\ released'[i] = s[k] /\ released'[j] = s[l]
      BY <1>4, <2>5
    <3>2. k # l
      BY <1>8, <2>1
    <3> HIDE DEF k, l
    <3>3. s[k] # s[l]
      BY <3>1, <3>2 DEF Released
    <3> QED BY <1>5, <3>1, <3>3 DEF StampsInv
  <2> QED BY <2>2, <2>3, <2>4, <2>5
<1>9. ASSUME NEW p \in network' PROVE p.ts <= now' /\ now' <= Deadline(p)
  BY DEF Released, StampsInv
<1>10. \A p, r \in Pending' : p.ts = r.ts => p = r
  BY DEF Released, StampsInv
<1>11. network' \cap queue' = {} /\ \A p \in queue' : p.ts < now'
  BY DEF Released
<1>12. (\A p \in network : p.ts <= now /\ now <= Deadline(p))'
  BY <1>9 DEF Deadline
<1> QED BY <1>3, <1>6, <1>7, <1>8, <1>10, <1>11, <1>12 DEF StampsInv

(* The order of what was sent since the window covers all delays is kept   *)
(* if the packets released are in order and before those that are left.    *)
LEMMA ReleaseKeepsOrder ==
  ASSUME PacketsOK, StampsInv, BehindInv, InOrderOnceLearned, NEW s, Released(s),
         renumbered' = renumbered,
         learnedAt' \in {learnedAt, now},
         learnedAt' = learnedAt /\ Learned =>
           /\ \A i, j \in DOMAIN s : i < j => s[i].ts < s[j].ts
           /\ \A i \in DOMAIN s : \A p \in Pending' :
                s[i].ts >= learnedAt /\ p.ts >= learnedAt => s[i].ts < p.ts
  PROVE  BehindInv' /\ InOrderOnceLearned'
<1>1. /\ Pending \subseteq Pkts
      /\ s \in Seq(Pkts) /\ released \in Seq(Pkts) /\ released' = released \o s
      /\ now \in Nat
  BY DEF Pending, PacketsOK, Released
<1>2. released' \in Seq(Pkts) /\ \A i \in DOMAIN released' : released'[i].ts < now
  BY ReleaseKeepsStamps DEF StampsInv, Released
<1>3. CASE learnedAt' = now /\ learnedAt' # learnedAt
  <2>1. ASSUME NEW i \in DOMAIN released' PROVE released'[i].ts \in Nat
    <3>1. released'[i] \in Pkts
      BY <1>2
    <3> QED BY <3>1 DEF Pkts
  <2>2. \A i \in DOMAIN released' : ~ (released'[i].ts >= learnedAt')
    BY <1>1, <1>2, <1>3, <2>1
  <2> QED BY <2>2 DEF BehindInv, InOrderOnceLearned
<1>4. CASE learnedAt' = learnedAt /\ ~ Learned
  BY <1>4 DEF BehindInv, InOrderOnceLearned, Learned
<1>5. CASE learnedAt' = learnedAt /\ Learned
  <2>1. ASSUME NEW i \in DOMAIN released'
        PROVE  \/ i \in DOMAIN released /\ released'[i] = released[i]
               \/ /\ i \notin DOMAIN released
                  /\ i - Len(released) \in DOMAIN s /\ released'[i] = s[i - Len(released)]
    BY <1>1, ConcatFacts
  <2>2. ASSUME NEW i \in DOMAIN s PROVE s[i] \in Pending
    BY DEF Released
  <2>3. ASSUME NEW i \in DOMAIN released', NEW p \in Pending',
               released'[i].ts >= learnedAt, p.ts >= learnedAt
        PROVE  released'[i].ts < p.ts
    <3>1. p \in Pending
      BY DEF Released
    <3> QED BY <1>5, <2>1, <2>3, <3>1 DEF BehindInv
  <2>4. ASSUME NEW i \in DOMAIN released', NEW j \in DOMAIN released', i < j,
               released'[i].ts >= learnedAt, released'[j].ts >= learnedAt
        PROVE  released'[i].ts < released'[j].ts
    <3>1. /\ Len(released) \in Nat /\ DOMAIN released = 1 .. Len(released)
          /\ i \in Nat \ {0} /\ j \in Nat \ {0}
      BY <1>1, <1>2
    <3>2. CASE i \in DOMAIN released /\ j \in DOMAIN released
      BY <1>5, <2>1, <2>4, <3>2 DEF InOrderOnceLearned, Learned
    <3>3. CASE i \in DOMAIN released /\ j \notin DOMAIN released
      BY <1>5, <2>1, <2>2, <2>4, <3>3 DEF BehindInv
    <3>4. CASE i \notin DOMAIN released
      <4> DEFINE k == i - Len(released)
                 l == j - Len(released)
      <4>1. j \notin DOMAIN released
        BY <2>4, <3>1, <3>4
      <4>2. k \in DOMAIN s /\ l \in DOMAIN s /\ released'[i] = s[k] /\ released'[j] = s[l]
        BY <2>1, <3>4, <4>1
      <4>3. k < l
        BY <2>4, <3>1
      <4> HIDE DEF k, l
      <4> QED BY <1>5, <4>2, <4>3
    <3> QED BY <3>2, <3>3, <3>4
  <2>5. BehindInv'
    BY <1>5, <2>3 DEF BehindInv
  <2>6. InOrderOnceLearned'
    BY <1>5, <2>4 DEF InOrderOnceLearned
  <2> QED BY <2>5, <2>6
<1> QED BY <1>3, <1>4, <1>5

-----------------------------------------------------------------------------
(* Numbers.                                                                *)

(* Until a sender's buffer ages out, numbers tell packets apart and        *)
(* follow their order of sending.                                          *)
LEMMA NumbersTellPackets ==
  ASSUME PacketsOK, StampsInv, NumbersInv, ~ renumbered,
         NEW p \in Pending, NEW r \in Pending
  PROVE  /\ p # r => p.seq # r.seq
         /\ p.seq < r.seq => p.ts < r.ts
<1>1. p.ts \in Nat /\ r.ts \in Nat /\ p.seq \in Nat /\ r.seq \in Nat
  BY DEF PacketsOK, Pending, Pkts
<1>2. p.ts = r.ts => p = r
  BY DEF StampsInv
<1>3. (p.ts < r.ts => p.seq < r.seq) /\ (r.ts < p.ts => r.seq < p.seq)
  BY DEF NumbersInv
<1> QED BY <1>1, <1>2, <1>3

(* What releaseOrderedPackets() takes from the queue.                      *)
LEMMA QueueFacts ==
  ASSUME PacketsOK, StampsInv, NEW n \in Nat,
         NEW I, I = InOrderFrom(queue, n), NEW s, s = InOrderSeq(queue, n)
  PROVE  /\ I \subseteq queue
         /\ s \in Seq(I)
         /\ \A i, j \in DOMAIN s : i < j => s[i].seq < s[j].seq /\ s[i].ts < s[j].ts
         /\ ExpectedAfter(queue, n) \in Nat /\ ExpectedAfter(queue, n) >= n
         /\ \A p \in I : p.seq \in n .. ExpectedAfter(queue, n) - 1
         /\ \A k \in n .. ExpectedAfter(queue, n) - 1 : \E p \in I : p.seq = k
<1>1. /\ queue \subseteq Pkts /\ IsFiniteSet(queue)
      /\ \A p, r \in queue : p.ts = r.ts => p = r
  BY DEF PacketsOK, StampsInv, Pending
<1>2. /\ I \subseteq queue /\ Cardinality(I) \in Nat
      /\ \A p \in I : p.seq \in n .. n + Cardinality(I) - 1
      /\ \A k \in n .. n + Cardinality(I) - 1 : \E p \in I : p.seq = k
  BY <1>1, InOrderFacts
<1>3. /\ s \in Seq(I)
      /\ \A i, j \in DOMAIN s : i < j => s[i].seq < s[j].seq /\ s[i].ts < s[j].ts
  BY <1>1, InOrderSeqFacts
<1>4. ExpectedAfter(queue, n) = n + Cardinality(I)
  BY DEF ExpectedAfter
<1> QED BY <1>2, <1>3, <1>4

(* A packet that stays is not among the numbers that are skipped.          *)
LEMMA StaysAhead ==
  ASSUME PacketsOK, StampsInv, NumbersInv, ~ renumbered, NEW n \in Nat,
         NEW p \in Pending, p \notin InOrderFrom(queue, n), p.seq >= n
  PROVE  p.seq >= ExpectedAfter(queue, n)
<1> DEFINE I == InOrderFrom(queue, n)
<1>1. /\ I \subseteq queue /\ ExpectedAfter(queue, n) \in Nat
      /\ \A k \in n .. ExpectedAfter(queue, n) - 1 : \E r \in I : r.seq = k
  BY QueueFacts
<1>2. p.seq \in Nat
  BY DEF PacketsOK, Pending, Pkts
<1>3. ASSUME p.seq \in n .. ExpectedAfter(queue, n) - 1 PROVE FALSE
  <2>1. PICK r \in I : r.seq = p.seq
    BY <1>1, <1>3
  <2>2. r \in Pending /\ r # p
    BY <1>1, <2>1 DEF Pending
  <2> QED BY <2>1, <2>2, NumbersTellPackets
<1> QED BY <1>1, <1>2, <1>3

(* Nor does the number expected run ahead of the sender.                   *)
LEMMA ExpectedBounded ==
  ASSUME PacketsOK, StampsInv, NumbersInv, ~ renumbered,
         NEW n \in Nat, n <= sendingSequenceNo
  PROVE  ExpectedAfter(queue, n) <= sendingSequenceNo
<1> DEFINE I == InOrderFrom(queue, n)
           e == ExpectedAfter(queue, n)
<1>1. /\ I \subseteq queue /\ e \in Nat /\ e >= n
      /\ \A k \in n .. e - 1 : \E r \in I : r.seq = k
  BY QueueFacts
<1> HIDE DEF I, e
<1>2. sendingSequenceNo \in Nat
  BY DEF PacketsOK
<1>3. CASE e = n
  BY <1>3 DEF e
<1>4. CASE e > n
  <2>1. e - 1 \in n .. e - 1
    BY <1>1, <1>4
  <2>2. PICK r \in I : r.seq = e - 1
    BY <1>1, <2>1
  <2>3. r.seq < sendingSequenceNo
    BY <1>1 DEF NumbersInv, Pending
  <2> QED BY <1>1, <1>2, <2>2, <2>3 DEF e
<1> QED BY <1>1, <1>3, <1>4

-----------------------------------------------------------------------------
(* The handlers.                                                           *)

(* What every arrival does: the window covers the packet's own delay.      *)
LEMMA ArrivalFacts ==
  ASSUME ResequencerInv, NEW pkt \in network, ReceivePacket(pkt)
  PROVE  /\ pkt \in Pkts /\ pkt \in Pending /\ pkt \notin queue /\ pkt.ts < now
         /\ now' = now /\ sendingSequenceNo' = sendingSequenceNo /\ renumbered' = renumbered
         /\ network' = network \ {pkt}
         /\ maxObservedDelay' \in 0 .. MaxDelay
         /\ maxObservedDelay' >= maxObservedDelay
         /\ pkt.ts + maxObservedDelay' >= now
         /\ learnedAt' \in {learnedAt, now}
         /\ learnedAt' # NoTimer => maxObservedDelay' = MaxDelay
         /\ PacketIsLate(pkt) => pkt.ts + maxObservedDelay' = now
<1>1. /\ pkt \in Pkts /\ pkt \in Pending /\ pkt \notin queue /\ pkt.ts < now
      /\ now' = now /\ sendingSequenceNo' = sendingSequenceNo /\ renumbered' = renumbered
      /\ network' = network \ {pkt}
  BY DEF ResequencerInv, PacketsOK, StampsInv, Pending, ReceivePacket
<1>2. /\ pkt.ts \in Nat /\ now \in Nat /\ maxObservedDelay \in 0 .. MaxDelay
      /\ MaxDelay \in Nat /\ now <= pkt.ts + MaxDelay
  BY <1>1, TimesAssumption DEF ResequencerInv, PacketsOK, StampsInv, Pkts, Deadline
<1>3. maxObservedDelay' = UpdatedWindow(pkt)
  BY DEF ReceivePacket, HandlePacket
<1>4. /\ maxObservedDelay' \in 0 .. MaxDelay
      /\ maxObservedDelay' >= maxObservedDelay
      /\ pkt.ts + maxObservedDelay' >= now
      /\ PacketIsLate(pkt) => pkt.ts + maxObservedDelay' = now
  BY <1>1, <1>2, <1>3 DEF UpdatedWindow, PacketIsLate, Delay
<1>5. learnedAt' = IF learnedAt = NoTimer /\ maxObservedDelay' = MaxDelay
                   THEN now ELSE learnedAt
  BY DEF ReceivePacket, Learn
<1>6. learnedAt # NoTimer => maxObservedDelay = MaxDelay
  BY DEF ResequencerInv, AheadInv
<1>7. learnedAt' \in {learnedAt, now} /\ (learnedAt' # NoTimer => maxObservedDelay' = MaxDelay)
  BY <1>2, <1>4, <1>5, <1>6
<1> QED BY <1>1, <1>4, <1>7

(* An arrival keeps the invariant if what it releases and the number it    *)
(* expects then fit what is left.                                          *)
LEMMA ArrivalStep ==
  ASSUME ResequencerInv, NEW pkt \in network, ReceivePacket(pkt),
         NEW s, Released(s),
         queue' \subseteq queue \cup {pkt},
         expectedSequenceNo' \in Nat,
         ~ renumbered =>
           /\ expectedSequenceNo' <= sendingSequenceNo
           /\ \A p \in Pending' :
                p.ts = now \/ (learnedAt' # NoTimer /\ p.ts >= learnedAt')
                  => p.seq >= expectedSequenceNo',
         learnedAt' = learnedAt /\ Learned =>
           /\ \A i, j \in DOMAIN s : i < j => s[i].ts < s[j].ts
           /\ \A i \in DOMAIN s : \A p \in Pending' :
                s[i].ts >= learnedAt /\ p.ts >= learnedAt => s[i].ts < p.ts
  PROVE  ResequencerInv'
<1>1. /\ pkt \in Pkts /\ pkt \in Pending
      /\ now' = now /\ sendingSequenceNo' = sendingSequenceNo /\ renumbered' = renumbered
      /\ network' = network \ {pkt}
      /\ maxObservedDelay' \in 0 .. MaxDelay /\ maxObservedDelay' >= maxObservedDelay
      /\ pkt.ts + maxObservedDelay' >= now
      /\ learnedAt' \in {learnedAt, now}
      /\ learnedAt' # NoTimer => maxObservedDelay' = MaxDelay
  BY ArrivalFacts
<1>2. released' \in Seq(Pkts) /\ StampsInv'
  BY ReleaseKeepsStamps DEF ResequencerInv
<1>3. BehindInv' /\ InOrderOnceLearned'
  BY <1>1, ReleaseKeepsOrder DEF ResequencerInv
<1>4. PacketsOK'
  <2>1. IsFiniteSet(queue')
    <3>1. IsFiniteSet(queue \cup {pkt}) /\ queue' \in SUBSET (queue \cup {pkt})
      BY FS_AddElement DEF ResequencerInv, PacketsOK
    <3> QED BY <3>1, FS_Subset
  <2> QED BY <1>1, <1>2, <2>1 DEF ResequencerInv, PacketsOK
<1>5. TimerGuardsFront'
  <2>1. ASSUME NEW p \in queue' PROVE p.ts + maxObservedDelay' >= now
    <3>1. CASE p \in queue
      <4>1. /\ p.ts + maxObservedDelay >= now /\ p.ts \in Nat /\ now \in Nat
            /\ maxObservedDelay \in Int /\ maxObservedDelay' \in Int
        BY <1>1, <3>1, WaitsWithinWindow, TimesAssumption DEF ResequencerInv, PacketsOK, Pkts
      <4> QED BY <1>1, <4>1
    <3>2. CASE p = pkt
      BY <1>1, <3>2
    <3> QED BY <3>1, <3>2
  <2>2. UpdateTimeout(queue', maxObservedDelay') /\ now \in Nat
    BY DEF ReceivePacket, HandlePacket, ResequencerInv, PacketsOK
  <2>3. queue' \subseteq Pkts /\ maxObservedDelay' \in Nat
    BY <1>1, <1>4, TimesAssumption DEF PacketsOK
  <2>4. IF queue' = {} THEN timeOut' = NoTimer
        ELSE timeOut' = FrontPkt(queue').ts + maxObservedDelay' /\ timeOut' >= now
    BY <2>1, <2>2, <2>3, UpdateTimeoutFacts
  <2>5. (FrontPkt(queue))' = FrontPkt(queue')
    BY DEF FrontPkt
  <2> QED BY <1>1, <2>4, <2>5 DEF TimerGuardsFront
<1>6. NumbersInv'
  <2>1. \A p \in Pending' : p \in Pending
    BY DEF Released
  <2> QED BY <1>1, <2>1 DEF ResequencerInv, NumbersInv
<1>7. AheadInv'
  BY <1>1 DEF AheadInv
<1> QED BY <1>2, <1>3, <1>4, <1>5, <1>6, <1>7 DEF ResequencerInv

(* The packet that was expected, and those behind it without a gap.        *)
LEMMA InOrderStep ==
  ASSUME ResequencerInv, NEW pkt \in network, ReceivePacket(pkt), HandlePacketInOrder(pkt)
  PROVE  ResequencerInv'
<1> DEFINE n == pkt.seq + 1
           I == InOrderFrom(queue, n)
           t == InOrderSeq(queue, n)
           s == <<pkt>> \o t
           e == ExpectedAfter(queue, n)
<1>1. /\ pkt \in Pkts /\ pkt \in Pending /\ pkt \notin queue /\ pkt.ts < now
      /\ now' = now /\ network' = network \ {pkt}
      /\ learnedAt' \in {learnedAt, now}
  BY ArrivalFacts
<1>2. /\ PacketsOK /\ StampsInv /\ NumbersInv /\ AheadInv
      /\ now \in Nat /\ n \in Nat /\ pkt.seq \in Nat /\ pkt.ts \in Nat
  BY <1>1 DEF ResequencerInv, PacketsOK, Pkts
<1>3. /\ pkt.seq = expectedSequenceNo /\ queue' = queue \ I
      /\ expectedSequenceNo' = e /\ released' = released \o s
  BY DEF HandlePacketInOrder, Release
<1>4. /\ I \subseteq queue /\ t \in Seq(I)
      /\ \A i, j \in DOMAIN t : i < j => t[i].seq < t[j].seq /\ t[i].ts < t[j].ts
      /\ e \in Nat /\ e >= n
      /\ \A p \in I : p.seq \in n .. e - 1
  <2> HIDE DEF n
  <2> QED BY <1>2, QueueFacts
<1>5. I \subseteq Pending /\ queue \subseteq Pending /\ Pending \subseteq Pkts
  BY <1>2, <1>4 DEF Pending, PacketsOK
<1>6. ~ renumbered => e <= sendingSequenceNo
  <2> SUFFICES ASSUME ~ renumbered PROVE e <= sendingSequenceNo
    OBVIOUS
  <2>1. pkt.seq < sendingSequenceNo /\ sendingSequenceNo \in Nat
    BY <1>1, <1>2 DEF NumbersInv, PacketsOK
  <2>2. n <= sendingSequenceNo
    BY <1>2, <2>1
  <2> HIDE DEF n
  <2> QED BY <1>2, <2>2, ExpectedBounded
<1>7. ASSUME ~ renumbered, NEW p \in Pending, p # pkt, p \notin I, p.seq >= pkt.seq
      PROVE  p.seq >= e
  <2>1. p.seq # pkt.seq /\ p.seq \in Nat
    BY <1>1, <1>2, <1>5, <1>7, NumbersTellPackets DEF Pkts
  <2>2. p.seq >= n
    BY <1>2, <1>7, <2>1
  <2> HIDE DEF n
  <2> QED BY <1>2, <1>7, <2>2, StaysAhead
<1> HIDE DEF I, t, e
<1>8. ASSUME NEW p \in Pending' PROVE p \in Pending /\ p # pkt /\ p \notin I
  <2>1. network \cap queue = {}
    BY <1>2 DEF StampsInv
  <2>2. p \in network \ {pkt} \/ p \in queue \ I
    BY <1>1, <1>3 DEF Pending
  <2> QED BY <1>1, <1>4, <2>1, <2>2 DEF Pending
<1>9. /\ s \in Seq(Pending)
      /\ \A i \in DOMAIN s : s[i] = pkt \/ s[i] \in I
      /\ \A i, j \in DOMAIN s : i < j =>
           /\ s[i].seq < s[j].seq
           /\ s[i] = pkt \/ s[i].ts < s[j].ts
  <2>1. t \in Seq(Pending) /\ <<pkt>> \in Seq(Pending)
    BY <1>1, <1>4, <1>5
  <2>2. s \in Seq(Pending) /\ DOMAIN s \subseteq Nat
    BY <2>1
  <2>3. ASSUME NEW i \in DOMAIN s
        PROVE  \/ i = 1 /\ s[i] = pkt
               \/ i - 1 \in DOMAIN t /\ s[i] = t[i - 1] /\ i # 1
    <3>1. /\ DOMAIN <<pkt>> = {1} /\ Len(<<pkt>>) = 1 /\ <<pkt>>[1] = pkt
      OBVIOUS
    <3>2. \/ i \in DOMAIN <<pkt>> /\ s[i] = <<pkt>>[i]
          \/ i \notin DOMAIN <<pkt>> /\ i - Len(<<pkt>>) \in DOMAIN t /\ s[i] = t[i - Len(<<pkt>>)]
      BY <2>1, ConcatFacts
    <3> QED BY <3>1, <3>2
  <2> HIDE DEF s
  <2>4. \A i \in DOMAIN t : t[i] \in I
    BY <1>4
  <2>5. ASSUME NEW i \in DOMAIN s, NEW j \in DOMAIN s, i < j
        PROVE  s[i].seq < s[j].seq /\ (s[i] = pkt \/ s[i].ts < s[j].ts)
    <3>1. CASE i = 1 /\ s[i] = pkt
      <4>1. j # 1
        BY <2>2, <2>5, <3>1
      <4>2. s[j] \in I
        BY <2>3, <2>4, <4>1
      <4>3. s[j].seq \in n .. e - 1
        BY <1>4, <4>2
      <4> QED BY <1>2, <1>4, <3>1, <4>3
    <3>2. CASE i - 1 \in DOMAIN t /\ s[i] = t[i - 1] /\ i # 1
      <4>1. j # 1 /\ i - 1 < j - 1
        <5>1. i \in Nat /\ j \in Nat /\ i # 0
          BY <2>1, <2>2, <2>5 DEF s
        <5> QED BY <2>5, <3>2, <5>1
      <4>2. j - 1 \in DOMAIN t /\ s[j] = t[j - 1]
        BY <2>3, <4>1
      <4> QED BY <1>4, <3>2, <4>1, <4>2
    <3> QED BY <2>3, <3>1, <3>2
  <2> QED BY <2>2, <2>3, <2>4, <2>5
<1> HIDE DEF s
<1>10. Released(s)
  <2>1. \A i, j \in DOMAIN s : i # j => s[i] # s[j]
    <3> SUFFICES ASSUME NEW i \in DOMAIN s, NEW j \in DOMAIN s, i # j PROVE s[i] # s[j]
      OBVIOUS
    <3>1. i < j \/ j < i
      BY <1>9
    <3>2. s[i].seq \in Nat /\ s[j].seq \in Nat
      BY <1>1, <1>5, <1>9 DEF Pkts
    <3> QED BY <1>9, <3>1, <3>2
  <2>2. network' \cap queue' = {} /\ network' \subseteq network
    BY <1>1, <1>2, <1>3 DEF StampsInv
  <2>3. \A p \in queue : p.ts < now
    BY <1>2 DEF StampsInv
  <2>4. \A i \in DOMAIN s : s[i].ts < now
    BY <1>1, <1>4, <1>9, <2>3
  <2>5. \A p \in queue' : p.ts < now
    BY <1>3, <2>3
  <2> QED BY <1>1, <1>3, <1>8, <1>9, <2>1, <2>2, <2>4, <2>5 DEF Released
<1>11. ASSUME ~ renumbered, NEW p \in Pending',
              p.ts = now \/ (learnedAt' # NoTimer /\ p.ts >= learnedAt')
       PROVE  p.seq >= e
  <2>1. p \in Pending /\ p # pkt /\ p \notin I
    BY <1>8
  <2>2. p.ts = now \/ (learnedAt # NoTimer /\ p.ts >= learnedAt)
    <3>1. p.ts \in Nat /\ p.ts <= now
      BY <1>2, <1>5, <2>1 DEF StampsInv, Pending, Pkts
    <3> QED BY <1>1, <1>2, <1>11, <3>1
  <2>3. p.seq >= pkt.seq
    BY <1>2, <1>3, <1>11, <2>1, <2>2 DEF AheadInv
  <2> QED BY <1>7, <1>11, <2>1, <2>3
<1>12. ASSUME learnedAt' = learnedAt, Learned
       PROVE  /\ \A i, j \in DOMAIN s : i < j => s[i].ts < s[j].ts
              /\ \A i \in DOMAIN s : \A p \in Pending' :
                   s[i].ts >= learnedAt /\ p.ts >= learnedAt => s[i].ts < p.ts
  <2>1. ~ renumbered /\ learnedAt # NoTimer
    BY <1>12 DEF Learned
  <2>2. ASSUME NEW i \in DOMAIN s PROVE s[i] \in Pending /\ s[i].seq \in Nat /\ s[i].seq < e
    <3>1. CASE s[i] = pkt
      BY <1>1, <1>2, <1>4, <3>1
    <3>2. CASE s[i] \in I
      BY <1>2, <1>4, <1>5, <3>2
    <3> QED BY <1>9, <3>1, <3>2
  <2>3. ASSUME NEW i \in DOMAIN s, NEW j \in DOMAIN s, i < j PROVE s[i].ts < s[j].ts
    BY <1>2, <1>9, <2>1, <2>2, <2>3, NumbersTellPackets
  <2>4. ASSUME NEW i \in DOMAIN s, NEW p \in Pending', p.ts >= learnedAt PROVE s[i].ts < p.ts
    <3>1. p \in Pending /\ p.seq \in Nat /\ p.seq >= e
      BY <1>5, <1>8, <1>11, <1>12, <2>1, <2>4 DEF Pkts
    <3>2. s[i].seq < p.seq
      BY <1>4, <2>2, <3>1
    <3> QED BY <1>2, <2>1, <2>2, <3>1, <3>2, NumbersTellPackets
  <2> QED BY <2>3, <2>4
<1>13. queue' \subseteq queue \cup {pkt}
  BY <1>3
<1> QED BY <1>3, <1>4, <1>6, <1>10, <1>11, <1>12, <1>13, ArrivalStep

(* A packet that took the longest delay there is was sent before all the   *)
(* others that are still to come.                                          *)
LEMMA LateStep ==
  ASSUME ResequencerInv, NEW pkt \in network, ReceivePacket(pkt), HandleLatePacket(pkt)
  PROVE  ResequencerInv'
<1> DEFINE s == <<pkt>>
<1>1. /\ pkt \in Pkts /\ pkt \in Pending /\ pkt \notin queue /\ pkt.ts < now
      /\ now' = now /\ network' = network \ {pkt}
      /\ maxObservedDelay' \in 0 .. MaxDelay
      /\ learnedAt' \in {learnedAt, now}
      /\ learnedAt' # NoTimer => maxObservedDelay' = MaxDelay
      /\ PacketIsLate(pkt) => pkt.ts + maxObservedDelay' = now
  BY ArrivalFacts
<1>2. /\ PacketsOK /\ StampsInv /\ NumbersInv /\ AheadInv /\ TimerGuardsFront
      /\ now \in Nat /\ pkt.ts \in Nat /\ Pending \subseteq Pkts
  BY <1>1 DEF ResequencerInv, PacketsOK, Pkts, Pending
<1>3. /\ PacketIsLate(pkt) /\ queue' = queue
      /\ expectedSequenceNo' = expectedSequenceNo /\ released' = released \o s
  BY DEF HandleLatePacket, Release
<1>4. s \in Seq(Pending) /\ DOMAIN s = {1} /\ s[1] = pkt
  BY <1>1
<1> HIDE DEF s
<1>5. \A p \in Pending' : p \in Pending /\ p # pkt
  BY <1>1, <1>3 DEF Pending
<1>6. Released(s)
  <2>1. network' \cap queue' = {} /\ network' \subseteq network
    BY <1>1, <1>2, <1>3 DEF StampsInv
  <2>2. \A p \in queue' : p.ts < now
    BY <1>2, <1>3 DEF StampsInv
  <2> QED BY <1>1, <1>3, <1>4, <1>5, <2>1, <2>2 DEF Released
<1>7. ASSUME ~ renumbered, NEW p \in Pending',
             p.ts = now \/ (learnedAt' # NoTimer /\ p.ts >= learnedAt')
      PROVE  p.seq >= expectedSequenceNo
  <2>1. p \in Pending /\ p.ts \in Nat /\ p.ts <= now
    BY <1>2, <1>5 DEF StampsInv, Pending, Pkts
  <2>2. p.ts = now \/ (learnedAt # NoTimer /\ p.ts >= learnedAt)
    BY <1>1, <1>2, <1>7, <2>1
  <2> QED BY <1>2, <1>7, <2>1, <2>2 DEF AheadInv
<1>8. ASSUME learnedAt' = learnedAt, Learned, NEW p \in Pending' PROVE pkt.ts < p.ts
  <2>1. /\ maxObservedDelay = MaxDelay /\ maxObservedDelay' = MaxDelay /\ MaxDelay \in Nat
        /\ pkt.ts + MaxDelay = now
    BY <1>1, <1>2, <1>3, <1>8, TimesAssumption DEF Learned, AheadInv
  <2>2. p \in Pending /\ p.ts # pkt.ts /\ p.ts \in Nat
    BY <1>1, <1>2, <1>5 DEF StampsInv, Pkts
  <2>3. p.ts + MaxDelay >= now
    <3>1. CASE p \in queue
      BY <1>2, <2>1, <3>1, WaitsWithinWindow
    <3>2. CASE p \in network
      BY <1>2, <2>1, <2>2, <3>2 DEF StampsInv, Deadline
    <3> QED BY <2>2, <3>1, <3>2 DEF Pending
  <2> QED BY <1>2, <2>1, <2>2, <2>3
<1>9. /\ expectedSequenceNo' \in Nat /\ queue' \subseteq queue \cup {pkt}
      /\ ~ renumbered => expectedSequenceNo' <= sendingSequenceNo
  BY <1>2, <1>3 DEF PacketsOK, NumbersInv
<1>10. \A i, j \in DOMAIN s : ~ (i < j)
  BY <1>4
<1> QED BY <1>3, <1>4, <1>6, <1>7, <1>8, <1>9, <1>10, ArrivalStep

(* A packet that waits, or finds the queue full.                           *)
LEMMA OutOfOrderStep ==
  ASSUME ResequencerInv, NEW pkt \in network, ReceivePacket(pkt), HandleOutOfOrderPacket(pkt)
  PROVE  ResequencerInv'
<1> DEFINE s == << >>
<1>1. /\ pkt \in Pkts /\ pkt \in Pending /\ pkt \notin queue /\ pkt.ts < now
      /\ now' = now /\ network' = network \ {pkt}
      /\ learnedAt' \in {learnedAt, now}
  BY ArrivalFacts
<1>2. /\ PacketsOK /\ StampsInv /\ NumbersInv /\ AheadInv
      /\ now \in Nat /\ pkt.ts \in Nat /\ Pending \subseteq Pkts
  BY <1>1 DEF ResequencerInv, PacketsOK, Pkts, Pending
<1>3. /\ queue' \subseteq queue \cup {pkt}
      /\ expectedSequenceNo' = expectedSequenceNo /\ released' = released
  BY DEF HandleOutOfOrderPacket, Enqueue
<1>4. s \in Seq(Pending) /\ DOMAIN s = {}
  OBVIOUS
<1>5. released' = released \o s
  BY <1>2, <1>3 DEF PacketsOK
<1> HIDE DEF s
<1>6. \A p \in Pending' : p \in Pending
  BY <1>1, <1>3 DEF Pending
<1>7. Released(s)
  <2>1. network' \cap queue' = {} /\ network' \subseteq network
    BY <1>1, <1>2, <1>3 DEF StampsInv
  <2>2. \A p \in queue' : p.ts < now
    BY <1>1, <1>2, <1>3 DEF StampsInv
  <2> QED BY <1>1, <1>4, <1>5, <1>6, <2>1, <2>2 DEF Released
<1>8. ASSUME ~ renumbered, NEW p \in Pending',
             p.ts = now \/ (learnedAt' # NoTimer /\ p.ts >= learnedAt')
      PROVE  p.seq >= expectedSequenceNo
  <2>1. p \in Pending /\ p.ts \in Nat /\ p.ts <= now
    BY <1>2, <1>6 DEF StampsInv, Pending, Pkts
  <2>2. p.ts = now \/ (learnedAt # NoTimer /\ p.ts >= learnedAt)
    BY <1>1, <1>2, <1>8, <2>1
  <2> QED BY <1>2, <1>8, <2>1, <2>2 DEF AheadInv
<1>9. /\ expectedSequenceNo' \in Nat
      /\ ~ renumbered => expectedSequenceNo' <= sendingSequenceNo
  BY <1>2, <1>3 DEF PacketsOK, NumbersInv
<1> QED BY <1>3, <1>4, <1>7, <1>8, <1>9, ArrivalStep

(* Any arrival keeps the invariant.                                        *)
LEMMA ReceiveStep ==
  ASSUME ResequencerInv, NEW pkt \in network, ReceivePacket(pkt)
  PROVE  ResequencerInv'
<1>1. \/ HandlePacketInOrder(pkt) \/ HandleLatePacket(pkt) \/ HandleOutOfOrderPacket(pkt)
  BY DEF ReceivePacket, HandlePacket
<1> QED BY <1>1, InOrderStep, LateStep, OutOfOrderStep

(* The gap before the packet at the front is given up: its window is over, *)
(* so every packet that is still to come was sent later.                   *)
LEMMA TimeoutStep ==
  ASSUME ResequencerInv, Timeout
  PROVE  ResequencerInv'
<1> DEFINE f == FrontPkt(queue)
           n == f.seq
           I == InOrderFrom(queue, n)
           s == InOrderSeq(queue, n)
           e == ExpectedAfter(queue, n)
<1>1. /\ timeOut = now /\ now' = now /\ network' = network
      /\ sendingSequenceNo' = sendingSequenceNo
      /\ learnedAt' = learnedAt /\ renumbered' = renumbered
      /\ maxObservedDelay' = maxObservedDelay
      /\ queue' = queue \ I /\ expectedSequenceNo' = e /\ released' = released \o s
      /\ UpdateTimeout(queue', maxObservedDelay)
  BY DEF Timeout, HandleTimeout, Release, netVars
<1>2. /\ PacketsOK /\ StampsInv /\ NumbersInv /\ AheadInv /\ TimerGuardsFront
      /\ BehindInv /\ InOrderOnceLearned
      /\ now \in Nat /\ Pending \subseteq Pkts /\ queue \subseteq Pkts
  BY DEF ResequencerInv, PacketsOK, Pending
<1>3. queue # {} /\ f.ts + maxObservedDelay = now
  BY <1>1, <1>2, NoTimerAssumption DEF TimerGuardsFront
<1>4. /\ f \in queue /\ \A r \in queue : f.ts <= r.ts
  BY <1>2, <1>3, FrontFacts
<1> HIDE DEF f
<1>5. f \in Pending /\ f.ts \in Nat /\ f.ts < now /\ n \in Nat
  BY <1>2, <1>4 DEF Pending, Pkts, StampsInv
<1> HIDE DEF n
<1>6. /\ I \subseteq queue /\ s \in Seq(I)
      /\ \A i, j \in DOMAIN s : i < j => s[i].seq < s[j].seq /\ s[i].ts < s[j].ts
      /\ e \in Nat
      /\ \A p \in I : p.seq \in n .. e - 1
  BY <1>2, <1>5, QueueFacts
<1>7. ~ renumbered => e <= sendingSequenceNo
  <2> SUFFICES ASSUME ~ renumbered PROVE e <= sendingSequenceNo
    OBVIOUS
  <2>1. n < sendingSequenceNo /\ sendingSequenceNo \in Nat
    BY <1>2, <1>5 DEF n, NumbersInv, PacketsOK
  <2> QED BY <1>2, <1>5, <2>1, ExpectedBounded
<1>8. ASSUME ~ renumbered, NEW p \in Pending, p \notin I, p.seq >= n PROVE p.seq >= e
  BY <1>2, <1>5, <1>8, StaysAhead
<1> HIDE DEF I, s, e
<1>9. ASSUME NEW p \in Pending' PROVE p \in Pending /\ p \notin I
  <2>1. network \cap queue = {}
    BY <1>2 DEF StampsInv
  <2>2. p \in network \/ p \in queue \ I
    BY <1>1 DEF Pending
  <2> QED BY <1>6, <2>1, <2>2 DEF Pending
<1>10. Released(s)
  <2>1. s \in Seq(Pending) /\ \A i \in DOMAIN s : s[i] \in I
    BY <1>6 DEF Pending
  <2>2. \A i, j \in DOMAIN s : i # j => s[i] # s[j]
    <3> SUFFICES ASSUME NEW i \in DOMAIN s, NEW j \in DOMAIN s, i # j PROVE s[i] # s[j]
      OBVIOUS
    <3>1. i < j \/ j < i
      BY <2>1
    <3>2. s[i].seq \in Nat /\ s[j].seq \in Nat
      BY <1>2, <1>6, <2>1 DEF Pkts
    <3> QED BY <1>6, <3>1, <3>2
  <2>3. network' \cap queue' = {}
    BY <1>1, <1>2 DEF StampsInv
  <2>4. \A p \in queue : p.ts < now
    BY <1>2 DEF StampsInv
  <2> QED BY <1>1, <1>6, <1>9, <2>1, <2>2, <2>3, <2>4 DEF Released
<1>11. ASSUME ~ renumbered, NEW p \in Pending',
              p.ts = now \/ (learnedAt # NoTimer /\ p.ts >= learnedAt)
       PROVE  p.seq >= e
  <2>1. p \in Pending /\ p \notin I /\ p.ts \in Nat /\ p.seq \in Nat
    BY <1>2, <1>9 DEF Pkts
  <2>2. p.ts >= f.ts
    <3>1. CASE p \in queue
      BY <1>4, <1>5, <2>1, <3>1
    <3>2. CASE p.ts = now
      BY <1>2, <1>5, <3>2
    <3>3. CASE p \in network /\ learnedAt # NoTimer
      <4>1. maxObservedDelay = MaxDelay /\ MaxDelay \in Nat /\ now <= p.ts + MaxDelay
        BY <1>2, <3>3, TimesAssumption DEF AheadInv, StampsInv, Deadline
      <4> QED BY <1>2, <1>3, <1>5, <2>1, <4>1
    <3> QED BY <1>11, <2>1, <3>1, <3>2, <3>3 DEF Pending
  <2>3. p.seq >= n
    <3>1. p.ts = f.ts => p = f
      BY <1>2, <1>5, <2>1 DEF StampsInv
    <3>2. f.ts < p.ts => n < p.seq
      BY <1>2, <1>5, <1>11, <2>1 DEF n, NumbersInv
    <3> QED BY <1>5, <2>1, <2>2, <3>1, <3>2 DEF n
  <2> QED BY <1>8, <1>11, <2>1, <2>3
<1>12. ASSUME Learned, NEW i \in DOMAIN s, NEW p \in Pending', p.ts >= learnedAt
       PROVE  s[i].ts < p.ts
  <2>1. ~ renumbered /\ learnedAt # NoTimer
    BY <1>12 DEF Learned
  <2>2. s[i] \in Pending /\ s[i].seq \in Nat /\ s[i].seq < e
    BY <1>5, <1>6 DEF Pending
  <2>3. p \in Pending /\ p.seq \in Nat /\ p.seq >= e
    BY <1>2, <1>9, <1>11, <1>12, <2>1 DEF Pkts
  <2>4. s[i].seq < p.seq
    BY <1>6, <2>2, <2>3
  <2> QED BY <1>2, <2>1, <2>2, <2>3, <2>4, NumbersTellPackets
<1>13. released' \in Seq(Pkts) /\ StampsInv'
  BY <1>2, <1>10, ReleaseKeepsStamps
<1>14. BehindInv' /\ InOrderOnceLearned'
  BY <1>1, <1>2, <1>6, <1>10, <1>12, ReleaseKeepsOrder
<1>15. PacketsOK'
  <2>1. IsFiniteSet(queue')
    <3>1. IsFiniteSet(queue) /\ queue' \in SUBSET queue
      BY <1>1, <1>2 DEF PacketsOK
    <3> QED BY <3>1, FS_Subset
  <2> QED BY <1>1, <1>2, <1>6, <1>13, <2>1 DEF PacketsOK
<1>16. TimerGuardsFront'
  <2>1. \A p \in queue' : p.ts + maxObservedDelay >= now
    BY <1>1, <1>2, WaitsWithinWindow
  <2>2. queue' \subseteq Pkts /\ maxObservedDelay \in Nat
    BY <1>1, <1>2, TimesAssumption DEF PacketsOK
  <2>3. IF queue' = {} THEN timeOut' = NoTimer
        ELSE timeOut' = FrontPkt(queue').ts + maxObservedDelay /\ timeOut' >= now
    BY <1>1, <1>2, <2>1, <2>2, UpdateTimeoutFacts
  <2>4. (FrontPkt(queue))' = FrontPkt(queue')
    BY DEF FrontPkt
  <2> QED BY <1>1, <2>3, <2>4 DEF TimerGuardsFront
<1>17. NumbersInv'
  BY <1>1, <1>2, <1>7, <1>9 DEF NumbersInv
<1>18. AheadInv'
  BY <1>1, <1>2, <1>11 DEF AheadInv
<1> QED BY <1>13, <1>14, <1>15, <1>16, <1>17, <1>18 DEF ResequencerInv

(* A packet that is sent is the newest one, with the largest number.       *)
LEMMA SendStep ==
  ASSUME ResequencerInv, NEW lost \in BOOLEAN, SendPacket(lost)
  PROVE  ResequencerInv'
<1> DEFINE pkt == Numbered
<1>1. /\ \A p \in network : p.ts # now
      /\ sendingSequenceNo' = sendingSequenceNo + 1
      /\ network' = network \/ network' = network \cup {pkt}
      /\ now' = now /\ queue' = queue /\ expectedSequenceNo' = expectedSequenceNo
      /\ maxObservedDelay' = maxObservedDelay /\ timeOut' = timeOut
      /\ released' = released /\ learnedAt' = learnedAt /\ renumbered' = renumbered
  BY DEF SendPacket, bufferVars
<1>2. pkt.seq = sendingSequenceNo /\ pkt.ts = now
  BY DEF Numbered
<1>3. /\ PacketsOK /\ StampsInv /\ NumbersInv /\ AheadInv /\ TimerGuardsFront
      /\ BehindInv /\ InOrderOnceLearned
      /\ now \in Nat /\ sendingSequenceNo \in Nat /\ Pending \subseteq Pkts
  BY DEF ResequencerInv, PacketsOK, Pending
<1>4. pkt \in Pkts
  BY <1>3 DEF Numbered, Pkts
<1> HIDE DEF pkt
<1>5. ASSUME NEW p \in Pending PROVE p.ts \in Nat /\ p.ts < now
  BY <1>1, <1>3 DEF Pending, StampsInv, Pkts
<1>6. \A p \in Pending' : p \in Pending \/ p = pkt
  BY <1>1 DEF Pending
<1>7. PacketsOK'
  BY <1>1, <1>3, <1>4 DEF PacketsOK
<1>8. TimerGuardsFront'
  <2>1. (FrontPkt(queue))' = FrontPkt(queue')
    BY DEF FrontPkt
  <2> QED BY <1>1, <1>3, <2>1 DEF TimerGuardsFront
<1>9. StampsInv'
  <2>1. network' \cap queue' = {}
    <3>1. pkt \notin queue
      BY <1>2, <1>3, <1>5 DEF Pending
    <3> QED BY <1>1, <1>3, <3>1 DEF StampsInv
  <2>2. \A p, r \in Pending' : p.ts = r.ts => p = r
    BY <1>2, <1>3, <1>5, <1>6 DEF StampsInv
  <2>3. ASSUME NEW p \in network' PROVE p.ts <= now' /\ now' <= (Deadline(p))'
    <3>1. now \in Nat /\ MaxDelay \in Nat
      BY <1>3, TimesAssumption
    <3>2. CASE p \in network
      BY <1>1, <1>3, <3>2 DEF StampsInv, Deadline
    <3>3. CASE p = pkt
      BY <1>1, <1>2, <3>1, <3>3 DEF Deadline
    <3> QED BY <1>1, <3>2, <3>3
  <2>4. /\ \A p \in queue' : p.ts < now'
        /\ \A i \in DOMAIN released' : released'[i].ts < now'
        /\ \A i, j \in DOMAIN released' : i # j => released'[i].ts # released'[j].ts
    BY <1>1, <1>3 DEF StampsInv
  <2>5. ASSUME NEW i \in DOMAIN released', NEW p \in Pending' PROVE released'[i].ts # p.ts
    <3>1. /\ i \in DOMAIN released /\ released'[i] = released[i]
          /\ released[i].ts < now /\ \A r \in Pending : released[i].ts # r.ts
      BY <1>1, <1>3 DEF StampsInv
    <3>2. released[i].ts # now
      <4>1. released[i] \in Pkts
        BY <1>3, <3>1 DEF PacketsOK
      <4> QED BY <1>3, <3>1, <4>1 DEF Pkts
    <3> QED BY <1>2, <1>6, <3>1, <3>2
  <2>6. (\A p \in network : p.ts <= now /\ now <= Deadline(p))'
    BY <2>3
  <2> QED BY <2>1, <2>2, <2>4, <2>5, <2>6 DEF StampsInv
<1>10. NumbersInv'
  <2> SUFFICES ASSUME ~ renumbered
        PROVE  /\ expectedSequenceNo' <= sendingSequenceNo'
               /\ \A p \in Pending' : p.seq < sendingSequenceNo'
               /\ \A p, r \in Pending' : p.ts < r.ts => p.seq < r.seq
    BY <1>1 DEF NumbersInv
  <2>1. /\ expectedSequenceNo <= sendingSequenceNo /\ expectedSequenceNo \in Nat
        /\ \A p \in Pending : p.seq < sendingSequenceNo
        /\ \A p, r \in Pending : p.ts < r.ts => p.seq < r.seq
    BY <1>3 DEF NumbersInv, PacketsOK
  <2>2. \A p \in Pending : p.seq \in Nat
    BY <1>3 DEF Pkts
  <2>3. \A p \in Pending' : p.seq < sendingSequenceNo'
    BY <1>1, <1>2, <1>3, <1>6, <2>1, <2>2
  <2>4. ASSUME NEW p \in Pending', NEW r \in Pending', p.ts < r.ts PROVE p.seq < r.seq
    <3>1. CASE p = pkt
      <4>1. FALSE
        BY <1>2, <1>3, <1>5, <1>6, <2>4, <3>1
      <4> QED BY <4>1
    <3>2. CASE p \in Pending
      BY <1>2, <1>6, <2>1, <2>4, <3>2
    <3> QED BY <1>6, <3>1, <3>2
  <2> QED BY <1>1, <1>3, <2>1, <2>3, <2>4
<1>11. AheadInv'
  <2>1. ~ renumbered => expectedSequenceNo <= pkt.seq
    BY <1>2, <1>3 DEF NumbersInv
  <2>2. ~ renumbered => pkt.seq >= expectedSequenceNo
    BY <1>2, <1>3, <2>1 DEF PacketsOK
  <2> QED BY <1>1, <1>3, <1>6, <2>2 DEF AheadInv
<1>12. BehindInv' /\ InOrderOnceLearned'
  <2>1. \A i \in DOMAIN released : released[i].ts < pkt.ts
    BY <1>2, <1>3 DEF StampsInv
  <2> QED BY <1>1, <1>3, <1>6, <2>1 DEF BehindInv, InOrderOnceLearned, Learned
<1> QED BY <1>7, <1>8, <1>9, <1>10, <1>11, <1>12 DEF ResequencerInv

(* A buffer that has been idle is created afresh.                          *)
LEMMA RemoveReceiveStep ==
  ASSUME ResequencerInv, RemoveReceiveBuffer
  PROVE  ResequencerInv'
<1>1. /\ now' = now /\ network' = network /\ sendingSequenceNo' = sendingSequenceNo
      /\ renumbered' = renumbered
      /\ queue' = {} /\ expectedSequenceNo' = 0 /\ maxObservedDelay' = 0
      /\ timeOut' = NoTimer /\ learnedAt' = NoTimer /\ released' = << >>
  BY DEF RemoveReceiveBuffer, ResetBuffer, netVars
<1>2. /\ PacketsOK /\ StampsInv /\ NumbersInv /\ MaxDelay \in Nat
      /\ sendingSequenceNo \in Nat /\ Pending \subseteq Pkts
  BY TimesAssumption DEF ResequencerInv, PacketsOK, Pending
<1>3. Pending' \subseteq Pending
  BY <1>1 DEF Pending
<1>4. DOMAIN released' = {} /\ released' \in Seq(Pkts) /\ IsFiniteSet(queue')
  BY <1>1, FS_EmptySet
<1>5. PacketsOK'
  BY <1>1, <1>2, <1>4 DEF PacketsOK
<1>6. TimerGuardsFront'
  BY <1>1 DEF TimerGuardsFront
<1>7. StampsInv'
  <2>1. (\A p \in network : p.ts <= now /\ now <= Deadline(p))'
    BY <1>1, <1>2 DEF StampsInv, Deadline
  <2> QED BY <1>1, <1>2, <1>3, <1>4, <2>1 DEF StampsInv
<1>8. NumbersInv'
  BY <1>1, <1>2, <1>3 DEF NumbersInv
<1>9. AheadInv'
  <2>1. \A p \in Pending' : p.seq >= 0
    BY <1>2, <1>3 DEF Pkts
  <2> QED BY <1>1, <2>1 DEF AheadInv
<1>10. BehindInv' /\ InOrderOnceLearned'
  BY <1>1 DEF BehindInv, InOrderOnceLearned, Learned
<1> QED BY <1>5, <1>6, <1>7, <1>8, <1>9, <1>10 DEF ResequencerInv

(* The sender's buffer ages out: numbers start over, and nothing more is   *)
(* promised of them.                                                       *)
LEMMA RemoveSendStep ==
  ASSUME ResequencerInv, RemoveSendBuffer
  PROVE  ResequencerInv'
<1>1. /\ UNCHANGED <<now, network, queue, expectedSequenceNo, maxObservedDelay,
                     timeOut, released, learnedAt>>
      /\ sendingSequenceNo' = 0 /\ renumbered'
  BY DEF RemoveSendBuffer, bufferVars
<1>2. PacketsOK' /\ StampsInv'
  <2>1. (\A p \in network : p.ts <= now /\ now <= Deadline(p))'
    BY <1>1 DEF ResequencerInv, StampsInv, Deadline
  <2> QED BY <1>1, <2>1 DEF ResequencerInv, PacketsOK, StampsInv, Pending
<1>3. TimerGuardsFront'
  <2>1. (FrontPkt(queue))' = FrontPkt(queue')
    BY DEF FrontPkt
  <2> QED BY <1>1, <2>1 DEF ResequencerInv, TimerGuardsFront
<1>4. NumbersInv' /\ AheadInv' /\ BehindInv' /\ InOrderOnceLearned'
  BY <1>1 DEF ResequencerInv, NumbersInv, AheadInv, BehindInv, InOrderOnceLearned, Learned
<1> QED BY <1>2, <1>3, <1>4 DEF ResequencerInv

(* Time passes only to the next event: no packet becomes overdue.          *)
LEMMA TickStep ==
  ASSUME ResequencerInv, Tick
  PROVE  ResequencerInv'
<1>1. /\ timeOut # now /\ \A p \in network : now < Deadline(p)
      /\ now' = now + 1
      /\ UNCHANGED <<network, queue, expectedSequenceNo, maxObservedDelay, timeOut,
                     released, learnedAt, sendingSequenceNo, renumbered>>
  BY DEF Tick, bufferVars, netVars
<1>2. /\ PacketsOK /\ StampsInv /\ NumbersInv /\ AheadInv /\ TimerGuardsFront
      /\ BehindInv /\ InOrderOnceLearned
      /\ now \in Nat /\ Pending \subseteq Pkts /\ MaxDelay \in Nat
      /\ Pending' = Pending
  BY <1>1, TimesAssumption DEF ResequencerInv, PacketsOK, Pending
<1>3. PacketsOK'
  BY <1>1, <1>2 DEF PacketsOK
<1>4. \A p \in Pending : p.ts \in Nat /\ p.ts <= now
  BY <1>2 DEF Pending, Pkts, StampsInv
<1>5. StampsInv'
  <2>1. ASSUME NEW p \in network PROVE p.ts <= now + 1 /\ now + 1 <= p.ts + MaxDelay
    <3>1. p.ts \in Nat /\ p.ts <= now /\ now < p.ts + MaxDelay
      BY <1>1, <1>4 DEF Pending, Deadline
    <3> QED BY <1>2, <3>1
  <2>2. (\A p \in network : p.ts <= now /\ now <= Deadline(p))'
    BY <1>1, <2>1 DEF Deadline
  <2>3. \A p \in queue : p.ts < now + 1
    BY <1>2, <1>4 DEF Pending
  <2>4. ASSUME NEW i \in DOMAIN released PROVE released[i].ts < now + 1
    <3>1. released[i] \in Pkts /\ released[i].ts < now
      BY <1>2 DEF PacketsOK, StampsInv
    <3> QED BY <1>2, <3>1 DEF Pkts
  <2> QED BY <1>1, <1>2, <2>2, <2>3, <2>4 DEF StampsInv
<1>6. TimerGuardsFront'
  <2>1. (FrontPkt(queue))' = FrontPkt(queue')
    BY DEF FrontPkt
  <2>2. CASE queue = {}
    BY <1>1, <1>2, <2>2 DEF TimerGuardsFront
  <2>3. CASE queue # {}
    <3>1. /\ FrontPkt(queue) \in queue /\ timeOut = FrontPkt(queue).ts + maxObservedDelay
          /\ timeOut >= now
      BY <1>2, <2>3, FrontFacts DEF TimerGuardsFront, PacketsOK
    <3>2. FrontPkt(queue).ts \in Nat /\ maxObservedDelay \in Nat
      BY <1>2, <1>4, <3>1 DEF Pending, PacketsOK
    <3>3. timeOut >= now + 1
      BY <1>1, <1>2, <3>1, <3>2
    <3> QED BY <1>1, <2>1, <2>3, <3>1, <3>3 DEF TimerGuardsFront
  <2> QED BY <2>2, <2>3
<1>7. NumbersInv'
  BY <1>1, <1>2 DEF NumbersInv
<1>8. AheadInv'
  <2>1. \A p \in Pending : p.ts # now + 1
    BY <1>2, <1>4
  <2> QED BY <1>1, <1>2, <2>1 DEF AheadInv
<1>9. BehindInv' /\ InOrderOnceLearned'
  BY <1>1, <1>2 DEF BehindInv, InOrderOnceLearned, Learned
<1> QED BY <1>3, <1>5, <1>6, <1>7, <1>8, <1>9 DEF ResequencerInv

-----------------------------------------------------------------------------
(* The invariant holds at the start.                                       *)
LEMMA ResequencerInit == Init => ResequencerInv
<1> SUFFICES ASSUME Init PROVE ResequencerInv
  OBVIOUS
<1>1. /\ now = 0 /\ queue = {} /\ expectedSequenceNo = 0 /\ maxObservedDelay = 0
      /\ timeOut = NoTimer /\ released = << >> /\ sendingSequenceNo = 0
      /\ network = {} /\ learnedAt = NoTimer /\ MaxDelay \in Nat
  BY TimesAssumption DEF Init, BufferInit
<1>2. Pending = {} /\ DOMAIN released = {} /\ released \in Seq(Pkts) /\ IsFiniteSet(queue)
  BY <1>1, FS_EmptySet DEF Pending
<1>3. PacketsOK /\ TimerGuardsFront
  BY <1>1, <1>2 DEF PacketsOK, TimerGuardsFront
<1>4. StampsInv /\ NumbersInv /\ AheadInv /\ BehindInv /\ InOrderOnceLearned
  BY <1>1, <1>2 DEF StampsInv, NumbersInv, AheadInv, BehindInv, InOrderOnceLearned, Learned
<1> QED BY <1>3, <1>4 DEF ResequencerInv

(* Every step keeps the invariant.                                         *)
LEMMA ResequencerNext == ResequencerInv /\ [Next]_vars => ResequencerInv'
<1> SUFFICES ASSUME ResequencerInv, [Next]_vars PROVE ResequencerInv'
  OBVIOUS
<1>1. ASSUME NEW lost \in BOOLEAN, SendPacket(lost) PROVE ResequencerInv'
  BY <1>1, SendStep
<1>2. CASE Receive
  BY <1>2, ReceiveStep DEF Receive
<1>3. CASE Timeout
  BY <1>3, TimeoutStep
<1>4. CASE RemoveReceiveBuffer
  BY <1>4, RemoveReceiveStep
<1>5. CASE RemoveSendBuffer
  BY <1>5, RemoveSendStep
<1>6. CASE Tick
  BY <1>6, TickStep
<1>7. CASE UNCHANGED vars
  <2>1. UNCHANGED <<now, network, queue, expectedSequenceNo, maxObservedDelay, timeOut,
                    released, learnedAt, sendingSequenceNo, renumbered>>
    BY <1>7 DEF vars, bufferVars, netVars
  <2>2. PacketsOK' /\ NumbersInv' /\ AheadInv' /\ BehindInv' /\ InOrderOnceLearned'
    BY <2>1 DEF ResequencerInv, PacketsOK, NumbersInv, AheadInv, BehindInv,
                InOrderOnceLearned, Learned, Pending
  <2>3. StampsInv'
    BY <2>1 DEF ResequencerInv, StampsInv, Pending, Deadline
  <2>4. TimerGuardsFront'
    BY <2>1 DEF ResequencerInv, TimerGuardsFront, FrontPkt
  <2> QED BY <2>2, <2>3, <2>4 DEF ResequencerInv
<1> QED BY <1>1, <1>2, <1>3, <1>4, <1>5, <1>6, <1>7 DEF Next

(* The inductive invariant of the receiving server's buffer and the        *)
(* network before it.                                                      *)
THEOREM ResequencerInvariant == Spec => []ResequencerInv
<1> QED BY ResequencerInit, ResequencerNext, PTL DEF Spec

(* ResequencerBuffer::updateTimeout(): whatever the network does, the      *)
(* timer runs for the packet at the front and never lies in the past, so   *)
(* handleTimeout() always finds a packet.                                  *)
THEOREM TimerIsForFront == Spec => []TimerGuardsFront
<1>1. ResequencerInv => TimerGuardsFront
  BY DEF ResequencerInv
<1> QED BY <1>1, ResequencerInvariant, PTL

(* releasePacket(): no packet is released twice, nor released while it is  *)
(* still queued or under way.                                              *)
THEOREM NothingReleasedTwice == Spec => []ReleasedOnce
<1>1. ResequencerInv => ReleasedOnce
  BY DEF ResequencerInv, StampsInv, ReleasedOnce, Pending
<1> QED BY <1>1, ResequencerInvariant, PTL

(* The adaptive window: after a packet has shown the longest delay of the  *)
(* network, releases follow the order of sending, with losses, timeouts    *)
(* and packets dropped by a full queue.                                    *)
THEOREM LearnedWindowOrders == Spec => []InOrderOnceLearned
<1>1. ResequencerInv => InOrderOnceLearned
  BY DEF ResequencerInv
<1> QED BY <1>1, ResequencerInvariant, PTL

=============================================================================
