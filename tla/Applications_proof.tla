------------------------ MODULE Applications_proof --------------------------
(***************************************************************************)
(* For a backlog schedule of any size: a destination waits for exactly the *)
(* packets that can still come, whether or not queues drop packets; and if *)
(* no packet is dropped, the simulation ends only when every packet of the *)
(* schedule has been received.                                             *)
(* Then the applications that adjust rates and queue sizes: the search for *)
(* the best value keeps it between its bounds, and ends with it.           *)
(***************************************************************************)
EXTENDS BklgSchedApplication, ThresholdSearch, FiniteSetTheorems, TLAPS

(* The two ends of every pair agree, nothing is lost, and server 0 is      *)
(* right about who has not finished.                                       *)
AllAccountedFor ==
  /\ toSnd \in [Pairs -> Nat] /\ inFlight \in [Pairs -> Nat] /\ toRcv \in [Pairs -> Nat]
  /\ lost = [p \in Pairs |-> 0]
  /\ \A p \in Pairs : toRcv[p] = toSnd[p] + inFlight[p]
  /\ LeftToFinishCounts
  /\ ended => leftToFinish = 0

NoLossInv == ~ lossy => AllAccountedFor

(* The servers that have not finished can be counted.                      *)
LEMMA UnfinishedFinite ==
  ASSUME NEW snd, NEW rcv, NEW lst
  PROVE  /\ IsFiniteSet(Unfinished(snd, rcv, lst))
         /\ Cardinality(Unfinished(snd, rcv, lst)) \in 0 .. NumServers
<1>1. IsFiniteSet(Servers) /\ Cardinality(Servers) = NumServers
  BY FS_Interval, NumServersAssumption DEF Servers
<1>2. Unfinished(snd, rcv, lst) \in SUBSET Servers
  BY DEF Unfinished
<1>3. /\ IsFiniteSet(Unfinished(snd, rcv, lst))
      /\ Cardinality(Unfinished(snd, rcv, lst)) <= NumServers
  BY <1>1, <1>2, FS_Subset
<1>4. Cardinality(Unfinished(snd, rcv, lst)) \in Nat
  BY <1>3, FS_CardinalityType
<1> QED BY <1>3, <1>4, NumServersAssumption

(* A uint that is neither 0 nor above the number of servers does not wrap. *)
LEMMA DecrementFact ==
  ASSUME NEW left \in 1 .. NumServers
  PROVE  Decrement(left) = left - 1
<1>1. left - 1 \in Nat /\ left - 1 < UintMod /\ UintMod \in Nat \ {0}
  BY NumServersAssumption, UintModAssumption
<1> QED BY <1>1 DEF Decrement

(* check_finished() of the one server whose backlog has changed, and which *)
(* had not finished before, keeps server 0's count right.                  *)
LEMMA CheckFinishedFact ==
  ASSUME LeftToFinishCounts, NEW s \in Servers,
         ~ Finished(s, toSnd, toRcv, lost),
         \A t \in Servers \ {s} :
           Finished(t, toSnd, toRcv, lost) <=> Finished(t, toSnd', toRcv', lost'),
         CheckFinished(s),
         ended => leftToFinish = 0
  PROVE  LeftToFinishCounts' /\ (ended' => leftToFinish' = 0)
<1> DEFINE U == Unfinished(toSnd, toRcv, lost)
           V == Unfinished(toSnd', toRcv', lost')
<1>1. s \in U
  BY DEF Unfinished
<1>2. IsFiniteSet(U) /\ Cardinality(U) \in 0 .. NumServers /\ leftToFinish = Cardinality(U)
  BY UnfinishedFinite DEF LeftToFinishCounts
<1>3. CASE Finished(s, toSnd', toRcv', lost')
  <2>1. V = U \ {s}
    BY <1>3 DEF Unfinished
  <2>2. Cardinality(V) = Cardinality(U) - 1 /\ Cardinality(U) # 0
    <3> HIDE DEF U, V
    <3> QED BY <1>1, <1>2, <2>1, FS_RemoveElement, FS_EmptySet
  <2>3. leftToFinish \in 1 .. NumServers
    BY <1>2, <2>2, NumServersAssumption
  <2>4. leftToFinish' = leftToFinish - 1
    BY <1>3, <2>3, DecrementFact DEF CheckFinished
  <2>5. ended' => leftToFinish' = 0
    BY <1>3 DEF CheckFinished
  <2> QED BY <1>2, <2>2, <2>4, <2>5 DEF LeftToFinishCounts
<1>4. CASE ~ Finished(s, toSnd', toRcv', lost')
  <2>1. V = U
    BY <1>1, <1>4 DEF Unfinished
  <2>2. leftToFinish' = leftToFinish /\ ended' = ended
    BY <1>4 DEF CheckFinished
  <2> QED BY <1>2, <2>1, <2>2 DEF LeftToFinishCounts
<1> QED BY <1>3, <1>4

(* At the start everything is accounted for.                               *)
LEMMA NoLossInit == Init => AllAccountedFor
<1> SUFFICES ASSUME Init PROVE AllAccountedFor
  OBVIOUS
<1>1. toSnd \in [Pairs -> Nat]
  BY MaxBacklogAssumption DEF Init, Schedules
<1>2. LeftToFinishCounts
  BY DEF Init, LeftToFinishCounts
<1>3. inFlight = [p \in Pairs |-> 0] /\ lost = [p \in Pairs |-> 0] /\ toRcv = toSnd
  BY DEF Init
<1>4. /\ inFlight \in [Pairs -> Nat] /\ toRcv \in [Pairs -> Nat]
      /\ \A p \in Pairs : toRcv[p] = toSnd[p] + inFlight[p]
  BY <1>1, <1>3
<1>5. ended => leftToFinish = 0
  BY Zenon DEF Init
<1> QED BY <1>1, <1>2, <1>3, <1>4, <1>5 DEF AllAccountedFor

(* Every step without loss keeps the account.                              *)
LEMMA AccountedNext ==
  ASSUME AllAccountedFor, [Next]_vars, ~ lossy
  PROVE  AllAccountedFor'
<1> USE DEF AllAccountedFor
<1>1. CASE UNCHANGED vars
  BY <1>1 DEF vars, LeftToFinishCounts
<1>2. ASSUME NEW p \in Pairs, Send(p) PROVE AllAccountedFor'
  <2>1. p[1] \in Servers /\ toSnd[p] > 0
    BY <1>2 DEF Send, RecordSent, Pairs
  <2>2. /\ toSnd' = [toSnd EXCEPT ![p] = @ - 1]
        /\ inFlight' = [inFlight EXCEPT ![p] = @ + 1]
        /\ toRcv' = toRcv /\ lost' = lost
    BY <1>2 DEF Send, RecordSent
  <2>3. /\ toSnd' \in [Pairs -> Nat] /\ inFlight' \in [Pairs -> Nat]
        /\ \A q \in Pairs : toRcv'[q] = toSnd'[q] + inFlight'[q]
    BY <2>1, <2>2
  <2>4. ~ Finished(p[1], toSnd, toRcv, lost)
    BY <2>1 DEF Finished
  <2>5. \A t \in Servers \ {p[1]} :
          Finished(t, toSnd, toRcv, lost) <=> Finished(t, toSnd', toRcv', lost')
    BY <2>2 DEF Finished
  <2>6. LeftToFinishCounts' /\ (ended' => leftToFinish' = 0)
    BY <1>2, <2>1, <2>4, <2>5, CheckFinishedFact DEF Send, RecordSent
  <2> QED BY <2>2, <2>3, <2>6
<1>3. ASSUME NEW p \in Pairs, Receive(p) PROVE AllAccountedFor'
  <2>1. p[2] \in Servers /\ inFlight[p] > 0
    BY <1>3 DEF Receive, RecordReceived, Pairs
  <2>2. /\ toRcv' = [toRcv EXCEPT ![p] = @ - 1]
        /\ inFlight' = [inFlight EXCEPT ![p] = @ - 1]
        /\ toSnd' = toSnd /\ lost' = lost
    BY <1>3 DEF Receive, RecordReceived
  <2>3. toRcv[p] > 0
    BY <2>1
  <2>4. /\ toRcv' \in [Pairs -> Nat] /\ inFlight' \in [Pairs -> Nat]
        /\ \A q \in Pairs : toRcv'[q] = toSnd'[q] + inFlight'[q]
    BY <2>1, <2>2, <2>3
  <2>5. ~ Finished(p[2], toSnd, toRcv, lost)
    BY <2>3 DEF Finished
  <2>6. \A t \in Servers \ {p[2]} :
          Finished(t, toSnd, toRcv, lost) <=> Finished(t, toSnd', toRcv', lost')
    BY <2>2 DEF Finished
  <2>7. LeftToFinishCounts' /\ (ended' => leftToFinish' = 0)
    BY <1>3, <2>1, <2>5, <2>6, CheckFinishedFact DEF Receive, RecordReceived
  <2> QED BY <2>2, <2>4, <2>7
<1>4. ASSUME NEW p \in Pairs, Drop(p) PROVE AllAccountedFor'
  BY <1>4 DEF Drop
<1>5. CASE EmitIntervalStats
  BY <1>5 DEF EmitIntervalStats, LeftToFinishCounts
<1> QED BY <1>1, <1>2, <1>3, <1>4, <1>5 DEF Next

(* Every step keeps the account unless something is lost.                  *)
LEMMA NoLossNext == NoLossInv /\ [Next]_vars => NoLossInv'
<1>1. [Next]_vars => lossy' = lossy
  BY DEF Next, Send, RecordSent, Receive, RecordReceived, Drop, RecordDrop, EmitIntervalStats, vars
<1> QED BY <1>1, AccountedNext DEF NoLossInv

(* The inductive invariant of a network in which nothing is dropped.       *)
THEOREM NoLossInvariant == Spec => []NoLossInv
<1>1. Init => NoLossInv
  BY NoLossInit DEF NoLossInv
<1> QED BY <1>1, NoLossNext, PTL DEF Spec

(* Without drops server 0 counts exactly the servers that have something   *)
(* left to send or to receive, and never below zero.                       *)
THEOREM CountsWithoutLoss == Spec => []CountsUnlessLossy
<1>1. NoLossInv => CountsUnlessLossy
  BY DEF NoLossInv, AllAccountedFor, CountsUnlessLossy
<1> QED BY <1>1, NoLossInvariant, PTL

(* Without drops the simulation only ends when nothing of the schedule is  *)
(* left to send or under way.                                              *)
THEOREM EndsInTimeWithoutLoss == Spec => []EndsInTimeUnlessLossy
<1>1. NoLossInv => EndsInTimeUnlessLossy
  <2> SUFFICES ASSUME NoLossInv, ~ lossy, ended, NEW p \in Pairs
               PROVE  toSnd[p] = 0 /\ inFlight[p] = 0
    BY DEF EndsInTimeUnlessLossy, EndsOnlyWhenFinished
  <2>1. Cardinality(Unfinished(toSnd, toRcv, lost)) = 0
    BY DEF NoLossInv, AllAccountedFor, LeftToFinishCounts
  <2>2. Unfinished(toSnd, toRcv, lost) = {}
    BY <2>1, UnfinishedFinite, FS_EmptySet
  <2>3. p[1] \in Servers /\ p[2] \in Servers
    BY DEF Pairs
  <2>4. toSnd[p] = 0 /\ toRcv[p] - lost[p] = 0
    BY <2>2, <2>3 DEF Unfinished, Finished
  <2> QED BY <2>4 DEF NoLossInv, AllAccountedFor
<1> QED BY <1>1, NoLossInvariant, PTL

-----------------------------------------------------------------------------
(* With or without drops.                                                  *)

RestInv ==
  /\ toSnd \in [Pairs -> Int] /\ inFlight \in [Pairs -> Int]
  /\ toRcv \in [Pairs -> Int] /\ lost \in [Pairs -> Int]
  /\ ReceiverWaitsForRest

(* A drop is counted at the destination unless the source's signal, which  *)
(* comes first, has ended the simulation.                                  *)
LEMMA DropCounts ==
  ASSUME NEW p \in Pairs, Drop(p), ~ ended'
  PROVE  lost' = RecordDrop(p)
<1> DEFINE counted == RecordDrop(p)
           srcFirst == p[1] < p[2]
           srcDone == Finished(p[1], toSnd, toRcv, IF srcFirst THEN lost ELSE counted)
           dstDone == Finished(p[2], toSnd, toRcv, counted)
           after1 == IF (IF srcFirst THEN srcDone ELSE dstDone)
                     THEN Decrement(leftToFinish) ELSE leftToFinish
           ends1 == after1 = 0 /\ after1 # leftToFinish /\ ~ statsPending
           after2 == IF (IF srcFirst THEN dstDone ELSE srcDone)
                     THEN Decrement(after1) ELSE after1
           ends2 == after2 = 0 /\ after2 # after1 /\ ~ statsPending
<1>1. /\ lost' = IF srcFirst /\ ends1 THEN lost ELSE counted
      /\ ended' = (ends1 \/ ends2)
  BY DEF Drop
<1> HIDE DEF counted, srcFirst, ends1, ends2
<1>2. ~ ends1
  BY <1>1
<1>3. lost' = counted
  BY <1>1, <1>2
<1> QED BY <1>3 DEF counted

(* Every step, losses included, keeps what a receiver waits for.           *)
LEMMA RestNext == RestInv /\ [Next]_vars => RestInv'
<1> SUFFICES ASSUME RestInv, [Next]_vars PROVE RestInv'
  OBVIOUS
<1> USE DEF RestInv, ReceiverWaitsForRest
<1>1. CASE UNCHANGED vars
  BY <1>1 DEF vars
<1>2. ASSUME NEW p \in Pairs, Send(p) PROVE RestInv'
  BY <1>2 DEF Send, RecordSent
<1>3. ASSUME NEW p \in Pairs, Receive(p) PROVE RestInv'
  BY <1>3 DEF Receive, RecordReceived
<1>4. ASSUME NEW p \in Pairs, Drop(p) PROVE RestInv'
  <2>1. /\ inFlight' = [inFlight EXCEPT ![p] = @ - 1]
        /\ toSnd' = toSnd /\ toRcv' = toRcv /\ ~ ended
    BY <1>4 DEF Drop
  <2>2. lost' = lost \/ lost' = RecordDrop(p)
    BY <1>4 DEF Drop
  <2>3. RecordDrop(p) = [lost EXCEPT ![p] = @ + 1]
    BY DEF RecordDrop
  <2>4. lost' \in [Pairs -> Int]
    BY <2>2, <2>3
  <2>5. ASSUME ~ ended', NEW q \in Pairs
        PROVE  toRcv'[q] - lost'[q] = toSnd'[q] + inFlight'[q]
    <3>1. lost' = [lost EXCEPT ![p] = @ + 1]
      BY <1>4, <2>3, <2>5, DropCounts
    <3>2. toRcv[q] - lost[q] = toSnd[q] + inFlight[q]
      BY <2>1
    <3>3. toRcv[q] \in Int /\ lost[q] \in Int /\ toSnd[q] \in Int /\ inFlight[q] \in Int
      OBVIOUS
    <3>4. CASE q = p
      <4>1. /\ lost'[q] = lost[q] + 1 /\ inFlight'[q] = inFlight[q] - 1
            /\ toRcv'[q] = toRcv[q] /\ toSnd'[q] = toSnd[q]
        BY <2>1, <3>1, <3>4
      <4> QED BY ONLY <3>2, <3>3, <4>1
    <3>5. CASE q # p
      <4>1. lost'[q] = lost[q] /\ inFlight'[q] = inFlight[q]
        BY <2>1, <3>1, <3>5
      <4> QED BY <2>1, <3>2, <4>1
    <3> QED BY <3>4, <3>5
  <2>6. ReceiverWaitsForRest'
    BY <2>5
  <2>7. /\ toSnd' \in [Pairs -> Int] /\ inFlight' \in [Pairs -> Int]
        /\ toRcv' \in [Pairs -> Int]
    BY <2>1
  <2> QED BY ONLY <2>4, <2>6, <2>7 DEF RestInv
<1>5. CASE EmitIntervalStats
  BY <1>5 DEF EmitIntervalStats
<1> QED BY <1>1, <1>2, <1>3, <1>4, <1>5 DEF Next

(* A destination waits for what is to be sent and under way, wherever a    *)
(* queue on the way drops a packet, for every schedule and every order of  *)
(* sends, arrivals and drops (recordDrop(), receiveSignal()).              *)
THEOREM ReceiverCountsLosses == Spec => []ReceiverWaitsForRest
<1>1. Init => RestInv
  <2> SUFFICES ASSUME Init PROVE RestInv
    OBVIOUS
  <2>1. toSnd \in [Pairs -> Int]
    BY MaxBacklogAssumption DEF Init, Schedules
  <2>2. inFlight = [p \in Pairs |-> 0] /\ lost = [p \in Pairs |-> 0] /\ toRcv = toSnd
    BY DEF Init
  <2> QED BY <2>1, <2>2 DEF RestInv, ReceiverWaitsForRest
<1>2. RestInv => ReceiverWaitsForRest
  BY DEF RestInv
<1> QED BY <1>1, <1>2, RestNext, PTL DEF Spec

-----------------------------------------------------------------------------
(* The search of the highest rate: the edge lies between the bounds, which *)
(* are rates that have been tried, and so does the rate.                   *)
RateBracketed ==
  /\ value \in Int /\ lastOver \in Int /\ lastUnder \in Int
  /\ lastUnder <= config.edge /\ config.edge < lastOver
  /\ lastUnder <= value /\ value <= lastOver
  /\ event = "none" =>
       /\ emitted = lastUnder
       /\ 99 * (config.edge - emitted) <= 100 * adjust

(* The search of the smallest size, if there is no limit in bytes: the     *)
(* same, the other way round.                                              *)
SizeBracketed ==
  /\ bytes = 0
  /\ value \in Nat \ {0} /\ lastOver \in Nat /\ lastUnder \in 0 .. ULONG_MAX
  /\ lastOver < config.edge /\ config.edge <= lastUnder
  /\ lastOver <= value /\ value <= lastUnder
  /\ event = "none" => emitted = config.edge

SearchInv ==
  /\ config \in Configs
  /\ event \in {"start", "check", "none"}
  /\ config.adjusts = "rate" /\ ~ config.noisy => RateBracketed
  /\ config.adjusts = "queue" /\ config.useMM1K /\ config.bytes = 0 => SizeBracketed

(* The larger and the smaller of two numbers.                              *)
LEMMA MaxMinOfTwo ==
  ASSUME NEW a \in Int, NEW b \in Int
  PROVE  /\ Max({a, b}) = IF a >= b THEN a ELSE b
         /\ Min({a, b}) = IF a <= b THEN a ELSE b
<1>1. Max({a, b}) \in {a, b} /\ \A y \in {a, b} : Max({a, b}) >= y
  <2>1. \E x \in {a, b} : \A y \in {a, b} : x >= y
    OBVIOUS
  <2> QED BY <2>1 DEF Max
<1>2. Min({a, b}) \in {a, b} /\ \A y \in {a, b} : Min({a, b}) <= y
  <2>1. \E x \in {a, b} : \A y \in {a, b} : x <= y
    OBVIOUS
  <2> QED BY <2>1 DEF Min
<1> DEFINE mx == Max({a, b})  mn == Min({a, b})
<1> HIDE DEF mx, mn
<1>3. mx \in {a, b} /\ mx >= a /\ mx >= b
  BY <1>1 DEF mx
<1>4. mn \in {a, b} /\ mn <= a /\ mn <= b
  BY <1>2 DEF mn
<1>5. mx = (IF a >= b THEN a ELSE b) /\ mn = (IF a <= b THEN a ELSE b)
  BY <1>3, <1>4
<1> QED BY <1>5 DEF mx, mn

(* A value brought between two bounds, of which the first one prevails,    *)
(* is strictly between any two values that both bounds are between.        *)
LEMMA BetweenFact ==
  ASSUME NEW new \in Int, NEW low \in Int, NEW high \in Int,
         NEW lo \in Int, NEW hi \in Int, lo < low, low < hi, high < hi
  PROVE  Between(new, low, high) \in Int /\ lo < Between(new, low, high) /\ Between(new, low, high) < hi
<1> DEFINE m == Min({new, high})
<1>1. m \in Int /\ m <= high
  <2>1. m = IF new <= high THEN new ELSE high
    BY MaxMinOfTwo
  <2> QED BY <2>1
<1>2. Max({low, m}) = IF low >= m THEN low ELSE m
  <2> HIDE DEF m
  <2> QED BY <1>1, MaxMinOfTwo
<1>3. Between(new, low, high) = Max({low, m})
  BY DEF Between
<1> HIDE DEF m
<1> QED BY <1>1, <1>2, <1>3

(* Rates are whole parts of a step, and lie within the link rate.          *)
LEMMA RateFacts ==
  /\ adjust \in Nat \ {0} /\ linkRate \in Nat
  /\ \A k \in 0 .. Steps : k * adjust \in 0 .. linkRate
  /\ \A k \in 0 .. Steps - 1 : k * adjust < linkRate
  /\ Rates \subseteq 0 .. linkRate
<1>1. adjust \in Nat \ {0} /\ Steps \in Nat /\ linkRate = Steps * adjust /\ linkRate \in Nat
  BY StepsAssumption DEF adjust, linkRate
<1>2. ASSUME NEW a \in Nat \ {0}, NEW s \in Nat, NEW k \in 0 .. s
      PROVE  k * a \in Nat /\ k * a <= s * a /\ (k < s => k * a < s * a)
  <2>1. (s - k) * a \in Nat /\ (s - k < 1 \/ (s - k) * a >= 1)
    OBVIOUS
  <2>2. s * a = k * a + (s - k) * a /\ k * a \in Nat
    OBVIOUS
  <2> DEFINE x == k * a  y == s * a  z == (s - k) * a
  <2>3. x \in Nat /\ y = x + z /\ z \in Nat /\ (s - k < 1 \/ z >= 1)
    BY <2>1, <2>2
  <2> HIDE DEF x, y, z
  <2>4. x \in Nat /\ x <= y /\ (k < s => x < y)
    BY <2>3
  <2> QED BY <2>4 DEF x, y
<1>3. \A k \in 0 .. Steps : k * adjust \in 0 .. linkRate
  BY <1>1, <1>2
<1>4. \A k \in 0 .. Steps - 1 : k * adjust < linkRate
  BY <1>1, <1>2
<1> QED BY <1>1, <1>3, <1>4 DEF Rates

(* What a configuration says, and that the edge can be found.              *)
LEMMA ConfigFacts ==
  ASSUME config \in Configs
  PROVE  /\ config.adjusts \in {"rate", "queue"} /\ config.useMM1K \in BOOLEAN
         /\ config.edge \in Nat /\ config.noisy \in BOOLEAN
         /\ config.adjusts = "rate" => config.edge < linkRate
         /\ config.adjusts = "queue" =>
              config.edge \in 1 .. MaxEstimate /\ ~ config.noisy
<1>1. CASE config.adjusts = "rate"
  <2>1. PICK k \in 0 .. Steps - 1 : config.edge = k * adjust
    BY <1>1 DEF Configs
  <2>2. config.edge \in 0 .. linkRate /\ config.edge < linkRate
    BY <2>1, RateFacts, StepsAssumption
  <2>3. config.useMM1K \in BOOLEAN /\ config.noisy \in BOOLEAN
    BY <1>1 DEF Configs
  <2> QED BY <1>1, <2>2, <2>3, RateFacts
<1>2. CASE config.adjusts # "rate"
  <2>1. /\ config.adjusts = "queue" /\ config.useMM1K \in BOOLEAN
        /\ config.edge \in 1 .. MaxEstimate /\ config.noisy = FALSE
    BY <1>2 DEF Configs
  <2>2. config.edge \in Nat
    BY <2>1, SizesAssumption
  <2>3. config.adjusts # "rate"
    BY <2>1
  <2> QED BY <2>1, <2>2, <2>3, Zenon
<1> QED BY <1>1, <1>2

(* The search begins with bounds that hold everything.                     *)
LEMMA SearchInvInit == SearchInit => SearchInv
<1> SUFFICES ASSUME SearchInit PROVE SearchInv
  OBVIOUS
<1>1. /\ config \in Configs /\ event = "start" /\ bytes = config.bytes
      /\ \/ config.adjusts = "rate"
            /\ value \in Rates \ {0} /\ lastOver = linkRate /\ lastUnder = 0
         \/ config.adjusts = "queue"
            /\ value \in QueueSizes \cup (IF bytes = 0 THEN {} ELSE {0})
            /\ lastOver = 0 /\ lastUnder = ULONG_MAX
  BY DEF SearchInit
<1>2. CASE config.adjusts = "rate"
  <2>1. value \in 0 .. linkRate /\ lastOver = linkRate /\ lastUnder = 0
    BY <1>1, <1>2, RateFacts
  <2> QED BY <1>1, <1>2, <2>1, ConfigFacts, RateFacts DEF SearchInv, RateBracketed
<1>3. CASE config.adjusts = "queue"
  <2> SUFFICES ASSUME config.bytes = 0 PROVE SizeBracketed
    BY <1>1, <1>3 DEF SearchInv
  <2>1. /\ value \in 1 .. ULONG_MAX /\ lastOver = 0 /\ lastUnder = ULONG_MAX /\ bytes = 0
        /\ config.edge \in 1 .. MaxEstimate
    BY <1>1, <1>3, SizesAssumption, ConfigFacts
  <2> QED BY <1>1, <2>1, SizesAssumption DEF SizeBracketed
<1> QED BY <1>1, <1>2, <1>3, ConfigFacts

(* The search is at an end, and the gap between the bounds is small, or    *)
(* the new rate lies strictly between the bounds.                          *)
LEMMA NewRateFact ==
  ASSUME NEW guess \in Int, NEW over \in Int, NEW under \in Int, value \in {over, under},
         under < over
  PROVE  \/ /\ NewRate(guess, over, under) = [new |-> value, ends |-> TRUE]
            /\ 99 * (over - under) <= 100 * adjust
         \/ \E rate \in Int : /\ NewRate(guess, over, under) = [new |-> rate, ends |-> FALSE]
                              /\ under < rate /\ rate < over
<1>1. adjust \in Nat \ {0} /\ value \in Int
  BY RateFacts
<1> DEFINE wild == \/ guess >= over /\ value <= under
                   \/ guess <= under /\ value >= over
           new == IF wild THEN (over + under) \div 2 ELSE guess
<1>2. CASE 99 * (over - under) <= 100 * adjust
  <2>1. NewRate(guess, over, under) = Going(value)
    BY <1>2 DEF NewRate
  <2> QED BY <1>2, <2>1 DEF Going
<1>3. CASE ~ (99 * (over - under) <= 100 * adjust)
  <2> DEFINE low == under + adjust  high == over - adjust
             rate == Between(new, low, high)
  <2>1. NewRate(guess, over, under) = Going(rate)
    BY <1>3 DEF NewRate
  <2>2. new \in Int
    OBVIOUS
  <2>3. low \in Int /\ high \in Int /\ under < low /\ low < over /\ high < over
    BY <1>1, <1>3
  <2> HIDE DEF new, low, high
  <2>4. rate \in Int /\ under < rate /\ rate < over
    BY <2>2, <2>3, BetweenFact
  <2> HIDE DEF rate
  <2>5. rate # value
    BY <2>4
  <2> QED BY <2>1, <2>4, <2>5 DEF Going
<1> QED BY <1>2, <1>3

(* The same of the search by steps, where the new rate may be the upper    *)
(* bound, if that is what rounding makes of bounds a step apart.           *)
LEMMA NextRatesFact ==
  ASSUME NEW isOver \in BOOLEAN, NEW over \in Int, NEW under \in Int, value \in {over, under},
         under < over, NEW next \in NextRates(isOver, over, under)
  PROVE  \/ next = [new |-> value, ends |-> TRUE] /\ over - under <= adjust
         \/ \E rate \in Int : /\ next = [new |-> rate, ends |-> FALSE]
                              /\ under < rate /\ rate <= over
<1>1. adjust \in Nat \ {0} /\ value \in Int
  BY RateFacts
<1> DEFINE new == IF isOver THEN value - adjust ELSE value + adjust
           low == under + adjust
           high == over - adjust
           rate == Between(new, low, high)
<1>2. \/ over - under <= adjust /\ next = [new |-> value, ends |-> TRUE]
      \/ ~ (over - under < adjust) /\ next = [new |-> rate, ends |-> FALSE]
  BY DEF NextRates
<1>3. CASE over - under <= adjust /\ next = [new |-> value, ends |-> TRUE]
  BY <1>3
<1>4. CASE ~ (over - under < adjust) /\ next = [new |-> rate, ends |-> FALSE]
  <2>1. new \in Int
    BY <1>1
  <2>2. low \in Int /\ high \in Int /\ under < low /\ low < over + 1 /\ high < over + 1
    BY <1>1, <1>4
  <2> HIDE DEF new, low, high
  <2>3. rate \in Int /\ under < rate /\ rate < over + 1
    BY <2>1, <2>2, BetweenFact
  <2> HIDE DEF rate
  <2>4. rate \in Int /\ under < rate /\ rate <= over
    BY <2>3
  <2> QED BY <1>4, <2>4
<1> QED BY <1>2, <1>3, <1>4

(* A measurement moves one bound of the rate, and the new rate between the *)
(* bounds, or ends the search.                                             *)
LEMMA AdjustRateFact ==
  ASSUME SearchInv, config.adjusts = "rate", ~ config.noisy, NEW loss,
         Measurable(loss), AdjustRate(loss), UNCHANGED config
  PROVE  SearchInv'
<1> DEFINE isOver == LossObserved(loss) > LossThreshold
           over   == IF isOver THEN value ELSE lastOver
           under  == IF isOver THEN lastUnder ELSE value
<1>1. RateBracketed /\ config \in Configs
  BY DEF SearchInv
<1>2. config.edge \in Nat /\ adjust \in Nat \ {0}
  BY <1>1, ConfigFacts, RateFacts
<1>3. isOver <=> value > config.edge
  BY DEF Measurable
<1>4. /\ over \in Int /\ under \in Int /\ under <= config.edge /\ config.edge < over
      /\ value \in {over, under} /\ value \in Int
  <2> HIDE DEF isOver
  <2> QED BY <1>1, <1>2, <1>3 DEF RateBracketed
<1>5. PICK r \in AdjustedRate(loss) :
        /\ lastOver' = r.over /\ lastUnder' = r.under
        /\ value' = r.next.new /\ UNCHANGED bytes
        /\ IF r.next.ends THEN emitted' = r.under /\ event' = "none"
           ELSE emitted' = r.next.new /\ event' = "start"
  BY DEF AdjustRate
<1>6. /\ r.over = over /\ r.under = under
      /\ r.next \in IF config.useMM1K
                    THEN {NewRate(g, over, under) : g \in RateGuesses(loss)}
                    ELSE NextRates(isOver, over, under)
  BY <1>5 DEF AdjustedRate
<1>7. \/ r.next = [new |-> value, ends |-> TRUE] /\ 99 * (over - under) <= 100 * adjust
      \/ \E rate \in Int : /\ r.next = [new |-> rate, ends |-> FALSE]
                           /\ under < rate /\ rate <= over
  <2>1. CASE config.useMM1K
    <3>1. PICK g \in RateGuesses(loss) : r.next = NewRate(g, over, under)
      BY <1>6, <2>1
    <3>2. g \in Int
      BY RateFacts DEF RateGuesses
    <3> HIDE DEF over, under
    <3>3. under < over
      BY <1>2, <1>4
    <3> QED BY <1>2, <1>4, <3>1, <3>2, <3>3, NewRateFact
  <2>2. CASE ~ config.useMM1K
    <3>1. r.next \in NextRates(isOver, over, under) /\ isOver \in BOOLEAN
      BY <1>6, <2>2
    <3> HIDE DEF over, under, isOver
    <3>2. under < over
      BY <1>2, <1>4
    <3>3. \/ r.next = [new |-> value, ends |-> TRUE] /\ over - under <= adjust
          \/ \E rate \in Int : /\ r.next = [new |-> rate, ends |-> FALSE]
                               /\ under < rate /\ rate <= over
      BY <1>4, <3>1, <3>2, NextRatesFact
    <3>4. over - under <= adjust => 99 * (over - under) <= 100 * adjust
      BY <1>2, <1>4, <3>2
    <3> QED BY <3>3, <3>4
  <2> QED BY <2>1, <2>2
<1>8. /\ value' \in Int /\ lastOver' = over /\ lastUnder' = under
      /\ under <= value' /\ value' <= over
      /\ event' = "none" => 99 * (over - under) <= 100 * adjust
  <2>1. CASE r.next = [new |-> value, ends |-> TRUE] /\ 99 * (over - under) <= 100 * adjust
    <3> HIDE DEF over, under
    <3> QED BY <1>2, <1>4, <1>5, <1>6, <2>1
  <2>2. CASE \E rate \in Int : /\ r.next = [new |-> rate, ends |-> FALSE]
                              /\ under < rate /\ rate <= over
    <3>1. PICK rate \in Int : /\ r.next = [new |-> rate, ends |-> FALSE]
                              /\ under < rate /\ rate <= over
      BY <2>2
    <3> HIDE DEF over, under
    <3> QED BY <1>2, <1>4, <1>5, <1>6, <3>1
  <2> QED BY <1>7, <2>1, <2>2
<1>9. /\ event' \in {"start", "none"}
      /\ event' = "none" => emitted' = under
  BY <1>5, <1>6
<1>10. event' = "none" => 99 * (config.edge - emitted') <= 100 * adjust
  <2> HIDE DEF over, under
  <2>1. SUFFICES ASSUME event' = "none" PROVE 99 * (config.edge - emitted') <= 100 * adjust
    OBVIOUS
  <2>2. 99 * (over - under) <= 100 * adjust /\ emitted' = under
    BY <1>8, <1>9, <2>1
  <2>3. config.edge - emitted' < over - under
    BY <1>2, <1>4, <2>2
  <2> QED BY <1>2, <1>4, <2>2, <2>3
<1>11. RateBracketed'
  <2> HIDE DEF over, under
  <2> QED BY <1>2, <1>4, <1>8, <1>9, <1>10 DEF RateBracketed, adjust
<1> QED BY <1>1, <1>2, <1>9, <1>11 DEF SearchInv

(* The same of the new size, whose arithmetic does not wrap.               *)
LEMMA NewSizeFact ==
  ASSUME NEW size \in Int, NEW guess \in Int, NEW over \in Nat, NEW under \in 0 .. ULONG_MAX,
         over < under
  PROVE  \/ NewSize(size, guess, over, under) = size /\ under - over <= 1
         \/ /\ NewSize(size, guess, over, under) \in Int
            /\ over < NewSize(size, guess, over, under)
            /\ NewSize(size, guess, over, under) < under
<1> DEFINE wild == \/ guess >= under /\ size <= over
                   \/ guess <= over /\ size >= under
           new == IF wild THEN Unsigned(under + over) \div 2 ELSE guess
<1>1. /\ Unsigned(under + over) \in Int /\ Unsigned(under - 1) = under - 1
      /\ Unsigned(under - over) = under - over
  <2>1. \A n \in Nat : \A m \in Nat \ {0} : n % m \in Int /\ (n < m => n % m = n)
    OBVIOUS
  <2> QED BY <2>1, SizesAssumption DEF Unsigned
<1>2. CASE under - over <= 1
  BY <1>1, <1>2 DEF NewSize
<1>3. CASE ~ (under - over <= 1)
  <2>1. new \in Int
    BY <1>1
  <2>2. NewSize(size, guess, over, under) = Between(new, over + 1, under - 1)
    BY <1>1, <1>3 DEF NewSize, Between
  <2> DEFINE low == over + 1  high == under - 1
  <2>3. low \in Int /\ high \in Int /\ over < low /\ low < under /\ high < under
    BY <1>3
  <2> HIDE DEF new, low, high
  <2>4. /\ Between(new, low, high) \in Int
        /\ over < Between(new, low, high) /\ Between(new, low, high) < under
    BY <2>1, <2>3, BetweenFact
  <2> QED BY <2>2, <2>4 DEF low, high
<1> QED BY <1>2, <1>3

(* A measurement moves one bound of the size.                              *)
LEMMA AdjustSizeFact ==
  ASSUME SearchInv, config.adjusts = "queue", config.useMM1K, config.bytes = 0, NEW loss,
         Measurable(loss), AdjustSize(loss), UNCHANGED config
  PROVE  SearchInv'
<1> DEFINE isOver == LossObserved(loss) > LossThreshold
           over   == IF isOver THEN Max({value, lastOver}) ELSE lastOver
           under  == IF isOver THEN lastUnder ELSE Min({value, lastUnder})
<1>1. ~ config.noisy /\ SizeBracketed /\ config \in Configs
  BY ConfigFacts DEF SearchInv
<1>2. config.edge \in 1 .. MaxEstimate
  BY <1>1, ConfigFacts
<1>3. isOver <=> value < config.edge
  BY <1>1 DEF Measurable, SizeBracketed
<1>4. /\ over \in Nat /\ under \in 0 .. ULONG_MAX /\ over < config.edge /\ config.edge <= under
      /\ value \in {over, under} /\ value \in Nat \ {0}
  <2>1. /\ Max({value, lastOver}) = value
        /\ Min({value, lastUnder}) = value
    BY <1>1, MaxMinOfTwo DEF SizeBracketed
  <2> HIDE DEF isOver
  <2> QED BY <1>1, <1>2, <1>3, <2>1, SizesAssumption DEF SizeBracketed
<1>5. PICK guess \in SizeGuesses(loss) :
        /\ lastOver' = over /\ lastUnder' = under
        /\ value' = NewSize(value, guess, over, under) /\ bytes' = 0
        /\ IF NewSize(value, guess, over, under) # value
           THEN emitted' = NewSize(value, guess, over, under) /\ event' = "start"
           ELSE emitted' = under /\ event' = "none"
  BY <1>1 DEF AdjustSize, SizeBracketed
<1>6. guess \in Int
  <2>1. CASE LossObserved(loss) = 0
    <3>1. PICK q \in PktsSeen(loss) : guess = Max({q, 1})
      BY <1>5, <2>1 DEF SizeGuesses
    <3>2. value # 0 /\ value \in Int /\ config.edge \in Int /\ bytes = 0
      BY <1>1, <1>2, <1>4 DEF SizeBracketed
    <3>3. q \in Int
      BY <3>1, <3>2 DEF PktsSeen
    <3> QED BY <3>1, <3>3, MaxMinOfTwo
  <2>2. CASE LossObserved(loss) # 0
    BY <1>5, <2>2, SizesAssumption DEF SizeGuesses
  <2> QED BY <2>1, <2>2
<1> HIDE DEF over, under
<1>7. \/ value' = value /\ under - over <= 1
      \/ value' \in Int /\ over < value' /\ value' < under
  BY <1>2, <1>4, <1>5, <1>6, NewSizeFact, SizesAssumption
<1>8. event' \in {"start", "none"} /\ (event' = "none" => emitted' = under /\ value' = value)
  BY <1>5
<1>9. event' = "none" => emitted' = config.edge
  BY <1>2, <1>4, <1>7, <1>8
<1>10. SizeBracketed'
  BY <1>2, <1>4, <1>5, <1>7, <1>9, SizesAssumption DEF SizeBracketed
<1> QED BY <1>1, <1>8, <1>10 DEF SearchInv

(* Every measurement keeps the invariant.                                  *)
LEMMA SearchInvStep == SearchInv /\ [SearchNext]_searchVars => SearchInv'
<1> SUFFICES ASSUME SearchInv, [SearchNext]_searchVars PROVE SearchInv'
  OBVIOUS
<1>1. CASE StartMeasurement
  <2>1. /\ event = "start" /\ event' = "check" /\ config' = config /\ value' = value
        /\ bytes' = bytes
        /\ lastOver' = lastOver /\ lastUnder' = lastUnder /\ emitted' = emitted
    BY <1>1 DEF StartMeasurement
  <2>2. RateBracketed => RateBracketed'
    BY <2>1 DEF RateBracketed, adjust
  <2>3. SizeBracketed => SizeBracketed'
    BY <2>1 DEF SizeBracketed
  <2> QED BY <2>1, <2>2, <2>3 DEF SearchInv
<1>2. CASE CheckNetworkLoss
  <2>1. PICK loss \in [Flows -> 0 .. 2] :
          /\ Measurable(loss)
          /\ CASE config.adjusts = "rate" -> AdjustRate(loss)
               [] config.adjusts = "queue" /\ config.useMM1K -> AdjustSize(loss)
               [] OTHER -> DecrementSize(loss)
    BY <1>2 DEF CheckNetworkLoss
  <2>2. event = "check" /\ UNCHANGED config
    BY <1>2 DEF CheckNetworkLoss
  <2>3. /\ config.adjusts \in {"rate", "queue"} /\ config.useMM1K \in BOOLEAN
        /\ config \in Configs
        /\ config.adjusts = "queue" => ~ config.noisy
    BY ConfigFacts DEF SearchInv
  <2>4. CASE config.adjusts = "rate" /\ ~ config.noisy
    BY <2>1, <2>2, <2>4, AdjustRateFact
  <2>5. CASE config.adjusts = "rate" /\ config.noisy
    <3>1. AdjustRate(loss)
      BY <2>1, <2>5
    <3>2. event' \in {"start", "none"}
      BY <3>1 DEF AdjustRate
    <3> QED BY <2>2, <2>3, <2>5, <3>2 DEF SearchInv
  <2>6. CASE config.adjusts = "queue" /\ config.useMM1K /\ config.bytes = 0
    BY <2>1, <2>2, <2>6, AdjustSizeFact
  <2>7. CASE config.adjusts = "queue" /\ ~ (config.useMM1K /\ config.bytes = 0)
    <3>1. AdjustSize(loss) \/ DecrementSize(loss)
      BY <2>1, <2>7
    <3>2. event' \in {"start", "none"}
      BY <3>1 DEF AdjustSize, DecrementSize
    <3> QED BY <2>2, <2>3, <2>7, <3>2 DEF SearchInv
  <2> QED BY <2>3, <2>4, <2>5, <2>6, <2>7
<1>3. CASE UNCHANGED searchVars
  BY <1>3 DEF searchVars, SearchInv, RateBracketed, SizeBracketed, adjust
<1> QED BY <1>1, <1>2, <1>3 DEF SearchNext

(* In a network whose loss depends on the rate or size alone, a search for *)
(* a rate ends with the highest one within the threshold up to the step,   *)
(* and one for a size by the M/M/1/K model, without a limit in bytes, with *)
(* the smallest one within it, for any range and step and however far off  *)
(* the estimates are (MA_AdjustRateToThreshold::autoAdjust_...() and       *)
(* MA_AdjustQueueSizeToRate::autoAdjust_UseMM1Estimation()).               *)
THEOREM SearchFindsEdge == SearchSpec => []FindsEdge
<1>1. SearchInv => FindsEdge
  <2> SUFFICES ASSUME SearchInv, event = "none", ~ config.noisy PROVE FindsEdge
    BY DEF FindsEdge
  <2>1. config.adjusts \in {"rate", "queue"} /\ config.edge \in Nat /\ config.useMM1K \in BOOLEAN
    BY ConfigFacts DEF SearchInv
  <2>2. CASE config.adjusts = "rate"
    BY <2>1, <2>2 DEF SearchInv, RateBracketed, FindsEdge
  <2>3. CASE config.adjusts = "queue"
    BY <2>1, <2>3 DEF SearchInv, SizeBracketed, FindsEdge
  <2> QED BY <2>1, <2>2, <2>3
<1> QED BY <1>1, SearchInvInit, SearchInvStep, PTL DEF SearchSpec
=============================================================================
