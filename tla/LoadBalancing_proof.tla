------------------------ MODULE LoadBalancing_proof -------------------------
(***************************************************************************)
(* What each balancing scheme keeps invariant, packet by packet, for every *)
(* number of paths, every quantum and all packet sizes up to MaxPkt, and   *)
(* what a server gets from the one it is configured with: its paths are    *)
(* balanced as well as the scheme promises, and sorted deficit implements  *)
(* LeastLoadedFirst.                                                       *)
(* Then the resequencer that undoes what balancing does to the order:      *)
(* packets go up in order although their numbers wrap around, some are     *)
(* lost, timeouts give up on packets that are only late, and the buffer is *)
(* thrown away while packets are under way.  The numbers stand for numbers *)
(* that do not wrap; that a number seen modulo the range stands for one of *)
(* them only is most of the work.                                          *)
(***************************************************************************)
EXTENDS LoadBalancing, SequenceNumberResequencer,
        SequenceTheorems, WellFoundedInduction, TLAPS

(* The path list is a permutation of the paths.                            *)
LEMMA ListFacts ==
  ASSUME NEW list \in PathLists
  PROVE  /\ list \in [Paths -> Paths]
         /\ \A i, j \in Paths : list[i] = list[j] => i = j
         /\ \A p \in Paths : \E i \in Paths : list[i] = p
BY DEF PathLists, Bijection, Injection, Surjection, IsInjective

(* A round shuffles a permutation into a permutation.                      *)
LEMMA ShuffleFacts ==
  ASSUME NEW list \in PathLists, NEW shuffled \in ShuffledLists(list)
  PROVE  shuffled \in PathLists
BY DEF ShuffledLists

(* There is a path 0, and paths are numbers.                               *)
LEMMA PathsFacts == 0 \in Paths /\ Paths \subseteq Int
BY NumPathsAssumption DEF Paths

(* Accounting keeps the loads integers.                                    *)
LEMMA AddLoadType ==
  ASSUME NEW loads \in [Paths -> Int], NEW path \in Paths, NEW load \in Int
  PROVE  AddLoad(loads, path, load) \in [Paths -> Int]
BY PathsFacts DEF AddLoad

-----------------------------------------------------------------------------
(* Round robin.                                                            *)

(* Round robin starts with no path used.                                   *)
LEMMA RRInitInv == RRInit => RRInv
<1> SUFFICES ASSUME RRInit PROVE RRInv
  OBVIOUS
<1>1. RRTypeOK
  BY NumPathsAssumption DEF RRInit, RRTypeOK, NoLoad
<1>2. ASSUME NEW i \in Paths, NEW j \in Paths
      PROVE  pathLoad[pathList[i]] - pathLoad[pathList[j]] = Used(i) - Used(j)
  <2>1. pathList[i] \in Paths /\ pathList[j] \in Paths
    BY ListFacts DEF RRInit
  <2>2. Used(i) = 0 /\ Used(j) = 0
    BY NumPathsAssumption DEF RRInit, Used
  <2> QED BY <2>1, <2>2 DEF RRInit, NoLoad
<1> QED BY <1>1, <1>2 DEF RRInv, RoundInv

(* Within a round the path at the next index comes to be used as often as  *)
(* those before it; a new round starts when all have been used equally.    *)
LEMMA RRStep ==
  ASSUME RRInv, RRHandleMessage
  PROVE  RRInv'
<1> DEFINE path == pathList'[currentIndex']
<1>1. /\ pathList \in PathLists
      /\ currentIndex \in 0 .. NumPaths
      /\ pathLoad \in [Paths -> Int]
  BY DEF RRInv, RRTypeOK
<1>2. /\ pathList' \in PathLists
      /\ currentIndex' \in Paths
  BY <1>1, ShuffleFacts, NumPathsAssumption
     DEF RRHandleMessage, RRChoosePath, NewRound, SameRound, Paths
<1>3. path \in Paths
  BY <1>2, ListFacts
<1>4. pathLoad' = AddLoad(pathLoad, path, 1)
  BY DEF RRHandleMessage, PerformAccounting
<1>5. pathLoad' \in [Paths -> Int]
  BY <1>1, <1>3, <1>4, AddLoadType
<1>6. RRTypeOK'
  BY <1>2, <1>5, NumPathsAssumption DEF RRTypeOK, Paths
<1>7. ASSUME NEW i \in Paths, NEW j \in Paths
      PROVE  (pathLoad[pathList'[i]] - pathLoad[pathList'[j]]
               = (IF i < currentIndex' THEN 1 ELSE 0) - (IF j < currentIndex' THEN 1 ELSE 0))
  <2>1. CASE NewRound
    <3>1. currentIndex + 1 >= NumPaths /\ currentIndex' = 0
      BY <1>1, <2>1, NumPathsAssumption
         DEF RRHandleMessage, RRChoosePath, NewRound, SameRound, Paths
    <3>2. \A k \in Paths : Used(k) = IF currentIndex = NumPaths THEN 0 ELSE 1
      BY <1>1, <3>1, NumPathsAssumption DEF Used, Paths
    <3>3. PICK k, l \in Paths : pathList[k] = pathList'[i] /\ pathList[l] = pathList'[j]
      <4>1. pathList'[i] \in Paths /\ pathList'[j] \in Paths
        BY <1>2, ListFacts
      <4>2. /\ \E k \in Paths : pathList[k] = pathList'[i]
            /\ \E l \in Paths : pathList[l] = pathList'[j]
        BY <1>1, <4>1, ListFacts
      <4> QED BY <4>2
    <3>4. pathLoad[pathList[k]] - pathLoad[pathList[l]] = 0
      BY <3>2 DEF RRInv, RoundInv
    <3>5. ~ (i < 0) /\ ~ (j < 0)
      BY DEF Paths
    <3> QED BY <3>1, <3>3, <3>4, <3>5
  <2>2. CASE ~ NewRound
    <3>1. pathList' = pathList /\ currentIndex' = currentIndex + 1
          /\ currentIndex < NumPaths
      BY <1>1, <2>2, NumPathsAssumption DEF RRHandleMessage, RRChoosePath, SameRound
    <3>2. \A k \in Paths : Used(k) = IF k < currentIndex' THEN 1 ELSE 0
      BY <1>1, <3>1, NumPathsAssumption DEF Used, Paths
    <3> QED BY <3>1, <3>2 DEF RRInv, RoundInv
  <2> QED BY <2>1, <2>2
<1>8. ASSUME NEW k \in Paths
      PROVE  Used(k)' = (IF k < currentIndex' THEN 1 ELSE 0) + (IF k = currentIndex' THEN 1 ELSE 0)
  BY <1>2, NumPathsAssumption DEF Used, Paths
<1>9. ASSUME NEW k \in Paths
      PROVE  pathLoad'[pathList'[k]]
               = pathLoad[pathList'[k]] + (IF k = currentIndex' THEN 1 ELSE 0)
                                        - (IF path = 0 THEN 1 ELSE 0)
  <2>1. pathList'[k] \in Paths /\ (pathList'[k] = path <=> k = currentIndex')
    BY <1>2, ListFacts
  <2> QED BY <1>4, <2>1 DEF AddLoad
<1>10. ASSUME NEW i \in Paths, NEW j \in Paths
       PROVE  pathLoad'[pathList'[i]] - pathLoad'[pathList'[j]] = Used(i)' - Used(j)'
  <2>1. pathLoad[pathList'[i]] \in Int /\ pathLoad[pathList'[j]] \in Int
    BY <1>1, <1>2, ListFacts
  <2> DEFINE bi == IF i < currentIndex' THEN 1 ELSE 0
             bj == IF j < currentIndex' THEN 1 ELSE 0
             ai == IF i = currentIndex' THEN 1 ELSE 0
             aj == IF j = currentIndex' THEN 1 ELSE 0
             z == IF path = 0 THEN 1 ELSE 0
  <2>2. /\ bi \in Int /\ bj \in Int /\ ai \in Int /\ aj \in Int /\ z \in Int
        /\ pathLoad[pathList'[i]] - pathLoad[pathList'[j]] = bi - bj
        /\ Used(i)' = bi + ai /\ Used(j)' = bj + aj
        /\ pathLoad'[pathList'[i]] = pathLoad[pathList'[i]] + ai - z
        /\ pathLoad'[pathList'[j]] = pathLoad[pathList'[j]] + aj - z
    BY <1>7, <1>8, <1>9
  <2> HIDE DEF bi, bj, ai, aj, z
  <2> QED BY ONLY <2>1, <2>2
<1> QED BY <1>6, <1>10 DEF RRInv, RoundInv

(* Paths used once more or once less differ by at most one.               *)
LEMMA RRFair == RRInv => PacketFair
<1> SUFFICES ASSUME RRInv, NEW p \in Paths, NEW r \in Paths
             PROVE  pathLoad[p] - pathLoad[r] <= 1
  BY DEF PacketFair, ImbalanceAtMost
<1>1. PICK i, j \in Paths : pathList[i] = p /\ pathList[j] = r
  BY ListFacts DEF RRInv, RRTypeOK
<1>2. pathLoad[p] - pathLoad[r] = Used(i) - Used(j)
  BY <1>1 DEF RRInv, RoundInv
<1>3. Used(i) \in {0, 1} /\ Used(j) \in {0, 1}
  BY DEF Used
<1> QED BY <1>2, <1>3

-----------------------------------------------------------------------------
(* Surplus round robin.                                                    *)

(* Rounds that are only added while no path has credits leave every path   *)
(* at most a quantum, and raise all paths by the same amount.              *)
LEMMA RoundsFacts ==
  ASSUME NEW dc \in [Paths -> Int], NEW rounds \in 1 .. MaxPkt,
         \A p \in Paths : dc[p] \in 1 - MaxPkt .. 0,
         \A k \in 1 .. rounds - 1 : Spent(AfterRounds(dc, k))
  PROVE  \E add \in Nat :
           /\ AfterRounds(dc, rounds) = [p \in Paths |-> dc[p] + add]
           /\ \A p \in Paths : dc[p] + add \in 1 - MaxPkt .. Quantum
<1> DEFINE add == rounds * Quantum
           before == (rounds - 1) * Quantum
<1>1. rounds \in Nat /\ Quantum \in Nat /\ MaxPkt \in Nat
  BY QuantumAssumption, MaxPktAssumption
<1>2. add \in Nat /\ before \in Nat
  BY <1>1
<1>3. add = before + Quantum
  BY <1>1
<1>4. ASSUME NEW p \in Paths PROVE dc[p] + before <= 0
  <2>1. CASE rounds = 1
    <3>1. before = 0
      BY <2>1, QuantumAssumption
    <3> QED BY <3>1, MaxPktAssumption
  <2>2. CASE rounds # 1
    <3>1. rounds - 1 \in 1 .. rounds - 1
      BY <2>2
    <3>2. AfterRounds(dc, rounds - 1)[p] <= 0
      BY <3>1 DEF Spent
    <3> QED BY <3>2 DEF AfterRounds
  <2> QED BY <2>1, <2>2
<1>5. ASSUME NEW p \in Paths PROVE dc[p] + add \in 1 - MaxPkt .. Quantum
  <2> HIDE DEF add, before
  <2> QED BY <1>1, <1>2, <1>3, <1>4
<1>6. AfterRounds(dc, rounds) = [p \in Paths |-> dc[p] + add]
  BY DEF AfterRounds
<1> QED BY <1>2, <1>5, <1>6

(* What a charge does to counters that are within their bounds and match   *)
(* the load, whichever path with credits it is made to.                    *)
LEMMA ChargeFacts ==
  ASSUME NEW dc \in [Paths -> Int], NEW loads \in [Paths -> Int],
         NEW path \in Paths, NEW bytes \in PktBytes,
         dc[path] > 0,
         \A p \in Paths : dc[p] \in 1 - MaxPkt .. Quantum,
         \A p, r \in Paths : loads[p] - loads[r] = dc[r] - dc[p],
         NEW dcNew, dcNew = [dc EXCEPT ![path] = @ - bytes]
  PROVE  /\ dcNew \in [Paths -> Int]
         /\ \A p \in Paths : dcNew[p] \in 1 - MaxPkt .. Quantum
         /\ \A p, r \in Paths :
              AddLoad(loads, path, bytes)[p] - AddLoad(loads, path, bytes)[r]
                = dcNew[r] - dcNew[p]
<1>1. bytes \in 1 .. MaxPkt
  BY PktBytesAssumption
<1>2. MaxPkt \in Nat /\ Quantum \in Nat
  BY MaxPktAssumption, QuantumAssumption
<1>3. dcNew \in [Paths -> Int]
  BY <1>1
<1>4. \A p \in Paths : dcNew[p] = dc[p] - (IF p = path THEN bytes ELSE 0)
  BY <1>1
<1>5. ASSUME NEW p \in Paths PROVE dcNew[p] \in 1 - MaxPkt .. Quantum
  BY <1>1, <1>2, <1>4
<1>6. ASSUME NEW p \in Paths, NEW r \in Paths
      PROVE  AddLoad(loads, path, bytes)[p] - AddLoad(loads, path, bytes)[r]
               = dcNew[r] - dcNew[p]
  <2> DEFINE onP == IF p = path THEN bytes ELSE 0
             onR == IF r = path THEN bytes ELSE 0
             onZero == IF path = 0 THEN bytes ELSE 0
  <2>1. /\ AddLoad(loads, path, bytes)[p] = loads[p] + onP - onZero
        /\ AddLoad(loads, path, bytes)[r] = loads[r] + onR - onZero
    BY DEF AddLoad
  <2>2. dcNew[p] = dc[p] - onP /\ dcNew[r] = dc[r] - onR
    BY <1>4
  <2>3. onP \in Int /\ onR \in Int /\ onZero \in Int
    BY <1>1
  <2>4. loads[p] \in Int /\ loads[r] \in Int /\ dc[p] \in Int /\ dc[r] \in Int
    OBVIOUS
  <2>5. loads[p] - loads[r] = dc[r] - dc[p]
    OBVIOUS
  <2> HIDE DEF onP, onR, onZero
  <2>6. (loads[p] + onP - onZero) - (loads[r] + onR - onZero) = (dc[r] - onR) - (dc[p] - onP)
    BY ONLY <2>3, <2>4, <2>5
  <2> QED BY <2>1, <2>2, <2>6
<1> QED BY <1>3, <1>5, <1>6

(* Surplus round robin starts with all counters spent.                     *)
LEMMA SRRInitInv == SRRInit => SRRInv
<1> SUFFICES ASSUME SRRInit PROVE SRRInv
  OBVIOUS
<1>1. SRRTypeOK
  BY PathsFacts, QuantumAssumption DEF SRRInit, SRRTypeOK, NoLoad
<1>2. CreditsBounded
  BY QuantumAssumption, MaxPktAssumption DEF SRRInit, CreditsBounded
<1>3. VisitedSpent
  BY DEF SRRInit, VisitedSpent, Paths
<1>4. CreditsMatchLoad
  BY QuantumAssumption DEF SRRInit, CreditsMatchLoad, NoLoad
<1> QED BY <1>1, <1>2, <1>3, <1>4 DEF SRRInv

(* A packet sent after zero or more rounds added the same to all counters. *)
LEMMA SRRCharged ==
  ASSUME SRRInv, NEW add \in Nat, NEW list \in PathLists,
         NEW start \in Paths, NEW bytes \in PktBytes, NEW dc,
         dc = [p \in Paths |-> deficitCounter[p] + add],
         \A p \in Paths : dc[p] \in 1 - MaxPkt .. Quantum,
         \A i \in Paths : i < start => dc[list[i]] <= 0,
         pathList' = list,
         currentIndex' \in Paths,
         FirstWithCredits(list, dc, start, currentIndex'),
         Charge(dc, list[currentIndex'], bytes),
         PerformAccounting(pathList'[currentIndex'], bytes)
  PROVE  SRRInv'
<1> DEFINE path == list[currentIndex']
<1> USE DEF SRRInv, SRRTypeOK
<1>1. /\ dc \in [Paths -> Int]
      /\ path \in Paths
      /\ dc[path] > 0
      /\ pathLoad' = AddLoad(pathLoad, path, bytes)
      /\ deficitCounter' = [dc EXCEPT ![path] = @ - bytes]
  BY ListFacts DEF FirstWithCredits, Charge, PerformAccounting
<1>2. \A p, r \in Paths : pathLoad[p] - pathLoad[r] = dc[r] - dc[p]
  BY <1>1 DEF CreditsMatchLoad
<1>3. /\ deficitCounter' \in [Paths -> Int]
      /\ CreditsBounded'
      /\ CreditsMatchLoad'
  <2>1. pathLoad \in [Paths -> Int]
    OBVIOUS
  <2> HIDE DEF path, SRRInv, SRRTypeOK
  <2>2. /\ deficitCounter' \in [Paths -> Int]
        /\ \A p \in Paths : deficitCounter'[p] \in 1 - MaxPkt .. Quantum
        /\ \A p, r \in Paths :
             AddLoad(pathLoad, path, bytes)[p] - AddLoad(pathLoad, path, bytes)[r]
               = deficitCounter'[r] - deficitCounter'[p]
    BY <1>1, <1>2, <2>1, ChargeFacts
  <2> QED BY <1>1, <2>2 DEF CreditsBounded, CreditsMatchLoad
<1>4. pathLoad' \in [Paths -> Int]
  <2>1. bytes \in Int /\ pathLoad \in [Paths -> Int]
    BY PktBytesAssumption
  <2> QED BY <1>1, <2>1, AddLoadType
<1>5. VisitedSpent'
  <2> SUFFICES ASSUME NEW i \in Paths, i < currentIndex'
               PROVE  deficitCounter'[list[i]] <= 0
    BY DEF VisitedSpent
  <2>1. dc[list[i]] <= 0
    BY PathsFacts DEF FirstWithCredits
  <2>2. list[i] \in Paths /\ list[i] # path
    <3>1. list[i] \in Paths
      BY ListFacts
    <3>2. ~ (dc[path] <= 0)
      BY <1>1
    <3> HIDE DEF path
    <3> QED BY <2>1, <3>1, <3>2
  <2>3. deficitCounter'[list[i]] = dc[list[i]]
    BY <1>1, <2>2
  <2> QED BY <2>1, <2>3
<1> QED BY <1>3, <1>4, <1>5

(* A packet of surplus round robin keeps its invariant.                    *)
LEMMA SRRStep ==
  ASSUME SRRInv, NEW bytes \in PktBytes, SRRHandleMessage(bytes)
  PROVE  SRRInv'
<1>1. PerformAccounting(pathList'[currentIndex'], bytes)
  BY DEF SRRHandleMessage
<1>2. CASE FoundInRound(bytes)
  <2>1. deficitCounter = [p \in Paths |-> deficitCounter[p] + 0]
    BY DEF SRRInv, SRRTypeOK
  <2>2. /\ pathList \in PathLists
        /\ currentIndex \in Paths
        /\ \A p \in Paths : deficitCounter[p] \in 1 - MaxPkt .. Quantum
        /\ \A i \in Paths : i < currentIndex => deficitCounter[pathList[i]] <= 0
    BY DEF SRRInv, SRRTypeOK, CreditsBounded, VisitedSpent
  <2> QED BY <1>1, <1>2, <2>1, <2>2, SRRCharged DEF FoundInRound
<1>3. CASE FoundAfterRounds(bytes)
  <2>1. \A p \in Paths : deficitCounter[p] \in 1 - MaxPkt .. 0
    <3> SUFFICES ASSUME NEW p \in Paths PROVE deficitCounter[p] \in 1 - MaxPkt .. 0
      OBVIOUS
    <3>1. PICK i \in Paths : pathList[i] = p
      BY ListFacts DEF SRRInv, SRRTypeOK
    <3>2. deficitCounter[p] <= 0
      BY <1>3, <3>1, PathsFacts DEF FoundAfterRounds, SRRInv, VisitedSpent, SRRTypeOK
    <3> QED BY <3>2, MaxPktAssumption, QuantumAssumption DEF SRRInv, CreditsBounded
  <2>2. PICK rounds \in 1 .. MaxPkt :
          /\ \A k \in 1 .. rounds - 1 : Spent(AfterRounds(deficitCounter, k))
          /\ pathList' \in ShuffledLists(pathList)
          /\ currentIndex' \in Paths
          /\ FirstWithCredits(pathList', AfterRounds(deficitCounter, rounds), 0, currentIndex')
          /\ Charge(AfterRounds(deficitCounter, rounds), pathList'[currentIndex'], bytes)
    BY <1>3 DEF FoundAfterRounds
  <2>3. PICK add \in Nat :
          /\ AfterRounds(deficitCounter, rounds) = [p \in Paths |-> deficitCounter[p] + add]
          /\ \A p \in Paths : deficitCounter[p] + add \in 1 - MaxPkt .. Quantum
    BY <2>1, <2>2, RoundsFacts DEF SRRInv, SRRTypeOK
  <2>4. pathList' \in PathLists
    BY <2>2, ShuffleFacts DEF SRRInv, SRRTypeOK
  <2>5. \A i \in Paths : ~ (i < 0)
    BY DEF Paths
  <2> QED BY <1>1, <1>3, <2>2, <2>3, <2>4, <2>5, PathsFacts, SRRCharged
<1> QED BY <1>2, <1>3 DEF SRRHandleMessage

(* Credits within their bounds that match the load bound its differences.  *)
LEMMA SRRFair == SRRInv => ByteFair
<1> SUFFICES ASSUME SRRInv, NEW p \in Paths, NEW r \in Paths
             PROVE  pathLoad[p] - pathLoad[r] <= Quantum + MaxPkt - 1
  BY DEF ByteFair, ImbalanceAtMost
<1> QED BY MaxPktAssumption, QuantumAssumption
        DEF SRRInv, SRRTypeOK, CreditsBounded, CreditsMatchLoad

-----------------------------------------------------------------------------
(* Sorted deficit.                                                         *)

(* Sorted deficit starts with all counters equal.                          *)
LEMMA SDInitInv == SRRInit => SDInv
<1> SUFFICES ASSUME SRRInit PROVE SDInv
  OBVIOUS
<1>1. SRRTypeOK /\ CreditsBounded /\ CreditsMatchLoad
  BY SRRInitInv DEF SRRInv
<1>2. ByteBalanced
  BY MaxPktAssumption DEF SRRInit, NoLoad, ByteBalanced, ImbalanceAtMost
<1> QED BY <1>1, <1>2 DEF SDInv

(* The path a packet takes, and the counters it is chosen and charged by:  *)
(* the path with the most credits, once some path has credits.             *)
LEMMA SDChoice ==
  ASSUME SDInv, NEW bytes \in PktBytes, SDHandleMessage(bytes)
  PROVE  \E path \in Paths, dc \in [Paths -> Int] :
           /\ pathList' \in PathLists
           /\ currentIndex' \in Paths
           /\ dc[path] > 0
           /\ \A p \in Paths : dc[p] <= dc[path]
           /\ \A p \in Paths : dc[p] \in 1 - MaxPkt .. Quantum
           /\ \A p, r \in Paths : pathLoad[p] - pathLoad[r] = dc[r] - dc[p]
           /\ deficitCounter' = [dc EXCEPT ![path] = @ - bytes]
           /\ pathLoad' = AddLoad(pathLoad, path, bytes)
<1>1. PICK rounds \in 0 .. MaxPkt :
        /\ RoundsUntilCredits(deficitCounter, rounds)
        /\ pathList' \in IF rounds = 0 THEN {pathList} ELSE ShuffledLists(pathList)
        /\ currentIndex' \in Paths
        /\ MostCredits(pathList', AfterRounds(deficitCounter, rounds), currentIndex')
        /\ Charge(AfterRounds(deficitCounter, rounds), pathList'[currentIndex'], bytes)
        /\ PerformAccounting(pathList'[currentIndex'], bytes)
  BY DEF SDHandleMessage
<1> DEFINE dc == AfterRounds(deficitCounter, rounds)
           path == pathList'[currentIndex']
<1>2. deficitCounter \in [Paths -> Int]
  BY DEF SDInv, SRRTypeOK
<1>3. pathList' \in PathLists
  BY <1>1, ShuffleFacts DEF SDInv, SRRTypeOK
<1>4. \E add \in Nat :
        /\ dc = [p \in Paths |-> deficitCounter[p] + add]
        /\ \A p \in Paths : deficitCounter[p] + add \in 1 - MaxPkt .. Quantum
  <2>1. CASE rounds = 0
    <3>1. dc = [p \in Paths |-> deficitCounter[p] + 0]
      BY <2>1, <1>2, QuantumAssumption DEF AfterRounds
    <3>2. \A p \in Paths : deficitCounter[p] + 0 \in 1 - MaxPkt .. Quantum
      BY <1>2 DEF SDInv, CreditsBounded
    <3> QED BY <3>1, <3>2
  <2>2. CASE rounds # 0
    <3>1. rounds \in 1 .. MaxPkt /\ 0 \in 0 .. rounds - 1
      BY <2>2, MaxPktAssumption
    <3>2. \A p \in Paths : deficitCounter[p] \in 1 - MaxPkt .. 0
      <4> SUFFICES ASSUME NEW p \in Paths PROVE deficitCounter[p] \in 1 - MaxPkt .. 0
        OBVIOUS
      <4>1. AfterRounds(deficitCounter, 0)[p] <= 0
        BY <1>1, <3>1 DEF RoundsUntilCredits, Spent
      <4>2. AfterRounds(deficitCounter, 0)[p] = deficitCounter[p]
        BY <1>2, QuantumAssumption DEF AfterRounds
      <4> QED BY <4>1, <4>2, <1>2, MaxPktAssumption, QuantumAssumption
              DEF SDInv, CreditsBounded
    <3>3. \A k \in 1 .. rounds - 1 : Spent(AfterRounds(deficitCounter, k))
      BY <1>1, <3>1 DEF RoundsUntilCredits
    <3> QED BY <1>2, <3>1, <3>2, <3>3, RoundsFacts
  <2> QED BY <2>1, <2>2
<1>5. PICK add \in Nat :
        /\ dc = [p \in Paths |-> deficitCounter[p] + add]
        /\ \A p \in Paths : deficitCounter[p] + add \in 1 - MaxPkt .. Quantum
  BY <1>4
<1>6. dc \in [Paths -> Int] /\ \A p \in Paths : dc[p] \in 1 - MaxPkt .. Quantum
  BY <1>2, <1>5
<1>7. \A p, r \in Paths : pathLoad[p] - pathLoad[r] = dc[r] - dc[p]
  <2> SUFFICES ASSUME NEW p \in Paths, NEW r \in Paths
               PROVE  pathLoad[p] - pathLoad[r] = dc[r] - dc[p]
    OBVIOUS
  <2>1. dc[p] = deficitCounter[p] + add /\ dc[r] = deficitCounter[r] + add
    BY <1>5
  <2>2. pathLoad[p] - pathLoad[r] = deficitCounter[r] - deficitCounter[p]
    BY DEF SDInv, CreditsMatchLoad
  <2>3. deficitCounter[p] \in Int /\ deficitCounter[r] \in Int /\ add \in Int
    BY <1>2
  <2> HIDE DEF dc
  <2> QED BY ONLY <2>1, <2>2, <2>3
<1>8. path \in Paths
  BY <1>1, <1>3, ListFacts
<1>9. \A p \in Paths : dc[p] <= dc[path]
  <2> SUFFICES ASSUME NEW p \in Paths PROVE dc[p] <= dc[path]
    OBVIOUS
  <2>1. PICK j \in Paths : pathList'[j] = p
    BY <1>3, ListFacts
  <2> QED BY <1>1, <2>1 DEF MostCredits
<1>10. dc[path] > 0
  <2>1. PICK p \in Paths : ~ (dc[p] <= 0)
    BY <1>1 DEF RoundsUntilCredits, Spent
  <2> HIDE DEF dc, path
  <2> QED BY <1>6, <1>8, <1>9, <2>1
<1>11. /\ deficitCounter' = [dc EXCEPT ![path] = @ - bytes]
       /\ pathLoad' = AddLoad(pathLoad, path, bytes)
  BY <1>1 DEF Charge, PerformAccounting
<1> QED
  <2> HIDE DEF dc, path
  <2> QED BY <1>1, <1>3, <1>6, <1>7, <1>8, <1>9, <1>10, <1>11

(* A packet of sorted deficit keeps its invariant.                         *)
LEMMA SDStep ==
  ASSUME SDInv, NEW bytes \in PktBytes, SDHandleMessage(bytes)
  PROVE  SDInv'
<1>1. PICK path \in Paths, dc \in [Paths -> Int] :
        /\ pathList' \in PathLists
        /\ currentIndex' \in Paths
        /\ dc[path] > 0
        /\ \A p \in Paths : dc[p] <= dc[path]
        /\ \A p \in Paths : dc[p] \in 1 - MaxPkt .. Quantum
        /\ \A p, r \in Paths : pathLoad[p] - pathLoad[r] = dc[r] - dc[p]
        /\ deficitCounter' = [dc EXCEPT ![path] = @ - bytes]
        /\ pathLoad' = AddLoad(pathLoad, path, bytes)
  BY SDChoice
<1>2. pathLoad \in [Paths -> Int] /\ bytes \in Int /\ bytes <= MaxPkt /\ bytes >= 1
  BY PktBytesAssumption, MaxPktAssumption DEF SDInv, SRRTypeOK
<1>3. /\ deficitCounter' \in [Paths -> Int]
      /\ \A p \in Paths : deficitCounter'[p] \in 1 - MaxPkt .. Quantum
      /\ \A p, r \in Paths : pathLoad'[p] - pathLoad'[r] = deficitCounter'[r] - deficitCounter'[p]
  <2>1. /\ deficitCounter' \in [Paths -> Int]
        /\ \A p \in Paths : deficitCounter'[p] \in 1 - MaxPkt .. Quantum
        /\ \A p, r \in Paths :
             AddLoad(pathLoad, path, bytes)[p] - AddLoad(pathLoad, path, bytes)[r]
               = deficitCounter'[r] - deficitCounter'[p]
    <3>1. /\ path \in Paths /\ dc \in [Paths -> Int] /\ bytes \in PktBytes
          /\ pathLoad \in [Paths -> Int]
          /\ dc[path] > 0
      BY <1>1, <1>2
    <3>2. \A p \in Paths : dc[p] \in 1 - MaxPkt .. Quantum
      BY <1>1
    <3>3. \A p, r \in Paths : pathLoad[p] - pathLoad[r] = dc[r] - dc[p]
      BY <1>1
    <3>4. deficitCounter' = [dc EXCEPT ![path] = @ - bytes]
      BY <1>1
    <3> QED BY ONLY <3>1, <3>2, <3>3, <3>4, ChargeFacts
  <2>2. pathLoad' = AddLoad(pathLoad, path, bytes)
    BY <1>1
  <2> QED BY ONLY <2>1, <2>2
<1>4. pathLoad' \in [Paths -> Int]
  BY <1>1, <1>2, AddLoadType
<1>5. ASSUME NEW p \in Paths, NEW r \in Paths
      PROVE  pathLoad'[p] - pathLoad'[r] <= MaxPkt
  <2>1. /\ pathLoad'[p] - pathLoad'[r] = deficitCounter'[r] - deficitCounter'[p]
        /\ pathLoad[p] - pathLoad[r] = dc[r] - dc[p]
    BY <1>1, <1>3
  <2>2. /\ deficitCounter'[p] = dc[p] - (IF p = path THEN bytes ELSE 0)
        /\ deficitCounter'[r] = dc[r] - (IF r = path THEN bytes ELSE 0)
    BY <1>1
  <2>3. pathLoad[p] - pathLoad[r] <= MaxPkt
    BY DEF SDInv, ByteBalanced, ImbalanceAtMost
  <2>4. dc[p] \in Int /\ dc[r] \in Int /\ dc[r] <= dc[path] /\ MaxPkt \in Int
    BY <1>1, MaxPktAssumption
  <2>5. CASE p = path
    BY ONLY <1>2, <2>1, <2>2, <2>3, <2>4, <2>5
  <2>6. CASE p # path
    BY ONLY <1>2, <2>1, <2>2, <2>3, <2>4, <2>6
  <2> QED BY <2>5, <2>6
<1>6. ByteBalanced'
  BY <1>5 DEF ByteBalanced, ImbalanceAtMost
<1> QED BY <1>1, <1>3, <1>4, <1>6 DEF SDInv, SRRTypeOK, CreditsBounded, CreditsMatchLoad

-----------------------------------------------------------------------------
(* Random rehashing.                                                       *)

(* A charge of at most MaxPkt to a path with credits.                      *)
LEMMA ChargeBounds ==
  ASSUME NEW dc \in [Paths -> Int], NEW path \in Paths, NEW bytes \in PktBytes,
         dc[path] > 0,
         \A p \in Paths : dc[p] \in 1 - MaxPkt .. Quantum,
         Charge(dc, path, bytes)
  PROVE  deficitCounter' \in [Paths -> Int] /\ CreditsBounded'
<1>1. bytes \in 1 .. MaxPkt /\ MaxPkt \in Nat /\ Quantum \in Nat
  BY PktBytesAssumption, MaxPktAssumption, QuantumAssumption
<1>2. deficitCounter' = [dc EXCEPT ![path] = @ - bytes]
  BY DEF Charge
<1>3. deficitCounter' \in [Paths -> Int]
  BY <1>1, <1>2
<1>4. ASSUME NEW p \in Paths PROVE deficitCounter'[p] \in 1 - MaxPkt .. Quantum
  <2>1. deficitCounter'[p] = dc[p] - (IF p = path THEN bytes ELSE 0)
    BY <1>1, <1>2
  <2> QED BY <1>1, <2>1
<1> QED BY <1>3, <1>4 DEF CreditsBounded

(* A path is topped up only while it is spent.                             *)
LEMMA TopUpBounds ==
  ASSUME SRRTypeOK, CreditsBounded, NEW given, TopUps(deficitCounter, given)
  PROVE  /\ ToppedUp(deficitCounter, given) \in [Paths -> Int]
         /\ \A p \in Paths : ToppedUp(deficitCounter, given)[p] \in 1 - MaxPkt .. Quantum
<1>1. /\ given \in [Paths -> Nat] /\ deficitCounter \in [Paths -> Int]
      /\ Quantum \in Nat /\ MaxPkt \in Nat
  BY QuantumAssumption, MaxPktAssumption DEF TopUps, SRRTypeOK
<1>2. ToppedUp(deficitCounter, given) \in [Paths -> Int]
  BY <1>1 DEF ToppedUp
<1>3. ASSUME NEW p \in Paths
      PROVE  ToppedUp(deficitCounter, given)[p] \in 1 - MaxPkt .. Quantum
  <2> DEFINE all == given[p] * Quantum
             butOne == (given[p] - 1) * Quantum
  <2>1. ToppedUp(deficitCounter, given)[p] = deficitCounter[p] + all
    BY DEF ToppedUp
  <2>2. deficitCounter[p] \in 1 - MaxPkt .. Quantum
    BY DEF CreditsBounded
  <2>3. CASE given[p] = 0
    <3>1. all = 0
      BY <1>1, <2>3
    <3> QED BY <1>1, <2>1, <2>2, <3>1
  <2>4. CASE given[p] > 0
    <3>1. deficitCounter[p] + butOne <= 0
      BY <2>4 DEF TopUps
    <3>2. all = butOne + Quantum
      BY <1>1
    <3>3. all \in Nat /\ butOne \in Int
      BY <1>1
    <3> HIDE DEF all, butOne
    <3> QED BY <1>1, <2>1, <2>2, <3>1, <3>2, <3>3
  <2> QED BY <1>1, <2>3, <2>4
<1> QED BY <1>2, <1>3

(* A packet of rehashing keeps its counters bounded.                       *)
LEMMA RehashStep ==
  ASSUME SRRTypeOK, CreditsBounded, NEW bytes \in PktBytes, RehashHandleMessage(bytes)
  PROVE  SRRTypeOK' /\ CreditsBounded'
<1>1. /\ pathList \in PathLists /\ pathList' = pathList
      /\ currentIndex \in Paths
      /\ pathLoad \in [Paths -> Int] /\ deficitCounter \in [Paths -> Int]
      /\ bytes \in Int
  BY PktBytesAssumption DEF SRRTypeOK, RehashHandleMessage
<1>2. currentIndex' \in Paths
  BY <1>1 DEF RehashHandleMessage, StayOnPath, DrawPath
<1>3. pathList[currentIndex'] \in Paths
  BY <1>1, <1>2, ListFacts
<1>4. pathLoad' \in [Paths -> Int]
  BY <1>1, <1>3, AddLoadType DEF RehashHandleMessage, PerformAccounting
<1>5. deficitCounter' \in [Paths -> Int] /\ CreditsBounded'
  <2>1. CASE StayOnPath(bytes)
    BY <1>1, <1>3, <2>1, ChargeBounds DEF StayOnPath, CreditsBounded
  <2>2. CASE DrawPath(bytes)
    <3>1. PICK given \in [Paths -> 0 .. MaxPkt] :
            /\ TopUps(deficitCounter, given)
            /\ ToppedUp(deficitCounter, given)[pathList[currentIndex']] > 0
            /\ Charge(ToppedUp(deficitCounter, given), pathList[currentIndex'], bytes)
      BY <2>2 DEF DrawPath
    <3> QED BY <1>3, <3>1, TopUpBounds, ChargeBounds
  <2> QED BY <2>1, <2>2 DEF RehashHandleMessage
<1> QED BY <1>1, <1>2, <1>4, <1>5 DEF SRRTypeOK

-----------------------------------------------------------------------------
(* A server with the scheme it is configured with.                         *)

(* The invariant of the configured scheme holds at the start.              *)
LEMMA SchemeInit == Init => SchemeInv
<1> SUFFICES ASSUME Init PROVE SchemeInv
  OBVIOUS
<1>1. scheme = "RR" => RRInv
  BY RRInitInv DEF Init
<1>2. scheme # "RR" => SRRInv /\ SDInv
  BY SRRInitInv, SDInitInv DEF Init
<1> QED BY <1>1, <1>2 DEF Init, SchemeInv, SRRInv

(* Every packet keeps the invariant of the configured scheme.              *)
LEMMA SchemeNext == SchemeInv /\ [HandleMessage]_vars => SchemeInv'
<1> SUFFICES ASSUME SchemeInv, [HandleMessage]_vars PROVE SchemeInv'
  OBVIOUS
<1>1. CASE UNCHANGED vars
  BY <1>1 DEF vars, SchemeInv, RRInv, RRTypeOK, RoundInv, Used,
              SRRInv, SRRTypeOK, CreditsBounded, VisitedSpent, CreditsMatchLoad,
              SDInv, ByteBalanced, ImbalanceAtMost
<1>2. ASSUME NEW d \in Dests, NEW bytes \in PktBytes, Send(d, bytes), UNCHANGED scheme
      PROVE  SchemeInv'
  <2>1. scheme = "RR" => RRInv'
    BY <1>2, RRStep DEF Send, SchemeInv
  <2>2. scheme = "SRR" => SRRInv'
    BY <1>2, SRRStep DEF Send, SchemeInv
  <2>3. scheme = "Rehash" => SRRTypeOK' /\ CreditsBounded'
    BY <1>2, RehashStep DEF Send, SchemeInv
  <2>4. scheme = "SD" => SDInv'
    BY <1>2, SDStep DEF Send, SchemeInv
  <2> QED BY <1>2, <2>1, <2>2, <2>3, <2>4 DEF SchemeInv
<1> QED BY <1>1, <1>2 DEF HandleMessage

(* The inductive invariant of every scheme with counters of its own: types *)
(* and, per scheme, the paths used in this round, credits never above a    *)
(* quantum nor overdrawn by a packet, and counters that differ by exactly  *)
(* what the paths have carried.                                            *)
THEOREM SchemeInvariant == Spec => []SchemeInv
BY SchemeInit, SchemeNext, PTL DEF Spec

(* However the rounds are shuffled, the packets round robin has put on any *)
(* two paths differ by at most one.                                        *)
THEOREM RRPacketFair == Spec => []RoundRobinFair
<1>1. SchemeInv => RoundRobinFair
  BY RRFair DEF SchemeInv, RoundRobinFair
<1> QED BY <1>1, SchemeInvariant, PTL

(* Surplus round robin carries overdrafts over: the bytes it has put on    *)
(* any two paths differ by less than a quantum plus a packet.              *)
THEOREM SRRByteFair == Spec => []SurplusFair
<1>1. SchemeInv => SurplusFair
  BY SRRFair DEF SchemeInv, SurplusFair
<1> QED BY <1>1, SchemeInvariant, PTL

(* Whatever the quantum, the bytes sorted deficit has put on any two paths *)
(* are within one packet of each other.                                    *)
THEOREM SDBalanced == Spec => []SortedDeficitBalanced
<1>1. SchemeInv => SortedDeficitBalanced
  BY DEF SchemeInv, SortedDeficitBalanced, SDInv
<1> QED BY <1>1, SchemeInvariant, PTL

(* Sorted deficit implements LeastLoadedFirst: the first load is no load,  *)
(* and every packet goes along a path that has carried least.              *)
THEOREM SDRefines == Spec => SDSendsToLeastLoaded
<1> DEFINE load == IF scheme = "SD" THEN pathLoad ELSE NoLoad
<1>1. Init => LLF!Init
  BY DEF Init, SRRInit, LLF!Init, NoLoad, LLF!NoLoad, Paths, LLF!Paths
<1>2. SchemeInv /\ [HandleMessage]_vars => [LLF!Next]_load
  <2> SUFFICES ASSUME SchemeInv, [HandleMessage]_vars PROVE [LLF!Next]_load
    OBVIOUS
  <2>1. CASE UNCHANGED vars
    BY <2>1 DEF vars
  <2>2. CASE HandleMessage /\ scheme # "SD"
    BY <2>2 DEF HandleMessage
  <2>3. CASE HandleMessage /\ scheme = "SD"
    <3>1. SDInv /\ scheme' = "SD"
      BY <2>3 DEF SchemeInv, HandleMessage
    <3>2. PICK bytes \in PktBytes : SDHandleMessage(bytes)
      BY <2>3 DEF HandleMessage, Send
    <3>3. PICK path \in Paths, dc \in [Paths -> Int] :
            /\ \A p \in Paths : dc[p] <= dc[path]
            /\ \A p, r \in Paths : pathLoad[p] - pathLoad[r] = dc[r] - dc[p]
            /\ pathLoad' = AddLoad(pathLoad, path, bytes)
      BY <3>1, <3>2, SDChoice
    <3>4. ASSUME NEW r \in Paths PROVE pathLoad[path] <= pathLoad[r]
      <4>1. pathLoad[path] - pathLoad[r] = dc[r] - dc[path] /\ dc[r] <= dc[path]
        BY <3>3
      <4>2. /\ pathLoad[path] \in Int /\ pathLoad[r] \in Int
            /\ dc[path] \in Int /\ dc[r] \in Int
        BY <3>1 DEF SDInv, SRRTypeOK
      <4> QED BY ONLY <4>1, <4>2
    <3>5. path \in LLF!Paths /\ LLF!LeastLoaded(path)
      BY <2>3, <3>4 DEF LLF!LeastLoaded, LLF!Paths, Paths
    <3>6. LLF!PerformAccounting(path, bytes)
      BY <2>3, <3>1, <3>3 DEF LLF!PerformAccounting, LLF!AddLoad, AddLoad, LLF!Paths, Paths
    <3> QED BY <3>5, <3>6 DEF LLF!Next
  <2> QED BY <2>1, <2>2, <2>3
<1> QED BY <1>1, <1>2, SchemeInvariant, PTL DEF Spec, SDSendsToLeastLoaded, LLF!Spec

-----------------------------------------------------------------------------
(* The schemes with counters per destination.                              *)

(* Credits differ by what was sent.                                        *)
CountersMatch(counters, loads) ==
  \A p, r \in Paths : loads[p] - loads[r] = counters[r] - counters[p]

DestCountersOK ==
  /\ destLoad \in [Dests -> [Paths -> Int]]
  /\ \A d \in DOMAIN destPathState :
       /\ destPathState[d].list \in PathLists
       /\ destPathState[d].credits \in [Paths -> Int]
       /\ CountersMatch(destPathState[d].credits, destLoad[d])
  /\ \A d \in Dests \ DOMAIN destPathState : destLoad[d] = NoLoad

DestSchemeInv ==
  /\ scheme \in {"DSD", "TP"} => DestCountersOK
  /\ scheme = "DSD" => DestBalanced
  /\ scheme = "TP" => SRRTypeOK /\ CreditsMatchLoad

(* A server to which nothing was sent: equal loads, equal counters.        *)
LEMMA NoLoadFacts ==
  /\ NoLoad \in [Paths -> Int]
  /\ CountersMatch(NoLoad, NoLoad)
  /\ \A p, r \in Paths : NoLoad[p] - NoLoad[r] = 0
BY DEF NoLoad, CountersMatch

(* A charge keeps credits and loads in step.                               *)
LEMMA ChargeMatches ==
  ASSUME NEW dc \in [Paths -> Int], NEW loads \in [Paths -> Int],
         NEW path \in Paths, NEW bytes \in Int, CountersMatch(dc, loads)
  PROVE  /\ [dc EXCEPT ![path] = @ - bytes] \in [Paths -> Int]
         /\ AddLoad(loads, path, bytes) \in [Paths -> Int]
         /\ CountersMatch([dc EXCEPT ![path] = @ - bytes], AddLoad(loads, path, bytes))
<1> DEFINE dcNew == [dc EXCEPT ![path] = @ - bytes]
<1>1. dcNew \in [Paths -> Int]
  OBVIOUS
<1>2. ASSUME NEW p \in Paths, NEW r \in Paths
      PROVE  AddLoad(loads, path, bytes)[p] - AddLoad(loads, path, bytes)[r]
               = dcNew[r] - dcNew[p]
  <2> DEFINE onP == IF p = path THEN bytes ELSE 0
             onR == IF r = path THEN bytes ELSE 0
             onZero == IF path = 0 THEN bytes ELSE 0
  <2>1. /\ AddLoad(loads, path, bytes)[p] = loads[p] + onP - onZero
        /\ AddLoad(loads, path, bytes)[r] = loads[r] + onR - onZero
    BY DEF AddLoad
  <2>2. dcNew[p] = dc[p] - onP /\ dcNew[r] = dc[r] - onR
    OBVIOUS
  <2>3. onP \in Int /\ onR \in Int /\ onZero \in Int
    OBVIOUS
  <2>4. loads[p] \in Int /\ loads[r] \in Int /\ dc[p] \in Int /\ dc[r] \in Int
    OBVIOUS
  <2>5. loads[p] - loads[r] = dc[r] - dc[p]
    BY DEF CountersMatch
  <2> HIDE DEF onP, onR, onZero
  <2>6. (loads[p] + onP - onZero) - (loads[r] + onR - onZero) = (dc[r] - onR) - (dc[p] - onP)
    BY ONLY <2>3, <2>4, <2>5
  <2> QED BY <2>1, <2>2, <2>6
<1> HIDE DEF dcNew
<1>3. CountersMatch(dcNew, AddLoad(loads, path, bytes))
  BY <1>2 DEF CountersMatch
<1>4. AddLoad(loads, path, bytes) \in [Paths -> Int]
  BY AddLoadType
<1> QED BY <1>1, <1>3, <1>4 DEF dcNew

(* Rounds raise all paths by the same amount.                              *)
LEMMA RoundsMatch ==
  ASSUME NEW dc \in [Paths -> Int], NEW loads \in [Paths -> Int],
         CountersMatch(dc, loads), NEW rounds \in 0 .. MaxPkt
  PROVE  /\ AfterRounds(dc, rounds) \in [Paths -> Int]
         /\ CountersMatch(AfterRounds(dc, rounds), loads)
<1> DEFINE add == rounds * Quantum
<1>1. add \in Int
  BY QuantumAssumption, MaxPktAssumption
<1>2. AfterRounds(dc, rounds) = [p \in Paths |-> dc[p] + add]
  BY DEF AfterRounds
<1> HIDE DEF add
<1>3. AfterRounds(dc, rounds) \in [Paths -> Int]
  BY <1>1, <1>2
<1>4. ASSUME NEW p \in Paths, NEW r \in Paths
      PROVE  loads[p] - loads[r] = AfterRounds(dc, rounds)[r] - AfterRounds(dc, rounds)[p]
  <2>1. loads[p] - loads[r] = dc[r] - dc[p] /\ dc[p] \in Int /\ dc[r] \in Int
    BY DEF CountersMatch
  <2>2. dc[r] - dc[p] = (dc[r] + add) - (dc[p] + add)
    BY ONLY <1>1, <2>1
  <2> QED BY <1>2, <2>1, <2>2
<1> QED BY <1>3, <1>4 DEF CountersMatch

(* A destination's state, found or new, agrees with what it was sent.      *)
LEMMA LookedUpFacts ==
  ASSUME DestCountersOK, NEW d \in Dests, NEW st \in LookedUp(d)
  PROVE  /\ st.list \in PathLists /\ st.credits \in [Paths -> Int]
         /\ CountersMatch(st.credits, destLoad[d])
         /\ destLoad[d] \in [Paths -> Int]
<1>1. CASE d \in DOMAIN destPathState
  BY <1>1 DEF DestCountersOK, LookedUp
<1>2. CASE d \notin DOMAIN destPathState
  <2>1. destLoad[d] = NoLoad
    BY <1>2 DEF DestCountersOK
  <2>2. st \in [list : ShuffledLists([i \in Paths |-> i]), credits : {NoLoad}]
    BY <1>2 DEF LookedUp, NewDestStates
  <2>3. st.list \in ShuffledLists([i \in Paths |-> i]) /\ st.credits = NoLoad
    BY <2>2
  <2>4. [i \in Paths |-> i] \in PathLists
    BY DEF PathLists, Bijection, Injection, Surjection, IsInjective
  <2> QED BY <2>1, <2>3, <2>4, NoLoadFacts, ShuffleFacts
<1> QED BY <1>1, <1>2

(* A packet to a destination, charged on its counters.                     *)
LEMMA DestCharged ==
  ASSUME DestCountersOK, NEW d \in Dests, NEW bytes \in PktBytes, NEW path \in Paths,
         NEW list \in PathLists, NEW credits \in [Paths -> Int],
         CountersMatch(credits, destLoad[d]),
         SetState(d, list, [credits EXCEPT ![path] = @ - bytes]),
         AccountDest(d, path, bytes)
  PROVE  /\ DestCountersOK'
         /\ destLoad' = [destLoad EXCEPT ![d] = AddLoad(@, path, bytes)]
<1> DEFINE new == [credits EXCEPT ![path] = @ - bytes]
<1>1. bytes \in Int /\ destLoad \in [Dests -> [Paths -> Int]]
  BY PktBytesAssumption DEF DestCountersOK
<1>2. /\ new \in [Paths -> Int]
      /\ AddLoad(destLoad[d], path, bytes) \in [Paths -> Int]
      /\ CountersMatch(new, AddLoad(destLoad[d], path, bytes))
  BY <1>1, ChargeMatches
<1> HIDE DEF new
<1>3. destPathState' = [e \in DOMAIN destPathState \cup {d} |->
                          IF e = d THEN [list |-> list, credits |-> new]
                                   ELSE destPathState[e]]
  BY DEF SetState, new
<1>4. destLoad' = [destLoad EXCEPT ![d] = AddLoad(@, path, bytes)]
  BY DEF AccountDest
<1>5. destLoad'[d] = AddLoad(destLoad[d], path, bytes)
      /\ \A e \in Dests \ {d} : destLoad'[e] = destLoad[e]
  BY <1>1, <1>4
<1>6. destLoad' \in [Dests -> [Paths -> Int]]
  BY <1>1, <1>2, <1>4
<1>7. ASSUME NEW e \in DOMAIN destPathState'
      PROVE  /\ destPathState'[e].list \in PathLists
             /\ destPathState'[e].credits \in [Paths -> Int]
             /\ CountersMatch(destPathState'[e].credits, destLoad'[e])
  <2>1. CASE e = d
    BY <1>2, <1>3, <1>5, <2>1
  <2>2. CASE e # d
    <3>1. e \in DOMAIN destPathState /\ destPathState'[e] = destPathState[e]
      BY <1>3, <2>2
    <3>2. destLoad'[e] = destLoad[e]
      BY <1>1, <1>4, <2>2
    <3> QED BY <3>1, <3>2 DEF DestCountersOK
  <2> QED BY <2>1, <2>2
<1>8. \A e \in Dests \ DOMAIN destPathState' : destLoad'[e] = NoLoad
  BY <1>3, <1>5 DEF DestCountersOK
<1> QED BY <1>4, <1>6, <1>7, <1>8 DEF DestCountersOK, CountersMatch

(* Per-destination sorted deficit.                                         *)
LEMMA DSDStep ==
  ASSUME DestCountersOK, DestBalanced, NEW d \in Dests, NEW bytes \in PktBytes,
         DSDHandleMessage(d, bytes)
  PROVE  DestCountersOK' /\ DestBalanced'
<1>1. PICK st \in LookedUp(d), rounds \in 0 .. MaxPkt :
        \E list \in ListsAfter(st.list, rounds), i \in Paths :
          /\ MostCredits(list, AfterRounds(st.credits, rounds), i)
          /\ SetState(d, list, [AfterRounds(st.credits, rounds) EXCEPT ![list[i]] = @ - bytes])
          /\ AccountDest(d, list[i], bytes)
  BY DEF DSDHandleMessage
<1> DEFINE credits == AfterRounds(st.credits, rounds)
<1>2. PICK list \in ListsAfter(st.list, rounds), i \in Paths :
          /\ MostCredits(list, credits, i)
          /\ SetState(d, list, [credits EXCEPT ![list[i]] = @ - bytes])
          /\ AccountDest(d, list[i], bytes)
  BY <1>1
<1>3. /\ st.list \in PathLists /\ st.credits \in [Paths -> Int]
      /\ CountersMatch(st.credits, destLoad[d]) /\ destLoad[d] \in [Paths -> Int]
  BY LookedUpFacts
<1>4. credits \in [Paths -> Int] /\ CountersMatch(credits, destLoad[d])
  BY <1>3, RoundsMatch
<1>5. list \in PathLists
  BY <1>3, ShuffleFacts DEF ListsAfter
<1> DEFINE path == list[i]
<1>6. path \in Paths
  BY <1>5, ListFacts
<1> HIDE DEF credits
<1>7. ASSUME NEW p \in Paths PROVE credits[p] <= credits[path]
  <2>1. PICK j \in Paths : list[j] = p
    BY <1>5, ListFacts
  <2> QED BY <1>2, <2>1 DEF MostCredits
<1> HIDE DEF path
<1>8. /\ DestCountersOK'
      /\ destLoad' = [destLoad EXCEPT ![d] = AddLoad(@, path, bytes)]
  BY <1>2, <1>4, <1>5, <1>6, DestCharged DEF path
<1>9. ASSUME NEW p \in Paths, NEW r \in Paths
      PROVE  AddLoad(destLoad[d], path, bytes)[p] - AddLoad(destLoad[d], path, bytes)[r] <= MaxPkt
  <2> DEFINE onP == IF p = path THEN bytes ELSE 0
             onR == IF r = path THEN bytes ELSE 0
             onZero == IF path = 0 THEN bytes ELSE 0
             lp == destLoad[d][p]
             lr == destLoad[d][r]
  <2>1. /\ AddLoad(destLoad[d], path, bytes)[p] = lp + onP - onZero
        /\ AddLoad(destLoad[d], path, bytes)[r] = lr + onR - onZero
    BY DEF AddLoad
  <2>2. /\ lp \in Int /\ lr \in Int /\ credits[p] \in Int /\ credits[r] \in Int
        /\ MaxPkt \in Nat /\ bytes \in 1 .. MaxPkt
    BY <1>3, <1>4, MaxPktAssumption, PktBytesAssumption
  <2>3. lp - lr <= MaxPkt
    BY DEF DestBalanced, ImbalanceAtMost
  <2>4. lp - lr = credits[r] - credits[p]
    BY <1>4 DEF CountersMatch
  <2>5. p = path => credits[r] <= credits[p]
    BY <1>7
  <2>6. onZero \in Int /\ onR \in Nat /\ onP = IF p = path THEN bytes ELSE 0
    BY <2>2
  <2> HIDE DEF lp, lr, onP, onR, onZero
  <2>7. (lp + onP - onZero) - (lr + onR - onZero) <= MaxPkt
    <3>1. CASE p = path
      BY ONLY <2>2, <2>4, <2>5, <2>6, <3>1
    <3>2. CASE p # path
      BY ONLY <2>2, <2>3, <2>6, <3>2
    <3> QED BY <3>1, <3>2
  <2> QED BY <2>1, <2>7
<1>10. DestBalanced'
  <2> SUFFICES ASSUME NEW e \in Dests, NEW p \in Paths, NEW r \in Paths
               PROVE  destLoad'[e][p] - destLoad'[e][r] <= MaxPkt
    BY DEF DestBalanced, ImbalanceAtMost
  <2>1. destLoad \in [Dests -> [Paths -> Int]]
    BY DEF DestCountersOK
  <2>2. CASE e = d
    BY <1>8, <1>9, <2>1, <2>2
  <2>3. CASE e # d
    BY <1>8, <2>1, <2>3 DEF DestBalanced, ImbalanceAtMost
  <2> QED BY <2>2, <2>3
<1> QED BY <1>8, <1>10

(* Two-phase: both sets of counters are raised by rounds and charged; the  *)
(* path with the largest sum has carried least.                            *)
LEMMA TPStep ==
  ASSUME DestCountersOK, SRRTypeOK, CreditsMatchLoad,
         NEW d \in Dests, NEW bytes \in PktBytes, TPHandleMessage(d, bytes)
  PROVE  DestCountersOK' /\ SRRTypeOK' /\ CreditsMatchLoad' /\ TPSendsToLeast
<1>1. PICK st \in LookedUp(d), mainRounds \in 0 .. MaxPkt, destRounds \in 0 .. MaxPkt :
        /\ pathList' \in ListsAfter(pathList, mainRounds)
        /\ currentIndex' \in Paths
        /\ LET main == AfterRounds(deficitCounter, mainRounds)
               dest == AfterRounds(st.credits, destRounds)
               path == pathList'[currentIndex']
           IN  /\ MostCredits(pathList', [p \in Paths |-> main[p] + dest[p]], currentIndex')
               /\ Charge(main, path, bytes)
               /\ \E list \in ListsAfter(st.list, destRounds) :
                    SetState(d, list, [dest EXCEPT ![path] = @ - bytes])
               /\ AccountDest(d, path, bytes)
  BY DEF TPHandleMessage
<1> DEFINE main == AfterRounds(deficitCounter, mainRounds)
           dest == AfterRounds(st.credits, destRounds)
           path == pathList'[currentIndex']
<1>2. /\ MostCredits(pathList', [p \in Paths |-> main[p] + dest[p]], currentIndex')
      /\ deficitCounter' = [main EXCEPT ![path] = @ - bytes]
      /\ AccountDest(d, path, bytes)
  BY <1>1 DEF Charge
<1>3. PICK list \in ListsAfter(st.list, destRounds) :
        SetState(d, list, [dest EXCEPT ![path] = @ - bytes])
  BY <1>1
<1>4. /\ st.list \in PathLists /\ st.credits \in [Paths -> Int]
      /\ CountersMatch(st.credits, destLoad[d]) /\ destLoad[d] \in [Paths -> Int]
  BY LookedUpFacts
<1>5. list \in PathLists /\ pathList' \in PathLists
  BY <1>1, <1>4, ShuffleFacts DEF ListsAfter, SRRTypeOK
<1>6. path \in Paths
  BY <1>1, <1>5, ListFacts
<1>7. dest \in [Paths -> Int] /\ CountersMatch(dest, destLoad[d])
  BY <1>4, RoundsMatch
<1>8. /\ main \in [Paths -> Int] /\ CountersMatch(main, pathLoad)
      /\ pathLoad \in [Paths -> Int] /\ bytes \in Int
  <2>1. deficitCounter \in [Paths -> Int] /\ pathLoad \in [Paths -> Int]
    BY DEF SRRTypeOK
  <2>2. CountersMatch(deficitCounter, pathLoad)
    BY DEF CreditsMatchLoad, CountersMatch
  <2> QED BY <2>1, <2>2, RoundsMatch, PktBytesAssumption
<1> HIDE DEF main, dest
<1>9. ASSUME NEW p \in Paths PROVE main[p] + dest[p] <= main[path] + dest[path]
  <2>1. PICK j \in Paths : pathList'[j] = p
    BY <1>5, ListFacts
  <2>2. [q \in Paths |-> main[q] + dest[q]][pathList'[j]]
          <= [q \in Paths |-> main[q] + dest[q]][path]
    BY <1>2 DEF MostCredits
  <2> QED BY <1>6, <2>1, <2>2
<1>10. /\ DestCountersOK'
       /\ destLoad' = [destLoad EXCEPT ![d] = AddLoad(@, path, bytes)]
  <2> HIDE DEF path
  <2> QED BY <1>2, <1>3, <1>5, <1>6, <1>7, DestCharged
<1>11. pathLoad' = AddLoad(pathLoad, path, bytes)
  BY <1>2 DEF AccountDest, PerformAccounting
<1>12. SRRTypeOK' /\ CreditsMatchLoad'
  <2> HIDE DEF path
  <2>1. /\ deficitCounter' \in [Paths -> Int] /\ pathLoad' \in [Paths -> Int]
        /\ CountersMatch(deficitCounter', pathLoad')
    BY <1>2, <1>6, <1>8, <1>11, ChargeMatches
  <2> QED BY <1>1, <1>5, <2>1 DEF SRRTypeOK, CreditsMatchLoad, CountersMatch
<1>13. TPSendsToLeast
  <2> SUFFICES ASSUME NEW e \in Dests, destLoad'[e] # destLoad[e], NEW r \in Paths
               PROVE  pathLoad[path] + destLoad[e][path] <= pathLoad[r] + destLoad[e][r]
    BY DEF TPSendsToLeast
  <2>1. e = d
    BY <1>10 DEF DestCountersOK
  <2> HIDE DEF path
  <2>2. main[r] + dest[r] <= main[path] + dest[path]
    BY <1>9
  <2>3. /\ pathLoad[path] - pathLoad[r] = main[r] - main[path]
        /\ destLoad[d][path] - destLoad[d][r] = dest[r] - dest[path]
    BY <1>6, <1>7, <1>8 DEF CountersMatch
  <2>4. /\ main[r] \in Int /\ main[path] \in Int /\ dest[r] \in Int /\ dest[path] \in Int
        /\ pathLoad[path] \in Int /\ pathLoad[r] \in Int
        /\ destLoad[d][path] \in Int /\ destLoad[d][r] \in Int
    BY <1>4, <1>6, <1>7, <1>8
  <2>5. pathLoad[path] + destLoad[d][path] <= pathLoad[r] + destLoad[d][r]
    BY ONLY <2>2, <2>3, <2>4
  <2> QED BY <2>1, <2>5
<1> QED BY <1>10, <1>12, <1>13

(* The invariant of the schemes with counters per destination holds at     *)
(* the start.                                                              *)
LEMMA DestSchemeInit == Init => DestSchemeInv
<1> SUFFICES ASSUME Init PROVE DestSchemeInv
  OBVIOUS
<1>1. destPathState = << >> /\ destLoad = [d \in Dests |-> NoLoad]
  BY DEF Init, DestInit
<1>2. DOMAIN destPathState = {}
  BY <1>1
<1>3. DestCountersOK
  BY <1>1, <1>2, NoLoadFacts DEF DestCountersOK
<1>4. DestBalanced
  BY <1>1, NoLoadFacts, MaxPktAssumption DEF DestBalanced, ImbalanceAtMost
<1>5. scheme = "TP" => SRRTypeOK /\ CreditsMatchLoad
  BY SRRInitInv DEF Init, SRRInv
<1> QED BY <1>3, <1>4, <1>5 DEF DestSchemeInv

(* Every packet keeps it, and two-phase sends along a least loaded path.   *)
LEMMA DestSchemeNext ==
  DestSchemeInv /\ [HandleMessage]_vars
    => DestSchemeInv' /\ [scheme = "TP" => TPSendsToLeast]_vars
<1> SUFFICES ASSUME DestSchemeInv, [HandleMessage]_vars
             PROVE  DestSchemeInv' /\ [scheme = "TP" => TPSendsToLeast]_vars
  OBVIOUS
<1>1. CASE UNCHANGED vars
  BY <1>1 DEF vars, DestSchemeInv, DestCountersOK, CountersMatch, DestBalanced,
              ImbalanceAtMost, SRRTypeOK, CreditsMatchLoad
<1>2. ASSUME NEW d \in Dests, NEW bytes \in PktBytes, Send(d, bytes), UNCHANGED scheme
      PROVE  DestSchemeInv' /\ (scheme = "TP" => TPSendsToLeast)
  <2>1. CASE scheme = "DSD"
    BY <1>2, <2>1, DSDStep DEF Send, DestSchemeInv
  <2>2. CASE scheme = "TP"
    BY <1>2, <2>2, TPStep DEF Send, DestSchemeInv
  <2>3. CASE scheme \notin {"DSD", "TP"}
    BY <1>2, <2>3 DEF DestSchemeInv
  <2> QED BY <2>1, <2>2, <2>3
<1> QED BY <1>1, <1>2 DEF HandleMessage

(* The inductive invariant of the schemes with counters per destination:   *)
(* every set of counters is in step with the bytes it was charged for,     *)
(* whenever it was created and however many rounds it has had.             *)
THEOREM DestSchemeInvariant == Spec => []DestSchemeInv
<1>1. DestSchemeInv /\ [HandleMessage]_vars => DestSchemeInv'
  BY DestSchemeNext
<1> QED BY <1>1, DestSchemeInit, PTL DEF Spec

(* Per-destination sorted deficit keeps the bytes to every destination     *)
(* within one packet on any two paths (the part of DestinationsBalanced    *)
(* about DSDLoadBalancer::choosePath).                                     *)
THEOREM DSDBalanced == Spec => [](scheme = "DSD" => DestBalanced)
<1>1. DestSchemeInv => (scheme = "DSD" => DestBalanced)
  BY DEF DestSchemeInv
<1> QED BY <1>1, DestSchemeInvariant, PTL

(* Two-phase always uses a path on which all bytes and those to the        *)
(* packet's destination are fewest together, although it charges a path    *)
(* that may have no credits left in one of its two sets of counters.       *)
THEOREM TPLeastLoaded == Spec => TwoPhaseSendsToLeastLoaded
<1>1. DestSchemeInv /\ [HandleMessage]_vars => [scheme = "TP" => TPSendsToLeast]_vars
  BY DestSchemeNext
<1> QED BY <1>1, DestSchemeInvariant, PTL DEF Spec, TwoPhaseSendsToLeastLoaded

-----------------------------------------------------------------------------
(* Numbers.                                                                *)

(* The range has an even number of numbers, at least four.                 *)
LEMMA ModulusFact == Modulus \in Nat \ {0} /\ Modulus = Half + Half /\ Half \in Nat \ {0, 1}
  BY HalfAssumption DEF Modulus

(* A multiple of the range that is smaller than the range is 0.            *)
LEMMA SmallMultiple ==
  ASSUME NEW k \in Int, NEW m \in Nat \ {0}, - m < k * m, k * m < m
  PROVE  k = 0
<1>1. CASE k >= 1
  <2>1. (k - 1) * m >= 0 /\ k * m = (k - 1) * m + m
    BY <1>1
  <2> DEFINE x == k * m  y == (k - 1) * m
  <2>2. x \in Int /\ y \in Int /\ y >= 0 /\ x = y + m /\ x < m
    BY <2>1
  <2> HIDE DEF x, y
  <2> QED BY <2>2
<1>2. CASE k <= -1
  <2>1. (-1 - k) * m >= 0 /\ k * m = - ((-1 - k) * m) - m
    BY <1>2
  <2> DEFINE x == k * m  y == (-1 - k) * m
  <2>2. x \in Int /\ y \in Int /\ y >= 0 /\ x = - y - m /\ x > - m
    BY <2>1
  <2> HIDE DEF x, y
  <2> QED BY <2>2
<1> QED BY <1>1, <1>2

(* What a number modulo the range is.                                      *)
LEMMA ModFact ==
  ASSUME NEW a \in Int
  PROVE  /\ a % Modulus \in 0 .. Modulus - 1
         /\ \E k \in Int : a = k * Modulus + (a % Modulus)
<1> DEFINE m == Modulus
<1>1. m \in Nat \ {0}
  BY ModulusFact
<1> HIDE DEF m
<1>2. a % m \in 0 .. m - 1 /\ a \div m \in Int
  BY <1>1
<1>3. a = m * (a \div m) + (a % m)
  <2>1. m \in Int /\ m > 0
    BY <1>1
  <2> QED BY <2>1, Z3
<1> DEFINE k == a \div m
<1>4. k \in Int /\ a = m * k + (a % m) /\ m * k = k * m
  BY <1>1, <1>2, <1>3
<1> HIDE DEF k
<1>5. a = k * m + (a % m) /\ k \in Int
  BY <1>4
<1> QED BY <1>2, <1>5 DEF m

(* Numbers that are the same modulo the range and closer than the range    *)
(* are the same.                                                           *)
LEMMA SameNumber ==
  ASSUME NEW a \in Int, NEW b \in Int, a % Modulus = b % Modulus,
         - Modulus < a - b, a - b < Modulus
  PROVE  a = b
<1>1. PICK k \in Int : a = k * Modulus + (a % Modulus)
  BY ModFact
<1>2. PICK l \in Int : b = l * Modulus + (b % Modulus)
  BY ModFact
<1>3. Modulus \in Nat \ {0} /\ a % Modulus \in Int
  BY ModulusFact, ModFact
<1>4. a - b = (k - l) * Modulus
  <2>1. (k - l) * Modulus = k * Modulus - l * Modulus
    BY <1>3
  <2> DEFINE x == k * Modulus  y == l * Modulus  r == a % Modulus
  <2>2. x \in Int /\ y \in Int /\ r \in Int /\ a = x + r /\ b = y + r
    BY <1>1, <1>2, <1>3
  <2>3. a - b = x - y
    <3> HIDE DEF x, y, r
    <3> QED BY <2>2
  <2> QED BY <2>1, <2>3
<1>5. k - l = 0
  <2> DEFINE d == k - l
  <2>1. d \in Int /\ - Modulus < d * Modulus /\ d * Modulus < Modulus
    BY <1>4
  <2> HIDE DEF d
  <2>2. d = 0
    BY <1>3, <2>1, SmallMultiple
  <2> QED BY <2>2 DEF d
<1>6. (k - l) * Modulus = 0
  BY <1>3, <1>5
<1> QED BY <1>4, <1>6

(* A quotient and a remainder.                                             *)
Division(a, k, m, r) == a = k * m + r

(* There is only one remainder.                                            *)
LEMMA Remainder ==
  ASSUME NEW a \in Int, NEW m \in Nat \ {0}, NEW k \in Int, NEW r \in 0 .. m - 1,
         Division(a, k, m, r)
  PROVE  a % m = r
  BY SMTT(30) DEF Division

(* What is a multiple of the range apart is the same modulo the range.     *)
LEMMA ModShift ==
  ASSUME NEW a \in Int, NEW b \in Int, NEW k \in Int, a = b + k * Modulus
  PROVE  a % Modulus = b % Modulus
<1> DEFINE m == Modulus  r == b % m
<1>1. PICK j \in Int : b = j * m + r
  BY ModFact
<1>2. m \in Nat \ {0} /\ r \in 0 .. m - 1 /\ a = b + k * m
  BY ModulusFact, ModFact
<1> HIDE DEF m, r
<1>3. a = (j + k) * m + r
  <2>1. (j + k) * m = j * m + k * m /\ j * m \in Int /\ k * m \in Int
    BY <1>2
  <2> DEFINE x == j * m  y == k * m  z == (j + k) * m
  <2>2. z = x + y /\ x \in Int /\ y \in Int /\ b = x + r /\ a = b + y
    BY <1>1, <1>2, <2>1
  <2>3. a = z + r
    <3> HIDE DEF x, y, z
    <3> QED BY <1>2, <2>2
  <2> QED BY <2>3
<1>4. a % m = r
  <2> DEFINE i == j + k
  <2>1. i \in Int /\ a = i * m + r
    BY <1>3
  <2> HIDE DEF i
  <2>2. Division(a, i, m, r)
    BY <2>1 DEF Division
  <2> QED BY <1>2, <2>1, <2>2, Remainder
<1> QED BY <1>4 DEF m, r

(* A number of the range is not changed.                                   *)
LEMMA ModSmall ==
  ASSUME NEW a \in 0 .. Modulus - 1
  PROVE  a % Modulus = a
<1>1. Modulus \in Nat \ {0} /\ a \in Int
  BY ModulusFact
<1>2. Division(a, 0, Modulus, a)
  BY <1>1 DEF Division
<1> QED BY <1>1, <1>2, Remainder

(* Adding to a number taken modulo the range or before.                    *)
LEMMA ModAdd ==
  ASSUME NEW a \in Int, NEW c \in Int
  PROVE  ((a % Modulus) + c) % Modulus = (a + c) % Modulus
<1>1. PICK k \in Int : a = k * Modulus + (a % Modulus)
  BY ModFact
<1> DEFINE r == a % Modulus
<1>2. Modulus \in Nat /\ r \in Int
  BY ModulusFact, ModFact
<1>3. a + c = (r + c) + k * Modulus
  <2> DEFINE x == k * Modulus
  <2>1. x \in Int /\ a = x + r
    BY <1>1, <1>2
  <2> HIDE DEF x, r
  <2>2. a + c = (r + c) + x
    BY <1>2, <2>1
  <2> QED BY <2>2 DEF x
<1>4. r + c \in Int /\ a + c \in Int
  BY <1>2
<1> HIDE DEF r
<1>5. (a + c) % Modulus = (r + c) % Modulus
  BY <1>3, <1>4, ModShift
<1> QED BY <1>5 DEF r

(* A number that neither precedes another one nor equals it is up to half  *)
(* the range ahead of it.                                                  *)
LEMMA NotLess ==
  ASSUME NEW s \in 0 .. Modulus - 1, NEW t \in 0 .. Modulus - 1, s # t, ~ seqNoLessThan(s, t)
  PROVE  \E d \in 1 .. Half : s = t + d \/ s = t + d - Modulus
<1>1. CASE s > t
  <2>1. s - t \in 1 .. Half /\ s = t + (s - t)
    BY <1>1, ModulusFact DEF seqNoLessThan
  <2> QED BY <2>1
<1>2. CASE s < t
  <2>1. s - t + Modulus \in 1 .. Half /\ s = t + (s - t + Modulus) - Modulus
    BY <1>2, ModulusFact DEF seqNoLessThan
  <2> QED BY <2>1
<1> QED BY <1>1, <1>2, ModulusFact

-----------------------------------------------------------------------------
(* The packets a buffer releases.                                          *)

(* A packet: its own number, the number modulo the range that is all that  *)
(* is seen of it, and the time it was sent.                                *)
Packet(p) == p.id \in Int /\ p.ts \in Nat /\ p.seq = p.id % Modulus

(* A buffer, with all its fields.                                          *)
BufferRecord(b) ==
  b \in [expected : {b.expected}, queue : {b.queue}, timeout : {b.timeout}, exists : {b.exists}]

(* lookupBuffer() changes nothing else of a buffer that it creates.        *)
LEMMA ExistsExcept ==
  ASSUME NEW b, BufferRecord(b), NEW c, c = [b EXCEPT !.exists = TRUE]
  PROVE  /\ c.expected = b.expected /\ c.queue = b.queue /\ c.timeout = b.timeout
         /\ BufferRecord(c)
  BY DEF BufferRecord

(* The packet last sent up.                                                *)
lastUp == outbox[Len(outbox)]

(* The packets of a queue follow the number e by at most half the range,   *)
(* and no two have the same number.                                        *)
Following(queue, e) ==
  /\ \A p \in queue : Packet(p) /\ e < p.id /\ p.id <= e + Half
  /\ \A p, q \in queue : p.id = q.id => p = q

(* The number of packets in order that follow e - 1.                       *)
RunOf(queue, n) == CHOOSE k \in 0 .. Modulus :
                     /\ Numbered(queue, n + k) = {}
                     /\ \A j \in 0 .. k - 1 : Numbered(queue, n + j) # {}

(* A number seen in the queue stands for one packet at most: ids that fit  *)
(* the window, and the same number modulo the range, are the same.         *)
LEMMA NumberedFact ==
  ASSUME NEW queue, NEW e \in Int, Following(queue, e),
         NEW n \in Int, n % Modulus = (e + 1) % Modulus, NEW k \in 0 .. Half
  PROVE  Numbered(queue, n + k) = {p \in queue : p.id = e + 1 + k}
<1>1. Half \in Nat \ {0, 1} /\ Modulus = Half + Half /\ k \in Int
  BY ModulusFact
<1>2. (n + k) % Modulus = (e + 1 + k) % Modulus
  <2>1. ((n % Modulus) + k) % Modulus = (n + k) % Modulus
    BY <1>1, ModAdd
  <2>2. (((e + 1) % Modulus) + k) % Modulus = (e + 1 + k) % Modulus
    BY <1>1, ModAdd
  <2> QED BY <2>1, <2>2
<1>3. ASSUME NEW p \in queue
      PROVE  p.seq = (n + k) % Modulus <=> p.id = e + 1 + k
  <2> DEFINE a == p.id  b == e + 1 + k
  <2>1. a \in Int /\ b \in Int /\ e < a /\ a <= e + Half /\ p.seq = a % Modulus
    BY <1>1 DEF Following, Packet
  <2>2. - Modulus < a - b /\ a - b < Modulus
    <3> HIDE DEF a
    <3> QED BY <1>1, <2>1
  <2> HIDE DEF a, b
  <2>3. a % Modulus = b % Modulus => a = b
    BY <2>1, <2>2, SameNumber
  <2> QED BY <1>2, <2>1, <2>3 DEF a, b
<1> QED BY <1>3 DEF Numbered

(* The run ends with the first number that is missing.                     *)
LEMMA RunFact ==
  ASSUME NEW queue, NEW e \in Int, Following(queue, e),
         NEW n \in Int, n % Modulus = (e + 1) % Modulus
  PROVE  /\ RunOf(queue, n) \in 0 .. Half
         /\ ~ \E p \in queue : p.id = e + 1 + RunOf(queue, n)
         /\ \A j \in 0 .. RunOf(queue, n) - 1 : \E p \in queue : p.id = e + 1 + j
<1>1. Half \in Nat \ {0, 1} /\ Modulus = Half + Half
  BY ModulusFact
<1> DEFINE T == {k \in 0 .. Half : Numbered(queue, n + k) = {}}
<1>2. Half \in T
  <2>1. Numbered(queue, n + Half) = {p \in queue : p.id = e + 1 + Half}
    <3>1. Half \in 0 .. Half
      BY <1>1
    <3> QED BY <3>1, NumberedFact
  <2>2. \A p \in queue : p.id # e + 1 + Half
    BY <1>1 DEF Following, Packet
  <2> QED BY <1>1, <2>1, <2>2
<1>3. PICK m \in T : \A k \in T : ~ (k < m)
  <2> DEFINE R == OpToRel(<, Nat)
  <2>1. IsWellFoundedOn(R, Nat)
    BY NatLessThanWellFounded
  <2>2. \A x, y \in Nat : <<x, y>> \in R <=> x < y
    BY DEF OpToRel
  <2>3. T \subseteq Nat /\ T # {}
    <3>1. 0 .. Half \subseteq Nat
      BY <1>1
    <3> QED BY <1>2, <3>1
  <2> HIDE DEF R, T
  <2>4. PICK m \in T : \A k \in T : ~ (<<k, m>> \in R)
    BY <2>1, <2>3, WFMin
  <2> QED BY <2>2, <2>3, <2>4
<1> DEFINE Is(k) == /\ Numbered(queue, n + k) = {}
                    /\ \A j \in 0 .. k - 1 : Numbered(queue, n + j) # {}
           run == RunOf(queue, n)
<1>4. m \in 0 .. Modulus /\ Is(m)
  <2>1. m \in 0 .. Half /\ Numbered(queue, n + m) = {}
    BY <1>3
  <2>2. ASSUME NEW j \in 0 .. m - 1 PROVE Numbered(queue, n + j) # {}
    <3>1. j < m /\ j \in 0 .. Half
      BY <1>1, <2>1
    <3> QED BY <1>3, <3>1
  <2> QED BY <1>1, <2>1, <2>2
<1>5. run \in 0 .. Modulus /\ Is(run)
  <2>1. run = CHOOSE k \in 0 .. Modulus : Is(k)
    BY DEF RunOf
  <2> HIDE DEF run, Is
  <2> QED BY <1>4, <2>1
<1>6. run \in 0 .. Half
  <2>1. Numbered(queue, n + Half) = {}
    BY <1>2
  <2>2. CASE run > Half
    <3>1. Half \in 0 .. run - 1
      <4> HIDE DEF run
      <4> QED BY <1>1, <1>5, <2>2
    <3> QED BY <1>5, <2>1, <3>1
  <2> HIDE DEF run
  <2> QED BY <1>1, <1>5, <2>2
<1>7. ~ \E p \in queue : p.id = e + 1 + run
  <2>1. Numbered(queue, n + run) = {p \in queue : p.id = e + 1 + run}
    <3> HIDE DEF run
    <3> QED BY <1>6, NumberedFact
  <2> QED BY <1>5, <2>1
<1>8. ASSUME NEW j \in 0 .. run - 1 PROVE \E p \in queue : p.id = e + 1 + j
  <2>1. j \in 0 .. Half
    <3> HIDE DEF run
    <3> QED BY <1>1, <1>6
  <2>2. Numbered(queue, n + j) = {p \in queue : p.id = e + 1 + j}
    BY <2>1, NumberedFact
  <2> QED BY <1>5, <2>2
<1> QED BY <1>6, <1>7, <1>8 DEF run

(* The packets in order are those with the next numbers, and they are all  *)
(* the packets up to the first number that is missing.                     *)
LEMMA OrderedFact ==
  ASSUME NEW queue, NEW e \in Int, Following(queue, e),
         NEW n \in Int, n % Modulus = (e + 1) % Modulus
  PROVE  \E run \in 0 .. Half :
           /\ Ordered(queue, n) \in [1 .. run -> queue]
           /\ \A k \in 1 .. run : Ordered(queue, n)[k].id = e + k
           /\ ~ \E p \in queue : p.id = e + 1 + run
           /\ queue \ {Ordered(queue, n)[k] : k \in DOMAIN Ordered(queue, n)}
                = {p \in queue : p.id > e + 1 + run}
<1> DEFINE run == RunOf(queue, n)
           out == Ordered(queue, n)
           First(k) == CHOOSE p \in Numbered(queue, n + k - 1) : TRUE
<1>1. Half \in Nat \ {0, 1} /\ Modulus = Half + Half
  BY ModulusFact
<1>2. /\ run \in 0 .. Half
      /\ ~ \E p \in queue : p.id = e + 1 + run
      /\ \A j \in 0 .. run - 1 : \E p \in queue : p.id = e + 1 + j
  BY RunFact
<1>3. out = [k \in 1 .. run |-> First(k)]
  BY DEF Ordered, RunOf
<1>4. ASSUME NEW k \in 1 .. run
      PROVE  First(k) \in queue /\ First(k).id = e + k
  <2>1. /\ k - 1 \in 0 .. run - 1 /\ k - 1 \in 0 .. Half
        /\ e + 1 + (k - 1) = e + k /\ n + (k - 1) = n + k - 1
    <3> HIDE DEF run
    <3> QED BY <1>1, <1>2
  <2>2. PICK p \in queue : p.id = e + 1 + (k - 1)
    BY <1>2, <2>1
  <2>3. Numbered(queue, n + k - 1) = {q \in queue : q.id = e + k}
    <3>1. Numbered(queue, n + (k - 1)) = {q \in queue : q.id = e + 1 + (k - 1)}
      BY <2>1, NumberedFact
    <3> QED BY <2>1, <3>1
  <2>4. Numbered(queue, n + k - 1) # {}
    BY <2>1, <2>2, <2>3
  <2>5. First(k) \in Numbered(queue, n + k - 1)
    BY <2>4
  <2> QED BY <2>3, <2>5
<1> HIDE DEF run, First
<1>5. out \in [1 .. run -> queue] /\ \A k \in 1 .. run : out[k].id = e + k
  BY <1>3, <1>4
<1>6. queue \ {out[k] : k \in DOMAIN out} = {p \in queue : p.id > e + 1 + run}
  <2>1. DOMAIN out = 1 .. run
    BY <1>5
  <2>2. ASSUME NEW p \in queue
        PROVE  (\E k \in 1 .. run : p = out[k]) <=> ~ (p.id > e + 1 + run)
    <3>1. p.id \in Int /\ e < p.id /\ p.id # e + 1 + run
      BY <1>2 DEF Following, Packet
    <3>2. ASSUME NEW k \in 1 .. run, p = out[k] PROVE ~ (p.id > e + 1 + run)
      BY <1>2, <1>5, <3>2
    <3>3. ASSUME ~ (p.id > e + 1 + run) PROVE \E k \in 1 .. run : p = out[k]
      <4> DEFINE d == p.id - e
      <4>1. d \in 1 .. run /\ e + d = p.id
        BY <1>2, <3>1, <3>3
      <4>2. out[d] \in queue /\ out[d].id = p.id
        BY <1>5, <4>1
      <4>3. p = out[d]
        BY <4>2 DEF Following
      <4> QED BY <4>1, <4>3
    <3> QED BY <3>2, <3>3
  <2> HIDE DEF out
  <2> QED BY <2>1, <2>2
<1> QED BY <1>2, <1>5, <1>6

(* The packets r.out, of a queue that follows e, go up from e + 1 on, and  *)
(* the rest stays in the buffer r.buf.                                     *)
Released(r, queue, e) ==
  \E run \in 0 .. Half :
    /\ DOMAIN r.out = 1 .. run /\ r.out \in Seq(queue)
    /\ \A k \in 1 .. run : r.out[k] \in queue /\ r.out[k].id = e + k
    /\ r.buf.queue = {p \in queue : p.id > e + 1 + run}
    /\ r.buf.expected = (e + 1 + run) % Modulus
    /\ BufferRecord(r.buf)
    /\ r.buf.queue = {} => r.buf.timeout = MAXTIME

(* releaseOrderedPackets() does that.                                      *)
LEMMA ReleaseFact ==
  ASSUME NEW queue, NEW e \in Int, Following(queue, e),
         NEW n \in Int, n % Modulus = (e + 1) % Modulus,
         NEW r, r = releaseOrderedPackets(queue, n)
  PROVE  Released(r, queue, e)
<1> DEFINE out == Ordered(queue, n)
           rest == queue \ {out[k] : k \in DOMAIN out}
<1>1. r = [buf |-> [expected |-> (n + Len(out)) % Modulus, queue |-> rest,
                    timeout |-> calculateTimeout(rest), exists |-> TRUE],
           out |-> out]
  BY DEF releaseOrderedPackets
<1>2. PICK run \in 0 .. Half :
           /\ out \in [1 .. run -> queue]
           /\ \A k \in 1 .. run : out[k].id = e + k
           /\ rest = {p \in queue : p.id > e + 1 + run}
  BY OrderedFact
<1>3. rest = {} => calculateTimeout(rest) = MAXTIME
  BY DEF calculateTimeout
<1> HIDE DEF out, rest
<1>4. run \in Nat
  BY ModulusFact
<1>5. out \in Seq(queue) /\ DOMAIN out = 1 .. run /\ Len(out) = run
  BY <1>2, <1>4
<1>6. (n + Len(out)) % Modulus = (e + 1 + run) % Modulus
  <2>1. ((n % Modulus) + run) % Modulus = (n + run) % Modulus
    BY <1>4, ModAdd
  <2>2. (((e + 1) % Modulus) + run) % Modulus = (e + 1 + run) % Modulus
    BY <1>4, ModAdd
  <2> QED BY <1>5, <2>1, <2>2
<1>7. /\ r.out = out /\ r.buf.queue = rest /\ r.buf.expected = (n + Len(out)) % Modulus
      /\ r.buf.timeout = calculateTimeout(rest) /\ BufferRecord(r.buf)
  <2> DEFINE x == (n + Len(out)) % Modulus  t == calculateTimeout(rest)
             c == [expected |-> x, queue |-> rest, timeout |-> t, exists |-> TRUE]
  <2>1. r = [buf |-> c, out |-> out]
    BY <1>1
  <2> HIDE DEF x, t
  <2>2. /\ c.queue = rest /\ c.expected = x /\ c.timeout = t /\ BufferRecord(c)
    BY DEF BufferRecord
  <2> HIDE DEF c
  <2>3. r.buf = c /\ r.out = out
    BY <2>1
  <2> QED BY <2>2, <2>3 DEF x, t
<1>8. /\ DOMAIN r.out = 1 .. run /\ r.out \in Seq(queue)
      /\ \A k \in 1 .. run : r.out[k] \in queue /\ r.out[k].id = e + k
      /\ r.buf.queue = {p \in queue : p.id > e + 1 + run}
      /\ r.buf.expected = (e + 1 + run) % Modulus
      /\ BufferRecord(r.buf)
      /\ r.buf.queue = {} => r.buf.timeout = MAXTIME
  BY <1>2, <1>3, <1>5, <1>6, <1>7
<1> QED BY <1>8 DEF Released

(* Packets that have consecutive numbers, all greater than the last one    *)
(* sent up, keep the packets sent up in order.                             *)
LEMMA SendUpFact ==
  ASSUME outbox \in Seq(Int), Len(outbox) >= 1, lastUp \in Int,
         NEW packets, NEW n \in Nat, NEW first \in Int, DOMAIN packets = 1 .. n,
         \A k \in 1 .. n : packets[k].id = first + k - 1,
         n > 0 => first > lastUp,
         SendUp(packets)
  PROVE  /\ outbox' \in Seq(Int) /\ Len(outbox') >= 1 /\ lastUp' \in Int
         /\ lastUp' = IF n = 0 THEN lastUp ELSE first + n - 1
         /\ UpInOrder'
<1> DEFINE ids == [k \in DOMAIN packets |-> packets[k].id]
<1>1. outbox' = <<lastUp>> \o ids
  BY DEF SendUp, lastUp
<1>2. ids \in [1 .. n -> Int] /\ \A k \in 1 .. n : ids[k] = first + k - 1
  OBVIOUS
<1> HIDE DEF ids
<1>3. ids \in Seq(Int) /\ Len(ids) = n
  BY <1>2
<1>4. <<lastUp>> \in Seq(Int) /\ Len(<<lastUp>>) = 1
  OBVIOUS
<1>5. outbox' \in Seq(Int) /\ Len(outbox') = n + 1
  BY <1>1, <1>3, <1>4
<1>6. \A i \in 1 .. n + 1 : outbox'[i] = IF i = 1 THEN lastUp ELSE first + i - 2
  <2> SUFFICES ASSUME NEW i \in 1 .. n + 1
               PROVE  outbox'[i] = IF i = 1 THEN lastUp ELSE first + i - 2
    OBVIOUS
  <2>1. outbox'[i] = IF i <= 1 THEN <<lastUp>>[i] ELSE ids[i - 1]
    BY <1>1, <1>3, <1>4
  <2>2. CASE i = 1
    BY <2>1, <2>2
  <2>3. CASE i # 1
    <3>1. i - 1 \in 1 .. n /\ ~ (i <= 1)
      BY <2>3
    <3>2. ids[i - 1] = first + (i - 1) - 1
      BY <1>2, <3>1
    <3> QED BY <2>1, <2>3, <3>1, <3>2
  <2> QED BY <2>2, <2>3
<1>7. lastUp' = IF n = 0 THEN lastUp ELSE first + n - 1
  <2>1. lastUp' = outbox'[n + 1]
    BY <1>5 DEF lastUp
  <2>2. n + 1 \in 1 .. n + 1
    OBVIOUS
  <2> QED BY <1>6, <2>1, <2>2
<1>8. UpInOrder'
  <2> SUFFICES ASSUME NEW i \in 2 .. n + 1 PROVE outbox'[i - 1] < outbox'[i]
    BY <1>5 DEF UpInOrder
  <2>1. i \in 1 .. n + 1 /\ i - 1 \in 1 .. n + 1 /\ i # 1 /\ n > 0
    OBVIOUS
  <2>2. outbox'[i] = first + i - 2
    BY <1>6, <2>1
  <2>3. outbox'[i - 1] = IF i - 1 = 1 THEN lastUp ELSE first + (i - 1) - 2
    BY <1>6, <2>1
  <2> QED BY <2>1, <2>2, <2>3
<1> QED BY <1>5, <1>7, <1>8

-----------------------------------------------------------------------------
(* The inductive invariant.                                                *)

(* The packets that can still go up.                                       *)
Live == network \cup buffer.queue

TypesOK ==
  /\ now \in Nat /\ numSent \in Nat /\ BufferRecord(buffer)
  /\ outbox \in Seq(Int) /\ Len(outbox) >= 1 /\ lastUp \in Int

(* The packets are in the order of the times at which they were sent,      *)
(* their numbers lie within half the range of the next one, and what has   *)
(* just been sent comes after what went up.                                *)
LiveInOrder ==
  /\ \A p \in Live : Packet(p) /\ numSent - Half < p.id /\ p.id < numSent /\ p.ts <= now
  /\ \A p, q \in Live : p # q => p.ts # q.ts /\ (p.ts < q.ts <=> p.id < q.id)
  /\ \A p \in buffer.queue : p.ts < now
  /\ \A p \in network : now <= p.ts + MaxDelay /\ (p.ts = now => p.id > lastUp)
  /\ lastUp < numSent

(* The number e that the buffer expects: those of the packets it keeps are *)
(* ahead of it.  After a reset of the buffer e may be anywhere, but no     *)
(* packet that can still go up precedes one that went up; otherwise the    *)
(* packets that went up precede e, and e is close to the next number.      *)
Expects(e) ==
  /\ buffer.expected = e % Modulus
  /\ \A p \in buffer.queue : e < p.id /\ p.id <= e + Half
  /\ \/ \A p \in Live : p.id > lastUp
     \/ lastUp < e /\ numSent - Half < e /\ e <= numSent

(* A timeout for a packet finds one waiting, and once the buffer times out *)
(* the packets still under way come after those that went up.              *)
EventFits ==
  ~ stopped =>
    /\ event.name = "S" => buffer.queue # {}
    /\ event.name = "B" =>
         \A p \in network : p.ts >= event.arrival - BufferTimeout => p.id > lastUp
    /\ buffer.queue = {} => buffer.timeout \in {0, MAXTIME}

OrderInv ==
  /\ TypesOK /\ LiveInOrder /\ (\E e \in Int : Expects(e)) /\ EventFits /\ UpInOrder

(* Before the first packet there is nothing to be out of order.            *)
LEMMA OrderInvInit == ResequencerInit => OrderInv
<1> SUFFICES ASSUME ResequencerInit PROVE OrderInv
  OBVIOUS
<1>1. /\ now = 0 /\ numSent = 0 /\ network = {} /\ outbox = <<-1>>
      /\ buffer = NoBuffer /\ event = NewEvent
  BY DEF ResequencerInit
<1>2. /\ buffer.queue = {} /\ buffer.expected = 0 /\ buffer.timeout = 0
      /\ BufferRecord(buffer) /\ event.name = ""
  BY <1>1 DEF NoBuffer, NewEvent, BufferRecord
<1>3. outbox \in Seq(Int) /\ Len(outbox) = 1 /\ lastUp = -1
  BY <1>1 DEF lastUp
<1>4. TypesOK
  <2>1. now \in Nat /\ numSent \in Nat
    BY <1>1
  <2>2. Len(outbox) >= 1 /\ lastUp \in Int
    BY <1>3
  <2> QED BY <1>2, <1>3, <2>1, <2>2 DEF TypesOK
<1>5. UpInOrder
  BY <1>3 DEF UpInOrder
<1>6. Live = {}
  BY <1>1, <1>2 DEF Live
<1>7. LiveInOrder
  <2>1. lastUp < numSent
    BY <1>1, <1>3
  <2> QED BY <1>1, <1>2, <1>6, <2>1 DEF LiveInOrder
<1>8. EventFits
  BY <1>2 DEF EventFits
<1>9. 0 % Modulus = 0
  BY ModulusFact
<1>10. Expects(0)
  BY <1>1, <1>2, <1>9 DEF Expects, Live
<1> QED BY <1>5, <1>10, <1>7, <1>8, <1>4 DEF OrderInv

(* What stays as it is when live packets go up or are dropped.             *)
LEMMA LiveShrinks ==
  ASSUME OrderInv, Live' \subseteq Live, network' \subseteq network,
         \A p \in buffer'.queue : p.ts < now, now' = now, numSent' = numSent,
         lastUp' = lastUp \/ \E p \in Live : p.ts < now /\ lastUp' = p.id
  PROVE  LiveInOrder'
<1> USE DEF OrderInv, LiveInOrder
<1>1. \A p \in network' : p.ts = now => p.id > lastUp'
  <2> SUFFICES ASSUME NEW p \in network', p.ts = now PROVE p.id > lastUp'
    OBVIOUS
  <2>1. p \in network /\ p \in Live
    BY DEF Live
  <2>2. CASE lastUp' = lastUp
    BY <2>1, <2>2
  <2>3. CASE \E q \in Live : q.ts < now /\ lastUp' = q.id
    <3>1. PICK q \in Live : q.ts < now /\ lastUp' = q.id
      BY <2>3
    <3>2. q # p /\ q.ts < p.ts
      BY <2>1, <3>1 DEF Packet, TypesOK
    <3>3. q.id < p.id /\ q.id \in Int /\ p.id \in Int
      BY <2>1, <3>2 DEF Packet
    <3> QED BY <3>1, <3>3
  <2> QED BY <2>2, <2>3
<1>2. lastUp' < numSent'
  BY DEF Packet
<1>3. \A p \in Live' : Packet(p) /\ numSent' - Half < p.id /\ p.id < numSent' /\ p.ts <= now'
  OBVIOUS
<1>4. \A p, q \in Live' : p # q => p.ts # q.ts /\ (p.ts < q.ts <=> p.id < q.id)
  OBVIOUS
<1>5. \A p \in network' : now' <= p.ts + MaxDelay
  OBVIOUS
<1> QED BY <1>1, <1>2, <1>3, <1>4, <1>5

(* setTimeout() sets the event for the state the buffer is in.             *)
LEMMA SetTimeoutFact ==
  ASSUME now \in Nat, now' = now, LiveInOrder', NEW ev, setTimeout(ev, buffer'.timeout),
         buffer'.queue = {} =>
           buffer'.timeout = MAXTIME \/ (buffer'.timeout = 0 /\ now > 0)
  PROVE  EventFits'
<1> SUFFICES ASSUME ~ stopped'
             PROVE  /\ event'.name = "S" => buffer'.queue # {}
                    /\ event'.name = "B" =>
                         \A p \in network' : p.ts >= event'.arrival - BufferTimeout => p.id > lastUp'
                    /\ buffer'.queue = {} => buffer'.timeout \in {0, MAXTIME}
  BY DEF EventFits
<1> DEFINE name == IF buffer'.timeout > BufferTimeout THEN "B" ELSE "S"
           time == IF name = "B" THEN now + BufferTimeout ELSE buffer'.timeout
<1>1. /\ stopped' = (time < now)
      /\ event' = IF time < now THEN ev
                  ELSE [name |-> name, arrival |-> time, scheduled |->
                          \/ ev.scheduled \/ time # ev.arrival]
  BY DEF setTimeout
<1>2. ~ (time < now)
  <2> HIDE DEF time
  <2> QED BY <1>1
<1>3. event'.name = name /\ event'.arrival = time
  <2> HIDE DEF time, name
  <2> QED BY <1>1, <1>2
<1>4. BufferTimeout \in Nat /\ MAXTIME \in Nat /\ MAXTIME > BufferTimeout
  <2>1. MAXTIME > LastSend + BufferTimeout + 2 * MaxDelay + 0
    BY TimesAssumption
  <2> QED BY <2>1, TimesAssumption
<1>5. ASSUME event'.name = "S" PROVE buffer'.queue # {}
  <2>1. time = buffer'.timeout /\ ~ (buffer'.timeout > BufferTimeout)
    BY <1>3, <1>5
  <2> SUFFICES ASSUME buffer'.queue = {} PROVE FALSE
    OBVIOUS
  <2> HIDE DEF time, name
  <2> QED BY <1>2, <1>4, <2>1
<1>6. ASSUME event'.name = "B", NEW p \in network', p.ts >= event'.arrival - BufferTimeout
      PROVE  p.id > lastUp'
  <2>1. event'.arrival = now + BufferTimeout
    BY <1>3, <1>6
  <2>2. p.ts <= now /\ p.ts \in Int
    BY DEF LiveInOrder, Live, Packet
  <2>3. p.ts = now
    BY <1>4, <1>6, <2>1, <2>2
  <2> QED BY <2>3 DEF LiveInOrder
<1> QED BY <1>5, <1>6

(* One of the packets of the network arrives: it has the number expected,  *)
(* or it is old, or it comes up to half the range later.                   *)
LEMMA ArrivalFact ==
  ASSUME OrderInv, NEW pkt \in network
  PROVE  \E e \in Int :
           /\ Expects(e)
           /\ pkt.seq = buffer.expected => pkt.id = e
           /\ pkt.seq # buffer.expected /\ ~ seqNoLessThan(pkt.seq, buffer.expected) =>
                e < pkt.id /\ pkt.id <= e + Half
<1>1. PICK e0 \in Int : Expects(e0)
  BY DEF OrderInv
<1>2. Half \in Nat \ {0, 1} /\ Modulus = Half + Half /\ Modulus \in Nat \ {0}
  BY ModulusFact
<1> DEFINE s == pkt.seq  t == buffer.expected  id == pkt.id
<1>3. /\ id \in Int /\ s = id % Modulus /\ s \in 0 .. Modulus - 1
      /\ numSent - Half < id /\ id < numSent /\ numSent \in Nat
  BY ModFact DEF OrderInv, LiveInOrder, Live, Packet, TypesOK
<1>4. t \in 0 .. Modulus - 1
  BY <1>1, ModFact DEF Expects
<1>5. PICK d \in 0 .. Modulus - 1 :
        /\ (t + d) % Modulus = s
        /\ s = t => d = 0
        /\ s # t /\ ~ seqNoLessThan(s, t) => d \in 1 .. Half
  <2>1. CASE s = t
    <3>1. (t + 0) % Modulus = s
      <4>1. t + 0 = t
        BY <1>4
      <4> HIDE DEF s, t
      <4> QED BY <1>4, <2>1, <4>1, ModSmall
    <3> QED BY <1>2, <2>1, <3>1
  <2>2. CASE s # t
    <3>1. PICK d \in 1 .. Modulus - 1 :
            /\ s = t + d \/ s = t + d - Modulus
            /\ ~ seqNoLessThan(s, t) => d \in 1 .. Half
      <4>1. CASE ~ seqNoLessThan(s, t)
        <5>1. PICK d \in 1 .. Half : s = t + d \/ s = t + d - Modulus
          <6> HIDE DEF s, t
          <6> QED BY <1>3, <1>4, <2>2, <4>1, NotLess
        <5>2. d \in 1 .. Modulus - 1 \/ d = Modulus
          BY <1>2
        <5>3. d # Modulus
          <6> HIDE DEF s, t
          <6> QED BY <1>2, <5>1, <2>2, <1>3, <1>4
        <5> QED BY <5>1, <5>2, <5>3
      <4>2. CASE seqNoLessThan(s, t)
        <5> HIDE DEF s, t
        <5>1. CASE s > t
          <6>1. s - t \in 1 .. Modulus - 1 /\ s = t + (s - t)
            BY <1>2, <1>3, <1>4, <5>1
          <6> QED BY <4>2, <6>1
        <5>2. CASE s < t
          <6>1. s - t + Modulus \in 1 .. Modulus - 1 /\ s = t + (s - t + Modulus) - Modulus
            BY <1>2, <1>3, <1>4, <5>2
          <6> QED BY <4>2, <6>1
        <5> QED BY <1>2, <1>3, <1>4, <2>2, <5>1, <5>2
      <4> QED BY <4>1, <4>2
    <3>2. (t + d) % Modulus = s
      <4> HIDE DEF s, t
      <4>1. t + d = 0 * Modulus + s \/ t + d = 1 * Modulus + s
        BY <1>2, <1>3, <1>4, <3>1
      <4>2. Division(t + d, 0, Modulus, s) \/ Division(t + d, 1, Modulus, s)
        BY <4>1 DEF Division
      <4>3. t + d \in Int /\ 0 \in Int /\ 1 \in Int
        BY <1>4
      <4> QED BY <1>2, <1>3, <4>2, <4>3, Remainder
    <3> QED BY <2>2, <3>1, <3>2
  <2> QED BY <2>1, <2>2
<1>6. id % Modulus = (t + d) % Modulus
  BY <1>3, <1>5
<1>7. CASE buffer.queue = {} /\ \A p \in Live : p.id > lastUp
  <2> DEFINE e == id - d
  <2>1. e \in Int /\ id = e + d
    BY <1>3
  <2>2. e % Modulus = t
    <3>1. ((id % Modulus) + (- d)) % Modulus = (id + (- d)) % Modulus
      <4> HIDE DEF id
      <4> QED BY <1>3, ModAdd
    <3>2. (((t + d) % Modulus) + (- d)) % Modulus = ((t + d) + (- d)) % Modulus
      <4>1. t + d \in Int /\ - d \in Int
        BY <1>4
      <4> HIDE DEF t
      <4> QED BY <4>1, ModAdd
    <3>3. (t + d) + (- d) = t /\ id + (- d) = id - d
      BY <1>3, <1>4
    <3>4. t % Modulus = t
      <4> HIDE DEF t
      <4> QED BY <1>4, ModSmall
    <3> QED BY <1>6, <3>1, <3>2, <3>3, <3>4
  <2>3. Expects(e)
    BY <1>7, <2>1, <2>2 DEF Expects
  <2>4. s = t => id = e
    BY <1>3, <1>5, <2>1
  <2>5. s # t /\ ~ seqNoLessThan(s, t) => e < id /\ id <= e + Half
    <3> HIDE DEF e
    <3> QED BY <1>2, <1>3, <1>5, <2>1
  <2> QED BY <2>1, <2>3, <2>4, <2>5
<1>8. CASE ~ (buffer.queue = {} /\ \A p \in Live : p.id > lastUp)
  <2>1. numSent - Modulus < e0 /\ e0 <= numSent
    <3>1. CASE buffer.queue = {}
      BY <1>1, <1>2, <1>3, <1>8, <3>1 DEF Expects
    <3>2. CASE buffer.queue # {}
      <4>1. PICK q \in buffer.queue : TRUE
        BY <3>2
      <4>2. q.id \in Int /\ numSent - Half < q.id /\ q.id < numSent /\ e0 < q.id /\ q.id <= e0 + Half
        BY <1>1 DEF Expects, OrderInv, LiveInOrder, Live, Packet
      <4> DEFINE i == q.id
      <4>3. i \in Int /\ numSent - Half < i /\ i < numSent /\ e0 < i /\ i <= e0 + Half
        BY <4>2
      <4> HIDE DEF i
      <4> QED BY <1>2, <1>3, <4>3
    <3> QED BY <3>1, <3>2
  <2>2. d \in 0 .. Half => id = e0 + d
    <3> SUFFICES ASSUME d \in 0 .. Half PROVE id = e0 + d
      OBVIOUS
    <3>1. id - (e0 + d) < Modulus /\ - Modulus < id - (e0 + d)
      <4> HIDE DEF id
      <4> QED BY <1>2, <1>3, <2>1
    <3>2. (e0 + d) % Modulus = (t + d) % Modulus
      <4>1. ((e0 % Modulus) + d) % Modulus = (e0 + d) % Modulus
        BY ModAdd
      <4> QED BY <1>1, <4>1 DEF Expects
    <3>3. e0 + d \in Int
      OBVIOUS
    <3> HIDE DEF id
    <3> QED BY <1>3, <1>6, <3>1, <3>2, <3>3, SameNumber
  <2>3. s = t => id = e0
    BY <1>2, <1>5, <2>2
  <2>4. s # t /\ ~ seqNoLessThan(s, t) => e0 < id /\ id <= e0 + Half
    <3>1. d \in 1 .. Half => e0 < e0 + d /\ e0 + d <= e0 + Half /\ d \in 0 .. Half
      BY <1>2
    <3> QED BY <1>5, <2>2, <3>1
  <2> QED BY <1>1, <2>3, <2>4
<1> QED BY <1>7, <1>8

(* Packets go up and others are kept: what to show for the invariant.      *)
LEMMA DeliverFact ==
  ASSUME OrderInv, now' = now, numSent' = numSent, network' \subseteq network,
         NEW packets, NEW n \in Nat, NEW first \in Int, DOMAIN packets = 1 .. n,
         \A k \in 1 .. n :
           packets[k] \in Live /\ packets[k].ts < now /\ packets[k].id = first + k - 1,
         n > 0 => first > lastUp,
         SendUp(packets),
         BufferRecord(buffer'), \A p \in buffer'.queue : p \in Live /\ p.ts < now,
         NEW e \in Int, Expects(e)',
         NEW ev, setTimeout(ev, buffer'.timeout),
         buffer'.queue = {} =>
           buffer'.timeout = MAXTIME \/ (buffer'.timeout = 0 /\ now > 0)
  PROVE  OrderInv'
<1>1. /\ outbox' \in Seq(Int) /\ Len(outbox') >= 1 /\ lastUp' \in Int
      /\ lastUp' = IF n = 0 THEN lastUp ELSE first + n - 1
      /\ UpInOrder'
  BY SendUpFact DEF OrderInv, TypesOK
<1>2. TypesOK'
  BY <1>1 DEF TypesOK, OrderInv
<1>3. lastUp' = lastUp \/ \E p \in Live : p.ts < now /\ lastUp' = p.id
  <2>1. CASE n = 0
    BY <1>1, <2>1
  <2>2. CASE n # 0
    <3>1. n \in 1 .. n /\ lastUp' = first + n - 1
      BY <1>1, <2>2
    <3>2. packets[n] \in Live /\ packets[n].ts < now /\ packets[n].id = first + n - 1
      BY <3>1
    <3> QED BY <3>1, <3>2
  <2> QED BY <2>1, <2>2
<1>4. LiveInOrder'
  <2>1. Live' \subseteq Live
    BY DEF Live
  <2> QED BY <1>3, <2>1, LiveShrinks
<1>5. EventFits'
  BY <1>4, SetTimeoutFact DEF OrderInv, TypesOK
<1> QED BY <1>1, <1>2, <1>4, <1>5 DEF OrderInv

(* The number that follows the one expected.                               *)
LEMMA NextNumber ==
  ASSUME NEW e \in Int
  PROVE  /\ ((e % Modulus) + 1) % Modulus \in Int
         /\ (((e % Modulus) + 1) % Modulus) % Modulus = (e + 1) % Modulus
<1> DEFINE x == ((e % Modulus) + 1) % Modulus
<1>1. x = (e + 1) % Modulus /\ x \in 0 .. Modulus - 1
  BY ModAdd, ModFact
<1> HIDE DEF x
<1>2. x % Modulus = x /\ x \in Int
  BY <1>1, ModSmall
<1> QED BY <1>1, <1>2 DEF x

(* The queue of the buffer follows the number it expects.                  *)
LEMMA QueueFollows ==
  ASSUME OrderInv, NEW e \in Int, Expects(e)
  PROVE  Following(buffer.queue, e)
  BY DEF OrderInv, LiveInOrder, Expects, Following, Live, Packet

(* A packet that arrives is the expected one, and goes up with those that  *)
(* follow; or it is old; or it waits (handlePacket()).                     *)
LEMMA ArriveStep ==
  ASSUME OrderInv, NEW pkt \in network, sendToResequencer(pkt)
  PROVE  OrderInv'
<1> DEFINE b == [buffer EXCEPT !.exists = TRUE]
           r == handlePacket(b, pkt)
<1>1. /\ ~ stopped /\ pkt.ts < now /\ network' = network \ {pkt}
      /\ buffer' = r.buf /\ SendUp(r.out) /\ setTimeout(event, r.buf.timeout)
      /\ now' = now /\ numSent' = numSent
  BY DEF sendToResequencer
<1>2. /\ b.expected = buffer.expected /\ b.queue = buffer.queue /\ b.timeout = buffer.timeout
      /\ BufferRecord(b)
  <2>1. b = [buffer EXCEPT !.exists = TRUE] /\ BufferRecord(buffer)
    BY DEF OrderInv, TypesOK
  <2> HIDE DEF b
  <2> QED BY <2>1, ExistsExcept
<1>3. PICK e \in Int :
        /\ Expects(e)
        /\ pkt.seq = buffer.expected => pkt.id = e
        /\ pkt.seq # buffer.expected /\ ~ seqNoLessThan(pkt.seq, buffer.expected) =>
             e < pkt.id /\ pkt.id <= e + Half
  BY ArrivalFact
<1>4. /\ pkt \in Live /\ Packet(pkt) /\ numSent - Half < pkt.id /\ pkt.id < numSent
      /\ now \in Nat /\ numSent \in Nat /\ lastUp \in Int
      /\ outbox \in Seq(Int) /\ Len(outbox) >= 1
      /\ \A p \in buffer.queue : p \in Live /\ p.ts < now /\ Packet(p) /\ p.id < numSent
  BY DEF Live, OrderInv, LiveInOrder, TypesOK
<1>5. buffer.expected = e % Modulus /\ Half \in Nat
  BY <1>3, ModulusFact DEF Expects
<1> HIDE DEF b
<1>6. CASE pkt.seq = buffer.expected
  <2> DEFINE m == (pkt.seq + 1) % Modulus
             rel == releaseOrderedPackets(buffer.queue, m)
             out == <<pkt>> \o rel.out
  <2>1. r = [rel EXCEPT !.out = <<pkt>> \o @]
    BY <1>2, <1>6 DEF handlePacket
  <2>2. r.buf = rel.buf /\ r.out = out
    BY <2>1 DEF releaseOrderedPackets
  <2>3. m \in Int /\ m % Modulus = (e + 1) % Modulus
    BY <1>5, <1>6, NextNumber
  <2>4. Following(buffer.queue, e)
    BY <1>3, QueueFollows
  <2>5. PICK run \in 0 .. Half :
               /\ DOMAIN rel.out = 1 .. run /\ rel.out \in Seq(buffer.queue)
               /\ \A k \in 1 .. run : rel.out[k] \in buffer.queue /\ rel.out[k].id = e + k
               /\ rel.buf.queue = {p \in buffer.queue : p.id > e + 1 + run}
               /\ rel.buf.expected = (e + 1 + run) % Modulus
               /\ BufferRecord(rel.buf)
               /\ rel.buf.queue = {} => rel.buf.timeout = MAXTIME
    <3>1. rel = releaseOrderedPackets(buffer.queue, m)
      OBVIOUS
    <3> HIDE DEF m, rel
    <3>2. Released(rel, buffer.queue, e)
      BY <2>3, <2>4, <3>1, ReleaseFact
    <3> QED BY <3>2 DEF Released
  <2>6. pkt.id = e /\ e > lastUp
    BY <1>3, <1>4, <1>6 DEF Expects
  <2> HIDE DEF rel, m
  <2>7. /\ DOMAIN out = 1 .. run + 1 /\ run + 1 \in Nat
        /\ \A k \in 1 .. run + 1 : out[k] = IF k = 1 THEN pkt ELSE rel.out[k - 1]
    <3>1. run \in Nat /\ Len(rel.out) = run
      BY <1>5, <2>5
    <3> QED BY <2>5, <3>1
  <2> HIDE DEF out
  <2>8. ASSUME NEW k \in 1 .. run + 1
        PROVE  out[k] \in Live /\ out[k].ts < now /\ out[k].id = e + k - 1
    <3>1. CASE k = 1
      BY <1>1, <1>4, <2>6, <2>7, <3>1
    <3>2. CASE k # 1
      <4>1. k - 1 \in 1 .. run /\ e + (k - 1) = e + k - 1
        BY <3>2
      <4> QED BY <1>4, <2>5, <2>7, <3>2, <4>1
    <3> QED BY <3>1, <3>2
  <2>9. SendUp(out)
    BY <1>1, <2>2
  <2>10. lastUp' = e + run
    <3>1. run + 1 > 0 /\ run \in Nat
      BY <1>5
    <3>2. lastUp' = IF run + 1 = 0 THEN lastUp ELSE e + (run + 1) - 1
      BY <1>4, <2>6, <2>7, <2>8, <2>9, <3>1, SendUpFact
    <3> QED BY <3>1, <3>2
  <2>11. e + run < numSent
    <3>1. run + 1 \in 1 .. run + 1
      BY <1>5
    <3>2. out[run + 1].id = e + (run + 1) - 1 /\ out[run + 1] \in Live
      BY <2>8, <3>1
    <3>3. out[run + 1].id < numSent
      BY <3>2 DEF OrderInv, LiveInOrder
    <3> QED BY <3>2, <3>3
  <2> DEFINE f == e + 1 + run
  <2>12. f \in Int /\ f <= numSent /\ numSent - Half < f /\ lastUp' < f /\ e <= f
    BY <1>4, <1>5, <2>6, <2>10, <2>11
  <2>13. /\ buffer'.queue = {p \in buffer.queue : p.id > f} /\ buffer'.expected = f % Modulus
         /\ BufferRecord(buffer')
         /\ buffer'.queue = {} => buffer'.timeout = MAXTIME
    BY <1>1, <2>2, <2>5
  <2>14. Expects(f)'
    <3>1. \A p \in buffer'.queue : f < p.id /\ p.id <= f + Half
      <4> SUFFICES ASSUME NEW p \in buffer'.queue PROVE f < p.id /\ p.id <= f + Half
        OBVIOUS
      <4>1. p.id > f /\ p \in buffer.queue
        BY <2>13
      <4>2. p.id <= e + Half /\ p.id \in Int
        BY <2>4, <4>1 DEF Following, Packet
      <4> HIDE DEF f
      <4> QED BY <1>5, <2>12, <4>1, <4>2
    <3> HIDE DEF f
    <3> QED BY <1>1, <2>12, <2>13, <3>1 DEF Expects
  <2>15. e > lastUp /\ setTimeout(event, buffer'.timeout)
    BY <1>1, <2>6
  <2>16. \A p \in buffer'.queue : p \in Live /\ p.ts < now
    BY <1>4, <2>13
  <2> HIDE DEF f, r
  <2> QED BY <1>1, <2>7, <2>8, <2>9, <2>12, <2>13, <2>14, <2>15, <2>16, DeliverFact
<1>7. ASSUME r.out = << >>,
             buffer'.expected = buffer.expected, BufferRecord(buffer'),
             \A p \in buffer'.queue : p \in Live /\ p.ts < now /\ e < p.id /\ p.id <= e + Half,
             buffer'.queue = {} => buffer'.timeout = MAXTIME \/ (buffer'.timeout = 0 /\ now > 0)
      PROVE  OrderInv'
  <2> DEFINE none == << >>
  <2>1. SendUp(none) /\ setTimeout(event, buffer'.timeout) /\ network' \subseteq network
    BY <1>1, <1>7
  <2>2. /\ DOMAIN none = 1 .. 0 /\ 0 \in Nat /\ 0 \in Int /\ ~ (0 > 0)
        /\ \A k \in 1 .. 0 : FALSE
    OBVIOUS
  <2> HIDE DEF none
  <2>3. lastUp' = lastUp
    BY <1>4, <2>1, <2>2, SendUpFact
  <2>4. Expects(e)'
    <3>1. Live' \subseteq Live
      BY <1>7, <2>1 DEF Live
    <3> QED BY <1>1, <1>3, <1>7, <2>3, <3>1 DEF Expects
  <2> QED BY <1>1, <1>7, <2>1, <2>2, <2>4, DeliverFact
<1>8. CASE pkt.seq # buffer.expected /\ seqNoLessThan(pkt.seq, buffer.expected)
  <2>1. r = [buf |-> b, out |-> << >>]
    BY <1>2, <1>8 DEF handlePacket
  <2>2. /\ r.out = << >> /\ buffer'.expected = buffer.expected /\ BufferRecord(buffer')
        /\ buffer'.queue = buffer.queue /\ buffer'.timeout = buffer.timeout
    BY <1>1, <1>2, <2>1
  <2>3. now > 0
    BY <1>1, <1>4 DEF Packet
  <2>4. \A p \in buffer'.queue : p \in Live /\ p.ts < now /\ e < p.id /\ p.id <= e + Half
    BY <1>3, <1>4, <2>2 DEF Expects
  <2>5. buffer'.queue = {} => buffer'.timeout = MAXTIME \/ (buffer'.timeout = 0 /\ now > 0)
    BY <1>1, <2>2, <2>3 DEF OrderInv, EventFits
  <2> QED BY <1>7, <2>2, <2>4, <2>5
<1>9. CASE pkt.seq # buffer.expected /\ ~ seqNoLessThan(pkt.seq, buffer.expected)
  <2> DEFINE q == b.queue \cup {pkt}
             nb == [b EXCEPT !.queue = q, !.timeout = calculateTimeout(q)]
  <2>1. r = [buf |-> nb, out |-> << >>]
    BY <1>2, <1>9 DEF handlePacket
  <2>2. nb.queue = q /\ nb.expected = b.expected /\ BufferRecord(nb)
    <3> DEFINE t == calculateTimeout(q)
    <3>1. nb = [b EXCEPT !.queue = q, !.timeout = t]
      OBVIOUS
    <3> HIDE DEF q, t, nb
    <3> QED BY <1>2, <3>1 DEF BufferRecord
  <2> HIDE DEF nb
  <2>3. /\ r.out = << >> /\ buffer'.expected = buffer.expected /\ BufferRecord(buffer')
        /\ buffer'.queue = buffer.queue \cup {pkt}
    BY <1>1, <1>2, <2>1, <2>2
  <2>4. \A p \in buffer'.queue : p \in Live /\ p.ts < now /\ e < p.id /\ p.id <= e + Half
    BY <1>1, <1>3, <1>4, <1>9, <2>3 DEF Expects
  <2> QED BY <1>7, <2>3, <2>4
<1> QED BY <1>6, <1>8, <1>9

(* A timeout gives up one number, before a packet that waits, and lets the *)
(* packets go up that follow it (handleTimeout() of the buffer).           *)
LEMMA PacketTimeoutStep ==
  ASSUME OrderInv, PacketTimeout
  PROVE  OrderInv'
<1> DEFINE m == (buffer.expected + 1) % Modulus
           r == releaseOrderedPackets(buffer.queue, m)
<1>1. /\ ~ stopped /\ event.name = "S" /\ network' = network /\ now' = now
      /\ numSent' = numSent /\ r = GiveUp(buffer)
      /\ buffer' = r.buf /\ SendUp(r.out)
      /\ setTimeout([event EXCEPT !.scheduled = FALSE], buffer'.timeout)
  BY DEF PacketTimeout, Due, GiveUp
<1>2. PICK e \in Int : Expects(e)
  BY DEF OrderInv
<1>3. /\ now \in Nat /\ numSent \in Nat /\ lastUp \in Int /\ Half \in Nat
      /\ outbox \in Seq(Int) /\ Len(outbox) >= 1
      /\ \A p \in buffer.queue : /\ p \in Live /\ p.ts < now /\ p.id \in Int
                                 /\ numSent - Half < p.id /\ p.id < numSent
                                 /\ e < p.id /\ p.id <= e + Half
  BY <1>2, ModulusFact DEF Live, OrderInv, LiveInOrder, TypesOK, Packet, Expects
<1>4. m \in Int /\ m % Modulus = (e + 1) % Modulus
  BY <1>2, NextNumber DEF Expects
<1>5. Released(r, buffer.queue, e)
  <2>1. r = releaseOrderedPackets(buffer.queue, m) /\ Following(buffer.queue, e)
    BY <1>2, QueueFollows
  <2> HIDE DEF m, r
  <2> QED BY <1>4, <2>1, ReleaseFact
<1> HIDE DEF r
<1>6. PICK run \in 0 .. Half :
        /\ DOMAIN r.out = 1 .. run /\ r.out \in Seq(buffer.queue)
        /\ \A k \in 1 .. run : r.out[k] \in buffer.queue /\ r.out[k].id = e + k
        /\ r.buf.queue = {p \in buffer.queue : p.id > e + 1 + run}
        /\ r.buf.expected = (e + 1 + run) % Modulus
        /\ BufferRecord(r.buf)
        /\ r.buf.queue = {} => r.buf.timeout = MAXTIME
  BY <1>5 DEF Released
<1>7. PICK w \in buffer.queue : TRUE
  BY <1>1 DEF OrderInv, EventFits
<1> DEFINE first == e + 1
           f == e + 1 + run
           out == r.out
<1>8. /\ run \in Nat /\ first \in Int /\ DOMAIN out = 1 .. run /\ SendUp(out)
      /\ \A k \in 1 .. run : out[k] \in Live /\ out[k].ts < now /\ out[k].id = first + k - 1
  <2>1. run \in Nat /\ \A k \in 1 .. run : e + k = e + 1 + k - 1
    BY <1>3
  <2>2. ASSUME NEW k \in 1 .. run
        PROVE  out[k] \in Live /\ out[k].ts < now /\ out[k].id = first + k - 1
    <3>1. out[k] \in buffer.queue /\ out[k].id = e + k /\ e + k = first + k - 1
      BY <1>6, <2>1
    <3> QED BY <1>3, <3>1
  <2>3. DOMAIN out = 1 .. run /\ SendUp(out)
    BY <1>1, <1>6
  <2> QED BY <2>1, <2>2, <2>3
<1>9. run > 0 => /\ first > lastUp /\ numSent - Half < e + run /\ e + run < numSent
  <2> SUFFICES ASSUME run > 0
               PROVE  first > lastUp /\ numSent - Half < e + run /\ e + run < numSent
    OBVIOUS
  <2>1. run \in 1 .. run /\ 1 \in 1 .. run
    BY <1>8
  <2>2. /\ out[run] \in buffer.queue /\ out[run].id = e + run
        /\ out[1] \in buffer.queue /\ out[1].id = e + 1
    BY <1>6, <2>1
  <2>3. first > lastUp
    <3>1. CASE \A p \in Live : p.id > lastUp
      BY <1>3, <2>2, <3>1
    <3>2. CASE lastUp < e
      BY <1>3, <3>2
    <3> QED BY <1>2, <3>1, <3>2 DEF Expects
  <2>4. numSent - Half < out[run].id /\ out[run].id < numSent
    BY <1>3, <2>2
  <2> QED BY <2>2, <2>3, <2>4
<1>10. lastUp' = IF run = 0 THEN lastUp ELSE e + run
  <2>1. lastUp' = IF run = 0 THEN lastUp ELSE first + run - 1
    <3> HIDE DEF first, out
    <3> QED BY <1>3, <1>8, <1>9, SendUpFact
  <2>2. first + run - 1 = e + run
    BY <1>8
  <2> QED BY <2>1, <2>2
<1>11. /\ buffer'.queue = {p \in buffer.queue : p.id > f} /\ buffer'.expected = f % Modulus
       /\ BufferRecord(buffer')
       /\ buffer'.queue = {} => buffer'.timeout = MAXTIME
  BY <1>1, <1>6
<1>12. f \in Int /\ e < f
  BY <1>8
<1>13. \/ \A p \in Live' : p.id > lastUp'
       \/ lastUp' < f /\ numSent - Half < f /\ f <= numSent
  <2>1. CASE run = 0
    <3>1. lastUp' = lastUp /\ f = e + 1
      BY <1>10, <2>1
    <3>2. Live' \subseteq Live
      BY <1>1, <1>11 DEF Live
    <3>3. CASE \A p \in Live : p.id > lastUp
      BY <3>1, <3>2, <3>3
    <3>4. CASE lastUp < e /\ numSent - Half < e
      <4>1. e < w.id /\ w.id < numSent /\ w.id \in Int
        BY <1>3, <1>7
      <4>2. e + 1 <= numSent
        <5> DEFINE i == w.id
        <5>1. i \in Int /\ e < i /\ i < numSent
          BY <4>1
        <5> HIDE DEF i
        <5> QED BY <1>3, <5>1
      <4> QED BY <1>3, <3>1, <3>4, <4>2
    <3> QED BY <1>2, <3>3, <3>4 DEF Expects
  <2>2. CASE run # 0
    BY <1>3, <1>8, <1>9, <1>10, <2>2
  <2> QED BY <2>1, <2>2
<1>14. Expects(f)'
  <2>1. \A p \in buffer'.queue : f < p.id /\ p.id <= f + Half
    <3> SUFFICES ASSUME NEW p \in buffer'.queue PROVE f < p.id /\ p.id <= f + Half
      OBVIOUS
    <3>1. p.id > f /\ p.id <= e + Half /\ p.id \in Int
      BY <1>3, <1>11
    <3> HIDE DEF f
    <3> QED BY <1>3, <1>12, <3>1
  <2> HIDE DEF f
  <2> QED BY <1>1, <1>11, <1>13, <2>1 DEF Expects
<1>15. \A p \in buffer'.queue : p \in Live /\ p.ts < now
  BY <1>3, <1>11
<1>16. run > 0 => first > lastUp
  BY <1>9
<1> HIDE DEF f, first, out
<1> QED BY <1>1, <1>8, <1>11, <1>12, <1>14, <1>15, <1>16, DeliverFact

(* When the buffer is thrown away, no packet that preceded one that went   *)
(* up is still under way (removeBuffer()).                                 *)
LEMMA RemoveBufferStep ==
  ASSUME OrderInv, RemoveBuffer
  PROVE  OrderInv'
<1>1. /\ ~ stopped /\ event.name = "B" /\ event.arrival = now
      /\ buffer' = NoBuffer /\ event' = NewEvent
      /\ now' = now /\ numSent' = numSent /\ network' = network /\ outbox' = outbox
  BY DEF RemoveBuffer, Due
<1>2. lastUp' = lastUp
  BY <1>1 DEF lastUp
<1>3. /\ buffer'.queue = {} /\ buffer'.expected = 0 /\ buffer'.timeout = 0
      /\ BufferRecord(buffer') /\ event'.name = ""
  BY <1>1 DEF NoBuffer, NewEvent, BufferRecord
<1>4. Live' = network
  BY <1>1, <1>3 DEF Live
<1>5. \A p \in network : p.id > lastUp
  <2> SUFFICES ASSUME NEW p \in network PROVE p.id > lastUp
    OBVIOUS
  <2>1. now <= p.ts + MaxDelay /\ p.ts \in Nat /\ now \in Nat
    BY DEF OrderInv, LiveInOrder, TypesOK, Live, Packet
  <2>2. p.ts >= event.arrival - BufferTimeout
    BY <1>1, <2>1, TimesAssumption
  <2> QED BY <1>1, <2>2 DEF OrderInv, EventFits
<1>6. TypesOK' /\ UpInOrder'
  BY <1>1, <1>2, <1>3 DEF OrderInv, TypesOK, UpInOrder
<1>7. LiveInOrder'
  BY <1>1, <1>2, <1>3, <1>4 DEF OrderInv, LiveInOrder, Live
<1>8. Expects(0)'
  <2>1. 0 % Modulus = 0
    BY ModulusFact
  <2> QED BY <1>1, <1>2, <1>3, <1>4, <1>5, <2>1 DEF Expects
<1>9. EventFits'
  BY <1>3 DEF EventFits
<1> QED BY <1>6, <1>7, <1>8, <1>9 DEF OrderInv

(* A new packet is the last one, and the numbers stay within half the      *)
(* range.                                                                  *)
LEMMA SendStep ==
  ASSUME OrderInv, NEW lost \in BOOLEAN, SendPacket(lost)
  PROVE  OrderInv'
<1> DEFINE new == [id |-> numSent, ts |-> now, seq |-> numSent % Modulus]
<1>1. /\ ~ stopped /\ \A p \in network : p.ts # now
      /\ (numSent + 1 - buffer.expected) % Modulus < Half
      /\ \A p \in Live : numSent + 1 - p.id < Half
      /\ numSent' = numSent + 1
      /\ network' = network \/ network' = network \cup {new}
      /\ now' = now /\ buffer' = buffer /\ event' = event /\ stopped' = stopped
      /\ outbox' = outbox
  BY DEF SendPacket, Live
<1>2. /\ lastUp' = lastUp /\ now \in Nat /\ numSent \in Nat /\ lastUp \in Int
      /\ lastUp < numSent /\ Half \in Nat \ {0, 1} /\ MaxDelay \in Nat
  BY <1>1, ModulusFact, TimesAssumption DEF lastUp, OrderInv, TypesOK, LiveInOrder
<1>3. Packet(new) /\ new.id = numSent /\ new.ts = now
  BY <1>2 DEF Packet
<1>4. ~ (new \in Live)
  BY <1>2, <1>3 DEF OrderInv, LiveInOrder
<1> HIDE DEF new
<1>5. Live' = Live \/ Live' = Live \cup {new}
  BY <1>1 DEF Live
<1>6. \A p \in Live : /\ p.id \in Int /\ p.ts \in Nat /\ Packet(p) /\ p.id < numSent
                      /\ p.ts < now
  BY <1>1, <1>2 DEF OrderInv, LiveInOrder, Live, Packet
<1>7. TypesOK' /\ UpInOrder'
  BY <1>1, <1>2 DEF OrderInv, TypesOK, UpInOrder
<1>8. LiveInOrder'
  <2>0. numSent' = numSent + 1 /\ now' = now
    BY <1>1
  <2>1. \A p \in Live' : Packet(p) /\ numSent' - Half < p.id /\ p.id < numSent' /\ p.ts <= now'
    <3>1. ASSUME NEW p \in Live
          PROVE  Packet(p) /\ numSent + 1 - Half < p.id /\ p.id < numSent + 1 /\ p.ts <= now
      BY <1>1, <1>2, <1>6
    <3>2. Packet(new) /\ numSent + 1 - Half < new.id /\ new.id < numSent + 1 /\ new.ts <= now
      BY <1>2, <1>3
    <3>3. ASSUME NEW p \in Live'
          PROVE  Packet(p) /\ numSent + 1 - Half < p.id /\ p.id < numSent + 1 /\ p.ts <= now
      <4>1. p \in Live \/ p = new
        BY <1>5
      <4> QED BY <3>1, <3>2, <4>1
    <3>4. numSent' - Half = numSent + 1 - Half
      BY <1>2, <2>0
    <3> QED BY <2>0, <3>3, <3>4
  <2>2. ASSUME NEW p \in Live', NEW q \in Live', p # q
        PROVE  p.ts # q.ts /\ (p.ts < q.ts <=> p.id < q.id)
    <3>1. CASE p \in Live /\ q \in Live
      BY <2>2, <3>1 DEF OrderInv, LiveInOrder
    <3>2. CASE p \in Live /\ q = new
      BY <1>2, <1>3, <1>6, <3>2
    <3>3. CASE p = new /\ q \in Live
      BY <1>2, <1>3, <1>6, <3>3
    <3> QED BY <1>5, <2>2, <3>1, <3>2, <3>3
  <2>3. \A p \in buffer'.queue : p.ts < now'
    BY <1>1, <2>0 DEF OrderInv, LiveInOrder
  <2>4. \A p \in network' : now' <= p.ts + MaxDelay /\ (p.ts = now' => p.id > lastUp')
    <3>1. \A p \in network : now <= p.ts + MaxDelay /\ (p.ts = now => p.id > lastUp)
      BY DEF OrderInv, LiveInOrder
    <3>2. now <= new.ts + MaxDelay /\ new.id > lastUp
      BY <1>2, <1>3
    <3> QED BY <1>1, <1>2, <2>0, <3>1, <3>2
  <2>5. lastUp' < numSent'
    BY <1>2, <2>0
  <2> QED BY <2>1, <2>2, <2>3, <2>4, <2>5 DEF LiveInOrder
<1>9. \E e \in Int : Expects(e)'
  <2>1. PICK e \in Int : Expects(e)
    BY DEF OrderInv
  <2>2. CASE \A p \in Live : p.id > lastUp
    <3>1. \A p \in Live' : p.id > lastUp'
      BY <1>2, <1>3, <1>5, <2>2
    <3> QED BY <1>1, <2>1, <3>1 DEF Expects
  <2>3. CASE lastUp < e /\ numSent - Half < e /\ e <= numSent
    <3> DEFINE x == numSent + 1 - e
    <3>1. x \in 0 .. Modulus - 1 /\ x \in Int
      BY <1>2, <2>3, ModulusFact
    <3>2. x < Half
      <4>1. PICK k \in Int : e = k * Modulus + (e % Modulus)
        BY ModFact
      <4>2. buffer.expected = e % Modulus /\ e % Modulus \in Int /\ Modulus \in Nat \ {0}
        BY <2>1, ModFact, ModulusFact DEF Expects
      <4> DEFINE y == numSent + 1 - buffer.expected  z == k * Modulus
      <4>3. z \in Int /\ e = z + buffer.expected
        BY <4>1, <4>2
      <4>4. y \in Int /\ y = x + z
        <5> HIDE DEF z
        <5> QED BY <1>2, <4>2, <4>3
      <4> HIDE DEF x, y
      <4>5. y % Modulus = x % Modulus
        BY <3>1, <4>4, ModShift
      <4>6. x % Modulus = x
        BY <3>1, ModSmall
      <4>7. y % Modulus < Half
        BY <1>1 DEF y
      <4> QED BY <4>5, <4>6, <4>7
    <3>3. lastUp' < e /\ numSent' - Half < e /\ e <= numSent'
      BY <1>1, <1>2, <2>3, <3>2
    <3> QED BY <1>1, <2>1, <3>3 DEF Expects
  <2> QED BY <2>1, <2>2, <2>3 DEF Expects
<1>10. EventFits'
  <2>1. \A p \in network' : p \in network \/ p.id > lastUp'
    BY <1>1, <1>2, <1>3
  <2> QED BY <1>1, <1>2, <2>1 DEF OrderInv, EventFits
<1> QED BY <1>7, <1>8, <1>9, <1>10 DEF OrderInv

(* Time goes on, but not past the longest delay of a packet under way.     *)
LEMMA TickStep ==
  ASSUME OrderInv, Tick
  PROVE  OrderInv'
<1>1. /\ \A p \in network : now < p.ts + MaxDelay
      /\ now' = now + 1 /\ buffer' = buffer /\ event' = event /\ stopped' = stopped
      /\ numSent' = numSent /\ network' = network /\ outbox' = outbox
  BY DEF Tick
<1>2. lastUp' = lastUp /\ Live' = Live /\ now \in Nat /\ MaxDelay \in Nat
  BY <1>1, TimesAssumption DEF lastUp, Live, OrderInv, TypesOK
<1>3. TypesOK' /\ UpInOrder'
  BY <1>1, <1>2 DEF OrderInv, TypesOK, UpInOrder
<1>4. \A p \in Live : p.ts \in Nat /\ p.ts <= now /\ p.ts < now + 1
  BY <1>2 DEF OrderInv, LiveInOrder, Packet
<1>5. LiveInOrder'
  <2>1. \A p \in buffer.queue : p.ts < now + 1
    BY <1>4 DEF Live
  <2>2. \A p \in network : now + 1 <= p.ts + MaxDelay /\ p.ts # now + 1
    BY <1>1, <1>2, <1>4 DEF Live
  <2>3. \A p \in Live : p.ts <= now + 1
    BY <1>2, <1>4
  <2> QED BY <1>1, <1>2, <2>1, <2>2, <2>3 DEF OrderInv, LiveInOrder
<1>6. \A e \in Int : Expects(e) => Expects(e)'
  BY <1>1, <1>2 DEF Expects
<1>7. EventFits'
  BY <1>1, <1>2 DEF OrderInv, EventFits
<1> QED BY <1>3, <1>5, <1>6, <1>7 DEF OrderInv

(* Every step of the resequencer and the network keeps the invariant.      *)
LEMMA OrderInvStep == OrderInv /\ [ResequencerNext]_ResequencerVars => OrderInv'
<1> SUFFICES ASSUME OrderInv, [ResequencerNext]_ResequencerVars PROVE OrderInv'
  OBVIOUS
<1>1. CASE \E lost \in BOOLEAN : SendPacket(lost)
  BY <1>1, SendStep
<1>2. CASE \E pkt \in network : sendToResequencer(pkt)
  BY <1>2, ArriveStep
<1>3. CASE PacketTimeout
  BY <1>3, PacketTimeoutStep
<1>4. CASE RemoveBuffer
  BY <1>4, RemoveBufferStep
<1>5. CASE Tick
  BY <1>5, TickStep
<1>6. CASE (\E delay \in 1 .. MaxDelay : OtherSender(delay)) \/ UNCHANGED ResequencerVars
  <2>1. UNCHANGED <<now, buffer, event, stopped, numSent, network, outbox>>
    BY <1>6 DEF OtherSender, ResequencerVars
  <2>2. lastUp' = lastUp /\ Live' = Live
    BY <2>1 DEF lastUp, Live
  <2>3. TypesOK' /\ LiveInOrder' /\ UpInOrder'
    BY <2>1, <2>2 DEF OrderInv, TypesOK, LiveInOrder, UpInOrder
  <2>4. \A e \in Int : Expects(e) => Expects(e)'
    BY <2>1, <2>2 DEF Expects
  <2>5. EventFits'
    BY <2>1, <2>2 DEF OrderInv, EventFits
  <2> QED BY <2>3, <2>4, <2>5 DEF OrderInv
<1> QED BY <1>1, <1>2, <1>3, <1>4, <1>5, <1>6 DEF ResequencerNext

(* With numbers of any size that wrap around, any timeouts, and whatever   *)
(* is lost and overtaken: packets go up in the order in which they were    *)
(* sent, none of them twice (SequenceNumberBuffer::handlePacket(),         *)
(* releaseOrderedPackets(), SequenceNumberResequencer::setTimeout()).      *)
THEOREM PacketsUpInOrder == ResequencerSpec => []UpInOrder
<1>1. OrderInv => UpInOrder
  BY DEF OrderInv
<1> QED BY <1>1, OrderInvInit, OrderInvStep, PTL DEF ResequencerSpec

=============================================================================
