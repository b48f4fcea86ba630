-------------------------- MODULE SRRLoadBalancer ---------------------------
(***************************************************************************)
(* SRRLoadBalancer (surplus round robin): every path has a deficit counter *)
(* that a round tops up by a quantum of bytes; a path is used until its    *)
(* counter is spent, the last packet may overdraw it.  Also the state and  *)
(* the rounds the other deficit schemes inherit.  pathLoad counts bytes.   *)
(***************************************************************************)
EXTENDS LoadBalancer

CONSTANTS
  Quantum,    \* quantum_: bytes a path gets per round
  MaxPkt,     \* size of the longest packet
  PktBytes    \* the packet sizes that occur (getByteLength)

ASSUME QuantumAssumption == Quantum \in Nat \ {0}
ASSUME MaxPktAssumption == MaxPkt \in Nat \ {0}
ASSUME PktBytesAssumption == PktBytes \subseteq 1 .. MaxPkt

VARIABLE deficitCounter    \* deficitCounter_: credits left on each path

srrVars == <<pathList, currentIndex, pathLoad, deficitCounter>>

SRRTypeOK ==
  /\ pathList \in PathLists
  /\ currentIndex \in Paths
  /\ pathLoad \in [Paths -> Int]
  /\ deficitCounter \in [Paths -> Int]

(* Mutant of AfterRounds: overdraft is forgiven.                           *)
AfterRoundsAnew(dc, rounds) ==
  [p \in Paths |-> (IF dc[p] < 0 /\ rounds > 0 THEN 0 ELSE dc[p]) + rounds * Quantum]

(* The counters after newRound() has run rounds times.                     *)
AfterRounds(dc, rounds) == [p \in Paths |-> dc[p] + rounds * Quantum]

(* No path has credits: a scan over the whole list ends in newRound().     *)
Spent(dc) == \A p \in Paths : dc[p] <= 0

(* initialize(): counters at 0, the shuffle of RRLoadBalancer, a newRound. *)
SRRInit ==
  /\ pathList \in PathLists
  /\ currentIndex = 0
  /\ pathLoad = NoLoad
  /\ deficitCounter = [p \in Paths |-> Quantum]

(* Mutant of Charge: one credit per packet, whatever its length.           *)
ChargeOnePacket(dc, path, bytes) == deficitCounter' = [dc EXCEPT ![path] = @ - 1]

Charge(dc, path, bytes) == deficitCounter' = [dc EXCEPT ![path] = @ - bytes]

(* Mutant of FirstWithCredits: a spent path passes.                        *)
FirstNotOverdrawn(list, dc, start, i) ==
  /\ i >= start
  /\ dc[list[i]] >= 0
  /\ \A j \in Paths : start <= j /\ j < i => dc[list[j]] < 0

(* i is the first index from start on whose path has credits.              *)
FirstWithCredits(list, dc, start, i) ==
  /\ i >= start
  /\ dc[list[i]] > 0
  /\ \A j \in Paths : start <= j /\ j < i => dc[list[j]] <= 0

(* The scan from the current index finds a path in this round.             *)
FoundInRound(bytes) ==
  /\ currentIndex' \in Paths
  /\ FirstWithCredits(pathList, deficitCounter, currentIndex, currentIndex')
  /\ UNCHANGED pathList
  /\ Charge(deficitCounter, pathList[currentIndex'], bytes)

(* The scan runs off the list: newRound() is called until a scan from its  *)
(* beginning finds a path.  At most MaxPkt rounds refill a spent path.     *)
FoundAfterRounds(bytes) ==
  /\ \A j \in Paths : j >= currentIndex => deficitCounter[pathList[j]] <= 0
  /\ \E rounds \in 1 .. MaxPkt :
       /\ \A k \in 1 .. rounds - 1 : Spent(AfterRounds(deficitCounter, k))
       /\ pathList' \in ShuffledLists(pathList)
       /\ currentIndex' \in Paths
       /\ FirstWithCredits(pathList', AfterRounds(deficitCounter, rounds), 0, currentIndex')
       /\ Charge(AfterRounds(deficitCounter, rounds), pathList'[currentIndex'], bytes)

(* handleMessage for a packet of the given length.                         *)
SRRHandleMessage(bytes) ==
  /\ FoundInRound(bytes) \/ FoundAfterRounds(bytes)
  /\ PerformAccounting(pathList'[currentIndex'], bytes)

-----------------------------------------------------------------------------
(* The bytes sent on two paths never differ by a quantum plus a packet:    *)
(* overdraft is carried over to the next rounds, not forgiven.             *)
ByteFair == ImbalanceAtMost(pathLoad, Quantum + MaxPkt - 1)

(* Credits never exceed a quantum and a path is overdrawn by less than one *)
(* packet, so choosePath's loop ends after finitely many rounds.           *)
CreditsBounded == \A p \in Paths : deficitCounter[p] \in 1 - MaxPkt .. Quantum

(* The paths before the index are spent for this round.                    *)
VisitedSpent ==
  \A i \in Paths : i < currentIndex => deficitCounter[pathList[i]] <= 0

(* The credits of two paths differ by what was sent on them.               *)
CreditsMatchLoad ==
  \A p, r \in Paths :
    pathLoad[p] - pathLoad[r] = deficitCounter[r] - deficitCounter[p]

SRRInv ==
  /\ SRRTypeOK
  /\ CreditsBounded
  /\ VisitedSpent
  /\ CreditsMatchLoad

=============================================================================
