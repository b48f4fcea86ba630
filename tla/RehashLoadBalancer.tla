------------------------- MODULE RehashLoadBalancer -------------------------
(***************************************************************************)
(* RehashLoadBalancer: stays on a path while it has credits, then draws    *)
(* paths at random, topping up the spent ones it meets, until it draws one *)
(* with credits.                                                           *)
(***************************************************************************)
EXTENDS SRRLoadBalancer

CONSTANT MaxImbalance   \* bound: how far apart the loads of two paths may grow

ASSUME MaxImbalanceAssumption == MaxImbalance \in Nat

VARIABLE runBytes   \* history: bytes sent since the current path was drawn,
                    \* counted up to Quantum

rehashVars == <<srrVars, runBytes>>

AtMostQuantum(n) == IF n < Quantum THEN n ELSE Quantum

(* Mutant of TopUps: also paths that have credits are topped up.           *)
TopUpsOfAny(dc, given) == given \in [Paths -> 0 .. MaxPkt]

(* A path is topped up by one quantum each time it is drawn while spent.   *)
TopUps(dc, given) ==
  /\ given \in [Paths -> 0 .. MaxPkt]
  /\ \A p \in Paths : given[p] > 0 => dc[p] + (given[p] - 1) * Quantum <= 0

ToppedUp(dc, given) == [p \in Paths |-> dc[p] + given[p] * Quantum]

StayOnPath(bytes) ==
  /\ deficitCounter[pathList[currentIndex]] > 0
  /\ UNCHANGED currentIndex
  /\ Charge(deficitCounter, pathList[currentIndex], bytes)
  /\ runBytes' = AtMostQuantum(runBytes + bytes)

(* Mutant of DrawPath: the packet is charged to the path drawn before.     *)
DrawPathChargesOld(bytes) ==
  /\ deficitCounter[pathList[currentIndex]] <= 0
  /\ \E given \in [Paths -> 0 .. MaxPkt] :
       /\ TopUps(deficitCounter, given)
       /\ currentIndex' \in Paths
       /\ ToppedUp(deficitCounter, given)[pathList[currentIndex']] > 0
       /\ Charge(ToppedUp(deficitCounter, given), pathList[currentIndex], bytes)
  /\ runBytes' = AtMostQuantum(bytes)

(* The loop of choosePath: any series of top-ups of spent paths, ended by  *)
(* drawing a path that has credits by then.                                *)
DrawPath(bytes) ==
  /\ deficitCounter[pathList[currentIndex]] <= 0
  /\ \E given \in [Paths -> 0 .. MaxPkt] :
       /\ TopUps(deficitCounter, given)
       /\ currentIndex' \in Paths
       /\ ToppedUp(deficitCounter, given)[pathList[currentIndex']] > 0
       /\ Charge(ToppedUp(deficitCounter, given), pathList[currentIndex'], bytes)
  /\ runBytes' = AtMostQuantum(bytes)

(* Nothing keeps the loads of the paths together in this scheme.           *)
RehashHandleMessage(bytes) ==
  /\ StayOnPath(bytes) \/ DrawPath(bytes)
  /\ PerformAccounting(pathList[currentIndex'], bytes)
  /\ ImbalanceAtMost(pathLoad', MaxImbalance)
  /\ UNCHANGED pathList

RehashHistoryInit == runBytes = 0

RehashInit == SRRInit /\ RehashHistoryInit

RehashNext == \E bytes \in PktBytes : RehashHandleMessage(bytes)

RehashSpec == RehashInit /\ [][RehashNext]_rehashVars

-----------------------------------------------------------------------------
(* What a path has carried and the credits it has left add up to whole     *)
(* quanta, whatever paths are drawn and topped up: none is lost or charged *)
(* to another path.                                                        *)
WholeQuanta ==
  \A p, r \in Paths :
    (pathLoad[p] + deficitCounter[p] - pathLoad[r] - deficitCounter[r]) % Quantum = 0

(* LoadBalancer.ned: "Chooses paths at random but sends at least quantum   *)
(* bytes worth of packets along the current path before a new path is      *)
(* chosen".                                                                *)
QuantumBeforeNewPath ==
  [][deficitCounter[pathList[currentIndex]] <= 0 => runBytes >= Quantum]_rehashVars

=============================================================================
