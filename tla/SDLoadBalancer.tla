--------------------------- MODULE SDLoadBalancer ---------------------------
(***************************************************************************)
(* SDLoadBalancer (sorted deficit): the counters and rounds of surplus     *)
(* round robin, but the path with the most credits is always used.         *)
(***************************************************************************)
EXTENDS SRRLoadBalancer

(* Mutant of MostCredits: counters looked up by index instead of path.     *)
MostCreditsByIndex(list, dc, i) ==
  /\ \A j \in Paths : dc[j] <= dc[i]
  /\ \A j \in Paths : j < i => dc[j] < dc[i]

(* The index the scan for the maximum stops at: the comparison is strict,  *)
(* so of several maxima the first one in the list.                         *)
MostCredits(list, dc, i) ==
  /\ \A j \in Paths : dc[list[j]] <= dc[list[i]]
  /\ \A j \in Paths : j < i => dc[list[j]] < dc[list[i]]

(* newRound() is called until some path has credits.                       *)
RoundsUntilCredits(dc, rounds) ==
  /\ ~ Spent(AfterRounds(dc, rounds))
  /\ \A k \in 0 .. rounds - 1 : Spent(AfterRounds(dc, k))

SDHandleMessage(bytes) ==
  \E rounds \in 0 .. MaxPkt :
    /\ RoundsUntilCredits(deficitCounter, rounds)
    /\ pathList' \in IF rounds = 0 THEN {pathList} ELSE ShuffledLists(pathList)
    /\ currentIndex' \in Paths
    /\ MostCredits(pathList', AfterRounds(deficitCounter, rounds), currentIndex')
    /\ Charge(AfterRounds(deficitCounter, rounds), pathList'[currentIndex'], bytes)
    /\ PerformAccounting(pathList'[currentIndex'], bytes)

-----------------------------------------------------------------------------
(* Whatever the quantum, the bytes sent on two paths never differ by more  *)
(* than one packet ("Doesn't matter what this is", says the configuration  *)
(* Throughput_vs_OfferedLoad.ini of the quantum).                          *)
ByteBalanced == ImbalanceAtMost(pathLoad, MaxPkt)

(* The inductive invariant of the scheme.                                  *)
SDInv == SRRTypeOK /\ CreditsBounded /\ CreditsMatchLoad /\ ByteBalanced

=============================================================================
