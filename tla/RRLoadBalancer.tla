--------------------------- MODULE RRLoadBalancer ---------------------------
(***************************************************************************)
(* RRLoadBalancer and PRRLoadBalancer: one packet per path in turn, with   *)
(* the path list shuffled at the start of each round if UsePermutations.   *)
(* pathLoad counts packets.                                                *)
(***************************************************************************)
EXTENDS LoadBalancer

RRTypeOK ==
  /\ pathList \in PathLists
  /\ currentIndex \in 0 .. NumPaths
  /\ pathLoad \in [Paths -> Int]

(* Mutant of RRInit: the index starts at the first path.                   *)
RRInitAtFirstPath ==
  pathList \in PathLists /\ currentIndex = 0 /\ pathLoad = NoLoad

(* The list is shuffled even when later rounds keep it; the index is left  *)
(* past the end so that the first packet starts a round.                   *)
RRInit ==
  /\ pathList \in PathLists
  /\ currentIndex = NumPaths
  /\ pathLoad = NoLoad

(* Mutant of NewRound: the first path of the list is skipped.              *)
NewRoundSkipsFirst ==
  /\ currentIndex' = IF NumPaths > 1 THEN 1 ELSE 0
  /\ pathList' \in ShuffledLists(pathList)

NewRound ==
  /\ currentIndex' = 0
  /\ pathList' \in ShuffledLists(pathList)

SameRound ==
  /\ currentIndex' = currentIndex + 1
  /\ UNCHANGED pathList

RRChoosePath == IF currentIndex + 1 >= NumPaths THEN NewRound ELSE SameRound

(* handleMessage for a packet that arrives from the upper layer.           *)
RRHandleMessage ==
  /\ RRChoosePath
  /\ PerformAccounting(pathList'[currentIndex'], 1)

-----------------------------------------------------------------------------
(* No path is ever used twice more than another path: whatever the         *)
(* permutation a round draws, the packets choosePath has put on any two    *)
(* paths differ by at most one.                                            *)
PacketFair == ImbalanceAtMost(pathLoad, 1)

(* The paths before the index have been used once more than those after    *)
(* it, and only those: what makes PacketFair inductive.                    *)
Used(i) == IF i <= currentIndex /\ currentIndex < NumPaths THEN 1 ELSE 0

RoundInv ==
  \A i, j \in Paths :
    pathLoad[pathList[i]] - pathLoad[pathList[j]] = Used(i) - Used(j)

RRInv == RRTypeOK /\ RoundInv

=============================================================================
