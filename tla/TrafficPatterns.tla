-------------------------- MODULE TrafficPatterns ---------------------------
(***************************************************************************)
(* The traffic patterns, from which server 0 makes the message script of   *)
(* all servers.  A random draw of the code is a parameter here: list is a  *)
(* permutation of the servers or pods.                                     *)
(***************************************************************************)
EXTENDS FatTree, FiniteSetsExt, SequencesExt

NumServers == down_links[0]
NumPods == down_radix[0]
NumPaths == paths_reachable[tree_depth]
Pod(server) == getLevelID(0, server)

Msg(source, destination, messageNum) ==
  [source |-> source, destination |-> destination, messageNum |-> messageNum]

(* TP_AllToAll and, among the servers of a partition, addMessagesForServer *)
(* of TP_AllToAllPartition.                                                *)
AllAmong(servers) ==
  {Msg(p[1], p[2], 0) : p \in {q \in servers \X servers : q[1] # q[2]}}

AllToAll == AllAmong(Servers)

(* partitionServers(): partitions are taken from the back of the list; the *)
(* servers left over are a partition of their own.                         *)
partitionServers(list, size) ==
  LET back == Reverse(list)
      full == NumServers \div size
  IN  [p \in 1 .. full + (IF NumServers % size = 0 THEN 0 ELSE 1) |->
         SubSeq(back, (p - 1) * size + 1, Min({p * size, NumServers}))]

AllToAllPartition(list, partitionSize) ==
  LET size == IF partitionSize = 0 THEN NumServers \div NumPods ELSE partitionSize
      partitions == partitionServers(list, size)
  IN  UNION {AllAmong(ToSet(partitions[p])) : p \in DOMAIN partitions}

(* The last partition sends to its first server, and this one to the       *)
(* second.  A partition of one server is an access out of range.           *)
AllToAllVictimTenant(list, partitionSize) ==
  LET partitions == partitionServers(list, partitionSize)
      last == partitions[Len(partitions)]
  IN  {Msg(s, IF s = last[1] THEN last[2] ELSE last[1], 1) : s \in ToSet(last)}
        \cup UNION {AllAmong(ToSet(partitions[p])) : p \in 1 .. Len(partitions) - 1}

(* Mutant of NeighborTors: starts at the server's own switch.              *)
NeighborTorsOwn(tor, torsPerPod, flowsPerPod) ==
  {(tor + i) % torsPerPod : i \in 0 .. Max({flowsPerPod, 1}) - 1}

(* The indices in every pod of the top-of-rack switches a server sends to: *)
(* those after its own.                                                    *)
NeighborTors(tor, torsPerPod, flowsPerPod) ==
  {(tor + i) % torsPerPod : i \in 1 .. Max({flowsPerPod, 1})}

(* A server sends to the servers with its own index at those switches.     *)
(* The number of ports of a switch is taken to be that of the pods.        *)
LBDestImbalance ==
  LET torDls == NumPods \div 2
      torsPerPod == (NumServers \div torDls) \div NumPods
      spp == NumServers \div NumPods
      sends(s) ==
        LET tor == (s \div torDls) % torsPerPod
        IN  {Msg(s, p * spp + t * torDls + (s % torDls), 0) :
               p \in 0 .. NumPods - 1,
               t \in NeighborTors(tor, torsPerPod, NumPaths \div NumPods)}
  IN  UNION {sends(s) : s \in Servers}

(* TP_PairedPodPermutation, for a list of pods, each at another's place.   *)
PairedPods(podList) ==
  LET inPod == NumServers \div NumPods
  IN  {Msg(s, podList[(s \div inPod) + 1] * inPod + (s % inPod), 0) : s \in Servers}

PodLists ==
  {l \in SetToSeqs(0 .. NumPods - 1) : \A i \in DOMAIN l : l[i] # i - 1}

(* createPermutationPair(): the first half of the list with the second.    *)
(* Without a partner, the entry of a server is 0.                          *)
createPermutationPair(list) ==
  [s \in Servers |->
     LET i == CHOOSE i \in DOMAIN list : list[i] = s
     IN  IF 2 * i = NumServers + 1 THEN 0 ELSE list[NumServers + 1 - i]]

(* Mutant of MaySwap: x and its partner are to be of two pods as well.      *)
MaySwapAcross(assignments, a, x) ==
  /\ Pod(a) # Pod(assignments[x])
  /\ Pod(assignments[a]) # Pod(x)
  /\ Pod(x) # Pod(assignments[x])

(* Server a, paired within its pod, may swap partners with x.              *)
MaySwap(assignments, a, x) ==
  /\ Pod(a) # Pod(assignments[x])
  /\ Pod(assignments[a]) # Pod(x)

(* Mutant of Swapped: the partners still send to where they did.           *)
SwappedOneWay(assignments, a, x) ==
  [assignments EXCEPT ![a] = assignments[x], ![x] = assignments[a]]

(* The four assignments of the swap, in their order.                       *)
Swapped(assignments, a, x) ==
  LET b == assignments[a]
      y == assignments[x]
  IN  [[[[assignments EXCEPT ![a] = y] EXCEPT ![y] = a]
          EXCEPT ![x] = b] EXCEPT ![b] = x]

=============================================================================
