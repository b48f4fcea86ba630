--------------------------- MODULE MPLoadBalancer ---------------------------
(***************************************************************************)
(* MPLoadBalancer of one server, and the cables its packets go over.  The  *)
(* balancer keeps credits for the up-links of every sub-tree that a packet *)
(* leaves (MP_Nodes up to the root) and for the links down into every      *)
(* sub-tree that it enters, and takes the path with the most credits.      *)
(***************************************************************************)
EXTENDS FatTree, Functions, FiniteSetsExt

CONSTANTS
  Self,             \* address of the server
  Quantum,          \* quantum
  PktBytes,         \* sizes of packets
  UsePermutations,  \* usePermutations
  MaxImbalance      \* what the paths may differ by at any sub-tree

ASSUME SelfAssumption == Self \in Servers
ASSUME QuantumAssumption == Quantum \in Nat /\ PktBytes \subseteq Nat \ {0}

VARIABLES
  linkCredits,   \* linkCredits_ of each MP_Node
  pathList,      \* pathList_
  pktsInRound,   \* pktsInRound_
  load           \* history: bytes on each cable relative to the first one
                 \* that leads between the same sub-trees

MPVars == <<linkCredits, pathList, pktsInRound, load>>
-----------------------------------------------------------------------------
(* The MP_Nodes.  One that is created when it is first needed has no       *)
(* credits before.                                                         *)
UpNode(depth) == [dir |-> "up", depth |-> depth, tree |-> SubTree(depth, Self)]
DownNode(depth, address) ==
  [dir |-> "down", depth |-> depth, tree |-> SubTree(depth, address)]

MPNodes == {UpNode(d) : d \in Levels}
             \cup {DownNode(d, a) : d \in Levels \ {0}, a \in Servers}

numLinks(node) ==
  IF node.dir = "up" THEN up_links[node.depth + 1] ELSE up_links[node.depth]

(* Mutant of linkForPath: neighbouring paths are taken to use different     *)
(* links, as the paths of one switch do.                                   *)
linkForPathModulo(node, path) == path % numLinks(node)

linkForPath(node, path) == path \div (paths_reachable[tree_depth] \div numLinks(node))

LinkOf == [n \in MPNodes |-> [p \in Paths |-> linkForPath(n, p)]]

(* The nodes that creditsOnPath() and performAccounting() visit: up to the *)
(* first one whose sub-tree the destination is in, then down to its        *)
(* top-of-rack switch.                                                     *)
TurnLevel(daddr) == Max({d \in Levels : compareSubTree(d, Self, daddr)})

Visited(daddr) ==
  LET turn == TurnLevel(daddr)
  IN  {UpNode(d) : d \in turn .. tree_depth - 1}
        \cup {DownNode(d, daddr) : d \in turn + 1 .. tree_depth - 1}

VisitedFor == [a \in Servers |-> Visited(a)]

(* Mutant of creditsOnPath: only the server's way up counts.                *)
creditsOnPathUp(daddr, path) ==
  SumFunction([n \in {m \in VisitedFor[daddr] : m.dir = "up"} |->
                 linkCredits[n][LinkOf[n][path]]])

creditsOnPath(daddr, path) ==
  SumFunction([n \in VisitedFor[daddr] |-> linkCredits[n][LinkOf[n][path]]])

(* performAccounting() at a node it visits.                                *)
PerformAccounting(node, path, bytes) ==
  LET left == [linkCredits[node] EXCEPT ![LinkOf[node][path]] = @ - bytes]
  IN  IF Max(Range(left)) < 0 THEN [i \in DOMAIN left |-> left[i] + Quantum]
      ELSE left

-----------------------------------------------------------------------------
(* The cables between one level and the next that a packet goes over, each *)
(* as the sub-trees it leads between and the index of its upper switch.    *)
UpCables(path) ==
  LET climb[d \in Levels] ==
        LET below == IF d = tree_depth - 1 THEN Server(Self)
                     ELSE [depth |-> d + 1, tree |-> SubTree(d + 1, Self),
                           index |-> climb[d + 1]]
        IN  Peer([node |-> below, dir |-> "up", number |->
                    IF below.depth = tree_depth THEN 0
                    ELSE getPathID(below.depth, path)]).node.index
  IN  climb

(* The switch of each level on the way down is told by following the ports *)
(* that lead to the destination.                                           *)
DownCables(turn, daddr, path) ==
  LET fall[d \in turn .. tree_depth - 1] ==
        IF d = turn THEN UpCables(path)[turn]
        ELSE Peer([node |-> [depth |-> d - 1, tree |-> SubTree(d - 1, daddr),
                             index |-> fall[d - 1]],
                   dir |-> "down", number |-> getLevelID(d - 1, daddr)]).node.index
  IN  fall

Cable(node, daddr, path) ==
  IF node.dir = "up" THEN UpCables(path)[node.depth]
  ELSE DownCables(TurnLevel(daddr), daddr, path)[node.depth - 1]

CableOf == [a \in Servers |-> [n \in Visited(a) |-> [p \in Paths |-> Cable(n, a, p)]]]

AddLoad(loads, cable, bytes) ==
  LET sum == [loads EXCEPT ![cable] = @ + bytes]
  IN  [i \in DOMAIN sum |-> sum[i] - sum[0]]

NoCredits == [n \in MPNodes |-> [i \in 0 .. numLinks(n) - 1 |-> 0]]
-----------------------------------------------------------------------------
PathLists == Bijection(0 .. Cardinality(Paths) - 1, Paths)

MPInit ==
  /\ linkCredits = NoCredits /\ load = NoCredits
  /\ pathList \in PathLists
  /\ pktsInRound = 0

(* The list is shuffled, before the path is chosen, once the packets of a  *)
(* round are used up.                                                      *)
Shuffle ==
  IF ~ UsePermutations THEN UNCHANGED <<pathList, pktsInRound>>
  ELSE IF pktsInRound - 1 < 0
  THEN pathList' \in PathLists /\ pktsInRound' = Cardinality(Paths)
  ELSE pktsInRound' = pktsInRound - 1 /\ UNCHANGED pathList

(* choosePath(): the first path of the list with the most credits.         *)
choosePath(daddr) ==
  LET ranked == {[at |-> i, credits |-> creditsOnPath(daddr, pathList'[i])] :
                   i \in DOMAIN pathList}
      first == CHOOSE r \in ranked : \A q \in ranked :
                 r.credits > q.credits \/ (r.credits = q.credits /\ r.at <= q.at)
  IN  pathList'[first.at]

MPHandleMessage(daddr, bytes) ==
  /\ Shuffle
  /\ LET path == choosePath(daddr)
     IN  /\ linkCredits' = [n \in MPNodes |->
              IF n \in VisitedFor[daddr] THEN PerformAccounting(n, path, bytes)
              ELSE linkCredits[n]]
         /\ load' = [n \in MPNodes |->
              IF n \in VisitedFor[daddr]
              THEN AddLoad(load[n], CableOf[daddr][n][path], bytes) ELSE load[n]]

MPNext == \E daddr \in Servers \ {Self}, bytes \in PktBytes : MPHandleMessage(daddr, bytes)

MPSpec == MPInit /\ [][MPNext]_MPVars
-----------------------------------------------------------------------------
(* Credits tell loads: two links of a sub-tree differ in credits by what   *)
(* the cables of the tree, as its switches route, differ in bytes, so the  *)
(* numbering of links agrees with the wiring and the routing               *)
(* (linkForPath(), performAccounting()).                                   *)
CreditsTellLoads ==
  \A n \in MPNodes : \A i \in DOMAIN load[n] :
    linkCredits[n][0] - linkCredits[n][i] = load[n][i]

(* Choosing by the sum over all sub-trees keeps each one of them balanced, *)
(* too, whatever the destinations (choosePath()).                          *)
EachBalanced ==
  \A n \in MPNodes : \A i \in DOMAIN load[n] :
    load[n][i] \in -MaxImbalance .. MaxImbalance
=============================================================================
