------------------------------ MODULE FatTree -------------------------------
(***************************************************************************)
(* The fat tree: how addresses and paths are taken apart by level          *)
(* (SubTreeID of node_id.cc) and how the switches are wired (SubFatTree of *)
(* BuildFatTree).  Level 0 has the intermediate switches, the last level   *)
(* the top-of-rack switches; a server is a node one level below.  A node   *)
(* belongs to a sub-tree, named by the lowest address in it; at each level *)
(* a sub-tree has several top switches, told apart by their index.         *)
(***************************************************************************)
EXTENDS Integers

CONSTANTS
  tree_depth,
  int_switch_down_ports,
  switch_down_ports, switch_up_ports,
  tor_switch_down_ports, tor_switch_up_ports

ASSUME FatTreeAssumption ==
  /\ tree_depth \in Nat /\ tree_depth >= 2
  /\ {int_switch_down_ports, switch_down_ports, switch_up_ports,
      tor_switch_down_ports, tor_switch_up_ports} \subseteq Nat \ {0}

Levels == 0 .. tree_depth - 1

down_radix ==
  [l \in Levels |-> CASE l = tree_depth - 1 -> tor_switch_down_ports
                      [] l = 0 -> int_switch_down_ports
                      [] OTHER -> switch_down_ports]

(* A server has one port, which leads up.                                  *)
up_radix ==
  [l \in 0 .. tree_depth |-> CASE l = tree_depth -> 1
                               [] l = tree_depth - 1 -> tor_switch_up_ports
                               [] l = 0 -> 0
                               [] OTHER -> switch_up_ports]

(* Links that lead down from a sub-tree to servers, and up from it.        *)
down_links[l \in 0 .. tree_depth] ==
  IF l = tree_depth THEN 1 ELSE down_links[l + 1] * down_radix[l]

up_links[l \in 0 .. tree_depth] ==
  IF l = tree_depth THEN 1 ELSE up_links[l + 1] * up_radix[l]

paths_reachable[l \in 0 .. tree_depth] ==
  CASE l = 0 -> 1
    [] l = tree_depth -> paths_reachable[l - 1]
    [] OTHER -> paths_reachable[l - 1] * up_radix[l]

Servers == 0 .. down_links[0] - 1
Paths == 0 .. paths_reachable[tree_depth] - 1

getLevelID(level, address) == (address \div down_links[level + 1]) % down_radix[level]

(* Mutant of getPathID: the divisor of the level itself.                   *)
getPathIDOfLevel(level, path) == (path \div paths_reachable[level]) % up_radix[level]

getPathID(level, path) == (path \div paths_reachable[level - 1]) % up_radix[level]

(* Mutant of compareSubTree: the last digit is not compared.               *)
compareSubTreeShort(depth, tree, address) ==
  \A i \in 0 .. depth - 2 : getLevelID(i, tree) = getLevelID(i, address)

compareSubTree(depth, tree, address) ==
  \A i \in 0 .. depth - 1 : getLevelID(i, tree) = getLevelID(i, address)

(* setLevelID() and update_address(): an address with one digit replaced.  *)
setLevelID(level, id, address) ==
  address + (id - getLevelID(level, address)) * down_links[level + 1]
-----------------------------------------------------------------------------
(* The sub-tree at a depth that an address is in.                          *)
SubTree(depth, address) == address - (address % down_links[depth])

Switches ==
  UNION {[depth : {d}, tree : {SubTree(d, a) : a \in Servers},
          index : 0 .. up_links[d + 1] - 1] : d \in Levels}

Server(address) == [depth |-> tree_depth, tree |-> address, index |-> 0]

Nodes == Switches \cup {Server(a) : a \in Servers}

DownPorts(node) ==
  IF node.depth = tree_depth THEN {} ELSE 0 .. down_radix[node.depth] - 1

UpPorts(node) == 0 .. up_radix[node.depth] - 1

Ports ==
  UNION {[node : {n}, dir : {"down"}, number : DownPorts(n)]
           \cup [node : {n}, dir : {"up"}, number : UpPorts(n)] : n \in Nodes}

(* The port at the other end: down-port j of top switch i is connected to  *)
(* up-link i of sub-tree j, that is port i % radix of its switch i / radix.*)
Peer(port) ==
  LET n == port.node
      link == n.index * up_radix[n.depth] + port.number
  IN  IF port.dir = "up"
      THEN [node |-> [depth |-> n.depth - 1, tree |-> SubTree(n.depth - 1, n.tree),
                      index |-> link],
            dir |-> "down", number |-> getLevelID(n.depth - 1, n.tree)]
      ELSE [node |-> [depth |-> n.depth + 1,
                      tree |-> setLevelID(n.depth, port.number, n.tree),
                      index |-> n.index \div up_radix[n.depth + 1]],
            dir |-> "up", number |-> n.index % up_radix[n.depth + 1]]

SwitchPorts == {p \in Ports : p.node.depth < tree_depth}

(* Links of the fat tree between a level's switches and one sub-tree below *)
(* them, or the one above; for as many servers as a sub-tree has.          *)
getNumCorrPhysDownLinks(depth) == down_links[depth] \div down_radix[depth]
getNumCorrPhysUpLinks(depth) == IF depth = 0 THEN 0 ELSE down_links[depth]

(* In the logical tree one switch stands for all of a sub-tree's, and each *)
(* of its ports for the links of all of these (LogicalSubTree).            *)
PhysLinksRepresented(port) ==
  IF port.dir = "down" THEN getNumCorrPhysDownLinks(port.node.depth)
                       ELSE getNumCorrPhysUpLinks(port.node.depth)

(* A tree with a single path is taken for a logical tree.                  *)
LinksOfPort(port) ==
  IF paths_reachable[tree_depth] = 1 THEN PhysLinksRepresented(port) ELSE 1

=============================================================================
