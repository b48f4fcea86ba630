---------------------------- MODULE LoadBalancer ----------------------------
(***************************************************************************)
(* What the load balancers of a server's link layer have in common: the    *)
(* list of paths and its random permutation.  A load balancer tags every   *)
(* outgoing packet with a path, and the switches route the packet up the   *)
(* tree along that path.  Each balancing scheme is a module of its own     *)
(* that extends this one, as it is a subclass of LoadBalancer in the code. *)
(***************************************************************************)
EXTENDS PathAccounting, Functions

CONSTANT UsePermutations   \* usePermutations: shuffle the path list on every round

ASSUME UsePermutationsAssumption == UsePermutations \in BOOLEAN

VARIABLES
  pathList,      \* pathList_: the order in which a scheme visits the paths
  currentIndex   \* currentIndex_: index into pathList

(* The outcomes of the swap loop of pathPermutation(): any order.          *)
PathLists == Bijection(Paths, Paths)

(* The list after pathPermutation() as newRound() calls it.                *)
ShuffledLists(list) == IF UsePermutations THEN PathLists ELSE {list}

=============================================================================
