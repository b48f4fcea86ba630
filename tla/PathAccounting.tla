--------------------------- MODULE PathAccounting ---------------------------
(***************************************************************************)
(* The Path modules of a server: one per path up the tree, told by the     *)
(* load balancer of every packet that is sent along it.                    *)
(***************************************************************************)
EXTENDS Integers

CONSTANT NumPaths    \* numPaths_: paths a server can reach (intermediate switches)

ASSUME NumPathsAssumption == NumPaths \in Nat \ {0}

VARIABLE pathLoad    \* what each Path has accounted for, relative to path 0
                     \* so that it stays finite when the paths are balanced

Paths == 0 .. NumPaths - 1

NoLoad == [p \in Paths |-> 0]

(* The load of every path after path has accounted for one more packet.    *)
AddLoad(loads, path, load) ==
  [p \in Paths |-> loads[p] + (IF p = path THEN load ELSE 0)
                            - (IF path = 0 THEN load ELSE 0)]

PerformAccounting(path, load) == pathLoad' = AddLoad(pathLoad, path, load)

(* No path carries more than bound above what another one carries.         *)
ImbalanceAtMost(loads, bound) ==
  \A p, r \in Paths : loads[p] - loads[r] <= bound

=============================================================================
