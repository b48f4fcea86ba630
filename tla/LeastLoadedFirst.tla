-------------------------- MODULE LeastLoadedFirst --------------------------
(***************************************************************************)
(* What the sorted-deficit scheme promises, with no counters, quantum,     *)
(* rounds or lists: every packet goes to a path that has carried least.    *)
(***************************************************************************)
EXTENDS PathAccounting

CONSTANT PktBytes    \* the packet sizes that occur

LeastLoaded(path) == \A r \in Paths : pathLoad[path] <= pathLoad[r]

Init == pathLoad = NoLoad

Next ==
  \E path \in Paths, bytes \in PktBytes :
    LeastLoaded(path) /\ PerformAccounting(path, bytes)

Spec == Init /\ [][Next]_pathLoad

=============================================================================
