--------------------------- MODULE LoadBalancing ----------------------------
(***************************************************************************)
(* The link layer of a server with the load balancer it was configured     *)
(* with (the load_balancer module type of the network description).  The   *)
(* subclasses of LoadBalancer share the state of the classes they inherit  *)
(* from, so one specification runs any of them; what a scheme does not use *)
(* stays at its initial value.                                             *)
(***************************************************************************)
EXTENDS RRLoadBalancer, RehashLoadBalancer, DestLoadBalancers

CONSTANT Schemes    \* the balancing schemes a server may be configured with

ASSUME SchemesAssumption ==
  Schemes \subseteq {"RR", "SRR", "Rehash", "SD", "DSD", "TP"}

VARIABLE scheme     \* the configured scheme, never changed

vars == <<scheme, pathList, currentIndex, pathLoad, deficitCounter,
          runBytes, destPathState, destLoad>>

Init ==
  /\ scheme \in Schemes
  /\ \/ scheme = "RR" /\ RRInit /\ deficitCounter = NoLoad
     \/ scheme # "RR" /\ SRRInit
  /\ RehashHistoryInit
  /\ DestInit

Send(d, bytes) ==
  \/ /\ scheme = "RR"
     /\ RRHandleMessage
     /\ UNCHANGED <<deficitCounter, runBytes, destPathState, destLoad>>
  \/ /\ scheme = "SRR"
     /\ SRRHandleMessage(bytes)
     /\ UNCHANGED <<runBytes, destPathState, destLoad>>
  \/ /\ scheme = "Rehash"
     /\ RehashHandleMessage(bytes)
     /\ UNCHANGED <<destPathState, destLoad>>
  \/ /\ scheme = "SD"
     /\ SDHandleMessage(bytes)
     /\ UNCHANGED <<runBytes, destPathState, destLoad>>
  \/ /\ scheme = "DSD"
     /\ DSDHandleMessage(d, bytes)
     /\ UNCHANGED runBytes
  \/ /\ scheme = "TP"
     /\ TPHandleMessage(d, bytes)
     /\ UNCHANGED runBytes

(* handleMessage for a packet of some length to some destination.          *)
HandleMessage ==
  \E d \in Dests, bytes \in PktBytes : Send(d, bytes) /\ UNCHANGED scheme

Spec == Init /\ [][HandleMessage]_vars
-----------------------------------------------------------------------------
(* The scheme's inductive invariant: the counters and the list it inherits *)
(* agree with each other and with what the paths have carried, although    *)
(* each scheme replaces only parts of choosePath and newRound.             *)
SchemeInv ==
  /\ scheme \in Schemes
  /\ scheme = "RR" => RRInv
  /\ scheme = "SRR" => SRRInv
  /\ scheme = "Rehash" => SRRTypeOK /\ CreditsBounded
  /\ scheme = "SD" => SDInv

(* Round robin, shuffled or not, never puts two packets more on one path   *)
(* than on another (RRLoadBalancer::choosePath).                           *)
RoundRobinFair == scheme = "RR" => PacketFair

(* Surplus round robin keeps the bytes of two paths closer than a quantum  *)
(* plus a packet (SRRLoadBalancer::choosePath).                            *)
SurplusFair == scheme = "SRR" => ByteFair

(* Sorted deficit keeps the bytes of two paths within one packet, whatever *)
(* the quantum (SDLoadBalancer::choosePath).                               *)
SortedDeficitBalanced == scheme = "SD" => ByteBalanced

(* Random rehashing neither loses credits nor charges them to a path that  *)
(* did not carry the packet (RehashLoadBalancer::choosePath).              *)
RehashWholeQuanta == scheme = "Rehash" => WholeQuanta

LLF == INSTANCE LeastLoadedFirst
         WITH pathLoad <- IF scheme = "SD" THEN pathLoad ELSE NoLoad

(* Refinement: sorted deficit sends every packet along a path that has     *)
(* carried least, its counters, rounds and shuffles notwithstanding.       *)
SDSendsToLeastLoaded == LLF!Spec

(* Per-destination sorted deficit spreads the bytes to each destination to *)
(* within a packet (DSDLoadBalancer::choosePath); two-phase keeps both the *)
(* bytes to all and to each destination together                           *)
(* (TPLoadBalancer::choosePath).                                           *)
DestinationsBalanced ==
  /\ scheme = "DSD" => DestBalanced
  /\ scheme = "TP" => TPBalanced

(* Two-phase uses a path that has carried least, the packet's own          *)
(* destination counted twice (TPLoadBalancer::choosePath).                 *)
TwoPhaseSendsToLeastLoaded ==
  [][scheme = "TP" => TPSendsToLeast]_vars

=============================================================================
