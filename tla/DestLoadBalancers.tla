------------------------- MODULE DestLoadBalancers --------------------------
(***************************************************************************)
(* DSDLoadBalancer and TPLoadBalancer: deficit counters per destination.   *)
(* DSD sorts the paths by the destination's counters alone; TP (two-phase) *)
(* also keeps the counters of SDLoadBalancer and sorts by the sum.  The    *)
(* state of a destination is allocated when the first packet goes to it.   *)
(***************************************************************************)
EXTENDS SDLoadBalancer, FiniteSets

CONSTANT Dests    \* destination addresses

VARIABLES
  destPathState,  \* destPathState: pathList_ and deficitCounter_ of every
                  \* destination seen so far
  destLoad        \* history: pathLoad restricted to each destination

DestInit ==
  /\ destPathState = << >>
  /\ destLoad = [d \in Dests |-> NoLoad]

(* The constructor: paths in order, then shuffled if UsePermutations.      *)
NewDestStates ==
  [list : ShuffledLists([i \in Paths |-> i]), credits : {NoLoad}]

(* Mutant of LookedUp: a state is allocated for every packet.              *)
LookedUpAnew(d) == NewDestStates

(* find(destination), or the insertion of a new state.                     *)
LookedUp(d) ==
  IF d \in DOMAIN destPathState THEN {destPathState[d]} ELSE NewDestStates

SetState(d, list, credits) ==
  destPathState' = [e \in DOMAIN destPathState \cup {d} |->
                      IF e = d THEN [list |-> list, credits |-> credits]
                               ELSE destPathState[e]]

AccountDest(d, path, bytes) ==
  /\ PerformAccounting(path, bytes)
  /\ destLoad' = [destLoad EXCEPT ![d] = AddLoad(@, path, bytes)]

(* The list of a scheme after it went through that many rounds.            *)
ListsAfter(list, rounds) == IF rounds = 0 THEN {list} ELSE ShuffledLists(list)

(* DSDLoadBalancer::choosePath: sorted deficit on the destination's state. *)
DSDHandleMessage(d, bytes) ==
  \E st \in LookedUp(d), rounds \in 0 .. MaxPkt :
    /\ RoundsUntilCredits(st.credits, rounds)
    /\ \E list \in ListsAfter(st.list, rounds), i \in Paths :
         LET credits == AfterRounds(st.credits, rounds)
         IN  /\ MostCredits(list, credits, i)
             /\ SetState(d, list, [credits EXCEPT ![list[i]] = @ - bytes])
             /\ AccountDest(d, list[i], bytes)
    /\ UNCHANGED <<pathList, currentIndex, deficitCounter>>

(* TPLoadBalancer::choosePath: each set of counters gets rounds until one  *)
(* of its own paths has credits, but the path with the largest sum is used *)
(* and charged on both -- it may have no credits left in one of the sets.  *)
TPHandleMessage(d, bytes) ==
  \E st \in LookedUp(d), mainRounds, destRounds \in 0 .. MaxPkt :
    /\ RoundsUntilCredits(deficitCounter, mainRounds)
    /\ RoundsUntilCredits(st.credits, destRounds)
    /\ pathList' \in ListsAfter(pathList, mainRounds)
    /\ currentIndex' \in Paths
    /\ LET main == AfterRounds(deficitCounter, mainRounds)
           dest == AfterRounds(st.credits, destRounds)
           path == pathList'[currentIndex']
       IN  /\ MostCredits(pathList', [p \in Paths |-> main[p] + dest[p]], currentIndex')
           /\ Charge(main, path, bytes)
           /\ \E list \in ListsAfter(st.list, destRounds) :
                SetState(d, list, [dest EXCEPT ![path] = @ - bytes])
           /\ AccountDest(d, path, bytes)

-----------------------------------------------------------------------------
(* The bytes sent to one destination are spread over the paths to within   *)
(* one packet, however packets to other destinations are interleaved.      *)
DestBalanced == \A d \in Dests : ImbalanceAtMost(destLoad[d], MaxPkt)

(* Two-phase sends every packet along a path that has carried least, where *)
(* what it carried to the packet's own destination counts twice, although  *)
(* the two sets of counters get their rounds at different times.           *)
TPSendsToLeast ==
  \A d \in Dests : destLoad'[d] # destLoad[d] =>
    LET path == pathList'[currentIndex']
    IN  \A r \in Paths :
          pathLoad[path] + destLoad[d][path] <= pathLoad[r] + destLoad[d][r]

(* The two goals do not defeat each other: neither the bytes to all        *)
(* destinations nor those to one drift apart without bound.                *)
TPBalanced ==
  \A loads \in {pathLoad} \cup {destLoad[d] : d \in Dests} :
    ImbalanceAtMost(loads, Cardinality(Dests) * MaxPkt)

=============================================================================
