------------------------------ MODULE LinkProxy ------------------------------
(***************************************************************************)
(* The proxy of a link: what the flows over it have asked for and been     *)
(* given.  A server has one for its link to the network and one for the    *)
(* link from it.  A proxy is a record; its operations give the proxy, or   *)
(* what becomes of a control packet, after the call.  Rates, shares and    *)
(* backlogs are whole fractions of a link's rate, rounded down.            *)
(***************************************************************************)
EXTENDS Integers, FiniteSets, Functions, SequencesExt

CONSTANT c_l    \* link capacity, reserve bandwidth subtracted

ASSUME CapacityAssumption == c_l \in Nat

(* init(): overhead is what control packets and the minimum rate of a flow *)
(* take from the capacity.                                                 *)
NewLink(overhead) == [flows |-> << >>, u_l |-> c_l, overhead |-> overhead]

(* A flow's record; its request always is its share, of the last response. *)
NewRecord == [bklg |-> 0, share |-> 0, rate |-> 0]

(* addFlow(): every flow makes less of the capacity usable.                *)
AddFlow(link, f) ==
  IF f \in DOMAIN link.flows THEN link
  ELSE LET F == DOMAIN link.flows \cup {f}
       IN  [link EXCEPT !.flows = [g \in F |-> IF g = f THEN NewRecord ELSE link.flows[g]],
                        !.u_l = c_l - (link.overhead * Cardinality(F))]

SumRates(link) == SumFunction([f \in DOMAIN link.flows |-> link.flows[f].rate])

(* What is left of the capacity c for a flow, in proportion to the         *)
(* backlogs B, when the flows in U have got their requests Q.              *)
ShareBeside(U, i, B, Q, c) ==
  LET u_l == c - SumFunctionOnSet(Q, U)
      b_l == SumFunctionOnSet(B, DOMAIN B \ U)
  IN  IF B[i] = 0 \/ b_l = 0 THEN 0 ELSE (u_l * B[i]) \div b_l

(* BklgPropShares(): proportional shares, but no flow gets more than its   *)
(* request, and what a flow leaves is shared anew among the others.  The   *)
(* loop adds flows to U until none of the rest asks for less than its      *)
(* share; it finds the same flows however a pass goes through them, since  *)
(* the shares of the rest only grow.                                       *)
BklgPropShares(B, Q, c) ==
  LET F == DOMAIN B
      Limited[n \in 0 .. Cardinality(F)] ==
        IF n = 0 THEN {}
        ELSE LET V == Limited[n - 1]
             IN  V \cup {i \in F \ V : Q[i] < ShareBeside(V, i, B, Q, c)}
      U == Limited[Cardinality(F)]
  IN  [i \in F |-> IF i \in U THEN Q[i] ELSE ShareBeside(U, i, B, Q, c)]

(* handleReqPkt(): the link has heard of the flow's backlog ...            *)
HandleReqPkt(link, f, pkt) == [AddFlow(link, f) EXCEPT !.flows[f].bklg = pkt.bklg]

(* ... and the request is what it can give the flow, of what the flow      *)
(* asks for now and the other flows were given last.                       *)
ShareOf(link, f, pkt) ==
  LET F == DOMAIN link.flows
  IN  BklgPropShares([g \in F |-> link.flows[g].bklg],
                     [g \in F |-> IF g = f THEN pkt.request ELSE link.flows[g].share],
                     link.u_l)[f]

(* assignRate(): no more than the other flows leave of the usable rate.    *)
assignRate(link, f, rate) ==
  LET available == link.u_l - (SumRates(link) - link.flows[f].rate)
  IN  Min({rate, Max({0, available})})

(* handleRspPkt(): the flow's record after a response.                     *)
HandleRspPkt(link, f, pkt) ==
  [link EXCEPT !.flows[f].share = pkt.share, !.flows[f].rate = assignRate(link, f, pkt.rate)]

=============================================================================
