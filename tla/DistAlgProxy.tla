---------------------------- MODULE DistAlgProxy ----------------------------
(***************************************************************************)
(* The distributed rate allocation: for every flow, which is a VOQ of its  *)
(* source, the source periodically asks for a rate.  The request passes    *)
(* the proxies of the source's link to the network and of the              *)
(* destination's link from it, the response goes back, and each link only  *)
(* assigns what its other flows leave.  Control packets of a flow stay in  *)
(* order and are not lost: they are control messages, or packets that a    *)
(* resequencer or ECMP keeps in order, and queues that have no limit, which *)
(* is the default, drop none.  Limited queues, and scheduling packets that *)
(* wait with others in a VOQ (queueSchedPkts), are not modelled.  VOQs are *)
(* not removed: DistAlgProxy.h, "VOQ timeouts currently disabled".         *)
(***************************************************************************)
EXTENDS LinkProxy

CONSTANTS
  Servers,        \* server addresses
  MaxBklg,        \* bound: backlog of a VOQ, as a fraction of what the link
                  \* sends in a scheduling period
  Overheads,      \* overheads per flow a simulation may be configured with
  MaxInFlight     \* bound: control packets of a flow under way

ASSUME ServersAssumption == Servers \subseteq Nat
ASSUME RatesAssumption == MaxBklg \in Nat /\ Overheads \subseteq Nat

VARIABLES
  config,      \* parameters, never changed
  linkTo,      \* linkToGroupSwitch_ of every server
  linkFrom,    \* linkFromGroupSwitch_ of every server
  requests,    \* request packets under way, by flow
  responses    \* response packets under way, by flow

allocateVars == <<config, linkTo, linkFrom, requests, responses>>

Src(f) == f[1]
Dst(f) == f[2]

(* Bound: servers send to those with higher addresses.  The VOQs for the   *)
(* way back, which every packet allocates, stay empty and ask for nothing. *)
Flows == {f \in Servers \X Servers : Src(f) < Dst(f)}

(* allocateLinks().                                                        *)
AllocateInit ==
  /\ config \in [overhead : Overheads, enforceBacklogConstraint : BOOLEAN, max_min : BOOLEAN]
  /\ linkTo = [i \in Servers |-> NewLink(config.overhead)]
  /\ linkFrom = [i \in Servers |-> NewLink(config.overhead)]
  /\ requests = [f \in Flows |-> << >>]
  /\ responses = [f \in Flows |-> << >>]

(* A flow's record at a link, and at its source before the first request.  *)
RecordOf(link, f) == IF f \in DOMAIN link.flows THEN link.flows[f] ELSE NewRecord

(* What a flow asks for: its backlog, or without the constraint the link.  *)
Demand(bklg) ==
  [bklg    |-> IF config.max_min THEN 1 ELSE bklg,
   request |-> IF config.enforceBacklogConstraint THEN bklg ELSE c_l]

(* Mutant of Idle: an empty VOQ does not ask.                              *)
IdleEmpty(f, bklg) == bklg = 0

(* Nothing to send and nothing reserved.                                   *)
Idle(f, bklg) ==
  LET flow == RecordOf(linkTo[Src(f)], f)
  IN  bklg = 0 /\ flow.share = 0 /\ flow.rate = 0

(* handleMessage() of a flow's timer, sndReqPkt(), with whatever is in the *)
(* VOQ then.                                                               *)
SndReqPkt(f, bklg) ==
  /\ Len(requests[f]) + Len(responses[f]) < MaxInFlight
  /\ ~Idle(f, bklg)
  /\ LET link == HandleReqPkt(linkTo[Src(f)], f, Demand(bklg))
     IN  /\ linkTo' = [linkTo EXCEPT ![Src(f)] = link]
         /\ requests' = [requests EXCEPT ![f] =
              Append(@, [Demand(bklg) EXCEPT !.request = ShareOf(link, f, Demand(bklg))])]
  /\ UNCHANGED <<config, linkFrom, responses>>

(* Mutant of RcvReqPkt: the response leaves before the link has assigned   *)
(* the rate.                                                               *)
RcvReqPktHasty(f) ==
  /\ requests[f] # << >>
  /\ LET pkt  == Head(requests[f])
         link == HandleReqPkt(linkFrom[Dst(f)], f, pkt)
         s    == ShareOf(link, f, pkt)
     IN  /\ linkFrom' = [linkFrom EXCEPT ![Dst(f)] =
                           HandleRspPkt(link, f, [share |-> s, rate |-> s])]
         /\ responses' = [responses EXCEPT ![f] = Append(@, [share |-> s, rate |-> s])]
  /\ requests' = [requests EXCEPT ![f] = Tail(@)]
  /\ UNCHANGED <<config, linkTo>>

(* rcvReqPkt() at the destination: the response is on its way when its     *)
(* link has assigned the rate.                                             *)
RcvReqPkt(f) ==
  /\ requests[f] # << >>
  /\ LET pkt  == Head(requests[f])
         link == HandleReqPkt(linkFrom[Dst(f)], f, pkt)
         s    == ShareOf(link, f, pkt)
         done == HandleRspPkt(link, f, [share |-> s, rate |-> s])
     IN  /\ linkFrom' = [linkFrom EXCEPT ![Dst(f)] = done]
         /\ responses' = [responses EXCEPT ![f] =
                            Append(@, [share |-> s, rate |-> done.flows[f].rate])]
  /\ requests' = [requests EXCEPT ![f] = Tail(@)]
  /\ UNCHANGED <<config, linkTo>>

(* rcvRspPkt() at the source: the record at the link is also the flow's,   *)
(* and its rate becomes that of the VOQ.                                   *)
RcvRspPkt(f) ==
  /\ responses[f] # << >>
  /\ linkTo' = [linkTo EXCEPT ![Src(f)] = HandleRspPkt(@, f, Head(responses[f]))]
  /\ responses' = [responses EXCEPT ![f] = Tail(@)]
  /\ UNCHANGED <<config, linkFrom, requests>>

AllocateNext ==
  \E f \in Flows :
    \/ \E bklg \in 0 .. MaxBklg : SndReqPkt(f, bklg)
    \/ RcvReqPkt(f)
    \/ RcvRspPkt(f)

AllocateSpec == AllocateInit /\ [][AllocateNext]_allocateVars
-----------------------------------------------------------------------------
Links == {linkTo[i] : i \in Servers} \cup {linkFrom[i] : i \in Servers}

(* A source sends no faster than its destination has reserved, unless      *)
(* control packets of the flow are under way: neither end forgets what it  *)
(* told the other (DistAlgProxy::rcvReqPkt, rcvRspPkt).                    *)
RateReserved ==
  \A f \in Flows :
    requests[f] = << >> /\ responses[f] = << >> =>
      RecordOf(linkTo[Src(f)], f).rate <= RecordOf(linkFrom[Dst(f)], f).rate

(* No reservation is forgotten: when a flow holds nothing at its source,   *)
(* which then does not ask any more as long as the VOQ is empty, it holds  *)
(* nothing at its destination (DistAlgProxy::sndReqPkt, "nor does it have  *)
(* any reserved at links").                                                *)
NoForgottenReservation ==
  \A f \in Flows :
    Idle(f, 0) /\ requests[f] = << >> /\ responses[f] = << >> =>
      RecordOf(linkFrom[Dst(f)], f).rate = 0

=============================================================================
