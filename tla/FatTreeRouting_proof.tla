------------------------ MODULE FatTreeRouting_proof ------------------------
(***************************************************************************)
(* Facts about any fat tree.  ECMP keeps the packets of a flow in order,   *)
(* with queues that are served at any relative speed: all packets of the   *)
(* flow follow one trail of ports from the source, wherever lookup() leads *)
(* it, and none overtakes another in a queue, hence none does along the    *)
(* trail.  A packet stays on the route of its path: at each level its      *)
(* switch is the one with the path's number, in the sub-tree that the      *)
(* address' first digits name.  A control message comes to its receivers:  *)
(* one to a server on the route of path 0; copies of one to all switches   *)
(* each come to a switch by its only entry, from its only sender, so that  *)
(* none comes twice and, where trees are low enough for every sender to    *)
(* flood, none is left out.  The credits of MPLoadBalancer tell what the   *)
(* cables have carried: the link that it charges for a path is the cable   *)
(* that the route takes, so both change alike.  And servers that are       *)
(* paired across pods, one after the other, always find a partner, for a   *)
(* pod in which two are paired has too few to be all the others' partners. *)
(* The scripts of all patterns are regular, as what a server sends can be  *)
(* turned into what it is sent.  And bursts meet the rate of their         *)
(* message, whatever was derived before.                                   *)
(***************************************************************************)
EXTENDS FatTreeRouting, MPLoadBalancer, MessageApplication, NumberLemmas,
        SequenceTheorems

FlowPkts == [id : Nat, path : Paths]
Ends == {Peer(port).node.tree : port \in Ports}

(* What the routing of a flow's packets needs of the types.                *)
RoutingTypes ==
  /\ numSent \in Nat
  /\ DOMAIN pathAssignments \subseteq {flow.dest}
  /\ \A d \in DOMAIN pathAssignments : pathAssignments[d] \in Paths
  /\ queue \in [Ports -> Seq(FlowPkts)]
  /\ delivered \in Seq([id : Nat, at : Ends])

(* Where Forward() takes a packet from a port.                             *)
Leaves(port) == Peer(port).node.depth = tree_depth
NextHop(port, path) == lookup(Peer(port).node, flow.dest, path)
FirstPort == UpPort(Server(flow.src), 0)

(* The first ports that packets with the flow's path go through, up to hop *)
(* n; the trail ends where they leave the tree.                            *)
IsTrail(trail, n, path) ==
  /\ trail[0] = FirstPort
  /\ \A k \in 0 .. n - 1 : ~ Leaves(trail[k]) /\ trail[k + 1] = NextHop(trail[k], path)

(* The packets in the queues.                                              *)
FirstSlot(port) == <<port, 1>>
PortOf(slot) == slot[1]
PlaceOf(slot) == slot[2]
Slots(queues) == {s \in Ports \X Nat : PlaceOf(s) \in DOMAIN queues[PortOf(s)]}
At(queues, slot) == queues[PortOf(slot)][PlaceOf(slot)]

KnownIds(queues, sent) == \A s \in Slots(queues) : At(queues, s).id < sent

(* Every queued packet is at some hop of the trail; of two packets the one *)
(* that was sent first is at a later hop, or before the other in the queue *)
(* of the same hop, or has been delivered.                                 *)
OnTrail(queues, trail, hop, n, path) ==
  \A s \in Slots(queues) :
    /\ At(queues, s).path = path
    /\ hop[At(queues, s).id] \in 0 .. n
    /\ trail[hop[At(queues, s).id]] = PortOf(s)

NoneOvertaken(queues, hop) ==
  \A s, t \in Slots(queues) :
    /\ At(queues, s).id < At(queues, t).id => hop[At(queues, s).id] >= hop[At(queues, t).id]
    /\ PortOf(s) = PortOf(t) /\ PlaceOf(s) < PlaceOf(t) /\ hop[At(queues, s).id] = hop[At(queues, t).id]
         => At(queues, s).id < At(queues, t).id

DeliveredFirst(queues, sent) ==
  /\ \A i \in DOMAIN delivered : delivered[i].id < sent
  /\ \A i \in DOMAIN delivered : \A s \in Slots(queues) : delivered[i].id < At(queues, s).id
  /\ \A i, j \in DOMAIN delivered : i < j => delivered[i].id < delivered[j].id

NothingSent == numSent = 0 /\ Slots(queue) = {} /\ delivered = << >> /\ DOMAIN pathAssignments = {}

InOrderAlong(trail, hop, n, path) ==
  /\ IsTrail(trail, n, path)
  /\ OnTrail(queue, trail, hop, n, path)
  /\ NoneOvertaken(queue, hop)
  /\ KnownIds(queue, numSent)
  /\ DeliveredFirst(queue, numSent)

OrderInv ==
  flow.sends = "ECMP" =>
    \/ NothingSent
    \/ /\ flow.dest \in DOMAIN pathAssignments
       /\ \E n \in Nat, hop \in [Nat -> Nat] : \E trail :
            InOrderAlong(trail, hop, n, pathAssignments[flow.dest])

RoutingInv == RoutingTypes /\ OrderInv
-----------------------------------------------------------------------------
(* Queues.                                                                 *)

WithoutFirst(queues, port) == [queues EXCEPT ![port] = Tail(@)]
Appended(queues, port, pkt) == [queues EXCEPT ![port] = Append(@, pkt)]

(* Those behind the first packet of a port move up, in queues [after].     *)
MovedUp(queues, port, after) ==
  \A s \in Slots(after) :
    \E t \in Slots(queues) \ {FirstSlot(port)} :
      /\ At(after, s) = At(queues, t) /\ PortOf(s) = PortOf(t)
      /\ PlaceOf(t) = IF PortOf(s) = port THEN PlaceOf(s) + 1 ELSE PlaceOf(s)

(* A packet is last in a queue, with all others as before.                 *)
AddedLast(queues, port, pkt, after) ==
  /\ \A s \in Slots(after) :
       \/ s \in Slots(queues) /\ At(after, s) = At(queues, s)
       \/ PortOf(s) = port /\ PlaceOf(s) = Len(queues[port]) + 1 /\ At(after, s) = pkt
  /\ \A t \in Slots(queues) : PortOf(t) = port => PlaceOf(t) \in 1 .. Len(queues[port])

(* What a slot holds.                                                      *)
LEMMA SlotFacts ==
  ASSUME NEW queues \in [Ports -> Seq(FlowPkts)], NEW s \in Slots(queues)
  PROVE  /\ PortOf(s) \in Ports /\ PlaceOf(s) \in Nat \ {0}
         /\ queues[PortOf(s)] \in Seq(FlowPkts) /\ PlaceOf(s) \in DOMAIN queues[PortOf(s)]
         /\ At(queues, s) \in FlowPkts
         /\ At(queues, s).id \in Nat
<1>1. PortOf(s) \in Ports /\ PlaceOf(s) \in Nat /\ PlaceOf(s) \in DOMAIN queues[PortOf(s)]
  BY DEF Slots, PortOf, PlaceOf
<1>2. queues[PortOf(s)] \in Seq(FlowPkts)
  BY <1>1
<1>3. At(queues, s) \in FlowPkts /\ PlaceOf(s) # 0
  BY <1>1, <1>2 DEF At
<1> QED BY <1>1, <1>2, <1>3 DEF FlowPkts

(* Slots of one port differ by their places.                               *)
LEMMA SamePlace ==
  ASSUME NEW queues, NEW later, NEW s \in Slots(queues), NEW t \in Slots(later),
         PortOf(s) = PortOf(t), PlaceOf(s) = PlaceOf(t)
  PROVE  s = t
<1>1. s \in Ports \X Nat /\ t \in Ports \X Nat
  BY DEF Slots
<1> QED BY <1>1 DEF PortOf, PlaceOf

(* Where the first packet of a port is.                                    *)
LEMMA FrontPlace == ASSUME NEW port PROVE PortOf(FirstSlot(port)) = port /\ PlaceOf(FirstSlot(port)) = 1
BY DEF FirstSlot, PortOf, PlaceOf

(* A packet that is appended comes after those that are there.             *)
LEMMA AppendSlots ==
  ASSUME NEW queues \in [Ports -> Seq(FlowPkts)], NEW port, NEW pkt \in FlowPkts
  PROVE  /\ Appended(queues, port, pkt) \in [Ports -> Seq(FlowPkts)]
         /\ AddedLast(queues, port, pkt, Appended(queues, port, pkt))
<1> DEFINE after == Appended(queues, port, pkt)
<1> HIDE DEF after
<1>0. ASSUME NEW t \in Slots(queues), PortOf(t) = port PROVE PlaceOf(t) \in 1 .. Len(queues[port])
  <2>1. port \in Ports /\ queues[port] \in Seq(FlowPkts) /\ PlaceOf(t) \in DOMAIN queues[port]
    BY <1>0, SlotFacts
  <2> QED BY <2>1
<1>1. CASE port \notin Ports
  <2>1. after = queues
    BY <1>1 DEF Appended, after
  <2> QED BY <1>0, <2>1 DEF after, AddedLast
<1>2. CASE port \in Ports
  <2> DEFINE q == queues[port]
  <2>1. q \in Seq(FlowPkts)
    BY <1>2
  <2>2. /\ Append(q, pkt) \in Seq(FlowPkts)
        /\ Len(q) \in Nat /\ DOMAIN q = 1 .. Len(q)
        /\ DOMAIN Append(q, pkt) = 1 .. Len(q) + 1
        /\ \A i \in 1 .. Len(q) : Append(q, pkt)[i] = q[i]
        /\ Append(q, pkt)[Len(q) + 1] = pkt
    BY <2>1
  <2> HIDE DEF q
  <2>3. after[port] = Append(q, pkt) /\ \A p \in Ports \ {port} : after[p] = queues[p]
    BY <1>2 DEF q, Appended, after
  <2>4. after \in [Ports -> Seq(FlowPkts)]
    BY <2>2 DEF q, Appended, after
  <2>5. ASSUME NEW s \in Slots(after)
        PROVE  \/ s \in Slots(queues) /\ At(after, s) = At(queues, s)
               \/ PortOf(s) = port /\ PlaceOf(s) = Len(q) + 1 /\ At(after, s) = pkt
    <3>1. s \in Ports \X Nat /\ PortOf(s) \in Ports /\ PlaceOf(s) \in Nat /\ PlaceOf(s) \in DOMAIN after[PortOf(s)]
      BY DEF Slots, PortOf, PlaceOf
    <3>2. CASE PortOf(s) # port
      BY <2>3, <3>1, <3>2 DEF Slots, At
    <3>3. CASE PortOf(s) = port /\ PlaceOf(s) \in 1 .. Len(q)
      BY <2>2, <2>3, <3>1, <3>3 DEF Slots, At, q
    <3>4. CASE PortOf(s) = port /\ PlaceOf(s) \notin 1 .. Len(q)
      <4>1. PlaceOf(s) = Len(q) + 1
        BY <2>2, <2>3, <3>1, <3>4
      <4>2. PortOf(s) = port /\ PlaceOf(s) = Len(q) + 1
        BY <3>1, <3>4, <4>1
      <4> QED BY <2>2, <2>3, <3>4, <4>1, <4>2 DEF At
    <3> QED BY <3>2, <3>3, <3>4
  <2> QED BY <1>0, <2>4, <2>5 DEF q, after, AddedLast
<1> QED BY <1>1, <1>2

(* Without its first packet, those of a queue move up by one place.        *)
LEMMA TailSlots ==
  ASSUME NEW queues \in [Ports -> Seq(FlowPkts)], NEW port \in Ports,
         queues[port] # << >>
  PROVE  /\ WithoutFirst(queues, port) \in [Ports -> Seq(FlowPkts)]
         /\ FirstSlot(port) \in Slots(queues) /\ At(queues, FirstSlot(port)) = Head(queues[port])
         /\ MovedUp(queues, port, WithoutFirst(queues, port))
<1> DEFINE after == WithoutFirst(queues, port)
<1> HIDE DEF after
<1> DEFINE q == queues[port]
<1>1. q \in Seq(FlowPkts) /\ q # << >>
  OBVIOUS
<1>2. /\ Tail(q) \in Seq(FlowPkts)
      /\ Len(q) \in Nat \ {0} /\ DOMAIN q = 1 .. Len(q)
      /\ DOMAIN Tail(q) = 1 .. Len(q) - 1
      /\ \A i \in 1 .. Len(q) - 1 : Tail(q)[i] = q[i + 1]
      /\ Head(q) = q[1]
  BY <1>1
<1> HIDE DEF q
<1>3. after[port] = Tail(q) /\ \A p \in Ports \ {port} : after[p] = queues[p]
  BY DEF q, WithoutFirst, after
<1>4. after \in [Ports -> Seq(FlowPkts)]
  BY <1>2 DEF q, WithoutFirst, after
<1>5. FirstSlot(port) \in Slots(queues) /\ At(queues, FirstSlot(port)) = Head(q)
  BY <1>2, FrontPlace DEF Slots, At, FirstSlot, q
<1>6. ASSUME NEW s \in Slots(after)
      PROVE  \E t \in Slots(queues) \ {FirstSlot(port)} :
                /\ At(after, s) = At(queues, t) /\ PortOf(s) = PortOf(t)
                /\ PlaceOf(t) = IF PortOf(s) = port THEN PlaceOf(s) + 1 ELSE PlaceOf(s)
  <2>1. s \in Ports \X Nat /\ PortOf(s) \in Ports /\ PlaceOf(s) \in Nat /\ PlaceOf(s) \in DOMAIN after[PortOf(s)]
    BY DEF Slots, PortOf, PlaceOf
  <2>2. CASE PortOf(s) # port
    <3>1. s \in Slots(queues) /\ At(after, s) = At(queues, s)
      BY <1>3, <2>1, <2>2 DEF Slots, At
    <3>2. s # FirstSlot(port)
      BY <2>1, <2>2, FrontPlace
    <3> QED BY <2>2, <3>1, <3>2
  <2>3. CASE PortOf(s) = port
    <3> DEFINE t == <<port, PlaceOf(s) + 1>>
    <3>0. PortOf(t) = port /\ PlaceOf(t) = PlaceOf(s) + 1
      BY DEF PortOf, PlaceOf
    <3>1. PlaceOf(s) \in 1 .. Len(q) - 1
      BY <1>2, <1>3, <2>1, <2>3
    <3>2. PlaceOf(s) + 1 \in 1 .. Len(q) /\ PlaceOf(s) + 1 # 1 /\ PlaceOf(s) + 1 \in Nat
      BY <1>2, <3>1
    <3>3. t \in Slots(queues) /\ t # FirstSlot(port)
      BY <1>2, <3>0, <3>2, FrontPlace DEF Slots, q
    <3>4. At(after, s) = At(queues, t)
      BY <1>2, <1>3, <2>3, <3>0, <3>1 DEF At, q
    <3> HIDE DEF t
    <3> QED BY <2>3, <3>0, <3>3, <3>4
  <2> QED BY <2>2, <2>3
<1>7. MovedUp(queues, port, after)
  BY <1>6 DEF MovedUp
<1> QED BY <1>4, <1>5, <1>7 DEF q, after

-----------------------------------------------------------------------------
(* A packet moves by one hop.                                              *)

(* The first packet of a queue is ahead of all those that were sent later. *)
LEMMA FrontLeads ==
  ASSUME NEW queues \in [Ports -> Seq(FlowPkts)], NEW n \in Nat, NEW hop \in [Nat -> Nat],
         NEW trail, NEW path,
         OnTrail(queues, trail, hop, n, path), NoneOvertaken(queues, hop),
         NEW port, FirstSlot(port) \in Slots(queues),
         NEW a, a = At(queues, FirstSlot(port)).id,
         NEW t \in Slots(queues) \ {FirstSlot(port)},
         NEW b, b = At(queues, t).id
  PROVE  /\ b # a
         /\ b < a => hop[a] < hop[b]
         /\ a < b => hop[b] <= hop[a]
<1>1. a \in Nat /\ b \in Nat /\ hop[a] \in Nat /\ hop[b] \in Nat
  BY SlotFacts
<1>2. a < b => hop[b] <= hop[a]
  BY <1>1 DEF NoneOvertaken
<1>3. b < a => hop[a] <= hop[b]
  BY <1>1 DEF NoneOvertaken
<1>4. ASSUME hop[b] = hop[a] PROVE a < b
  <2>1. PortOf(t) = port
    <3>1. trail[hop[a]] = PortOf(FirstSlot(port)) /\ trail[hop[b]] = PortOf(t)
      BY DEF OnTrail
    <3> QED BY <1>4, <3>1, FrontPlace
  <2>2. PlaceOf(t) \in Nat \ {0}
    BY SlotFacts
  <2>3. PortOf(FirstSlot(port)) = port /\ PlaceOf(FirstSlot(port)) = 1
    BY FrontPlace
  <2>4. PlaceOf(t) # 1
    BY <2>1, <2>3, SamePlace
  <2>5. PlaceOf(FirstSlot(port)) < PlaceOf(t)
    BY <2>2, <2>3, <2>4
  <2> QED BY <1>4, <2>1, <2>3, <2>5 DEF NoneOvertaken
<1> QED BY ONLY <1>1, <1>2, <1>3, <1>4

(* What is left when it goes is on the trail as before.                    *)
LEMMA TailKeeps ==
  ASSUME NEW queues \in [Ports -> Seq(FlowPkts)], NEW port \in Ports, queues[port] # << >>,
         NEW n \in Nat, NEW hop \in [Nat -> Nat], NEW trail, NEW path,
         OnTrail(queues, trail, hop, n, path), NoneOvertaken(queues, hop)
  PROVE  /\ OnTrail(WithoutFirst(queues, port), trail, hop, n, path)
         /\ NoneOvertaken(WithoutFirst(queues, port), hop)
<1> DEFINE left == WithoutFirst(queues, port)
<1>1. MovedUp(queues, port, left)
  BY TailSlots
<1>2. left \in [Ports -> Seq(FlowPkts)]
  BY TailSlots
<1> HIDE DEF left
<1>3. OnTrail(left, trail, hop, n, path)
  <2>1. ASSUME NEW s \in Slots(left)
        PROVE  /\ At(left, s).path = path
               /\ hop[At(left, s).id] \in 0 .. n
               /\ trail[hop[At(left, s).id]] = PortOf(s)
    <3>1. PICK t \in Slots(queues) : At(left, s) = At(queues, t) /\ PortOf(s) = PortOf(t)
      BY <1>1 DEF MovedUp
    <3> QED BY <3>1 DEF OnTrail
  <2> QED BY <2>1 DEF OnTrail
<1>4. ASSUME NEW s \in Slots(left), NEW u \in Slots(left)
      PROVE  /\ At(left, s).id < At(left, u).id
                  => hop[At(left, s).id] >= hop[At(left, u).id]
             /\ PortOf(s) = PortOf(u) /\ PlaceOf(s) < PlaceOf(u) /\ hop[At(left, s).id] = hop[At(left, u).id]
                  => At(left, s).id < At(left, u).id
  <2>1. PICK t \in Slots(queues) :
          /\ At(left, s) = At(queues, t) /\ PortOf(s) = PortOf(t)
          /\ PlaceOf(t) = IF PortOf(s) = port THEN PlaceOf(s) + 1 ELSE PlaceOf(s)
    BY <1>1 DEF MovedUp
  <2>2. PICK v \in Slots(queues) :
          /\ At(left, u) = At(queues, v) /\ PortOf(u) = PortOf(v)
          /\ PlaceOf(v) = IF PortOf(u) = port THEN PlaceOf(u) + 1 ELSE PlaceOf(u)
    BY <1>1 DEF MovedUp
  <2>3. PlaceOf(s) \in Nat /\ PlaceOf(u) \in Nat
    BY <1>2, SlotFacts
  <2>4. PortOf(s) = PortOf(u) /\ PlaceOf(s) < PlaceOf(u) => PortOf(t) = PortOf(v) /\ PlaceOf(t) < PlaceOf(v)
    BY <2>1, <2>2, <2>3
  <2> QED BY <2>1, <2>2, <2>4 DEF NoneOvertaken
<1>5. NoneOvertaken(left, hop)
  BY <1>4 DEF NoneOvertaken
<1> QED BY <1>3, <1>5 DEF left

(* The hops of other packets, and more trail than they need, do not matter. *)
LEMMA HopsOfOthers ==
  ASSUME NEW queues \in [Ports -> Seq(FlowPkts)],
         NEW n \in Nat, NEW hop \in [Nat -> Nat], NEW trail, NEW path,
         OnTrail(queues, trail, hop, n, path), NoneOvertaken(queues, hop),
         NEW m \in Nat, n <= m, NEW hop2 \in [Nat -> Nat], NEW trail2,
         \A i \in 0 .. n : trail2[i] = trail[i],
         \A s \in Slots(queues) : hop2[At(queues, s).id] = hop[At(queues, s).id]
  PROVE  OnTrail(queues, trail2, hop2, m, path) /\ NoneOvertaken(queues, hop2)
<1>1. NoneOvertaken(queues, hop2)
  BY DEF NoneOvertaken
<1>2. ASSUME NEW s \in Slots(queues)
      PROVE  /\ At(queues, s).path = path
             /\ hop2[At(queues, s).id] \in 0 .. m
             /\ trail2[hop2[At(queues, s).id]] = PortOf(s)
  <2>1. /\ At(queues, s).path = path
        /\ hop[At(queues, s).id] \in 0 .. n
        /\ trail[hop[At(queues, s).id]] = PortOf(s)
    BY DEF OnTrail
  <2>2. hop2[At(queues, s).id] = hop[At(queues, s).id]
    OBVIOUS
  <2>3. 0 .. n \subseteq 0 .. m
    OBVIOUS
  <2> QED BY <2>1, <2>2, <2>3
<1> QED BY <1>1, <1>2 DEF OnTrail

(* A packet that is appended at its hop overtakes none, if the packets of  *)
(* that hop were sent before it.                                           *)
LEMMA AppendKeeps ==
  ASSUME NEW queues \in [Ports -> Seq(FlowPkts)],
         NEW n \in Nat, NEW hop \in [Nat -> Nat], NEW trail, NEW path,
         OnTrail(queues, trail, hop, n, path), NoneOvertaken(queues, hop),
         NEW pkt \in FlowPkts, pkt.path = path, hop[pkt.id] \in 0 .. n,
         NEW port, trail[hop[pkt.id]] = port,
         \A s \in Slots(queues) :
           /\ At(queues, s).id < pkt.id => hop[At(queues, s).id] >= hop[pkt.id]
           /\ pkt.id < At(queues, s).id => hop[pkt.id] >= hop[At(queues, s).id]
           /\ hop[At(queues, s).id] = hop[pkt.id] => At(queues, s).id < pkt.id
  PROVE  /\ OnTrail(Appended(queues, port, pkt), trail, hop, n, path)
         /\ NoneOvertaken(Appended(queues, port, pkt), hop)
<1> DEFINE after == Appended(queues, port, pkt)
<1>1. AddedLast(queues, port, pkt, after)
  BY AppendSlots
<1>4. after \in [Ports -> Seq(FlowPkts)]
  BY AppendSlots
<1> HIDE DEF after
<1>2. OnTrail(after, trail, hop, n, path)
  <2>1. ASSUME NEW s \in Slots(after)
        PROVE  /\ At(after, s).path = path
               /\ hop[At(after, s).id] \in 0 .. n
               /\ trail[hop[At(after, s).id]] = PortOf(s)
    BY <1>1 DEF OnTrail, AddedLast
  <2> QED BY <2>1 DEF OnTrail
<1>3. ASSUME NEW s \in Slots(after), NEW t \in Slots(after)
      PROVE  /\ At(after, s).id < At(after, t).id
                  => hop[At(after, s).id] >= hop[At(after, t).id]
             /\ PortOf(s) = PortOf(t) /\ PlaceOf(s) < PlaceOf(t) /\ hop[At(after, s).id] = hop[At(after, t).id]
                  => At(after, s).id < At(after, t).id
  <2>0. pkt.id \in Nat /\ hop[pkt.id] \in Nat
    BY DEF FlowPkts
  <2>1. CASE s \in Slots(queues) /\ At(after, s) = At(queues, s)
    <3>1. CASE t \in Slots(queues) /\ At(after, t) = At(queues, t)
      BY <2>1, <3>1 DEF NoneOvertaken
    <3>2. CASE PortOf(t) = port /\ PlaceOf(t) = Len(queues[port]) + 1 /\ At(after, t) = pkt
      BY <2>1, <3>2
    <3> QED BY <1>1, <3>1, <3>2 DEF AddedLast
  <2>2. CASE PortOf(s) = port /\ PlaceOf(s) = Len(queues[port]) + 1 /\ At(after, s) = pkt
    <3>1. CASE t \in Slots(queues) /\ At(after, t) = At(queues, t)
      <4>1. PortOf(s) = port /\ PlaceOf(s) = Len(queues[port]) + 1
        BY <2>2
      <4>2. ~ (PortOf(s) = PortOf(t) /\ PlaceOf(s) < PlaceOf(t))
        <5>1. SUFFICES ASSUME PortOf(t) = port PROVE ~ (PlaceOf(s) < PlaceOf(t))
          BY <4>1
        <5>2. port \in Ports /\ queues[port] \in Seq(FlowPkts)
          BY <3>1, <5>1, SlotFacts
        <5>3. Len(queues[port]) \in Nat
          BY <5>2
        <5>4. PlaceOf(t) \in 1 .. Len(queues[port])
          BY <1>1, <3>1, <5>1 DEF AddedLast
        <5>5. /\ Len(queues[port]) \in Nat /\ PlaceOf(t) \in 1 .. Len(queues[port])
              /\ PlaceOf(s) = Len(queues[port]) + 1
          BY <4>1, <5>3, <5>4
        <5> QED BY ONLY <5>5
      <4> QED BY <2>2, <3>1, <4>2
    <3>2. CASE PortOf(t) = port /\ PlaceOf(t) = Len(queues[port]) + 1 /\ At(after, t) = pkt
      <4>1. /\ PlaceOf(s) = PlaceOf(t)
            /\ At(after, s).id = pkt.id /\ At(after, t).id = pkt.id
        BY <2>2, <3>2
      <4>2. PlaceOf(s) \in Nat
        BY <1>4, SlotFacts
      <4>3. ~ (PlaceOf(s) < PlaceOf(t))
        BY <4>1, <4>2
      <4> QED BY <2>0, <4>1, <4>3
    <3> QED BY <1>1, <3>1, <3>2 DEF AddedLast
  <2> QED BY <1>1, <2>1, <2>2 DEF AddedLast
<1>5. NoneOvertaken(after, hop)
  BY <1>3 DEF NoneOvertaken
<1> QED BY <1>2, <1>5 DEF after

-----------------------------------------------------------------------------
(* The invariant.                                                          *)

(* Nothing has been sent at first.                                         *)
LEMMA RoutingInit == Init => RoutingInv
<1> SUFFICES ASSUME Init PROVE RoutingInv
  OBVIOUS
<1>1. RoutingTypes
  BY DEF Init, RoutingTypes
<1>2. Slots(queue) = {}
  <2>1. ASSUME NEW s \in Slots(queue) PROVE FALSE
    <3>1. queue \in [Ports -> Seq(FlowPkts)] /\ queue = [p \in Ports |-> << >>]
      BY <1>1 DEF RoutingTypes, Init
    <3>2. PortOf(s) \in Ports /\ PlaceOf(s) \in DOMAIN queue[PortOf(s)]
      BY <3>1, SlotFacts
    <3>3. queue[PortOf(s)] = << >>
      BY <3>1, <3>2
    <3> QED BY <3>2, <3>3
  <2> QED BY <2>1
<1>3. NothingSent
  BY <1>2 DEF Init, NothingSent
<1> QED BY <1>1, <1>3 DEF RoutingInv, OrderInv

(* Either form of OrderInv gives a trail, with the path of the next packet. *)
LEMMA SomeTrail ==
  ASSUME RoutingInv, flow.sends = "ECMP", NEW path \in ChosenPaths(flow.dest)
  PROVE  \E n \in Nat, hop \in [Nat -> Nat] : \E trail : InOrderAlong(trail, hop, n, path)
<1>1. CASE NothingSent
  <2> DEFINE hop == [i \in Nat |-> 0]
             trail == [i \in {0} |-> FirstPort]
  <2>1. IsTrail(trail, 0, path)
    BY DEF IsTrail
  <2>2. InOrderAlong(trail, hop, 0, path)
    BY <1>1, <2>1 DEF NothingSent, InOrderAlong, OnTrail, NoneOvertaken, KnownIds, DeliveredFirst
  <2>3. hop \in [Nat -> Nat] /\ 0 \in Nat
    OBVIOUS
  <2> HIDE DEF hop, trail
  <2> QED BY <2>2, <2>3
<1>2. CASE ~ NothingSent
  BY <1>2 DEF RoutingInv, OrderInv, ChosenPaths
<1> QED BY <1>1, <1>2

(* Delivered packets have numbers.                                         *)
LEMMA DeliveredIds ==
  ASSUME NEW arrived \in Seq([id : Nat, at : Ends]), NEW i \in DOMAIN arrived
  PROVE  arrived[i].id \in Nat
<1>1. i \in 1 .. Len(arrived)
  OBVIOUS
<1>2. arrived[i] \in [id : Nat, at : Ends]
  BY <1>1, ElementOfSeq
<1> QED BY <1>2

(* SendPacket(): the packet with the largest number is at the first hop,   *)
(* behind all that are there.                                              *)
LEMMA SendPacketOrders ==
  ASSUME RoutingInv, SendPacket
  PROVE  RoutingInv'
<1>1. PICK path \in ChosenPaths(flow.dest) :
        /\ pathAssignments' = IF flow.sends = "ECMP"
                              THEN [d \in {flow.dest} |-> path] ELSE pathAssignments
        /\ queue' = Appended(queue, FirstPort, [id |-> numSent, path |-> path])
  BY DEF SendPacket, Appended, FirstPort
<1>2. /\ numSent' = numSent + 1 /\ flow' = flow /\ delivered' = delivered
      /\ delivered \in Seq([id : Nat, at : Ends])
      /\ \A d \in DOMAIN pathAssignments : pathAssignments[d] \in Paths
      /\ DOMAIN pathAssignments \subseteq {flow.dest}
  BY DEF SendPacket, RoutingInv, RoutingTypes
<1>9. numSent \in Nat
  BY DEF RoutingInv, RoutingTypes
<1>10. queue \in [Ports -> Seq(FlowPkts)]
  BY DEF RoutingInv, RoutingTypes
<1>11. \A i \in DOMAIN delivered : delivered[i].id \in Nat
  BY <1>2, DeliveredIds
<1> DEFINE pkt == [id |-> numSent, path |-> path]
<1>3. path \in Paths /\ pkt \in FlowPkts /\ pkt.id = numSent /\ pkt.path = path
  BY <1>2, <1>9 DEF ChosenPaths, FlowPkts
<1> HIDE DEF pkt
<1>4. queue' = Appended(queue, FirstPort, pkt)
  BY <1>1 DEF pkt
<1>5. queue' \in [Ports -> Seq(FlowPkts)]
  BY <1>3, <1>4, <1>10, AppendSlots
<1>6. RoutingTypes'
  <2>1. numSent' \in Nat /\ delivered' \in Seq([id : Nat, at : Ends])
    BY <1>2, <1>9
  <2>2. /\ DOMAIN pathAssignments' \subseteq {flow'.dest}
        /\ \A d \in DOMAIN pathAssignments' : pathAssignments'[d] \in Paths
    BY <1>1, <1>2, <1>3
  <2> QED BY <1>5, <2>1, <2>2 DEF RoutingTypes, Ends
<1>7. ASSUME flow.sends = "ECMP" PROVE OrderInv'
  <2>1. PICK n \in Nat, hop \in [Nat -> Nat] : \E trail : InOrderAlong(trail, hop, n, path)
    BY <1>7, SomeTrail
  <2>2. PICK trail : InOrderAlong(trail, hop, n, path)
    BY <2>1
  <2>3. /\ IsTrail(trail, n, path) /\ OnTrail(queue, trail, hop, n, path)
        /\ NoneOvertaken(queue, hop) /\ KnownIds(queue, numSent)
        /\ DeliveredFirst(queue, numSent)
    BY <2>2 DEF InOrderAlong
  <2>0. PICK hop2 : hop2 = [hop EXCEPT ![numSent] = 0]
    OBVIOUS
  <2>4. ASSUME NEW s \in Slots(queue)
        PROVE  /\ At(queue, s).id \in Nat /\ At(queue, s).id < numSent
               /\ hop2[At(queue, s).id] = hop[At(queue, s).id]
               /\ hop2[At(queue, s).id] \in Nat
    <3>1. At(queue, s).id \in Nat
      BY <1>10, SlotFacts
    <3>2. At(queue, s).id < numSent
      BY <2>3 DEF KnownIds
    <3>3. At(queue, s).id # numSent
      BY <1>9, <3>1, <3>2
    <3>4. hop2[At(queue, s).id] = hop[At(queue, s).id]
      BY <2>0, <3>1, <3>3
    <3> QED BY <3>1, <3>2, <3>4
  <2>5. hop2 \in [Nat -> Nat] /\ hop2[numSent] = 0
    BY <1>9, <2>0
  <2>6. OnTrail(queue, trail, hop2, n, path) /\ NoneOvertaken(queue, hop2)
    <3>1. n <= n /\ \A i \in 0 .. n : trail[i] = trail[i]
      OBVIOUS
    <3>2. \A s \in Slots(queue) : hop2[At(queue, s).id] = hop[At(queue, s).id]
      BY <2>4
    <3> QED BY <1>10, <2>3, <2>5, <3>1, <3>2, HopsOfOthers
  <2>7. \A s \in Slots(queue) :
          /\ At(queue, s).id < pkt.id => hop2[At(queue, s).id] >= hop2[pkt.id]
          /\ pkt.id < At(queue, s).id => hop2[pkt.id] >= hop2[At(queue, s).id]
          /\ hop2[At(queue, s).id] = hop2[pkt.id] => At(queue, s).id < pkt.id
    <3>1. ASSUME NEW s \in Slots(queue)
          PROVE  /\ At(queue, s).id < numSent => hop2[At(queue, s).id] >= hop2[numSent]
                 /\ numSent < At(queue, s).id => hop2[numSent] >= hop2[At(queue, s).id]
                 /\ hop2[At(queue, s).id] = hop2[numSent] => At(queue, s).id < numSent
      BY <1>9, <2>4, <2>5
    <3> QED BY <1>3, <3>1
  <2>8. hop2[pkt.id] \in 0 .. n /\ trail[hop2[pkt.id]] = FirstPort
    BY <1>3, <2>3, <2>5 DEF IsTrail
  <2>9. OnTrail(queue', trail, hop2, n, path) /\ NoneOvertaken(queue', hop2)
    BY <1>3, <1>4, <1>10, <2>5, <2>6, <2>7, <2>8, AppendKeeps
  <2>10. \A s \in Slots(queue') :
           \/ s \in Slots(queue) /\ At(queue', s) = At(queue, s)
           \/ At(queue', s) = pkt
    <3>1. AddedLast(queue, FirstPort, pkt, queue')
      BY <1>3, <1>4, <1>10, AppendSlots
    <3> QED BY <3>1 DEF AddedLast
  <2>11. KnownIds(queue', numSent + 1)
    <3>1. ASSUME NEW s \in Slots(queue') PROVE At(queue', s).id < numSent + 1
      <4>1. CASE s \in Slots(queue) /\ At(queue', s) = At(queue, s)
        BY <1>9, <2>4, <4>1
      <4>2. CASE At(queue', s) = pkt
        BY <1>3, <1>9, <4>2
      <4> QED BY <2>10, <4>1, <4>2
    <3> QED BY <3>1 DEF KnownIds
  <2>12. DeliveredFirst(queue', numSent + 1)
    <3>1. \A i \in DOMAIN delivered : delivered[i].id \in Nat /\ delivered[i].id < numSent
      BY <1>11, <2>3 DEF DeliveredFirst
    <3>2. \A i \in DOMAIN delivered : delivered[i].id < numSent + 1
      BY <1>9, <3>1
    <3>3. \A i \in DOMAIN delivered : \A s \in Slots(queue') : delivered[i].id < At(queue', s).id
      BY <1>3, <2>3, <2>10, <3>1 DEF DeliveredFirst
    <3> QED BY <2>3, <3>2, <3>3 DEF DeliveredFirst
  <2>13. InOrderAlong(trail, hop2, n, path)'
    <3>1. IsTrail(trail, n, path)'
      BY <1>2, <2>3 DEF IsTrail, FirstPort, NextHop
    <3>2. OnTrail(queue, trail, hop2, n, path)'
      BY <2>9
    <3>3. NoneOvertaken(queue, hop2)'
      BY <2>9
    <3>4. KnownIds(queue, numSent)'
      BY <1>2, <2>11 DEF KnownIds, Slots, At
    <3>5. DeliveredFirst(queue, numSent)'
      BY <1>2, <2>12 DEF DeliveredFirst, Slots, At
    <3> QED BY <3>1, <3>2, <3>3, <3>4, <3>5 DEF InOrderAlong
  <2>14. flow'.dest \in DOMAIN pathAssignments' /\ pathAssignments'[flow'.dest] = path
    BY <1>1, <1>2, <1>7
  <2>15. InOrderAlong(trail, hop2, n, pathAssignments[flow.dest])'
    <3>1. InOrderAlong(trail, hop2, n, pathAssignments[flow.dest])' <=> InOrderAlong(trail, hop2, n, path)'
      BY <2>14 DEF InOrderAlong
    <3> QED BY <2>13, <3>1
  <2> QED BY <2>5, <2>14, <2>15 DEF OrderInv
<1>8. OrderInv'
  BY <1>2, <1>7 DEF OrderInv
<1> QED BY <1>6, <1>8 DEF RoutingInv

(* A hop more for a trail whose last port does not leave the tree.         *)
LEMMA LongerTrail ==
  ASSUME NEW n \in Nat, NEW trail, NEW path, IsTrail(trail, n, path),
         NEW k \in 0 .. n, ~ Leaves(trail[k])
  PROVE  \E m \in Nat : \E trail2 :
           /\ IsTrail(trail2, m, path) /\ n <= m /\ k + 1 \in 0 .. m
           /\ \A i \in 0 .. n : trail2[i] = trail[i]
           /\ trail2[k + 1] = NextHop(trail[k], path)
<1>1. CASE k < n
  <2>1. k \in 0 .. n - 1 /\ k + 1 \in 0 .. n
    BY <1>1
  <2>2. trail[k + 1] = NextHop(trail[k], path)
    BY <2>1 DEF IsTrail
  <2>3. n <= n /\ \A i \in 0 .. n : trail[i] = trail[i]
    OBVIOUS
  <2> QED BY <2>1, <2>2, <2>3
<1>2. CASE k = n
  <2>1. PICK trail2 : trail2 = [i \in 0 .. n + 1 |->
                                  IF i <= n THEN trail[i] ELSE NextHop(trail[n], path)]
    OBVIOUS
  <2>2. \A i \in 0 .. n : i \in 0 .. n + 1 /\ i <= n
    OBVIOUS
  <2>3. n + 1 \in 0 .. n + 1 /\ ~ (n + 1 <= n) /\ n <= n + 1 /\ n + 1 \in Nat
    OBVIOUS
  <2>4. \A i \in 0 .. n : trail2[i] = trail[i]
    BY <2>1, <2>2
  <2>5. trail2[n + 1] = NextHop(trail[n], path)
    BY <2>1, <2>3
  <2>6. IsTrail(trail2, n + 1, path)
    <3>1. trail2[0] = FirstPort
      BY <2>4 DEF IsTrail
    <3>2. ASSUME NEW i \in 0 .. (n + 1) - 1
          PROVE  ~ Leaves(trail2[i]) /\ trail2[i + 1] = NextHop(trail2[i], path)
      <4>1. CASE i = n
        BY <1>2, <2>4, <2>5, <4>1
      <4>2. CASE i # n
        <5>1. i \in 0 .. n - 1 /\ i \in 0 .. n /\ i + 1 \in 0 .. n
          BY <4>2
        <5> QED BY <2>4, <5>1 DEF IsTrail
      <4> QED BY <4>1, <4>2
    <3> QED BY <3>1, <3>2 DEF IsTrail
  <2> QED BY <1>2, <2>3, <2>4, <2>5, <2>6
<1> QED BY <1>1, <1>2

(* Forward(): a packet that leaves the tree has none before it that was    *)
(* sent earlier; one that does not is at its next hop behind those that    *)
(* were, as they are at that hop or beyond.                                *)
LEMMA ForwardOrders ==
  ASSUME RoutingInv, NEW port \in Ports, Forward(port)
  PROVE  RoutingInv'
<1> DEFINE left == WithoutFirst(queue, port)
           pkt == Head(queue[port])
<1>1. /\ queue[port] # << >>
      /\ numSent' = numSent /\ flow' = flow /\ pathAssignments' = pathAssignments
  BY DEF Forward
<1>2. /\ numSent \in Nat
      /\ queue \in [Ports -> Seq(FlowPkts)]
  BY DEF RoutingInv, RoutingTypes
<1>3. delivered \in Seq([id : Nat, at : Ends])
  BY DEF RoutingInv, RoutingTypes
<1>4. /\ DOMAIN pathAssignments \subseteq {flow.dest}
      /\ \A d \in DOMAIN pathAssignments : pathAssignments[d] \in Paths
  BY DEF RoutingInv, RoutingTypes
<1>5. /\ left \in [Ports -> Seq(FlowPkts)]
      /\ FirstSlot(port) \in Slots(queue)
      /\ MovedUp(queue, port, left)
  BY <1>1, <1>2, TailSlots
<1>6. At(queue, FirstSlot(port)) = pkt
  BY <1>1, <1>2, TailSlots
<1>7. pkt \in FlowPkts /\ pkt.id \in Nat
  BY <1>2, <1>5, <1>6, SlotFacts
<1>8. \/ /\ Leaves(port) /\ queue' = left
         /\ delivered' = Append(delivered, [id |-> pkt.id, at |-> Peer(port).node.tree])
      \/ /\ ~ Leaves(port) /\ queue' = Appended(left, NextHop(port, pkt.path), pkt)
         /\ delivered' = delivered
  BY DEF Forward, Leaves, NextHop, WithoutFirst, Appended
<1> HIDE DEF left, pkt
<1>9. RoutingTypes'
  <2>1. queue' \in [Ports -> Seq(FlowPkts)]
    BY <1>5, <1>7, <1>8, AppendSlots
  <2>2. delivered' \in Seq([id : Nat, at : Ends])
    <3>1. Peer(port).node.tree \in Ends
      BY DEF Ends
    <3>2. [id |-> pkt.id, at |-> Peer(port).node.tree] \in [id : Nat, at : Ends]
      BY <1>7, <3>1
    <3> DEFINE arrival == [id |-> pkt.id, at |-> Peer(port).node.tree]
    <3>3. arrival \in [id : Nat, at : Ends]
      BY <3>2
    <3>4. delivered' = Append(delivered, arrival) \/ delivered' = delivered
      BY <1>8
    <3> HIDE DEF arrival
    <3>5. CASE delivered' = Append(delivered, arrival)
      BY ONLY <1>3, <3>3, <3>5, AppendProperties
    <3> QED BY <1>3, <3>4, <3>5
  <2> QED BY <1>1, <1>2, <1>4, <2>1, <2>2 DEF RoutingTypes, Ends
<1>10. ASSUME flow.sends = "ECMP" PROVE OrderInv'
  <2>1. ~ NothingSent
    BY <1>5 DEF NothingSent
  <2>2. PICK path : path = pathAssignments[flow.dest]
    OBVIOUS
  <2>3. flow.dest \in DOMAIN pathAssignments
    BY <1>10, <2>1 DEF RoutingInv, OrderInv
  <2>4. PICK n \in Nat, hop \in [Nat -> Nat] : \E trail : InOrderAlong(trail, hop, n, path)
    BY <1>10, <2>1, <2>2 DEF RoutingInv, OrderInv
  <2>5. PICK trail : InOrderAlong(trail, hop, n, path)
    BY <2>4
  <2>6. /\ IsTrail(trail, n, path) /\ OnTrail(queue, trail, hop, n, path)
        /\ NoneOvertaken(queue, hop) /\ KnownIds(queue, numSent)
        /\ DeliveredFirst(queue, numSent)
    BY <2>5 DEF InOrderAlong
  <2>7. PICK a \in Nat : a = pkt.id
    BY <1>7
  <2>8. /\ pkt.path = path /\ a < numSent
        /\ hop[a] \in 0 .. n /\ trail[hop[a]] = port
    BY <1>5, <1>6, <2>6, <2>7, FrontPlace DEF OnTrail, KnownIds
  <2>9. ASSUME NEW t \in Slots(queue) \ {FirstSlot(port)}
        PROVE  /\ At(queue, t).id # a
               /\ At(queue, t).id < a => hop[a] < hop[At(queue, t).id]
               /\ a < At(queue, t).id => hop[At(queue, t).id] <= hop[a]
    BY <1>2, <1>5, <1>6, <2>6, <2>7, FrontLeads
  <2>10. ASSUME NEW s \in Slots(left)
         PROVE  /\ \E t \in Slots(queue) : At(left, s) = At(queue, t)
                /\ At(left, s).id \in Nat /\ At(left, s).id # a
                /\ At(left, s).id < a => hop[a] < hop[At(left, s).id]
                /\ a < At(left, s).id => hop[At(left, s).id] <= hop[a]
    <3>1. PICK t \in Slots(queue) \ {FirstSlot(port)} : At(left, s) = At(queue, t)
      BY <1>5 DEF MovedUp
    <3>2. At(left, s).id \in Nat
      BY <1>5, SlotFacts
    <3> QED BY <2>9, <3>1, <3>2
  <2>11. OnTrail(left, trail, hop, n, path) /\ NoneOvertaken(left, hop)
    BY <1>1, <1>2, <2>6, TailKeeps DEF left
  <2>12. \A s \in Slots(queue') :
           \/ \E t \in Slots(queue) : At(queue', s) = At(queue, t)
           \/ At(queue', s) = pkt
    <3>1. CASE queue' = left
      BY <2>10, <3>1
    <3>2. CASE queue' = Appended(left, NextHop(port, pkt.path), pkt)
      <4>1. AddedLast(left, NextHop(port, pkt.path), pkt, queue')
        BY <1>5, <1>7, <3>2, AppendSlots
      <4> QED BY <2>10, <4>1 DEF AddedLast
    <3> QED BY <1>8, <3>1, <3>2
  <2>13. KnownIds(queue', numSent)
    BY <2>6, <2>7, <2>8, <2>12 DEF KnownIds
  <2>14. \A i \in DOMAIN delivered : \A s \in Slots(queue') : delivered[i].id < At(queue', s).id
    BY <1>5, <1>6, <2>6, <2>12 DEF DeliveredFirst
  <2>15. SUFFICES /\ \E m \in Nat, hop2 \in [Nat -> Nat] : \E trail2 :
                        /\ IsTrail(trail2, m, path)
                        /\ OnTrail(queue', trail2, hop2, m, path)
                        /\ NoneOvertaken(queue', hop2)
                  /\ DeliveredFirst(queue, numSent)'
    <3>1. KnownIds(queue, numSent)'
      BY <1>1, <2>13 DEF KnownIds, Slots, At
    <3>2. PICK m \in Nat, hop2 \in [Nat -> Nat] : \E trail2 :
            /\ IsTrail(trail2, m, path)
            /\ OnTrail(queue', trail2, hop2, m, path)
            /\ NoneOvertaken(queue', hop2)
      BY <2>15
    <3>3. PICK trail2 :
            /\ IsTrail(trail2, m, path)
            /\ OnTrail(queue', trail2, hop2, m, path)
            /\ NoneOvertaken(queue', hop2)
      BY <3>2
    <3>4. IsTrail(trail2, m, path)'
      BY <1>1, <3>3 DEF IsTrail, FirstPort, NextHop
    <3>5. InOrderAlong(trail2, hop2, m, path)'
      BY <2>15, <3>1, <3>3, <3>4 DEF InOrderAlong
    <3>6. path = pathAssignments'[flow'.dest] /\ flow'.dest \in DOMAIN pathAssignments'
      BY <1>1, <2>2, <2>3
    <3>7. InOrderAlong(trail2, hop2, m, pathAssignments[flow.dest])'
      <4>1. InOrderAlong(trail2, hop2, m, pathAssignments[flow.dest])' <=> InOrderAlong(trail2, hop2, m, path)'
        BY <3>6 DEF InOrderAlong
      <4> QED BY <3>5, <4>1
    <3> QED BY <3>6, <3>7 DEF OrderInv
  <2>16. CASE Leaves(port) /\ queue' = left
                /\ delivered' = Append(delivered, [id |-> pkt.id, at |-> Peer(port).node.tree])
    <3>1. ASSUME NEW s \in Slots(left) PROVE a < At(left, s).id
      <4>1. SUFFICES ASSUME At(left, s).id < a PROVE FALSE
        BY <2>10
      <4>2. hop[a] < hop[At(left, s).id] /\ hop[At(left, s).id] \in 0 .. n
        BY <2>10, <2>11, <4>1 DEF OnTrail
      <4>3. hop[a] \in 0 .. n - 1
        BY <2>8, <4>2
      <4> QED BY <2>6, <2>8, <2>16, <4>3 DEF IsTrail
    <3>2. ASSUME NEW i \in DOMAIN delivered PROVE delivered[i].id < a
      BY <1>5, <1>6, <2>6, <2>7 DEF DeliveredFirst
    <3>3. DeliveredFirst(queue, numSent)'
      <4> DEFINE d == [id |-> a, at |-> Peer(port).node.tree]
      <4>1. Len(delivered) \in Nat /\ DOMAIN delivered = 1 .. Len(delivered)
        BY <1>3
      <4>2. delivered' = Append(delivered, d) /\ d.id = a
        BY <2>7, <2>16
      <4> HIDE DEF d
      <4>3. /\ DOMAIN delivered' = 1 .. Len(delivered) + 1
            /\ \A i \in 1 .. Len(delivered) : delivered'[i] = delivered[i]
            /\ delivered'[Len(delivered) + 1] = d
        BY <1>3, <4>1, <4>2
      <4>4. ASSUME NEW i \in DOMAIN delivered'
            PROVE  \/ i \in DOMAIN delivered /\ delivered'[i] = delivered[i]
                   \/ i = Len(delivered) + 1 /\ delivered'[i].id = a
        <5>1. CASE i \in 1 .. Len(delivered)
          BY <4>1, <4>3, <5>1
        <5>2. CASE i \notin 1 .. Len(delivered)
          <6>1. i = Len(delivered) + 1
            <7>1. PICK l \in Nat : l = Len(delivered)
              BY <4>1
            <7>2. i \in 1 .. l + 1 /\ i \notin 1 .. l
              BY <4>3, <5>2, <7>1
            <7>3. i = l + 1
              BY ONLY <7>2, l \in Nat
            <7> QED BY <7>1, <7>3
          <6> QED BY <4>2, <4>3, <6>1
        <5> QED BY <5>1, <5>2
      <4>5. \A i \in DOMAIN delivered' : delivered'[i].id < numSent'
        BY <1>1, <2>6, <2>8, <4>4 DEF DeliveredFirst
      <4>6. \A i \in DOMAIN delivered' : \A s \in Slots(queue') : delivered'[i].id < At(queue', s).id
        BY <2>14, <2>16, <3>1, <4>4
      <4>7. ASSUME NEW i \in DOMAIN delivered', NEW j \in DOMAIN delivered', i < j
            PROVE  delivered'[i].id < delivered'[j].id
        <5>1. i \in DOMAIN delivered /\ delivered'[i] = delivered[i]
          <6>1. i \in 1 .. Len(delivered) + 1 /\ j \in 1 .. Len(delivered) + 1
            BY <4>3
          <6>2. i \in 1 .. Len(delivered)
            BY <4>1, <4>7, <6>1
          <6> QED BY <4>1, <4>3, <6>2
        <5>2. CASE j \in DOMAIN delivered /\ delivered'[j] = delivered[j]
          BY <2>6, <4>7, <5>1, <5>2 DEF DeliveredFirst
        <5>3. CASE delivered'[j].id = a
          BY <3>2, <5>1, <5>3
        <5> QED BY <4>4, <5>2, <5>3
      <4> QED BY <4>5, <4>6, <4>7 DEF DeliveredFirst, Slots, At
    <3> QED BY <2>6, <2>11, <2>16, <3>3
  <2>17. CASE ~ Leaves(port) /\ queue' = Appended(left, NextHop(port, pkt.path), pkt)
                /\ delivered' = delivered
    <3>1. PICK next \in Nat : next = hop[a] + 1
      BY <2>8
    <3>2. PICK m \in Nat : \E trail2 :
            /\ IsTrail(trail2, m, path) /\ n <= m /\ next \in 0 .. m
            /\ \A i \in 0 .. n : trail2[i] = trail[i]
            /\ trail2[next] = NextHop(port, path)
      <4>1. PICK l : l = hop[a]
        OBVIOUS
      <4>2. l \in 0 .. n /\ ~ Leaves(trail[l]) /\ trail[l] = port /\ next = l + 1
        BY <2>8, <2>17, <3>1, <4>1
      <4>3. \E m \in Nat : \E trail2 :
              /\ IsTrail(trail2, m, path) /\ n <= m /\ l + 1 \in 0 .. m
              /\ \A i \in 0 .. n : trail2[i] = trail[i]
              /\ trail2[l + 1] = NextHop(trail[l], path)
        BY <2>6, <4>2, LongerTrail
      <4> QED BY <4>2, <4>3
    <3>3. PICK trail2 :
            /\ IsTrail(trail2, m, path) /\ n <= m /\ next \in 0 .. m
            /\ \A i \in 0 .. n : trail2[i] = trail[i]
            /\ trail2[next] = NextHop(port, path)
      BY <3>2
    <3>4. PICK hop2 : hop2 = [hop EXCEPT ![a] = next]
      OBVIOUS
    <3>5. hop2 \in [Nat -> Nat] /\ hop2[a] = next
      BY <3>4
    <3>6. \A s \in Slots(left) : hop2[At(left, s).id] = hop[At(left, s).id]
      BY <2>10, <3>4
    <3>7. OnTrail(left, trail2, hop2, m, path) /\ NoneOvertaken(left, hop2)
      BY <1>5, <2>11, <3>3, <3>5, <3>6, HopsOfOthers
    <3>8. \A s \in Slots(left) :
            /\ At(left, s).id < pkt.id => hop2[At(left, s).id] >= hop2[pkt.id]
            /\ pkt.id < At(left, s).id => hop2[pkt.id] >= hop2[At(left, s).id]
            /\ hop2[At(left, s).id] = hop2[pkt.id] => At(left, s).id < pkt.id
      <4>1. ASSUME NEW s \in Slots(left), NEW b \in Nat, b = At(left, s).id
            PROVE  /\ b < a => hop2[b] >= hop2[a]
                   /\ a < b => hop2[a] >= hop2[b]
                   /\ hop2[b] = hop2[a] => b < a
        <5>1. /\ b # a
              /\ b < a => hop[a] < hop[b]
              /\ a < b => hop[b] <= hop[a]
          BY <2>10, <4>1
        <5>2. hop2[b] = hop[b] /\ hop2[a] = hop[a] + 1 /\ hop[a] \in Nat /\ hop[b] \in Nat
          BY <3>1, <3>5, <3>6, <4>1
        <5> QED BY ONLY <5>1, <5>2, a \in Nat, b \in Nat
      <4> QED BY <2>7, <2>10, <4>1
    <3>9. hop2[pkt.id] \in 0 .. m /\ trail2[hop2[pkt.id]] = NextHop(port, path)
      BY <2>7, <3>3, <3>5
    <3>10. OnTrail(queue', trail2, hop2, m, path) /\ NoneOvertaken(queue', hop2)
      BY <1>5, <1>7, <2>8, <2>17, <3>5, <3>7, <3>8, <3>9, AppendKeeps
    <3>11. DeliveredFirst(queue, numSent)'
      BY <1>1, <2>6, <2>14, <2>17 DEF DeliveredFirst, Slots, At
    <3> QED BY <3>3, <3>5, <3>10, <3>11
  <2> QED BY <1>8, <2>16, <2>17
<1>11. OrderInv'
  BY <1>1, <1>10 DEF OrderInv
<1> QED BY <1>9, <1>11 DEF RoutingInv

(* What control messages do leaves the packets alone.                      *)
LEMMA RoutingUnchanged ==
  ASSUME RoutingInv,
         UNCHANGED <<flow, pathAssignments, queue, delivered>>,
         numSent' = numSent \/ (numSent' = 1 /\ flow.sends = "control")
  PROVE  RoutingInv'
<1>1. RoutingTypes'
  BY DEF RoutingInv, RoutingTypes, Ends
<1>2. CASE numSent' = numSent
  <2> SUFFICES ASSUME flow.sends = "ECMP" PROVE OrderInv'
    BY <1>1 DEF RoutingInv, OrderInv
  <2>1. CASE NothingSent
    <3>1. NothingSent'
      BY <1>2, <2>1 DEF NothingSent, Slots
    <3> QED BY <3>1 DEF OrderInv
  <2>2. CASE ~ NothingSent
    <3>1. PICK path : path = pathAssignments[flow.dest]
      OBVIOUS
    <3>2. /\ flow.dest \in DOMAIN pathAssignments
          /\ \E n \in Nat, hop \in [Nat -> Nat] : \E trail : InOrderAlong(trail, hop, n, path)
      BY <2>2, <3>1 DEF RoutingInv, OrderInv
    <3>3. PICK n \in Nat, hop \in [Nat -> Nat] : \E trail : InOrderAlong(trail, hop, n, path)
      BY <3>2
    <3>4. PICK trail : InOrderAlong(trail, hop, n, path)
      BY <3>3
    <3>5. IsTrail(trail, n, path)'
      BY <3>4 DEF InOrderAlong, IsTrail, FirstPort, NextHop
    <3>6. OnTrail(queue, trail, hop, n, path)' /\ NoneOvertaken(queue, hop)'
      BY <3>4 DEF InOrderAlong
    <3>7. KnownIds(queue, numSent)'
      BY <1>2, <3>4 DEF InOrderAlong
    <3>8. DeliveredFirst(queue, numSent)'
      BY <1>2, <3>4 DEF InOrderAlong, DeliveredFirst
    <3>9. InOrderAlong(trail, hop, n, path)'
      BY <3>5, <3>6, <3>7, <3>8 DEF InOrderAlong
    <3>10. path = pathAssignments'[flow'.dest] /\ flow'.dest \in DOMAIN pathAssignments'
      BY <3>1, <3>2
    <3>11. InOrderAlong(trail, hop, n, pathAssignments[flow.dest])'
      <4>1. InOrderAlong(trail, hop, n, pathAssignments[flow.dest])' <=> InOrderAlong(trail, hop, n, path)'
        BY <3>10 DEF InOrderAlong
      <4> QED BY <3>9, <4>1
    <3> QED BY <3>10, <3>11 DEF OrderInv
  <2> QED BY <2>1, <2>2
<1>3. CASE flow.sends = "control"
  BY <1>1, <1>3 DEF RoutingInv, OrderInv
<1> QED BY <1>2, <1>3

(* Every step keeps the invariant.                                         *)
LEMMA RoutingNext == RoutingInv /\ [Next]_vars => RoutingInv'
<1> SUFFICES ASSUME RoutingInv, [Next]_vars PROVE RoutingInv'
  OBVIOUS
<1>1. CASE SendPacket
  BY <1>1, SendPacketOrders
<1>2. ASSUME NEW port \in Ports, Forward(port) PROVE RoutingInv'
  BY <1>2, ForwardOrders
<1>3. CASE SendControl
  BY <1>3, RoutingUnchanged DEF SendControl, ControlLogic, Handled
<1>4. ASSUME NEW port \in Ports, HandleControl(port) PROVE RoutingInv'
  <2>1. UNCHANGED <<flow, pathAssignments, queue, delivered>> /\ numSent' = numSent
    BY <1>4 DEF HandleControl, ControlLogic, Handled
  <2>2. numSent' = numSent \/ (numSent' = 1 /\ flow.sends = "control")
    BY <2>1
  <2> QED BY <2>1, <2>2, RoutingUnchanged
<1>5. CASE UNCHANGED vars
  <2>1. UNCHANGED <<flow, pathAssignments, queue, delivered>> /\ numSent' = numSent
    BY <1>5 DEF vars
  <2>2. numSent' = numSent \/ (numSent' = 1 /\ flow.sends = "control")
    BY <2>1
  <2> QED BY <2>1, <2>2, RoutingUnchanged
<1> QED BY <1>1, <1>2, <1>3, <1>4, <1>5 DEF Next

(* In any fat tree, whatever its radices and however its queues are        *)
(* served, the packets that ECMP sends to a server come to it in the order *)
(* in which they were sent (ECMPLoadBalancer::choosePath,                  *)
(* ControlProcessor::lookup).                                              *)
THEOREM OnePathKeepsOrder == Spec => []ECMPKeepsOrder
<1>1. RoutingInv => ECMPKeepsOrder
  <2> SUFFICES ASSUME RoutingInv, flow.sends = "ECMP"
               PROVE  \A i, j \in DOMAIN delivered : i < j => delivered[i].id < delivered[j].id
    BY DEF ECMPKeepsOrder
  <2>1. CASE NothingSent
    BY <2>1 DEF NothingSent
  <2>2. CASE ~ NothingSent
    <3>1. PICK n \in Nat, hop \in [Nat -> Nat] :
            \E trail : InOrderAlong(trail, hop, n, pathAssignments[flow.dest])
      BY <2>2 DEF RoutingInv, OrderInv
    <3> QED BY <3>1 DEF InOrderAlong, DeliveredFirst
  <2> QED BY <2>1, <2>2
<1> QED BY <1>1, RoutingInit, RoutingNext, PTL DEF Spec

-----------------------------------------------------------------------------
(* Links, paths and addresses, level by level.                             *)

(* What the levels' numbers of links and paths are.                        *)
LEMMA DownLinks ==
  /\ \A l \in Levels : down_radix[l] \in Nat \ {0} /\ down_links[l] = down_links[l + 1] * down_radix[l]
  /\ \A l \in 0 .. tree_depth : down_links[l] \in Nat \ {0}
  /\ down_links[tree_depth] = 1
<1> DEFINE n == tree_depth
<1>1. n \in Nat /\ Levels = 0 .. n - 1 /\ \A l \in 0 .. n - 1 : down_radix[l] \in Nat \ {0}
  BY FatTreeAssumption DEF Levels, down_radix
<1> HIDE DEF n
<1> DEFINE g == down_links
           r == down_radix
<1>2. g = CHOOSE f : f = [l \in 0 .. n |-> IF l = n THEN 1 ELSE f[l + 1] * r[l]]
  BY DEF down_links, n
<1>7. \A l \in 0 .. n - 1 : r[l] \in Nat \ {0}
  BY <1>1
<1> HIDE DEF g, r
<1>8. \E f : f = [l \in 0 .. n |-> IF l = n THEN 1 ELSE f[l + 1] * r[l]]
  BY <1>1, <1>7, ProductsExist
<1>9. g = [l \in 0 .. n |-> IF l = n THEN 1 ELSE g[l + 1] * r[l]]
  BY <1>2, <1>8
<1>4. \A l \in 0 .. n : g[l] = IF l = n THEN 1 ELSE g[l + 1] * r[l]
  BY <1>9
<1>3. \A l \in 0 .. n : g[l] \in Nat \ {0}
  <2>1. 0 \in 0 .. n
    BY <1>1
  <2> QED BY <1>1, <1>4, <1>7, <2>1, ProductsPositive
<1>5. \A l \in 0 .. n - 1 : l \in 0 .. n /\ l # n
  BY <1>1
<1>6. n \in 0 .. n
  BY <1>1
<1> QED BY <1>1, <1>3, <1>4, <1>5, <1>6 DEF n, g, r

(* What the numbers of paths through the switches of a level are.          *)
LEMMA PathsReachable ==
  /\ \A l \in 1 .. tree_depth :
       /\ up_radix[l] \in Nat \ {0}
       /\ paths_reachable[l] = paths_reachable[l - 1] * up_radix[l]
  /\ \A l \in 0 .. tree_depth : paths_reachable[l] \in Nat \ {0}
  /\ up_radix[tree_depth] = 1
<1> DEFINE n == tree_depth
           Value(f, l) == CASE l = 0 -> 1
                            [] l = n -> f[l - 1]
                            [] OTHER -> f[l - 1] * up_radix[l]
           Positive == [0 .. n -> Nat \ {0}]
           T == {k \in Nat : \E f \in Positive : \A l \in 0 .. n : l <= k => f[l] = Value(f, l)}
<1>1. /\ n \in Nat /\ n >= 2 /\ up_radix[n] = 1
      /\ \A l \in 1 .. n : up_radix[l] \in Nat \ {0}
  <2>1. n \in Nat /\ n >= 2
    BY FatTreeAssumption
  <2>2. ASSUME NEW l \in 1 .. n PROVE up_radix[l] \in Nat \ {0} /\ (l = n => up_radix[l] = 1)
    <3>1. l \in 0 .. n /\ l # 0
      BY <2>1
    <3>2. up_radix[l] = CASE l = n -> 1
                          [] l = n - 1 -> tor_switch_up_ports
                          [] l = 0 -> 0
                          [] OTHER -> switch_up_ports
      BY <3>1 DEF up_radix
    <3> QED BY <2>1, <3>1, <3>2, FatTreeAssumption
  <2>3. n \in 1 .. n
    BY <2>1
  <2> QED BY <2>1, <2>2, <2>3
<1> HIDE DEF n
<1>2. 0 \in T
  <2> DEFINE f == [l \in 0 .. n |-> 1]
  <2>1. f \in Positive
    OBVIOUS
  <2>2. ASSUME NEW l \in 0 .. n, l <= 0 PROVE f[l] = Value(f, l)
    <3>1. l = 0 /\ f[l] = 1 /\ n # 0
      BY <1>1, <2>2
    <3> HIDE DEF f
    <3> QED BY <3>1
  <2> QED BY <2>1, <2>2
<1>3. ASSUME NEW k \in T PROVE k + 1 \in T
  <2>1. k \in Nat /\ k + 1 \in Nat
    OBVIOUS
  <2>2. PICK f \in Positive : \A l \in 0 .. n : l <= k => f[l] = Value(f, l)
    OBVIOUS
  <2>3. CASE k + 1 \notin 0 .. n
    <3>1. \A l \in 0 .. n : l <= k
      BY <1>1, <2>1, <2>3
    <3>2. \A l \in 0 .. n : l <= k + 1 => f[l] = Value(f, l)
      BY <2>2, <3>1
    <3> QED BY <2>1, <3>2
  <2>4. CASE k + 1 \in 0 .. n
    <3> DEFINE m == k + 1
               new == Value(f, m)
               h == [f EXCEPT ![m] = new]
    <3>1. m \in 1 .. n /\ m - 1 = k /\ k \in 0 .. n
      BY <1>1, <2>1, <2>4
    <3>2. new \in Nat \ {0}
      <4> DEFINE x == f[m - 1]
                 y == up_radix[m]
      <4>1. x \in Nat \ {0} /\ y \in Nat \ {0} /\ m # 0
        BY <1>1, <3>1
      <4>2. new = x \/ new = x * y
        BY <4>1
      <4> HIDE DEF x, y, new
      <4>3. x * y \in Nat \ {0}
        BY <4>1, Multiple
      <4> QED BY <4>1, <4>2, <4>3
    <3>3. m = k + 1 /\ new = Value(f, m)
      OBVIOUS
    <3> HIDE DEF new, m
    <3>4. h \in Positive /\ h[m] = new /\ \A l \in 0 .. n : l # m => h[l] = f[l]
      BY <3>1, <3>2
    <3> HIDE DEF h
    <3>5. ASSUME NEW l \in 0 .. n, l <= k + 1 PROVE h[l] = Value(h, l)
      <4>0. l # 0 => l - 1 \in 0 .. n /\ l - 1 # m
        <5>1. n \in Nat /\ l <= m
          BY <1>1, <3>3, <3>5
        <5>2. m \in 1 .. n
          BY <3>1
        <5> QED BY ONLY <5>1, <5>2, l \in 0 .. n
      <4>1. l # 0 => h[l - 1] = f[l - 1]
        BY <3>4, <4>0
      <4>2. Value(h, l) = Value(f, l)
        <5>1. n # 0
          BY <1>1
        <5> QED BY <4>1, <5>1
      <4>3. CASE l = m
        BY <3>3, <3>4, <4>2, <4>3
      <4>4. CASE l # m
        <5>1. l <= k
          BY <2>1, <3>3, <3>5, <4>4
        <5>2. h[l] = f[l] /\ f[l] = Value(f, l)
          BY <2>2, <3>4, <4>4, <5>1
        <5> QED BY <4>2, <5>2
      <4> QED BY <4>3, <4>4
    <3> QED BY <2>1, <3>4, <3>5
  <2> QED BY <2>3, <2>4
<1>4. n \in T
  <2> HIDE DEF T
  <2>1. T \in SUBSET Nat
    BY DEF T
  <2> QED BY <1>1, <1>2, <1>3, <2>1, NatSetInduction
<1>5. PICK f \in Positive : \A l \in 0 .. n : f[l] = Value(f, l)
  BY <1>4
<1>6. f = [l \in 0 .. n |-> Value(f, l)]
  BY <1>5
<1> DEFINE g == paths_reachable
<1>7. g = CHOOSE r : r = [l \in 0 .. n |-> Value(r, l)]
  BY DEF paths_reachable, n
<1> HIDE DEF g
<1>8. g = [l \in 0 .. n |-> Value(g, l)]
  BY <1>6, <1>7
<1>9. \A l \in 0 .. n : g[l] = Value(g, l)
  BY <1>8
<1> DEFINE U == {k \in Nat : k <= n => g[k] \in Nat \ {0}}
<1>10. 0 \in U
  BY <1>1, <1>9
<1>11. ASSUME NEW k \in U PROVE k + 1 \in U
  <2> SUFFICES ASSUME k + 1 <= n PROVE g[k + 1] \in Nat \ {0}
    OBVIOUS
  <2> DEFINE m == k + 1
             x == g[k]
             y == up_radix[m]
  <2>1. m \in 1 .. n /\ m \in 0 .. n /\ m - 1 = k /\ k <= n /\ m # 0
    BY <1>1
  <2>2. x \in Nat \ {0} /\ y \in Nat \ {0}
    BY <1>1, <2>1
  <2>3. g[m] = x \/ g[m] = x * y
    <3>1. g[m] = Value(g, m)
      BY <1>9, <2>1
    <3> QED BY <2>1, <3>1
  <2> HIDE DEF x, y
  <2>4. x * y \in Nat \ {0}
    BY <2>2, Multiple
  <2> QED BY <2>2, <2>3, <2>4
<1>12. \A k \in Nat : k \in U
  <2> HIDE DEF U
  <2>1. U \in SUBSET Nat
    BY DEF U
  <2> QED BY <1>10, <1>11, <2>1, NatSetInduction
<1>13. \A l \in 0 .. n : g[l] \in Nat \ {0}
  BY <1>1, <1>12
<1>14. ASSUME NEW l \in 1 .. n PROVE g[l] = g[l - 1] * up_radix[l]
  <2>1. l \in 0 .. n /\ l # 0 /\ l - 1 \in 0 .. n
    BY <1>1
  <2> DEFINE x == g[l - 1]
  <2>2. x \in Nat
    BY <1>13, <2>1
  <2>3. g[l] = IF l = n THEN x ELSE x * up_radix[l]
    <3>1. g[l] = Value(g, l)
      BY <1>9, <2>1
    <3> QED BY <2>1, <3>1
  <2> HIDE DEF x
  <2>4. CASE l = n
    <3>1. x * 1 = x
      BY <2>2
    <3> QED BY <1>1, <2>3, <2>4, <3>1 DEF x
  <2>5. CASE l # n
    BY <2>3, <2>5 DEF x
  <2> QED BY <2>4, <2>5
<1> QED BY <1>1, <1>13, <1>14 DEF g, n

(* Every switch but the intermediate ones has links that lead up.          *)
LEMMA UpLinks ==
  /\ \A l \in 1 .. tree_depth - 1 : up_links[l] = up_links[l + 1] * up_radix[l]
  /\ \A l \in 1 .. tree_depth : up_links[l] \in Nat \ {0}
  /\ up_links[tree_depth] = 1
<1> DEFINE n == tree_depth
           g == up_links
           r == up_radix
<1>1. n \in Nat /\ 1 \in 0 .. n /\ \A l \in 1 .. n - 1 : r[l] \in Nat \ {0}
  <2>1. n \in Nat /\ n >= 2
    BY FatTreeAssumption
  <2>2. ASSUME NEW l \in 1 .. n - 1 PROVE r[l] \in Nat \ {0}
    <3>1. l \in 1 .. n
      BY <2>1
    <3> QED BY <3>1, PathsReachable
  <2> QED BY <2>1, <2>2
<1>2. \A l \in 0 .. n - 1 : r[l] \in Nat
  <2>1. r[0] \in Nat
    BY FatTreeAssumption DEF up_radix
  <2>2. \A l \in 0 .. n - 1 : l = 0 \/ l \in 1 .. n - 1
    BY <1>1
  <2> HIDE DEF r, n
  <2> QED BY <1>1, <2>1, <2>2
<1>3. g = CHOOSE f : f = [l \in 0 .. n |-> IF l = n THEN 1 ELSE f[l + 1] * r[l]]
  BY DEF up_links
<1> HIDE DEF n, g, r
<1>4. \E f : f = [l \in 0 .. n |-> IF l = n THEN 1 ELSE f[l + 1] * r[l]]
  BY <1>1, <1>2, ProductsExist
<1>5. g = [l \in 0 .. n |-> IF l = n THEN 1 ELSE g[l + 1] * r[l]]
  BY <1>3, <1>4
<1>6. \A l \in 0 .. n : g[l] = IF l = n THEN 1 ELSE g[l + 1] * r[l]
  BY <1>5
<1>7. \A l \in 1 .. n : g[l] \in Nat \ {0}
  BY <1>1, <1>6, ProductsPositive
<1>8. \A l \in 1 .. n - 1 : l \in 0 .. n /\ l # n
  BY <1>1
<1>9. n \in 0 .. n
  BY <1>1
<1> QED BY <1>1, <1>6, <1>7, <1>8, <1>9 DEF n, g, r

(* The paths through a switch are as many as its links that lead up, for   *)
(* every switch that leads to different paths.                             *)
LEMMA PathsOfLinks ==
  \A l \in Levels : paths_reachable[l] * up_links[l + 1] = paths_reachable[tree_depth]
<1> DEFINE n == tree_depth
           p == paths_reachable
           u == up_links
           r == up_radix
           T == {k \in Nat : k <= n - 1 => p[(n - 1) - k] * u[((n - 1) - k) + 1] = p[n]}
<1>1. n \in Nat /\ n >= 2 /\ Levels = 0 .. n - 1
  BY FatTreeAssumption DEF Levels
<1>2. /\ \A l \in 1 .. n : r[l] \in Nat \ {0} /\ p[l] = p[l - 1] * r[l]
      /\ \A l \in 0 .. n : p[l] \in Nat \ {0}
      /\ r[n] = 1
  BY PathsReachable
<1>3. /\ \A l \in 1 .. n - 1 : u[l] = u[l + 1] * r[l]
      /\ \A l \in 1 .. n : u[l] \in Nat \ {0}
      /\ u[n] = 1
  BY UpLinks
<1> HIDE DEF n, p, u, r
<1>4. 0 \in T
  <2>1. (n - 1) - 0 = n - 1 /\ (n - 1) + 1 = n /\ n \in 1 .. n /\ n - 1 \in 0 .. n
    BY <1>1
  <2> DEFINE x == p[n - 1]
  <2>2. x \in Nat /\ p[n] = x * 1
    BY <1>2, <2>1
  <2>3. p[n - 1] * u[n] = p[n]
    BY <1>3, <2>2
  <2> QED BY <2>1, <2>3
<1>5. ASSUME NEW k \in T PROVE k + 1 \in T
  <2> SUFFICES ASSUME k + 1 <= n - 1
               PROVE  p[(n - 1) - (k + 1)] * u[((n - 1) - (k + 1)) + 1] = p[n]
    OBVIOUS
  <2> DEFINE m == (n - 1) - (k + 1)
  <2>1. /\ k <= n - 1 /\ (n - 1) - k = m + 1 /\ m \in 0 .. n
        /\ m + 1 \in 1 .. n - 1 /\ m + 1 \in 1 .. n /\ (m + 1) + 1 \in 1 .. n /\ (m + 1) - 1 = m
    BY <1>1
  <2>2. p[m + 1] * u[(m + 1) + 1] = p[n]
    BY <2>1
  <2> HIDE DEF m, T
  <2> DEFINE x == p[m]
             y == r[m + 1]
             z == u[(m + 1) + 1]
  <2>3. p[m + 1] = x * y /\ u[m + 1] = z * y /\ x \in Nat /\ y \in Nat /\ z \in Nat
    BY <1>2, <1>3, <2>1
  <2> HIDE DEF x, y, z
  <2>4. x * (z * y) = (x * y) * z
    BY <2>3, Z3
  <2>5. p[n] = (x * y) * z
    BY <2>2, <2>3 DEF z
  <2>6. p[m] * u[m + 1] = p[n]
    BY <2>3, <2>4, <2>5 DEF x
  <2> QED BY <2>6 DEF m
<1>6. \A k \in Nat : k \in T
  <2> HIDE DEF T
  <2>1. T \in SUBSET Nat
    BY DEF T
  <2> QED BY <1>4, <1>5, <2>1, NatSetInduction
<1>7. ASSUME NEW l \in Levels PROVE p[l] * u[l + 1] = p[n]
  <2>1. (n - 1) - l \in Nat /\ (n - 1) - l <= n - 1 /\ (n - 1) - ((n - 1) - l) = l
    BY <1>1
  <2>2. (n - 1) - l \in T
    BY <1>6, <2>1
  <2> QED BY <2>1, <2>2
<1> QED BY <1>7 DEF n, p, u

-----------------------------------------------------------------------------
(* The digits of addresses and paths.                                      *)

(* The digits of an address from the first one to those of a depth.        *)
Prefix(depth, dest) == dest \div down_links[depth]

(* The prefix at one level below has one digit more.                       *)
LEMMA PrefixBelow ==
  ASSUME NEW a \in Nat, NEW d \in Levels
  PROVE  /\ Prefix(d, a) \in Nat /\ Prefix(d + 1, a) \in Nat
         /\ getLevelID(d, a) \in 0 .. down_radix[d] - 1
         /\ Prefix(d + 1, a) = down_radix[d] * Prefix(d, a) + getLevelID(d, a)
         /\ Prefix(d, a) = Prefix(d + 1, a) \div down_radix[d]
<1> DEFINE r == down_radix[d]
           m == down_links[d + 1]
           n == down_links[d]
<1>1. d \in 0 .. tree_depth /\ d + 1 \in 0 .. tree_depth
  BY FatTreeAssumption DEF Levels
<1>2. r \in Nat \ {0} /\ m \in Nat \ {0} /\ n \in Nat \ {0} /\ n = m * r
  BY <1>1, DownLinks
<1> HIDE DEF r, m, n
<1> DEFINE q == a \div m
<1>3. q \in Nat
  BY <1>2, Division
<1>4. a \div n = q \div r
  BY <1>2, DivisionTwice
<1> HIDE DEF q
<1>5. q \div r \in Nat /\ q % r \in 0 .. r - 1 /\ q = r * (q \div r) + (q % r)
  BY <1>2, <1>3, Division
<1>6. Prefix(d, a) = q \div r /\ Prefix(d + 1, a) = q /\ getLevelID(d, a) = q % r
  BY <1>4 DEF Prefix, getLevelID, r, m, n, q
<1> QED BY <1>3, <1>5, <1>6 DEF r

(* A sub-tree is named by the prefix of its addresses.                     *)
LEMMA SubTreePrefix ==
  ASSUME NEW a \in Nat, NEW d \in 0 .. tree_depth
  PROVE  /\ Prefix(d, a) \in Nat /\ SubTree(d, a) \in Nat
         /\ SubTree(d, a) = down_links[d] * Prefix(d, a)
         /\ Prefix(d, SubTree(d, a)) = Prefix(d, a)
<1> DEFINE m == down_links[d]
           q == a \div m
           x == m * q
<1>1. m \in Nat \ {0}
  BY DownLinks
<1> HIDE DEF m
<1>2. q \in Nat /\ a = m * q + (a % m) /\ a % m \in 0 .. m - 1
  BY <1>1, Division
<1> HIDE DEF q
<1>3. x \in Nat /\ x \div m = q
  BY <1>1, <1>2, DivisionSimple
<1>4. a - (a % m) = x
  BY <1>1, <1>2, <1>3
<1> QED BY <1>2, <1>3, <1>4 DEF Prefix, SubTree, m, q

(* Addresses with a prefix in common are in the same sub-tree.             *)
LEMMA SameSubTree ==
  ASSUME NEW a \in Nat, NEW b \in Nat, NEW d \in 0 .. tree_depth
  PROVE  SubTree(d, a) = SubTree(d, b) <=> Prefix(d, a) = Prefix(d, b)
<1>1. Prefix(d, a) = Prefix(d, SubTree(d, a)) /\ Prefix(d, b) = Prefix(d, SubTree(d, b))
  BY SubTreePrefix
<1>2. SubTree(d, a) = down_links[d] * Prefix(d, a) /\ SubTree(d, b) = down_links[d] * Prefix(d, b)
  BY SubTreePrefix
<1>3. SubTree(d, a) = SubTree(d, b) => Prefix(d, a) = Prefix(d, b)
  BY <1>1
<1>4. Prefix(d, a) = Prefix(d, b) => SubTree(d, a) = SubTree(d, b)
  BY <1>2
<1> QED BY <1>3, <1>4

(* A prefix has all shorter ones.                                          *)
LEMMA PrefixAbove ==
  ASSUME NEW a \in Nat, NEW b \in Nat, NEW d \in 0 .. tree_depth,
         Prefix(d, a) = Prefix(d, b), NEW e \in 0 .. d
  PROVE  Prefix(e, a) = Prefix(e, b)
<1> DEFINE T == {k \in Nat : k <= d => Prefix(d - k, a) = Prefix(d - k, b)}
<1>0. d \in Nat /\ tree_depth \in Nat
  BY FatTreeAssumption
<1>1. 0 \in T
  BY <1>0
<1>2. ASSUME NEW k \in T PROVE k + 1 \in T
  <2> SUFFICES ASSUME k + 1 <= d PROVE Prefix(d - (k + 1), a) = Prefix(d - (k + 1), b)
    BY <1>0
  <2> DEFINE l == d - (k + 1)
  <2>1. l \in Levels /\ l + 1 = d - k /\ k <= d
    BY <1>0 DEF Levels
  <2>2. Prefix(d - k, a) = Prefix(d - k, b)
    BY <2>1
  <2> HIDE DEF l, T
  <2>3. Prefix(l, a) = Prefix(l + 1, a) \div down_radix[l] /\ Prefix(l, b) = Prefix(l + 1, b) \div down_radix[l]
    BY <2>1, PrefixBelow
  <2>4. Prefix(l, a) = Prefix(l, b)
    BY <2>1, <2>2, <2>3
  <2> QED BY <2>4 DEF l
<1>3. \A k \in Nat : k \in T
  <2> HIDE DEF T
  <2>1. T \in SUBSET Nat
    BY DEF T
  <2> QED BY <1>1, <1>2, <2>1, NatSetInduction
<1>4. d - e \in Nat /\ d - e <= d /\ d - (d - e) = e
  BY <1>0
<1>5. d - e \in T
  BY <1>3, <1>4
<1> QED BY <1>4, <1>5

(* The digits down to a depth are those of the prefix.                     *)
LEMMA PrefixDigits ==
  ASSUME NEW a \in Nat, NEW b \in Nat, Prefix(0, a) = Prefix(0, b), NEW d \in 0 .. tree_depth
  PROVE  compareSubTree(d, a, b) <=> Prefix(d, a) = Prefix(d, b)
<1>0. d \in Nat /\ tree_depth \in Nat /\ 0 .. d - 1 \subseteq Levels
  BY FatTreeAssumption DEF Levels
<1>1. ASSUME Prefix(d, a) = Prefix(d, b), NEW i \in 0 .. d - 1
      PROVE  getLevelID(i, a) = getLevelID(i, b)
  <2>1. i \in Levels /\ i + 1 \in 0 .. d
    BY <1>0
  <2>2. Prefix(i + 1, a) = Prefix(i + 1, b)
    BY <1>1, <2>1, PrefixAbove
  <2> QED BY <2>2 DEF Prefix, getLevelID
<1>2. ASSUME \A i \in 0 .. d - 1 : getLevelID(i, a) = getLevelID(i, b)
      PROVE  Prefix(d, a) = Prefix(d, b)
  <2> DEFINE T == {k \in Nat : k <= d => Prefix(k, a) = Prefix(k, b)}
  <2>1. 0 \in T
    OBVIOUS
  <2>2. ASSUME NEW k \in T PROVE k + 1 \in T
    <3> SUFFICES ASSUME k + 1 <= d PROVE Prefix(k + 1, a) = Prefix(k + 1, b)
      OBVIOUS
    <3>1. k \in 0 .. d - 1 /\ k <= d
      BY <1>0
    <3>2. Prefix(k, a) = Prefix(k, b)
      BY <3>1
    <3> HIDE DEF T
    <3>3. k \in Levels
      BY <1>0, <3>1
    <3>4. /\ Prefix(k + 1, a) = down_radix[k] * Prefix(k, a) + getLevelID(k, a)
          /\ Prefix(k + 1, b) = down_radix[k] * Prefix(k, b) + getLevelID(k, b)
      BY <3>3, PrefixBelow
    <3>5. getLevelID(k, a) = getLevelID(k, b)
      BY <1>2, <3>1
    <3> QED BY <3>2, <3>4, <3>5
  <2>3. \A k \in Nat : k \in T
    <3> HIDE DEF T
    <3>1. T \in SUBSET Nat
      BY DEF T
    <3> QED BY <2>1, <2>2, <3>1, NatSetInduction
  <2>4. d \in T
    BY <1>0, <2>3
  <2> QED BY <1>0, <2>4
<1> QED BY <1>1, <1>2 DEF compareSubTree

(* Servers have an empty prefix in common.                                 *)
LEMMA ServerPrefix == ASSUME NEW a \in Servers PROVE a \in Nat /\ Prefix(0, a) = 0
<1> DEFINE m == down_links[0]
<1>1. m \in Nat \ {0}
  BY DownLinks, FatTreeAssumption
<1>2. a \in 0 .. m - 1
  BY DEF Servers
<1> HIDE DEF m
<1>3. a \div m = 0
  BY <1>1, <1>2, DivisionSimple
<1> QED BY <1>1, <1>2, <1>3 DEF Prefix, m

(* compareSubTree() tells whether a server is in the sub-tree of another.  *)
LEMMA Compared ==
  ASSUME NEW a \in Servers, NEW b \in Servers, NEW d \in 0 .. tree_depth
  PROVE  compareSubTree(d, SubTree(d, a), b) <=> SubTree(d, a) = SubTree(d, b)
<1> DEFINE x == SubTree(d, a)
<1>1. a \in Nat /\ b \in Nat /\ Prefix(0, a) = 0 /\ Prefix(0, b) = 0 /\ d \in Nat /\ 0 \in 0 .. d
  BY ServerPrefix, FatTreeAssumption
<1>2. x \in Nat /\ Prefix(d, x) = Prefix(d, a)
  BY <1>1, SubTreePrefix
<1>3. SubTree(d, a) = SubTree(d, b) <=> Prefix(d, a) = Prefix(d, b)
  BY <1>1, SameSubTree
<1> HIDE DEF x
<1>4. Prefix(0, x) = Prefix(0, a)
  BY <1>1, <1>2, PrefixAbove
<1>5. compareSubTree(d, x, b) <=> Prefix(d, x) = Prefix(d, b)
  BY <1>1, <1>2, <1>4, PrefixDigits
<1>6. compareSubTree(d, x, b) <=> SubTree(d, a) = SubTree(d, b)
  BY <1>2, <1>3, <1>5
<1> QED BY <1>6 DEF x

(* The sub-tree above a node has the addresses below it.                   *)
LEMMA SubTreeAbove ==
  ASSUME NEW a \in Nat, NEW d \in 1 .. tree_depth
  PROVE  SubTree(d - 1, SubTree(d, a)) = SubTree(d - 1, a)
<1> DEFINE x == SubTree(d, a)
<1>1. d \in 0 .. tree_depth /\ d - 1 \in 0 .. tree_depth /\ d - 1 \in 0 .. d
  BY FatTreeAssumption
<1>2. x \in Nat /\ Prefix(d, x) = Prefix(d, a)
  BY <1>1, SubTreePrefix
<1> HIDE DEF x
<1>3. Prefix(d - 1, x) = Prefix(d - 1, a)
  BY <1>1, <1>2, PrefixAbove
<1>4. SubTree(d - 1, x) = SubTree(d - 1, a)
  BY <1>1, <1>2, <1>3, SameSubTree
<1> QED BY <1>4 DEF x

(* An address with one more digit is that of the sub-tree below.           *)
LEMMA SubTreeBelow ==
  ASSUME NEW a \in Nat, NEW d \in Levels
  PROVE  setLevelID(d, getLevelID(d, a), SubTree(d, a)) = SubTree(d + 1, a)
<1> DEFINE r == down_radix[d]
           m == down_links[d + 1]
           p == Prefix(d, a)
           i == getLevelID(d, a)
<1>1. d \in 0 .. tree_depth /\ d + 1 \in 0 .. tree_depth
  BY FatTreeAssumption DEF Levels
<1>2. r \in Nat \ {0} /\ m \in Nat \ {0} /\ down_links[d] = m * r
  BY <1>1, DownLinks
<1>3. /\ p \in Nat /\ i \in 0 .. r - 1
      /\ Prefix(d + 1, a) = r * p + i
  BY PrefixBelow
<1>4. SubTree(d, a) = down_links[d] * p /\ SubTree(d + 1, a) = m * Prefix(d + 1, a)
  BY <1>1, SubTreePrefix
<1>5. setLevelID(d, i, SubTree(d, a)) = SubTree(d, a) + (i - ((SubTree(d, a) \div m) % r)) * m
  BY DEF setLevelID, getLevelID
<1> DEFINE x == SubTree(d, a)
           y == SubTree(d + 1, a)
           s == setLevelID(d, i, x)
           k == r * p
<1> SUFFICES s = y
  OBVIOUS
<1>6. x = (m * r) * p /\ y = m * (r * p + i)
  BY <1>2, <1>3, <1>4
<1>7. s = x + (i - ((x \div m) % r)) * m
  BY <1>5
<1> HIDE DEF r, m, p, i, x, y, s
<1>8. k \in Nat /\ k % r = 0
  BY <1>2, <1>3, DivisionSimple
<1>9. x = m * k
  <2>1. (m * r) * p = m * (r * p)
    BY <1>2, <1>3, Z3
  <2> QED BY <1>6, <2>1
<1>10. y = m * (k + i)
  BY <1>6
<1> HIDE DEF k
<1>11. x \div m = k
  BY <1>2, <1>8, <1>9, DivisionSimple
<1>12. s = m * k + (i - 0) * m
  BY <1>7, <1>8, <1>9, <1>11
<1>13. m * k + (i - 0) * m = m * (k + i)
  BY <1>2, <1>3, <1>8, Z3
<1> QED BY <1>10, <1>12, <1>13

(* A path's digits lead from the switches of a level to those above, and   *)
(* back; the paths from a server begin at its only port.                   *)
LEMMA PathIndex ==
  ASSUME NEW path \in Paths, NEW l \in 1 .. tree_depth
  PROVE  /\ (path \div paths_reachable[l]) * up_radix[l] + getPathID(l, path)
              = path \div paths_reachable[l - 1]
         /\ (path \div paths_reachable[l - 1]) \div up_radix[l] = path \div paths_reachable[l]
         /\ path \div paths_reachable[tree_depth] = 0
<1> DEFINE m == paths_reachable[l - 1]
           n == paths_reachable[l]
           r == up_radix[l]
           w == paths_reachable[tree_depth]
           q == path \div m
<1>1. l - 1 \in 0 .. tree_depth /\ l \in 0 .. tree_depth /\ tree_depth \in 0 .. tree_depth
  BY FatTreeAssumption
<1>2. m \in Nat \ {0} /\ n = m * r /\ r \in Nat \ {0} /\ w \in Nat \ {0}
  BY <1>1, PathsReachable
<1>3. path \in 0 .. w - 1
  BY DEF Paths
<1>4. getPathID(l, path) = q % r
  BY DEF getPathID
<1> HIDE DEF m, n, r, w
<1>5. path \in Nat /\ path \div w = 0
  BY <1>2, <1>3, DivisionSimple
<1>6. q \in Nat
  BY <1>2, <1>5, Division
<1>7. path \div n = q \div r
  <2>1. ASSUME NEW a \in Nat PROVE a \div n = (a \div m) \div r
    BY <1>2, DivisionTwice
  <2> QED BY <1>5, <2>1
<1> HIDE DEF q
<1> DEFINE t == q \div r
<1>8. t \in Nat /\ q = r * t + (q % r) /\ q % r \in 0 .. r - 1
  BY <1>2, <1>6, Division
<1> HIDE DEF t
<1>9. r * t = t * r
  BY <1>2, <1>8, Z3
<1>10. t * r + (q % r) = q
  BY <1>8, <1>9
<1> QED BY <1>4, <1>5, <1>7, <1>10 DEF m, n, r, w, q, t

-----------------------------------------------------------------------------
(* The route of a path.                                                    *)

(* A packet with this path is where its route leads, also in which of the  *)
(* ports of a switch it is.                                                *)
OnItsRoute(port, path) ==
  LET n == port.node
  IN  /\ path \in Paths
      /\ n.index = path \div paths_reachable[n.depth]
      /\ port.dir = "up" => /\ n.tree = SubTree(n.depth, flow.src)
                            /\ port.number = getPathID(n.depth, path)
                            /\ n.depth < tree_depth => n.tree # SubTree(n.depth, flow.dest)
      /\ port.dir = "down" => /\ n.tree = SubTree(n.depth, flow.dest)
                              /\ port.number = getLevelID(n.depth, flow.dest)

(* Every packet is on its route, and came to its destination.              *)
RouteInv ==
  /\ flow \in Flows
  /\ \A s \in Slots(queue) : flow.dest \in Servers /\ OnItsRoute(PortOf(s), At(queue, s).path)
  /\ \A i \in DOMAIN delivered : delivered[i].at = flow.dest

(* What a port is.                                                         *)
LEMMA PortShape ==
  ASSUME NEW port \in Ports
  PROVE  /\ port.node.depth \in 0 .. tree_depth
         /\ \/ port.dir = "up" /\ port.node.depth \in 1 .. tree_depth
            \/ port.dir = "down" /\ port.node.depth \in Levels
<1>1. PICK n \in Nodes : \/ port \in [node : {n}, dir : {"down"}, number : DownPorts(n)]
                         \/ port \in [node : {n}, dir : {"up"}, number : UpPorts(n)]
  BY DEF Ports
<1>2. port.node = n
  BY <1>1
<1>3. tree_depth \in Nat /\ tree_depth >= 2
  BY FatTreeAssumption
<1>4. n.depth \in 0 .. tree_depth
  <2>1. CASE n \in Switches
    <3>1. PICK d \in Levels : n \in [depth : {d}, tree : {SubTree(d, a) : a \in Servers},
                                     index : 0 .. up_links[d + 1] - 1]
      BY <2>1 DEF Switches
    <3> QED BY <1>3, <3>1 DEF Levels
  <2>2. CASE n \notin Switches
    <3>1. PICK a \in Servers : n = Server(a)
      BY <2>2 DEF Nodes
    <3> QED BY <1>3, <3>1 DEF Server
  <2> QED BY <2>1, <2>2
<1>5. CASE port \in [node : {n}, dir : {"down"}, number : DownPorts(n)]
  <2>1. port.dir = "down" /\ DownPorts(n) # {}
    BY <1>5
  <2>2. n.depth # tree_depth
    BY <2>1 DEF DownPorts
  <2> QED BY <1>2, <1>3, <1>4, <2>1, <2>2 DEF Levels
<1>6. CASE port \in [node : {n}, dir : {"up"}, number : UpPorts(n)]
  <2>1. port.dir = "up" /\ port.number \in UpPorts(n)
    BY <1>6
  <2>2. n.depth # 0
    <3>1. SUFFICES ASSUME n.depth = 0 PROVE FALSE
      OBVIOUS
    <3>2. up_radix[0] = 0
      BY <1>3 DEF up_radix
    <3> QED BY <2>1, <3>1, <3>2 DEF UpPorts
  <2> QED BY <1>2, <1>3, <1>4, <2>1, <2>2
<1> QED BY <1>1, <1>5, <1>6

(* Where a packet on its route arrives.                                    *)
Arrives(node, path) ==
  /\ node.depth \in 0 .. tree_depth
  /\ node.index = path \div paths_reachable[node.depth]
  /\ \/ node.tree = SubTree(node.depth, flow.src) /\ node.depth < tree_depth
     \/ node.tree = SubTree(node.depth, flow.dest)

(* The port at the other end is one of a node on the route.                *)
LEMMA RouteArrives ==
  ASSUME NEW port \in Ports, NEW path, OnItsRoute(port, path),
         flow.src \in Servers, flow.dest \in Servers
  PROVE  Arrives(Peer(port).node, path)
<1> DEFINE n == port.node
           d == n.depth
<1>0. path \in Paths /\ n.index = path \div paths_reachable[d]
  BY DEF OnItsRoute
<1>1. CASE port.dir = "up" /\ d \in 1 .. tree_depth
  <2> DEFINE src == flow.src
             link == n.index * up_radix[d] + port.number
  <2>1. n.tree = SubTree(d, src) /\ port.number = getPathID(d, path) /\ src \in Nat
    BY <1>1, ServerPrefix DEF OnItsRoute
  <2>2. Peer(port).node = [depth |-> d - 1, tree |-> SubTree(d - 1, n.tree), index |-> link]
    BY <1>1 DEF Peer
  <2>3. SubTree(d - 1, SubTree(d, src)) = SubTree(d - 1, src)
    BY <1>1, <2>1, SubTreeAbove
  <2>4. (path \div paths_reachable[d]) * up_radix[d] + getPathID(d, path) = path \div paths_reachable[d - 1]
    BY <1>0, <1>1, PathIndex
  <2>5. link = path \div paths_reachable[d - 1]
    BY <1>0, <2>1, <2>4
  <2>6. d - 1 \in 0 .. tree_depth /\ d - 1 < tree_depth
    BY <1>1, FatTreeAssumption
  <2> HIDE DEF link, d, n
  <2>7. /\ Peer(port).node.depth = d - 1
        /\ Peer(port).node.index = link
        /\ Peer(port).node.tree = SubTree(d - 1, src)
    BY <2>1, <2>2, <2>3
  <2> QED BY <2>5, <2>6, <2>7 DEF Arrives
<1>2. CASE port.dir = "down" /\ d \in Levels
  <2> DEFINE dest == flow.dest
             index == n.index \div up_radix[d + 1]
  <2>1. n.tree = SubTree(d, dest) /\ port.number = getLevelID(d, dest) /\ dest \in Nat
    BY <1>2, ServerPrefix DEF OnItsRoute
  <2>2. Peer(port).node = [depth |-> d + 1, tree |-> setLevelID(d, port.number, n.tree), index |-> index]
    BY <1>2 DEF Peer
  <2>3. setLevelID(d, getLevelID(d, dest), SubTree(d, dest)) = SubTree(d + 1, dest)
    BY <1>2, <2>1, SubTreeBelow
  <2>6. d + 1 \in 1 .. tree_depth /\ d + 1 \in 0 .. tree_depth /\ (d + 1) - 1 = d
    BY <1>2, FatTreeAssumption DEF Levels
  <2>4. (path \div paths_reachable[(d + 1) - 1]) \div up_radix[d + 1] = path \div paths_reachable[d + 1]
    BY <1>0, <2>6, PathIndex
  <2>5. index = path \div paths_reachable[d + 1]
    BY <1>0, <2>4, <2>6
  <2> HIDE DEF index, d, n
  <2>7. /\ Peer(port).node.depth = d + 1
        /\ Peer(port).node.index = index
        /\ Peer(port).node.tree = SubTree(d + 1, dest)
    BY <2>1, <2>2, <2>3
  <2> QED BY <2>5, <2>6, <2>7 DEF Arrives
<1> QED BY <1>1, <1>2, PortShape

(* lookup() continues the route.                                           *)
LEMMA LookupContinues ==
  ASSUME NEW node, NEW path \in Paths, Arrives(node, path), node.depth # tree_depth,
         flow.src \in Servers, flow.dest \in Servers
  PROVE  OnItsRoute(lookup(node, flow.dest, path), path)
<1> DEFINE d == node.depth
           src == flow.src
           dest == flow.dest
           inside == compareSubTree(d, node.tree, dest)
<1>1. d \in 0 .. tree_depth /\ d < tree_depth /\ node.index = path \div paths_reachable[d]
  BY FatTreeAssumption DEF Arrives
<1>2. inside <=> node.tree = SubTree(d, dest)
  <2>1. compareSubTree(d, SubTree(d, src), dest) <=> SubTree(d, src) = SubTree(d, dest)
    BY <1>1, Compared
  <2>2. compareSubTree(d, SubTree(d, dest), dest) <=> SubTree(d, dest) = SubTree(d, dest)
    BY <1>1, Compared
  <2> QED BY <2>1, <2>2 DEF Arrives
<1>3. node.tree = SubTree(d, src) \/ node.tree = SubTree(d, dest)
  BY DEF Arrives
<1>4. CASE inside
  <2>1. lookup(node, dest, path) = DownPort(node, getLevelID(d, dest))
    BY <1>4 DEF lookup
  <2> DEFINE port == DownPort(node, getLevelID(d, dest))
  <2>2. port.node = node /\ port.dir = "down" /\ port.number = getLevelID(d, dest)
    BY DEF DownPort
  <2> HIDE DEF port
  <2>3. OnItsRoute(port, path)
    BY <1>1, <1>2, <1>4, <2>2 DEF OnItsRoute
  <2> QED BY <2>1, <2>3 DEF port
<1>5. CASE ~ inside
  <2>1. lookup(node, dest, path) = UpPort(node, getPathID(d, path))
    BY <1>5 DEF lookup
  <2> DEFINE port == UpPort(node, getPathID(d, path))
  <2>2. port.node = node /\ port.dir = "up" /\ port.number = getPathID(d, path)
    BY DEF UpPort
  <2> HIDE DEF port
  <2>3. OnItsRoute(port, path)
    BY <1>1, <1>2, <1>3, <1>5, <2>2 DEF OnItsRoute
  <2> QED BY <2>1, <2>3 DEF port
<1> QED BY <1>4, <1>5

(* A server is a node one level below the tree, and its port leads up.     *)
LEMMA ServerNode ==
  ASSUME NEW a \in Servers
  PROVE  /\ SubTree(tree_depth, a) = a
         /\ \A path \in Paths : flow.src = a => OnItsRoute(FirstPort, path)
<1>1. tree_depth \in 0 .. tree_depth /\ tree_depth \in 1 .. tree_depth
  BY FatTreeAssumption
<1>2. SubTree(tree_depth, a) = a
  <2>1. a \in Nat /\ 1 \in Nat \ {0}
    BY ServerPrefix
  <2>2. a % 1 \in 0 .. 1 - 1
    BY <2>1, Division
  <2>3. a - (a % 1) = a
    BY <2>1, <2>2
  <2> QED BY <2>3, DownLinks DEF SubTree
<1>3. ASSUME NEW path \in Paths, flow.src = a PROVE OnItsRoute(FirstPort, path)
  <2> DEFINE port == UpPort(Server(flow.src), 0)
             n == Server(flow.src)
  <2>1. /\ port.node = n /\ port.dir = "up" /\ port.number = 0
        /\ n.depth = tree_depth /\ n.tree = flow.src /\ n.index = 0
    BY DEF UpPort, Server
  <2>2. path \div paths_reachable[tree_depth] = 0
    BY <1>1, PathIndex
  <2>3. getPathID(tree_depth, path) = 0
    <3> DEFINE q == path \div paths_reachable[tree_depth - 1]
    <3>1. tree_depth - 1 \in 0 .. tree_depth
      BY <1>1, FatTreeAssumption
    <3>2. paths_reachable[tree_depth - 1] \in Nat \ {0} /\ path \in Nat
      BY <1>1, <3>1, PathsReachable DEF Paths
    <3>3. q \in Nat
      BY <3>2, Division
    <3> HIDE DEF q
    <3>4. q % 1 \in 0 .. 1 - 1
      BY <3>3, Division
    <3> QED BY <3>4, PathsReachable DEF getPathID, q
  <2> HIDE DEF port, n
  <2>4. OnItsRoute(port, path)
    BY <1>1, <1>2, <1>3, <2>1, <2>2, <2>3 DEF OnItsRoute
  <2> QED BY <2>4 DEF port, FirstPort
<1> QED BY <1>2, <1>3

(* No packet is on its way at first.                                       *)
LEMMA RouteInit == Init => RouteInv
<1> SUFFICES ASSUME Init PROVE RouteInv
  OBVIOUS
<1>1. flow \in Flows /\ queue = [p \in Ports |-> << >>] /\ delivered = << >>
  BY DEF Init
<1>2. Slots(queue) = {}
  BY <1>1 DEF Slots, PortOf, PlaceOf
<1> QED BY <1>1, <1>2 DEF RouteInv

(* Packets stay where they were, but one is appended on its route, or is   *)
(* delivered.                                                              *)
LEMMA RouteNext == RoutingTypes /\ RouteInv /\ [Next]_vars => RouteInv'
<1> SUFFICES ASSUME RoutingTypes, RouteInv, [Next]_vars PROVE RouteInv'
  OBVIOUS
<1>0. /\ flow \in Flows /\ queue \in [Ports -> Seq(FlowPkts)]
      /\ delivered \in Seq([id : Nat, at : Ends])
  BY DEF RoutingTypes, RouteInv
<1>1. flow' = flow
  BY DEF Next, vars, SendPacket, Forward, SendControl, HandleControl, Handled, ControlLogic
<1>2. flow.src \in Servers
  BY <1>0 DEF Flows
<1>3. ASSUME NEW s \in Slots(queue) PROVE flow.dest \in Servers /\ OnItsRoute(PortOf(s), At(queue, s).path)
  BY DEF RouteInv
<1>4. \A port, path : OnItsRoute(port, path)' <=> OnItsRoute(port, path)
  BY <1>1 DEF OnItsRoute
<1>5. ASSUME \A s \in Slots(queue') : flow.dest \in Servers /\ OnItsRoute(PortOf(s), At(queue', s).path),
             \A i \in DOMAIN delivered' : delivered'[i].at = flow.dest
      PROVE  RouteInv'
  <2>1. Slots(queue)' = Slots(queue') /\ \A s : At(queue, s)' = At(queue', s)
    BY DEF Slots, At
  <2> QED BY <1>0, <1>1, <1>4, <1>5, <2>1 DEF RouteInv
<1>6. CASE UNCHANGED <<queue, delivered>>
  <2>1. Slots(queue') = Slots(queue) /\ \A s : At(queue', s) = At(queue, s)
    BY <1>6
  <2> QED BY <1>3, <1>5, <1>6, <2>1 DEF RouteInv
<1>7. CASE SendPacket
  <2>1. PICK path \in ChosenPaths(flow.dest) :
          /\ queue' = [queue EXCEPT ![UpPort(Server(flow.src), 0)] =
                         Append(@, [id |-> numSent, path |-> path])]
          /\ delivered' = delivered /\ flow.sends # "control" /\ numSent \in Nat
    BY <1>7 DEF SendPacket, RoutingTypes
  <2> DEFINE pkt == [id |-> numSent, path |-> path]
  <2>2. path \in Paths
    BY DEF ChosenPaths, RoutingTypes
  <2>3. pkt \in FlowPkts /\ pkt.path = path
    BY <2>1, <2>2 DEF FlowPkts
  <2>4. queue' = Appended(queue, FirstPort, pkt)
    BY <2>1 DEF Appended, FirstPort
  <2> HIDE DEF pkt
  <2>5. AddedLast(queue, FirstPort, pkt, queue')
    BY <1>0, <2>3, <2>4, AppendSlots
  <2>6. flow.dest \in Servers
    BY <1>0, <2>1 DEF Flows
  <2>7. OnItsRoute(FirstPort, path)
    BY <1>2, <2>2, ServerNode
  <2>8. ASSUME NEW s \in Slots(queue') PROVE OnItsRoute(PortOf(s), At(queue', s).path)
    <3>1. CASE s \in Slots(queue) /\ At(queue', s) = At(queue, s)
      BY <1>3, <3>1
    <3>2. CASE PortOf(s) = FirstPort /\ At(queue', s) = pkt
      BY <2>3, <2>7, <3>2
    <3> QED BY <2>5, <3>1, <3>2 DEF AddedLast
  <2> QED BY <1>5, <2>1, <2>6, <2>8 DEF RouteInv
<1>8. ASSUME NEW port \in Ports, Forward(port) PROVE RouteInv'
  <2> DEFINE pkt == Head(queue[port])
             left == WithoutFirst(queue, port)
             node == Peer(port).node
  <2>1. /\ queue[port] # << >>
        /\ IF node.depth = tree_depth
           THEN queue' = left /\ delivered' = Append(delivered, [id |-> pkt.id, at |-> node.tree])
           ELSE queue' = Appended(left, lookup(node, flow.dest, pkt.path), pkt) /\ delivered' = delivered
    BY <1>8 DEF Forward, WithoutFirst, Appended
  <2>2. /\ left \in [Ports -> Seq(FlowPkts)] /\ FirstSlot(port) \in Slots(queue)
        /\ At(queue, FirstSlot(port)) = pkt /\ MovedUp(queue, port, left)
    BY <1>0, <2>1, TailSlots
  <2>3. pkt \in FlowPkts /\ PortOf(FirstSlot(port)) = port
    BY <1>0, <2>2, SlotFacts, FrontPlace
  <2> HIDE DEF pkt, left, node
  <2>4. flow.dest \in Servers /\ OnItsRoute(port, pkt.path) /\ pkt.path \in Paths
    BY <1>3, <2>2, <2>3 DEF FlowPkts
  <2>5. Arrives(node, pkt.path)
    BY <1>2, <2>4, RouteArrives DEF node
  <2>6. ASSUME NEW s \in Slots(left) PROVE OnItsRoute(PortOf(s), At(left, s).path)
    <3>1. PICK t \in Slots(queue) : At(left, s) = At(queue, t) /\ PortOf(s) = PortOf(t)
      BY <2>2 DEF MovedUp
    <3> QED BY <1>3, <3>1
  <2>7. CASE node.depth = tree_depth
    <3>1. node.tree = flow.dest
      <4>1. node.tree = SubTree(tree_depth, flow.dest)
        BY <2>5, <2>7, FatTreeAssumption DEF Arrives
      <4> QED BY <2>4, <4>1, ServerNode
    <3> DEFINE last == [id |-> pkt.id, at |-> node.tree]
    <3>2. last.at = flow.dest
      BY <3>1
    <3>3. queue' = left /\ delivered' = Append(delivered, last)
      BY <2>1, <2>7
    <3> HIDE DEF last
    <3>4. ASSUME NEW i \in DOMAIN delivered' PROVE delivered'[i].at = flow.dest
      <4>1. /\ Len(delivered) \in Nat /\ DOMAIN delivered = 1 .. Len(delivered)
            /\ i \in 1 .. Len(delivered) + 1
            /\ i \in 1 .. Len(delivered) => delivered'[i] = delivered[i]
            /\ i = Len(delivered) + 1 => delivered'[i] = last
        BY <1>0, <3>3
      <4>2. i \in 1 .. Len(delivered) \/ i = Len(delivered) + 1
        BY <4>1
      <4> QED BY <3>2, <4>1, <4>2 DEF RouteInv
    <3> QED BY <1>5, <2>4, <2>6, <3>3, <3>4
  <2>8. CASE node.depth # tree_depth
    <3> DEFINE next == lookup(node, flow.dest, pkt.path)
    <3>1. OnItsRoute(next, pkt.path)
      BY <1>2, <2>4, <2>5, <2>8, LookupContinues
    <3>2. queue' = Appended(left, next, pkt) /\ delivered' = delivered
      BY <2>1, <2>8
    <3> HIDE DEF next
    <3>3. AddedLast(left, next, pkt, queue')
      BY <2>2, <2>3, <3>2, AppendSlots
    <3>4. ASSUME NEW s \in Slots(queue') PROVE OnItsRoute(PortOf(s), At(queue', s).path)
      <4>1. CASE s \in Slots(left) /\ At(queue', s) = At(left, s)
        BY <2>6, <4>1
      <4>2. CASE PortOf(s) = next /\ At(queue', s) = pkt
        BY <3>1, <4>2
      <4> QED BY <3>3, <4>1, <4>2 DEF AddedLast
    <3> QED BY <1>5, <2>4, <3>2, <3>4 DEF RouteInv
  <2> QED BY <2>7, <2>8
<1>9. CASE SendControl
  BY <1>6, <1>9 DEF SendControl, ControlLogic, Handled
<1>10. ASSUME NEW port \in Ports, HandleControl(port) PROVE RouteInv'
  <2>1. UNCHANGED <<queue, delivered>>
    BY <1>10 DEF HandleControl, ControlLogic, Handled
  <2> QED BY <1>6, <2>1
<1>11. CASE UNCHANGED vars
  BY <1>6, <1>11 DEF vars
<1> QED BY <1>7, <1>8, <1>9, <1>10, <1>11 DEF Next

(* In any fat tree every packet is at each level in the one switch that    *)
(* belongs to its path and to its source's or destination's sub-tree, goes *)
(* up no further than it must, and comes down at its destination, so that  *)
(* packets on distinct paths cross distinct intermediate switches          *)
(* (ControlProcessor::lookup, SubTreeID).                                  *)
THEOREM PacketsStayOnRoute == Spec => []OnRoute
<1>1. RoutingTypes /\ RouteInv => OnRoute
  <2> SUFFICES ASSUME RoutingTypes, RouteInv PROVE OnRoute
    OBVIOUS
  <2>1. ASSUME NEW port \in Ports, NEW i \in DOMAIN queue[port]
        PROVE  OnItsRoute(port, queue[port][i].path)
    <3> DEFINE s == <<port, i>>
    <3>1. PortOf(s) = port /\ PlaceOf(s) = i
      BY DEF PortOf, PlaceOf
    <3>2. queue[port] \in Seq(FlowPkts)
      BY DEF RoutingTypes
    <3>3. i \in Nat
      BY <3>2
    <3>4. s \in Slots(queue)
      BY <3>1, <3>3 DEF Slots
    <3> HIDE DEF s
    <3> QED BY <3>1, <3>4 DEF RouteInv, At
  <2>2. ASSUME NEW port \in Ports, NEW i \in DOMAIN queue[port]
        PROVE  LET n == port.node
               IN  /\ n.index = queue[port][i].path \div paths_reachable[n.depth]
                   /\ n.tree = SubTree(n.depth, IF port.dir = "up" THEN flow.src ELSE flow.dest)
                   /\ port.dir = "up" /\ n.depth < tree_depth
                        => SubTree(n.depth, flow.dest) # n.tree
    BY <2>1, PortShape DEF OnItsRoute
  <2> QED BY <2>2 DEF OnRoute, RouteInv
<1>2. RoutingInv => RoutingTypes
  BY DEF RoutingInv
<1>3. RoutingInv /\ RouteInv /\ [Next]_vars => (RoutingInv /\ RouteInv)'
  BY <1>2, RoutingNext, RouteNext
<1>4. Init => RoutingInv /\ RouteInv
  BY RoutingInit, RouteInit
<1>5. RoutingInv /\ RouteInv => OnRoute
  BY <1>1, <1>2
<1> QED BY <1>3, <1>4, <1>5, PTL DEF Spec

-----------------------------------------------------------------------------
(* Switches and their neighbours.                                          *)

(* A switch is what its three fields say.                                  *)
SwitchAt(d, a, i) == [depth |-> d, tree |-> SubTree(d, a), index |-> i]

(* What a switch is.                                                       *)
LEMMA SwitchShape ==
  /\ \A sw \in Switches : \E d \in Levels, a \in Servers :
       \E i \in 0 .. up_links[d + 1] - 1 : sw = SwitchAt(d, a, i)
  /\ \A d \in Levels, a \in Servers : \A i \in 0 .. up_links[d + 1] - 1 :
       SwitchAt(d, a, i) \in Switches
<1> DEFINE OfDepth(d) == [depth : {d}, tree : {SubTree(d, a) : a \in Servers},
                          index : 0 .. up_links[d + 1] - 1]
<1>1. Switches = UNION {OfDepth(d) : d \in Levels}
  BY DEF Switches
<1>2. ASSUME NEW sw \in Switches
      PROVE  \E d \in Levels, a \in Servers :
               \E i \in 0 .. up_links[d + 1] - 1 : sw = SwitchAt(d, a, i)
  <2>1. PICK d \in Levels : sw \in OfDepth(d)
    BY <1>1
  <2>2. PICK a \in Servers : sw.tree = SubTree(d, a)
    BY <2>1
  <2>3. sw.index \in 0 .. up_links[d + 1] - 1
    BY <2>1
  <2>4. sw = SwitchAt(d, a, sw.index)
    BY <2>1, <2>2 DEF SwitchAt
  <2> QED BY <2>3, <2>4
<1>3. ASSUME NEW d \in Levels, NEW a \in Servers, NEW i \in 0 .. up_links[d + 1] - 1
      PROVE  SwitchAt(d, a, i) \in Switches
  <2>1. SwitchAt(d, a, i) \in OfDepth(d)
    BY DEF SwitchAt
  <2> QED BY <1>1, <2>1
<1> QED BY <1>2, <1>3

(* A node that is not a server is a switch.                                *)
LEMMA NodeShape ==
  ASSUME NEW n \in Nodes
  PROVE  /\ n.depth \in 0 .. tree_depth
         /\ n.depth = tree_depth => n = Server(n.tree)
         /\ n.depth # tree_depth => n \in Switches
<1>0. tree_depth \in Nat /\ tree_depth >= 2
  BY FatTreeAssumption
<1>1. CASE n \in Switches
  <2>1. PICK d \in Levels, a \in Servers : \E i \in 0 .. up_links[d + 1] - 1 : n = SwitchAt(d, a, i)
    BY <1>1, SwitchShape
  <2>2. n.depth = d
    BY <2>1 DEF SwitchAt
  <2> QED BY <1>0, <1>1, <2>2 DEF Levels
<1>2. CASE \E a \in Servers : n = Server(a)
  BY <1>0, <1>2 DEF Server
<1> QED BY <1>1, <1>2 DEF Nodes

(* A node of a port is one of the tree.                                    *)
LEMMA PortsNode ==
  ASSUME NEW port \in Ports
  PROVE  port.node \in Nodes
BY DEF Ports

(* Ports by their nodes.                                                   *)
LEMMA PortsOfNode ==
  ASSUME NEW n \in Nodes
  PROVE  /\ \A k \in UpPorts(n) : UpPort(n, k) \in Ports
         /\ \A k \in DownPorts(n) : DownPort(n, k) \in Ports
<1> DEFINE Of(m) == [node : {m}, dir : {"down"}, number : DownPorts(m)]
                      \cup [node : {m}, dir : {"up"}, number : UpPorts(m)]
<1>1. Ports = UNION {Of(m) : m \in Nodes}
  BY DEF Ports
<1>2. \A k \in UpPorts(n) : UpPort(n, k) \in Of(n)
  BY DEF UpPort
<1>3. \A k \in DownPorts(n) : DownPort(n, k) \in Of(n)
  BY DEF DownPort
<1> QED BY <1>1, <1>2, <1>3

(* The digit that tells a sub-tree from the others of the one above.       *)
LEMMA DigitOfSubTree ==
  ASSUME NEW a \in Nat, NEW d \in Levels
  PROVE  getLevelID(d, SubTree(d + 1, a)) = getLevelID(d, a)
<1>1. d + 1 \in 0 .. tree_depth
  BY FatTreeAssumption DEF Levels
<1>2. Prefix(d + 1, SubTree(d + 1, a)) = Prefix(d + 1, a)
  BY <1>1, SubTreePrefix
<1> QED BY <1>2 DEF getLevelID, Prefix

(* Two sub-trees of one above are the same if this digit is.               *)
LEMMA SameDigit ==
  ASSUME NEW a \in Nat, NEW b \in Nat, NEW d \in Levels,
         SubTree(d, a) = SubTree(d, b), getLevelID(d, a) = getLevelID(d, b)
  PROVE  SubTree(d + 1, a) = SubTree(d + 1, b)
<1>1. d \in 0 .. tree_depth /\ d + 1 \in 0 .. tree_depth
  BY FatTreeAssumption DEF Levels
<1>2. Prefix(d, a) = Prefix(d, b)
  BY <1>1, SameSubTree
<1>3. /\ Prefix(d + 1, a) = down_radix[d] * Prefix(d, a) + getLevelID(d, a)
      /\ Prefix(d + 1, b) = down_radix[d] * Prefix(d, b) + getLevelID(d, b)
  BY PrefixBelow
<1>4. Prefix(d + 1, a) = Prefix(d + 1, b)
  BY <1>2, <1>3
<1> QED BY <1>1, <1>4, SameSubTree

(* Every down-port of a sub-tree leads to a sub-tree of servers below, the *)
(* one with this digit.                                                    *)
LEMMA SubTreeOfDigit ==
  ASSUME NEW a \in Servers, NEW d \in Levels, NEW k \in 0 .. down_radix[d] - 1
  PROVE  \E b \in Servers : /\ setLevelID(d, k, SubTree(d, a)) = SubTree(d + 1, b)
                            /\ SubTree(d, b) = SubTree(d, a)
                            /\ getLevelID(d, b) = k
<1> DEFINE r == down_radix[d]
           m == down_links[d + 1]
           p == Prefix(d, a)
           q == r * p + k
           b == m * q
<1>0. tree_depth \in Nat /\ d \in 0 .. tree_depth /\ d + 1 \in 0 .. tree_depth /\ 0 \in 0 .. d /\ 0 \in 0 .. tree_depth
  BY FatTreeAssumption DEF Levels
<1>1. r \in Nat \ {0} /\ m \in Nat \ {0} /\ down_links[d] = m * r
  BY <1>0, DownLinks
<1>2. a \in Nat /\ Prefix(0, a) = 0 /\ p \in Nat
  BY <1>0, ServerPrefix, SubTreePrefix
<1>3. k \in 0 .. r - 1
  OBVIOUS
<1>4. q \in Nat /\ q \div r = p /\ q % r = k
  <2> HIDE DEF r, p
  <2>1. r * p \in Nat
    BY <1>1, <1>2, DivisionSimple
  <2>2. q \in Nat /\ q = r * p + k
    BY <1>3, <2>1
  <2> HIDE DEF q
  <2> QED BY <1>1, <1>2, <1>3, <2>2, DivisionUnique
<1>5. b \in Nat /\ b \div m = q
  <2> HIDE DEF q, m
  <2> QED BY <1>1, <1>4, DivisionSimple
<1>6. Prefix(d + 1, b) = q /\ getLevelID(d, b) = k
  <2> HIDE DEF b, q
  <2> QED BY <1>4, <1>5 DEF Prefix, getLevelID, m, r
<1>7. Prefix(d, b) = p
  <2>1. b \in Nat
    BY <1>5
  <2> HIDE DEF b, q
  <2>2. Prefix(d, b) = Prefix(d + 1, b) \div down_radix[d]
    BY <2>1, PrefixBelow
  <2> QED BY <1>4, <1>6, <2>2 DEF r
<1>8. SubTree(d, b) = SubTree(d, a)
  <2>1. b \in Nat
    BY <1>5
  <2> HIDE DEF b
  <2>2. Prefix(d, b) = Prefix(d, a)
    BY <1>7
  <2> QED BY <1>0, <1>2, <2>1, <2>2, SameSubTree
<1>9. b \in Servers
  <2>1. b \in Nat
    BY <1>5
  <2> HIDE DEF b
  <2>2. Prefix(d, b) = Prefix(d, a)
    BY <1>7
  <2>3. Prefix(0, b) = 0
    BY <1>0, <1>2, <2>1, <2>2, PrefixAbove
  <2> DEFINE w == down_links[0]
  <2>4. w \in Nat \ {0}
    BY <1>0, DownLinks
  <2>5. b \div w = 0
    BY <2>3 DEF Prefix
  <2> HIDE DEF w
  <2>6. b % w \in 0 .. w - 1 /\ b = w * (b \div w) + (b % w)
    BY <2>1, <2>4, Division
  <2>7. w * (b \div w) = 0
    BY <2>4, <2>5
  <2>8. b \in 0 .. w - 1
    BY <2>4, <2>6, <2>7
  <2> QED BY <2>8 DEF Servers, w
<1>10. setLevelID(d, k, SubTree(d, a)) = SubTree(d + 1, b)
  <2>1. b \in Nat
    BY <1>5
  <2> HIDE DEF b
  <2>2. setLevelID(d, getLevelID(d, b), SubTree(d, b)) = SubTree(d + 1, b)
    BY <2>1, SubTreeBelow
  <2> QED BY <1>6, <1>8, <2>2
<1> HIDE DEF b
<1> QED BY <1>6, <1>8, <1>9, <1>10

-----------------------------------------------------------------------------
(* The way of a flood.                                                     *)

(* A switch above the source, and the port at which a flood comes to a     *)
(* switch: from below if it is above the source, otherwise from the first  *)
(* switch above; and the node that it comes from.                          *)
AboveSource(n) == n.tree = SubTree(n.depth, flow.src)

Entry(n) == IF AboveSource(n) THEN DownPort(n, getLevelID(n.depth, flow.src))
            ELSE UpPort(n, 0)

Sender(n) ==
  IF ~ AboveSource(n)
  THEN SwitchAt(n.depth - 1, n.tree, n.index * up_radix[n.depth])
  ELSE IF n.depth = tree_depth - 1 THEN Server(flow.src)
       ELSE SwitchAt(n.depth + 1, flow.src, n.index \div up_radix[n.depth + 1])

(* It comes only from switches that flood down, or from below.             *)
IsTold(n) == AboveSource(n) \/ FloodsDown(Sender(n))

(* A switch above the source hears of a flood from below.                  *)
LEMMA EntryAbove ==
  ASSUME NEW n
  PROVE  /\ Entry(n).node = n
         /\ Entry(n).dir = "down" <=> AboveSource(n)
         /\ AboveSource(n) => Entry(n).number = getLevelID(n.depth, flow.src)
BY DEF Entry, UpPort, DownPort

(* Top switches of the tree are above every source.                        *)
LEMMA TopAbove ==
  ASSUME flow.src \in Servers, NEW a \in Servers
  PROVE  SubTree(0, a) = SubTree(0, flow.src)
<1>1. a \in Nat /\ flow.src \in Nat /\ Prefix(0, a) = Prefix(0, flow.src) /\ 0 \in 0 .. tree_depth
  BY ServerPrefix, FatTreeAssumption
<1> QED BY <1>1, SameSubTree

(* A flood that goes up from a switch above the source comes to another    *)
(* one at its entry, from its sender.                                      *)
LEMMA FloodUp ==
  ASSUME flow.src \in Servers, NEW sw \in Switches, AboveSource(sw), NEW k \in UpPorts(sw)
  PROVE  LET e == Peer(UpPort(sw, k))
         IN  /\ e = Entry(e.node) /\ Sender(e.node) = sw /\ AboveSource(e.node)
             /\ e.node.depth = sw.depth - 1 /\ e.node.depth \in Levels
<1> DEFINE src == flow.src
           port == UpPort(sw, k)
<1>0. tree_depth \in Nat /\ tree_depth >= 2 /\ src \in Nat
  BY FatTreeAssumption, ServerPrefix
<1>1. PICK d \in Levels, a \in Servers : \E i \in 0 .. up_links[d + 1] - 1 : sw = SwitchAt(d, a, i)
  BY SwitchShape
<1>2. PICK i \in 0 .. up_links[d + 1] - 1 : sw = SwitchAt(d, a, i)
  BY <1>1
<1>3. sw.depth = d /\ sw.index = i /\ sw.tree = SubTree(d, src) /\ d \in 0 .. tree_depth - 1
  BY <1>2 DEF SwitchAt, AboveSource, Levels
<1>4. sw = SwitchAt(d, src, i)
  BY <1>2, <1>3 DEF SwitchAt
<1>5. k \in 0 .. up_radix[d] - 1
  BY <1>3 DEF UpPorts
<1>6. d # 0
  <2>1. SUFFICES ASSUME d = 0 PROVE FALSE
    OBVIOUS
  <2>2. up_radix[0] = 0
    BY <1>0 DEF up_radix
  <2> QED BY <1>5, <2>1, <2>2
<1>7. d \in 1 .. tree_depth - 1 /\ d \in 1 .. tree_depth /\ d - 1 \in Levels /\ d - 1 # tree_depth - 1
      /\ (d - 1) + 1 = d /\ d - 1 \in 0 .. tree_depth
  BY <1>0, <1>3, <1>6 DEF Levels
<1> DEFINE r == up_radix[d]
           link == i * r + k
           m == SwitchAt(d - 1, src, link)
           e == [node |-> m, dir |-> "down", number |-> getLevelID(d - 1, src)]
<1>8. r \in Nat \ {0} /\ i \in Nat
  <2>1. up_links[d + 1] \in Nat \ {0}
    BY <1>0, <1>3, UpLinks
  <2> QED BY <1>7, <2>1, PathsReachable
<1>9. link \div r = i
  <2>1. k \in 0 .. r - 1
    BY <1>5
  <2> HIDE DEF r
  <2>2. r * i = i * r /\ r * i \in Nat
    BY <1>8, DivisionSimple, Z3
  <2>3. link \in Nat /\ link = r * i + k
    BY <1>8, <2>1, <2>2
  <2> HIDE DEF link
  <2> QED BY <1>8, <2>1, <2>3, DivisionUnique
<1> HIDE DEF link, r
<1>10. Peer(port) = e
  <2>1. port.node = sw /\ port.dir = "up" /\ port.number = k
    BY DEF UpPort
  <2> HIDE DEF port
  <2>2. SubTree(d - 1, SubTree(d, src)) = SubTree(d - 1, src)
    BY <1>0, <1>7, SubTreeAbove
  <2>3. getLevelID(d - 1, SubTree(d, src)) = getLevelID(d - 1, src)
    BY <1>0, <1>7, DigitOfSubTree
  <2>4. Peer(port) = [node |-> [depth |-> sw.depth - 1, tree |-> SubTree(sw.depth - 1, sw.tree),
                                index |-> sw.index * up_radix[sw.depth] + k],
                      dir |-> "down", number |-> getLevelID(sw.depth - 1, sw.tree)]
    BY <2>1 DEF Peer
  <2> QED BY <1>3, <2>2, <2>3, <2>4 DEF link, r, SwitchAt
<1>11. m.depth = d - 1 /\ m.tree = SubTree(d - 1, src) /\ m.index = link
  BY DEF SwitchAt
<1> HIDE DEF m
<1>12. AboveSource(m)
  BY <1>11 DEF AboveSource
<1>13. e = Entry(m)
  BY <1>11, <1>12 DEF Entry, DownPort
<1>14. Sender(m) = sw
  BY <1>4, <1>7, <1>9, <1>11, <1>12 DEF Sender, r
<1>15. e.node = m
  OBVIOUS
<1> QED BY <1>3, <1>7, <1>10, <1>11, <1>12, <1>13, <1>14, <1>15

(* A flood that goes down comes to a switch that is not above the source,  *)
(* at its entry, unless it would go back to where it came from.            *)
LEMMA FloodDown ==
  ASSUME flow.src \in Servers, NEW sw \in Switches, FloodsDown(sw), NEW k \in DownPorts(sw),
         DownPort(sw, k) # Entry(sw)
  PROVE  LET e == Peer(DownPort(sw, k))
         IN  /\ e = Entry(e.node) /\ Sender(e.node) = sw /\ ~ AboveSource(e.node)
             /\ e.node.depth = sw.depth + 1 /\ e.node.depth \in Levels
<1> DEFINE src == flow.src
           port == DownPort(sw, k)
<1>0. tree_depth \in Nat /\ tree_depth >= 2 /\ src \in Nat
  BY FatTreeAssumption, ServerPrefix
<1>1. PICK d \in Levels, a \in Servers : \E i \in 0 .. up_links[d + 1] - 1 : sw = SwitchAt(d, a, i)
  BY SwitchShape
<1>2. PICK i \in 0 .. up_links[d + 1] - 1 : sw = SwitchAt(d, a, i)
  BY <1>1
<1>3. sw.depth = d /\ sw.index = i /\ sw.tree = SubTree(d, a)
  BY <1>2 DEF SwitchAt
<1>4. d \in 0 .. tree_depth - 2 /\ d + 1 \in 1 .. tree_depth - 1 /\ d + 1 \in 1 .. tree_depth
      /\ d + 1 \in Levels /\ (d + 1) - 1 = d /\ d # tree_depth /\ d \in 0 .. tree_depth
  BY <1>0, <1>3 DEF FloodsDown, Levels
<1>5. k \in 0 .. down_radix[d] - 1
  BY <1>3, <1>4 DEF DownPorts
<1> DEFINE r == up_radix[d + 1]
<1>6. r \in Nat \ {0} /\ i \in Nat
  <2>1. up_links[d + 1] \in Nat \ {0}
    BY <1>0, <1>4, UpLinks
  <2> QED BY <1>4, <2>1, PathsReachable
<1>7. i % r = 0
  <2>1. CASE d = 0
    BY <1>3, <2>1 DEF FloodsDown
  <2>2. CASE d # 0
    <3>1. i = 0
      BY <1>3, <2>2 DEF FloodsDown
    <3> HIDE DEF r
    <3> QED BY <1>6, <3>1, DivisionSimple
  <2> QED BY <2>1, <2>2
<1>8. (i \div r) \in Nat /\ (i \div r) * r = i
  <2> HIDE DEF r
  <2> DEFINE q == i \div r
  <2>1. q \in Nat /\ i = r * q + (i % r)
    BY <1>6, Division
  <2> HIDE DEF q
  <2>2. r * q = q * r
    BY <1>6, <2>1, Z3
  <2>3. r * q \in Int
    BY <1>6, <2>1
  <2>4. q * r = i
    BY <1>7, <2>1, <2>2, <2>3
  <2> QED BY <2>1, <2>4 DEF q
<1>9. PICK b \in Servers : /\ setLevelID(d, k, SubTree(d, a)) = SubTree(d + 1, b)
                           /\ SubTree(d, b) = SubTree(d, a)
                           /\ getLevelID(d, b) = k
  BY <1>5, SubTreeOfDigit
<1> DEFINE x == SubTree(d + 1, b)
           m == SwitchAt(d + 1, b, i \div r)
           e == [node |-> m, dir |-> "up", number |-> 0]
<1>10. Peer(port) = e
  <2>1. port.node = sw /\ port.dir = "down" /\ port.number = k
    BY DEF DownPort
  <2> HIDE DEF port
  <2>2. Peer(port) = [node |-> [depth |-> sw.depth + 1, tree |-> setLevelID(sw.depth, k, sw.tree),
                                index |-> sw.index \div up_radix[sw.depth + 1]],
                      dir |-> "up", number |-> sw.index % up_radix[sw.depth + 1]]
    BY <2>1 DEF Peer
  <2> QED BY <1>3, <1>7, <1>9, <2>2 DEF SwitchAt
<1>11. m.depth = d + 1 /\ m.tree = SubTree(d + 1, b) /\ m.index = i \div r
  BY DEF SwitchAt
<1>12. b \in Nat /\ SubTree(d, SubTree(d + 1, b)) = SubTree(d, b)
  <2>1. b \in Nat
    BY ServerPrefix
  <2>2. SubTree((d + 1) - 1, SubTree(d + 1, b)) = SubTree((d + 1) - 1, b)
    BY <1>4, <2>1, SubTreeAbove
  <2> QED BY <1>4, <2>1, <2>2
<1>13. ~ AboveSource(m)
  <2> SUFFICES ASSUME SubTree(d + 1, b) = SubTree(d + 1, src) PROVE FALSE
    BY <1>11 DEF AboveSource
  <2>1. SubTree(d, SubTree(d + 1, src)) = SubTree(d, src)
    <3>1. SubTree((d + 1) - 1, SubTree(d + 1, src)) = SubTree((d + 1) - 1, src)
      BY <1>0, <1>4, SubTreeAbove
    <3> QED BY <1>4, <3>1
  <2>2. AboveSource(sw)
    BY <1>3, <1>9, <1>12, <2>1 DEF AboveSource
  <2>3. getLevelID(d, b) = getLevelID(d, src)
    <3>1. getLevelID(d, SubTree(d + 1, b)) = getLevelID(d, b)
      BY <1>12, DigitOfSubTree
    <3>2. getLevelID(d, SubTree(d + 1, src)) = getLevelID(d, src)
      BY <1>0, DigitOfSubTree
    <3> QED BY <3>1, <3>2
  <2>4. Entry(sw) = DownPort(sw, k)
    BY <1>3, <1>9, <2>2, <2>3 DEF Entry
  <2> QED BY <2>4
<1> HIDE DEF m
<1>14. e = Entry(m)
  BY <1>13 DEF Entry, UpPort
<1>15. Sender(m) = sw
  <2>1. Sender(m) = SwitchAt(d, SubTree(d + 1, b), (i \div r) * r)
    BY <1>4, <1>11, <1>13 DEF Sender
  <2>2. SwitchAt(d, SubTree(d + 1, b), i) = SwitchAt(d, a, i)
    BY <1>9, <1>12 DEF SwitchAt
  <2> QED BY <1>2, <1>8, <2>1, <2>2
<1>16. e.node = m
  OBVIOUS
<1> QED BY <1>3, <1>4, <1>10, <1>11, <1>13, <1>14, <1>15, <1>16

(* The sender of a switch above the source is the source, or one below it  *)
(* that reaches it from an up-port.                                        *)
LEMMA SenderAbove ==
  ASSUME flow.src \in Servers, NEW n \in Switches, AboveSource(n)
  PROVE  \/ /\ n.depth = tree_depth - 1 /\ Sender(n) = Server(flow.src)
            /\ n = SwitchAt(tree_depth - 1, flow.src, 0)
         \/ /\ n.depth + 1 \in Levels /\ Sender(n) \in Switches /\ AboveSource(Sender(n))
            /\ Sender(n).depth = n.depth + 1
            /\ \E k \in UpPorts(Sender(n)) : Peer(UpPort(Sender(n), k)) = Entry(n)
<1> DEFINE src == flow.src
<1>0. tree_depth \in Nat /\ tree_depth >= 2 /\ src \in Nat
  BY FatTreeAssumption, ServerPrefix
<1>1. PICK d \in Levels, a \in Servers : \E i \in 0 .. up_links[d + 1] - 1 : n = SwitchAt(d, a, i)
  BY SwitchShape
<1>2. PICK i \in 0 .. up_links[d + 1] - 1 : n = SwitchAt(d, a, i)
  BY <1>1
<1>3. n.depth = d /\ n.index = i /\ n.tree = SubTree(d, src)
  BY <1>2 DEF SwitchAt, AboveSource
<1>4. n = SwitchAt(d, src, i)
  BY <1>2, <1>3 DEF SwitchAt
<1>5. CASE d = tree_depth - 1
  <2>1. up_links[d + 1] = 1
    BY <1>0, <1>5, UpLinks
  <2>2. i = 0
    BY <2>1
  <2>3. Sender(n) = Server(src)
    BY <1>3, <1>5 DEF Sender
  <2> QED BY <1>3, <1>4, <1>5, <2>2, <2>3
<1>6. CASE d # tree_depth - 1
  <2>1. d \in 0 .. tree_depth - 2 /\ d + 1 \in 1 .. tree_depth - 1 /\ d + 1 \in 1 .. tree_depth
        /\ d + 2 \in 1 .. tree_depth /\ (d + 1) + 1 = d + 2
        /\ d + 1 \in Levels /\ (d + 1) - 1 = d
    BY <1>0, <1>6 DEF Levels
  <2> DEFINE r == up_radix[d + 1]
             u == up_links[d + 2]
             q == i \div r
             k == i % r
             sw == SwitchAt(d + 1, src, q)
  <2>2. r \in Nat \ {0} /\ u \in Nat \ {0} /\ up_links[d + 1] = u * r
    BY <2>1, PathsReachable, UpLinks
  <2>3. i \in 0 .. u * r - 1
    BY <2>2
  <2>4. q \in 0 .. u - 1 /\ k \in 0 .. r - 1 /\ q * r + k = i
    <3> HIDE DEF r, u
    <3>1. u * r \in Nat /\ i \in Nat /\ i < u * r
      BY <2>2, <2>3, DivisionSimple
    <3>2. q \in Nat /\ k \in 0 .. r - 1 /\ i = r * q + k
      BY <2>2, <3>1, Division
    <3> HIDE DEF q, k
    <3>3. r * q = q * r
      BY <2>2, <3>2, Z3
    <3>4. q < u
      <4> SUFFICES ASSUME q >= u PROVE FALSE
        BY <2>2, <3>2
      <4>1. q - u \in Nat /\ r * (q - u) \in Nat /\ r * q = u * r + r * (q - u)
        BY <2>2, <3>2, Z3
      <4> QED BY <3>1, <3>2, <4>1
    <3>5. r * q \in Int
      BY <2>2, <3>2
    <3> QED BY <2>2, <3>2, <3>3, <3>4, <3>5
  <2> HIDE DEF q, k, u, r
  <2>5. sw \in Switches
    <3>1. q \in 0 .. up_links[(d + 1) + 1] - 1
      BY <2>1, <2>4 DEF u
    <3> QED BY <2>1, <3>1, SwitchShape
  <2>6. sw.depth = d + 1 /\ sw.tree = SubTree(d + 1, src) /\ sw.index = q
    BY DEF SwitchAt
  <2> HIDE DEF sw
  <2>7. Sender(n) = sw
    BY <1>3, <1>6 DEF Sender, AboveSource, q, r, sw
  <2>8. AboveSource(sw)
    BY <2>6 DEF AboveSource
  <2>9. k \in UpPorts(sw)
    BY <2>4, <2>6 DEF UpPorts, r
  <2>10. Peer(UpPort(sw, k)) = Entry(n)
    <3>1. UpPort(sw, k).node = sw /\ UpPort(sw, k).dir = "up" /\ UpPort(sw, k).number = k
      BY DEF UpPort
    <3>2. Peer(UpPort(sw, k)) =
            [node |-> [depth |-> sw.depth - 1, tree |-> SubTree(sw.depth - 1, sw.tree),
                       index |-> sw.index * up_radix[sw.depth] + k],
             dir |-> "down", number |-> getLevelID(sw.depth - 1, sw.tree)]
      BY <3>1 DEF Peer
    <3>3. SubTree(d, SubTree(d + 1, src)) = SubTree(d, src)
      <4>1. SubTree((d + 1) - 1, SubTree(d + 1, src)) = SubTree((d + 1) - 1, src)
        BY <1>0, <2>1, SubTreeAbove
      <4> QED BY <2>1, <4>1
    <3>4. getLevelID(d, SubTree(d + 1, src)) = getLevelID(d, src)
      BY <1>0, DigitOfSubTree
    <3>5. Peer(UpPort(sw, k)) = [node |-> SwitchAt(d, src, i), dir |-> "down", number |-> getLevelID(d, src)]
      BY <2>1, <2>4, <2>6, <3>2, <3>3, <3>4 DEF SwitchAt, r
    <3> QED BY <1>3, <1>4, <3>5 DEF Entry, AboveSource, DownPort
  <2> QED BY <1>3, <2>1, <2>5, <2>6, <2>7, <2>8, <2>9, <2>10
<1> QED BY <1>5, <1>6

(* The sender of any other switch is one above it, which reaches it from a *)
(* down-port that is not its own entry.                                    *)
LEMMA SenderOther ==
  ASSUME flow.src \in Servers, NEW n \in Switches, ~ AboveSource(n)
  PROVE  LET sw == Sender(n)
         IN  /\ n.depth \in 1 .. tree_depth - 1
             /\ sw \in Switches /\ sw.depth = n.depth - 1
             /\ sw.index = n.index * up_radix[n.depth]
             /\ \E k \in DownPorts(sw) : /\ Peer(DownPort(sw, k)) = Entry(n)
                                         /\ DownPort(sw, k) # Entry(sw)
<1> DEFINE src == flow.src
           sw == Sender(n)
<1>0. tree_depth \in Nat /\ tree_depth >= 2 /\ src \in Nat
  BY FatTreeAssumption, ServerPrefix
<1>1. PICK d \in Levels, a \in Servers : \E i \in 0 .. up_links[d + 1] - 1 : n = SwitchAt(d, a, i)
  BY SwitchShape
<1>2. PICK i \in 0 .. up_links[d + 1] - 1 : n = SwitchAt(d, a, i)
  BY <1>1
<1>3. n.depth = d /\ n.index = i /\ n.tree = SubTree(d, a) /\ SubTree(d, a) # SubTree(d, src)
  BY <1>2 DEF SwitchAt, AboveSource
<1>4. d # 0
  BY <1>3, TopAbove
<1>5. d \in 1 .. tree_depth - 1 /\ d - 1 \in Levels /\ (d - 1) + 1 = d /\ d \in 1 .. tree_depth
      /\ d + 1 \in 1 .. tree_depth /\ d - 1 # tree_depth /\ a \in Nat
  BY <1>0, <1>4, ServerPrefix DEF Levels
<1> DEFINE r == up_radix[d]
           u == up_links[d + 1]
           j == i * r
           k == getLevelID(d - 1, a)
<1>6. r \in Nat \ {0} /\ u \in Nat \ {0} /\ up_links[d] = u * r
  BY <1>5, PathsReachable, UpLinks
<1>7. i \in 0 .. u - 1
  OBVIOUS
<1>8. j \in 0 .. u * r - 1 /\ j \div r = i /\ j % r = 0
  <2> HIDE DEF r, u
  <2>1. i \in Nat /\ i * r = r * i
    BY <1>6, <1>7, Z3
  <2>2. r * i \in Nat /\ (r * i) \div r = i /\ (r * i) % r = 0
    BY <1>6, <2>1, DivisionSimple
  <2>3. j \in Nat /\ j \div r = i /\ j % r = 0
    BY <2>1, <2>2
  <2>4. (u - i) \in Nat \ {0} /\ (u - i) * r \in Nat \ {0} /\ u * r = j + (u - i) * r
    BY <1>6, <1>7, Z3
  <2> HIDE DEF j
  <2>5. u * r \in Nat /\ j < u * r
    BY <2>3, <2>4
  <2> QED BY <2>3, <2>5
<1> HIDE DEF r, u, j
<1>9. sw = SwitchAt(d - 1, a, j)
  <2>1. sw = SwitchAt(d - 1, SubTree(d, a), j)
    BY <1>3 DEF Sender, AboveSource, j, r
  <2>2. SubTree(d - 1, SubTree(d, a)) = SubTree(d - 1, a)
    BY <1>5, SubTreeAbove
  <2> QED BY <2>1, <2>2 DEF SwitchAt
<1>10. sw.depth = d - 1 /\ sw.tree = SubTree(d - 1, a) /\ sw.index = j
  BY <1>9 DEF SwitchAt
<1>11. sw \in Switches
  <2>1. j \in 0 .. up_links[(d - 1) + 1] - 1
    BY <1>5, <1>6, <1>8
  <2> QED BY <1>5, <1>9, <2>1, SwitchShape
<1> HIDE DEF sw
<1>12. k \in DownPorts(sw)
  <2>1. k \in 0 .. down_radix[d - 1] - 1
    BY <1>5, PrefixBelow
  <2> HIDE DEF k
  <2> QED BY <1>5, <1>10, <2>1 DEF DownPorts
<1>13. Peer(DownPort(sw, k)) = Entry(n)
  <2> DEFINE port == DownPort(sw, k)
  <2>1. port.node = sw /\ port.dir = "down" /\ port.number = k
    BY DEF DownPort
  <2> HIDE DEF port
  <2>2. Peer(port) = [node |-> [depth |-> sw.depth + 1, tree |-> setLevelID(sw.depth, k, sw.tree),
                                index |-> sw.index \div up_radix[sw.depth + 1]],
                      dir |-> "up", number |-> sw.index % up_radix[sw.depth + 1]]
    BY <2>1 DEF Peer
  <2>3. setLevelID(d - 1, k, SubTree(d - 1, a)) = SubTree(d, a)
    <3>1. setLevelID(d - 1, k, SubTree(d - 1, a)) = SubTree((d - 1) + 1, a)
      BY <1>5, SubTreeBelow
    <3> QED BY <1>5, <3>1
  <2>4. Peer(port) = [node |-> SwitchAt(d, a, i), dir |-> "up", number |-> 0]
    BY <1>5, <1>8, <1>10, <2>2, <2>3 DEF SwitchAt, r
  <2> QED BY <1>2, <2>4 DEF Entry, UpPort, port
<1>14. DownPort(sw, k) # Entry(sw)
  <2> SUFFICES ASSUME DownPort(sw, k) = Entry(sw) PROVE FALSE
    OBVIOUS
  <2>1. AboveSource(sw)
    BY EntryAbove DEF DownPort
  <2>2. k = getLevelID(d - 1, src)
    BY <1>10, <2>1, EntryAbove DEF DownPort
  <2>3. SubTree(d - 1, a) = SubTree(d - 1, src)
    BY <1>10, <2>1 DEF AboveSource
  <2>4. SubTree((d - 1) + 1, a) = SubTree((d - 1) + 1, src)
    BY <1>0, <1>5, <2>2, <2>3, SameDigit
  <2> QED BY <1>3, <1>5, <2>4
<1>15. sw.index = n.index * up_radix[n.depth]
  BY <1>3, <1>10 DEF j, r
<1>16. n.depth \in 1 .. tree_depth - 1 /\ sw.depth = n.depth - 1
  BY <1>3, <1>5, <1>10
<1> QED BY <1>11, <1>12, <1>13, <1>14, <1>15, <1>16 DEF sw

(* Who has heard of a flood, if these are the receivers.                   *)
Heard(received, n) == n = Server(flow.src) \/ (n \in Switches /\ received[n] = 1)

(* A copy is at its entry, from one who has heard, to one who has not; a   *)
(* switch receives once, from one who has heard; and one that is told has  *)
(* received or will.                                                       *)
Flooded(copies, received) ==
  /\ \A e \in copies : /\ e = Entry(e.node) /\ e.node.depth \in Levels
                       /\ Heard(received, Sender(e.node))
                       /\ e.node \in Switches => received[e.node] = 0
  /\ \A n \in Switches : /\ received[n] \in {0, 1}
                         /\ received[n] = 1 => Heard(received, Sender(n))
                         /\ Heard(received, Sender(n)) /\ IsTold(n)
                              => Entry(n) \in copies \/ received[n] = 1
  /\ \A a \in Servers : received[Server(a)] = 0

(* Servers are nodes, and no switches.                                     *)
LEMMA ServersAreNodes ==
  ASSUME NEW a \in Servers
  PROVE  Server(a) \in Nodes /\ Server(a).depth = tree_depth /\ Server(a) \notin Switches
<1>1. Server(a) \in Nodes /\ Server(a).depth = tree_depth
  BY DEF Nodes, Server
<1>2. \A n \in Switches : n.depth \in Levels
  BY SwitchShape DEF SwitchAt
<1>3. tree_depth \notin Levels
  BY FatTreeAssumption DEF Levels
<1> QED BY <1>1, <1>2, <1>3

(* A flood begins at the switch above the source.                          *)
LEMMA FloodBegins ==
  ASSUME flow.src \in Servers
  PROVE  Flooded({Peer(UpPort(Server(flow.src), 0))}, [n \in Nodes |-> 0])
<1> DEFINE src == flow.src
           none == [n \in Nodes |-> 0]
           top == SwitchAt(tree_depth - 1, src, 0)
           first == Peer(UpPort(Server(src), 0))
<1>0. tree_depth \in Nat /\ tree_depth >= 2 /\ src \in Nat /\ Switches \subseteq Nodes
      /\ tree_depth - 1 \in Levels /\ tree_depth \in 1 .. tree_depth
      /\ (tree_depth - 1) + 1 = tree_depth
  BY FatTreeAssumption, ServerPrefix DEF Nodes, Levels
<1>1. top.depth = tree_depth - 1 /\ top.tree = SubTree(tree_depth - 1, src) /\ top.index = 0
  BY DEF SwitchAt
<1>2. AboveSource(top)
  BY <1>1 DEF AboveSource
<1>3. top \in Switches
  <2>1. up_links[(tree_depth - 1) + 1] = 1
    BY <1>0, UpLinks
  <2>2. 0 \in 0 .. up_links[(tree_depth - 1) + 1] - 1
    BY <2>1
  <2> QED BY <1>0, <2>2, SwitchShape
<1>4. first = Entry(top)
  <2> DEFINE port == UpPort(Server(src), 0)
             n == Server(src)
  <2>1. /\ port.node = n /\ port.dir = "up" /\ port.number = 0
        /\ n.depth = tree_depth /\ n.tree = src /\ n.index = 0
    BY DEF UpPort, Server
  <2> HIDE DEF port, n
  <2>2. Peer(port) = [node |-> [depth |-> n.depth - 1, tree |-> SubTree(n.depth - 1, n.tree),
                                index |-> n.index * up_radix[n.depth] + port.number],
                      dir |-> "down", number |-> getLevelID(n.depth - 1, n.tree)]
    BY <2>1 DEF Peer
  <2>3. n.index * up_radix[n.depth] + port.number = 0
    <3>1. up_radix[tree_depth] = 1
      BY PathsReachable
    <3> QED BY <2>1, <3>1
  <2>4. Peer(port) = [node |-> top, dir |-> "down", number |-> getLevelID(tree_depth - 1, src)]
    BY <2>1, <2>2, <2>3 DEF SwitchAt
  <2>5. Entry(top) = [node |-> top, dir |-> "down", number |-> getLevelID(tree_depth - 1, src)]
    BY <1>1, <1>2 DEF Entry, DownPort
  <2> QED BY <2>4, <2>5 DEF port, n
<1>5. first.node = top
  BY <1>4, EntryAbove
<1>6. Sender(top) = Server(src)
  BY <1>1, <1>2 DEF Sender
<1>7. \A n \in Switches : none[n] = 0
  BY <1>0
<1>8. \A a \in Servers : none[Server(a)] = 0
  BY ServersAreNodes
<1> HIDE DEF none, top, first
<1>9. ASSUME NEW n \in Switches, Heard(none, Sender(n)) PROVE Entry(n) = first
  <2>1. Sender(n) = Server(src)
    BY <1>7, <1>9 DEF Heard
  <2>2. Sender(n) \notin Switches
    BY <2>1, ServersAreNodes
  <2>3. AboveSource(n)
    BY <2>2, SenderOther
  <2>4. n = top
    BY <2>2, <2>3, SenderAbove DEF top
  <2> QED BY <1>4, <2>4
<1>10. \A e \in {first} : /\ e = Entry(e.node) /\ e.node.depth \in Levels
                          /\ Heard(none, Sender(e.node))
                          /\ e.node \in Switches => none[e.node] = 0
  <2>1. first = Entry(first.node)
    BY <1>4, <1>5
  <2>2. first.node.depth \in Levels
    BY <1>0, <1>1, <1>5
  <2>3. Heard(none, Sender(first.node))
    <3>1. Sender(first.node) = Server(src)
      BY <1>5, <1>6
    <3> QED BY <3>1 DEF Heard
  <2>4. first.node \in Switches => none[first.node] = 0
    BY <1>7
  <2> QED BY <2>1, <2>2, <2>3, <2>4
<1>11. Flooded({first}, none)
  BY <1>7, <1>8, <1>9, <1>10 DEF Flooded
<1> QED BY <1>11 DEF first, none

(* A switch that receives a copy sends it to those who hear from it.       *)
LEMMA FloodGoesOn ==
  ASSUME flow.src \in Servers, NEW received \in [Nodes -> Nat], NEW copies,
         Flooded(copies, received), NEW arrival \in copies, arrival.node \in Switches
  PROVE  Flooded((copies \ {arrival}) \cup {Peer(p) : p \in Flood(arrival)},
                 [received EXCEPT ![arrival.node] = @ + 1])
<1> DEFINE sw == arrival.node
           out == Flood(arrival)
           after == (copies \ {arrival}) \cup {Peer(p) : p \in out}
           hence == [received EXCEPT ![sw] = @ + 1]
<1>0. Switches \subseteq Nodes /\ \A n \in Switches : n.depth \in Levels
  BY SwitchShape DEF Nodes, SwitchAt
<1>1. arrival = Entry(sw) /\ received[sw] = 0 /\ Heard(received, Sender(sw))
  BY DEF Flooded
<1>2. /\ hence[sw] = 1
      /\ \A n \in Nodes : n # sw => hence[n] = received[n]
  BY <1>0, <1>1
<1>3. ASSUME NEW p \in out
      PROVE  LET e == Peer(p)
             IN  /\ e = Entry(e.node) /\ Sender(e.node) = sw
                 /\ e.node.depth \in Levels /\ e.node # sw
  <2>1. CASE \E k \in UpPorts(sw) : p = UpPort(sw, k) /\ arrival.dir = "down"
    <3>1. PICK k \in UpPorts(sw) : p = UpPort(sw, k) /\ arrival.dir = "down"
      BY <2>1
    <3>2. AboveSource(sw)
      BY <1>1, <3>1, EntryAbove
    <3>3. LET e == Peer(p)
          IN  /\ e = Entry(e.node) /\ Sender(e.node) = sw
              /\ e.node.depth = sw.depth - 1 /\ e.node.depth \in Levels
      BY <3>1, <3>2, FloodUp
    <3>4. sw.depth \in Int
      BY <1>0 DEF Levels
    <3> QED BY <3>3, <3>4
  <2>2. CASE \E k \in DownPorts(sw) : p = DownPort(sw, k) /\ FloodsDown(sw) /\ p # arrival
    <3>1. PICK k \in DownPorts(sw) : p = DownPort(sw, k) /\ FloodsDown(sw) /\ p # arrival
      BY <2>2
    <3>2. LET e == Peer(p)
          IN  /\ e = Entry(e.node) /\ Sender(e.node) = sw
              /\ e.node.depth = sw.depth + 1 /\ e.node.depth \in Levels
      BY <1>1, <3>1, FloodDown
    <3>3. sw.depth \in Int
      BY <1>0 DEF Levels
    <3> QED BY <3>2, <3>3
  <2>3. p \in (IF FloodsDown(sw) THEN {DownPort(sw, n) : n \in DownPorts(sw)} \ {arrival} ELSE {})
               \cup (IF arrival.dir = "down" THEN {UpPort(sw, n) : n \in UpPorts(sw)} ELSE {})
    BY DEF Flood
  <2> QED BY <2>1, <2>2, <2>3
<1>4. ASSUME NEW n \in Switches, Sender(n) = sw, IsTold(n) PROVE \E p \in out : Peer(p) = Entry(n)
  <2>1. CASE AboveSource(n)
    <3>1. sw \notin {Server(a) : a \in Servers}
      BY ServersAreNodes
    <3>2. PICK k \in UpPorts(sw) : AboveSource(sw) /\ Peer(UpPort(sw, k)) = Entry(n)
      BY <1>4, <2>1, <3>1, SenderAbove
    <3>3. arrival.dir = "down"
      BY <1>1, <3>2, EntryAbove
    <3>4. UpPort(sw, k) \in out
      BY <3>3 DEF Flood
    <3> QED BY <3>2, <3>4
  <2>2. CASE ~ AboveSource(n)
    <3>1. FloodsDown(sw)
      BY <1>4, <2>2 DEF IsTold
    <3>2. PICK k \in DownPorts(sw) : Peer(DownPort(sw, k)) = Entry(n) /\ DownPort(sw, k) # Entry(sw)
      BY <1>4, <2>2, SenderOther
    <3>3. DownPort(sw, k) \in out
      BY <1>1, <3>1, <3>2 DEF Flood
    <3> QED BY <3>2, <3>3
  <2> QED BY <2>1, <2>2
<1>5. sw # Server(flow.src) /\ \A a \in Servers : Server(a) # sw
  BY ServersAreNodes
<1> HIDE DEF out, hence, sw, after
<1>6. \A n : Heard(hence, n) <=> Heard(received, n) \/ n = sw
  <2>1. sw \in Switches
    BY DEF sw
  <2>2. ASSUME NEW n \in Switches PROVE hence[n] = 1 <=> received[n] = 1 \/ n = sw
    <3>1. CASE n = sw
      BY <1>2, <3>1
    <3>2. CASE n # sw
      BY <1>0, <1>2, <3>2
    <3> QED BY <3>1, <3>2
  <2> QED BY <2>1, <2>2 DEF Heard
<1>7. ASSUME NEW e \in after
      PROVE  /\ e = Entry(e.node) /\ e.node.depth \in Levels
             /\ Heard(hence, Sender(e.node))
             /\ e.node \in Switches => hence[e.node] = 0
  <2>1. CASE e \in copies /\ e # arrival
    <3>1. /\ e = Entry(e.node) /\ e.node.depth \in Levels
          /\ Heard(received, Sender(e.node))
          /\ e.node \in Switches => received[e.node] = 0
      BY <2>1 DEF Flooded
    <3>2. e.node # sw
      BY <1>1, <2>1, <3>1
    <3> QED BY <1>0, <1>2, <1>6, <3>1, <3>2
  <2>2. CASE \E p \in out : e = Peer(p)
    <3>1. /\ e = Entry(e.node) /\ Sender(e.node) = sw
          /\ e.node.depth \in Levels /\ e.node # sw
      BY <1>3, <2>2
    <3>2. ASSUME e.node \in Switches PROVE received[e.node] = 0
      <4>1. ~ Heard(received, sw)
        BY <1>1, <1>5 DEF Heard
      <4> QED BY <3>1, <3>2, <4>1 DEF Flooded
    <3> QED BY <1>0, <1>2, <1>6, <3>1, <3>2
  <2> QED BY <2>1, <2>2 DEF after
<1>8. ASSUME NEW n \in Switches
      PROVE  /\ hence[n] \in {0, 1}
             /\ hence[n] = 1 => Heard(hence, Sender(n))
             /\ Heard(hence, Sender(n)) /\ IsTold(n) => Entry(n) \in after \/ hence[n] = 1
  <2>1. /\ received[n] \in {0, 1}
        /\ received[n] = 1 => Heard(received, Sender(n))
        /\ Heard(received, Sender(n)) /\ IsTold(n) => Entry(n) \in copies \/ received[n] = 1
    BY DEF Flooded
  <2>2. CASE n = sw
    BY <1>1, <1>2, <1>6, <2>2
  <2>3. CASE n # sw
    <3>1. hence[n] = received[n]
      BY <1>0, <1>2, <2>3
    <3>2. ASSUME Heard(hence, Sender(n)), IsTold(n), hence[n] # 1 PROVE Entry(n) \in after
      <4>1. CASE Heard(received, Sender(n))
        <5>1. Entry(n) \in copies
          BY <2>1, <3>1, <3>2, <4>1
        <5>2. Entry(n) # arrival
          BY <2>3, EntryAbove DEF sw
        <5> QED BY <5>1, <5>2 DEF after
      <4>2. CASE Sender(n) = sw
        BY <1>4, <3>2, <4>2 DEF after
      <4> QED BY <1>6, <3>2, <4>1, <4>2
    <3> QED BY <1>6, <2>1, <3>1, <3>2
  <2> QED BY <2>2, <2>3
<1>9. \A a \in Servers : hence[Server(a)] = 0
  BY <1>2, <1>5, ServersAreNodes DEF Flooded
<1>10. Flooded(after, hence)
  BY <1>7, <1>8, <1>9 DEF Flooded
<1> QED BY <1>10 DEF after, hence, sw, out

(* In a tree of at most three levels no switch is left out.                *)
LEMMA FloodEnds ==
  ASSUME flow.src \in Servers, NEW received \in [Nodes -> Nat],
         Flooded({}, received), tree_depth <= 3
  PROVE  \A n \in Switches : received[n] = 1
<1>0. /\ tree_depth \in {2, 3}
      /\ \A n \in Switches : n.depth \in Nat /\ n.depth < tree_depth
  <2>1. \A n \in Switches : n.depth \in Levels
    BY SwitchShape DEF SwitchAt
  <2> QED BY <2>1, FatTreeAssumption DEF Levels
<1>1. ASSUME NEW n \in Switches, Heard(received, Sender(n)), IsTold(n) PROVE received[n] = 1
  BY <1>1 DEF Flooded
<1>2. ASSUME NEW n \in Switches, AboveSource(n) PROVE received[n] = 1
  <2> DEFINE Done(d) == \A m \in Switches : AboveSource(m) /\ m.depth = d => received[m] = 1
  <2>1. ASSUME NEW d \in Nat, d = tree_depth - 1 \/ Done(d + 1) PROVE Done(d)
    <3> SUFFICES ASSUME NEW m \in Switches, AboveSource(m), m.depth = d PROVE received[m] = 1
      OBVIOUS
    <3>1. Heard(received, Sender(m))
      <4>1. CASE Sender(m) = Server(flow.src)
        BY <4>1 DEF Heard
      <4>2. CASE /\ m.depth + 1 \in Levels
                 /\ Sender(m) \in Switches /\ AboveSource(Sender(m)) /\ Sender(m).depth = m.depth + 1
        <5>1. d # tree_depth - 1
          BY <1>0, <4>2
        <5> QED BY <2>1, <4>2, <5>1 DEF Heard
      <4> QED BY <4>1, <4>2, SenderAbove
    <3> QED BY <1>1, <3>1 DEF IsTold
  <2> HIDE DEF Done
  <2>2. Done(tree_depth - 1)
    BY <1>0, <2>1
  <2>3. Done(tree_depth - 2)
    <3>1. tree_depth - 2 \in Nat /\ (tree_depth - 2) + 1 = tree_depth - 1
      BY <1>0
    <3> QED BY <2>1, <2>2, <3>1
  <2>4. tree_depth = 3 => Done(0)
    BY <2>1, <2>3
  <2>5. n.depth \in {tree_depth - 1, tree_depth - 2} \/ (tree_depth = 3 /\ n.depth = 0)
    <3>1. n.depth \in Nat /\ n.depth < tree_depth
      BY <1>0, <1>2
    <3> QED BY <1>0, <3>1
  <2> QED BY <1>2, <2>2, <2>3, <2>4, <2>5 DEF Done
<1>3. ASSUME NEW n \in Switches, ~ AboveSource(n), n.depth = 1 PROVE received[n] = 1
  <2> DEFINE sw == Sender(n)
  <2>1. sw \in Switches /\ sw.depth = 0 /\ sw.index = n.index * up_radix[1]
    BY <1>3, SenderOther
  <2>2. AboveSource(sw)
    <3>1. PICK d \in Levels, a \in Servers : \E i \in 0 .. up_links[d + 1] - 1 : sw = SwitchAt(d, a, i)
      BY <2>1, SwitchShape
    <3>2. sw.tree = SubTree(0, a)
      BY <2>1, <3>1 DEF SwitchAt
    <3> QED BY <2>1, <3>2, TopAbove DEF AboveSource
  <2>3. sw.index % up_radix[1] = 0
    <3> DEFINE r == up_radix[1]
               i == n.index
    <3>1. r \in Nat \ {0} /\ i \in Nat
      <4>1. PICK d \in Levels, a \in Servers : \E j \in 0 .. up_links[d + 1] - 1 : n = SwitchAt(d, a, j)
        BY SwitchShape
      <4> QED BY <1>0, <4>1, PathsReachable DEF SwitchAt
    <3>2. sw.index = i * r
      BY <2>1
    <3> HIDE DEF r, i
    <3>3. i * r = r * i
      BY <3>1, Z3
    <3>4. (r * i) % r = 0
      BY <3>1, DivisionSimple
    <3> QED BY <3>2, <3>3, <3>4 DEF r
  <2>4. FloodsDown(sw)
    BY <1>0, <2>1, <2>3 DEF FloodsDown
  <2>5. Heard(received, sw)
    BY <1>2, <2>1, <2>2 DEF Heard
  <2> QED BY <1>1, <2>4, <2>5 DEF IsTold
<1>4. ASSUME NEW n \in Switches, ~ AboveSource(n), n.depth = 2, tree_depth = 3 PROVE received[n] = 1
  <2> DEFINE sw == Sender(n)
  <2>1. sw \in Switches /\ sw.depth = 1 /\ sw.index = n.index * up_radix[2]
    BY <1>4, SenderOther
  <2>2. received[sw] = 1
    BY <1>2, <1>3, <2>1
  <2>3. n.index = 0
    <3>1. PICK d \in Levels, a \in Servers : \E j \in 0 .. up_links[d + 1] - 1 : n = SwitchAt(d, a, j)
      BY SwitchShape
    <3>2. PICK j \in 0 .. up_links[d + 1] - 1 : n = SwitchAt(d, a, j)
      BY <3>1
    <3>3. n.depth = d /\ n.index = j
      BY <3>2 DEF SwitchAt
    <3>4. up_links[d + 1] = 1
      BY <1>4, <3>3, UpLinks
    <3> QED BY <3>3, <3>4
  <2>4. sw.index = 0
    <3>1. up_radix[2] \in Nat
      BY <1>4, PathsReachable
    <3> QED BY <2>1, <2>3, <3>1
  <2>5. FloodsDown(sw)
    BY <1>4, <2>1, <2>4 DEF FloodsDown
  <2> QED BY <1>1, <2>1, <2>2, <2>5 DEF IsTold, Heard
<1> QED
  <2> SUFFICES ASSUME NEW n \in Switches PROVE received[n] = 1
    OBVIOUS
  <2>1. AboveSource(n) \/ n.depth \in 1 .. tree_depth - 1
    BY SenderOther
  <2>2. AboveSource(n) \/ n.depth = 1 \/ (n.depth = 2 /\ tree_depth = 3)
    <3>1. n.depth \in 1 .. tree_depth - 1 => n.depth = 1 \/ (n.depth = 2 /\ tree_depth = 3)
      BY <1>0
    <3> QED BY <2>1, <3>1
  <2> QED BY <1>2, <1>3, <1>4, <2>2

-----------------------------------------------------------------------------
(* Control messages come to their receivers.                               *)

(* Nobody has received a message.                                          *)
NoneReceived == controlReceived = [n \in Nodes |-> 0]

(* A message to a server is on the route of path 0, or has come there.     *)
MessageInv ==
  \/ numSent = 0 /\ control = {} /\ NoneReceived
  \/ numSent = 1 /\ NoneReceived /\ \E arrival : control = {arrival} /\ Arrives(arrival.node, 0)
  \/ /\ numSent = 1 /\ control = {}
     /\ controlReceived = [[n \in Nodes |-> 0] EXCEPT ![Server(flow.dest)] = 1]

(* A message to all switches is flooded, once it is sent.                  *)
FloodInv ==
  IF numSent = 0 THEN control = {} /\ NoneReceived
  ELSE numSent = 1 /\ Flooded(control, controlReceived)

(* The size of a queue is what the switch has been told last.              *)
SizesInv ==
  queueSize = [p \in SwitchPorts |-> LinksOfPort(p) * (IF controlReceived[p.node] = 0
                                                       THEN DefaultQueueSize
                                                       ELSE UpdatedQueueSize)]

(* The control messages, by what the flow is.                              *)
ControlInv ==
  /\ flow \in Flows /\ controlReceived \in [Nodes -> Nat]
  /\ SizesInv
  /\ flow.sends # "control" => control = {} /\ NoneReceived
  /\ flow.sends = "control" /\ flow.dest \in Servers => MessageInv
  /\ flow.sends = "control" /\ flow.dest = BROADCAST_SWITCHES => FloodInv

(* What a flow is.                                                         *)
LEMMA FlowKinds ==
  ASSUME flow \in Flows
  PROVE  /\ flow.src \in Servers
         /\ flow.sends # "control" => flow.dest \in Servers
         /\ flow.dest \in Servers \/ flow.dest = BROADCAST_SWITCHES
         /\ ~ (flow.dest \in Servers /\ flow.dest = BROADCAST_SWITCHES)
<1>1. flow.dest # BROADCAST_SWITCHES \/ flow.dest \notin Servers
  BY BroadcastAssumption
<1> QED BY <1>1 DEF Flows

(* Nothing is sent at first, and queues are as the generator made them.    *)
LEMMA ControlInit == Init => ControlInv
<1> SUFFICES ASSUME Init PROVE ControlInv
  OBVIOUS
<1>1. /\ flow \in Flows /\ numSent = 0 /\ control = {} /\ NoneReceived
      /\ queueSize = [p \in SwitchPorts |-> LinksOfPort(p) * DefaultQueueSize]
  BY DEF Init, NoneReceived, QueueSizesAsBuilt
<1>2. controlReceived \in [Nodes -> Nat]
  BY <1>1 DEF NoneReceived
<1>3. \A p \in SwitchPorts : controlReceived[p.node] = 0
  BY <1>1, PortsNode DEF NoneReceived, SwitchPorts
<1>4. SizesInv
  BY <1>1, <1>3 DEF SizesInv
<1>5. MessageInv /\ FloodInv
  BY <1>1 DEF MessageInv, FloodInv
<1> QED BY <1>1, <1>2, <1>4, <1>5, FlowKinds DEF ControlInv

(* Packets change nothing of this.                                         *)
LEMMA ControlUnchanged ==
  ASSUME ControlInv, UNCHANGED <<flow, queueSize, control, controlReceived>>,
         flow.sends = "control" => numSent' = numSent
  PROVE  ControlInv'
<1>1. SizesInv'
  BY DEF ControlInv, SizesInv
<1>2. NoneReceived' = NoneReceived
  BY DEF NoneReceived
<1>3. \A node, path : Arrives(node, path)' <=> Arrives(node, path)
  BY DEF Arrives
<1>4. flow.sends = "control" /\ MessageInv => MessageInv'
  BY <1>2, <1>3 DEF MessageInv
<1>5. Flooded(control, controlReceived)' <=> Flooded(control, controlReceived)
  BY DEF Flooded, Heard, Entry, Sender, IsTold, AboveSource
<1>6. flow.sends = "control" /\ FloodInv => FloodInv'
  BY <1>2, <1>5 DEF FloodInv
<1> QED BY <1>1, <1>2, <1>4, <1>6, FlowKinds DEF ControlInv

(* A server's modules receive no sizes of queues.                          *)
LEMMA SizesKept ==
  ASSUME ControlInv, UNCHANGED queueSize,
         \A n \in Nodes : n.depth # tree_depth => controlReceived'[n] = controlReceived[n]
  PROVE  SizesInv'
<1>1. \A p \in SwitchPorts : p.node \in Nodes /\ p.node.depth # tree_depth
  BY PortsNode, FatTreeAssumption, NodeShape DEF SwitchPorts
<1>2. \A p \in SwitchPorts : controlReceived'[p.node] = controlReceived[p.node]
  BY <1>1
<1> QED BY <1>2 DEF ControlInv, SizesInv

(* The message is sent.                                                    *)
LEMMA ControlSent == ControlInv /\ SendControl => ControlInv'
<1> SUFFICES ASSUME ControlInv, SendControl PROVE ControlInv'
  OBVIOUS
<1> DEFINE src == flow.src
           here == flow.dest = src
           out == IF here THEN {} ELSE {UpPort(Server(src), 0)}
<1>0. /\ flow.sends = "control" /\ numSent = 0 /\ numSent' = 1 /\ queueSize' = queueSize /\ flow' = flow
      /\ control' = (control \ {}) \cup {Peer(p) : p \in out}
      /\ controlReceived' = IF here THEN [controlReceived EXCEPT ![Server(src)] = @ + 1]
                            ELSE controlReceived
  BY DEF SendControl, ControlLogic, Handled, Server
<1>1. flow \in Flows /\ src \in Servers /\ (flow.dest \in Servers \/ flow.dest = BROADCAST_SWITCHES)
      /\ controlReceived \in [Nodes -> Nat]
  BY FlowKinds DEF ControlInv
<1>2. control = {} /\ NoneReceived
  BY <1>0, <1>1 DEF ControlInv, MessageInv, FloodInv
<1>3. Server(src) \in Nodes /\ Server(src).depth = tree_depth
  BY <1>1, ServersAreNodes
<1>4. SizesInv'
  BY <1>0, <1>1, <1>3, SizesKept
<1>5. controlReceived' \in [Nodes -> Nat]
  <2>1. [controlReceived EXCEPT ![Server(src)] = @ + 1] \in [Nodes -> Nat]
    BY <1>1, <1>3
  <2> QED BY <1>0, <1>1, <2>1
<1>6. CASE here
  <2>1. control' = {} /\ controlReceived' = [[n \in Nodes |-> 0] EXCEPT ![Server(flow.dest)] = 1]
    BY <1>0, <1>2, <1>3, <1>6 DEF NoneReceived
  <2>2. MessageInv'
    BY <1>0, <2>1 DEF MessageInv
  <2> QED BY <1>0, <1>1, <1>4, <1>5, <1>6, <2>2, FlowKinds DEF ControlInv
<1>7. CASE ~ here
  <2>1. control' = {Peer(FirstPort)} /\ controlReceived' = controlReceived
    BY <1>0, <1>2, <1>7 DEF FirstPort
  <2>2. CASE flow.dest \in Servers
    <3>1. 0 \in Paths
      <4>1. paths_reachable[tree_depth] \in Nat \ {0}
        BY FatTreeAssumption, PathsReachable
      <4> QED BY <4>1 DEF Paths
    <3>2. OnItsRoute(FirstPort, 0)
      BY <1>1, <3>1, ServerNode
    <3>3. FirstPort \in Ports
      <4>1. 0 \in UpPorts(Server(src))
        BY <1>3, PathsReachable DEF UpPorts
      <4> QED BY <1>3, <4>1, PortsOfNode DEF FirstPort
    <3>4. Arrives(Peer(FirstPort).node, 0)
      BY <1>1, <2>2, <3>2, <3>3, RouteArrives
    <3>5. Arrives(Peer(FirstPort).node, 0)'
      BY <1>0, <3>4 DEF Arrives, FirstPort
    <3>6. MessageInv'
      <4> DEFINE first == Peer(FirstPort)
      <4>1. numSent' = 1 /\ NoneReceived' /\ control' = {first} /\ first' = first
        BY <1>0, <1>2, <2>1 DEF NoneReceived, FirstPort
      <4> HIDE DEF first
      <4>2. Arrives(first.node, 0)'
        BY <3>5 DEF first
      <4> QED BY <4>1, <4>2 DEF MessageInv
    <3> QED BY <1>0, <1>1, <1>4, <1>5, <2>2, <3>6, FlowKinds DEF ControlInv
  <2>3. CASE flow.dest = BROADCAST_SWITCHES
    <3>1. Flooded(control', controlReceived')
      BY <1>1, <1>2, <2>1, FloodBegins DEF NoneReceived, FirstPort
    <3>2. Flooded(control, controlReceived)'
      BY <1>0, <3>1 DEF Flooded, Heard, Entry, Sender, IsTold, AboveSource
    <3>3. FloodInv'
      BY <1>0, <3>2 DEF FloodInv
    <3> QED BY <1>0, <1>1, <1>4, <1>5, <2>3, <3>3, FlowKinds DEF ControlInv
  <2> QED BY <1>1, <2>2, <2>3
<1> QED BY <1>6, <1>7

(* lookup() names a port of the switch.                                    *)
LEMMA LookupIsPort ==
  ASSUME NEW node \in Nodes, node.depth # tree_depth, flow.dest \in Servers, NEW path \in Paths
  PROVE  lookup(node, flow.dest, path) \in Ports
<1> DEFINE d == node.depth
           dest == flow.dest
<1>0. d \in Levels /\ dest \in Nat
  BY NodeShape, ServerPrefix, FatTreeAssumption DEF Levels
<1>1. CASE compareSubTree(d, node.tree, dest)
  <2>1. getLevelID(d, dest) \in DownPorts(node)
    <3>1. getLevelID(d, dest) \in 0 .. down_radix[d] - 1
      BY <1>0, PrefixBelow
    <3> QED BY <3>1 DEF DownPorts
  <2>2. lookup(node, dest, path) = DownPort(node, getLevelID(d, dest))
    BY <1>1 DEF lookup
  <2> QED BY <2>1, <2>2, PortsOfNode
<1>2. CASE ~ compareSubTree(d, node.tree, dest)
  <2>1. d # 0
    BY <1>2 DEF compareSubTree
  <2>2. d \in 1 .. tree_depth /\ d - 1 \in 0 .. tree_depth
    BY <1>0, <2>1, FatTreeAssumption DEF Levels
  <2>3. getPathID(d, path) \in UpPorts(node)
    <3> DEFINE r == up_radix[d]
               q == path \div paths_reachable[d - 1]
    <3>1. r \in Nat \ {0} /\ paths_reachable[d - 1] \in Nat \ {0}
      BY <2>2, PathsReachable
    <3>2. path \in Nat
      <4>1. paths_reachable[tree_depth] \in Nat
        BY FatTreeAssumption, PathsReachable
      <4> QED BY <4>1 DEF Paths
    <3>3. q \in Nat
      BY <3>1, <3>2, Division
    <3> HIDE DEF q, r
    <3>4. q % r \in 0 .. r - 1
      BY <3>1, <3>3, Division
    <3> QED BY <3>4 DEF getPathID, UpPorts, q, r
  <2>4. lookup(node, dest, path) = UpPort(node, getPathID(d, path))
    BY <1>2 DEF lookup
  <2> QED BY <2>3, <2>4, PortsOfNode
<1> QED BY <1>1, <1>2

(* A message to a server goes on along the route, or has come.             *)
LEMMA MessageHandled ==
  ASSUME ControlInv, NEW arrival \in Ports, HandleControl(arrival), flow.sends = "control",
         flow.dest \in Servers
  PROVE  ControlInv'
<1> DEFINE node == arrival.node
           dest == flow.dest
<1>1. /\ flow \in Flows /\ flow.src \in Servers /\ controlReceived \in [Nodes -> Nat]
      /\ flow' = flow /\ numSent' = numSent /\ dest # BROADCAST_SWITCHES
  BY FlowKinds DEF ControlInv, HandleControl, ControlLogic, Handled
<1>2. numSent = 1 /\ NoneReceived /\ control = {arrival} /\ Arrives(node, 0)
  BY DEF ControlInv, MessageInv, HandleControl
<1>3. node \in Nodes /\ node.depth \in 0 .. tree_depth
  BY PortsNode, NodeShape
<1>4. 0 \in Paths
  <2>1. paths_reachable[tree_depth] \in Nat \ {0}
    BY FatTreeAssumption, PathsReachable
  <2> QED BY <2>1 DEF Paths
<1>5. CASE node.depth = tree_depth
  <2>1. node = Server(dest)
    <3>1. node.tree = SubTree(tree_depth, dest)
      BY <1>2, <1>5, FatTreeAssumption DEF Arrives
    <3>2. node.tree = dest
      BY <3>1, ServerNode
    <3> QED BY <1>3, <1>5, <3>2, NodeShape
  <2>2. dest = node.tree
    BY <2>1 DEF Server
  <2>3. ControlLogic(node, {arrival}) /\ queueSize' = queueSize
    <3>1. ~ (node.depth < tree_depth)
      BY <1>5, FatTreeAssumption
    <3> QED BY <3>1 DEF HandleControl
  <2>4. /\ control' = (control \ {arrival}) \cup {Peer(p) : p \in {}}
        /\ controlReceived' = [controlReceived EXCEPT ![node] = @ + 1]
    BY <2>2, <2>3 DEF ControlLogic, Handled
  <2>5. control' = {} /\ controlReceived' = [[n \in Nodes |-> 0] EXCEPT ![Server(dest)] = 1]
    BY <1>2, <1>3, <2>1, <2>4 DEF NoneReceived
  <2>6. controlReceived' \in [Nodes -> Nat]
    BY <1>1, <1>3, <2>4
  <2>7. SizesInv'
    BY <1>1, <1>5, <2>3, <2>4, SizesKept
  <2>8. MessageInv'
    BY <1>1, <1>2, <2>5 DEF MessageInv
  <2> QED BY <1>1, <2>6, <2>7, <2>8 DEF ControlInv
<1>6. CASE node.depth # tree_depth
  <2> DEFINE next == lookup(node, dest, 0)
             arrives == Peer(next)
  <2>1. /\ Handled(node, {arrival}, {next}, FALSE)
        /\ queueSize' = queueSize
    BY <1>1, <1>6, FatTreeAssumption DEF HandleControl
  <2>2. control' = {arrives} /\ controlReceived' = controlReceived
    BY <1>2, <2>1 DEF Handled
  <2>3. next \in Ports /\ OnItsRoute(next, 0)
    BY <1>1, <1>2, <1>3, <1>4, <1>6, LookupIsPort, LookupContinues
  <2>4. Arrives(arrives.node, 0)
    <3> HIDE DEF next
    <3> QED BY <1>1, <2>3, RouteArrives
  <2>5. arrives' = arrives
    BY <1>1 DEF lookup
  <2> HIDE DEF arrives
  <2>6. Arrives(arrives.node, 0)'
    BY <1>1, <2>4, <2>5 DEF Arrives
  <2>7. MessageInv'
    BY <1>1, <1>2, <2>2, <2>5, <2>6 DEF MessageInv, NoneReceived
  <2>8. SizesInv'
    BY <1>1, <2>1, <2>2, SizesKept
  <2> QED BY <1>1, <2>2, <2>7, <2>8 DEF ControlInv
<1> QED BY <1>5, <1>6

(* A message to all switches is received and flooded.                      *)
LEMMA FloodHandled ==
  ASSUME ControlInv, NEW arrival \in Ports, HandleControl(arrival), flow.sends = "control",
         flow.dest = BROADCAST_SWITCHES
  PROVE  ControlInv'
<1> DEFINE sw == arrival.node
<1>1. /\ flow \in Flows /\ flow.src \in Servers /\ controlReceived \in [Nodes -> Nat]
      /\ flow' = flow /\ numSent' = numSent /\ flow.dest \notin Servers
      /\ arrival \in control
  BY FlowKinds DEF ControlInv, HandleControl, ControlLogic, Handled
<1>2. numSent = 1 /\ Flooded(control, controlReceived)
  BY <1>1 DEF ControlInv, FloodInv
<1>3. sw \in Nodes /\ sw \in Switches /\ sw.depth # tree_depth
  <2>1. sw.depth \in Levels
    BY <1>1, <1>2 DEF Flooded
  <2>2. sw.depth # tree_depth
    BY <2>1, FatTreeAssumption DEF Levels
  <2> QED BY <2>2, PortsNode, NodeShape
<1>4. Handled(sw, {arrival}, Flood(arrival), TRUE) /\ updateQueueSize(sw)
  BY <1>3 DEF HandleControl
<1>5. /\ control' = (control \ {arrival}) \cup {Peer(p) : p \in Flood(arrival)}
      /\ controlReceived' = [controlReceived EXCEPT ![sw] = @ + 1]
  BY <1>4 DEF Handled
<1>6. controlReceived' \in [Nodes -> Nat]
  BY <1>1, <1>3, <1>5
<1>7. Flooded(control', controlReceived')
  BY <1>1, <1>2, <1>3, <1>5, FloodGoesOn
<1>8. Flooded(control, controlReceived)'
  BY <1>1, <1>7 DEF Flooded, Heard, Entry, Sender, IsTold, AboveSource
<1>9. FloodInv'
  BY <1>1, <1>2, <1>8 DEF FloodInv
<1>10. SizesInv'
  <2>1. \A p \in SwitchPorts : p.node \in Nodes
    BY PortsNode DEF SwitchPorts
  <2>2. \A p \in SwitchPorts : p.node = sw => controlReceived'[p.node] # 0
    BY <1>1, <1>3, <1>5
  <2>3. \A p \in SwitchPorts : p.node # sw => controlReceived'[p.node] = controlReceived[p.node]
    BY <1>1, <1>5, <2>1
  <2>4. queueSize' = [p \in SwitchPorts |->
                        IF p.node = sw THEN LinksOfPort(p) * UpdatedQueueSize ELSE queueSize[p]]
    BY <1>4 DEF updateQueueSize
  <2>5. \A p \in SwitchPorts :
          queueSize[p] = LinksOfPort(p) * (IF controlReceived[p.node] = 0
                                           THEN DefaultQueueSize ELSE UpdatedQueueSize)
    BY DEF ControlInv, SizesInv
  <2> HIDE DEF sw
  <2> QED BY <2>2, <2>3, <2>4, <2>5 DEF SizesInv
<1> QED BY <1>1, <1>6, <1>9, <1>10 DEF ControlInv

(* Every step keeps the control messages in order.                         *)
LEMMA ControlNext == ControlInv /\ [Next]_vars => ControlInv'
<1> SUFFICES ASSUME ControlInv, [Next]_vars PROVE ControlInv'
  OBVIOUS
<1>1. CASE SendPacket
  BY <1>1, ControlUnchanged DEF SendPacket
<1>2. ASSUME NEW port \in Ports, Forward(port) PROVE ControlInv'
  BY <1>2, ControlUnchanged DEF Forward
<1>3. CASE SendControl
  BY <1>3, ControlSent
<1>4. ASSUME NEW port \in Ports, HandleControl(port) PROVE ControlInv'
  <2>1. flow.sends = "control"
    BY <1>4 DEF ControlInv, HandleControl
  <2>2. flow.dest \in Servers \/ flow.dest = BROADCAST_SWITCHES
    BY FlowKinds DEF ControlInv
  <2> QED BY <1>4, <2>1, <2>2, MessageHandled, FloodHandled
<1>5. CASE UNCHANGED vars
  BY <1>5, ControlUnchanged DEF vars
<1> QED BY <1>1, <1>2, <1>3, <1>4, <1>5 DEF Next

(* Both ends of a cable have queues for as many links.                     *)
LEMMA CablesAgree ==
  ASSUME NEW p \in SwitchPorts, Peer(p) \in SwitchPorts
  PROVE  LinksOfPort(Peer(p)) = LinksOfPort(p)
<1> DEFINE d == p.node.depth
           q == Peer(p)
<1>0. tree_depth \in Nat /\ tree_depth >= 2 /\ d < tree_depth /\ q.node.depth < tree_depth
  BY FatTreeAssumption DEF SwitchPorts
<1>1. \/ p.dir = "up" /\ d \in 1 .. tree_depth
      \/ p.dir = "down" /\ d \in Levels
  BY PortShape DEF SwitchPorts
<1>2. \A l \in Levels : down_links[l] \div down_radix[l] = down_links[l + 1]
  <2> TAKE l \in Levels
  <2> DEFINE r == down_radix[l]
             m == down_links[l + 1]
             n == down_links[l]
  <2>1. r \in Nat \ {0} /\ m \in Nat \ {0} /\ n = m * r
    <3>1. l + 1 \in 0 .. tree_depth
      BY <1>0 DEF Levels
    <3> QED BY <3>1, DownLinks
  <2> HIDE DEF r, m, n
  <2>2. m * r = r * m /\ (r * m) \div r = m
    BY <2>1, DivisionSimple, Z3
  <2>3. n \div r = m
    BY <2>1, <2>2
  <2> QED BY <2>3 DEF r, m, n
<1>3. CASE p.dir = "up"
  <2>1. q.dir = "down" /\ q.node.depth = d - 1
    BY <1>3 DEF Peer
  <2>2. d - 1 \in Levels /\ (d - 1) + 1 = d /\ d # 0
    BY <1>0, <1>1, <1>3 DEF Levels
  <2>3. PhysLinksRepresented(q) = down_links[d]
    BY <1>2, <2>1, <2>2 DEF PhysLinksRepresented, getNumCorrPhysDownLinks
  <2>4. PhysLinksRepresented(p) = down_links[d]
    BY <1>3, <2>2 DEF PhysLinksRepresented, getNumCorrPhysUpLinks
  <2> QED BY <2>3, <2>4 DEF LinksOfPort
<1>4. CASE p.dir = "down"
  <2>1. q.dir = "up" /\ q.node.depth = d + 1
    BY <1>4 DEF Peer
  <2>2. d \in Levels /\ d + 1 # 0
    BY <1>0, <1>1, <1>4 DEF Levels
  <2>3. PhysLinksRepresented(p) = down_links[d + 1]
    BY <1>2, <1>4, <2>2 DEF PhysLinksRepresented, getNumCorrPhysDownLinks
  <2>4. PhysLinksRepresented(q) = down_links[d + 1]
    BY <2>1, <2>2 DEF PhysLinksRepresented, getNumCorrPhysUpLinks
  <2> QED BY <2>3, <2>4 DEF LinksOfPort
<1> QED BY <1>1, <1>3, <1>4

(* In any fat tree a control message comes to its server and to no other   *)
(* node, and a broadcast to no switch more than once, to no server, and,   *)
(* in trees of at most three levels, to every switch, whatever the order   *)
(* in which its copies are handled; the queues at the ends of a cable have *)
(* one size whenever both switches have heard of it or neither             *)
(* (ControlProcessor::handleMessage, flood, updateQueueSize).              *)
THEOREM ControlMessagesArrive == Spec => []ControlReachesReceivers
<1>1. ControlInv => ControlReachesReceivers
  <2> SUFFICES ASSUME ControlInv PROVE ControlReachesReceivers
    OBVIOUS
  <2>0. /\ flow \in Flows /\ flow.src \in Servers /\ controlReceived \in [Nodes -> Nat]
        /\ flow.sends # "control" => flow.dest \in Servers
        /\ flow.dest \in Servers \/ flow.dest = BROADCAST_SWITCHES
        /\ ~ (flow.dest \in Servers /\ flow.dest = BROADCAST_SWITCHES)
    BY FlowKinds DEF ControlInv
  <2>1. QueueSizesAgree
    <3> SUFFICES ASSUME NEW p \in SwitchPorts
                 PROVE  LET q == Peer(p)
                        IN  /\ q \in SwitchPorts /\ controlReceived[p.node] = controlReceived[q.node]
                                 => queueSize[p] = queueSize[q]
                            /\ paths_reachable[tree_depth] > 1
                                 => queueSize[p] = IF controlReceived[p.node] = 0
                                                   THEN DefaultQueueSize ELSE UpdatedQueueSize
      BY DEF QueueSizesAgree
    <3>1. \A r \in SwitchPorts :
            queueSize[r] = LinksOfPort(r) * (IF controlReceived[r.node] = 0
                                             THEN DefaultQueueSize ELSE UpdatedQueueSize)
      BY DEF ControlInv, SizesInv
    <3>2. ASSUME Peer(p) \in SwitchPorts, controlReceived[p.node] = controlReceived[Peer(p).node]
          PROVE  queueSize[p] = queueSize[Peer(p)]
      BY <3>1, <3>2, CablesAgree
    <3>3. ASSUME paths_reachable[tree_depth] > 1
          PROVE  queueSize[p] = IF controlReceived[p.node] = 0
                                THEN DefaultQueueSize ELSE UpdatedQueueSize
      <4>1. LinksOfPort(p) = 1
        <5>1. paths_reachable[tree_depth] # 1
          BY <3>3
        <5> QED BY <5>1 DEF LinksOfPort
      <4> QED BY <3>1, <4>1, QueueSizeAssumption
    <3> QED BY <3>2, <3>3
  <2>2. CASE flow.sends # "control"
    <3>1. \A n \in Nodes : controlReceived[n] = 0
      BY <2>2 DEF ControlInv, NoneReceived
    <3> QED BY <2>0, <2>1, <2>2, <3>1 DEF ControlReachesReceivers, ReachesAllSwitches
  <2>3. CASE flow.sends = "control" /\ flow.dest \in Servers
    <3>1. MessageInv
      BY <2>3 DEF ControlInv
    <3>2. Server(flow.dest) \in Nodes
      BY <2>3, ServersAreNodes
    <3>3. \A n \in Nodes : controlReceived[n] <= IF n = Server(flow.dest) THEN 1 ELSE 0
      BY <3>1, <3>2 DEF MessageInv, NoneReceived
    <3>4. numSent = 1 /\ control = {} => controlReceived[Server(flow.dest)] = 1
      BY <3>1, <3>2 DEF MessageInv
    <3> QED BY <2>0, <2>1, <2>3, <3>3, <3>4 DEF ControlReachesReceivers, ReachesAllSwitches, IsReceiver
  <2>4. CASE flow.sends = "control" /\ flow.dest = BROADCAST_SWITCHES
    <3>1. FloodInv
      BY <2>4 DEF ControlInv
    <3>2. \A n \in Nodes : controlReceived[n] <= IF n \in Switches THEN 1 ELSE 0
      <4>1. CASE numSent = 0
        BY <3>1, <4>1 DEF FloodInv, NoneReceived
      <4>2. CASE numSent # 0
        <5>1. Flooded(control, controlReceived)
          BY <3>1, <4>2 DEF FloodInv
        <5>2. \A n \in Switches : controlReceived[n] \in {0, 1}
          BY <5>1 DEF Flooded
        <5>3. \A a \in Servers : controlReceived[Server(a)] = 0
          BY <5>1 DEF Flooded
        <5> QED BY <5>2, <5>3 DEF Nodes
      <4> QED BY <4>1, <4>2
    <3>3. tree_depth <= 3 => ReachesAllSwitches
      <4> SUFFICES ASSUME tree_depth <= 3, numSent = 1, control = {}
                   PROVE  \A sw \in Switches : controlReceived[sw] = 1
        BY DEF ReachesAllSwitches
      <4>1. Flooded({}, controlReceived)
        BY <3>1 DEF FloodInv
      <4> QED BY <2>0, <4>1, FloodEnds
    <3> QED BY <2>0, <2>1, <2>4, <3>2, <3>3 DEF ControlReachesReceivers, IsReceiver
  <2> QED BY <2>0, <2>2, <2>3, <2>4
<1> QED BY <1>1, ControlInit, ControlNext, PTL DEF Spec

-----------------------------------------------------------------------------
(* The cables and the links of a path.                                     *)

(* Where the packet of a path is at each level, as a number of the links   *)
(* between this level and the one below.                                   *)
LinkAt(path) == [d \in Levels |-> path \div paths_reachable[d]]

(* The links of a switch number it above.                                  *)
LEMMA PathAbove ==
  ASSUME NEW path \in Paths, NEW d \in Levels
  PROVE  /\ (path \div paths_reachable[d + 1]) * up_radix[d + 1] + getPathID(d + 1, path)
              = path \div paths_reachable[d]
         /\ (path \div paths_reachable[d]) \div up_radix[d + 1] = path \div paths_reachable[d + 1]
<1>1. d + 1 \in 1 .. tree_depth /\ (d + 1) - 1 = d
  BY FatTreeAssumption DEF Levels
<1>2. /\ (path \div paths_reachable[d + 1]) * up_radix[d + 1] + getPathID(d + 1, path)
           = path \div paths_reachable[(d + 1) - 1]
      /\ (path \div paths_reachable[(d + 1) - 1]) \div up_radix[d + 1] = path \div paths_reachable[d + 1]
  BY <1>1, PathIndex
<1> QED BY <1>1, <1>2

(* A path that reaches the last level has no digit there.                  *)
LEMMA LastDigit ==
  ASSUME NEW path \in Paths
  PROVE  path \div paths_reachable[tree_depth - 1] = 0
<1>1. tree_depth \in 1 .. tree_depth /\ tree_depth - 1 \in 0 .. tree_depth /\ tree_depth \in 0 .. tree_depth
  BY FatTreeAssumption
<1> DEFINE m == paths_reachable[tree_depth - 1]
           n == paths_reachable[tree_depth]
<1>2. m \in Nat \ {0} /\ n = m * up_radix[tree_depth] /\ up_radix[tree_depth] = 1
  BY <1>1, PathsReachable
<1> HIDE DEF m
<1>3. n = m
  BY <1>2
<1>4. path \in 0 .. m - 1
  BY <1>3 DEF Paths
<1>5. path \div m = 0
  BY <1>2, <1>4, DivisionSimple
<1> QED BY <1>5 DEF m

(* The way up by the cables of the tree is that of the path's links.       *)
Below(climb, d) ==
  IF d = tree_depth - 1 THEN Server(Self)
  ELSE [depth |-> d + 1, tree |-> SubTree(d + 1, Self), index |-> climb[d + 1]]

Climbed(climb, path, d) ==
  Peer([node |-> Below(climb, d), dir |-> "up", number |->
          IF Below(climb, d).depth = tree_depth THEN 0
          ELSE getPathID(Below(climb, d).depth, path)]).node.index

(* A cable up has the number of the link, if the one below has.            *)
LEMMA ClimbedIs ==
  ASSUME NEW path \in Paths, NEW climb, NEW d \in Levels,
         d # tree_depth - 1 => climb[d + 1] = path \div paths_reachable[d + 1]
  PROVE  Climbed(climb, path, d) = path \div paths_reachable[d]
<1> DEFINE below == Below(climb, d)
           number == IF below.depth = tree_depth THEN 0 ELSE getPathID(below.depth, path)
           port == [node |-> below, dir |-> "up", number |-> number]
<1>1. Climbed(climb, path, d) = Peer(port).node.index
  BY DEF Climbed
<1>2. port.dir = "up" /\ port.node = below /\ port.number = number
  OBVIOUS
<1> HIDE DEF port, number, below
<1>3. Peer(port).node.index = below.index * up_radix[below.depth] + number
  BY <1>2 DEF Peer
<1>4. CASE d = tree_depth - 1
  <2>1. below.depth = tree_depth /\ below.index = 0
    BY <1>4 DEF below, Below, Server
  <2>2. number = 0
    BY <2>1 DEF number
  <2>3. up_radix[tree_depth] = 1
    BY PathsReachable
  <2>4. Peer(port).node.index = 0
    BY <1>3, <2>1, <2>2, <2>3
  <2> QED BY <1>1, <1>4, <2>4, LastDigit
<1>5. CASE d # tree_depth - 1
  <2>1. below.depth = d + 1 /\ below.index = path \div paths_reachable[d + 1]
    BY <1>5 DEF below, Below
  <2>2. d + 1 # tree_depth
    BY <1>5, FatTreeAssumption DEF Levels
  <2>3. number = getPathID(d + 1, path)
    BY <2>1, <2>2 DEF number
  <2> QED BY <1>1, <1>3, <2>1, <2>3, PathAbove
<1> QED BY <1>4, <1>5

(* So all of them have, from the server up.                                *)
LEMMA UpCablesAre ==
  ASSUME NEW path \in Paths
  PROVE  \A d \in Levels : UpCables(path)[d] = path \div paths_reachable[d]
<1> DEFINE g == UpCables(path)
           f == LinkAt(path)
           n == tree_depth - 1
<1>1. g = CHOOSE climb : climb = [d \in Levels |-> Climbed(climb, path, d)]
  BY DEF UpCables, Climbed, Below
<1>2. f = [d \in Levels |-> Climbed(f, path, d)]
  <2>1. ASSUME NEW d \in Levels PROVE Climbed(f, path, d) = path \div paths_reachable[d]
    <3>1. d # n => d + 1 \in Levels
      BY FatTreeAssumption DEF Levels
    <3>2. d # n => f[d + 1] = path \div paths_reachable[d + 1]
      BY <3>1 DEF LinkAt
    <3> HIDE DEF f
    <3> QED BY <3>2, ClimbedIs
  <2>2. f = [d \in Levels |-> path \div paths_reachable[d]]
    BY DEF LinkAt
  <2> HIDE DEF f
  <2> QED BY <2>1, <2>2
<1> HIDE DEF g, f
<1>3. g = [d \in Levels |-> Climbed(g, path, d)]
  BY <1>1, <1>2
<1>4. \A d \in Levels : g[d] = Climbed(g, path, d)
  BY <1>3
<1> DEFINE T == {k \in Nat : k <= n => g[n - k] = path \div paths_reachable[n - k]}
<1>5. n \in Nat /\ Levels = 0 .. n
  BY FatTreeAssumption DEF Levels
<1>6. 0 \in T
  <2>1. n \in Levels /\ n - 0 = n
    BY <1>5
  <2>2. Climbed(g, path, n) = path \div paths_reachable[n]
    BY <2>1, ClimbedIs
  <2> QED BY <1>4, <2>1, <2>2
<1>7. ASSUME NEW k \in T PROVE k + 1 \in T
  <2> SUFFICES ASSUME k + 1 <= n PROVE g[n - (k + 1)] = path \div paths_reachable[n - (k + 1)]
    OBVIOUS
  <2> DEFINE m == n - (k + 1)
  <2>1. m \in Levels /\ m + 1 = n - k /\ k <= n
    BY <1>5
  <2>2. g[m + 1] = path \div paths_reachable[m + 1]
    BY <2>1
  <2> HIDE DEF m, T
  <2>3. Climbed(g, path, m) = path \div paths_reachable[m]
    BY <2>1, <2>2, ClimbedIs
  <2>4. g[m] = path \div paths_reachable[m]
    BY <1>4, <2>1, <2>3
  <2> QED BY <2>4 DEF m
<1>8. \A k \in Nat : k \in T
  <2> HIDE DEF T
  <2>1. T \in SUBSET Nat
    BY DEF T
  <2> QED BY <1>6, <1>7, <2>1, NatSetInduction
<1>9. ASSUME NEW d \in Levels PROVE g[d] = path \div paths_reachable[d]
  <2>1. n - d \in Nat /\ n - d <= n /\ n - (n - d) = d
    BY <1>5
  <2>2. n - d \in T
    BY <1>8, <2>1
  <2> QED BY <2>1, <2>2
<1> QED BY <1>9 DEF g

(* And so is the way down.                                                 *)
Fallen(fall, daddr, d) ==
  Peer([node |-> [depth |-> d - 1, tree |-> SubTree(d - 1, daddr), index |-> fall[d - 1]],
        dir |-> "down", number |-> getLevelID(d - 1, daddr)]).node.index

(* A cable down, too, has the number of the link.                          *)
LEMMA DownCablesAre ==
  ASSUME NEW path \in Paths, NEW turn \in Levels, NEW daddr
  PROVE  \A d \in turn .. tree_depth - 1 :
           DownCables(turn, daddr, path)[d] = path \div paths_reachable[d]
<1> DEFINE n == tree_depth - 1
           g == DownCables(turn, daddr, path)
           Value(fall, d) == IF d = turn THEN UpCables(path)[turn] ELSE Fallen(fall, daddr, d)
           f == [d \in turn .. n |-> path \div paths_reachable[d]]
<1>1. g = CHOOSE fall : fall = [d \in turn .. n |-> Value(fall, d)]
  BY DEF DownCables, Fallen
<1>2. n \in Nat /\ Levels = 0 .. n /\ turn \in 0 .. n
  BY FatTreeAssumption DEF Levels
<1>3. ASSUME NEW fall, NEW d \in turn .. n, d # turn => fall[d - 1] = path \div paths_reachable[d - 1]
      PROVE  Value(fall, d) = path \div paths_reachable[d]
  <2>1. CASE d = turn
    BY <2>1, UpCablesAre
  <2>2. CASE d # turn
    <3> DEFINE port == [node |-> [depth |-> d - 1, tree |-> SubTree(d - 1, daddr), index |-> fall[d - 1]],
                        dir |-> "down", number |-> getLevelID(d - 1, daddr)]
    <3>1. port.dir = "down" /\ port.node.depth = d - 1 /\ port.node.index = fall[d - 1]
      OBVIOUS
    <3>2. Fallen(fall, daddr, d) = Peer(port).node.index
      BY DEF Fallen
    <3> HIDE DEF port
    <3>3. Peer(port).node.index = fall[d - 1] \div up_radix[(d - 1) + 1]
      BY <3>1 DEF Peer
    <3>4. d - 1 \in Levels /\ (d - 1) + 1 = d
      BY <1>2, <2>2
    <3>5. (path \div paths_reachable[d - 1]) \div up_radix[(d - 1) + 1] = path \div paths_reachable[(d - 1) + 1]
      BY <3>4, PathAbove
    <3>6. Fallen(fall, daddr, d) = path \div paths_reachable[d]
      BY <1>3, <2>2, <3>2, <3>3, <3>4, <3>5
    <3> QED BY <2>2, <3>6
  <2> QED BY <2>1, <2>2
<1>4. f = [d \in turn .. n |-> Value(f, d)]
  <2>1. ASSUME NEW d \in turn .. n PROVE Value(f, d) = path \div paths_reachable[d]
    <3>1. d # turn => d - 1 \in turn .. n
      BY <1>2
    <3>2. d # turn => f[d - 1] = path \div paths_reachable[d - 1]
      BY <3>1
    <3> HIDE DEF f, Value
    <3> QED BY <1>3, <3>2
  <2>2. f = [d \in turn .. n |-> path \div paths_reachable[d]]
    OBVIOUS
  <2> HIDE DEF f, Value
  <2> QED BY <2>1, <2>2
<1> HIDE DEF g, f
<1>5. g = [d \in turn .. n |-> Value(g, d)]
  BY <1>1, <1>4
<1>6. \A d \in turn .. n : g[d] = Value(g, d)
  BY <1>5
<1> HIDE DEF Value
<1> DEFINE T == {k \in Nat : turn + k <= n => g[turn + k] = path \div paths_reachable[turn + k]}
<1>7. 0 \in T
  <2>1. turn + 0 = turn /\ turn \in turn .. n
    BY <1>2
  <2>2. Value(g, turn) = path \div paths_reachable[turn]
    BY <1>3, <2>1
  <2> QED BY <1>6, <2>1, <2>2
<1>8. ASSUME NEW k \in T PROVE k + 1 \in T
  <2> SUFFICES ASSUME turn + (k + 1) <= n PROVE g[turn + (k + 1)] = path \div paths_reachable[turn + (k + 1)]
    OBVIOUS
  <2> DEFINE m == turn + (k + 1)
  <2>1. m \in turn .. n /\ m - 1 = turn + k /\ turn + k <= n
    BY <1>2
  <2>2. g[m - 1] = path \div paths_reachable[m - 1]
    BY <2>1
  <2> HIDE DEF m, T
  <2>3. Value(g, m) = path \div paths_reachable[m]
    BY <1>3, <2>1, <2>2
  <2>4. g[m] = path \div paths_reachable[m]
    BY <1>6, <2>1, <2>3
  <2> QED BY <2>4 DEF m
<1>9. \A k \in Nat : k \in T
  <2> HIDE DEF T
  <2>1. T \in SUBSET Nat
    BY DEF T
  <2> QED BY <1>7, <1>8, <2>1, NatSetInduction
<1>10. ASSUME NEW d \in turn .. n PROVE g[d] = path \div paths_reachable[d]
  <2>1. d - turn \in Nat /\ turn + (d - turn) = d /\ d <= n
    BY <1>2
  <2>2. d - turn \in T
    BY <1>9, <2>1
  <2> QED BY <2>1, <2>2
<1> QED BY <1>10 DEF g

-----------------------------------------------------------------------------
(* The link of a path is the number of its cable.                          *)

(* As many paths share a link as switches above tell apart.                *)
LEMMA PathsPerLink ==
  ASSUME NEW l \in Levels
  PROVE  paths_reachable[tree_depth] \div up_links[l + 1] = paths_reachable[l]
<1> DEFINE p == paths_reachable[l]
           u == up_links[l + 1]
           w == paths_reachable[tree_depth]
<1>1. l \in 0 .. tree_depth /\ l + 1 \in 1 .. tree_depth
  BY FatTreeAssumption DEF Levels
<1>2. p \in Nat \ {0} /\ u \in Nat \ {0} /\ w = p * u
  BY <1>1, PathsReachable, UpLinks, PathsOfLinks
<1> HIDE DEF p, u, w
<1>3. p * u = u * p
  BY <1>2, Z3
<1>4. (u * p) \div u = p
  BY <1>2, DivisionSimple
<1>5. w \div u = p
  BY <1>2, <1>3, <1>4
<1> QED BY <1>5 DEF p, u, w

(* A set of numbers with a bound has a largest one.                        *)
LEMMA Largest ==
  ASSUME NEW n \in Nat, NEW S \in SUBSET (0 .. n), S # {}
  PROVE  Max(S) \in S /\ \A e \in S : Max(S) >= e
<1> DEFINE D == {n - d : d \in S}
           R == OpToRel(<, Nat)
<1>1. D \subseteq Nat /\ D # {}
  <2>1. PICK e \in S : TRUE
    OBVIOUS
  <2>2. n - e \in D
    BY <2>1
  <2>3. \A d \in S : n - d \in Nat
    OBVIOUS
  <2> QED BY <2>2, <2>3
<1>2. \A x, y \in Nat : <<x, y>> \in R <=> x < y
  BY DEF OpToRel
<1>3. IsWellFoundedOn(R, Nat)
  BY NatLessThanWellFounded
<1> HIDE DEF D, R
<1>4. PICK m \in D : \A k \in D : ~ (<<k, m>> \in R)
  BY <1>1, <1>3, WFMin
<1>5. PICK d \in S : m = n - d
  BY DEF D
<1>6. \A e \in S : d >= e
  <2> SUFFICES ASSUME NEW e \in S PROVE d >= e
    OBVIOUS
  <2>1. n - e \in D /\ n - e \in Nat /\ m \in Nat
    BY <1>1 DEF D
  <2>2. ~ (n - e < m)
    BY <1>2, <1>4, <2>1
  <2> QED BY <1>5, <2>2
<1> QED BY <1>6 DEF Max

(* There is a level where a packet turns.                                  *)
LEMMA TurnIsLevel == ASSUME NEW daddr PROVE TurnLevel(daddr) \in Levels
<1> DEFINE S == {d \in Levels : compareSubTree(d, Self, daddr)}
           n == tree_depth - 1
<1>1. n \in Nat /\ Levels = 0 .. n
  BY FatTreeAssumption DEF Levels
<1>2. 0 \in S
  <2>1. 0 .. 0 - 1 = {}
    OBVIOUS
  <2>2. compareSubTree(0, Self, daddr)
    BY <2>1 DEF compareSubTree
  <2> QED BY <1>1, <2>2
<1>3. S \in SUBSET (0 .. n) /\ S # {}
  BY <1>1, <1>2
<1>4. TurnLevel(daddr) = Max(S)
  BY DEF TurnLevel
<1> HIDE DEF S, n
<1>5. Max(S) \in S
  BY <1>1, <1>3, Largest
<1> QED BY <1>1, <1>3, <1>4, <1>5

(* The nodes a packet visits, and that its links there are its cables.     *)
LEMMA LinksAreCables ==
  ASSUME NEW daddr \in Servers, NEW n \in VisitedFor[daddr], NEW path \in Paths
  PROVE  n \in MPNodes /\ LinkOf[n][path] = CableOf[daddr][n][path]
<1> DEFINE turn == TurnLevel(daddr)
<1>1. turn \in Levels /\ Levels = 0 .. tree_depth - 1 /\ tree_depth \in Nat
  BY TurnIsLevel, FatTreeAssumption DEF Levels
<1>2. n \in Visited(daddr)
  BY DEF VisitedFor
<1>3. CableOf[daddr][n][path] = Cable(n, daddr, path)
  BY <1>2 DEF CableOf
<1> HIDE DEF turn
<1>4. CASE \E d \in turn .. tree_depth - 1 : n = UpNode(d)
  <2>1. PICK d \in turn .. tree_depth - 1 : n = UpNode(d)
    BY <1>4
  <2>2. d \in Levels
    BY <1>1
  <2>3. n.dir = "up" /\ n.depth = d
    BY <2>1 DEF UpNode
  <2>4. n \in MPNodes
    BY <2>1, <2>2 DEF MPNodes
  <2>5. numLinks(n) = up_links[d + 1]
    BY <2>3 DEF numLinks
  <2>6. LinkOf[n][path] = path \div paths_reachable[d]
    BY <2>2, <2>4, <2>5, PathsPerLink DEF LinkOf, linkForPath
  <2>7. Cable(n, daddr, path) = UpCables(path)[d]
    BY <2>3 DEF Cable
  <2> QED BY <1>3, <2>2, <2>4, <2>6, <2>7, UpCablesAre
<1>5. CASE \E d \in turn + 1 .. tree_depth - 1 : n = DownNode(d, daddr)
  <2>1. PICK d \in turn + 1 .. tree_depth - 1 : n = DownNode(d, daddr)
    BY <1>5
  <2>2. d \in Levels \ {0} /\ d - 1 \in Levels /\ d - 1 \in turn .. tree_depth - 1 /\ (d - 1) + 1 = d
    BY <1>1
  <2>3. n.dir = "down" /\ n.depth = d
    BY <2>1 DEF DownNode
  <2>4. n \in MPNodes
    BY <2>1, <2>2 DEF MPNodes
  <2>5. numLinks(n) = up_links[(d - 1) + 1]
    BY <2>2, <2>3 DEF numLinks
  <2>6. LinkOf[n][path] = path \div paths_reachable[d - 1]
    BY <2>2, <2>4, <2>5, PathsPerLink DEF LinkOf, linkForPath
  <2>7. Cable(n, daddr, path) = DownCables(turn, daddr, path)[d - 1]
    BY <2>3 DEF Cable, turn
  <2> QED BY <1>1, <1>3, <2>2, <2>4, <2>6, <2>7, DownCablesAre
<1> QED BY <1>2, <1>4, <1>5 DEF Visited, turn

-----------------------------------------------------------------------------
(* Credits.                                                                *)

(* The links of a sub-tree that MPLoadBalancer counts.                     *)
Links(n) == 0 .. numLinks(n) - 1

(* Credits and loads of the links of one sub-tree that agree.              *)
Agree(L, c, s) ==
  /\ c \in [L -> Int] /\ s \in [L -> Int]
  /\ \A i \in L : c[0] - c[i] = s[i]

(* Credits and loads of every sub-tree agree.                              *)
CreditsInv ==
  /\ pathList \in PathLists
  /\ \A n \in MPNodes : Agree(Links(n), linkCredits[n], load[n])

(* Credits c after a packet of b bytes on link k and q more for each link. *)
Charged(L, c, k, b, q, d) ==
  d \in [L -> Int] /\ \A i \in L : d[i] = (IF i = k THEN c[i] - b ELSE c[i]) + q

(* There is a first link.                                                  *)
LEMMA FirstLink == ASSUME NEW n \in MPNodes PROVE numLinks(n) \in Nat \ {0} /\ 0 \in Links(n)
<1>1. numLinks(n) \in Nat \ {0}
  <2>1. CASE \E d \in Levels : n = UpNode(d)
    <3>1. PICK d \in Levels : n = UpNode(d)
      BY <2>1
    <3>2. d + 1 \in 1 .. tree_depth /\ numLinks(n) = up_links[d + 1]
      BY <3>1, FatTreeAssumption DEF Levels, numLinks, UpNode
    <3> QED BY <3>2, UpLinks
  <2>2. CASE \E d \in Levels \ {0}, a \in Servers : n = DownNode(d, a)
    <3>1. PICK d \in Levels \ {0}, a \in Servers : n = DownNode(d, a)
      BY <2>2
    <3>2. d \in 1 .. tree_depth /\ numLinks(n) = up_links[d]
      BY <3>1, FatTreeAssumption DEF Levels, numLinks, DownNode
    <3> QED BY <3>2, UpLinks
  <2> QED BY <2>1, <2>2 DEF MPNodes
<1> QED BY <1>1 DEF Links

(* A packet on a link and on a cable of the same number changes credits    *)
(* and load alike, with a quantum for all links or without.                *)
LEMMA CreditStep ==
  ASSUME NEW L, 0 \in L, NEW c, NEW s, Agree(L, c, s),
         NEW k, NEW b \in Int, NEW q \in Int, NEW d, Charged(L, c, k, b, q, d)
  PROVE  Agree(L, d, AddLoad(s, k, b))
<1>0. /\ c \in [L -> Int] /\ s \in [L -> Int] /\ d \in [L -> Int]
      /\ \A i \in L : c[0] - c[i] = s[i]
      /\ \A i \in L : d[i] = (IF i = k THEN c[i] - b ELSE c[i]) + q
  BY DEF Agree, Charged
<1> DEFINE sum == [s EXCEPT ![k] = @ + b]
           t == AddLoad(s, k, b)
<1>1. sum \in [L -> Int] /\ \A i \in L : sum[i] = IF i = k THEN s[i] + b ELSE s[i]
  <2>1. sum = [i \in L |-> IF i = k THEN s[i] + b ELSE s[i]]
    BY <1>0
  <2>2. \A i \in L : s[i] \in Int /\ s[i] + b \in Int
    BY <1>0
  <2> HIDE DEF sum
  <2> QED BY <2>1, <2>2
<1>2. t = [i \in L |-> sum[i] - sum[0]]
  BY <1>1 DEF AddLoad
<1> HIDE DEF sum, t
<1>3. t \in [L -> Int] /\ \A i \in L : t[i] = sum[i] - sum[0]
  BY <1>1, <1>2
<1>4. ASSUME NEW i \in L PROVE d[0] - d[i] = t[i]
  <2>1. c[0] - c[i] = s[i] /\ c[0] - c[0] = s[0]
    BY <1>0
  <2>2. c[0] \in Int /\ c[i] \in Int /\ s[i] \in Int /\ s[0] \in Int
    BY <1>0
  <2>3. t[i] = sum[i] - sum[0]
    BY <1>3
  <2>4. /\ d[i] = (IF i = k THEN c[i] - b ELSE c[i]) + q
        /\ d[0] = (IF 0 = k THEN c[0] - b ELSE c[0]) + q
    BY <1>0
  <2>5. /\ sum[i] = IF i = k THEN s[i] + b ELSE s[i]
        /\ sum[0] = IF 0 = k THEN s[0] + b ELSE s[0]
    BY <1>1
  <2> DEFINE ci == c[i]
             c0 == c[0]
             si == s[i]
             s0 == s[0]
             di == d[i]
             d0 == d[0]
             ui == sum[i]
             u0 == sum[0]
  <2> HIDE DEF ci, c0, si, s0, di, d0, ui, u0
  <2>6. /\ ci \in Int /\ c0 \in Int /\ si = c0 - ci /\ s0 = 0
        /\ di = (IF i = k THEN ci - b ELSE ci) + q /\ d0 = (IF 0 = k THEN c0 - b ELSE c0) + q
        /\ ui = (IF i = k THEN si + b ELSE si) /\ u0 = (IF 0 = k THEN s0 + b ELSE s0)
    BY <2>1, <2>2, <2>4, <2>5 DEF ci, c0, si, s0, di, d0, ui, u0
  <2>7. d0 - di = ui - u0
    BY <2>6
  <2> QED BY <2>3, <2>7 DEF di, d0, ui, u0
<1> QED BY <1>0, <1>3, <1>4 DEF t, Agree

(* A packet visits finitely many sub-trees.                                *)
LEMMA FewVisited == ASSUME NEW daddr \in Servers PROVE IsFiniteSet(VisitedFor[daddr])
<1> DEFINE turn == TurnLevel(daddr)
           ups == turn .. tree_depth - 1
           downs == turn + 1 .. tree_depth - 1
           up == [d \in ups |-> UpNode(d)]
           down == [d \in downs |-> DownNode(d, daddr)]
           Up == {UpNode(d) : d \in ups}
           Down == {DownNode(d, daddr) : d \in downs}
<1>1. turn \in Int /\ turn + 1 \in Int /\ tree_depth - 1 \in Int
  BY TurnIsLevel, FatTreeAssumption DEF Levels
<1>2. VisitedFor[daddr] = Up \cup Down
  BY DEF VisitedFor, Visited
<1> HIDE DEF turn
<1>3. IsFiniteSet(ups) /\ IsFiniteSet(downs)
  BY <1>1, FS_Interval
<1> HIDE DEF ups, downs
<1>4. IsFiniteSet(Up)
  <2>1. up \in Surjection(ups, Up)
    BY DEF Surjection
  <2> QED BY <1>3, <2>1, FS_Surjection
<1>5. IsFiniteSet(Down)
  <2>1. down \in Surjection(downs, Down)
    BY DEF Surjection
  <2> QED BY <1>3, <2>1, FS_Surjection
<1> HIDE DEF Up, Down
<1> QED BY <1>2, <1>4, <1>5, FS_Union

(* The link of a path is one of its sub-tree's.                            *)
LEMMA LinkIsOne ==
  ASSUME NEW n \in MPNodes, NEW path \in Paths
  PROVE  LinkOf[n][path] \in Links(n)
<1>1. numLinks(n) \in Nat \ {0}
  BY FirstLink
<1>2. PICK l \in Levels : numLinks(n) = up_links[l + 1]
  <2>1. CASE \E d \in Levels : n = UpNode(d)
    BY <2>1 DEF numLinks, UpNode
  <2>2. CASE \E d \in Levels \ {0}, a \in Servers : n = DownNode(d, a)
    <3>1. PICK d \in Levels \ {0}, a \in Servers : n = DownNode(d, a)
      BY <2>2
    <3>2. numLinks(n) = up_links[d]
      BY <3>1 DEF numLinks, DownNode
    <3>3. d - 1 \in Levels /\ (d - 1) + 1 = d
      BY FatTreeAssumption DEF Levels
    <3> QED BY <3>2, <3>3
  <2> QED BY <2>1, <2>2 DEF MPNodes
<1> DEFINE p == paths_reachable[l]
           u == numLinks(n)
           w == paths_reachable[tree_depth]
           q == path \div p
<1>3. p \in Nat \ {0} /\ w = p * u
  <2>1. l \in 0 .. tree_depth
    BY FatTreeAssumption DEF Levels
  <2> QED BY <1>2, <2>1, PathsReachable, PathsOfLinks
<1>4. LinkOf[n][path] = q
  BY <1>2, PathsPerLink DEF LinkOf, linkForPath
<1>5. path \in Nat /\ path < w
  <2>1. w \in Int
    BY PathsReachable, FatTreeAssumption
  <2> HIDE DEF w
  <2> QED BY <2>1 DEF Paths, w
<1> HIDE DEF p, w, u
<1>6. q \in Nat /\ path = p * q + (path % p) /\ path % p \in Nat
  BY <1>3, <1>5, Division
<1> HIDE DEF q
<1>7. q < u
  <2> DEFINE r == path % p
  <2>1. r \in Nat /\ path = p * q + r
    BY <1>6
  <2> HIDE DEF r
  <2> SUFFICES ASSUME q >= u PROVE FALSE
    BY <1>1, <1>6 DEF u
  <2>2. u \in Nat
    BY <1>1 DEF u
  <2>3. PICK e \in Nat : q = u + e
    <3>1. q - u \in Nat /\ q = u + (q - u)
      BY <1>6, <2>2
    <3> QED BY <3>1
  <2>4. p * q = p * u + p * e
    BY <1>3, <2>2, <2>3, Z3
  <2>5. p * e \in Nat /\ p * u \in Nat
    BY <1>3, <2>2, <2>3, Z3
  <2> DEFINE x == p * u
             y == p * e
             z == p * q
  <2> HIDE DEF x, y, z
  <2>6. z = x + y /\ x \in Nat /\ y \in Nat /\ path = z + r /\ path < x
    BY <1>3, <1>5, <2>1, <2>4, <2>5 DEF x, y, z
  <2> QED BY <2>1, <2>6
<1> QED BY <1>4, <1>1, <1>6, <1>7 DEF Links, u

(* The credits on a path are a number.                                     *)
LEMMA CreditsAreInt ==
  ASSUME CreditsInv, NEW daddr \in Servers, NEW path \in Paths
  PROVE  creditsOnPath(daddr, path) \in Int
<1> DEFINE S == VisitedFor[daddr]
           f == [n \in S |-> linkCredits[n][LinkOf[n][path]]]
<1>1. \A n \in S : f[n] \in Int
  <2> SUFFICES ASSUME NEW n \in S PROVE linkCredits[n][LinkOf[n][path]] \in Int
    OBVIOUS
  <2>1. n \in MPNodes
    BY LinksAreCables
  <2>2. LinkOf[n][path] \in Links(n)
    BY <2>1, LinkIsOne
  <2> QED BY <2>1, <2>2 DEF CreditsInv, Agree
<1>2. IsFiniteSet(S) /\ DOMAIN f = S /\ creditsOnPath(daddr, path) = SumFunction(f)
  BY FewVisited DEF creditsOnPath
<1>3. Int \in {Nat, Int}
  OBVIOUS
<1> HIDE DEF S, f
<1>4. SumFunctionOnSet(f, S) \in Int
  BY <1>1, <1>2, <1>3, SumType
<1> QED BY <1>2, <1>4 DEF SumFunction

(* Of the numbers of a list there is a first largest.                      *)
LEMMA FirstLargest ==
  ASSUME NEW N \in Nat \ {0}, NEW c, \A i \in 0 .. N - 1 : c[i] \in Int
  PROVE  \E i \in 0 .. N - 1 : \A j \in 0 .. N - 1 : c[i] > c[j] \/ (c[i] = c[j] /\ i <= j)
<1> DEFINE Best(i, k) == \A j \in 0 .. k : c[i] > c[j] \/ (c[i] = c[j] /\ i <= j)
           T == {k \in Nat : k <= N - 1 => \E i \in 0 .. k : Best(i, k)}
<1>1. 0 \in T
  <2>1. 0 .. 0 = {0} /\ c[0] \in Int
    OBVIOUS
  <2> QED BY <2>1
<1>2. ASSUME NEW k \in T PROVE k + 1 \in T
  <2> SUFFICES ASSUME k + 1 <= N - 1 PROVE \E i \in 0 .. k + 1 : Best(i, k + 1)
    OBVIOUS
  <2>1. k \in Nat /\ k <= N - 1
    OBVIOUS
  <2>2. PICK i \in 0 .. k : Best(i, k)
    BY <2>1
  <2>3. /\ c[i] \in Int /\ c[k + 1] \in Int /\ \A j \in 0 .. k : c[j] \in Int
        /\ i \in 0 .. k + 1 /\ k + 1 \in 0 .. k + 1
        /\ \A j \in 0 .. k + 1 : j \in 0 .. k \/ j = k + 1
    BY <2>1
  <2> HIDE DEF T
  <2>4. CASE c[k + 1] > c[i]
    <3>1. Best(k + 1, k + 1)
      <4> SUFFICES ASSUME NEW j \in 0 .. k + 1
                   PROVE  c[k + 1] > c[j] \/ (c[k + 1] = c[j] /\ k + 1 <= j)
        OBVIOUS
      <4>1. CASE j \in 0 .. k
        <5>1. c[i] >= c[j] /\ c[j] \in Int
          BY <2>2, <2>3, <4>1
        <5> QED BY <2>3, <2>4, <5>1
      <4>2. CASE j = k + 1
        BY <2>1, <4>2
      <4> QED BY <2>3, <4>1, <4>2
    <3> QED BY <2>3, <3>1
  <2>5. CASE ~ (c[k + 1] > c[i])
    <3>1. Best(i, k + 1)
      <4> SUFFICES ASSUME NEW j \in 0 .. k + 1
                   PROVE  c[i] > c[j] \/ (c[i] = c[j] /\ i <= j)
        OBVIOUS
      <4>1. CASE j \in 0 .. k
        BY <2>2, <4>1
      <4>2. CASE j = k + 1
        <5>1. c[i] > c[j] \/ c[i] = c[j]
          BY <2>3, <2>5, <4>2
        <5>2. i <= j
          BY <2>1, <4>2
        <5> QED BY <5>1, <5>2
      <4> QED BY <2>3, <4>1, <4>2
    <3> QED BY <2>3, <3>1
  <2> QED BY <2>4, <2>5
<1>3. \A k \in Nat : k \in T
  <2> HIDE DEF T
  <2>1. T \in SUBSET Nat
    BY DEF T
  <2> QED BY <1>1, <1>2, <2>1, NatSetInduction
<1>4. N - 1 \in Nat /\ N - 1 \in T
  BY <1>3
<1> QED BY <1>4

(* The path that is taken is one of the tree's.                            *)
LEMMA ChosenIsPath ==
  ASSUME CreditsInv, pathList' \in PathLists, NEW daddr \in Servers
  PROVE  choosePath(daddr) \in Paths
<1> DEFINE N == Cardinality(Paths)
           list == pathList'
           c == [i \in 0 .. N - 1 |-> creditsOnPath(daddr, list[i])]
           ranked == {[at |-> i, credits |-> creditsOnPath(daddr, list[i])] : i \in 0 .. N - 1}
           IsFirst(r) == \A q \in ranked :
                           r.credits > q.credits \/ (r.credits = q.credits /\ r.at <= q.at)
           first == CHOOSE r \in ranked : IsFirst(r)
<1>1. N \in Nat \ {0}
  <2> DEFINE w == paths_reachable[tree_depth]
  <2>1. w \in Nat \ {0}
    BY PathsReachable, FatTreeAssumption
  <2>2. Paths = 0 .. w - 1
    BY DEF Paths
  <2> HIDE DEF w
  <2>3. w - 1 \in Int /\ ~ (0 > w - 1) /\ (w - 1) - 0 + 1 = w
    BY <2>1
  <2>4. Cardinality(0 .. w - 1) = w
    BY <2>3, FS_Interval
  <2> QED BY <2>1, <2>2, <2>4
<1>2. DOMAIN pathList = 0 .. N - 1
  BY DEF CreditsInv, PathLists, Bijection, Injection
<1>3. list \in [0 .. N - 1 -> Paths]
  BY DEF PathLists, Bijection, Injection
<1>4. choosePath(daddr) = list[first.at]
  BY <1>2 DEF choosePath
<1> HIDE DEF N, list
<1>5. \A i \in 0 .. N - 1 : c[i] \in Int
  BY <1>3, CreditsAreInt
<1>6. \A i \in 0 .. N - 1 : c[i] = creditsOnPath(daddr, list[i])
  OBVIOUS
<1> HIDE DEF c
<1>7. PICK i \in 0 .. N - 1 : \A j \in 0 .. N - 1 : c[i] > c[j] \/ (c[i] = c[j] /\ i <= j)
  BY <1>1, <1>5, FirstLargest
<1> DEFINE r0 == [at |-> i, credits |-> creditsOnPath(daddr, list[i])]
<1>8. r0 \in ranked /\ r0.at = i /\ r0.credits = c[i]
  BY <1>6
<1>9. IsFirst(r0)
  <2> SUFFICES ASSUME NEW q \in ranked
               PROVE  r0.credits > q.credits \/ (r0.credits = q.credits /\ r0.at <= q.at)
    OBVIOUS
  <2>1. PICK j \in 0 .. N - 1 : q = [at |-> j, credits |-> creditsOnPath(daddr, list[j])]
    OBVIOUS
  <2>2. q.at = j /\ q.credits = c[j]
    BY <1>6, <2>1
  <2> HIDE DEF r0
  <2> QED BY <1>7, <1>8, <2>2
<1>10. first \in ranked
  <2> HIDE DEF r0, ranked, IsFirst
  <2> QED BY <1>8, <1>9
<1>11. first.at \in 0 .. N - 1
  <2> HIDE DEF first
  <2>1. PICK j \in 0 .. N - 1 : first = [at |-> j, credits |-> creditsOnPath(daddr, list[j])]
    BY <1>10
  <2> QED BY <2>1
<1> HIDE DEF first
<1> QED BY <1>3, <1>4, <1>11

(* A list of the paths is kept, or there is another one.                   *)
LEMMA ListIsKept == CreditsInv /\ Shuffle => pathList' \in PathLists
BY DEF CreditsInv, Shuffle

(* A packet changes the credits and the loads of the sub-trees it visits   *)
(* alike.                                                                  *)
LEMMA CreditsOfPacket ==
  ASSUME CreditsInv, NEW daddr \in Servers, NEW bytes \in PktBytes, MPHandleMessage(daddr, bytes)
  PROVE  CreditsInv'
<1> DEFINE path == choosePath(daddr)
           credits(n) == IF n \in VisitedFor[daddr] THEN PerformAccounting(n, path, bytes)
                         ELSE linkCredits[n]
           loads(n) == IF n \in VisitedFor[daddr] THEN AddLoad(load[n], CableOf[daddr][n][path], bytes)
                       ELSE load[n]
<1>1. pathList' \in PathLists
  BY ListIsKept DEF MPHandleMessage
<1>2. path \in Paths
  BY <1>1, ChosenIsPath
<1>3. linkCredits' = [n \in MPNodes |-> credits(n)] /\ load' = [n \in MPNodes |-> loads(n)]
  BY DEF MPHandleMessage
<1>4. bytes \in Int /\ Quantum \in Int
  BY QuantumAssumption
<1> HIDE DEF path
<1>5. ASSUME NEW n \in MPNodes PROVE Agree(Links(n), credits(n), loads(n))
  <2>1. Agree(Links(n), linkCredits[n], load[n])
    BY DEF CreditsInv
  <2>2. CASE n \notin VisitedFor[daddr]
    BY <2>1, <2>2
  <2>3. CASE n \in VisitedFor[daddr]
    <3> DEFINE L == Links(n)
               c == linkCredits[n]
               s == load[n]
               k == LinkOf[n][path]
               left == [c EXCEPT ![k] = @ - bytes]
               d == PerformAccounting(n, path, bytes)
    <3>1. CableOf[daddr][n][path] = k
      BY <1>2, <2>3, LinksAreCables
    <3>2. credits(n) = d /\ loads(n) = AddLoad(s, k, bytes)
      BY <2>3, <3>1
    <3>3. 0 \in L /\ c \in [L -> Int] /\ s \in [L -> Int] /\ \A i \in L : c[0] - c[i] = s[i]
      BY <2>1, FirstLink DEF Agree
    <3>4. left \in [L -> Int] /\ \A i \in L : left[i] = IF i = k THEN c[i] - bytes ELSE c[i]
      <4> HIDE DEF L, c, s, k
      <4>1. left = [i \in L |-> IF i = k THEN c[i] - bytes ELSE c[i]]
        BY <3>3
      <4>2. \A i \in L : c[i] \in Int /\ c[i] - bytes \in Int
        BY <1>4, <3>3
      <4> HIDE DEF left
      <4> QED BY <4>1, <4>2
    <3>5. d = left \/ d = [i \in L |-> left[i] + Quantum]
      BY <3>4 DEF PerformAccounting
    <3> HIDE DEF L, c, s, k, d, left
    <3>6. PICK q \in Int : d \in [L -> Int] /\ \A i \in L : d[i] = left[i] + q
      <4>1. CASE d = left
        <5>1. 0 \in Int /\ \A i \in L : d[i] = left[i] + 0
          BY <3>4, <4>1
        <5> QED BY <3>4, <4>1, <5>1
      <4>2. CASE d = [i \in L |-> left[i] + Quantum]
        BY <1>4, <3>4, <4>2
      <4> QED BY <3>5, <4>1, <4>2
    <3>7. Charged(L, c, k, bytes, q, d)
      BY <3>4, <3>6 DEF Charged
    <3>8. Agree(L, c, s)
      BY <2>1 DEF L, c, s
    <3>9. Agree(L, d, AddLoad(s, k, bytes))
      BY <1>4, <3>3, <3>7, <3>8, CreditStep
    <3> QED BY <3>2, <3>9 DEF L
  <2> QED BY <2>2, <2>3
<1> HIDE DEF credits, loads
<1>6. ASSUME NEW n \in MPNodes PROVE linkCredits'[n] = credits(n) /\ load'[n] = loads(n)
  BY <1>3
<1>7. \A n \in MPNodes : Agree(Links(n), linkCredits'[n], load'[n])
  BY <1>5, <1>6
<1> QED BY <1>1, <1>7 DEF CreditsInv, Links

(* Initially there are neither.                                            *)
LEMMA CreditsInit == MPInit => CreditsInv
<1> SUFFICES ASSUME MPInit PROVE CreditsInv
  OBVIOUS
<1>1. ASSUME NEW n \in MPNodes PROVE linkCredits[n] = [i \in Links(n) |-> 0] /\ load[n] = [i \in Links(n) |-> 0]
  BY DEF MPInit, NoCredits, Links
<1>2. ASSUME NEW n \in MPNodes PROVE Agree(Links(n), linkCredits[n], load[n])
  <2> DEFINE L == Links(n)
             c == linkCredits[n]
             s == load[n]
  <2>1. 0 \in L
    BY FirstLink
  <2>2. c = [i \in L |-> 0] /\ s = [i \in L |-> 0]
    BY <1>1
  <2> HIDE DEF L, c, s
  <2>3. Agree(L, c, s)
    BY <2>1, <2>2 DEF Agree
  <2> QED BY <2>3 DEF L, c, s
<1> QED BY <1>2 DEF CreditsInv, MPInit

(* In any fat tree and for any destinations and sizes of packets, what the *)
(* balancer holds against each link is what the cables of the tree, as the *)
(* switches route, have carried for its server: two links of a sub-tree    *)
(* differ in credits by their difference in bytes                          *)
(* (MPLoadBalancer::performAccounting, linkForPath, SubTreeID).            *)
THEOREM CreditsAreLoads == MPSpec => []CreditsTellLoads
<1>1. CreditsInv /\ [MPNext]_MPVars => CreditsInv'
  <2> SUFFICES ASSUME CreditsInv, [MPNext]_MPVars PROVE CreditsInv'
    OBVIOUS
  <2>1. CASE MPNext
    <3>1. PICK daddr \in Servers \ {Self}, bytes \in PktBytes : MPHandleMessage(daddr, bytes)
      BY <2>1 DEF MPNext
    <3> QED BY <3>1, CreditsOfPacket
  <2>2. CASE UNCHANGED MPVars
    BY <2>2 DEF MPVars, CreditsInv
  <2> QED BY <2>1, <2>2
<1>2. CreditsInv => CreditsTellLoads
  <2> SUFFICES ASSUME CreditsInv, NEW n \in MPNodes, NEW i \in DOMAIN load[n]
               PROVE  linkCredits[n][0] - linkCredits[n][i] = load[n][i]
    BY DEF CreditsTellLoads
  <2>1. i \in Links(n)
    BY DEF CreditsInv, Agree
  <2> QED BY <2>1 DEF CreditsInv, Agree
<1> QED BY <1>1, <1>2, CreditsInit, PTL DEF MPSpec

-----------------------------------------------------------------------------
(* Servers in pairs.                                                       *)

(* Every server has another one as its partner, and is its partner's.      *)
InPairs(A) ==
  A \in [Servers -> Servers] /\ \A s \in Servers : A[A[s]] = s /\ A[s] # s

(* The servers of a pod.                                                   *)
InPod(p) == {s \in Servers : Pod(s) = p}

(* There are so many servers.                                              *)
LEMMA ServerCount ==
  /\ NumServers \in Nat \ {0} /\ Servers = 0 .. NumServers - 1
  /\ IsFiniteSet(Servers) /\ Cardinality(Servers) = NumServers
<1> DEFINE n == NumServers
<1>1. n \in Nat \ {0} /\ Servers = 0 .. n - 1
  BY DownLinks, FatTreeAssumption DEF NumServers, Servers
<1> HIDE DEF n
<1>2. 0 \in Int /\ n - 1 \in Int /\ ~ (0 > n - 1) /\ (n - 1) - 0 + 1 = n
  BY <1>1
<1>3. IsFiniteSet(0 .. n - 1) /\ Cardinality(0 .. n - 1) = n
  BY <1>2, FS_Interval
<1> QED BY <1>1, <1>3 DEF n

(* Pods have as many servers each, one after the other.                    *)
LEMMA Pods ==
  ASSUME NEW s \in Servers
  PROVE  /\ down_links[1] \in Nat \ {0} /\ NumPods \in Nat \ {0}
         /\ NumServers = down_links[1] * NumPods
         /\ s \in Nat /\ Pod(s) \in 0 .. NumPods - 1
         /\ Pod(s) = s \div down_links[1]
         /\ s = down_links[1] * Pod(s) + (s % down_links[1])
         /\ s % down_links[1] \in 0 .. down_links[1] - 1
<1>1. 0 \in Levels /\ 1 \in 0 .. tree_depth /\ 0 + 1 = 1
  BY FatTreeAssumption DEF Levels
<1>2. /\ down_links[1] \in Nat \ {0} /\ NumPods \in Nat \ {0}
      /\ NumServers = down_links[1] * NumPods
  BY <1>1, DownLinks DEF NumPods, NumServers
<1>3. s \in Nat /\ Prefix(0, s) = 0
  BY ServerPrefix
<1>4. /\ Prefix(1, s) \in Nat /\ Pod(s) \in 0 .. NumPods - 1
      /\ Prefix(1, s) = NumPods * 0 + Pod(s)
  BY <1>1, <1>3, PrefixBelow DEF Pod, NumPods
<1>5. Pod(s) = s \div down_links[1]
  BY <1>2, <1>4 DEF Prefix
<1>6. /\ s = down_links[1] * (s \div down_links[1]) + (s % down_links[1])
      /\ s % down_links[1] \in 0 .. down_links[1] - 1
  BY <1>2, <1>3, Division
<1> QED BY <1>2, <1>3, <1>4, <1>5, <1>6

(* A server's counterpart in another pod.                                  *)
LEMMA Counterpart ==
  ASSUME NEW q \in 0 .. NumPods - 1, NEW s \in Servers
  PROVE  LET c == down_links[1] * q + (s % down_links[1])
         IN  c \in Servers /\ Pod(c) = q /\ c % down_links[1] = s % down_links[1]
<1> DEFINE m == down_links[1]
           r == s % m
           n == NumPods
           c == m * q + r
<1>1. m \in Nat \ {0} /\ n \in Nat \ {0} /\ NumServers = m * n /\ r \in 0 .. m - 1
  BY Pods
<1>2. q \in Nat /\ q <= n - 1
  BY <1>1
<1> HIDE DEF m, r, n
<1>3. c \in Nat /\ c \div m = q /\ c % m = r
  <2>1. m * q \in Nat
    BY <1>1, <1>2, Z3
  <2> DEFINE x == m * q
  <2> HIDE DEF x
  <2>2. x + r \in Nat
    BY <1>1, <2>1 DEF x
  <2> QED BY <1>1, <1>2, <2>2, DivisionUnique DEF x
<1>4. c < m * n
  <2>1. PICK e \in Nat : n = (q + 1) + e
    <3>1. n - (q + 1) \in Nat /\ n = (q + 1) + (n - (q + 1))
      BY <1>1, <1>2
    <3> QED BY <3>1
  <2>2. m * n = m * q + m + m * e
    BY <1>1, <1>2, <2>1, Z3
  <2>3. m * q \in Nat /\ m * e \in Nat
    BY <1>1, <1>2, <2>1, Z3
  <2> DEFINE x == m * q
             y == m * e
             z == m * n
  <2> HIDE DEF x, y, z
  <2>4. z = x + m + y /\ x \in Nat /\ y \in Nat
    BY <2>2, <2>3 DEF x, y, z
  <2>5. x + r < z
    BY <1>1, <2>4
  <2> QED BY <2>5 DEF x, z
<1>5. c \in Servers
  <2> DEFINE N == down_links[0]
  <2>1. N = m * n
    BY <1>1 DEF NumServers, m, n
  <2>2. N \in Int
    BY DownLinks, FatTreeAssumption
  <2> HIDE DEF N, c
  <2>3. c \in 0 .. N - 1
    BY <1>3, <1>4, <2>1, <2>2
  <2> QED BY <2>3 DEF Servers, N
<1> HIDE DEF c
<1>6. Pod(c) = q
  BY <1>3, <1>5, Pods DEF m
<1> QED BY <1>3, <1>5, <1>6 DEF c, m, r

(* Not all servers of the other pods have partners in one pod, if two of   *)
(* that pod are partners.                                                  *)
LEMMA SwapFound ==
  ASSUME NEW A, InPairs(A), NumPods > 1, NEW a \in Servers, Pod(a) = Pod(A[a])
  PROVE  \E x \in Servers : MaySwap(A, a, x)
<1> SUFFICES ASSUME \A x \in Servers : ~ MaySwap(A, a, x) PROVE FALSE
  OBVIOUS
<1> DEFINE p == Pod(a)
           P == InPod(p)
           m == down_links[1]
<1>1. NumPods \in Nat /\ p \in 0 .. NumPods - 1
  BY Pods
<1>2. PICK q \in 0 .. NumPods - 1 : q # p
  <2>1. 0 \in 0 .. NumPods - 1 /\ 1 \in 0 .. NumPods - 1
    BY <1>1
  <2>2. p # 0 \/ p # 1
    OBVIOUS
  <2> QED BY <2>1, <2>2
<1> DEFINE g(s) == m * q + (s % m)
           h == [s \in P |-> A[g(s)]]
           T == P \ {a}
<1>3. ASSUME NEW s \in P PROVE g(s) \in Servers /\ Pod(g(s)) = q /\ g(s) % m = s % m
  BY Counterpart DEF InPod
<1> HIDE DEF g
<1>4. ASSUME NEW s \in P PROVE A[g(s)] \in T
  <2>1. g(s) \in Servers /\ Pod(g(s)) # p
    BY <1>2, <1>3
  <2>2. A[g(s)] \in Servers /\ A[A[g(s)]] = g(s)
    BY <2>1 DEF InPairs
  <2>3. Pod(A[g(s)]) = p
    BY <2>1 DEF MaySwap
  <2>4. A[g(s)] # a
    BY <2>1, <2>2
  <2> QED BY <2>2, <2>3, <2>4 DEF InPod
<1>5. h \in [P -> T]
  BY <1>4
<1>6. IsFiniteSet(P)
  <2>1. P \subseteq Servers
    BY DEF InPod
  <2> HIDE DEF P
  <2> QED BY <2>1, ServerCount, FS_Subset
<1>7. a \in P
  BY DEF InPod
<1>8. ASSUME NEW x \in P, NEW y \in P, h[x] = h[y] PROVE x = y
  <2>1. A[g(x)] = A[g(y)]
    BY <1>8
  <2>2. g(x) = g(y)
    BY <1>3, <2>1 DEF InPairs
  <2>3. x % m = y % m
    BY <1>3, <2>2
  <2>4. /\ x \in Servers /\ y \in Servers /\ Pod(x) = p /\ Pod(y) = p
    BY DEF InPod
  <2>5. x = m * p + (x % m) /\ y = m * p + (y % m)
    BY <2>4, Pods
  <2> QED BY <2>3, <2>5
<1> HIDE DEF P, h
<1>9. IsFiniteSet(T) /\ Cardinality(T) < Cardinality(P)
  <2>1. IsFiniteSet(T) /\ Cardinality(T) = Cardinality(P) - 1
    BY <1>6, <1>7, FS_RemoveElement
  <2> HIDE DEF T
  <2>2. Cardinality(P) \in Nat
    BY <1>6, FS_CardinalityType
  <2> QED BY <2>1, <2>2
<1> HIDE DEF T
<1>10. \E x, y \in P : x # y /\ h[x] = h[y]
  BY <1>5, <1>6, <1>9, FS_PigeonHole
<1> QED BY <1>8, <1>10

(* A list of a set that has as many elements as places names each of them  *)
(* once.                                                                   *)
LEMMA ListOf ==
  ASSUME NEW S, IsFiniteSet(S), NEW list \in SetToSeqs(S)
  PROVE  /\ Cardinality(S) \in Nat
         /\ list \in [1 .. Cardinality(S) -> S]
         /\ \A i, j \in 1 .. Cardinality(S) : list[i] = list[j] => i = j
         /\ \A x \in S : \E i \in 1 .. Cardinality(S) : list[i] = x
<1> DEFINE n == Cardinality(S)
           D == 1 .. n
<1>1. n \in Nat
  BY FS_CardinalityType
<1>2. list \in [D -> S] /\ \A i, j \in D : i # j => list[i] # list[j]
  BY DEF SetToSeqs
<1>3. list \in Injection(D, S)
  BY <1>2 DEF Injection, IsInjective
<1>4. Cardinality(D) = n
  <2> HIDE DEF n
  <2>1. 1 \in Int /\ n \in Int /\ (IF 1 > n THEN 0 ELSE n - 1 + 1) = n
    BY <1>1
  <2> QED BY <2>1, FS_Interval
<1> HIDE DEF D
<1>5. list \in Surjection(D, S)
  BY <1>3, <1>4, FS_Injection
<1>6. \A x \in S : \E i \in D : list[i] = x
  BY <1>5 DEF Surjection
<1> QED BY <1>1, <1>2, <1>6 DEF D

(* The first list pairs all servers, if they are even in number.           *)
LEMMA PairsAtFirst ==
  ASSUME NumServers % 2 = 0, NEW list \in SetToSeqs(Servers)
  PROVE  InPairs(createPermutationPair(list))
<1> DEFINE n == NumServers
           D == 1 .. n
           place(s) == CHOOSE i \in D : list[i] = s
           A == createPermutationPair(list)
<1>1. n \in Nat \ {0} /\ n % 2 = 0
  BY ServerCount
<1>2. Cardinality(Servers) = n /\ IsFiniteSet(Servers)
  BY ServerCount
<1>3. list \in [D -> Servers] /\ \A i, j \in D : i # j => list[i] # list[j]
  BY <1>2, ListOf
<1>4. \A s \in Servers : \E i \in D : list[i] = s
  BY <1>2, ListOf
<1>5. A = [s \in Servers |-> IF 2 * place(s) = n + 1 THEN 0 ELSE list[n + 1 - place(s)]]
  BY <1>3 DEF createPermutationPair
<1>6. ASSUME NEW s \in Servers PROVE place(s) \in D /\ list[place(s)] = s
  BY <1>4
<1> HIDE DEF A, place
<1>7. ASSUME NEW i \in D PROVE place(list[i]) = i
  BY <1>3, <1>6
<1> HIDE DEF n
<1>8. ASSUME NEW s \in Servers
      PROVE  /\ n + 1 - place(s) \in D /\ n + 1 - place(s) # place(s)
             /\ A[s] = list[n + 1 - place(s)]
  <2>1. place(s) \in 1 .. n
    BY <1>6
  <2>2. PICK k \in Nat : n = 2 * k
    <3>1. n = 2 * (n \div 2) + (n % 2) /\ n \div 2 \in Nat
      BY <1>1
    <3> QED BY <1>1, <3>1
  <2> DEFINE i == place(s)
  <2>3. i \in 1 .. n
    BY <2>1
  <2> HIDE DEF i
  <2>4. 2 * i # n + 1
    BY <1>1, <2>2, <2>3
  <2>5. n + 1 - i \in 1 .. n /\ n + 1 - i # i
    BY <1>1, <2>3, <2>4
  <2> QED BY <1>5, <2>4, <2>5 DEF i
<1>9. ASSUME NEW s \in Servers PROVE A[s] \in Servers /\ A[A[s]] = s /\ A[s] # s
  <2> DEFINE i == place(s)
             j == n + 1 - i
  <2>1. i \in D /\ j \in D /\ i # j /\ A[s] = list[j] /\ list[i] = s
    BY <1>6, <1>8
  <2>2. list[j] \in Servers /\ list[j] # s
    BY <1>3, <2>1
  <2>3. place(list[j]) = j
    BY <1>7, <2>1
  <2>4. A[list[j]] = list[n + 1 - j]
    BY <1>8, <2>2, <2>3
  <2>5. n + 1 - j = i
    <3>1. i \in Int
      BY <1>1, <2>1
    <3> HIDE DEF i
    <3> QED BY <1>1, <3>1
  <2> HIDE DEF i, j
  <2> QED BY <2>1, <2>2, <2>4, <2>5
<1>10. A \in [Servers -> Servers]
  <2>1. A = [s \in Servers |-> A[s]]
    BY <1>5
  <2> QED BY <1>9, <2>1
<1> QED BY <1>9, <1>10 DEF InPairs, A

(* Servers that swap partners are two pairs again, across pods.            *)
LEMMA SwapKeepsPairs ==
  ASSUME NEW A, InPairs(A), NEW a \in Servers, Pod(a) = Pod(A[a]),
         NEW x \in Servers, MaySwap(A, a, x), NEW B, B = Swapped(A, a, x)
  PROVE  /\ InPairs(B)
         /\ \A s \in Servers : B[s] = A[s] \/ Pod(s) # Pod(B[s])
         /\ Pod(a) # Pod(B[a])
<1> DEFINE b == A[a]
           y == A[x]
           A1 == [A EXCEPT ![a] = y]
           A2 == [A1 EXCEPT ![y] = a]
           A3 == [A2 EXCEPT ![x] = b]
           A4 == [A3 EXCEPT ![b] = x]
<1>1. /\ b \in Servers /\ y \in Servers /\ A[b] = a /\ A[y] = x /\ a # b /\ x # y
      /\ A \in [Servers -> Servers]
  BY DEF InPairs
<1>2. Pod(a) # Pod(y) /\ Pod(b) # Pod(x) /\ Pod(a) = Pod(b)
  BY DEF MaySwap
<1>3. a # x /\ a # y /\ b # x /\ b # y
  BY <1>2
<1>4. B = A4
  BY DEF Swapped
<1> HIDE DEF b, y
<1>5. A1 \in [Servers -> Servers] /\ \A s \in Servers : A1[s] = IF s = a THEN y ELSE A[s]
  BY <1>1
<1> HIDE DEF A1
<1>6. A2 \in [Servers -> Servers] /\ \A s \in Servers : A2[s] = IF s = y THEN a ELSE A1[s]
  BY <1>1, <1>5
<1> HIDE DEF A2
<1>7. A3 \in [Servers -> Servers] /\ \A s \in Servers : A3[s] = IF s = x THEN b ELSE A2[s]
  BY <1>1, <1>6
<1> HIDE DEF A3
<1>8. A4 \in [Servers -> Servers] /\ \A s \in Servers : A4[s] = IF s = b THEN x ELSE A3[s]
  BY <1>1, <1>7
<1> HIDE DEF A4
<1>9. /\ B \in [Servers -> Servers]
      /\ B[a] = y /\ B[y] = a /\ B[x] = b /\ B[b] = x
      /\ \A s \in Servers \ {a, b, x, y} : B[s] = A[s]
  BY <1>1, <1>3, <1>4, <1>5, <1>6, <1>7, <1>8
<1>10. ASSUME NEW s \in Servers \ {a, b, x, y} PROVE A[s] \in Servers \ {a, b, x, y} /\ A[A[s]] = s /\ A[s] # s
  <2>1. A[s] \in Servers /\ A[A[s]] = s /\ A[s] # s
    BY DEF InPairs
  <2>2. A[a] = b /\ A[x] = y
    BY DEF b, y
  <2> QED BY <1>1, <2>1, <2>2
<1>11. ASSUME NEW s \in Servers PROVE B[B[s]] = s /\ B[s] # s
  <2>1. CASE s \in {a, b, x, y}
    BY <1>1, <1>3, <1>9, <2>1
  <2>2. CASE s \notin {a, b, x, y}
    BY <1>9, <1>10, <2>2
  <2> QED BY <2>1, <2>2
<1>12. InPairs(B)
  BY <1>9, <1>11 DEF InPairs
<1>13. ASSUME NEW s \in Servers PROVE B[s] = A[s] \/ Pod(s) # Pod(B[s])
  BY <1>2, <1>9
<1> QED BY <1>2, <1>9, <1>12, <1>13

(* The pairs of all servers, of which those up to one are across pods.     *)
PairsUpTo(A, at) ==
  /\ InPairs(A) /\ at \in 0 .. NumServers
  /\ NumPods > 1 => \A s \in Servers : s < at => Pod(s) # Pod(A[s])

(* The messages of these pairs.                                            *)
PairScript(A) == {Msg(s, A[s], 0) : s \in Servers}

(* While there is no script the servers are in pairs, and a script that is *)
(* made of them is that of pairs across pods.                              *)
PairingInv ==
  /\ pairing \in [assignments : {pairing.assignments}, at : {pairing.at}]
  /\ IF script = NoScript THEN PairsUpTo(pairing.assignments, pairing.at)
     ELSE \/ pairing.at = 0
          \/ /\ pairing.at = NumServers /\ PairsUpTo(pairing.assignments, NumServers)
             /\ script = PairScript(pairing.assignments)

(* Nothing but messages.                                                   *)
OnlyMsgs(messages) == \A m \in messages : \E s, d, n : m = Msg(s, d, n)

(* A script of messages is a script.                                       *)
LEMMA MsgsAreScript == ASSUME NEW messages, OnlyMsgs(messages) PROVE messages # NoScript
<1> SUFFICES ASSUME messages = NoScript PROVE FALSE
  OBVIOUS
<1> DEFINE m == [source |-> -1]
<1>1. m \in messages
  BY DEF NoScript
<1>2. PICK s, d, n : m = Msg(s, d, n)
  BY <1>1 DEF OnlyMsgs
<1>3. "destination" \in DOMAIN Msg(s, d, n) /\ DOMAIN m = {"source"}
  BY DEF Msg
<1> HIDE DEF m
<1> QED BY <1>2, <1>3

(* So are the patterns and what was written before.                        *)
LEMMA TrafficIsScript ==
  ASSUME NEW messages \in TrafficScripts \cup {WrittenScript}
  PROVE  messages # NoScript
<1> DEFINE lists == SetToSeqs(Servers)
<1>0. \A S : OnlyMsgs(AllAmong(S))
  BY DEF OnlyMsgs, AllAmong
<1>1. CASE messages = AllToAll
  BY <1>0, <1>1, MsgsAreScript DEF AllToAll
<1>2. CASE messages = LBDestImbalance
  <2>1. OnlyMsgs(LBDestImbalance)
    BY DEF OnlyMsgs, LBDestImbalance
  <2> QED BY <1>2, <2>1, MsgsAreScript
<1>3. CASE \E l \in lists : messages = AllToAllPartition(l, PartitionSize)
  <2>1. PICK l \in lists : messages = AllToAllPartition(l, PartitionSize)
    BY <1>3
  <2>2. OnlyMsgs(AllToAllPartition(l, PartitionSize))
    BY <1>0 DEF OnlyMsgs, AllToAllPartition
  <2> QED BY <2>1, <2>2, MsgsAreScript
<1>4. CASE \E l \in lists : messages = AllToAllVictimTenant(l, PartitionSize)
  <2>1. PICK l \in lists : messages = AllToAllVictimTenant(l, PartitionSize)
    BY <1>4
  <2>2. OnlyMsgs(AllToAllVictimTenant(l, PartitionSize))
    BY <1>0 DEF OnlyMsgs, AllToAllVictimTenant
  <2> QED BY <2>1, <2>2, MsgsAreScript
<1>5. CASE \E l \in PodLists : messages = PairedPods(l)
  <2>1. PICK l \in PodLists : messages = PairedPods(l)
    BY <1>5
  <2>2. OnlyMsgs(PairedPods(l))
    BY DEF OnlyMsgs, PairedPods
  <2> QED BY <2>1, <2>2, MsgsAreScript
<1>6. CASE messages = WrittenScript
  <2>1. OnlyMsgs(WrittenScript)
    BY DEF OnlyMsgs, WrittenScript
  <2> QED BY <1>6, <2>1, MsgsAreScript
<1>7. messages \in TrafficScripts \/ messages = WrittenScript
  OBVIOUS
<1>8. TrafficScripts = {AllToAll, LBDestImbalance}
        \cup {AllToAllPartition(l, PartitionSize) : l \in lists}
        \cup {AllToAllVictimTenant(l, PartitionSize) : l \in lists}
        \cup {PairedPods(l) : l \in PodLists}
  BY DEF TrafficScripts
<1> QED BY <1>1, <1>2, <1>3, <1>4, <1>5, <1>6, <1>7, <1>8

(* The first pairs, none of which has been looked at.                      *)
LEMMA PairingInit == NumServers % 2 = 0 /\ AppInit => PairingInv
<1> SUFFICES ASSUME NumServers % 2 = 0, AppInit PROVE PairingInv
  OBVIOUS
<1>1. CASE script = NoScript
  <2>1. PICK l \in SetToSeqs(Servers) : pairing = [assignments |-> createPermutationPair(l), at |-> 0]
    <3>1. script \notin TrafficScripts \cup {WrittenScript}
      BY <1>1, TrafficIsScript
    <3>2. pairing \in [assignments : {createPermutationPair(l) : l \in SetToSeqs(Servers)}, at : {0}]
      BY <3>1 DEF AppInit
    <3> QED BY <3>2
  <2>2. InPairs(createPermutationPair(l))
    BY PairsAtFirst
  <2>3. 0 \in 0 .. NumServers /\ \A s \in Servers : ~ (s < 0)
    BY ServerCount
  <2>4. PairsUpTo(createPermutationPair(l), 0)
    BY <2>2, <2>3 DEF PairsUpTo
  <2> QED BY <1>1, <2>1, <2>4 DEF PairingInv
<1>2. CASE script # NoScript
  <2>1. pairing = [assignments |-> << >>, at |-> 0]
    BY <1>2 DEF AppInit
  <2> QED BY <1>2, <2>1 DEF PairingInv
<1> QED BY <1>1, <1>2

(* One turn of the loop.                                                   *)
LEMMA ReassignPairs == PairingInv /\ Reassign => PairingInv'
<1> SUFFICES ASSUME PairingInv, Reassign PROVE PairingInv'
  OBVIOUS
<1> DEFINE A == pairing.assignments
           a == pairing.at
<1>1. script = NoScript /\ script' = script /\ a < NumServers /\ PairsUpTo(A, a)
  BY DEF PairingInv, Reassign
<1>2. InPairs(A) /\ a \in Servers /\ a \in Nat /\ a + 1 \in 0 .. NumServers
  BY <1>1, ServerCount DEF PairsUpTo
<1>3. NumPods > 1 => \A s \in Servers : s < a => Pod(s) # Pod(A[s])
  BY <1>1 DEF PairsUpTo
<1>4. CASE NumPods > 1 /\ Pod(a) = Pod(A[a])
  <2>1. PICK x \in Servers : MaySwap(A, a, x) /\ pairing' = [assignments |-> Swapped(A, a, x), at |-> a + 1]
    BY <1>4 DEF Reassign
  <2> DEFINE B == Swapped(A, a, x)
  <2>2. /\ InPairs(B)
        /\ \A s \in Servers : B[s] = A[s] \/ Pod(s) # Pod(B[s])
        /\ Pod(a) # Pod(B[a])
    BY <1>2, <1>4, <2>1, SwapKeepsPairs
  <2> HIDE DEF B
  <2>3. ASSUME NEW s \in Servers, s < a + 1 PROVE Pod(s) # Pod(B[s])
    <3>1. s < a \/ s = a
      BY <1>2, <2>3, ServerCount
    <3> QED BY <1>3, <1>4, <2>2, <3>1
  <2>4. PairsUpTo(B, a + 1)
    BY <1>2, <2>2, <2>3 DEF PairsUpTo
  <2> QED BY <1>1, <2>1, <2>4 DEF PairingInv, B
<1>5. CASE ~ (NumPods > 1 /\ Pod(a) = Pod(A[a]))
  <2>1. pairing' = [pairing EXCEPT !.at = a + 1]
    BY <1>5 DEF Reassign
  <2>2. pairing' \in [assignments : {A}, at : {a + 1}]
    BY <2>1 DEF PairingInv
  <2>3. ASSUME NumPods > 1, NEW s \in Servers, s < a + 1 PROVE Pod(s) # Pod(A[s])
    <3>1. s < a \/ s = a
      BY <1>2, <2>3, ServerCount
    <3> QED BY <1>3, <1>5, <2>3, <3>1
  <2>4. PairsUpTo(A, a + 1)
    BY <1>2, <2>3 DEF PairsUpTo
  <2> HIDE DEF A, a
  <2> QED BY <1>1, <2>2, <2>4 DEF PairingInv
<1> QED BY <1>4, <1>5

(* No other step changes the pairs, and only WritePairs makes a script.     *)
LEMMA PairingNext == PairingInv /\ [AppNext]_AppVars => PairingInv'
<1> SUFFICES ASSUME PairingInv, [AppNext]_AppVars PROVE PairingInv'
  OBVIOUS
<1>1. CASE Reassign
  BY <1>1, ReassignPairs
<1>2. CASE WritePairs
  <2> DEFINE A == pairing.assignments
  <2>1. /\ script = NoScript /\ pairing.at = NumServers /\ pairing' = pairing
        /\ script' = PairScript(A)
    BY <1>2 DEF WritePairs, PairScript
  <2>2. PairsUpTo(A, NumServers)
    BY <2>1 DEF PairingInv
  <2>3. script' # NoScript
    <3>1. OnlyMsgs(PairScript(A))
      BY DEF OnlyMsgs, PairScript
    <3> QED BY <2>1, <3>1, MsgsAreScript
  <2> QED BY <2>1, <2>2, <2>3 DEF PairingInv
<1>3. CASE pairing' = pairing /\ script' = script
  BY <1>3 DEF PairingInv
<1>4. CASE UNCHANGED AppVars
  BY <1>3, <1>4 DEF AppVars
<1>5. CASE AppNext /\ ~ Reassign /\ ~ WritePairs
  BY <1>3, <1>5 DEF AppNext, ParseScript, ActivateMessage, SendNextSegment, StopAtLimit, Tick, params
<1> QED BY <1>1, <1>2, <1>4, <1>5

(* In any tree with servers even in number, and whatever swaps came before,*)
(* a server that is paired within its pod finds one to swap partners with, *)
(* so the loop that draws one ends                                         *)
(* (TP_PairedPermutation::reassignServersPairedInSameSubtree).             *)
THEOREM SwapIsPossible ==
  ASSUME NumServers % 2 = 0
  PROVE  AppSpec => []SwapPossible
<1>1. PairingInv => SwapPossible
  <2> SUFFICES ASSUME PairingInv, script = NoScript, pairing.at < NumServers, NumPods > 1,
                      Pod(pairing.at) = Pod(pairing.assignments[pairing.at])
               PROVE  \E x \in Servers : MaySwap(pairing.assignments, pairing.at, x)
    BY DEF SwapPossible
  <2>1. PairsUpTo(pairing.assignments, pairing.at)
    BY DEF PairingInv
  <2>2. InPairs(pairing.assignments) /\ pairing.at \in Servers
    BY <2>1, ServerCount DEF PairsUpTo
  <2> QED BY <2>2, SwapFound
<1>2. AppInit => PairingInv
  BY PairingInit
<1> QED BY <1>1, <1>2, PairingNext, PTL DEF AppSpec

(* The pairs' script is regular.                                           *)
LEMMA PairsRegular ==
  ASSUME NumPods > 1
  PROVE  PairingInv /\ pairing.at # 0 => ScriptRegular
<1> SUFFICES ASSUME PairingInv, pairing.at # 0, Generated PROVE ScriptRegular
  BY DEF ScriptRegular
<1> DEFINE A == pairing.assignments
<1>1. PairsUpTo(A, NumServers) /\ script = PairScript(A)
  BY DEF PairingInv, Generated
<1>2. /\ InPairs(A)
      /\ \A s \in Servers : Pod(s) # Pod(A[s])
  BY <1>1, ServerCount DEF PairsUpTo
<1>3. \A s \in Servers : A[s] \in Servers /\ A[A[s]] = s /\ A[s] # s
  BY <1>2 DEF InPairs
<1> HIDE DEF A
<1>4. ASSUME NEW m \in script
      PROVE  /\ m.source # m.destination /\ Pod(m.source) # Pod(m.destination)
             /\ Msg(m.destination, m.source, 0) \in script
  <2>1. PICK s \in Servers : m = Msg(s, A[s], 0)
    BY <1>1 DEF PairScript
  <2>2. m.source = s /\ m.destination = A[s]
    BY <2>1 DEF Msg
  <2>3. Msg(A[s], A[A[s]], 0) \in PairScript(A)
    BY <1>3 DEF PairScript
  <2> QED BY <1>1, <1>2, <1>3, <2>2, <2>3
<1>5. ASSUME NEW s \in Servers
      PROVE  Cardinality({m \in script : m.source = s})
               = Cardinality({m \in script : m.destination = s})
  <2>1. \A r \in Servers : Msg(r, A[r], 0).source = r /\ Msg(r, A[r], 0).destination = A[r]
    BY DEF Msg
  <2>2. {m \in script : m.source = s} = {Msg(s, A[s], 0)}
    BY <1>1, <2>1 DEF PairScript
  <2>3. {m \in script : m.destination = s} = {Msg(A[s], A[A[s]], 0)}
    BY <1>1, <1>3, <2>1 DEF PairScript
  <2>4. Cardinality({Msg(s, A[s], 0)}) = 1 /\ Cardinality({Msg(A[s], A[A[s]], 0)}) = 1
    BY FS_Singleton
  <2> QED BY <2>2, <2>3, <2>4
<1> QED BY <1>4, <1>5 DEF ScriptRegular

(* The script of paired permutation traffic, in any tree of several pods   *)
(* and servers even in number, is regular: every server sends one message  *)
(* and is sent one by the same server, of another pod                      *)
(* (TP_PairedPermutation::createTraffic).                                  *)
THEOREM PairScriptRegular ==
  ASSUME NumServers % 2 = 0, NumPods > 1
  PROVE  AppSpec => [](pairing.at # 0 => ScriptRegular)
<1>1. PairingInv => (pairing.at # 0 => ScriptRegular)
  BY PairsRegular
<1>2. AppInit => PairingInv
  BY PairingInit
<1> QED BY <1>1, <1>2, PairingNext, PTL DEF AppSpec
-----------------------------------------------------------------------------
(* Regular scripts.                                                        *)

(* Messages among the servers, sent by one or to one.                      *)
AmongServers(messages) ==
  \A m \in messages : \E a, b \in Servers : m = Msg(a, b, 0)

(* Sets that are mapped to each other are of one size.                     *)
LEMMA SameNumber ==
  ASSUME NEW S, NEW T, IsFiniteSet(S), NEW f \in [S -> T], NEW g \in [T -> S],
         \A x \in S : g[f[x]] = x, \A y \in T : f[g[y]] = y
  PROVE  Cardinality(S) = Cardinality(T)
<1>1. f \in Injection(S, T)
  BY DEF Injection, IsInjective
<1>2. f \in Surjection(S, T)
  BY DEF Surjection
<1>3. ExistsBijection(S, T)
  BY <1>1, <1>2 DEF ExistsBijection, Bijection
<1> QED BY <1>3, FS_Bijection

(* A server is sent as many messages as it sends if f turns those whom it  *)
(* sends to into those who send to it, and back.                           *)
LEMMA CountsAgree ==
  ASSUME NEW messages, AmongServers(messages), NEW s \in Servers,
         NEW f \in [Servers -> Servers], \A b \in Servers : f[f[b]] = b,
         \A b \in Servers : Msg(s, b, 0) \in messages => Msg(f[b], s, 0) \in messages,
         \A b \in Servers : Msg(b, s, 0) \in messages => Msg(s, f[b], 0) \in messages
  PROVE  Cardinality({m \in messages : m.source = s})
           = Cardinality({m \in messages : m.destination = s})
<1> DEFINE To == {m \in messages : m.source = s}
           From == {m \in messages : m.destination = s}
           F == [m \in To |-> Msg(f[m.destination], s, 0)]
           G == [m \in From |-> Msg(s, f[m.source], 0)]
           Own == [b \in Servers |-> Msg(s, b, 0)]
<1>1. \A a, b : Msg(a, b, 0).source = a /\ Msg(a, b, 0).destination = b
  BY DEF Msg
<1>2. ASSUME NEW m \in To
      PROVE  m.destination \in Servers /\ m = Msg(s, m.destination, 0) /\ m \in messages
  BY <1>1 DEF AmongServers
<1>3. ASSUME NEW m \in From
      PROVE  m.source \in Servers /\ m = Msg(m.source, s, 0) /\ m \in messages
  BY <1>1 DEF AmongServers
<1>4. IsFiniteSet(To)
  <2> DEFINE All == {Msg(s, b, 0) : b \in Servers}
  <2>1. Own \in Surjection(Servers, All)
    <3>1. Own \in [Servers -> All]
      OBVIOUS
    <3>2. \A t \in All : \E b \in Servers : Own[b] = t
      OBVIOUS
    <3> HIDE DEF Own, All
    <3> QED BY <3>1, <3>2 DEF Surjection
  <2>2. To \subseteq All
    <3> SUFFICES ASSUME NEW m \in To PROVE m \in All
      OBVIOUS
    <3> QED BY <1>2
  <2> HIDE DEF Own, All, To
  <2>3. IsFiniteSet(All)
    BY <2>1, ServerCount, FS_Surjection
  <2> QED BY <2>2, <2>3, FS_Subset
<1>5. ASSUME NEW m \in To
      PROVE  F[m] \in From /\ F[m].source = f[m.destination] /\ G[F[m]] = m
  <2>1. F[m] = Msg(f[m.destination], s, 0) /\ F[m] \in messages
    BY <1>2
  <2>2. F[m] \in From /\ F[m].source = f[m.destination]
    BY <1>1, <2>1
  <2>3. G[F[m]] = Msg(s, f[f[m.destination]], 0)
    BY <2>2
  <2> QED BY <1>2, <2>2, <2>3
<1>6. ASSUME NEW m \in From
      PROVE  G[m] \in To /\ F[G[m]] = m
  <2>1. G[m] = Msg(s, f[m.source], 0) /\ G[m] \in messages
    BY <1>3
  <2>2. G[m] \in To /\ G[m].destination = f[m.source]
    BY <1>1, <2>1
  <2>3. F[G[m]] = Msg(f[f[m.source]], s, 0)
    BY <2>2
  <2> QED BY <1>3, <2>2, <2>3
<1>7. F \in [To -> From] /\ G \in [From -> To]
  BY <1>5, <1>6
<1> HIDE DEF F, G, To, From
<1>8. Cardinality(To) = Cardinality(From)
  BY <1>4, <1>5, <1>6, <1>7, SameNumber
<1> QED BY <1>8 DEF To, From

(* What is claimed of the scripts of all patterns.                         *)
Regular(messages) ==
  /\ \A m \in messages : m.source # m.destination
  /\ \A s \in Servers : (\A m \in messages : m.messageNum = 0) =>
       Cardinality({m \in messages : m.source = s})
         = Cardinality({m \in messages : m.destination = s})

(* Scripts in which all messages have an answer are regular.               *)
LEMMA SymmetricRegular ==
  ASSUME NEW messages, AmongServers(messages),
         \A m \in messages : m.source # m.destination,
         \A a, b \in Servers : Msg(a, b, 0) \in messages => Msg(b, a, 0) \in messages
  PROVE  Regular(messages)
<1> DEFINE f == [b \in Servers |-> b]
<1>1. ASSUME NEW s \in Servers
      PROVE  Cardinality({m \in messages : m.source = s})
               = Cardinality({m \in messages : m.destination = s})
  <2>1. f \in [Servers -> Servers] /\ \A b \in Servers : f[b] = b /\ f[f[b]] = b
    OBVIOUS
  <2> HIDE DEF f
  <2>2. /\ \A b \in Servers : Msg(s, b, 0) \in messages => Msg(f[b], s, 0) \in messages
        /\ \A b \in Servers : Msg(b, s, 0) \in messages => Msg(s, f[b], 0) \in messages
    BY <2>1
  <2> QED BY <2>1, <2>2, CountsAgree
<1> QED BY <1>1 DEF Regular

(* Among some servers, all send to each other.                             *)
LEMMA AllSend ==
  ASSUME NEW S \in SUBSET Servers
  PROVE  /\ AmongServers(AllAmong(S))
         /\ \A m \in AllAmong(S) : m.source # m.destination /\ m.messageNum = 0
         /\ \A a, b \in Servers : Msg(a, b, 0) \in AllAmong(S) => Msg(b, a, 0) \in AllAmong(S)
<1>1. \A a, b : /\ Msg(a, b, 0).source = a /\ Msg(a, b, 0).destination = b
                /\ Msg(a, b, 0).messageNum = 0
  BY DEF Msg
<1>2. ASSUME NEW m \in AllAmong(S)
      PROVE  \E a, b \in S : a # b /\ m = Msg(a, b, 0)
  <2>1. PICK p \in {q \in S \X S : q[1] # q[2]} : m = Msg(p[1], p[2], 0)
    BY DEF AllAmong
  <2>2. p[1] \in S /\ p[2] \in S /\ p[1] # p[2]
    BY <2>1
  <2> QED BY <2>1, <2>2
<1>3. ASSUME NEW a \in S, NEW b \in S, a # b PROVE Msg(a, b, 0) \in AllAmong(S)
  <2> DEFINE p == <<a, b>>
  <2>1. p \in {q \in S \X S : q[1] # q[2]} /\ Msg(a, b, 0) = Msg(p[1], p[2], 0)
    BY <1>3
  <2> HIDE DEF p
  <2> QED BY <2>1 DEF AllAmong
<1>4. AmongServers(AllAmong(S))
  BY <1>2 DEF AmongServers
<1>5. \A m \in AllAmong(S) : m.source # m.destination /\ m.messageNum = 0
  BY <1>1, <1>2
<1>6. ASSUME NEW a \in Servers, NEW b \in Servers, Msg(a, b, 0) \in AllAmong(S)
      PROVE  Msg(b, a, 0) \in AllAmong(S)
  <2>1. PICK c, d \in S : c # d /\ Msg(a, b, 0) = Msg(c, d, 0)
    BY <1>2, <1>6
  <2>2. a = c /\ b = d
    BY <1>1, <2>1
  <2> QED BY <1>3, <2>1, <2>2
<1> QED BY <1>4, <1>5, <1>6

(* A number by a pod, a switch of the pod and a place at the switch.       *)
LEMMA Places ==
  ASSUME NEW h \in Nat \ {0}, NEW t \in Nat \ {0},
         NEW p \in Nat, NEW x \in 0 .. t - 1, NEW o \in 0 .. h - 1
  PROVE  LET a == (h * t) * p + (h * x + o)
         IN  /\ a \in Nat /\ a % h = o /\ (a \div h) % t = x /\ a \div (h * t) = p
             /\ h * x + o \in 0 .. h * t - 1
<1> DEFINE q == t * p + x
           a == (h * t) * p + (h * x + o)
<1>1. q \in Nat /\ h * q \in Nat
  <2>1. t * p \in Nat
    BY Z3
  <2>2. q \in Nat
    BY <2>1
  <2> HIDE DEF q
  <2> QED BY <2>2, Z3
<1>2. a = h * q + o
  BY Z3
<1> HIDE DEF a
<1>3. q \div t = p /\ q % t = x
  <2> DEFINE k == q
  <2>1. k = t * p + x /\ k \in Nat
    BY <1>1
  <2> HIDE DEF k, q
  <2>2. k \div t = p /\ k % t = x
    BY <2>1, DivisionUnique
  <2> QED BY <2>2 DEF k
<1> HIDE DEF q
<1>4. a \in Nat
  <2> DEFINE y == h * q
  <2>1. y \in Nat /\ a = y + o
    BY <1>1, <1>2
  <2> HIDE DEF y
  <2> QED BY <2>1
<1>5. a \div h = q /\ a % h = o
  BY <1>1, <1>2, <1>4, DivisionUnique
<1>6. a \div (h * t) = p
  <2>1. a \div (h * t) = (a \div h) \div t
    BY <1>4, DivisionTwice
  <2> QED BY <1>3, <1>5, <2>1
<1>7. h * x + o \in 0 .. h * t - 1
  <2> DEFINE y == h * x
             z == h * (t - 1 - x)
             w == h * t
  <2>1. w = y + h + z
    BY Z3
  <2>2. y \in Nat /\ z \in Nat /\ w \in Nat
    <3>1. t - 1 - x \in Nat
      OBVIOUS
    <3> QED BY <3>1, Z3
  <2> HIDE DEF y, z, w
  <2>3. y + o \in 0 .. w - 1
    BY <2>1, <2>2
  <2> QED BY <2>3 DEF y, w
<1> QED BY <1>3, <1>4, <1>5, <1>6, <1>7 DEF a

(* Every number is given by these.                                         *)
LEMMA PlacesOf ==
  ASSUME NEW h \in Nat \ {0}, NEW t \in Nat \ {0}, NEW a \in Nat
  PROVE  /\ a % h \in 0 .. h - 1 /\ (a \div h) % t \in 0 .. t - 1 /\ a \div (h * t) \in Nat
         /\ a = (h * t) * (a \div (h * t)) + (h * ((a \div h) % t) + (a % h))
<1> DEFINE q == a \div h
           o == a % h
           p == q \div t
           x == q % t
<1>1. q \in Nat /\ o \in 0 .. h - 1 /\ a = h * q + o
  BY Division
<1>2. a \div (h * t) = p
  BY DivisionTwice
<1> HIDE DEF q, o
<1>3. p \in Nat /\ x \in 0 .. t - 1 /\ q = t * p + x
  BY <1>1, Division
<1> HIDE DEF p, x
<1>4. a = (h * t) * p + (h * x + o)
  <2>1. a = h * (t * p + x) + o
    BY <1>1, <1>3
  <2>2. h * (t * p + x) + o = (h * t) * p + (h * x + o)
    BY <1>1, <1>3, Z3
  <2> QED BY <2>1, <2>2
<1> QED BY <1>1, <1>2, <1>3, <1>4 DEF o, x, q

(* Two addresses of one pod, or of two.                                    *)
LEMMA TorsOfPods ==
  ASSUME NEW tors \in Nat \ {0}, NEW h \in Nat \ {0}, NumServers = NumPods * (tors * h)
  PROVE  /\ down_links[1] = h * tors /\ NumServers \div NumPods = h * tors
         /\ (NumServers \div h) \div NumPods = tors
<1> DEFINE n == NumServers
           k == NumPods
           m == down_links[1]
<1>1. k \in Nat \ {0} /\ m \in Nat \ {0} /\ n = m * k /\ n = k * (tors * h)
  <2>1. 0 \in Servers
    BY ServerCount
  <2> QED BY <2>1, Pods
<1> HIDE DEF n, k, m
<1>2. /\ tors * h \in Nat /\ h * tors = tors * h /\ k * tors \in Nat /\ k * m = m * k
      /\ k * (tors * h) = h * (k * tors)
  BY <1>1, Z3
<1>3. n \div k = m /\ n \div k = tors * h
  <2> DEFINE y == tors * h
  <2>1. y \in Nat /\ n = k * y /\ n = k * m
    BY <1>1, <1>2
  <2> HIDE DEF y
  <2>2. (k * y) \div k = y /\ (k * m) \div k = m
    BY <1>1, <2>1, DivisionSimple
  <2> QED BY <2>1, <2>2 DEF y
<1>4. n \div h = k * tors
  <2> DEFINE y == k * tors
  <2>1. y \in Nat /\ n = h * y
    BY <1>1, <1>2
  <2> HIDE DEF y
  <2>2. (h * y) \div h = y
    BY <2>1, DivisionSimple
  <2> QED BY <2>1, <2>2 DEF y
<1>5. (k * tors) \div k = tors
  BY <1>1, DivisionSimple
<1> QED BY <1>2, <1>3, <1>4, <1>5 DEF n, k, m

(* The remainder of a number that is less than twice the divisor.          *)
LEMMA SmallRemainder ==
  ASSUME NEW t \in Nat \ {0}, NEW y \in 0 .. 2 * t - 1
  PROVE  y % t = IF y < t THEN y ELSE y - t
<1>1. CASE y < t
  <2>1. y \in 0 .. t - 1
    BY <1>1
  <2> QED BY <1>1, <2>1, DivisionSimple
<1>2. CASE ~ (y < t)
  <2>1. y \in Nat /\ y - t \in 0 .. t - 1 /\ y = t * 1 + (y - t)
    BY <1>2
  <2>2. y % t = y - t
    BY <2>1, DivisionUnique
  <2> QED BY <1>2, <2>2
<1> QED BY <1>1, <1>2

(* The switches of a pod that send to one, and the others.                 *)
Mirror(x, tor, t) ==
  IF 2 * tor - x < 0 THEN 2 * tor - x + t
  ELSE IF 2 * tor - x >= t THEN 2 * tor - x - t ELSE 2 * tor - x

(* It is one of the pod's, and its own mirror image's.                     *)
LEMMA MirrorIs ==
  ASSUME NEW t \in Nat \ {0}, NEW tor \in 0 .. t - 1, NEW x \in 0 .. t - 1
  PROVE  Mirror(x, tor, t) \in 0 .. t - 1 /\ Mirror(Mirror(x, tor, t), tor, t) = x
BY DEF Mirror

(* The switch that follows one after i others.                             *)
Following(x, i, t) == (x + i) % t

(* A switch follows another one as that one follows its mirror image.      *)
LEMMA MirrorFollows ==
  ASSUME NEW t \in Nat \ {0}, NEW tor \in 0 .. t - 1, NEW x \in 0 .. t - 1,
         NEW y \in 0 .. t - 1, y = Mirror(x, tor, t), NEW i \in 1 .. t - 1
  PROVE  /\ x = Following(tor, i, t) => tor = Following(y, i, t)
         /\ tor = Following(x, i, t) => y = Following(tor, i, t)
<1> DEFINE a == (tor + i) % t
           b == (y + i) % t
           c == (x + i) % t
           Rest(z) == IF z < t THEN z ELSE z - t
<1>1. /\ tor + i \in 0 .. 2 * t - 1 /\ y + i \in 0 .. 2 * t - 1
      /\ x + i \in 0 .. 2 * t - 1
  OBVIOUS
<1>2. \A z \in 0 .. 2 * t - 1 : z % t = Rest(z)
  BY SmallRemainder
<1> HIDE DEF Rest
<1>3. a = Rest(tor + i) /\ b = Rest(y + i) /\ c = Rest(x + i)
  BY <1>1, <1>2
<1> USE DEF Rest
<1> HIDE DEF a, b, c
<1>4. x = a => tor = b
  BY <1>3 DEF Mirror
<1>5. tor = c => y = a
  BY <1>3 DEF Mirror
<1> QED BY <1>4, <1>5 DEF a, b, c, Following

(* No switch follows itself.                                               *)
LEMMA FollowsOther ==
  ASSUME NEW t \in Nat \ {0}, NEW x \in 0 .. t - 1, NEW i \in 1 .. t - 1
  PROVE  x # Following(x, i, t)
<1> DEFINE c == (x + i) % t
           Rest(z) == IF z < t THEN z ELSE z - t
<1>1. \A z \in 0 .. 2 * t - 1 : z % t = Rest(z)
  BY SmallRemainder
<1> HIDE DEF Rest
<1>2. c = Rest(x + i)
  BY <1>1
<1> USE DEF Rest
<1> HIDE DEF c
<1>3. x # c
  BY <1>2
<1> QED BY <1>3 DEF c, Following

(* The script of LBDestImbalance is regular where a top-of-rack switch has *)
(* half as many servers as there are pods, and a pod has more switches     *)
(* than a server sends to in it.                                           *)
LEMMA ImbalanceRegular ==
  ASSUME NEW tors \in Nat, NumPods > 1, NumServers = NumPods * (tors * (NumPods \div 2)),
         1 < tors, NumPaths \div NumPods < tors
  PROVE  /\ Regular(LBDestImbalance)
         /\ \A m \in LBDestImbalance : m.messageNum = 0
<1> DEFINE h == NumPods \div 2
           k == NumPods
           w == NumPaths \div NumPods
           flows == Max({w, 1})
           m == h * tors
           Tor(s) == (s \div h) % tors
           Followers(x) == {(x + i) % tors : i \in 1 .. flows}
           Sent(a, b) == b % h = a % h /\ Tor(b) \in Followers(Tor(a))
           Addr(p, x, o) == m * p + (h * x + o)
<1>1. k \in Nat /\ k > 1 /\ h \in Nat \ {0} /\ tors \in Nat \ {0}
  <2>1. 0 \in Servers
    BY ServerCount
  <2>2. k \in Nat
    BY <2>1, Pods
  <2>3. h \in Nat /\ k = 2 * h + (k % 2) /\ k % 2 \in 0 .. 1
    <3> HIDE DEF k
    <3>1. k \div 2 \in Nat /\ k % 2 \in 0 .. 2 - 1 /\ k = 2 * (k \div 2) + (k % 2)
      BY <2>2, Z3
    <3> QED BY <3>1 DEF k
  <2> HIDE DEF h
  <2> QED BY <2>2, <2>3
<1>2. w \in Nat /\ flows \in 1 .. tors - 1
  <2>1. NumPaths \in Nat
    BY PathsReachable, FatTreeAssumption DEF NumPaths
  <2>2. w \in Nat
    BY <1>1, <2>1, Division
  <2>3. w < tors
    OBVIOUS
  <2> HIDE DEF w
  <2>4. \E x \in {w, 1} : \A y \in {w, 1} : x >= y
    BY <2>2
  <2>5. flows \in {w, 1} /\ \A y \in {w, 1} : flows >= y
    BY <2>4 DEF Max
  <2> HIDE DEF flows
  <2> QED BY <2>2, <2>3, <2>5
<1>3. /\ down_links[1] = m /\ NumServers \div k = m /\ (NumServers \div h) \div k = tors
      /\ m \in Nat
  <2> HIDE DEF h, k
  <2>1. /\ down_links[1] = h * tors /\ NumServers \div NumPods = h * tors
        /\ (NumServers \div h) \div NumPods = tors
    <3>1. NumServers = NumPods * (tors * h)
      BY DEF h
    <3> QED BY <1>1, <3>1, TorsOfPods
  <2>2. h * tors \in Nat
    BY <1>1, Z3
  <2> QED BY <2>1, <2>2 DEF k
<1> HIDE DEF flows, w
<1>4. ASSUME NEW p \in 0 .. k - 1, NEW x \in 0 .. tors - 1, NEW o \in 0 .. h - 1
      PROVE  /\ Addr(p, x, o) \in Servers /\ Addr(p, x, o) % h = o /\ Tor(Addr(p, x, o)) = x
             /\ Addr(p, x, o) \div m = p
  <2> DEFINE r == h * x + o
             a == m * p + r
  <2>1. p \in Nat
    BY <1>1
  <2>2. a \in Nat /\ a % h = o /\ (a \div h) % tors = x /\ a \div m = p /\ r \in 0 .. m - 1
    <3> HIDE DEF h
    <3> QED BY <1>1, <2>1, Places
  <2>3. r \in Servers /\ r % m = r
    <3> HIDE DEF r, m
    <3>1. m \in Nat \ {0} /\ r % m = r
      <4>1. m \in Nat \ {0}
        BY <1>3, <2>2
      <4> QED BY <2>2, <4>1, DivisionSimple
    <3>2. m <= NumServers
      <4>1. NumServers = m * k
        <5>1. 0 \in Servers
          BY ServerCount
        <5> QED BY <1>3, <5>1, Pods
      <4> HIDE DEF k
      <4> QED BY <1>1, <3>1, <4>1, Multiple
    <3> QED BY <1>3, <2>2, <3>1, <3>2, ServerCount
  <2> HIDE DEF r, m
  <2>4. m * p + (r % m) \in Servers
    BY <1>3, <2>3, Counterpart
  <2> QED BY <2>2, <2>3, <2>4 DEF r
<1>5. ASSUME NEW a \in Servers
      PROVE  /\ a % h \in 0 .. h - 1 /\ Tor(a) \in 0 .. tors - 1 /\ a \div m \in 0 .. k - 1
             /\ a = Addr(a \div m, Tor(a), a % h)
  <2>1. a \in Nat /\ Pod(a) = a \div m /\ Pod(a) \in 0 .. k - 1
    BY <1>3, Pods
  <2> HIDE DEF h
  <2> QED BY <1>1, <2>1, PlacesOf
<1> HIDE DEF h
<1>6. ASSUME NEW a \in Servers, NEW p \in 0 .. k - 1, NEW x \in 0 .. tors - 1
      PROVE  Addr(p, x, a % h) \in Servers /\ Addr(p, x, a % h) % h = a % h
             /\ Tor(Addr(p, x, a % h)) = x
  <2>1. a % h \in 0 .. h - 1
    BY <1>5
  <2> HIDE DEF k, Tor, Addr
  <2> QED BY <1>4, <2>1
<1>7. ASSUME NEW x \in 0 .. tors - 1 PROVE Followers(x) \subseteq 0 .. tors - 1
  <2> SUFFICES ASSUME NEW i \in 1 .. flows PROVE (x + i) % tors \in 0 .. tors - 1
    OBVIOUS
  <2>1. x + i \in Nat
    BY <1>2
  <2> QED BY <1>1, <2>1, Division
<1> DEFINE sends(s) == {Msg(s, Addr(p, y, s % h), 0) : p \in 0 .. k - 1, y \in Followers(Tor(s))}
<1>8. LBDestImbalance = UNION {sends(s) : s \in Servers}
  <2> DEFINE written(s) == {Msg(s, p * m + y * h + (s % h), 0) :
                              p \in 0 .. k - 1, y \in Followers(Tor(s))}
  <2>1. ASSUME NEW s \in Servers, NEW p \in 0 .. k - 1, NEW y \in Followers(Tor(s))
        PROVE  p * m + y * h + (s % h) = Addr(p, y, s % h)
    <3>1. Tor(s) \in 0 .. tors - 1 /\ s % h \in 0 .. h - 1
      BY <1>5
    <3>2. y \in 0 .. tors - 1
      <4> HIDE DEF Followers, Tor
      <4> QED BY <1>7, <3>1
    <3> DEFINE o == s % h
    <3>3. p \in Nat /\ y \in Nat /\ o \in Nat /\ m \in Nat /\ h \in Nat
      BY <1>1, <1>3, <3>1, <3>2
    <3> HIDE DEF o, m
    <3>4. p * m + y * h + o = m * p + (h * y + o)
      BY <3>3, Z3
    <3> QED BY <3>4 DEF o
  <2>2. LBDestImbalance = UNION {written(s) : s \in Servers}
    <3> HIDE DEF m
    <3>1. flows = Max({NumPaths \div NumPods, 1}) /\ h = NumPods \div 2
      BY DEF flows, w, h
    <3>2. \A x : Followers(x) = NeighborTors(x, tors, NumPaths \div NumPods)
      BY <3>1 DEF NeighborTors
    <3> HIDE DEF Followers
    <3> QED BY <1>3, <3>1, <3>2 DEF LBDestImbalance
  <2>3. ASSUME NEW s \in Servers PROVE written(s) = sends(s)
    <3> HIDE DEF Followers, Tor, Addr, m, k
    <3> QED BY <2>1
  <2> HIDE DEF written, sends
  <2> QED BY <2>2, <2>3
<1>9. ASSUME NEW c \in LBDestImbalance
      PROVE  \E a, b \in Servers : c = Msg(a, b, 0) /\ Sent(a, b)
  <2>0. PICK a \in Servers : c \in sends(a)
    BY <1>8
  <2>1. PICK p \in 0 .. k - 1, y \in Followers(Tor(a)) : c = Msg(a, Addr(p, y, a % h), 0)
    BY <2>0
  <2>2. Tor(a) \in 0 .. tors - 1
    BY <1>5
  <2> HIDE DEF k, Tor, Addr, Followers
  <2>3. y \in 0 .. tors - 1
    BY <1>7, <2>1, <2>2
  <2> DEFINE b == Addr(p, y, a % h)
  <2>4. b \in Servers /\ b % h = a % h /\ Tor(b) = y
    BY <1>6, <2>3
  <2> QED BY <2>1, <2>4
<1>10. ASSUME NEW a \in Servers, NEW b \in Servers, Sent(a, b)
       PROVE  Msg(a, b, 0) \in LBDestImbalance
  <2>1. b \div m \in 0 .. k - 1 /\ b = Addr(b \div m, Tor(b), b % h)
    BY <1>5
  <2> HIDE DEF k, Tor, Addr, Followers
  <2>2. Msg(a, b, 0) \in sends(a)
    BY <1>10, <2>1
  <2> HIDE DEF sends
  <2> QED BY <1>8, <2>2
<1>11. \A a, b : /\ Msg(a, b, 0).source = a /\ Msg(a, b, 0).destination = b
                 /\ Msg(a, b, 0).messageNum = 0
  BY DEF Msg
<1>12. AmongServers(LBDestImbalance)
  BY <1>9 DEF AmongServers
<1>13. \A a, b \in Servers : Msg(a, b, 0) \in LBDestImbalance => Sent(a, b)
  <2> SUFFICES ASSUME NEW a \in Servers, NEW b \in Servers, Msg(a, b, 0) \in LBDestImbalance
               PROVE  Sent(a, b)
    OBVIOUS
  <2>1. PICK c, d \in Servers : Msg(a, b, 0) = Msg(c, d, 0) /\ Sent(c, d)
    BY <1>9
  <2>2. a = c /\ b = d
    BY <1>11, <2>1
  <2> HIDE DEF Sent
  <2> QED BY <2>1, <2>2
<1>14. ASSUME NEW s \in Servers
       PROVE  Cardinality({c \in LBDestImbalance : c.source = s})
                = Cardinality({c \in LBDestImbalance : c.destination = s})
  <2> DEFINE T == Tor(s)
             f == [b \in Servers |-> Addr(b \div m, Mirror(Tor(b), T, tors), b % h)]
  <2>1. T \in 0 .. tors - 1
    BY <1>5
  <2>2. ASSUME NEW b \in Servers
        PROVE  /\ f[b] \in Servers /\ f[b] \div m = b \div m /\ f[b] % h = b % h
               /\ Tor(f[b]) = Mirror(Tor(b), T, tors)
    <3>1. b % h \in 0 .. h - 1 /\ Tor(b) \in 0 .. tors - 1 /\ b \div m \in 0 .. k - 1
      BY <1>5
    <3> HIDE DEF k, Tor, Addr, T, m
    <3>2. Mirror(Tor(b), T, tors) \in 0 .. tors - 1
      BY <1>1, <2>1, <3>1, MirrorIs
    <3> QED BY <1>4, <3>1, <3>2
  <2>3. ASSUME NEW b \in Servers PROVE f[f[b]] = b
    <3>1. Tor(b) \in 0 .. tors - 1 /\ b = Addr(b \div m, Tor(b), b % h)
      BY <1>5
    <3> HIDE DEF k, Tor, Addr, T, m
    <3>2. f[f[b]] = Addr(f[b] \div m, Mirror(Tor(f[b]), T, tors), f[b] % h)
      BY <2>2
    <3>3. Mirror(Mirror(Tor(b), T, tors), T, tors) = Tor(b)
      BY <1>1, <2>1, <3>1, MirrorIs
    <3> HIDE DEF f
    <3> QED BY <2>2, <3>1, <3>2, <3>3
  <2>4. f \in [Servers -> Servers]
    <3> HIDE DEF Addr, Tor, m
    <3>1. f = [b \in Servers |-> f[b]]
      OBVIOUS
    <3> HIDE DEF f
    <3> QED BY <2>2, <3>1
  <2> HIDE DEF f, k, Addr, T, m
  <2>5. ASSUME NEW b \in Servers, NEW i \in 1 .. flows
        PROVE  /\ Tor(b) = (T + i) % tors => T = (Tor(f[b]) + i) % tors
               /\ T = (Tor(b) + i) % tors => Tor(f[b]) = (T + i) % tors
    <3>1. Tor(b) \in 0 .. tors - 1 /\ Tor(f[b]) = Mirror(Tor(b), T, tors) /\ i \in 1 .. tors - 1
      BY <1>2, <1>5, <2>2
    <3> HIDE DEF Tor
    <3> DEFINE x == Tor(b)
    <3>2. x \in 0 .. tors - 1
      BY <3>1
    <3> HIDE DEF x
    <3> DEFINE y == Tor(f[b])
    <3>3. y \in 0 .. tors - 1 /\ y = Mirror(x, T, tors)
      BY <1>5, <2>2, <3>1 DEF x
    <3> HIDE DEF y
    <3>4. /\ x = Following(T, i, tors) => T = Following(y, i, tors)
          /\ T = Following(x, i, tors) => y = Following(T, i, tors)
      BY <1>1, <2>1, <3>1, <3>2, <3>3, MirrorFollows
    <3> QED BY <3>4 DEF x, y, Following
  <2>6. ASSUME NEW b \in Servers, Msg(s, b, 0) \in LBDestImbalance
        PROVE  Msg(f[b], s, 0) \in LBDestImbalance
    <3>1. Sent(s, b)
      BY <1>13, <2>6
    <3> HIDE DEF Tor
    <3>2. PICK i \in 1 .. flows : Tor(b) = (T + i) % tors
      BY <3>1 DEF T
    <3>3. s % h = f[b] % h /\ T = (Tor(f[b]) + i) % tors
      BY <2>2, <2>5, <3>1, <3>2
    <3>4. Sent(f[b], s)
      BY <3>3 DEF T
    <3> QED BY <1>10, <2>2, <3>4
  <2>7. ASSUME NEW b \in Servers, Msg(b, s, 0) \in LBDestImbalance
        PROVE  Msg(s, f[b], 0) \in LBDestImbalance
    <3>1. Sent(b, s)
      BY <1>13, <2>7
    <3> HIDE DEF Tor
    <3>2. PICK i \in 1 .. flows : T = (Tor(b) + i) % tors
      BY <3>1 DEF T
    <3>3. s % h = f[b] % h /\ Tor(f[b]) = (T + i) % tors
      BY <2>2, <2>5, <3>1, <3>2
    <3>4. Sent(s, f[b])
      BY <3>3 DEF T
    <3> QED BY <1>10, <2>2, <3>4
  <2> QED BY <1>12, <2>3, <2>4, <2>6, <2>7, CountsAgree
<1>15. ASSUME NEW c \in LBDestImbalance
       PROVE  c.source # c.destination /\ c.messageNum = 0
  <2>1. PICK a, b \in Servers : c = Msg(a, b, 0) /\ Sent(a, b)
    BY <1>9
  <2>2. a # b
    <3> SUFFICES ASSUME a = b PROVE FALSE
      OBVIOUS
    <3>1. Tor(a) \in 0 .. tors - 1
      BY <1>5
    <3> HIDE DEF Tor
    <3>2. PICK i \in 1 .. flows : Tor(a) = (Tor(a) + i) % tors
      BY <2>1
    <3>3. i \in 1 .. tors - 1
      BY <1>2
    <3> DEFINE x == Tor(a)
    <3>4. x \in 0 .. tors - 1
      BY <3>1
    <3> HIDE DEF x
    <3>5. x # Following(x, i, tors)
      BY <1>1, <3>3, <3>4, FollowsOther
    <3> QED BY <3>2, <3>5 DEF x, Following
  <2> QED BY <1>11, <2>1, <2>2
<1> QED BY <1>14, <1>15 DEF Regular

(* The script of a permutation of the pods is regular.                     *)
LEMMA PodsRegular ==
  ASSUME NEW pods \in PodLists
  PROVE  /\ Regular(PairedPods(pods))
         /\ \A m \in PairedPods(pods) : m.messageNum = 0
<1> DEFINE k == NumPods
           m == down_links[1]
           to(s) == m * pods[Pod(s) + 1] + (s % m)
<1>1. k \in Nat \ {0} /\ m \in Nat \ {0} /\ NumServers \div k = m
  <2>1. 0 \in Servers
    BY ServerCount
  <2>2. k \in Nat \ {0} /\ m \in Nat \ {0} /\ NumServers = m * k
    BY <2>1, Pods
  <2> HIDE DEF k, m
  <2>3. m * k = k * m
    BY <2>2, Z3
  <2>4. (k * m) \div k = m
    BY <2>2, DivisionSimple
  <2> QED BY <2>2, <2>3, <2>4
<1>2. /\ \A i \in 1 .. k : pods[i] \in 0 .. k - 1 /\ pods[i] # i - 1
      /\ \A i, j \in 1 .. k : pods[i] = pods[j] => i = j
      /\ \A p \in 0 .. k - 1 : \E i \in 1 .. k : pods[i] = p
  <2> DEFINE P == 0 .. k - 1
  <2>1. pods \in SetToSeqs(P) /\ \A i \in DOMAIN pods : pods[i] # i - 1
    BY DEF PodLists
  <2>2. IsFiniteSet(P) /\ Cardinality(P) = k
    <3> HIDE DEF k
    <3>1. 0 \in Int /\ k - 1 \in Int /\ ~ (0 > k - 1) /\ (k - 1) - 0 + 1 = k
      BY <1>1
    <3> QED BY <3>1, FS_Interval
  <2> HIDE DEF P, k
  <2>3. /\ pods \in [1 .. k -> P]
        /\ \A i, j \in 1 .. k : pods[i] = pods[j] => i = j
        /\ \A x \in P : \E i \in 1 .. k : pods[i] = x
    BY <2>1, <2>2, ListOf
  <2> QED BY <2>1, <2>3 DEF P
<1>3. ASSUME NEW s \in Servers
      PROVE  /\ s \in Nat /\ Pod(s) \in 0 .. k - 1 /\ Pod(s) = s \div m
             /\ s = m * Pod(s) + (s % m) /\ Pod(s) + 1 \in 1 .. k
  <2>1. s \in Nat /\ Pod(s) \in 0 .. k - 1 /\ Pod(s) = s \div m /\ s = m * Pod(s) + (s % m)
    BY Pods
  <2> HIDE DEF k, m
  <2>2. Pod(s) + 1 \in 1 .. k
    BY <1>1, <2>1
  <2> QED BY <2>1, <2>2
<1>4. ASSUME NEW s \in Servers
      PROVE  /\ to(s) \in Servers /\ Pod(to(s)) = pods[Pod(s) + 1] /\ to(s) % m = s % m
             /\ to(s) # s
  <2>1. pods[Pod(s) + 1] \in 0 .. k - 1 /\ pods[Pod(s) + 1] # Pod(s)
    <3>1. Pod(s) \in Int /\ (Pod(s) + 1) - 1 = Pod(s)
      BY <1>3
    <3> HIDE DEF k
    <3> QED BY <1>2, <1>3, <3>1
  <2>2. to(s) \in Servers /\ Pod(to(s)) = pods[Pod(s) + 1] /\ to(s) % m = s % m
    BY <2>1, Counterpart
  <2> HIDE DEF to
  <2> QED BY <2>1, <2>2
<1>5. ASSUME NEW r \in Servers, NEW s \in Servers, to(r) = to(s) PROVE r = s
  <2>1. pods[Pod(r) + 1] = pods[Pod(s) + 1] /\ r % m = s % m
    <3> HIDE DEF to, m
    <3> QED BY <1>4, <1>5
  <2> HIDE DEF k, m
  <2>2. Pod(r) + 1 = Pod(s) + 1
    BY <1>2, <1>3, <2>1
  <2>3. Pod(r) = Pod(s)
    <3>1. Pod(r) \in Int /\ Pod(s) \in Int
      BY <1>3
    <3> QED BY <2>2, <3>1
  <2>4. r = m * Pod(s) + (s % m)
    BY <1>3, <2>1, <2>3
  <2> QED BY <1>3, <2>4
<1>6. ASSUME NEW s \in Servers PROVE \E r \in Servers : to(r) = s
  <2>1. PICK i \in 1 .. k : pods[i] = Pod(s)
    BY <1>2, <1>3
  <2> DEFINE r == m * (i - 1) + (s % m)
  <2>2. i - 1 \in 0 .. k - 1 /\ (i - 1) + 1 = i
    <3> HIDE DEF k
    <3> QED BY <1>1
  <2>3. r \in Servers /\ Pod(r) = i - 1 /\ r % m = s % m
    BY <2>2, Counterpart
  <2> HIDE DEF r, m
  <2>4. to(r) = s
    BY <1>3, <2>1, <2>2, <2>3
  <2> QED BY <2>3, <2>4
<1>7. PairedPods(pods) = {Msg(s, to(s), 0) : s \in Servers}
  <2>1. ASSUME NEW s \in Servers
        PROVE  pods[(s \div m) + 1] * m + (s % m) = to(s)
    <3> DEFINE p == pods[Pod(s) + 1]
    <3>1. p \in 0 .. k - 1 /\ Pod(s) = s \div m
      BY <1>2, <1>3
    <3>2. p \in Nat
      BY <3>1
    <3> HIDE DEF p, m
    <3>3. p * m = m * p
      BY <1>1, <3>2, Z3
    <3> QED BY <3>1, <3>3 DEF p
  <2>2. PairedPods(pods) = {Msg(s, pods[(s \div m) + 1] * m + (s % m), 0) : s \in Servers}
    <3> HIDE DEF m
    <3> QED BY <1>1 DEF PairedPods
  <2> HIDE DEF to, m
  <2> QED BY <2>1, <2>2
<1> HIDE DEF to
<1>8. \A r \in Servers : LET c == Msg(r, to(r), 0)
                         IN  c.source = r /\ c.destination = to(r) /\ c.messageNum = 0
  BY DEF Msg
<1>9. ASSUME NEW c \in PairedPods(pods)
      PROVE  c.source # c.destination /\ c.messageNum = 0
  <2>1. PICK r \in Servers : c = Msg(r, to(r), 0)
    BY <1>7
  <2> QED BY <1>4, <1>8, <2>1
<1>10. ASSUME NEW s \in Servers
       PROVE  Cardinality({c \in PairedPods(pods) : c.source = s})
                = Cardinality({c \in PairedPods(pods) : c.destination = s})
  <2>1. PICK r \in Servers : to(r) = s
    BY <1>6
  <2>2. {c \in PairedPods(pods) : c.source = s} = {Msg(s, to(s), 0)}
    BY <1>7, <1>8
  <2>3. {c \in PairedPods(pods) : c.destination = s} = {Msg(r, to(r), 0)}
    BY <1>5, <1>7, <1>8, <2>1
  <2>4. Cardinality({Msg(s, to(s), 0)}) = 1 /\ Cardinality({Msg(r, to(r), 0)}) = 1
    BY FS_Singleton
  <2> QED BY <2>2, <2>3, <2>4
<1> QED BY <1>9, <1>10 DEF Regular

(* Numbers in blocks of one size, the last of which may be smaller.        *)
LEMMA Blocks ==
  ASSUME NEW n \in Nat \ {0}, NEW size \in Nat \ {0}, NEW k,
         k = (n \div size) + (IF n % size = 0 THEN 0 ELSE 1)
  PROVE  /\ k \in Nat \ {0}
         /\ \A p \in 1 .. k : (p - 1) * size \in 0 .. n - 1 /\ p * size = (p - 1) * size + size
         /\ n - (k - 1) * size = IF n % size = 0 THEN size ELSE n % size
<1> DEFINE full == n \div size
           rest == n % size
           y == full * size
<1>1. full \in Nat /\ rest \in 0 .. size - 1 /\ n = y + rest
  <2>1. full \in Nat /\ rest \in 0 .. size - 1 /\ n = size * full + rest
    BY Division
  <2> HIDE DEF full, rest
  <2>2. size * full = full * size
    BY <2>1, Z3
  <2> QED BY <2>1, <2>2
<1> HIDE DEF full, rest
<1>2. y \in Nat /\ (full = 0 => y = 0) /\ (full - 1) * size = y - size
  BY <1>1, Z3
<1>3. k = full + (IF rest = 0 THEN 0 ELSE 1)
  BY DEF full, rest
<1>4. k \in Nat \ {0}
  <2> HIDE DEF y
  <2> QED BY <1>1, <1>2, <1>3
<1> DEFINE x == (k - 1) * size
<1>5. x = IF rest = 0 THEN y - size ELSE y
  <2>1. CASE rest = 0
    <3>1. k = full
      BY <1>1, <1>3, <2>1
    <3> QED BY <1>2, <2>1, <3>1
  <2>2. CASE rest # 0
    <3>1. k - 1 = full
      BY <1>1, <1>3, <2>2
    <3> QED BY <2>2, <3>1
  <2> QED BY <2>1, <2>2
<1>6. x \in Nat
  <2>1. k - 1 \in Nat
    BY <1>4
  <2> QED BY <2>1, Z3
<1> HIDE DEF x, y
<1>7. x \in 0 .. n - 1 /\ n - x = IF rest = 0 THEN size ELSE rest
  BY <1>1, <1>2, <1>5, <1>6
<1>8. ASSUME NEW p \in 1 .. k
      PROVE  (p - 1) * size \in 0 .. n - 1 /\ p * size = (p - 1) * size + size
  <2>1. p - 1 \in Nat /\ k - p \in Nat /\ p \in Nat
    BY <1>4
  <2> DEFINE z == (p - 1) * size
             u == (k - p) * size
  <2>2. z \in Nat /\ u \in Nat
    <3> DEFINE i == p - 1
               j == k - p
    <3>1. i \in Nat /\ j \in Nat
      BY <2>1
    <3> HIDE DEF i, j
    <3>2. i * size \in Nat /\ j * size \in Nat
      BY <3>1, Z3
    <3> QED BY <3>2 DEF i, j
  <2>3. x = z + u /\ p * size = z + size
    BY <1>4, <2>1, Z3 DEF x
  <2> HIDE DEF z, u
  <2>4. z \in 0 .. n - 1
    BY <1>7, <2>2, <2>3
  <2> QED BY <2>3, <2>4 DEF z
<1> QED BY <1>4, <1>7, <1>8 DEF x, rest

(* Partitions consist of servers, and the last one of two or more.         *)
LEMMA PartitionsAre ==
  ASSUME NEW list \in SetToSeqs(Servers), NEW size \in Nat \ {0}
  PROVE  LET partitions == partitionServers(list, size)
             last == partitions[Len(partitions)]
         IN  /\ \A p \in DOMAIN partitions : ToSet(partitions[p]) \subseteq Servers
             /\ Len(partitions) \in DOMAIN partitions
             /\ size # 1 /\ NumServers % size # 1 =>
                  1 \in DOMAIN last /\ 2 \in DOMAIN last /\ last[1] # last[2]
<1> DEFINE n == NumServers
           back == Reverse(list)
           k == (n \div size) + (IF n % size = 0 THEN 0 ELSE 1)
           first(p) == (p - 1) * size + 1
           end(p) == Min({p * size, n})
           part(p) == SubSeq(back, first(p), end(p))
           partitions == partitionServers(list, size)
<1>1. n \in Nat \ {0}
  BY ServerCount
<1>2. /\ list \in [1 .. n -> Servers]
      /\ \A i, j \in 1 .. n : list[i] = list[j] => i = j
  BY ServerCount, ListOf
<1>3. partitions = [p \in 1 .. k |-> part(p)]
  BY DEF partitionServers
<1> HIDE DEF partitions, n
<1>4. /\ k \in Nat \ {0}
      /\ \A p \in 1 .. k : (p - 1) * size \in 0 .. n - 1 /\ p * size = (p - 1) * size + size
      /\ n - (k - 1) * size = IF n % size = 0 THEN size ELSE n % size
  <2> DEFINE l == k
  <2>1. l = (n \div size) + (IF n % size = 0 THEN 0 ELSE 1)
    OBVIOUS
  <2> HIDE DEF l
  <2>2. /\ l \in Nat \ {0}
        /\ \A p \in 1 .. l : (p - 1) * size \in 0 .. n - 1 /\ p * size = (p - 1) * size + size
        /\ n - (l - 1) * size = IF n % size = 0 THEN size ELSE n % size
    BY <1>1, <2>1, Blocks
  <2> QED BY <2>2 DEF l
<1> HIDE DEF k
<1>5. /\ back \in Seq(Servers) /\ Len(back) = n
      /\ \A i \in 1 .. n : back[i] = list[n - i + 1]
  <2>1. list \in Seq(Servers) /\ Len(list) = n
    BY <1>1, <1>2
  <2>2. back = [i \in 1 .. n |-> list[(n - i) + 1]]
    BY <2>1 DEF Reverse
  <2> HIDE DEF back
  <2>3. \A i \in 1 .. n : back[i] = list[n - i + 1] /\ list[n - i + 1] \in Servers
    <3>1. \A i \in 1 .. n : n - i + 1 \in 1 .. n
      BY <1>1
    <3> QED BY <1>2, <2>2, <3>1
  <2>4. back \in [1 .. n -> Servers]
    BY <2>2, <2>3
  <2> QED BY <1>1, <2>3, <2>4
<1> HIDE DEF back
<1>6. ASSUME NEW p \in 1 .. k
      PROVE  /\ first(p) \in 1 .. n /\ end(p) \in first(p) .. n
             /\ end(p) = p * size \/ end(p) = n
             /\ n - first(p) + 1 >= 2 /\ size >= 2 => end(p) >= first(p) + 1
  <2> DEFINE x == (p - 1) * size
             y == p * size
             e == end(p)
  <2>1. x \in 0 .. n - 1 /\ y = x + size
    BY <1>4
  <2> HIDE DEF x, y
  <2>2. e = Min({y, n})
    BY DEF y
  <2> HIDE DEF e
  <2>3. \E c \in {y, n} : \A d \in {y, n} : c <= d
    BY <1>1, <2>1
  <2>4. e \in {y, n} /\ e <= y /\ e <= n
    BY <2>2, <2>3 DEF Min
  <2>5. first(p) = x + 1
    BY DEF x
  <2> HIDE DEF first
  <2>6. /\ first(p) \in 1 .. n /\ e \in first(p) .. n /\ (e = y \/ e = n)
        /\ n - first(p) + 1 >= 2 /\ size >= 2 => e >= first(p) + 1
    BY <1>1, <2>1, <2>4, <2>5
  <2> QED BY <2>6 DEF e, y
<1> HIDE DEF first, end
<1>7. ASSUME NEW p \in 1 .. k
      PROVE  /\ part(p) \in Seq(Servers) /\ Len(part(p)) = end(p) - first(p) + 1
             /\ \A i \in 1 .. end(p) - first(p) + 1 : part(p)[i] = back[first(p) + i - 1]
  <2>1. first(p) \in 1 .. n /\ end(p) \in first(p) .. n
    BY <1>6
  <2> DEFINE a == first(p)
             b == end(p)
  <2>2. a \in Int /\ b \in Int /\ a <= b /\ \A i \in a .. b : back[i] \in Servers
    <3>1. a \in Int /\ b \in Int /\ a <= b /\ \A i \in a .. b : i \in 1 .. n
      BY <1>1, <2>1
    <3>2. \A i \in 1 .. n : back[i] \in Servers
      BY <1>5
    <3> QED BY <3>1, <3>2
  <2> HIDE DEF a, b
  <2>3. /\ SubSeq(back, a, b) \in Seq(Servers) /\ Len(SubSeq(back, a, b)) = b - a + 1
        /\ \A i \in 1 .. b - a + 1 : SubSeq(back, a, b)[i] = back[a + i - 1]
    BY <2>2, SubSeqProperties
  <2> QED BY <2>3 DEF a, b, part
<1> HIDE DEF part
<1>8. \A p \in DOMAIN partitions : ToSet(partitions[p]) \subseteq Servers
  BY <1>3, <1>7 DEF ToSet
<1>9. Len(partitions) = k /\ k \in DOMAIN partitions
  BY <1>3, <1>4
<1>10. ASSUME size # 1, n % size # 1
       PROVE  1 \in DOMAIN part(k) /\ 2 \in DOMAIN part(k) /\ part(k)[1] # part(k)[2]
  <2>1. k \in 1 .. k
    BY <1>4
  <2>2. n - first(k) + 1 >= 2
    <3> DEFINE x == (k - 1) * size
               rest == n % size
    <3>1. rest \in Nat /\ x \in Int /\ n - x = IF rest = 0 THEN size ELSE rest
      BY <1>1, <1>4, <2>1, Division
    <3>2. first(k) = x + 1 /\ rest # 1
      BY <1>10 DEF first
    <3> HIDE DEF x, rest
    <3> QED BY <1>1, <1>10, <3>1, <3>2
  <2> DEFINE a == first(k)
             b == end(k)
  <2>3. a \in 1 .. n /\ b \in a .. n /\ b >= a + 1
    BY <1>6, <1>10, <2>1, <2>2
  <2>4. /\ Len(part(k)) = b - a + 1 /\ part(k) \in Seq(Servers)
        /\ \A i \in 1 .. b - a + 1 : part(k)[i] = back[a + i - 1]
    BY <1>7, <2>1
  <2> HIDE DEF a, b
  <2>5. 1 \in 1 .. b - a + 1 /\ 2 \in 1 .. b - a + 1
    BY <1>1, <2>3
  <2>6. part(k)[1] = back[a] /\ part(k)[2] = back[a + 1]
    <3>1. part(k)[1] = back[a + 1 - 1] /\ part(k)[2] = back[a + 2 - 1]
      BY <2>4, <2>5
    <3>2. a + 1 - 1 = a /\ a + 2 - 1 = a + 1
      BY <2>3
    <3> QED BY <3>1, <3>2
  <2>7. back[a] # back[a + 1]
    <3>1. a \in 1 .. n /\ a + 1 \in 1 .. n /\ n - a + 1 \in 1 .. n /\ n - (a + 1) + 1 \in 1 .. n
      BY <1>1, <2>3
    <3>2. n - a + 1 # n - (a + 1) + 1
      BY <1>1, <2>3
    <3>3. back[a] = list[n - a + 1] /\ back[a + 1] = list[n - (a + 1) + 1]
      BY <1>5, <3>1
    <3> QED BY <1>2, <3>1, <3>2, <3>3
  <2> QED BY <2>4, <2>5, <2>6, <2>7
<1>11. partitions[Len(partitions)] = part(k)
  BY <1>3, <1>9
<1> QED BY <1>8, <1>9, <1>10, <1>11 DEF partitions, n

(* In a partition all send to each other, so the script is regular.        *)
LEMMA PartitionsRegular ==
  ASSUME NEW list \in SetToSeqs(Servers), NEW size \in Nat \ {0}
  PROVE  Regular(AllToAllPartition(list, size))
<1> DEFINE partitions == partitionServers(list, size)
           part(p) == ToSet(partitions[p])
           messages == AllToAllPartition(list, size)
<1>1. \A p \in DOMAIN partitions : part(p) \in SUBSET Servers
  BY PartitionsAre
<1>2. messages = UNION {AllAmong(part(p)) : p \in DOMAIN partitions}
  BY DEF AllToAllPartition
<1> HIDE DEF partitions, part, messages
<1>3. ASSUME NEW p \in DOMAIN partitions
      PROVE  /\ AmongServers(AllAmong(part(p)))
             /\ \A m \in AllAmong(part(p)) : m.source # m.destination
             /\ \A a, b \in Servers : Msg(a, b, 0) \in AllAmong(part(p)) => Msg(b, a, 0) \in AllAmong(part(p))
  <2>1. part(p) \in SUBSET Servers
    BY <1>1
  <2> QED BY <2>1, AllSend
<1>4. AmongServers(messages)
  BY <1>2, <1>3 DEF AmongServers
<1>5. \A m \in messages : m.source # m.destination
  BY <1>2, <1>3
<1>6. \A a, b \in Servers : Msg(a, b, 0) \in messages => Msg(b, a, 0) \in messages
  BY <1>2, <1>3
<1>7. Regular(messages)
  BY <1>4, <1>5, <1>6, SymmetricRegular
<1> QED BY <1>7 DEF messages

(* A malicious tenant has two servers, of which one sends to the other.    *)
LEMMA VictimRegular ==
  ASSUME NEW list \in SetToSeqs(Servers), NEW size \in Nat \ {0, 1}, NumServers % size # 1
  PROVE  Regular(AllToAllVictimTenant(list, size))
<1> DEFINE partitions == partitionServers(list, size)
           part(p) == ToSet(partitions[p])
           last == partitions[Len(partitions)]
           victim(s) == IF s = last[1] THEN last[2] ELSE last[1]
           attacks == {Msg(s, victim(s), 1) : s \in ToSet(last)}
           messages == AllToAllVictimTenant(list, size)
<1>1. /\ \A p \in DOMAIN partitions : part(p) \in SUBSET Servers
      /\ Len(partitions) \in DOMAIN partitions
      /\ 1 \in DOMAIN last /\ 2 \in DOMAIN last /\ last[1] # last[2]
  BY PartitionsAre
<1>2. DOMAIN partitions = 1 .. Len(partitions) /\ Len(partitions) \in Nat
  <2> DEFINE k == (NumServers \div size) + (IF NumServers % size = 0 THEN 0 ELSE 1)
  <2>1. DOMAIN partitions = 1 .. k
    BY DEF partitionServers
  <2>2. k \in Nat
    <3>1. NumServers \div size \in Nat
      BY ServerCount, Division
    <3> QED BY <3>1
  <2>3. partitions = [p \in 1 .. k |-> partitions[p]]
    BY DEF partitionServers
  <2> HIDE DEF partitions, k
  <2>4. Len(partitions) = k
    BY <2>2, <2>3
  <2> QED BY <2>1, <2>2, <2>4
<1>3. messages = attacks \cup UNION {AllAmong(part(p)) : p \in 1 .. Len(partitions) - 1}
  BY DEF AllToAllVictimTenant
<1> HIDE DEF partitions, part, last, messages
<1>4. \A a, b : /\ Msg(a, b, 1).source = a /\ Msg(a, b, 1).destination = b
                /\ Msg(a, b, 1).messageNum = 1
  BY DEF Msg
<1>5. \A m \in attacks : m.source # m.destination
  BY <1>1, <1>4
<1>6. ASSUME NEW p \in 1 .. Len(partitions) - 1, NEW m \in AllAmong(part(p))
      PROVE  m.source # m.destination
  <2>1. p \in DOMAIN partitions
    BY <1>2
  <2>2. part(p) \in SUBSET Servers
    BY <1>1, <2>1
  <2> QED BY <2>2, AllSend
<1>7. \E m \in messages : m.messageNum # 0
  <2>1. last[1] \in ToSet(last)
    BY <1>1 DEF ToSet
  <2>2. Msg(last[1], victim(last[1]), 1) \in messages
    BY <1>3, <2>1
  <2> QED BY <1>4, <2>2
<1>8. \A m \in messages : m.source # m.destination
  <2> HIDE DEF attacks
  <2> QED BY <1>3, <1>5, <1>6
<1>9. Regular(messages)
  BY <1>7, <1>8 DEF Regular
<1> QED BY <1>9 DEF messages

(* What was written before is not one of the patterns.                     *)
LEMMA WrittenIsNot == \E m \in WrittenScript : m.messageNum \notin {0, 1}
<1>1. 0 \in Servers
  BY ServerCount
<1>2. Msg(0, (0 + 1) % NumServers, 2) \in WrittenScript
  BY <1>1 DEF WrittenScript
<1>3. Msg(0, (0 + 1) % NumServers, 2).messageNum = 2
  BY DEF Msg
<1> QED BY <1>2, <1>3

(* A script that is there from the start stays.                            *)
ScriptInv ==
  /\ PairingInv
  /\ script # NoScript /\ pairing.at = 0 => script \in TrafficScripts \cup {WrittenScript}

(* It is one of the patterns, or was written before.                       *)
LEMMA ScriptInit == NumServers % 2 = 0 /\ AppInit => ScriptInv
BY PairingInit DEF AppInit, ScriptInv

(* Otherwise the pairs make it.                                            *)
LEMMA ScriptNext == ScriptInv /\ [AppNext]_AppVars => ScriptInv'
<1> SUFFICES ASSUME ScriptInv, [AppNext]_AppVars PROVE ScriptInv'
  OBVIOUS
<1>1. PairingInv'
  BY PairingNext DEF ScriptInv
<1>2. CASE Reassign
  BY <1>1, <1>2 DEF Reassign, ScriptInv, NoScript
<1>3. CASE WritePairs
  <2>1. pairing'.at # 0
    BY <1>3, ServerCount DEF WritePairs
  <2> QED BY <1>1, <2>1 DEF ScriptInv
<1>4. CASE pairing' = pairing /\ script' = script
  BY <1>1, <1>4 DEF ScriptInv, NoScript, TrafficScripts, WrittenScript
<1>5. CASE UNCHANGED AppVars
  BY <1>4, <1>5 DEF AppVars
<1>6. CASE AppNext /\ ~ Reassign /\ ~ WritePairs
  BY <1>4, <1>6 DEF AppNext, ParseScript, ActivateMessage, SendNextSegment, StopAtLimit, Tick, params
<1> QED BY <1>2, <1>3, <1>5, <1>6

(* All generated scripts are regular: where servers are even in number,    *)
(* top-of-rack switches have half as many servers as there are pods, pods  *)
(* more switches than a server sends to, and partitions two servers or     *)
(* more, no server sends to itself, every one is sent as many messages as  *)
(* it sends, and pairs are across pods (createTraffic() of the patterns).  *)
THEOREM ScriptIsRegular ==
  ASSUME NEW tors \in Nat, NumPods > 1, NumServers % 2 = 0,
         NumServers = NumPods * (tors * (NumPods \div 2)),
         1 < tors, NumPaths \div NumPods < tors,
         PartitionSize \in Nat \ {0, 1}, NumServers % PartitionSize # 1
  PROVE  AppSpec => []ScriptRegular
<1>1. ASSUME NEW messages \in TrafficScripts PROVE Regular(messages)
  <2>1. CASE messages = AllToAll
    <3>1. Servers \in SUBSET Servers
      OBVIOUS
    <3>2. /\ AmongServers(AllToAll) /\ \A m \in AllToAll : m.source # m.destination
          /\ \A a, b \in Servers : Msg(a, b, 0) \in AllToAll => Msg(b, a, 0) \in AllToAll
      BY <3>1, AllSend DEF AllToAll
    <3> QED BY <2>1, <3>2, SymmetricRegular
  <2>2. CASE messages = LBDestImbalance
    BY <2>2, ImbalanceRegular
  <2>3. CASE \E l \in SetToSeqs(Servers) : messages = AllToAllPartition(l, PartitionSize)
    BY <2>3, PartitionsRegular
  <2>4. CASE \E l \in SetToSeqs(Servers) : messages = AllToAllVictimTenant(l, PartitionSize)
    BY <2>4, VictimRegular
  <2>5. CASE \E l \in PodLists : messages = PairedPods(l)
    BY <2>5, PodsRegular
  <2> QED BY <2>1, <2>2, <2>3, <2>4, <2>5 DEF TrafficScripts
<1>2. ScriptInv => ScriptRegular
  <2> SUFFICES ASSUME ScriptInv, Generated PROVE ScriptRegular
    BY DEF ScriptRegular
  <2>1. CASE pairing.at # 0
    BY <2>1, PairsRegular DEF ScriptInv
  <2>2. CASE pairing.at = 0
    <3>1. script \in TrafficScripts
      BY <2>2, WrittenIsNot DEF ScriptInv, Generated
    <3>2. Regular(script)
      BY <1>1, <3>1
    <3> QED BY <2>2, <3>2 DEF Regular, ScriptRegular
  <2> QED BY <2>1, <2>2
<1>3. AppInit => ScriptInv
  BY ScriptInit
<1> QED BY <1>2, <1>3, ScriptNext, PTL DEF AppSpec
-----------------------------------------------------------------------------
(* Bursts.                                                                 *)

(* A fraction in lowest terms has the value and the sign of its terms.     *)
LEMMA FractionIs ==
  ASSUME NEW n \in Int, NEW d \in Nat \ {0}
  PROVE  LET f == Fraction(n, d)
         IN  /\ f \in Int \X (Nat \ {0})
             /\ f[1] * d = f[2] * n
             /\ f[1] > 0 <=> n > 0
<1> DEFINE S == {k \in 1 .. d : n % k = 0 /\ d % k = 0}
           g == Max(S)
           q == n \div g
           e == d \div g
<1>1. 1 \in S
  <2>1. n % 1 = 0 /\ d % 1 = 0 /\ 1 \in 1 .. d
    OBVIOUS
  <2> QED BY <2>1
<1>2. g \in S
  <2>1. S \in SUBSET (0 .. d) /\ S # {}
    BY <1>1
  <2> HIDE DEF S
  <2> QED BY <2>1, Largest
<1>3. g \in Nat \ {0} /\ n % g = 0 /\ d % g = 0
  <2> HIDE DEF g
  <2> QED BY <1>2
<1>4. Fraction(n, d) = <<q, e>>
  BY DEF Fraction
<1> HIDE DEF g
<1>5. q \in Int /\ n = g * q
  <2>1. q \in Int /\ n = g * q + (n % g)
    BY <1>3, Z3
  <2> HIDE DEF q
  <2>2. g * q \in Int
    BY <1>3, <2>1
  <2> QED BY <1>3, <2>1, <2>2
<1>6. e \in Nat /\ d = g * e
  <2>1. e \in Nat /\ d = g * e + (d % g)
    BY <1>3, Division
  <2> HIDE DEF e
  <2>2. g * e \in Int
    BY <1>3, <2>1
  <2> QED BY <1>3, <2>1, <2>2
<1> HIDE DEF q, e
<1>7. e # 0
  BY <1>3, <1>6
<1>8. q * d = e * n
  BY <1>3, <1>5, <1>6, Z3
<1>9. q > 0 <=> n > 0
  BY <1>3, <1>5, Z3
<1> DEFINE f == Fraction(n, d)
<1>10. f[1] = q /\ f[2] = e /\ f = <<q, e>>
  BY <1>4
<1> HIDE DEF f
<1>11. f \in Int \X (Nat \ {0}) /\ f[1] * d = f[2] * n /\ (f[1] > 0 <=> n > 0)
  BY <1>5, <1>6, <1>7, <1>8, <1>9, <1>10
<1> QED BY <1>11 DEF f

(* A rate, and the parameters of a message's bursts: lengths are never     *)
(* negative, nor is a gap that was given.                                  *)
PosInts == Nat \ {0}
IsRate(rate) == rate \in Nat \X PosInts
Bursty == config.burstLen # 0 \/ config.gap # 0

IsBursts(b) ==
  /\ b \in [len : Nat \X PosInts, gap : Int \X PosInts]
  /\ b.len[1] = 0 => b.gap[1] >= 0
  /\ Bursty => b.len[1] > 0 \/ b.gap[1] > 0

(* The bursts meet the rate.                                               *)
Meets(b, rate) ==
  rate[1] # 0 =>
    IF rate[1] >= InjectionRate * rate[2]
    THEN b.len[1] = 0 \/ b.gap[1] <= 0
    ELSE /\ b.len[1] > 0
         /\ InjectionRate * b.len[1] * b.gap[2] * rate[2]
              = rate[1] * (b.len[1] * b.gap[2] + b.gap[1] * b.len[2])

(* The gap that follows from a length, and the length from a gap, meet the *)
(* rate.                                                                   *)
LEMMA GapMeets ==
  ASSUME NEW inj \in PosInts, NEW r1 \in PosInts, NEW r2 \in PosInts,
         NEW l1 \in PosInts, NEW l2 \in PosInts, NEW g1 \in Int, NEW g2 \in PosInts,
         g1 * (l2 * r1) = g2 * (l1 * (inj * r2 - r1))
  PROVE  inj * l1 * g2 * r2 = r1 * (l1 * g2 + g1 * l2)
<1>1. g1 * (l2 * r1) = r1 * (g1 * l2)
  BY Z3 DEF PosInts
<1>2. g2 * (l1 * (inj * r2 - r1)) = inj * l1 * g2 * r2 - r1 * (l1 * g2)
  BY Z3 DEF PosInts
<1>3. r1 * (l1 * g2 + g1 * l2) = r1 * (l1 * g2) + r1 * (g1 * l2)
  BY Z3 DEF PosInts
<1> DEFINE a == r1 * (g1 * l2)
           b == r1 * (l1 * g2)
           c == inj * l1 * g2 * r2
<1>4. a \in Int /\ b \in Int /\ c \in Int
  BY DEF PosInts
<1>5. a = c - b
  BY <1>1, <1>2
<1> HIDE DEF a, b, c
<1>6. c = b + a
  BY <1>4, <1>5
<1> QED BY <1>3, <1>6 DEF a, b, c

(* computeBurstParameters() makes bursts meet the rate it is given.        *)
LEMMA BurstsComputed ==
  ASSUME NEW b, IsBursts(b), NEW rate, IsRate(rate)
  PROVE  LET c == computeBurstParameters(b, rate)
         IN  IsBursts(c) /\ (Bursty => Meets(c, rate))
<1> DEFINE r1 == rate[1]
           r2 == rate[2]
           inj == InjectionRate
           beyond == inj * r2 - r1
           l1 == b.len[1]
           l2 == b.len[2]
           g1 == b.gap[1]
           g2 == b.gap[2]
           c == computeBurstParameters(b, rate)
<1>1. inj \in PosInts /\ r1 \in Nat /\ r2 \in PosInts
  BY BurstsAssumption DEF IsRate, PosInts
<1>2. /\ l1 \in Nat /\ l2 \in PosInts /\ g1 \in Int /\ g2 \in PosInts
      /\ b \in [len : Nat \X PosInts, gap : Int \X PosInts]
      /\ l1 = 0 => g1 >= 0
      /\ Bursty => l1 > 0 \/ g1 > 0
  BY DEF IsBursts
<1>3. beyond \in Int /\ (beyond > 0 <=> ~ (r1 >= inj * r2))
  <2> HIDE DEF r1, r2, inj
  <2>1. inj * r2 \in Nat
    BY <1>1 DEF PosInts
  <2> QED BY <1>1, <2>1
<1>4. CASE r1 = 0
  <2>1. c = b
    BY <1>4 DEF computeBurstParameters
  <2> QED BY <1>4, <2>1 DEF Meets
<1>5. CASE r1 # 0 /\ l1 # 0
  <2> DEFINE f == Fraction(l1 * beyond, l2 * r1)
  <2>1. c = [b EXCEPT !.gap = f]
    BY <1>5 DEF computeBurstParameters
  <2>2. l1 \in PosInts /\ r1 \in PosInts
    BY <1>1, <1>2, <1>5 DEF PosInts
  <2>3. /\ f \in Int \X PosInts /\ f[1] * (l2 * r1) = f[2] * (l1 * beyond)
        /\ f[1] > 0 <=> l1 * beyond > 0
    <3> HIDE DEF l1, l2, r1, beyond
    <3>1. l1 * beyond \in Int /\ l2 * r1 \in Nat \ {0}
      BY <1>2, <1>3, <2>2, Z3 DEF PosInts
    <3> QED BY <3>1, FractionIs DEF PosInts
  <2> HIDE DEF f
  <2>4. f[1] \in Int /\ f[2] \in PosInts
    BY <2>3
  <2>5. c.len = b.len /\ c.gap = f /\ c \in [len : Nat \X PosInts, gap : Int \X PosInts]
    BY <1>2, <2>1, <2>3
  <2>6. IsBursts(c)
    BY <2>2, <2>5 DEF IsBursts, PosInts
  <2>7. ASSUME r1 >= inj * r2 PROVE c.gap[1] <= 0
    <3>1. ~ (beyond > 0)
      BY <1>3, <2>7
    <3> HIDE DEF l1, beyond
    <3>2. ~ (l1 * beyond > 0)
      BY <1>3, <2>2, <3>1, Z3 DEF PosInts
    <3> QED BY <2>3, <2>4, <2>5, <3>2
  <2>8. inj * l1 * f[2] * r2 = r1 * (l1 * f[2] + f[1] * l2)
    <3> DEFINE h1 == f[1]
               h2 == f[2]
    <3>1. h1 * (l2 * r1) = h2 * (l1 * (inj * r2 - r1)) /\ h1 \in Int /\ h2 \in PosInts
      BY <2>3, <2>4
    <3> HIDE DEF h1, h2, l1, l2, r1, r2, inj
    <3>2. inj * l1 * h2 * r2 = r1 * (l1 * h2 + h1 * l2)
      BY <1>1, <1>2, <2>2, <3>1, GapMeets
    <3> QED BY <3>2 DEF h1, h2
  <2>9. Meets(c, rate)
    <3>1. l1 > 0
      BY <2>2 DEF PosInts
    <3> HIDE DEF c
    <3> QED BY <2>5, <2>7, <2>8, <3>1 DEF Meets
  <2> QED BY <2>6, <2>9
<1>6. CASE r1 # 0 /\ l1 = 0 /\ g1 # 0 /\ beyond > 0
  <2> DEFINE f == Fraction(g1 * r1, g2 * beyond)
  <2>1. c = [b EXCEPT !.len = f]
    BY <1>6 DEF computeBurstParameters
  <2>2. g1 \in PosInts /\ r1 \in PosInts /\ beyond \in PosInts
    BY <1>1, <1>2, <1>3, <1>6 DEF PosInts
  <2>3. /\ f \in Int \X PosInts /\ f[1] * (g2 * beyond) = f[2] * (g1 * r1)
        /\ f[1] > 0
    <3> HIDE DEF g1, g2, r1, beyond
    <3>1. g1 * r1 \in Int /\ g1 * r1 > 0 /\ g2 * beyond \in Nat \ {0}
      BY <1>2, <2>2, Z3 DEF PosInts
    <3> QED BY <3>1, FractionIs DEF PosInts
  <2> HIDE DEF f
  <2>4. f[1] \in PosInts /\ f[2] \in PosInts /\ f \in Nat \X PosInts
    BY <2>3 DEF PosInts
  <2>5. c.len = f /\ c.gap = b.gap /\ c \in [len : Nat \X PosInts, gap : Int \X PosInts]
    BY <1>2, <2>1, <2>4
  <2>6. IsBursts(c)
    BY <2>3, <2>4, <2>5 DEF IsBursts, PosInts
  <2>7. inj * f[1] * g2 * r2 = r1 * (f[1] * g2 + g1 * f[2])
    <3> DEFINE h1 == f[1]
               h2 == f[2]
    <3>1. h1 * (g2 * (inj * r2 - r1)) = h2 * (g1 * r1) /\ h1 \in PosInts /\ h2 \in PosInts
      BY <2>3, <2>4
    <3> HIDE DEF h1, h2, g1, g2, r1, r2, inj
    <3>2. g1 * (h2 * r1) = h2 * (g1 * r1) /\ h1 * (g2 * (inj * r2 - r1)) = g2 * (h1 * (inj * r2 - r1))
      BY <1>1, <1>2, <2>2, <3>1, Z3 DEF PosInts
    <3>3. g1 * (h2 * r1) = g2 * (h1 * (inj * r2 - r1))
      BY <3>1, <3>2
    <3>4. inj * h1 * g2 * r2 = r1 * (h1 * g2 + g1 * h2)
      BY <1>1, <1>2, <2>2, <3>1, <3>3, GapMeets
    <3> QED BY <3>4 DEF h1, h2
  <2>8. Meets(c, rate)
    <3>1. ~ (r1 >= inj * r2)
      BY <1>3, <1>6
    <3> HIDE DEF c
    <3> QED BY <2>3, <2>5, <2>7, <3>1 DEF Meets
  <2> QED BY <2>6, <2>8
<1>7. CASE r1 # 0 /\ l1 = 0 /\ ~ (g1 # 0 /\ beyond > 0)
  <2>1. c = b
    BY <1>7 DEF computeBurstParameters
  <2>2. Bursty => Meets(b, rate)
    <3> SUFFICES ASSUME Bursty PROVE Meets(b, rate)
      OBVIOUS
    <3>1. g1 > 0
      BY <1>2, <1>7
    <3>2. ~ (beyond > 0)
      BY <1>7, <3>1
    <3>3. r1 >= inj * r2
      BY <1>3, <3>2
    <3> QED BY <1>7, <3>3 DEF Meets
  <2> QED BY <2>1, <2>2
<1> QED BY <1>4, <1>5, <1>6, <1>7

(* Rates of the script and parameters of the module are numbers.           *)
BurstNumbers ==
  /\ config.maxSendRate \in Nat /\ config.burstLen \in Nat /\ config.gap \in Nat
  /\ \A m \in scheduled : m.messageRate \in Nat

(* Finitely many messages, each of which has parameters of bursts.         *)
HasBursts(messages) ==
  /\ IsFiniteSet(DOMAIN messages)
  /\ \A m \in DOMAIN messages :
       m.messageRate \in Nat /\ "bursts" \in DOMAIN messages[m] /\ IsBursts(messages[m].bursts)

(* The bursts of all messages meet the rates they have together.           *)
AllMeet(messages) ==
  Bursty => \A m \in DOMAIN messages :
    Meets(messages[m].bursts, AllowedRate(m, TotalRate(DOMAIN messages)))

(* The inductive invariant of BurstsMeetRate.                              *)
BurstInv == BurstNumbers /\ HasBursts(active) /\ AllMeet(active)

(* Rates are fractions.                                                    *)
LEMMA RatesAre ==
  ASSUME BurstNumbers, NEW messages, IsFiniteSet(messages),
         \A m \in messages : m.messageRate \in Nat, NEW m \in messages
  PROVE  IsRate(<<DesiredRate(m), 1>>) /\ IsRate(AllowedRate(m, TotalRate(messages)))
<1> DEFINE rates == [k \in messages |-> DesiredRate(k)]
           total == TotalRate(messages)
<1>1. MaxSendRate \in Nat
  BY DEF MaxSendRate, BurstNumbers
<1>2. \A k \in messages : DesiredRate(k) \in Nat
  BY <1>1 DEF DesiredRate
<1>3. total \in Nat
  <2>1. \A k \in messages : rates[k] \in Nat
    BY <1>2
  <2>2. DOMAIN rates = messages /\ total = SumFunction(rates)
    BY DEF TotalRate
  <2> HIDE DEF rates, total
  <2>3. SumFunctionOnSet(rates, messages) \in Nat
    BY <2>1, SumType
  <2> QED BY <2>2, <2>3 DEF SumFunction
<1>4. ASSUME MaxSendRate # 0, total > MaxSendRate
      PROVE  total \in PosInts /\ MaxSendRate * DesiredRate(m) \in Nat
  <2> DEFINE d == DesiredRate(m)
  <2>1. d \in Nat
    BY <1>2
  <2>2. MaxSendRate * d \in Nat
    <3> HIDE DEF d
    <3> QED BY <1>1, <2>1
  <2> HIDE DEF total
  <2>3. total \in PosInts
    BY <1>1, <1>3, <1>4 DEF PosInts
  <2> QED BY <2>2, <2>3
<1>5. DesiredRate(m) \in Nat /\ 1 \in PosInts
  BY <1>2 DEF PosInts
<1> QED BY <1>4, <1>5 DEF IsRate, AllowedRate

(* WithRates() makes the bursts of all messages meet their rates.          *)
LEMMA RatesGiven ==
  ASSUME BurstNumbers, NEW messages, HasBursts(messages)
  PROVE  LET given == WithRates(messages, TotalRate(DOMAIN messages))
         IN  HasBursts(given) /\ AllMeet(given)
<1> DEFINE total == TotalRate(DOMAIN messages)
           given == WithRates(messages, total)
           first(m) == computeBurstParameters(messages[m].bursts, <<DesiredRate(m), 1>>)
           second(m) == computeBurstParameters(first(m), AllowedRate(m, total))
<1>1. /\ DOMAIN given = DOMAIN messages
      /\ \A m \in DOMAIN messages : given[m] = [messages[m] EXCEPT !.bursts = second(m)]
  BY DEF WithRates
<1>2. ASSUME NEW m \in DOMAIN messages
      PROVE  /\ m.messageRate \in Nat /\ "bursts" \in DOMAIN given[m]
             /\ IsBursts(given[m].bursts)
             /\ Bursty => Meets(given[m].bursts, AllowedRate(m, total))
  <2>1. IsRate(<<DesiredRate(m), 1>>) /\ IsRate(AllowedRate(m, total))
    BY RatesAre DEF HasBursts
  <2>2. /\ m.messageRate \in Nat /\ "bursts" \in DOMAIN messages[m]
        /\ IsBursts(messages[m].bursts)
    BY DEF HasBursts
  <2>3. IsBursts(first(m))
    BY <2>1, <2>2, BurstsComputed
  <2> HIDE DEF first, total
  <2>4. IsBursts(second(m)) /\ (Bursty => Meets(second(m), AllowedRate(m, total)))
    BY <2>1, <2>3, BurstsComputed
  <2> HIDE DEF second, given
  <2>5. "bursts" \in DOMAIN given[m] /\ given[m].bursts = second(m)
    BY <1>1, <2>2
  <2> QED BY <2>2, <2>4, <2>5
<1> HIDE DEF given
<1>3. HasBursts(given)
  BY <1>1, <1>2 DEF HasBursts
<1>4. AllMeet(given)
  BY <1>1, <1>2 DEF AllMeet
<1> QED BY <1>3, <1>4 DEF given

(* Once updateSendRates() has been called.                                 *)
LEMMA RatesUpdated ==
  ASSUME BurstNumbers, NEW messages, HasBursts(messages), updateSendRates(messages)
  PROVE  HasBursts(active') /\ AllMeet(active')
<1>1. active' = WithRates(messages, TotalRate(DOMAIN messages))
  BY DEF updateSendRates
<1> QED BY <1>1, RatesGiven

(* What only parameters and the messages tell, a step keeps with them.     *)
LEMMA BurstsKept ==
  ASSUME BurstInv, config' = config, \A m \in scheduled' : m.messageRate \in Nat,
         HasBursts(active'), AllMeet(active')
  PROVE  BurstInv'
<1>1. BurstNumbers'
  BY DEF BurstInv, BurstNumbers
<1>2. HasBursts(active)'
  BY DEF HasBursts, IsBursts, Bursty
<1>3. AllMeet(active)'
  BY DEF AllMeet, Bursty, AllowedRate, DesiredRate, MaxSendRate, TotalRate
<1> QED BY <1>1, <1>2, <1>3 DEF BurstInv

(* A step of a message that keeps all bursts.                              *)
LEMMA SameBursts ==
  ASSUME HasBursts(active), AllMeet(active), DOMAIN active' = DOMAIN active,
         \A m \in DOMAIN active : "bursts" \in DOMAIN active[m] =>
           "bursts" \in DOMAIN active'[m] /\ active'[m].bursts = active[m].bursts
  PROVE  HasBursts(active') /\ AllMeet(active')
<1>1. HasBursts(active')
  BY DEF HasBursts
<1>2. AllMeet(active')
  BY DEF HasBursts, AllMeet
<1> QED BY <1>1, <1>2

(* activateMessage() begins with the module's parameters, and gives all    *)
(* messages new rates.                                                     *)
LEMMA BurstsActivated ==
  ASSUME BurstInv, NEW m \in scheduled, ActivateMessage(m)
  PROVE  BurstInv'
<1>1. config' = config /\ scheduled' = scheduled \ {m}
  BY DEF ActivateMessage, params
<1>2. HasBursts(active') /\ AllMeet(active')
  <2>1. CASE m.messageSize = 0
    BY <2>1 DEF ActivateMessage, BurstInv
  <2>2. CASE m.messageSize # 0
    <3> DEFINE messages == [k \in DOMAIN active \cup {m} |->
                              IF k = m THEN Activated ELSE active[k]]
    <3>1. /\ DOMAIN messages = {m} \cup DOMAIN active
          /\ messages[m] = Activated
          /\ \A k \in DOMAIN active : k # m => messages[k] = active[k]
      OBVIOUS
    <3>2. updateSendRates(messages)
      BY <2>2 DEF ActivateMessage
    <3> HIDE DEF messages
    <3>3. "bursts" \in DOMAIN Activated /\ IsBursts(Activated.bursts)
      BY DEF Activated, IsBursts, BurstInv, BurstNumbers, Bursty, PosInts
    <3>4. IsFiniteSet(DOMAIN messages)
      BY <3>1, FS_AddElement DEF BurstInv, HasBursts
    <3>5. HasBursts(messages)
      BY <3>1, <3>3, <3>4 DEF BurstInv, BurstNumbers, HasBursts
    <3> QED BY <3>2, <3>5, RatesUpdated DEF BurstInv
  <2> QED BY <2>1, <2>2
<1> QED BY <1>1, <1>2, BurstsKept DEF BurstInv, BurstNumbers

(* A segment keeps its message's bursts, unless it is the last one.        *)
LEMMA BurstsSent ==
  ASSUME BurstInv, NEW m \in DOMAIN active, SendNextSegment(m)
  PROVE  BurstInv'
<1> DEFINE size == Min({m.messageSize - active[m].bytesSent, getPktPayload})
           left == [k \in DOMAIN active \ {m} |-> active[k]]
           total == active[m].bytesSent + size
<1>1. config' = config /\ scheduled' = scheduled
  BY DEF SendNextSegment, params
<1>2. \/ updateSendRates(left)
      \/ \E next \in NextSend(m, size + Overhead) :
           active' = [active EXCEPT ![m].bytesSent = total,
                        ![m].nextSendTime = next.nextSendTime,
                        ![m].begun = next.begun]
  BY DEF SendNextSegment
<1>3. HasBursts(active') /\ AllMeet(active')
  <2>1. CASE updateSendRates(left)
    <3>1. DOMAIN left = DOMAIN active \ {m} /\ \A k \in DOMAIN left : left[k] = active[k]
      OBVIOUS
    <3> HIDE DEF left
    <3>2. IsFiniteSet(DOMAIN left)
      BY <3>1, FS_Subset DEF BurstInv, HasBursts
    <3>3. HasBursts(left)
      BY <3>1, <3>2 DEF BurstInv, HasBursts
    <3> QED BY <2>1, <3>3, RatesUpdated DEF BurstInv
  <2>2. ASSUME NEW next, active' = [active EXCEPT ![m].bytesSent = total,
                                      ![m].nextSendTime = next.nextSendTime,
                                      ![m].begun = next.begun]
        PROVE  HasBursts(active') /\ AllMeet(active')
    <3> HIDE DEF total
    <3>1. DOMAIN active' = DOMAIN active
      BY <2>2
    <3>2. \A k \in DOMAIN active : "bursts" \in DOMAIN active[k] =>
            "bursts" \in DOMAIN active'[k] /\ active'[k].bursts = active[k].bursts
      BY <2>2
    <3> QED BY <3>1, <3>2, SameBursts DEF BurstInv
  <2> QED BY <1>2, <2>1, <2>2
<1> QED BY <1>1, <1>3, BurstsKept DEF BurstInv, BurstNumbers

(* So does a message whose time is up.                                     *)
LEMMA BurstsStopped ==
  ASSUME BurstInv, NEW m \in DOMAIN active, StopAtLimit(m)
  PROVE  BurstInv'
<1>1. config' = config /\ scheduled' = scheduled /\ active' = [active EXCEPT ![m].event = FALSE]
  BY DEF StopAtLimit, params
<1>2. \A k \in DOMAIN active : "bursts" \in DOMAIN active[k] =>
        "bursts" \in DOMAIN active'[k] /\ active'[k].bursts = active[k].bursts
  BY <1>1
<1>3. DOMAIN active' = DOMAIN active
  BY <1>1
<1>4. HasBursts(active') /\ AllMeet(active')
  BY <1>2, <1>3, SameBursts DEF BurstInv
<1> QED BY <1>1, <1>4, BurstsKept DEF BurstInv, BurstNumbers

(* parseScript() takes rates from the script.                              *)
LEMMA BurstsParsed == BurstInv /\ ParseScript => BurstInv'
<1> SUFFICES ASSUME BurstInv, ParseScript PROVE BurstInv'
  OBVIOUS
<1>1. config' = config /\ active' = active
  BY DEF ParseScript, params
<1> DEFINE own == {m \in script : m.source = address}
<1>2. PICK starts \in [own -> 0 .. MaxStart], rates \in [own -> MessageRates],
             sizes \in [own -> MessageSizes \cup {MessageSize}] :
        scheduled' = {[destination |-> m.destination, messageNum |-> m.messageNum,
                       startTime |-> starts[m], messageRate |-> rates[m],
                       messageSize |-> sizes[m]] : m \in own}
  BY DEF ParseScript
<1> HIDE DEF own
<1>3. \A m \in scheduled' : m.messageRate \in Nat
  <2> SUFFICES ASSUME NEW k \in scheduled' PROVE k.messageRate \in Nat
    OBVIOUS
  <2>1. PICK m \in own : k.messageRate = rates[m]
    BY <1>2
  <2> QED BY <2>1, RatesAssumption
<1> QED BY <1>1, <1>3, BurstsKept DEF BurstInv

(* There is no message at first.                                           *)
LEMMA BurstsInit == AppInit => BurstInv
<1> SUFFICES ASSUME AppInit PROVE BurstInv
  OBVIOUS
<1>1. scheduled = {} /\ active = << >> /\ config \in Configs
  BY DEF AppInit
<1>2. config.maxSendRate \in Nat /\ config.burstLen \in Nat /\ config.gap \in Nat
  BY <1>1, RatesAssumption, BurstsAssumption DEF Configs
<1>3. DOMAIN active = {}
  BY <1>1
<1>4. HasBursts(active) /\ AllMeet(active)
  BY <1>3, FS_EmptySet DEF HasBursts, AllMeet
<1> QED BY <1>1, <1>2, <1>4 DEF BurstInv, BurstNumbers

(* No step of the application leaves a message with other bursts.          *)
LEMMA BurstsNext == BurstInv /\ [AppNext]_AppVars => BurstInv'
<1> SUFFICES ASSUME BurstInv, [AppNext]_AppVars PROVE BurstInv'
  OBVIOUS
<1>1. ASSUME config' = config, scheduled' = scheduled, active' = active PROVE BurstInv'
  BY <1>1, BurstsKept DEF BurstInv, BurstNumbers
<1>2. CASE Reassign
  BY <1>1, <1>2 DEF Reassign
<1>3. CASE WritePairs
  BY <1>1, <1>3 DEF WritePairs
<1>4. CASE ParseScript
  BY <1>4, BurstsParsed
<1>5. CASE \E m \in scheduled : ActivateMessage(m)
  BY <1>5, BurstsActivated
<1>6. CASE \E m \in DOMAIN active : SendNextSegment(m)
  BY <1>6, BurstsSent
<1>7. CASE \E m \in DOMAIN active : StopAtLimit(m)
  BY <1>7, BurstsStopped
<1>8. CASE Tick
  BY <1>1, <1>8 DEF Tick, params
<1>9. CASE UNCHANGED AppVars
  BY <1>1, <1>9 DEF AppVars
<1> QED BY <1>2, <1>3, <1>4, <1>5, <1>6, <1>7, <1>8, <1>9 DEF AppNext

(* The bursts of a message that is active meet its rate whenever rates are *)
(* shared out anew, whatever rates and parameters it had before            *)
(* (computeBurstParameters(), setAllowedRate()).                           *)
THEOREM BurstsMeetTheirRate == AppSpec => []BurstsMeetRate
<1>1. BurstInv => BurstsMeetRate
  BY DEF BurstInv, AllMeet, Bursty, Meets, BurstsMeetRate
<1> QED BY <1>1, BurstsInit, BurstsNext, PTL DEF AppSpec
=============================================================================
