------------------------ MODULE BklgSchedApplication ------------------------
(***************************************************************************)
(* How a simulation of a backlog schedule ends.  Every server counts down  *)
(* the bytes of the schedule it has to send and to receive and signals     *)
(* finishTime when nothing is left; server 0 counts those signals and ends *)
(* the simulation.  A packet that a queue drops is signalled to all        *)
(* servers; its destination no longer waits for it.                        *)
(*                                                                         *)
(* Backlogs are counted in packets.  Those of a server are never negative, *)
(* so the sum that bytesToSend() or bytesToReceive() returns is zero when  *)
(* each of them is.                                                        *)
(***************************************************************************)
EXTENDS Integers, FiniteSets

CONSTANTS
  NumServers,  \* node_id_.getNumberOfServers()
  MaxBacklog,  \* bound: packets the schedule has for one pair of servers
  MaxPairs,    \* bound: pairs of servers with a backlog
  Lossy,       \* {FALSE}, {TRUE} or BOOLEAN: whether queues may drop packets
  UintMod      \* one more than the largest uint

ASSUME NumServersAssumption == NumServers \in Nat /\ NumServers > 1
ASSUME MaxBacklogAssumption == MaxBacklog \in Nat
ASSUME MaxPairsAssumption == MaxPairs \in Nat
ASSUME LossyAssumption == Lossy \subseteq BOOLEAN
ASSUME UintModAssumption == UintMod \in Nat /\ UintMod > NumServers

Servers == 0 .. NumServers - 1
Pairs == {p \in Servers \X Servers : p[1] # p[2]}

VARIABLES
  lossy,         \* the queues of this network drop packets, never changed
  toSnd,         \* toSndBytes_ at the source of each pair
  inFlight,      \* packets in the network, per pair
  toRcv,         \* toRcvBytes_ at the destination of each pair
  lost,          \* bytesLost_ at the destination of each pair
  leftToFinish,  \* leftToFinish_ of server 0
  statsPending,  \* emitIntvlStatsEvent_ is scheduled (StatisticsInterval > 0)
  ended          \* endSimulation() has been called

vars ==
  <<lossy, toSnd, inFlight, toRcv, lost, leftToFinish, statsPending, ended>>

(* The condition of check_finished().                                      *)
Finished(s, snd, rcv, lst) ==
  /\ \A p \in Pairs : p[1] = s => snd[p] = 0
  /\ \A p \in Pairs : p[2] = s => rcv[p] - lst[p] = 0

Unfinished(snd, rcv, lst) == {s \in Servers : ~ Finished(s, snd, rcv, lst)}

(* The backlogs of a schedule, in packets.                                 *)
Schedules ==
  {sch \in [Pairs -> 0 .. MaxBacklog] :
     Cardinality({p \in Pairs : sch[p] > 0}) <= MaxPairs}

(* Mutant of Init: servers without a backlog do not signal.                *)
InitWithoutCheck ==
  /\ lossy \in Lossy
  /\ toSnd \in Schedules
  /\ inFlight = [p \in Pairs |-> 0]
  /\ toRcv = toSnd
  /\ lost = [p \in Pairs |-> 0]
  /\ leftToFinish = NumServers
  /\ statsPending \in BOOLEAN
  /\ ended = FALSE

(* AllocateBacklogStats() from the script, the subscription of server 0,   *)
(* which is initialised first, and the check_finished() of every server.   *)
(* The statistics event is scheduled by then if there is an interval.      *)
Init ==
  /\ lossy \in Lossy
  /\ toSnd \in Schedules
  /\ inFlight = [p \in Pairs |-> 0]
  /\ toRcv = toSnd
  /\ lost = [p \in Pairs |-> 0]
  /\ leftToFinish = Cardinality(Unfinished(toSnd, toRcv, lost))
  /\ statsPending \in BOOLEAN
  /\ ended = (leftToFinish = 0 /\ ~ statsPending)

(* receiveSignal() for finishTime, on the count left by an earlier signal. *)
Decrement(left) == (left - 1) % UintMod

(* Mutant of CheckFinished: only what is to be sent counts.                *)
CheckFinishedSending(s) ==
  IF \A p \in Pairs : p[1] = s => toSnd'[p] = 0
  THEN /\ leftToFinish' = Decrement(leftToFinish)
       /\ ended' = (leftToFinish' = 0 /\ ~ statsPending)
  ELSE UNCHANGED <<leftToFinish, ended>>

(* check_finished() of one server: it signals whenever nothing is left,    *)
(* after each packet it sends or receives.                                 *)
CheckFinished(s) ==
  IF Finished(s, toSnd', toRcv', lost')
  THEN /\ leftToFinish' = Decrement(leftToFinish)
       /\ ended' = (leftToFinish' = 0 /\ ~ statsPending)
  ELSE UNCHANGED <<leftToFinish, ended>>

(* record() of the backlogs at the two ends of a pair.                     *)
RecordSent(p) == toSnd' = [toSnd EXCEPT ![p] = @ - 1]
RecordReceived(p) == toRcv' = [toRcv EXCEPT ![p] = @ - 1]

(* recordDrop() of the backlog at the destination.                         *)
RecordDrop(p) == [lost EXCEPT ![p] = @ + 1]

Send(p) ==
  /\ ~ ended
  /\ toSnd[p] > 0
  /\ RecordSent(p)
  /\ inFlight' = [inFlight EXCEPT ![p] = @ + 1]
  /\ UNCHANGED <<lossy, toRcv, lost, statsPending>>
  /\ CheckFinished(p[1])

Receive(p) ==
  /\ ~ ended
  /\ inFlight[p] > 0
  /\ inFlight' = [inFlight EXCEPT ![p] = @ - 1]
  /\ RecordReceived(p)
  /\ UNCHANGED <<lossy, toSnd, lost, statsPending>>
  /\ CheckFinished(p[2])

(* Mutant of Drop: nobody listens to dropPkt.                              *)
DropUnheard(p) ==
  /\ ~ ended
  /\ lossy
  /\ inFlight[p] > 0
  /\ inFlight' = [inFlight EXCEPT ![p] = @ - 1]
  /\ UNCHANGED <<lossy, toSnd, toRcv, lost, leftToFinish, statsPending, ended>>

(* receiveSignal() for dropPkt, called for the servers in the order they   *)
(* subscribed, by address.  The source only calls check_finished(), the    *)
(* destination first counts the loss; endSimulation() cuts the series.     *)
Drop(p) ==
  /\ ~ ended
  /\ lossy
  /\ inFlight[p] > 0
  /\ inFlight' = [inFlight EXCEPT ![p] = @ - 1]
  /\ LET counted  == RecordDrop(p)
         srcFirst == p[1] < p[2]
         srcDone  == Finished(p[1], toSnd, toRcv, IF srcFirst THEN lost ELSE counted)
         dstDone  == Finished(p[2], toSnd, toRcv, counted)
         after1   == IF (IF srcFirst THEN srcDone ELSE dstDone)
                     THEN Decrement(leftToFinish) ELSE leftToFinish
         ends1    == after1 = 0 /\ after1 # leftToFinish /\ ~ statsPending
         after2   == IF (IF srcFirst THEN dstDone ELSE srcDone)
                     THEN Decrement(after1) ELSE after1
         ends2    == after2 = 0 /\ after2 # after1 /\ ~ statsPending
     IN  /\ lost' = IF srcFirst /\ ends1 THEN lost ELSE counted
         /\ leftToFinish' = IF ends1 THEN after1 ELSE after2
         /\ ended' = (ends1 \/ ends2)
  /\ UNCHANGED <<lossy, toSnd, toRcv, statsPending>>

(* Mutant of EmitIntervalStats: ends with one server left.                 *)
EmitIntervalStatsEarly ==
  /\ ~ ended
  /\ statsPending
  /\ ended' = (leftToFinish <= 1)
  /\ UNCHANGED <<lossy, toSnd, inFlight, toRcv, lost, leftToFinish, statsPending>>

(* handleMessage() for the statistics event, which is scheduled again.     *)
EmitIntervalStats ==
  /\ ~ ended
  /\ statsPending
  /\ ended' = (leftToFinish = 0)
  /\ UNCHANGED <<lossy, toSnd, inFlight, toRcv, lost, leftToFinish, statsPending>>

Next ==
  \/ \E p \in Pairs : Send(p) \/ Receive(p) \/ Drop(p)
  \/ EmitIntervalStats

(* Packets are sent and arrive, and the statistics event comes every       *)
(* interval.                                                               *)
Fairness ==
  /\ \A p \in Pairs : WF_vars(Send(p)) /\ WF_vars(Receive(p) \/ Drop(p))
  /\ WF_vars(EmitIntervalStats)

Spec == Init /\ [][Next]_vars /\ Fairness
-----------------------------------------------------------------------------
Counts == [Pairs -> 0 .. MaxBacklog]

TypeOK ==
  /\ lossy \in Lossy
  /\ toSnd \in Counts /\ inFlight \in Counts /\ toRcv \in Counts /\ lost \in Counts
  /\ leftToFinish \in 0 .. UintMod - 1
  /\ statsPending \in BOOLEAN /\ ended \in BOOLEAN

(* A packet of the schedule is still to be sent, under way, received or    *)
(* lost: the destination waits for exactly those that can still come.      *)
ReceiverWaitsForRest ==
  ~ ended => \A p \in Pairs : toRcv[p] - lost[p] = toSnd[p] + inFlight[p]

(* Server 0 counts the servers that have something left to send or to      *)
(* receive.                                                                *)
LeftToFinishCounts ==
  leftToFinish = Cardinality(Unfinished(toSnd, toRcv, lost))

(* BklgSchedApplication.cc: "End the simulation if and all servers have    *)
(* finished": nothing of the schedule is to be sent or under way then.     *)
EndsOnlyWhenFinished ==
  ended => \A p \in Pairs : toSnd[p] = 0 /\ inFlight[p] = 0

(* BklgSchedApplication.h: "this allows us to terminate the simulation     *)
(* when the backlog schedule has finished".                                *)
EndsWhenFinished == <>ended

(* As long as no packet is lost, the signals of the servers, each of which *)
(* may come from a send or a receive, add up at server 0.                  *)
CountsUnlessLossy == ~ lossy => LeftToFinishCounts

(* Without loss the simulation does not end under a packet of the          *)
(* schedule, wherever the last one is sent and received.                   *)
EndsInTimeUnlessLossy == ~ lossy => EndsOnlyWhenFinished

(* The simulation of a schedule ends: without loss always, and with loss   *)
(* unless a statistics interval makes server 0 wait, for then the count    *)
(* may pass zero and wrap before the interval is over.                     *)
EndsUnlessWaiting == (~ lossy \/ ~ statsPending) => <>ended

=============================================================================
