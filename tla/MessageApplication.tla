------------------------- MODULE MessageApplication -------------------------
(***************************************************************************)
(* The message application of one server.  Server 0 makes the script if    *)
(* there is none; each server takes its own messages from it.  From its    *)
(* start time on a message is active and sends one segment after the other *)
(* by an event of its own, at a rate that leaves all active messages       *)
(* together within maxSendRate.  The spacing of segments is uniform or     *)
(* random, and traffic may come in bursts whose length or whose distance   *)
(* is given; the other one is derived from the message's rate.             *)
(***************************************************************************)
EXTENDS TrafficPatterns

CONSTANTS
  PartitionSize,   \* partitionSize
  MessageSize,     \* messageSize, bytes
  MaxPayload,      \* MAX_UDP_PAYLOAD
  Overhead,        \* bytes of a segment beyond its payload
  MaxSendRates,    \* the values of maxSendRate, bytes a second; 0 is no limit
  SendTimeLimits,  \* the values of sendTimeLimit; 0 is no limit
  MessageRates,    \* rates of messages in a script that was there before
  MessageSizes,    \* and their sizes, bytes
  InjectionRate,   \* burstyInjectionRate of the link, bytes a second
  AvgBurstLens,    \* the values of avgBurstLength, units of time; 0 is none
  AvgGaps,         \* the values of avgTimeBetweenBursts, likewise
  Unit,            \* units of time in a second
  Addresses,       \* bound: servers whose application is followed
  MaxStart,        \* bound: random start times
  MaxWait,         \* bound: random spacing and gaps between bursts
  MaxBurst         \* segments by which sending may run ahead of maxSendRate

ASSUME SizesAssumption ==
  {MessageSize, MaxPayload, Unit} \subseteq Nat \ {0} /\ Overhead \in Nat
ASSUME AddressesAssumption == Addresses \subseteq Servers
ASSUME RatesAssumption ==
  MaxSendRates \subseteq Nat /\ MessageRates \subseteq Nat /\ MessageSizes \subseteq Nat
ASSUME BurstsAssumption ==
  /\ InjectionRate \in Nat \ {0} /\ MaxWait \in Nat
  /\ AvgBurstLens \subseteq Nat /\ AvgGaps \subseteq Nat

VARIABLES
  pairing,       \* PairedPermutation: serverAssignments and the loop's index
  script,        \* messages of all servers, or NoScript
  address,       \* the server's address
  config,        \* maxSendRate_, sendTimeLimit_, payload, spacing and bursts
  altMaxMin,     \* alt_max_min_, which has no initial value
  now,
  scheduled,     \* scheduledMessages
  nextArrival,   \* time of the event nextMessageArrival, or -1
  active,        \* activeMessages: bytesSent, nextSendTime, event scheduled or
                 \* not, mean length and gap of bursts and the burst begun
  aggregateRate, \* sum of the rates at the last updateSendRates()
  initialized,   \* initialize() has been called
  ahead          \* history: what was sent ahead of maxSendRate, bytes * Unit

NoScript == {[source |-> -1]}
AppVars == <<pairing, script, address, config, altMaxMin, now, scheduled,
             nextArrival, active, aggregateRate, initialized, ahead>>
params == <<pairing, script, address, config>>
-----------------------------------------------------------------------------
(* createTrafficPattern() but for PairedPermutationTraffic.                *)
TrafficScripts ==
  LET lists == SetToSeqs(Servers)
  IN  {AllToAll, LBDestImbalance}
        \cup {AllToAllPartition(l, PartitionSize) : l \in lists}
        \cup {AllToAllVictimTenant(l, PartitionSize) : l \in lists}
        \cup {PairedPods(l) : l \in PodLists}

(* A script that was there: two messages of each server.                   *)
WrittenScript ==
  {Msg(s, (s + 1) % NumServers, n) : s \in Servers, n \in {2, 3}}

Generated == script # NoScript /\ \A m \in script : m.messageNum \in {0, 1}

(* Parameters of the module.  Bounds: payloads alternate only without a    *)
(* time limit, spacing is random and traffic bursty only with neither, and *)
(* alternation and random spacing are for a script that was there.         *)
Configs ==
  {c \in [maxSendRate : MaxSendRates, sendTimeLimit : SendTimeLimits,
          payload : {"MAX_PAYLOAD", "ALTERNATING_MAX_MIN"},
          randomInterArrival : BOOLEAN, burstLen : AvgBurstLens, gap : AvgGaps] :
     /\ c.burstLen = 0 \/ c.gap = 0
     /\ c.randomInterArrival \/ c.burstLen # 0 \/ c.gap # 0 =>
          c.payload = "MAX_PAYLOAD" /\ c.sendTimeLimit = 0
     /\ c.sendTimeLimit # 0 => c.payload = "MAX_PAYLOAD"}

AppInit ==
  /\ \/ /\ script = NoScript
        /\ pairing \in [assignments : {createPermutationPair(l) : l \in SetToSeqs(Servers)},
                        at : {0}]
     \/ /\ script \in TrafficScripts \cup {WrittenScript}
        /\ pairing = [assignments |-> << >>, at |-> 0]
  /\ address \in Addresses
  /\ config \in Configs
  /\ config.randomInterArrival \/ config.payload # "MAX_PAYLOAD" => script = WrittenScript
  /\ altMaxMin \in BOOLEAN /\ (config.payload = "MAX_PAYLOAD" => altMaxMin)
  /\ now = 0 /\ scheduled = {} /\ nextArrival = -1
  /\ active = << >> /\ aggregateRate = 0 /\ initialized = FALSE /\ ahead = 0

MaxSendRate == config.maxSendRate
UniformSpacing ==
  ~ config.randomInterArrival /\ config.burstLen = 0 /\ config.gap = 0
sendTimeLimitReached == config.sendTimeLimit # 0 /\ now > config.sendTimeLimit

(* One turn of the loop of reassignServersPairedInSameSubtree().           *)
Reassign ==
  /\ script = NoScript /\ pairing.at < NumServers
  /\ LET a == pairing.at
         pairs == pairing.assignments
     IN  IF NumPods > 1 /\ Pod(a) = Pod(pairs[a])
         THEN \E x \in Servers :
                /\ MaySwap(pairs, a, x)
                /\ pairing' = [assignments |-> Swapped(pairs, a, x), at |-> a + 1]
         ELSE pairing' = [pairing EXCEPT !.at = a + 1]
  /\ UNCHANGED <<script, address, config, altMaxMin, now, scheduled,
                 nextArrival, active, aggregateRate, initialized, ahead>>

WritePairs ==
  /\ script = NoScript /\ pairing.at = NumServers
  /\ script' = {Msg(s, pairing.assignments[s], 0) : s \in Servers}
  /\ UNCHANGED <<pairing, address, config, altMaxMin, now, scheduled,
                 nextArrival, active, aggregateRate, initialized, ahead>>

NextStart(messages) ==
  IF messages = {} THEN -1 ELSE Min({m.startTime : m \in messages})

(* parseScript() and the end of initialize().  Messages of generated       *)
(* scripts have one size, no rate and, with randomStartTimes, any start.   *)
ParseScript ==
  /\ script # NoScript /\ ~ initialized /\ initialized' = TRUE
  /\ LET own == {m \in script : m.source = address}
     IN  \E starts \in [own -> 0 .. MaxStart], rates \in [own -> MessageRates],
            sizes \in [own -> MessageSizes \cup {MessageSize}] :
           /\ IF Generated THEN \A m \in own : rates[m] = 0 /\ sizes[m] = MessageSize
              ELSE \A m \in own : sizes[m] \in MessageSizes
           /\ scheduled' = {[destination |-> m.destination, messageNum |-> m.messageNum,
                             startTime |-> starts[m], messageRate |-> rates[m],
                             messageSize |-> sizes[m]] : m \in own}
           /\ nextArrival' = NextStart(scheduled')
  /\ UNCHANGED <<params, altMaxMin, now, active, aggregateRate, ahead>>
-----------------------------------------------------------------------------
DesiredRate(m) == IF m.messageRate = 0 THEN MaxSendRate ELSE m.messageRate

(* allowedRate of a message, as a fraction.                                *)
AllowedRate(m, aggregate) ==
  IF MaxSendRate # 0 /\ aggregate > MaxSendRate
  THEN <<MaxSendRate * DesiredRate(m), aggregate>>
  ELSE <<DesiredRate(m), 1>>

Fraction(n, d) ==
  LET gcd == Max({k \in 1 .. d : n % k = 0 /\ d % k = 0})
  IN  <<n \div gcd, d \div gcd>>

(* computeBurstParameters(): a length that is not 0 counts as given.       *)
computeBurstParameters(b, rate) ==
  LET beyond == InjectionRate * rate[2] - rate[1]
  IN  IF rate[1] = 0 THEN b
      ELSE IF b.len[1] # 0
      THEN [b EXCEPT !.gap = Fraction(b.len[1] * beyond, b.len[2] * rate[1])]
      ELSE IF b.gap[1] # 0 /\ beyond > 0
      THEN [b EXCEPT !.len = Fraction(b.gap[1] * rate[1], b.gap[2] * beyond)]
      ELSE b

(* setAllowedRate(), first to the desired rate, then to the scaled one.    *)
WithRates(messages, aggregate) ==
  [m \in DOMAIN messages |-> [messages[m] EXCEPT !.bursts =
     computeBurstParameters(computeBurstParameters(@, <<DesiredRate(m), 1>>),
                            AllowedRate(m, aggregate))]]

(* The rates that messages desire, added up.                               *)
TotalRate(messages) == SumFunction([m \in messages |-> DesiredRate(m)])

(* Mutant of updateSendRates: a message that starts is not counted.        *)
updateSendRatesBefore(messages) ==
  /\ aggregateRate' = TotalRate(DOMAIN messages \cap DOMAIN active)
  /\ active' = WithRates(messages, aggregateRate')

(* updateSendRates(): the rates of all active messages are their desired   *)
(* ones, scaled down together if their sum exceeds maxSendRate.            *)
updateSendRates(messages) ==
  /\ aggregateRate' = TotalRate(DOMAIN messages)
  /\ active' = WithRates(messages, aggregateRate')

(* Times a segment may take at a rate until the next one.                  *)
Spacings(rate, bytes) ==
  IF config.randomInterArrival THEN 0 .. MaxWait
  ELSE {(bytes * Unit * rate[2]) \div rate[1]}

(* computeNextSendTime(): the first segment of a message ends a burst of   *)
(* length 0, any other one may be the last of its burst, unless the burst  *)
(* is endless.                                                             *)
NextSend(m, bytes) ==
  LET rate == AllowedRate(m, aggregateRate)
      b == active[m].bursts
      wait(times, begun) == {[nextSendTime |-> now + t, begun |-> begun] : t \in times}
  IN  IF rate[1] = 0 THEN wait({0}, active[m].begun)
      ELSE IF b.len[1] = 0 /\ b.gap[1] = 0
      THEN wait(Spacings(rate, bytes), active[m].begun)
      ELSE (IF active[m].begun = "endless" THEN {}
            ELSE wait(IF b.gap[1] <= 0 THEN {0} ELSE 0 .. MaxWait,
                      IF b.len[1] <= 0 THEN "endless" ELSE "begun"))
           \cup (IF active[m].begun = "none" THEN {}
                 ELSE wait(Spacings(<<InjectionRate, 1>>, bytes), active[m].begun))

(* createScheduleInit() of an active message and its setters.              *)
Activated ==
  [bytesSent |-> 0, nextSendTime |-> now, event |-> TRUE, begun |-> "none",
   bursts |-> [len |-> <<config.burstLen, 1>>, gap |-> <<config.gap, 1>>]]

(* handleMessage() for nextMessageArrival and activateMessage().           *)
ActivateMessage(m) ==
  /\ m \in scheduled /\ nextArrival = now
  /\ m.startTime = NextStart(scheduled)
  /\ scheduled' = scheduled \ {m}
  /\ nextArrival' = NextStart(scheduled')
  /\ IF m.messageSize = 0 THEN UNCHANGED <<active, aggregateRate>>
     ELSE updateSendRates([k \in DOMAIN active \cup {m} |->
                             IF k = m THEN Activated ELSE active[k]])
  /\ UNCHANGED <<params, altMaxMin, now, initialized, ahead>>

getPktPayload ==
  IF config.payload = "ALTERNATING_MAX_MIN" /\ altMaxMin THEN 0 ELSE MaxPayload

Finished(m, bytesSent) == sendTimeLimitReached \/ bytesSent >= m.messageSize

(* handleMessage() of an active message, sendNextSegment() and             *)
(* getNextSegment().  Past the time limit the event is gone, and the       *)
(* message stays.                                                          *)
SendNextSegment(m) ==
  /\ m \in DOMAIN active /\ active[m].event /\ active[m].nextSendTime = now
  /\ ~ Finished(m, active[m].bytesSent)
  /\ LET size == Min({m.messageSize - active[m].bytesSent, getPktPayload})
         left == [k \in DOMAIN active \ {m} |-> active[k]]
         total == active[m].bytesSent + size
     IN  /\ altMaxMin' = IF config.payload = "ALTERNATING_MAX_MIN"
                         THEN ~ altMaxMin ELSE altMaxMin
         /\ ahead' = IF MaxSendRate = 0 \/ ~ UniformSpacing THEN 0 ELSE ahead + (size + Overhead) * Unit
         /\ IF Finished(m, total)
            THEN updateSendRates(left)
            ELSE /\ \E next \in NextSend(m, size + Overhead) :
                      active' = [active EXCEPT ![m].bytesSent = total,
                                   ![m].nextSendTime = next.nextSendTime,
                                   ![m].begun = next.begun]
                 /\ UNCHANGED aggregateRate
  /\ UNCHANGED <<params, now, scheduled, nextArrival, initialized>>

StopAtLimit(m) ==
  /\ m \in DOMAIN active /\ active[m].event /\ active[m].nextSendTime = now
  /\ sendTimeLimitReached
  /\ active' = [active EXCEPT ![m].event = FALSE]
  /\ UNCHANGED <<params, altMaxMin, now, scheduled, nextArrival, aggregateRate,
                 initialized, ahead>>

Pending == {active[m].nextSendTime : m \in {k \in DOMAIN active : active[k].event}}
             \cup ({nextArrival} \ {-1})

Tick ==
  /\ Pending # {} /\ now \notin Pending
  /\ now' = now + 1
  /\ ahead' = Max({0, ahead - MaxSendRate})
  /\ UNCHANGED <<params, altMaxMin, scheduled, nextArrival, active,
                 aggregateRate, initialized>>

AppNext ==
  \/ Reassign
  \/ WritePairs
  \/ ParseScript
  \/ \E m \in scheduled : ActivateMessage(m)
  \/ \E m \in DOMAIN active : SendNextSegment(m)
  \/ \E m \in DOMAIN active : StopAtLimit(m)
  \/ Tick

AppSpec == AppInit /\ [][AppNext]_AppVars
-----------------------------------------------------------------------------
(* The loop that looks for a server to swap with always has one to find    *)
(* (reassignServersPairedInSameSubtree()).                                 *)
SwapPossible ==
  script = NoScript /\ pairing.at < NumServers /\ NumPods > 1 =>
    LET a == pairing.at
    IN  Pod(a) = Pod(pairing.assignments[a])
          => \E x \in Servers : MaySwap(pairing.assignments, a, x)

(* Generated scripts: no server sends to itself; but for a malicious       *)
(* tenant's, every server is sent as many messages as it sends; and pairs  *)
(* send to each other across pods (createTraffic() of the patterns).       *)
ScriptRegular ==
  Generated =>
    /\ \A m \in script : m.source # m.destination
    /\ \A s \in Servers : (\A m \in script : m.messageNum = 0) =>
         Cardinality({m \in script : m.source = s})
           = Cardinality({m \in script : m.destination = s})
    /\ pairing.at # 0 => \A m \in script :
         /\ Pod(m.source) # Pod(m.destination)
         /\ Msg(m.destination, m.source, 0) \in script

(* However messages start and finish, a server with uniform spacing never  *)
(* runs ahead of maxSendRate by more than some segments of each message,   *)
(* though a message keeps its next send time when the rates change         *)
(* (updateSendRates(), computeNextSendTime()).                             *)
StaysWithinRate == ahead <= MaxBurst * (MaxPayload + Overhead) * Unit

(* The bursts that a message is to begin make up its rate on average,      *)
(* whatever its rate was when their parameters were derived before: it     *)
(* injects during len / (len + gap) of the time, or always if it may send  *)
(* as much (computeBurstParameters()).                                     *)
BurstsMeetRate ==
  \A m \in DOMAIN active :
    LET rate == AllowedRate(m, TotalRate(DOMAIN active))
        len == active[m].bursts.len
        gap == active[m].bursts.gap
    IN  (config.burstLen # 0 \/ config.gap # 0) /\ rate[1] # 0 =>
          IF rate[1] >= InjectionRate * rate[2]
          THEN len[1] = 0 \/ gap[1] <= 0
          ELSE /\ len[1] > 0
               /\ InjectionRate * len[1] * gap[2] * rate[2]
                    = rate[1] * (len[1] * gap[2] + gap[1] * len[2])

(* A burst without an end is only begun by a message that may inject all   *)
(* the time, at least while it is on its own (computeNextSendTime()).      *)
EndlessIfUnshared ==
  \A m \in DOMAIN active : active[m].begun = "endless" => DesiredRate(m) >= InjectionRate

(* The rates of the active messages are shared out anew whenever one       *)
(* starts or finishes.  Uniform traffic keeps to them, and so do the       *)
(* bursts to come; of a burst that has begun, see EndlessScaledBack.       *)
Paced == StaysWithinRate /\ BurstsMeetRate /\ EndlessIfUnshared

(* "Scale back the traffic produced by the messages to this limit": what   *)
(* setAllowedRate() is to do to a burst without an end that has begun,     *)
(* too, and does not: it goes on at the full rate; see the README, 2.4.    *)
EndlessScaledBack ==
  \A m \in DOMAIN active :
    LET rate == AllowedRate(m, TotalRate(DOMAIN active))
    IN  active[m].begun = "endless" => rate[1] >= InjectionRate * rate[2]
=============================================================================
