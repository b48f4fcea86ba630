-------------------------- MODULE ThresholdSearch ---------------------------
(***************************************************************************)
(* MA_AdjustRateToThreshold and its subclass MA_AdjustQueueSizeToRate at   *)
(* server 0.  It measures the loss of all flows over and over, and changes *)
(* the rate of all servers, or the limits of all queues, looking for the   *)
(* highest rate, or the smallest queues, that keep the loss within the     *)
(* threshold.  Which of the searches find it, and which do not, is what    *)
(* the properties at the end say.  Rates are counted in parts of the       *)
(* smallest step; a result of the M/M/1/K formulas is any number they can  *)
(* return.                                                                 *)
(***************************************************************************)
EXTENDS FiniteSetsExt, Integers

CONSTANTS
  Flows,        \* the flows that are measured
  Steps,        \* 10 ^ precision_: steps of the rate in the link rate
  Parts,        \* parts of a step
  QueueSizes,   \* initial limits of queues, packets
  ByteLimits,   \* initial limits of queues, bytes; 0: none
  Segment,      \* ETHER_MAX_SEG_SIZE, bytes
  AvgPayload,   \* getAvgPayload(), bytes
  MaxEstimate,  \* bound: sizes the M/M/1/K model asks for
  ULONG_MAX

ASSUME StepsAssumption == Steps \in Nat \ {0} /\ Parts \in Nat \ {0}
ASSUME SizesAssumption ==
  /\ MaxEstimate \in Nat /\ ULONG_MAX \in Nat /\ MaxEstimate < ULONG_MAX
  /\ QueueSizes \subseteq 1 .. ULONG_MAX
  /\ 0 \in ByteLimits /\ ByteLimits \subseteq 0 .. ULONG_MAX
  /\ Segment \in Nat \ {0} /\ AvgPayload \in 1 .. Segment

VARIABLES
  config,      \* what is adjusted, how, which loss counts, the limit in
               \* bytes at first, and the network: the last values within the
               \* threshold; rates: with noise or not
  value,       \* maxSendRate_ / linkRate_, or queueSizePkts_
  bytes,       \* queueSizeBytes_
  lastOver,    \* lastRateOverThreshold_, lastK_overThreshold
  lastUnder,   \* lastRateUnderThreshold_, lastK_underThrehsold
  event,       \* the event that is scheduled: "start", "check", or none
  emitted      \* the rate or the limit in packets last emitted

searchVars == <<config, value, bytes, lastOver, lastUnder, event, emitted>>
-----------------------------------------------------------------------------
adjust == Parts
linkRate == Steps * Parts
Rates == {k * adjust : k \in 0 .. Steps}

NotEmitted == -2

Configs ==
  [adjusts : {"rate"}, useMM1K : BOOLEAN, useMax : BOOLEAN, noisy : BOOLEAN,
   bytes : {0}, edge : {k * adjust : k \in 0 .. Steps - 1}, edgeBytes : {0}]
    \cup [adjusts : {"queue"}, useMM1K : BOOLEAN, useMax : BOOLEAN, noisy : {FALSE},
          bytes : ByteLimits, edge : 1 .. MaxEstimate, edgeBytes : ByteLimits]

(* Queues to be adjusted have a limit.                                     *)
SearchInit ==
  /\ config \in Configs /\ bytes = config.bytes
  /\ \/ config.adjusts = "rate"
        /\ value \in Rates \ {0} /\ lastOver = linkRate /\ lastUnder = 0
     \/ config.adjusts = "queue"
        /\ value \in QueueSizes \cup (IF bytes = 0 THEN {} ELSE {0})
        /\ lastOver = 0 /\ lastUnder = ULONG_MAX
  /\ event = "start" /\ emitted = NotEmitted

(* Losses are in units of the threshold over the number of flows.          *)
LossThreshold == Cardinality(Flows)

(* checkNetworkLoss(): the maximum over all flows, or their average.       *)
LossObserved(loss) ==
  IF config.useMax THEN Max({loss[f] : f \in Flows}) * Cardinality(Flows)
  ELSE MapThenSumSet(LAMBDA f : loss[f], Flows)

(* What can be measured: more than the threshold beyond the edge, and      *)
(* nowhere else, unless there is noise.  Each limit of a queue has an edge. *)
Measurable(loss) ==
  \/ config.noisy
  \/ (LossObserved(loss) > LossThreshold)
       <=> IF config.adjusts = "rate" THEN value > config.edge
           ELSE \/ value # 0 /\ value < config.edge
                \/ bytes # 0 /\ bytes < config.edgeBytes

NoneLost(loss) == \A f \in Flows : loss[f] = 0

(* The longest queue seen.  Without loss it is at least what is enough not *)
(* to lose more than that; with it, a queue that has one limit was full.   *)
PktsSeen(loss) ==
  CASE value = 0 -> 0 .. MaxEstimate
    [] value # 0 /\ NoneLost(loss) -> config.edge .. value
    [] value # 0 /\ ~ NoneLost(loss) -> (IF bytes = 0 THEN value ELSE 0) .. value

BytesSeen(loss) ==
  CASE bytes = 0 -> {0}
    [] bytes # 0 /\ NoneLost(loss) -> config.edgeBytes .. bytes
    [] bytes # 0 /\ ~ NoneLost(loss) ->
         (IF value = 0 THEN Max({0, bytes - Segment + 1}) ELSE 0) .. bytes
-----------------------------------------------------------------------------
Between(new, low, high) == Max({low, Min({new, high})})

Going(rate) == [new |-> rate, ends |-> rate = value]

(* Mutant of NewRate: the estimate is used as it is.                       *)
NewRateUnclamped(guess, over, under) ==
  Going(IF 99 * (over - under) <= 100 * adjust THEN value ELSE guess)

(* The end of autoAdjust_UseMM1Estimation() of the rate, with the bounds   *)
(* already set.                                                            *)
NewRate(guess, over, under) ==
  LET wild == \/ guess >= over /\ value <= under
              \/ guess <= under /\ value >= over
      new  == IF wild THEN (over + under) \div 2 ELSE guess
  IN  Going(IF 99 * (over - under) <= 100 * adjust THEN value
            ELSE Between(new, under + adjust, over - adjust))

(* The same of autoAdjust_DecrementToFindValue(), which compares without   *)
(* the tolerance: where the bounds are a step apart, rounding may make     *)
(* them seem more, and the clamps then give the upper one again.  "ends"   *)
(* tells whether the search does.                                          *)
NextRates(isOver, over, under) ==
  (IF over - under <= adjust THEN {[new |-> value, ends |-> TRUE]} ELSE {})
    \cup
  (IF over - under < adjust THEN {}
   ELSE {[ends |-> FALSE,
          new  |-> Between(IF isOver THEN value - adjust ELSE value + adjust,
                           under + adjust, over - adjust)]})

(* estimateHighestRateThatUnderThreshold(), a step that sums have rounded, *)
(* or the full rate without loss.                                          *)
RateGuesses(loss) ==
  IF LossObserved(loss) = 0 THEN {linkRate}
  ELSE {k * adjust + d : k \in 0 .. Steps, d \in -1 .. 1} \cap 0 .. linkRate - 1

(* Mutant of AdjustedRate: the bounds are swapped.                         *)
AdjustedRateSwapped(loss) ==
  LET isOver == LossObserved(loss) > LossThreshold
      over   == IF isOver THEN lastOver ELSE value
      under  == IF isOver THEN value ELSE lastUnder
  IN  [over : {over}, under : {under},
       next : IF config.useMM1K
              THEN {NewRate(g, over, under) : g \in RateGuesses(loss)}
              ELSE NextRates(isOver, over, under)]

AdjustedRate(loss) ==
  LET isOver == LossObserved(loss) > LossThreshold
      over   == IF isOver THEN value ELSE lastOver
      under  == IF isOver THEN lastUnder ELSE value
  IN  [over : {over}, under : {under},
       next : IF config.useMM1K
              THEN {NewRate(g, over, under) : g \in RateGuesses(loss)}
              ELSE NextRates(isOver, over, under)]

(* Both bounds are kept; all servers emit a new rate when they are told;   *)
(* the search ends with the last rate known to be within the threshold.    *)
AdjustRate(loss) ==
  \E r \in AdjustedRate(loss) :
    /\ lastOver' = r.over /\ lastUnder' = r.under
    /\ value' = r.next.new /\ UNCHANGED bytes
    /\ IF r.next.ends THEN emitted' = r.under /\ event' = "none"
       ELSE emitted' = r.next.new /\ event' = "start"
-----------------------------------------------------------------------------
Unsigned(n) == n % (ULONG_MAX + 1)

NewSize(size, guess, over, under) ==
  LET wild == \/ guess >= under /\ size <= over
              \/ guess <= over /\ size >= under
      new  == IF wild THEN Unsigned(under + over) \div 2 ELSE guess
  IN  IF Unsigned(under - over) <= 1 THEN size
      ELSE Max({over + 1, Min({new, Unsigned(under - 1)})})

(* Without loss the queue length seen, otherwise the size the model asks   *)
(* for at the traffic intensity that explains the loss.                    *)
SizeGuesses(loss) ==
  IF LossObserved(loss) = 0 THEN {Max({q, 1}) : q \in PktsSeen(loss)}
  ELSE 0 .. MaxEstimate

(* autoAdjust_UseMM1Estimation() of the queue size: a limit in bytes gives *)
(* way to one in packets, in which the search goes on.                     *)
AdjustSize(loss) ==
  LET size   == IF bytes # 0 /\ value = 0 THEN bytes \div AvgPayload ELSE value
      isOver == LossObserved(loss) > LossThreshold
      over   == IF isOver THEN Max({size, lastOver}) ELSE lastOver
      under  == IF isOver THEN lastUnder ELSE Min({size, lastUnder})
  IN  \E guess \in SizeGuesses(loss) :
        LET new == NewSize(size, guess, over, under)
        IN  /\ lastOver' = over /\ lastUnder' = under
            /\ value' = new /\ bytes' = 0
            /\ IF new # size THEN emitted' = new /\ event' = "start"
               ELSE emitted' = under /\ event' = "none"

(* autoAdjust_DecrementToFindValue() of the limits: each new one is        *)
(* emitted before it is tried, and the search is over, with nothing        *)
(* changed, at the first one that cannot be.                               *)
DecrementSize(loss) ==
  /\ UNCHANGED <<lastOver, lastUnder>>
  /\ IF LossObserved(loss) > LossThreshold
     THEN event' = "none" /\ UNCHANGED <<value, bytes, emitted>>
     ELSE \E pkts \in PktsSeen(loss), len \in BytesSeen(loss) :
            LET newPkts   == Min({pkts, value}) - 1
                newBytes  == Min({len, bytes}) - Segment
                bytesDone == bytes # 0 /\ newBytes < Segment
                pktsDone  == value # 0 /\ newPkts < 1
            IN  /\ emitted' = IF value # 0 /\ ~ bytesDone THEN newPkts ELSE emitted
                /\ IF bytesDone \/ pktsDone THEN event' = "none" /\ UNCHANGED <<value, bytes>>
                   ELSE /\ event' = "start"
                        /\ value' = IF value # 0 THEN newPkts ELSE 0
                        /\ bytes' = IF bytes # 0 THEN newBytes ELSE 0
-----------------------------------------------------------------------------
StartMeasurement ==
  /\ event = "start"
  /\ event' = "check"
  /\ UNCHANGED <<config, value, bytes, lastOver, lastUnder, emitted>>

(* checkNetworkLoss() and autoAdjust().  The new value is in force at all  *)
(* servers or switches before the next measurement starts, a measurement   *)
(* interval later.                                                         *)
CheckNetworkLoss ==
  /\ event = "check"
  /\ \E loss \in [Flows -> 0 .. 2] :
       /\ Measurable(loss)
       /\ CASE config.adjusts = "rate" -> AdjustRate(loss)
            [] config.adjusts = "queue" /\ config.useMM1K -> AdjustSize(loss)
            [] OTHER -> DecrementSize(loss)
  /\ UNCHANGED config

SearchNext == StartMeasurement \/ CheckNetworkLoss

(* Events take place as long as one is scheduled.                          *)
SearchSpec == SearchInit /\ [][SearchNext]_searchVars /\ WF_searchVars(SearchNext)
-----------------------------------------------------------------------------
(* In a network whose loss depends on the rate or size alone, a search for *)
(* a rate ends with the highest one within the threshold, up to the step   *)
(* of the search, and one for a size by the M/M/1/K model, if queues had   *)
(* no limit in bytes, with the smallest one within it (autoAdjust_...()).  *)
FindsEdge ==
  event = "none" /\ ~ config.noisy =>
    CASE config.adjusts = "rate" ->
           /\ emitted <= config.edge
           /\ 99 * (config.edge - emitted) <= 100 * adjust
      [] config.adjusts = "queue" /\ config.useMM1K /\ config.bytes = 0 ->
           emitted = config.edge
      [] OTHER -> TRUE

(* The search always ends, but for a rate that goes by steps, however far  *)
(* off the estimates are and however much the loss of the same rate varies *)
(* (autoAdjust_...()).                                                     *)
SearchEnds == (config.adjusts = "rate" => config.useMM1K) => <>(event = "none")

(* What the code says of the other searches, and does not do: see the      *)
(* README, 2.4.  "The last adjust queue size emitted is the value we are   *)
(* looking for": it is one for which the loss stays within the threshold.  *)
LastEmittedIsSought ==
  event = "none" /\ config.adjusts = "queue" /\ ~ config.useMM1K /\ config.bytes = 0
      /\ emitted # NotEmitted
    => emitted >= config.edge

(* A search by steps ends as well: "we should be done if there is no room  *)
(* between the upper and lower bound".                                     *)
StepsEnd == config.adjusts = "rate" /\ ~ config.useMM1K => <>(event = "none")

(* A size is tried "between the largest value known to exceed the          *)
(* threshold and the smallest value known not to", also when the first     *)
(* measurement was under a limit in bytes.                                 *)
BoundsKnown ==
  config.adjusts = "queue" /\ config.useMM1K => lastOver < config.edge /\ config.edge <= lastUnder
=============================================================================
