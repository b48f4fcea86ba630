--------------------------- MODULE BandwidthMeter ---------------------------
(***************************************************************************)
(* A bandwidth meter of a server's port, fed by updateStats().  A batch of *)
(* packets is measured when the next packet finds it full or its interval  *)
(* over; the periodic measurement is off, as bandwidthMeasureInterval is 0 *)
(* by default (an event that repeats keeps a simulation from ending).      *)
(***************************************************************************)
EXTENDS Naturals

CONSTANTS
  BatchSize,    \* bandwidthMeasurementBatchSize, in packets
  MaxInterval   \* maxBandwidthMeasureInterval

ASSUME MeterAssumption == BatchSize \in Nat \ {0} /\ MaxInterval \in Nat \ {0}

(* measured counts the packets of the batches that were emitted.           *)
NewMeter == [pkts |-> 0, bits |-> 0, start |-> 0, measured |-> 0]

measureBandwidth(meter, now) ==
  [pkts |-> 0, bits |-> 0, start |-> now, measured |-> meter.measured + meter.pkts]

BatchOver(meter, now) ==
  meter.pkts >= BatchSize \/ now - meter.start >= MaxInterval

(* Mutant of updateStats: the packet that finds the batch over is lost.    *)
updateStatsAfter(meter, now, bits) ==
  IF BatchOver(meter, now)
  THEN measureBandwidth(meter, now)
  ELSE [meter EXCEPT !.pkts = @ + 1, !.bits = @ + bits]

updateStats(meter, now, bits) ==
  LET current == IF BatchOver(meter, now) THEN measureBandwidth(meter, now) ELSE meter
  IN  [current EXCEPT !.pkts = @ + 1, !.bits = @ + bits]

PktsCounted(meter) == meter.measured + meter.pkts
=============================================================================
