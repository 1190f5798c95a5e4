------------------------------ MODULE MCIngest ------------------------------
(* Values for the constants of Ingest: one strategy, two concurrent        *)
(* handlers, one or two signals.                                           *)
EXTENDS Ingest

CONSTANTS h1, h2

OneStrategy == {"s1"}
TwoHandlers == {h1, h2}
OneKey == {"k1"}
TwoKeys == {"k1", "k2"}
JustOne == [k \in OneKey |-> "s1"]
AllOfOne == [k \in TwoKeys |-> "s1"]

(* Bound of the passing run: two of redeliveries, faults and restarts.     *)
Redelivered == {k \in Keys : deliveries'[k] > 1}
Bounded == Cardinality(Redelivered) + faults' <= MaxFaults
MCIngestSpec == IngestInit /\ [][IngestNext /\ Bounded]_ivars /\ IngestFairness
=============================================================================
