------------------------ MODULE MCTelemetryProcessor ------------------------
(* Instances of TelemetryProcessor for TLC.  Vehicle v1 sends a1 and a2, and    *)
(* vehicle v2 sends b1.                                                      *)
EXTENDS TelemetryProcessor, TLC

CONSTANTS c1, c2, p1, p2, v1, v2, a1, a2, b1, f1

\* One vehicle, one partition: what happens to two events of one vehicle.
OneVin == [e \in Events |-> v1]
OnePartition == [v \in Vins |-> p1]

\* Two vehicles on two partitions.
TwoVins == [e \in Events |-> IF e = b1 THEN v2 ELSE v1]
TwoPartitions == [v \in Vins |-> IF v = v2 THEN p2 ELSE p1]

\* The consumers are interchangeable in the runs without liveness.
Symmetry == Permutations(Consumers)
=============================================================================
