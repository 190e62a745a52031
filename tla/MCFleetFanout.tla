--------------------------- MODULE MCFleetFanout ----------------------------
(* Small instances of FleetFanout: nodes are interchangeable.              *)
EXTENDS FleetFanout, TLC

Symmetry == Permutations(TestNodes)
=============================================================================
