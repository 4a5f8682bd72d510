--------------------------- MODULE MCRecordService ---------------------------
(* Instances of RecordService for TLC: the graphs come from StatusGraph.   *)
EXTENDS RecordServiceProofs, StatusGraph, TLC

CONSTANTS k1, r1, r2, r3

OneRecord == {k1}
TwoRequests == {r1, r2}
ThreeRequests == {r1, r2, r3}
RequestSymmetry == Permutations(Requests)

SolarSiteStatuses == DOMAIN SolarSiteTransitions
InverterUnitStatuses == DOMAIN InverterUnitTransitions
FaultEventStatuses == DOMAIN FaultEventTransitions
MitigationActionStatuses == DOMAIN MitigationActionTransitions

=============================================================================
