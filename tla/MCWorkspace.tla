----------------------------- MODULE MCWorkspace -----------------------------
(* Instances of Workspace for TLC: graphs and orders come from StatusGraph. *)
EXTENDS WorkspaceProofs, StatusGraph, TLC

CONSTANTS k1, k2, c1, c2, c3

OneRecord == {k1}
TwoRecords == {k1, k2}
TwoCalls == {c1, c2}
ThreeCalls == {c1, c2, c3}
CallSymmetry == Permutations(Calls)

SolarSiteStatuses == DOMAIN SolarSiteTransitions
InverterUnitStatuses == DOMAIN InverterUnitTransitions
FaultEventStatuses == DOMAIN FaultEventTransitions
MitigationActionStatuses == DOMAIN MitigationActionTransitions

=============================================================================
