------------------------------- MODULE MCDesk -------------------------------
(* Instances of Desk for TLC.                                              *)
EXTENDS DeskProofs, StatusGraph

CONSTANTS k1, r1, r2, r3, u1

OneRecord == {k1}
OneUser == {u1}
TwoRequests == {r1, r2}
ThreeRequests == {r1, r2, r3}

SolarSiteStatuses == DOMAIN SolarSiteTransitions

=============================================================================
