------------------------------ MODULE MCStartup ------------------------------
(* Instances of Startup for TLC.                                           *)
EXTENDS StartupProofs

CONSTANTS n1, n2, c1, c2, c3

OneServer == {n1}
TwoServers == {n1, n2}
TwoSeeds == {c1, c2}
OneSeed == {c1}
OneOther == {c3}

=============================================================================
