---------------------------- MODULE MCRateLimiter ----------------------------
(* Instances of RateLimiter for TLC.                                       *)
EXTENDS RateLimiterProofs, TLC

CONSTANTS n1, n2, a1, a2, q1, q2, q3, q4

TwoServers == {n1, n2}
TwoKeys == {a1, a2}
FourRequests == {q1, q2, q3, q4}
RequestSymmetry == Permutations(Requests)

=============================================================================
