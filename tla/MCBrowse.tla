------------------------------ MODULE MCBrowse ------------------------------
(* Instances of Browse for TLC.                                            *)
EXTENDS BrowseProofs, TLC

CONSTANTS w1, w2, w3

TwoWriters == {w1, w2}
ThreeWriters == {w1, w2, w3}
WriterSymmetry == Permutations(Writers)

=============================================================================
