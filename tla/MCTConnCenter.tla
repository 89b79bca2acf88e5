---------------------------- MODULE MCTConnCenter ----------------------------
(* Instances of TConnCenter: a few connections of one or two clients.        *)
EXTENDS TConnCenter, TLC

CONSTANTS c1, c2, i1, i2

ConnSymmetry == Permutations(Conns)
=============================================================================
