-------------------------------- MODULE MCMQ --------------------------------
(* Instances of MQ: two callers, two workers. *)
EXTENDS MQ

CONSTANTS c1, c2, w1, w2
=============================================================================
