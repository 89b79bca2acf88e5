---------------------------- MODULE MCUserCreate ----------------------------
(* Instances of UserCreate: threads a1 and a2 on one node, b1 on another;    *)
(* the user 1 is there before the sequence starts, and may be locked.       *)
EXTENDS UserCreate

LOCAL INSTANCE TLC

CONSTANTS a1, a2, b1

MCNodeOf   == [t \in Threads |-> IF t = b1 THEN "B" ELSE "A"]
MCSymmetry == Permutations({a1, a2})
=============================================================================
