------------------------------- MODULE MCUID -------------------------------
(* Instances of UID: threads a1 and a2 on one node, b1 on a second one.     *)
EXTENDS UID

CONSTANTS a1, a2, b1

MCNodeOf == [t \in Threads |-> IF t = b1 THEN "B" ELSE "A"]
=============================================================================
