--------------------------- MODULE MCSystemConfig ---------------------------
(* Instances of SystemConfig: threads a1 and a2 on one node, b1 on another. *)
EXTENDS SystemConfig

CONSTANTS a1, a2, b1

MCNodeOf == [t \in Threads |-> IF t = b1 THEN "B" ELSE "A"]
=============================================================================
