---------------------------- MODULE MCWorkerTask ----------------------------
(* Model-checking instances of WorkerTask.  Two names: "nop" is shared by   *)
(* two task objects (as "mdc.nop" is, made once per TConnCenter.init), one  *)
(* of them periodic; "job" has one object.                                  *)
EXTENDS WorkerTask

CONSTANTS n1, n2, j, w1, w2, c1

MCNameOf == [t \in Tasks |-> IF t = j THEN "job" ELSE "nop"]
=============================================================================
