------------------------------ MODULE Scheduler ------------------------------
(***************************************************************************)
(* What core/worker/WorkerTask.java promises to the programs that schedule *)
(* tasks, by the names of the tasks: until stopAll is called, a name is    *)
(* executed by one thread at a time; a schedule is accepted only while the *)
(* name is not executing, so that it is an execution begun after it that   *)
(* serves it; and nothing but the beginning of an execution of the name    *)
(* settles it.  Which task object executes, which future of it fires and   *)
(* which of several schedules it stands for is left open.                  *)
(***************************************************************************)
CONSTANT Names  \* getName() of the tasks there are

VARIABLES
  owed,     \* names with an accepted schedule and no execution begun since
  running,  \* names whose onExecute a thread is in
  down      \* stopAll has been called

vars == <<owed, running, down>>

Init == owed = {} /\ running = {} /\ down = FALSE

(* schedule() accepts; while the name executes it is ignored. *)
Accept(n) ==
  /\ n \notin running \/ down
  /\ owed' = owed \cup {n}
  /\ UNCHANGED <<running, down>>

(* onExecute begins.  A name that was scheduled twice may execute twice. *)
Begin(n) ==
  /\ n \notin running \/ down
  /\ running' = running \cup {n}
  /\ owed' = owed \ {n}
  /\ UNCHANGED down

(* onExecute returns or throws. *)
End(n) ==
  /\ n \in running
  /\ running' = running \ {n}
  /\ UNCHANGED <<owed, down>>

StopAll == ~down /\ down' = TRUE /\ UNCHANGED <<owed, running>>

Next == StopAll \/ \E n \in Names : Accept(n) \/ Begin(n) \/ End(n)

Spec == Init /\ [][Next]_vars
=============================================================================
