----------------------------- MODULE WorkerTask -----------------------------
(***************************************************************************)
(* The task scheduler of core/worker/WorkerTask.java: a scheduled thread   *)
(* pool, two static lists (pendingQueue, runningQueue) guarded by one      *)
(* static lock, and per task object the fields stop, sf and who.  Two task *)
(* objects are equal when their names are equal, and both lists are        *)
(* searched with equals, so a list entry stands for a NAME as much as for  *)
(* an object.                                                              *)
(*                                                                         *)
(* Every synchronized(lock) block is one step; what the code reads or      *)
(* writes outside of the lock (the stop flag, who) is a step of its own.   *)
(* The thread started by stopAll keeps the lock over several steps.        *)
(* Delays are left out: a queued future may fire whenever a thread is idle.*)
(***************************************************************************)
EXTENDS Integers, Sequences, FiniteSets, SequencesExt

CONSTANTS Tasks,            \* task objects
          NameOf,           \* getName() of every task object
          Periodic,         \* tasks whose onFinish schedules them again
          Uninterruptable,  \* tasks whose interruptable() returns false
          Workers,          \* threads of the executor ("thread.number")
          Clients,          \* other threads that call schedule()
          MaxCalls,         \* bound: calls of schedule() made by the clients
          NoTask, NoWorker  \* null references

ASSUME NamesAssumption   == NameOf \in [Tasks -> {NameOf[t] : t \in Tasks}]
ASSUME HooksAssumption   == Periodic \subseteq Tasks /\ Uninterruptable \subseteq Tasks
ASSUME BoundAssumption   == MaxCalls \in Nat
ASSUME NullsAssumption   == NoTask \notin Tasks /\ NoWorker \notin Workers

VARIABLES
  executor,      \* init() has created the thread pool
  stop,          \* stop[t]: the stop flag of t
  sf,            \* sf[t]: the future t remembers: "null", "queued" (it is in
                 \* the executor's queue) or "spent" (it has fired)
  who,           \* who[t]: the thread running t, as t remembers it
  live,          \* live[t]: futures of t in the executor's queue, the one in
                 \* sf[t] and those t has lost track of
  pendingQueue,  \* the static list pendingQueue
  runningQueue,  \* the static list runningQueue
  wpc, wtask,    \* each pool thread: where it is in run(), and for which task
  cpc, ctask,    \* each client: where it is in schedule(), and for which task
  isShutingdown, \* the static flag
  stopper, si,   \* the thread of stopAll and its loop index
  owed,          \* history: names with an accepted schedule and no
                 \* onExecute started since
  calls          \* number of schedule() calls made by the clients

poolVars    == <<executor, sf, live>>
queueVars   == <<pendingQueue, runningQueue>>
workerVars  == <<wpc, wtask>>
clientVars  == <<cpc, ctask, calls>>
stopperVars == <<isShutingdown, stopper, si>>
vars == <<poolVars, stop, who, queueVars, workerVars, clientVars, stopperVars, owed>>

Names == {NameOf[t] : t \in Tasks}

(* ArrayList.contains and ArrayList.remove(Object), with equals by name.   *)
Has(q, t)       == \E i \in DOMAIN q : NameOf[q[i]] = NameOf[t]
IndexOf(q, t)   == CHOOSE i \in DOMAIN q :
                     /\ NameOf[q[i]] = NameOf[t]
                     /\ \A j \in 1..i-1 : NameOf[q[j]] # NameOf[t]
RemoveOne(q, t) == IF Has(q, t) THEN RemoveAt(q, IndexOf(q, t)) ELSE q

(* The stopAll thread owns the lock while it walks over a list.            *)
LockFree == stopper \notin {"pending", "running", "again"}
Alive    == stopper # "exited"

Init ==
  /\ executor = FALSE
  /\ stop = [t \in Tasks |-> FALSE]
  /\ sf = [t \in Tasks |-> "null"]
  /\ who = [t \in Tasks |-> NoWorker]
  /\ live = [t \in Tasks |-> 0]
  /\ pendingQueue = << >> /\ runningQueue = << >>
  /\ wpc = [w \in Workers |-> "idle"] /\ wtask = [w \in Workers |-> NoTask]
  /\ cpc = [c \in Clients |-> "idle"] /\ ctask = [c \in Clients |-> NoTask]
  /\ isShutingdown = FALSE /\ stopper = "off" /\ si = 0
  /\ owed = {}
  /\ calls = 0

-----------------------------------------------------------------------------
(* WorkerTask.init                                                         *)
InitPool ==
  /\ ~executor
  /\ executor' = TRUE
  /\ UNCHANGED <<sf, live, stop, who, queueVars, workerVars, clientVars, stopperVars, owed>>

(* Mutant: onStop forgets the runningQueue entry. *)
OnStopPendingOnly(t, rq) ==
  /\ pendingQueue' = RemoveOne(pendingQueue, t)
  /\ runningQueue' = rq

(* onStop: forget t in both lists; rq is runningQueue as the caller left it *)
OnStop(t, rq) ==
  /\ pendingQueue' = RemoveOne(pendingQueue, t)
  /\ runningQueue' = RemoveOne(rq, t)

(* Mutants: a running name is accepted; a pending name gets no second entry. *)
EnqueueWhileRunning(t, rq) ==
  /\ runningQueue' = rq
  /\ sf' = [sf EXCEPT ![t] = "queued"]
  /\ live' = [live EXCEPT ![t] =
                IF Has(pendingQueue, t) /\ sf[t] = "queued" THEN @ ELSE @ + 1]
  /\ pendingQueue' = Append(pendingQueue, t)
  /\ owed' = owed \cup {NameOf[t]}
EnqueueOnce(t, rq) ==
  /\ runningQueue' = rq
  /\ IF Has(rq, t)
       THEN UNCHANGED <<sf, live, pendingQueue, owed>>
       ELSE /\ sf' = [sf EXCEPT ![t] = "queued"]
            /\ live' = [live EXCEPT ![t] =
                          IF Has(pendingQueue, t) /\ sf[t] = "queued" THEN @ ELSE @ + 1]
            /\ pendingQueue' = IF Has(pendingQueue, t) THEN pendingQueue ELSE Append(pendingQueue, t)
            /\ owed' = owed \cup {NameOf[t]}

(* The locked part of schedule(): ignored while an equal task runs, else   *)
(* the future t knows of is cancelled if an equal task is pending, and a   *)
(* new future and a new list entry are made.                               *)
Enqueue(t, rq) ==
  /\ runningQueue' = rq
  /\ IF Has(rq, t)
       THEN UNCHANGED <<sf, live, pendingQueue, owed>>
       ELSE /\ sf' = [sf EXCEPT ![t] = "queued"]
            /\ live' = [live EXCEPT ![t] =
                          IF Has(pendingQueue, t) /\ sf[t] = "queued" THEN @ ELSE @ + 1]
            /\ pendingQueue' = Append(pendingQueue, t)
            /\ owed' = owed \cup {NameOf[t]}

(* schedule() called by another thread: the flag and the executor are read *)
(* first, without the lock.                                                *)
ScheduleCall(c, t) ==
  /\ Alive /\ cpc[c] = "idle" /\ calls < MaxCalls
  /\ calls' = calls + 1
  /\ cpc' = [cpc EXCEPT ![c] = IF stop[t] THEN "onstop" ELSE IF executor THEN "sched" ELSE "idle"]
  /\ ctask' = [ctask EXCEPT ![c] = IF stop[t] \/ executor THEN t ELSE NoTask]
  /\ UNCHANGED <<poolVars, stop, who, queueVars, workerVars, stopperVars, owed>>

ScheduleLocked(c) ==
  /\ Alive /\ LockFree /\ cpc[c] = "sched"
  /\ Enqueue(ctask[c], runningQueue)
  /\ cpc' = [cpc EXCEPT ![c] = "idle"]
  /\ ctask' = [ctask EXCEPT ![c] = NoTask]
  /\ UNCHANGED <<executor, stop, who, workerVars, stopperVars, calls>>

ScheduleStopped(c) ==
  /\ Alive /\ LockFree /\ cpc[c] = "onstop"
  /\ OnStop(ctask[c], runningQueue)
  /\ cpc' = [cpc EXCEPT ![c] = "idle"]
  /\ ctask' = [ctask EXCEPT ![c] = NoTask]
  /\ UNCHANGED <<poolVars, stop, who, workerVars, stopperVars, calls, owed>>

-----------------------------------------------------------------------------
(* run(), one pool thread.                                                 *)
MoveTo(w, pc) == wpc' = [wpc EXCEPT ![w] = pc]
Release(w)    == MoveTo(w, "idle") /\ wtask' = [wtask EXCEPT ![w] = NoTask]

(* The executor hands a due future of t to an idle thread.  It is the one  *)
(* in sf[t], or an older one t no longer knows.                            *)
Take(w, t) ==
  /\ Alive /\ wpc[w] = "idle" /\ live[t] > 0
  /\ live' = [live EXCEPT ![t] = @ - 1]
  /\ \/ sf[t] = "queued" /\ sf' = [sf EXCEPT ![t] = "spent"]
     \/ (sf[t] = "queued" => live[t] > 1) /\ sf' = sf
  /\ MoveTo(w, "enter") /\ wtask' = [wtask EXCEPT ![w] = t]
  /\ UNCHANGED <<executor, stop, who, queueVars, clientVars, stopperVars, owed>>

(* An equal task is running: the call is dropped. *)
RunDuplicate(w) ==
  /\ Alive /\ LockFree /\ wpc[w] = "enter"
  /\ Has(runningQueue, wtask[w])
  /\ pendingQueue' = RemoveOne(pendingQueue, wtask[w])
  /\ Release(w)
  /\ UNCHANGED <<poolVars, stop, who, runningQueue, clientVars, stopperVars, owed>>

(* Mutant: the test for a running copy is dropped. *)
RunBeginUnchecked(w) ==
  /\ Alive /\ LockFree /\ wpc[w] = "enter"
  /\ pendingQueue' = RemoveOne(pendingQueue, wtask[w])
  /\ runningQueue' = Append(runningQueue, wtask[w])
  /\ sf' = [sf EXCEPT ![wtask[w]] = "null"]
  /\ MoveTo(w, "check")
  /\ UNCHANGED <<executor, live, stop, who, wtask, clientVars, stopperVars, owed>>

RunBegin(w) ==
  /\ Alive /\ LockFree /\ wpc[w] = "enter"
  /\ ~Has(runningQueue, wtask[w])
  /\ pendingQueue' = RemoveOne(pendingQueue, wtask[w])
  /\ runningQueue' = Append(runningQueue, wtask[w])
  /\ sf' = [sf EXCEPT ![wtask[w]] = "null"]
  /\ MoveTo(w, "check")
  /\ UNCHANGED <<executor, live, stop, who, wtask, clientVars, stopperVars, owed>>

(* The stop flag, read without the lock *)
RunCheck(w) ==
  /\ Alive /\ wpc[w] = "check"
  /\ MoveTo(w, IF stop[wtask[w]] THEN "stopping" ELSE "bind")
  /\ UNCHANGED <<poolVars, stop, who, queueVars, wtask, clientVars, stopperVars, owed>>

RunStopped(w) ==
  /\ Alive /\ LockFree /\ wpc[w] = "stopping"
  /\ OnStop(wtask[w], runningQueue)
  /\ MoveTo(w, "unbind")
  /\ UNCHANGED <<poolVars, stop, who, wtask, clientVars, stopperVars, owed>>

(* synchronized(t): remember the thread, then onExecute starts *)
RunBind(w) ==
  /\ Alive /\ wpc[w] = "bind"
  /\ who' = [who EXCEPT ![wtask[w]] = w]
  /\ MoveTo(w, "exec")
  /\ owed' = owed \ {NameOf[wtask[w]]}
  /\ UNCHANGED <<poolVars, stop, queueVars, wtask, clientVars, stopperVars>>

(* onExecute returns or throws *)
ExecuteEnd(w) ==
  /\ Alive /\ wpc[w] = "exec"
  /\ MoveTo(w, "finish")
  /\ UNCHANGED <<poolVars, stop, who, queueVars, wtask, clientVars, stopperVars, owed>>

(* runningQueue.remove and onFinish, in one locked block *)
RunFinish(w) ==
  LET t  == wtask[w]
      rq == RemoveOne(runningQueue, t)
  IN /\ Alive /\ LockFree /\ wpc[w] = "finish"
     /\ MoveTo(w, "unbind")
     /\ \/ /\ t \notin Periodic
           /\ runningQueue' = rq
           /\ UNCHANGED <<sf, live, pendingQueue, owed>>
        \/ /\ t \in Periodic /\ stop[t]
           /\ OnStop(t, rq)
           /\ UNCHANGED <<sf, live, owed>>
        \/ /\ t \in Periodic /\ ~stop[t]
           /\ Enqueue(t, rq)
     /\ UNCHANGED <<executor, stop, who, wtask, clientVars, stopperVars>>

(* The outer finally: who = null, whoever who is by now *)
RunUnbind(w) ==
  /\ Alive /\ wpc[w] = "unbind"
  /\ who' = [who EXCEPT ![wtask[w]] = NoWorker]
  /\ Release(w)
  /\ UNCHANGED <<poolVars, stop, queueVars, clientVars, stopperVars, owed>>

-----------------------------------------------------------------------------
(* stopAll                                                                 *)
(* Mutant: the flag is not set. *)
StopAllUnflagged ==
  /\ stopper = "off"
  /\ stopper' = "spawned"
  /\ UNCHANGED <<poolVars, stop, who, queueVars, workerVars, clientVars, isShutingdown, si, owed>>

StopAll ==
  /\ stopper = "off"
  /\ isShutingdown' = TRUE
  /\ stopper' = "spawned"
  /\ UNCHANGED <<poolVars, stop, who, queueVars, workerVars, clientVars, si, owed>>

(* stop(): an uninterruptable task that knows its thread keeps its entries *)
Stop(t) ==
  /\ stop' = [stop EXCEPT ![t] = TRUE]
  /\ IF who[t] # NoWorker /\ t \in Uninterruptable
       THEN UNCHANGED queueVars
       ELSE OnStop(t, runningQueue)

(* Mutant: the walk starts at size() instead of size() - 1. *)
StopperLockPast ==
  /\ \/ /\ stopper = "spawned"
        /\ stopper' = "pending" /\ si' = Len(pendingQueue) + 1
     \/ /\ stopper = "relock"
        /\ stopper' = "again" /\ si' = Len(runningQueue) + 1
  /\ UNCHANGED <<poolVars, stop, who, queueVars, workerVars, clientVars, isShutingdown, owed>>

StopperLock ==
  /\ \/ /\ stopper = "spawned"
        /\ stopper' = "pending" /\ si' = Len(pendingQueue)
     \/ /\ stopper = "relock"
        /\ stopper' = "again" /\ si' = Len(runningQueue)
  /\ UNCHANGED <<poolVars, stop, who, queueVars, workerVars, clientVars, isShutingdown, owed>>

StopPending ==
  /\ stopper = "pending"
  /\ \/ /\ si > 0
        /\ Stop(pendingQueue[si])
        /\ si' = si - 1
        /\ UNCHANGED stopper
     \/ /\ si = 0
        /\ stopper' = "running" /\ si' = Len(runningQueue)
        /\ UNCHANGED <<stop, queueVars>>
  /\ UNCHANGED <<poolVars, who, workerVars, clientVars, isShutingdown, owed>>

(* "running" is the second loop of the first locked block, "again" the loop *)
(* of the block that ends in lock.wait(1000).                               *)
StopRunning ==
  /\ stopper \in {"running", "again"}
  /\ \/ /\ si > 0
        /\ Stop(runningQueue[si])
        /\ si' = si - 1
        /\ UNCHANGED stopper
     \/ /\ si = 0
        /\ stopper' = "test" /\ si' = 0
        /\ UNCHANGED <<stop, queueVars>>
  /\ UNCHANGED <<poolVars, who, workerVars, clientVars, isShutingdown, owed>>

(* while (runningQueue.size() > 0), read without the lock; then System.exit *)
StopperTest ==
  /\ stopper = "test"
  /\ stopper' = IF Len(runningQueue) > 0 THEN "relock" ELSE "exited"
  /\ UNCHANGED <<poolVars, stop, who, queueVars, workerVars, clientVars, isShutingdown, si, owed>>

-----------------------------------------------------------------------------
RunStep(w) ==
  \/ RunDuplicate(w) \/ RunBegin(w) \/ RunCheck(w) \/ RunStopped(w)
  \/ RunBind(w) \/ ExecuteEnd(w) \/ RunFinish(w) \/ RunUnbind(w)

ClientStep(c) ==
  \/ \E t \in Tasks : ScheduleCall(c, t)
  \/ ScheduleLocked(c)
  \/ ScheduleStopped(c)

StopperStep == StopperLock \/ StopPending \/ StopRunning \/ StopperTest

Next ==
  \/ InitPool
  \/ \E c \in Clients : ClientStep(c)
  \/ \E w \in Workers : RunStep(w) \/ \E t \in Tasks : Take(w, t)
  \/ StopAll
  \/ StopperStep

Spec == Init /\ [][Next]_vars

(* Threads that can run are run.  Each round of stopAll ends in             *)
(* lock.wait(1000), which leaves the lock to those who wait for it: strong  *)
(* fairness of the locked steps.  The executor's queue is ordered by due    *)
(* time, so a queued future is overtaken only by futures due before it and  *)
(* gets a thread when threads keep becoming idle: strong fairness of Take.  *)
(* onExecute is assumed to end.                                             *)
Fairness ==
  /\ \A w \in Workers : SF_vars(RunStep(w))
  /\ \A t \in Tasks : SF_vars(\E w \in Workers : Take(w, t))
  /\ \A c \in Clients : SF_vars(ScheduleLocked(c) \/ ScheduleStopped(c))
  /\ WF_vars(StopperStep)

FairSpec == Spec /\ Fairness
-----------------------------------------------------------------------------
(* The pendingQueue entries q of a name, the queued futures of a name (the *)
(* k-th of task t is <<t, k>>), and the threads that have taken one and    *)
(* have not entered run()'s locked block.                                  *)
Entries(q, n) == {i \in DOMAIN q : NameOf[q[i]] = n}
Futures(l, n) == UNION {{t} \X (1..l[t]) : t \in {u \in Tasks : NameOf[u] = n}}
Entering(n)   == {w \in Workers : wpc[w] = "enter" /\ NameOf[wtask[w]] = n}

TypeOK ==
  /\ executor \in BOOLEAN /\ isShutingdown \in BOOLEAN
  /\ stop \in [Tasks -> BOOLEAN]
  /\ sf \in [Tasks -> {"null", "queued", "spent"}]
  /\ who \in [Tasks -> Workers \cup {NoWorker}]
  /\ live \in [Tasks -> Nat]
  /\ pendingQueue \in Seq(Tasks) /\ runningQueue \in Seq(Tasks)
  /\ wpc \in [Workers -> {"idle", "enter", "check", "stopping", "bind", "exec", "finish", "unbind"}]
  /\ wtask \in [Workers -> Tasks \cup {NoTask}]
  /\ \A w \in Workers : wpc[w] # "idle" => wtask[w] \in Tasks
  /\ cpc \in [Clients -> {"idle", "sched", "onstop"}]
  /\ ctask \in [Clients -> Tasks \cup {NoTask}]
  /\ \A c \in Clients : cpc[c] # "idle" => ctask[c] \in Tasks
  /\ stopper \in {"off", "spawned", "pending", "running", "test", "relock", "again", "exited"}
  /\ isShutingdown = (stopper # "off")
  /\ si \in Nat /\ calls \in Nat
  /\ owed \subseteq Names

(* Where run() holds, or is about to give up, its runningQueue entry       *)
BeforeExecute == {"check", "bind"}
Owning        == {"check", "stopping", "bind", "exec", "finish"}

(* Two threads never execute tasks of one name at the same time, although  *)
(* nothing keeps two futures of one name from firing together: the         *)
(* runningQueue test of run() (lines 193-197) drops the second.  stopAll   *)
(* removes entries of tasks that go on executing, so this ends with it.    *)
MutualExclusion ==
  ~isShutingdown =>
    \A v, w \in Workers :
      v # w /\ wpc[v] = "exec" /\ wpc[w] = "exec" => NameOf[wtask[v]] # NameOf[wtask[w]]

(* An accepted schedule is never lost: until an onExecute of that name     *)
(* starts, a future of the name is queued, or a thread is in run() for the *)
(* name and has not executed yet.  Dropped duplicates and cancelled        *)
(* futures must always leave another run behind.                           *)
Coming(n) == \/ \E t \in Tasks : NameOf[t] = n /\ live[t] > 0
             \/ \E w \in Workers : /\ wpc[w] \in {"enter"} \cup BeforeExecute
                                    /\ NameOf[wtask[w]] = n
NoLostSchedule == ~isShutingdown => \A n \in owed : Coming(n)

(* A runningQueue entry always belongs to a thread that is still going to  *)
(* remove it, also while stopAll removes entries by name: no name is left  *)
(* blocked (every later schedule "ignored") by an entry nobody owns, and   *)
(* the loop of stopAll does not wait for a task that has ended.            *)
RunningOwned ==
  \A i \in DOMAIN runningQueue :
    \E w \in Workers : wpc[w] \in Owning /\ wtask[w] = runningQueue[i]

(* stopAll finds scheduled tasks in pendingQueue only.  Entries are removed *)
(* by name, by whichever run comes first, and still there are never fewer  *)
(* entries of a name than futures of it that have not begun.               *)
PendingCoversFutures ==
  ~isShutingdown =>
    \A n \in Names :
      Cardinality(Entries(pendingQueue, n))
        >= Cardinality(Futures(live, n)) + Cardinality(Entering(n))

(* No two entries of a list have the same name. *)
UniqueIn(q) == \A i, k \in DOMAIN q : NameOf[q[i]] = NameOf[q[k]] => i = k

(* stopAll walks both lists backwards while stop() removes from both: the  *)
(* index stays inside the list (an IndexOutOfBoundsException would end the *)
(* process before the running tasks are stopped).                          *)
SweepInBounds ==
  /\ stopper = "pending" => si <= Len(pendingQueue)
  /\ stopper \in {"running", "again"} => si <= Len(runningQueue)

(* The end of a periodic task schedules it again before its name can be    *)
(* taken by anyone else: it is never refused as "running".                 *)
PeriodicGoesOn ==
  [][\A w \in Workers :
       wpc[w] = "finish" /\ wpc'[w] # "finish" /\ wtask[w] \in Periodic /\ ~isShutingdown
         => NameOf[wtask[w]] \in owed']_vars

(* An accepted schedule leads to an execution of that name, or to shutdown. *)
ScheduledRuns ==
  \A n \in Names : n \in owed ~> (n \notin owed \/ isShutingdown)

(* A periodic task without a stop flag that stopAll's first sweep missed:  *)
(* a schedule() was accepted after it, which isShutingdown does not refuse. *)
Escaped ==
  /\ stopper \in {"test", "relock", "again"}
  /\ \E t \in Periodic : ~stop[t] /\ (live[t] > 0 \/ \E w \in Workers : wtask[w] = t)

(* stopAll ends the process, whatever is scheduled meanwhile, unless for    *)
(* ever a periodic task lives that was scheduled after the sweep: stopAll   *)
(* looks for running tasks only, and may find it pending every time it has  *)
(* the lock.                                                                *)
ShutdownCompletes == isShutingdown ~> (stopper = "exited" \/ []Escaped)

(* What the class comment says of getName (lines 19-20): "only can be      *)
(* scheduled one time for same name, the later schedule will cancel the    *)
(* previous schedule if not running".                                      *)
OneSchedulePerName ==
  ~isShutingdown => \A n \in Names : Cardinality(Futures(live, n)) <= 1

(* By the names of its tasks, the scheduler does what Scheduler says: an    *)
(* execution begins alone of its name, and a schedule is accepted only when *)
(* a later execution will serve it, although schedule() and run() look at   *)
(* runningQueue only and not at what the threads do.                        *)
Running == {NameOf[wtask[w]] : w \in {u \in Workers : wpc[u] = "exec"}}
ByName  == INSTANCE Scheduler WITH running <- Running, down <- isShutingdown
Implements == ByName!Spec

-----------------------------------------------------------------------------
(* The inductive invariant: what the three lists of facts (the flags, the   *)
(* lists, the program counters) must say together for the properties above  *)
(* to survive every step.                                                   *)
NoStopYet ==
  ~isShutingdown =>
    /\ \A t \in Tasks : ~stop[t]
    /\ \A c \in Clients : cpc[c] # "onstop"
    /\ \A w \in Workers : wpc[w] # "stopping"
OwnersListed ==
  ~isShutingdown =>
    \A w \in Workers : wpc[w] \in Owning => Has(runningQueue, wtask[w])
OwnersDiffer ==
  ~isShutingdown =>
    \A v, w \in Workers :
      v # w /\ wpc[v] \in Owning /\ wpc[w] \in Owning => NameOf[wtask[v]] # NameOf[wtask[w]]
OwedNotExecuting ==
  ~isShutingdown =>
    \A w \in Workers : wpc[w] \in {"exec", "finish"} => NameOf[wtask[w]] \notin owed
FinitelyMany ==
  ~isShutingdown => \A n \in Names : IsFiniteSet(Futures(live, n)) /\ IsFiniteSet(Entering(n))
SfLive == \A t \in Tasks : sf[t] = "queued" => live[t] > 0

IInv ==
  /\ TypeOK /\ SweepInBounds
  /\ UniqueIn(runningQueue) /\ RunningOwned
  /\ NoStopYet /\ OwnersListed /\ OwnersDiffer
  /\ OwedNotExecuting /\ SfLive /\ NoLostSchedule
  /\ FinitelyMany /\ PendingCoversFutures
=============================================================================
