-------------------------- MODULE WorkerTaskProofs --------------------------
(* Proofs about WorkerTask, for any set of tasks, names, threads and calls. *)
EXTENDS WorkerTask, TLAPS, SequenceTheorems, FiniteSetTheorems, WellFoundedInduction

(* RemoveAt, as a function.                                                 *)
LEMMA RemoveAtShape ==
  ASSUME NEW S, NEW q \in Seq(S), NEW k \in 1..Len(q)
  PROVE  /\ RemoveAt(q, k) \in Seq(S)
         /\ Len(RemoveAt(q, k)) = Len(q) - 1
         /\ \A i \in 1..Len(q)-1 :
              RemoveAt(q, k)[i] = IF i < k THEN q[i] ELSE q[i+1]
<1> DEFINE a == SubSeq(q, 1, k-1)
           b == SubSeq(q, k+1, Len(q))
<1>0. Len(q) \in Nat /\ k \in Nat /\ k >= 1 /\ k <= Len(q)
  OBVIOUS
<1>1. /\ a \in Seq(S) /\ Len(a) = k-1
      /\ \A i \in 1..k-1 : a[i] = q[i]
  BY <1>0, SMTT(30)
<1>2. /\ b \in Seq(S) /\ Len(b) = Len(q) - k
      /\ \A i \in 1..Len(q)-k : b[i] = q[k+i]
  BY <1>0, SMTT(30)
<1>3. RemoveAt(q, k) = a \o b
  BY DEF RemoveAt
<1> HIDE DEF a, b
<1>4. /\ a \o b \in Seq(S) /\ Len(a \o b) = Len(a) + Len(b)
      /\ \A i \in 1..Len(a)+Len(b) :
           (a \o b)[i] = IF i <= Len(a) THEN a[i] ELSE b[i - Len(a)]
  BY <1>1, <1>2, ConcatProperties
<1> QED
  BY <1>0, <1>1, <1>2, <1>3, <1>4, SMTT(30)

(* ArrayList.remove(Object) finds the first equal entry, if there is one.   *)
LEMMA IndexFound ==
  ASSUME NEW q \in Seq(Tasks), NEW t \in Tasks, Has(q, t)
  PROVE  /\ IndexOf(q, t) \in 1..Len(q)
         /\ NameOf[q[IndexOf(q, t)]] = NameOf[t]
<1> DEFINE S == {i \in DOMAIN q : NameOf[q[i]] = NameOf[t]}
<1>1. S \in SUBSET Nat /\ S # {}
  BY DEF Has
<1> DEFINE R == OpToRel(<, Nat)
<1>2. \A i, k \in Nat : <<i, k>> \in R <=> i < k
  BY DEF OpToRel
<1>3. IsWellFoundedOn(R, Nat)
  BY NatLessThanWellFounded
<1> HIDE DEF R
<1>4. PICK m \in S : \A k \in S : <<k, m>> \notin R
  BY <1>1, <1>3, WFMin
<1>5. /\ m \in DOMAIN q /\ NameOf[q[m]] = NameOf[t]
      /\ \A j \in 1..m-1 : NameOf[q[j]] # NameOf[t]
  <2>1. m \in 1..Len(q) /\ NameOf[q[m]] = NameOf[t]
    OBVIOUS
  <2>2. ASSUME NEW j \in 1..m-1, NameOf[q[j]] = NameOf[t]
        PROVE  FALSE
    <3>1. j \in 1..Len(q) /\ j < m /\ j \in Nat /\ m \in Nat
      BY <2>1
    <3>2. j \in S
      BY <3>1, <2>2
    <3> QED
      BY <3>1, <3>2, <1>2, <1>4
  <2> QED
    BY <2>1, <2>2
<1> QED
  BY <1>5 DEF IndexOf

(* Removing t from a list leaves the entries of other names, adds nothing,  *)
(* and, when names are unique in the list, leaves none of t's name.         *)
LEMMA RemoveOneFacts ==
  ASSUME NEW q \in Seq(Tasks), NEW t \in Tasks
  PROVE  /\ RemoveOne(q, t) \in Seq(Tasks)
         /\ Len(q) - 1 <= Len(RemoveOne(q, t)) /\ Len(RemoveOne(q, t)) <= Len(q)
         /\ \A u \in Tasks :
              Has(q, u) /\ NameOf[u] # NameOf[t] => Has(RemoveOne(q, t), u)
         /\ \A i \in DOMAIN RemoveOne(q, t) :
              \E k \in DOMAIN q : RemoveOne(q, t)[i] = q[k]
         /\ UniqueIn(q) => UniqueIn(RemoveOne(q, t)) /\ ~Has(RemoveOne(q, t), t)
<1>1. CASE ~Has(q, t)
  BY <1>1 DEF RemoveOne
<1>2. CASE Has(q, t)
  <2> DEFINE k == IndexOf(q, t)
             r == RemoveAt(q, k)
  <2>1. k \in 1..Len(q) /\ NameOf[q[k]] = NameOf[t]
    BY <1>2, IndexFound
  <2> HIDE DEF k
  <2>2. /\ r \in Seq(Tasks) /\ Len(r) = Len(q) - 1
        /\ \A i \in 1..Len(q)-1 : r[i] = IF i < k THEN q[i] ELSE q[i+1]
    BY <2>1, RemoveAtShape
  <2> HIDE DEF r
  <2>3. RemoveOne(q, t) = r
    BY <1>2 DEF RemoveOne, r, k
  <2>4. \A i \in DOMAIN r : \E m \in DOMAIN q :
          r[i] = q[m] /\ m # k /\ m = IF i < k THEN i ELSE i+1
    BY <2>1, <2>2
  <2>5. ASSUME NEW u \in Tasks, Has(q, u), NameOf[u] # NameOf[t]
        PROVE  Has(r, u)
    <3>1. PICK m \in DOMAIN q : NameOf[q[m]] = NameOf[u]
      BY <2>5 DEF Has
    <3>2. m # k /\ m \in 1..Len(q)
      BY <3>1, <2>1, <2>5
    <3>3. CASE m < k
      BY <3>1, <3>2, <3>3, <2>1, <2>2 DEF Has
    <3>4. CASE m > k
      <4>1. m-1 \in DOMAIN r /\ r[m-1] = q[m]
        BY <3>2, <3>4, <2>1, <2>2
      <4> QED
        BY <4>1, <3>1 DEF Has
    <3> QED
      BY <3>2, <3>3, <3>4, <2>1
  <2>6. ASSUME UniqueIn(q) PROVE UniqueIn(r) /\ ~Has(r, t)
    BY <2>1, <2>2, <2>4, <2>6, SMTT(30) DEF UniqueIn, Has
  <2> QED
    BY <2>2, <2>3, <2>4, <2>5, <2>6
<1> QED
  BY <1>1, <1>2

(* Appending t adds its name and keeps everything else. *)
LEMMA AppendFacts ==
  ASSUME NEW q \in Seq(Tasks), NEW t \in Tasks
  PROVE  /\ Append(q, t) \in Seq(Tasks)
         /\ Has(Append(q, t), t)
         /\ \A u \in Tasks : Has(q, u) => Has(Append(q, t), u)
         /\ \A i \in DOMAIN Append(q, t) :
              Append(q, t)[i] = t \/ \E k \in DOMAIN q : Append(q, t)[i] = q[k]
         /\ UniqueIn(q) /\ ~Has(q, t) => UniqueIn(Append(q, t))
BY AppendProperties, SMTT(30) DEF Has, UniqueIn

USE DEF poolVars, queueVars, workerVars, clientVars, stopperVars, Owning, BeforeExecute,
        LockFree, MoveTo, Release

(* What OnStop and Enqueue do to the types, whatever list they start from.  *)
LEMMA OnStopType ==
  ASSUME pendingQueue \in Seq(Tasks), NEW t \in Tasks, NEW rq \in Seq(Tasks), OnStop(t, rq)
  PROVE  /\ pendingQueue' \in Seq(Tasks) /\ runningQueue' \in Seq(Tasks)
         /\ Len(pendingQueue) - 1 <= Len(pendingQueue') /\ Len(rq) - 1 <= Len(runningQueue')
BY RemoveOneFacts DEF OnStop

(* schedule() keeps the types of what it changes. *)
LEMMA EnqueueType ==
  ASSUME TypeOK, NEW t \in Tasks, NEW rq \in Seq(Tasks), Enqueue(t, rq)
  PROVE  /\ sf' \in [Tasks -> {"null", "queued", "spent"}]
         /\ live' \in [Tasks -> Nat]
         /\ pendingQueue' \in Seq(Tasks) /\ runningQueue' \in Seq(Tasks)
         /\ owed' \subseteq Names
<1>1. CASE Has(rq, t)
  BY <1>1 DEF Enqueue, TypeOK
<1>2. CASE ~Has(rq, t)
  <2>0. /\ runningQueue' = rq /\ pendingQueue' = Append(pendingQueue, t)
        /\ sf' = [sf EXCEPT ![t] = "queued"] /\ owed' = owed \cup {NameOf[t]}
    BY <1>2 DEF Enqueue
  <2>1. pendingQueue' \in Seq(Tasks) /\ runningQueue' \in Seq(Tasks)
    BY <2>0, AppendFacts DEF TypeOK
  <2>2. live[t] \in Nat /\ live[t] + 1 \in Nat
    BY DEF TypeOK
  <2>3. live' \in [Tasks -> Nat]
    BY <1>2, <2>2 DEF Enqueue, TypeOK
  <2>4. sf' \in [Tasks -> {"null", "queued", "spent"}] /\ owed' \subseteq Names
    BY <2>0 DEF TypeOK, Names
  <2> QED
    BY <2>1, <2>3, <2>4
<1> QED
  BY <1>1, <1>2

(* Every step keeps the types and the loop index of stopAll. *)
LEMMA TypeStep ==
  ASSUME TypeOK, SweepInBounds, Next
  PROVE  TypeOK' /\ SweepInBounds'
<1>1. CASE InitPool
  BY <1>1 DEF InitPool, TypeOK, SweepInBounds
<1>2. ASSUME NEW c \in Clients, NEW t \in Tasks, ScheduleCall(c, t)
      PROVE  TypeOK' /\ SweepInBounds'
  BY <1>2 DEF ScheduleCall, TypeOK, SweepInBounds
<1>3. ASSUME NEW c \in Clients, ScheduleLocked(c)
      PROVE  TypeOK' /\ SweepInBounds'
  BY <1>3, EnqueueType DEF ScheduleLocked, TypeOK, SweepInBounds
<1>4. ASSUME NEW c \in Clients, ScheduleStopped(c)
      PROVE  TypeOK' /\ SweepInBounds'
  BY <1>4, OnStopType DEF ScheduleStopped, TypeOK, SweepInBounds
<1>5. ASSUME NEW w \in Workers, NEW t \in Tasks, Take(w, t)
      PROVE  TypeOK' /\ SweepInBounds'
  <2>1. live[t] \in Nat /\ live[t] - 1 \in Nat
    BY <1>5 DEF Take, TypeOK
  <2>2. live' \in [Tasks -> Nat]
    BY <1>5, <2>1 DEF Take, TypeOK
  <2>3. sf' \in [Tasks -> {"null", "queued", "spent"}]
    BY <1>5 DEF Take, TypeOK
  <2> QED
    BY <1>5, <2>2, <2>3 DEF Take, TypeOK, SweepInBounds
<1>6. ASSUME NEW w \in Workers, RunDuplicate(w)
      PROVE  TypeOK' /\ SweepInBounds'
  BY <1>6, RemoveOneFacts DEF RunDuplicate, TypeOK, SweepInBounds
<1>7. ASSUME NEW w \in Workers, RunBegin(w)
      PROVE  TypeOK' /\ SweepInBounds'
  BY <1>7, RemoveOneFacts, AppendFacts DEF RunBegin, TypeOK, SweepInBounds
<1>8. ASSUME NEW w \in Workers, RunCheck(w)
      PROVE  TypeOK' /\ SweepInBounds'
  BY <1>8 DEF RunCheck, TypeOK, SweepInBounds
<1>9. ASSUME NEW w \in Workers, RunStopped(w)
      PROVE  TypeOK' /\ SweepInBounds'
  BY <1>9, OnStopType DEF RunStopped, TypeOK, SweepInBounds
<1>10. ASSUME NEW w \in Workers, RunBind(w)
       PROVE  TypeOK' /\ SweepInBounds'
  BY <1>10 DEF RunBind, TypeOK, SweepInBounds
<1>11. ASSUME NEW w \in Workers, ExecuteEnd(w)
       PROVE  TypeOK' /\ SweepInBounds'
  BY <1>11 DEF ExecuteEnd, TypeOK, SweepInBounds
<1>12. ASSUME NEW w \in Workers, RunFinish(w)
       PROVE  TypeOK' /\ SweepInBounds'
  <2> DEFINE t == wtask[w]
             rq == RemoveOne(runningQueue, t)
  <2>1. t \in Tasks /\ rq \in Seq(Tasks)
    BY <1>12, RemoveOneFacts DEF RunFinish, TypeOK
  <2>2. /\ sf' \in [Tasks -> {"null", "queued", "spent"}]
        /\ live' \in [Tasks -> Nat]
        /\ pendingQueue' \in Seq(Tasks) /\ runningQueue' \in Seq(Tasks)
        /\ owed' \subseteq Names
    <3> HIDE DEF t, rq
    <3>1. CASE OnStop(t, rq) /\ UNCHANGED <<sf, live, owed>>
      BY <2>1, <3>1, OnStopType DEF TypeOK
    <3>2. CASE Enqueue(t, rq)
      BY <2>1, <3>2, EnqueueType
    <3>3. CASE runningQueue' = rq /\ UNCHANGED <<sf, live, pendingQueue, owed>>
      BY <2>1, <3>3 DEF TypeOK
    <3> QED
      BY <1>12, <3>1, <3>2, <3>3 DEF RunFinish, t, rq
  <2> QED
    BY <1>12, <2>2 DEF RunFinish, TypeOK, SweepInBounds
<1>13. ASSUME NEW w \in Workers, RunUnbind(w)
       PROVE  TypeOK' /\ SweepInBounds'
  BY <1>13 DEF RunUnbind, TypeOK, SweepInBounds
<1>14. CASE StopAll
  BY <1>14 DEF StopAll, TypeOK, SweepInBounds
<1>15. CASE StopperLock
  BY <1>15 DEF StopperLock, TypeOK, SweepInBounds
<1>16. CASE StopPending
  <2>1. CASE si > 0
    <3>1. si \in 1..Len(pendingQueue) /\ pendingQueue[si] \in Tasks
      BY <1>16, <2>1, ElementOfSeq DEF StopPending, TypeOK, SweepInBounds
    <3>2. /\ pendingQueue' \in Seq(Tasks) /\ runningQueue' \in Seq(Tasks)
          /\ Len(pendingQueue) - 1 <= Len(pendingQueue')
      <4>1. CASE UNCHANGED queueVars
        BY <4>1 DEF TypeOK
      <4>2. CASE OnStop(pendingQueue[si], runningQueue)
        BY <3>1, <4>2, OnStopType DEF TypeOK
      <4> QED
        BY <1>16, <2>1, <4>1, <4>2 DEF StopPending, Stop
    <3>3. Len(pendingQueue) \in Nat /\ Len(pendingQueue') \in Nat
      BY <3>2 DEF TypeOK
    <3>4. stop' \in [Tasks -> BOOLEAN] /\ si' \in Nat /\ si' = si - 1 /\ stopper' = stopper
      <4>1. Stop(pendingQueue[si]) /\ si' = si - 1 /\ stopper' = stopper
        BY <1>16, <2>1, <3>1 DEF StopPending
      <4>2. stop' = [stop EXCEPT ![pendingQueue[si]] = TRUE]
        BY <4>1 DEF Stop
      <4> QED
        BY <2>1, <3>1, <4>1, <4>2 DEF TypeOK
    <3>5. TypeOK'
      BY <1>16, <3>2, <3>4 DEF StopPending, TypeOK
    <3>6. SweepInBounds'
      BY <1>16, <2>1, <3>1, <3>2, <3>3, <3>4 DEF StopPending, SweepInBounds
    <3> QED
      BY <3>5, <3>6
  <2>2. CASE ~(si > 0)
    BY <1>16, <2>2 DEF StopPending, TypeOK, SweepInBounds
  <2> QED
    BY <2>1, <2>2
<1>17. CASE StopRunning
  <2>1. CASE si > 0
    <3>1. si \in 1..Len(runningQueue) /\ runningQueue[si] \in Tasks
      BY <1>17, <2>1, ElementOfSeq DEF StopRunning, TypeOK, SweepInBounds
    <3>2. /\ pendingQueue' \in Seq(Tasks) /\ runningQueue' \in Seq(Tasks)
          /\ Len(runningQueue) - 1 <= Len(runningQueue')
      <4>1. CASE UNCHANGED queueVars
        BY <4>1 DEF TypeOK
      <4>2. CASE OnStop(runningQueue[si], runningQueue)
        BY <3>1, <4>2, OnStopType DEF TypeOK
      <4> QED
        BY <1>17, <2>1, <4>1, <4>2 DEF StopRunning, Stop
    <3>3. Len(runningQueue) \in Nat /\ Len(runningQueue') \in Nat
      BY <3>2 DEF TypeOK
    <3>4. stop' \in [Tasks -> BOOLEAN] /\ si' \in Nat /\ si' = si - 1 /\ stopper' = stopper
      <4>1. Stop(runningQueue[si]) /\ si' = si - 1 /\ stopper' = stopper
        BY <1>17, <2>1, <3>1 DEF StopRunning
      <4>2. stop' = [stop EXCEPT ![runningQueue[si]] = TRUE]
        BY <4>1 DEF Stop
      <4> QED
        BY <2>1, <3>1, <4>1, <4>2 DEF TypeOK
    <3>5. TypeOK'
      BY <1>17, <3>2, <3>4 DEF StopRunning, TypeOK
    <3>6. SweepInBounds'
      BY <1>17, <2>1, <3>1, <3>2, <3>3, <3>4 DEF StopRunning, SweepInBounds
    <3> QED
      BY <3>5, <3>6
  <2>2. CASE ~(si > 0)
    BY <1>17, <2>2 DEF StopRunning, TypeOK, SweepInBounds
  <2> QED
    BY <2>1, <2>2
<1>18. CASE StopperTest
  BY <1>18 DEF StopperTest, TypeOK, SweepInBounds
<1> QED
  BY <1>1, <1>2, <1>3, <1>4, <1>5, <1>6, <1>7, <1>8, <1>9, <1>10, <1>11, <1>12, <1>13,
     <1>14, <1>15, <1>16, <1>17, <1>18 DEF Next, ClientStep, RunStep, StopperStep

-----------------------------------------------------------------------------
(* The entries of runningQueue and the threads that own them.               *)

(* No new entry, and the threads stay where they own their entry or the     *)
(* entry is gone: every entry keeps an owner.                               *)
LEMMA OwnedKept ==
  ASSUME RunningOwned,
         \A i \in DOMAIN runningQueue' : \E k \in DOMAIN runningQueue :
             runningQueue'[i] = runningQueue[k],
         \A w \in Workers : wpc[w] \in Owning =>
             \/ wpc'[w] \in Owning /\ wtask'[w] = wtask[w]
             \/ ~Has(runningQueue', wtask[w])
  PROVE  RunningOwned'
<1> SUFFICES ASSUME NEW i \in DOMAIN runningQueue'
             PROVE  \E w \in Workers : wpc'[w] \in Owning /\ wtask'[w] = runningQueue'[i]
  BY DEF RunningOwned
<1>1. PICK k \in DOMAIN runningQueue : runningQueue'[i] = runningQueue[k]
  OBVIOUS
<1>2. PICK w \in Workers : wpc[w] \in Owning /\ wtask[w] = runningQueue[k]
  BY DEF RunningOwned
<1>3. Has(runningQueue', wtask[w])
  BY <1>1, <1>2 DEF Has
<1> QED
  BY <1>1, <1>2, <1>3

(* What onStop leaves of the two lists. *)
LEMMA OnStopLists ==
  ASSUME NEW t \in Tasks, NEW rq \in Seq(Tasks), UniqueIn(rq), OnStop(t, rq)
  PROVE  /\ UniqueIn(runningQueue') /\ ~Has(runningQueue', t)
         /\ \A i \in DOMAIN runningQueue' : \E k \in DOMAIN rq : runningQueue'[i] = rq[k]
BY RemoveOneFacts DEF OnStop

(* Entries of runningQueue differ by name, and each has its owner. *)
LEMMA ListStep ==
  ASSUME TypeOK, SweepInBounds, UniqueIn(runningQueue), RunningOwned, Next
  PROVE  UniqueIn(runningQueue)' /\ RunningOwned'
<1> DEFINE Goal == UniqueIn(runningQueue') /\ RunningOwned'
<1> SUFFICES Goal
  BY DEF UniqueIn
<1>1. ASSUME UNCHANGED runningQueue,
             \A w \in Workers : wpc[w] \in Owning => wpc'[w] \in Owning /\ wtask'[w] = wtask[w]
      PROVE  Goal
  BY <1>1, OwnedKept DEF UniqueIn
<1>2. ASSUME NEW t \in Tasks, OnStop(t, runningQueue), UNCHANGED workerVars
      PROVE  Goal
  <2>1. runningQueue \in Seq(Tasks)
    BY DEF TypeOK
  <2> QED
    BY <1>2, <2>1, OnStopLists, OwnedKept
<1>3. CASE InitPool \/ StopAll \/ StopperLock \/ StopperTest
  BY <1>1, <1>3 DEF InitPool, StopAll, StopperLock, StopperTest
<1>4. ASSUME NEW c \in Clients, NEW t \in Tasks, ScheduleCall(c, t)
      PROVE  Goal
  BY <1>1, <1>4 DEF ScheduleCall
<1>5. ASSUME NEW c \in Clients, ScheduleLocked(c)
      PROVE  Goal
  BY <1>1, <1>5 DEF ScheduleLocked, Enqueue
<1>6. ASSUME NEW c \in Clients, ScheduleStopped(c)
      PROVE  Goal
  <2>1. ctask[c] \in Tasks
    BY <1>6 DEF ScheduleStopped, TypeOK
  <2> QED
    BY <1>2, <1>6, <2>1 DEF ScheduleStopped
<1>7. ASSUME NEW w \in Workers, NEW t \in Tasks, Take(w, t)
      PROVE  Goal
  BY <1>1, <1>7 DEF Take, TypeOK
<1>8. ASSUME NEW w \in Workers, RunDuplicate(w) \/ RunCheck(w) \/ RunBind(w) \/ ExecuteEnd(w) \/ RunUnbind(w)
      PROVE  Goal
  BY <1>1, <1>8 DEF RunDuplicate, RunCheck, RunBind, ExecuteEnd, RunUnbind, TypeOK
<1>9. ASSUME NEW w \in Workers, RunBegin(w)
      PROVE  Goal
  <2>1. wtask[w] \in Tasks /\ runningQueue \in Seq(Tasks)
    BY <1>9 DEF RunBegin, TypeOK
  <2>2. UniqueIn(runningQueue')
    BY <1>9, <2>1, AppendFacts DEF RunBegin
  <2>3. wpc' = [wpc EXCEPT ![w] = "check"] /\ wtask' = wtask /\ wpc[w] = "enter"
    BY <1>9 DEF RunBegin
  <2>4. ASSUME NEW i \in DOMAIN runningQueue'
        PROVE  \E v \in Workers : wpc'[v] \in Owning /\ wtask'[v] = runningQueue'[i]
    <3>1. CASE runningQueue'[i] = wtask[w]
      BY <2>3, <3>1 DEF TypeOK
    <3>2. ASSUME NEW k \in DOMAIN runningQueue, runningQueue'[i] = runningQueue[k]
          PROVE  \E v \in Workers : wpc'[v] \in Owning /\ wtask'[v] = runningQueue'[i]
      <4>1. PICK v \in Workers : wpc[v] \in Owning /\ wtask[v] = runningQueue[k]
        BY DEF RunningOwned
      <4> QED
        BY <2>3, <3>2, <4>1 DEF TypeOK
    <3> QED
      BY <1>9, <2>1, <3>1, <3>2, AppendFacts DEF RunBegin
  <2> QED
    BY <2>2, <2>4 DEF RunningOwned
<1>10. ASSUME NEW w \in Workers, RunStopped(w) \/ RunFinish(w)
       PROVE  Goal
  <2> DEFINE t  == wtask[w]
             rq == RemoveOne(runningQueue, t)
  <2>1. t \in Tasks /\ runningQueue \in Seq(Tasks)
    BY <1>10 DEF RunStopped, RunFinish, TypeOK
  <2>2. /\ rq \in Seq(Tasks) /\ UniqueIn(rq) /\ ~Has(rq, t)
        /\ \A i \in DOMAIN rq : \E k \in DOMAIN runningQueue : rq[i] = runningQueue[k]
    BY <2>1, RemoveOneFacts
  <2> HIDE DEF t, rq
  <2>3. runningQueue' = rq \/ OnStop(t, rq)
    BY <1>10 DEF RunStopped, RunFinish, OnStop, Enqueue, t, rq
  <2>4. /\ UniqueIn(runningQueue') /\ ~Has(runningQueue', t)
        /\ \A i \in DOMAIN runningQueue' : \E k \in DOMAIN rq : runningQueue'[i] = rq[k]
    BY <2>1, <2>2, <2>3, OnStopLists
  <2>5. \A v \in Workers : v # w => wpc'[v] = wpc[v] /\ wtask'[v] = wtask[v]
    BY <1>10 DEF RunStopped, RunFinish, TypeOK
  <2>6. RunningOwned'
    BY <2>2, <2>4, <2>5, OwnedKept DEF t
  <2> QED
    BY <2>4, <2>6
<1>11. CASE StopPending
  <2>1. CASE si > 0
    <3>1. pendingQueue[si] \in Tasks
      BY <1>11, <2>1, ElementOfSeq DEF StopPending, TypeOK, SweepInBounds
    <3> QED
      BY <1>1, <1>2, <1>11, <2>1, <3>1 DEF StopPending, Stop
  <2>2. CASE ~(si > 0)
    BY <1>1, <1>11, <2>2 DEF StopPending
  <2> QED
    BY <2>1, <2>2
<1>12. CASE StopRunning
  <2>1. CASE si > 0
    <3>1. runningQueue[si] \in Tasks
      BY <1>12, <2>1, ElementOfSeq DEF StopRunning, TypeOK, SweepInBounds
    <3> QED
      BY <1>1, <1>2, <1>12, <2>1, <3>1 DEF StopRunning, Stop
  <2>2. CASE ~(si > 0)
    BY <1>1, <1>12, <2>2 DEF StopRunning
  <2> QED
    BY <2>1, <2>2
<1> HIDE DEF Goal
<1> QED
  BY <1>3, <1>4, <1>5, <1>6, <1>7, <1>8, <1>9, <1>10, <1>11, <1>12
     DEF Next, ClientStep, RunStep, StopperStep

-----------------------------------------------------------------------------
(* Until stopAll is called: every thread between run()'s first locked block *)
(* and its second has its name in runningQueue, and has it for itself.      *)
OwnInv == NoStopYet /\ OwnersListed /\ OwnersDiffer

(* Nothing changes but which of the owning states a thread is in, or it     *)
(* stops being an owner.                                                    *)
LEMMA OwnKept ==
  ASSUME OwnersListed, OwnersDiffer, isShutingdown' = isShutingdown,
         \A u \in Tasks : Has(runningQueue, u) => Has(runningQueue', u),
         \A w \in Workers : wpc'[w] \in Owning =>
           wpc[w] \in Owning /\ wtask'[w] = wtask[w] /\ wtask[w] \in Tasks
  PROVE  OwnersListed' /\ OwnersDiffer'
<1>1. OwnersListed'
  BY DEF OwnersListed, Has
<1>2. OwnersDiffer'
  BY DEF OwnersDiffer
<1> QED
  BY <1>1, <1>2

(* Before a shutdown a thread past the first locked block has its entry. *)
LEMMA OwnStep ==
  ASSUME TypeOK, UniqueIn(runningQueue), OwnInv, Next
  PROVE  OwnInv'
<1> SUFFICES ASSUME ~isShutingdown' PROVE OwnInv'
  BY DEF OwnInv, NoStopYet, OwnersListed, OwnersDiffer
<1>0. ~isShutingdown /\ stopper = "off"
  BY DEF TypeOK, Next, ClientStep, RunStep, StopperStep, InitPool, ScheduleCall, ScheduleLocked,
         ScheduleStopped, Take, RunDuplicate, RunBegin, RunCheck, RunStopped, RunBind, ExecuteEnd,
         RunFinish, RunUnbind, StopAll, StopperLock, StopPending, StopRunning, StopperTest
<1>1. CASE InitPool
  BY <1>1, OwnKept DEF InitPool, OwnInv, NoStopYet, TypeOK
<1>2. ASSUME NEW c \in Clients, NEW t \in Tasks, ScheduleCall(c, t)
      PROVE  OwnInv'
  BY <1>0, <1>2, OwnKept DEF ScheduleCall, OwnInv, NoStopYet, TypeOK
<1>3. ASSUME NEW c \in Clients, ScheduleLocked(c)
      PROVE  OwnInv'
  BY <1>0, <1>3, OwnKept DEF ScheduleLocked, Enqueue, OwnInv, NoStopYet, TypeOK
<1>4. ASSUME NEW c \in Clients, ScheduleStopped(c)
      PROVE  OwnInv'
  BY <1>0, <1>4 DEF ScheduleStopped, OwnInv, NoStopYet
<1>5. ASSUME NEW w \in Workers, NEW t \in Tasks, Take(w, t)
      PROVE  OwnInv'
  BY <1>0, <1>5, OwnKept DEF Take, OwnInv, NoStopYet, TypeOK
<1>6. ASSUME NEW w \in Workers, RunDuplicate(w) \/ RunCheck(w) \/ RunBind(w) \/ ExecuteEnd(w) \/ RunUnbind(w)
      PROVE  OwnInv'
  BY <1>0, <1>6, OwnKept DEF RunDuplicate, RunCheck, RunBind, ExecuteEnd, RunUnbind, OwnInv, NoStopYet, TypeOK
<1>7. ASSUME NEW w \in Workers, RunBegin(w)
      PROVE  OwnInv'
  <2>1. /\ wtask[w] \in Tasks /\ runningQueue \in Seq(Tasks)
        /\ wpc' = [wpc EXCEPT ![w] = "check"] /\ wtask' = wtask
        /\ runningQueue' = Append(runningQueue, wtask[w]) /\ ~Has(runningQueue, wtask[w])
    BY <1>7 DEF RunBegin, TypeOK
  <2>2. /\ Has(runningQueue', wtask[w])
        /\ \A u \in Tasks : Has(runningQueue, u) => Has(runningQueue', u)
    BY <2>1, AppendFacts
  <2>3. \A v \in Workers : v # w /\ wpc'[v] \in Owning =>
          /\ wpc[v] \in Owning /\ wtask[v] \in Tasks
          /\ Has(runningQueue, wtask[v])
    BY <1>0, <2>1 DEF OwnInv, OwnersListed, TypeOK
  <2>4. OwnersListed'
    BY <2>1, <2>2, <2>3 DEF OwnersListed, Has
  <2>5. \A v \in Workers : v # w /\ wpc'[v] \in Owning => NameOf[wtask[v]] # NameOf[wtask[w]]
    BY <2>1, <2>3 DEF Has
  <2>6. OwnersDiffer'
    BY <1>0, <2>1, <2>3, <2>5 DEF OwnInv, OwnersDiffer
  <2>7. NoStopYet'
    BY <1>0, <1>7 DEF RunBegin, OwnInv, NoStopYet, TypeOK
  <2> QED
    BY <2>4, <2>6, <2>7 DEF OwnInv
<1>8. ASSUME NEW w \in Workers, RunStopped(w)
      PROVE  OwnInv'
  BY <1>0, <1>8 DEF RunStopped, OwnInv, NoStopYet
<1>9. ASSUME NEW w \in Workers, RunFinish(w)
      PROVE  OwnInv'
  <2> DEFINE t  == wtask[w]
             rq == RemoveOne(runningQueue, t)
  <2>1. t \in Tasks /\ runningQueue \in Seq(Tasks) /\ ~stop[t] /\ wpc[w] = "finish"
    BY <1>0, <1>9 DEF RunFinish, TypeOK, OwnInv, NoStopYet
  <2>2. runningQueue' = rq /\ wpc' = [wpc EXCEPT ![w] = "unbind"] /\ wtask' = wtask /\ stop' = stop /\ cpc' = cpc
    BY <1>9, <2>1 DEF RunFinish, Enqueue
  <2>3. \A u \in Tasks : Has(runningQueue, u) /\ NameOf[u] # NameOf[t] => Has(rq, u)
    BY <2>1, RemoveOneFacts
  <2> HIDE DEF t, rq
  <2>4. \A v \in Workers : wpc'[v] \in Owning =>
          v # w /\ wpc[v] \in Owning /\ wtask[v] \in Tasks
    BY <2>1, <2>2 DEF TypeOK
  <2>5. \A v \in Workers : wpc'[v] \in Owning => NameOf[wtask[v]] # NameOf[t]
    BY <1>0, <2>1, <2>4 DEF OwnInv, OwnersDiffer, t
  <2>6. OwnersListed'
    BY <1>0, <2>2, <2>3, <2>4, <2>5 DEF OwnInv, OwnersListed, Has
  <2>7. OwnersDiffer' /\ NoStopYet'
    BY <1>0, <2>1, <2>2, <2>4 DEF OwnInv, OwnersDiffer, NoStopYet, TypeOK
  <2> QED
    BY <2>6, <2>7 DEF OwnInv
<1>10. ~(StopAll \/ StopperStep)
  BY <1>0 DEF StopAll, StopperStep, StopperLock, StopPending, StopRunning, StopperTest
<1> QED
  BY <1>1, <1>2, <1>3, <1>4, <1>5, <1>6, <1>7, <1>8, <1>9, <1>10 DEF Next, ClientStep, RunStep

-----------------------------------------------------------------------------
(* Until stopAll is called: who owes an execution of a name, and what will  *)
(* pay for it.                                                              *)
OwedInv == OwedNotExecuting /\ SfLive /\ NoLostSchedule

(* What a locked schedule() leaves behind, whether accepted or ignored.     *)
LEMMA EnqueueOwes ==
  ASSUME TypeOK, SfLive, NEW t \in Tasks, NEW rq, Enqueue(t, rq)
  PROVE  /\ SfLive'
         /\ \A u \in Tasks : live[u] > 0 => live'[u] > 0
         /\ \/ owed' = owed
            \/ ~Has(rq, t) /\ owed' = owed \cup {NameOf[t]} /\ live'[t] > 0
<1>1. CASE Has(rq, t)
  BY <1>1 DEF Enqueue, SfLive
<1>2. CASE ~Has(rq, t)
  <2>1. /\ sf' = [sf EXCEPT ![t] = "queued"] /\ owed' = owed \cup {NameOf[t]}
        /\ live' = [live EXCEPT ![t] =
                      IF Has(pendingQueue, t) /\ sf[t] = "queued" THEN @ ELSE @ + 1]
    BY <1>2 DEF Enqueue
  <2>2. live'[t] > 0 /\ \A u \in Tasks : u # t => live'[u] = live[u]
    BY <2>1 DEF TypeOK, SfLive
  <2>3. SfLive'
    BY <2>1, <2>2 DEF SfLive, TypeOK
  <2> QED
    BY <1>2, <2>1, <2>2, <2>3
<1> QED
  BY <1>1, <1>2

(* No debt is added, no thread starts to execute, and what was coming is    *)
(* still coming.                                                            *)
LEMMA OwedKept ==
  ASSUME OwedInv, isShutingdown' = isShutingdown, owed' \subseteq owed,
         \A t \in Tasks : live[t] > 0 => live'[t] > 0,
         \A w \in Workers :
           wpc[w] \in {"enter"} \cup BeforeExecute =>
             wpc'[w] \in {"enter"} \cup BeforeExecute /\ wtask'[w] = wtask[w],
         \A w \in Workers :
           wpc'[w] \in {"exec", "finish"} =>
             wpc[w] \in {"exec", "finish"} /\ wtask'[w] = wtask[w]
  PROVE  OwedNotExecuting' /\ NoLostSchedule'
<1>1. OwedNotExecuting'
  BY DEF OwedInv, OwedNotExecuting
<1>2. ASSUME NEW n, Coming(n) PROVE Coming(n)'
  BY <1>2 DEF Coming
<1>3. NoLostSchedule'
  BY <1>2 DEF OwedInv, NoLostSchedule
<1> QED
  BY <1>1, <1>3

(* No accepted schedule is lost by a step. *)
LEMMA OwedStep ==
  ASSUME TypeOK, UniqueIn(runningQueue), RunningOwned, OwnInv, OwedInv, Next
  PROVE  OwedInv'
<1>0. SfLive'
  <2>1. ASSUME UNCHANGED <<sf, live>> PROVE SfLive'
    BY <2>1 DEF OwedInv, SfLive
  <2>2. ASSUME NEW w \in Workers, NEW t \in Tasks, Take(w, t) PROVE SfLive'
    BY <2>2 DEF Take, OwedInv, SfLive, TypeOK
  <2>3. ASSUME NEW w \in Workers, RunBegin(w) PROVE SfLive'
    BY <2>3 DEF RunBegin, OwedInv, SfLive, TypeOK
  <2>4. ASSUME NEW w \in Workers, RunFinish(w) PROVE SfLive'
    BY <2>1, <2>4, EnqueueOwes DEF RunFinish, OwedInv, TypeOK
  <2>5. ASSUME NEW c \in Clients, ScheduleLocked(c) PROVE SfLive'
    BY <2>5, EnqueueOwes DEF ScheduleLocked, OwedInv, TypeOK
  <2>6. ASSUME NEW c \in Clients, \E t \in Tasks : ScheduleCall(c, t) PROVE SfLive'
    BY <2>1, <2>6 DEF ScheduleCall
  <2>7. ASSUME NEW c \in Clients, ScheduleStopped(c) PROVE SfLive'
    BY <2>1, <2>7 DEF ScheduleStopped
  <2>8. ASSUME NEW w \in Workers,
               RunDuplicate(w) \/ RunCheck(w) \/ RunStopped(w) \/ RunBind(w) \/ ExecuteEnd(w) \/ RunUnbind(w)
        PROVE  SfLive'
    BY <2>1, <2>8 DEF RunDuplicate, RunCheck, RunStopped, RunBind, ExecuteEnd, RunUnbind
  <2>9. CASE InitPool \/ StopAll \/ StopperStep
    BY <2>1, <2>9 DEF InitPool, StopAll, StopperStep, StopperLock, StopPending, StopRunning, StopperTest
  <2> QED
    BY <2>2, <2>3, <2>4, <2>5, <2>6, <2>7, <2>8, <2>9 DEF Next, ClientStep, RunStep
<1> DEFINE Goal == OwedNotExecuting' /\ NoLostSchedule'
<1> SUFFICES ASSUME ~isShutingdown' PROVE Goal
  BY <1>0 DEF OwedInv, OwedNotExecuting, NoLostSchedule
<1>1. ~isShutingdown /\ stopper = "off"
  BY DEF TypeOK, Next, ClientStep, RunStep, StopperStep, InitPool, ScheduleCall, ScheduleLocked,
         ScheduleStopped, Take, RunDuplicate, RunBegin, RunCheck, RunStopped, RunBind, ExecuteEnd,
         RunFinish, RunUnbind, StopAll, StopperLock, StopPending, StopRunning, StopperTest
<1>2. CASE InitPool
  BY <1>2, OwedKept DEF InitPool
<1>3. ASSUME NEW c \in Clients, NEW t \in Tasks, ScheduleCall(c, t)
      PROVE  Goal
  BY <1>3, OwedKept DEF ScheduleCall
<1>4. ASSUME NEW c \in Clients, ScheduleStopped(c)
      PROVE  Goal
  BY <1>4, OwedKept DEF ScheduleStopped
<1>5. ASSUME NEW w \in Workers, RunCheck(w) \/ ExecuteEnd(w) \/ RunUnbind(w)
      PROVE  Goal
  BY <1>1, <1>5, OwedKept DEF RunCheck, ExecuteEnd, RunUnbind, TypeOK, OwnInv, NoStopYet
<1>6. ASSUME NEW t \in Tasks, NEW rq, Enqueue(t, rq), isShutingdown' = isShutingdown,
             \A w \in Workers : wpc[w] \in {"exec", "finish"} /\ NameOf[wtask[w]] = NameOf[t] =>
               Has(rq, t) \/ wpc'[w] \notin {"exec", "finish"},
             wtask' = wtask,
             \A w \in Workers : wpc'[w] = wpc[w] \/ (wpc[w] = "finish" /\ wpc'[w] = "unbind")
      PROVE  Goal
  <2>1. /\ \A u \in Tasks : live[u] > 0 => live'[u] > 0
        /\ \/ owed' = owed
           \/ ~Has(rq, t) /\ owed' = owed \cup {NameOf[t]} /\ live'[t] > 0
    BY <1>6, EnqueueOwes DEF OwedInv
  <2>2. CASE owed' = owed
    BY <1>6, <2>1, <2>2, OwedKept
  <2>3. CASE ~Has(rq, t) /\ owed' = owed \cup {NameOf[t]} /\ live'[t] > 0
    <3>1. ASSUME NEW n \in owed' PROVE Coming(n)'
      BY <1>1, <1>6, <2>1, <2>3, <3>1 DEF OwedInv, NoLostSchedule, Coming
    <3>2. OwedNotExecuting'
      BY <1>1, <1>6, <2>3 DEF OwedInv, OwedNotExecuting
    <3> QED
      BY <3>1, <3>2 DEF NoLostSchedule
  <2> QED
    BY <2>1, <2>2, <2>3
<1>7. ASSUME NEW c \in Clients, ScheduleLocked(c)
      PROVE  Goal
  <2>1. ctask[c] \in Tasks /\ Enqueue(ctask[c], runningQueue) /\ UNCHANGED <<wpc, wtask, isShutingdown>>
    BY <1>7 DEF ScheduleLocked, TypeOK
  <2>2. \A w \in Workers : wpc[w] \in {"exec", "finish"} => Has(runningQueue, wtask[w])
    BY <1>1 DEF OwnInv, OwnersListed
  <2>3. \A w \in Workers : wpc[w] \in {"exec", "finish"} /\ NameOf[wtask[w]] = NameOf[ctask[c]]
          => Has(runningQueue, ctask[c])
    BY <2>2 DEF Has
  <2> QED
    BY <1>6, <2>1, <2>3
<1>8. ASSUME NEW w \in Workers, RunFinish(w)
      PROVE  Goal
  <2> DEFINE t == wtask[w]
             rq == RemoveOne(runningQueue, t)
  <2>1. /\ t \in Tasks /\ ~stop[t] /\ wpc[w] = "finish" /\ wpc' = [wpc EXCEPT ![w] = "unbind"]
        /\ UNCHANGED <<wtask, isShutingdown>>
    BY <1>1, <1>8 DEF RunFinish, TypeOK, OwnInv, NoStopYet
  <2>2. CASE Enqueue(t, rq)
    <3>1. \A v \in Workers : wpc[v] \in {"exec", "finish"} /\ NameOf[wtask[v]] = NameOf[t] =>
            wpc'[v] \notin {"exec", "finish"}
      BY <1>1, <2>1 DEF OwnInv, OwnersDiffer, TypeOK
    <3>2. \A v \in Workers : wpc'[v] = wpc[v] \/ (wpc[v] = "finish" /\ wpc'[v] = "unbind")
      BY <2>1 DEF TypeOK
    <3> QED
      BY <1>6, <2>1, <2>2, <3>1, <3>2
  <2>3. CASE UNCHANGED <<live, owed>>
    BY <2>1, <2>3, OwedKept DEF TypeOK
  <2> QED
    BY <1>8, <2>1, <2>2, <2>3 DEF RunFinish
<1>9. ASSUME NEW w \in Workers, NEW t \in Tasks, Take(w, t)
      PROVE  Goal
  <2>1. /\ wpc[w] = "idle" /\ live' = [live EXCEPT ![t] = @ - 1]
        /\ wpc' = [wpc EXCEPT ![w] = "enter"] /\ wtask' = [wtask EXCEPT ![w] = t]
        /\ UNCHANGED <<owed, isShutingdown>>
    BY <1>9 DEF Take
  <2>2. ASSUME NEW n, Coming(n) PROVE Coming(n)'
    <3>1. ASSUME NEW u \in Tasks, NameOf[u] = n, live[u] > 0 PROVE Coming(n)'
      <4>1. CASE u = t
        BY <2>1, <3>1, <4>1 DEF Coming, TypeOK
      <4>2. CASE u # t
        BY <2>1, <3>1, <4>2 DEF Coming, TypeOK
      <4> QED
        BY <4>1, <4>2
    <3>2. ASSUME NEW v \in Workers, wpc[v] \in {"enter"} \cup BeforeExecute, NameOf[wtask[v]] = n
          PROVE  Coming(n)'
      BY <2>1, <3>2 DEF Coming, TypeOK
    <3> QED
      BY <2>2, <3>1, <3>2 DEF Coming
  <2>3. OwedNotExecuting'
    BY <2>1 DEF OwedInv, OwedNotExecuting, TypeOK
  <2> QED
    BY <1>1, <2>1, <2>2, <2>3 DEF OwedInv, NoLostSchedule
<1>10. ASSUME NEW w \in Workers, RunDuplicate(w)
       PROVE  Goal
  <2>1. /\ wpc[w] = "enter" /\ Has(runningQueue, wtask[w])
        /\ wpc' = [wpc EXCEPT ![w] = "idle"] /\ wtask' = [wtask EXCEPT ![w] = NoTask]
        /\ UNCHANGED <<live, owed, isShutingdown>>
    BY <1>10 DEF RunDuplicate
  <2>2. PICK v \in Workers : wpc[v] \in Owning /\ NameOf[wtask[v]] = NameOf[wtask[w]]
    BY <2>1 DEF Has, RunningOwned
  <2>3. NameOf[wtask[w]] \in owed => wpc[v] \in BeforeExecute
    BY <1>1, <2>2 DEF OwedInv, OwedNotExecuting, OwnInv, NoStopYet
  <2>4. ASSUME NEW n \in owed PROVE Coming(n)'
    <3>1. Coming(n)
      BY <1>1, <2>1 DEF OwedInv, NoLostSchedule
    <3>2. CASE n = NameOf[wtask[w]]
      BY <2>1, <2>2, <2>3, <3>2 DEF Coming, TypeOK
    <3>3. CASE n # NameOf[wtask[w]]
      BY <2>1, <3>1, <3>3 DEF Coming, TypeOK
    <3> QED
      BY <3>2, <3>3
  <2>5. OwedNotExecuting'
    BY <2>1 DEF OwedInv, OwedNotExecuting, TypeOK
  <2> QED
    BY <2>1, <2>4, <2>5 DEF NoLostSchedule
<1>11. ASSUME NEW w \in Workers, RunBegin(w)
       PROVE  Goal
  BY <1>11, OwedKept DEF RunBegin, TypeOK
<1>12. ASSUME NEW w \in Workers, RunBind(w)
       PROVE  Goal
  <2>1. /\ wpc[w] = "bind" /\ wpc' = [wpc EXCEPT ![w] = "exec"]
        /\ owed' = owed \ {NameOf[wtask[w]]} /\ UNCHANGED <<live, wtask, isShutingdown>>
    BY <1>12 DEF RunBind
  <2>2. ASSUME NEW n \in owed' PROVE Coming(n)'
    <3>1. Coming(n) /\ n # NameOf[wtask[w]]
      BY <1>1, <2>1 DEF OwedInv, NoLostSchedule
    <3> QED
      BY <2>1, <3>1 DEF Coming, TypeOK
  <2>3. OwedNotExecuting'
    BY <1>1, <2>1 DEF OwedInv, OwedNotExecuting, TypeOK
  <2> QED
    BY <2>2, <2>3 DEF NoLostSchedule
<1>13. ~(\E w \in Workers : RunStopped(w)) /\ ~(StopAll \/ StopperStep)
  BY <1>1 DEF RunStopped, OwnInv, NoStopYet, StopAll, StopperStep, StopperLock, StopPending,
              StopRunning, StopperTest
<1> HIDE DEF Goal
<1> QED
  BY <1>2, <1>3, <1>4, <1>5, <1>7, <1>8, <1>9, <1>10, <1>11, <1>12, <1>13 DEF Next, ClientStep, RunStep

-----------------------------------------------------------------------------
(* The entries of a name, counted against its futures and the threads that  *)
(* have taken one.                                                          *)
LEMMA EntriesFinite ==
  ASSUME NEW q \in Seq(Tasks), NEW n
  PROVE  IsFiniteSet(Entries(q, n)) /\ Cardinality(Entries(q, n)) \in Nat
<1>1. IsFiniteSet(1..Len(q))
  BY FS_Interval
<1>2. Entries(q, n) \in SUBSET (1..Len(q))
  BY DEF Entries
<1>3. IsFiniteSet(Entries(q, n))
  BY <1>1, <1>2, FS_Subset
<1> QED
  BY <1>3, FS_CardinalityType

(* An appended task is one more entry of its name. *)
LEMMA EntriesAppend ==
  ASSUME NEW q \in Seq(Tasks), NEW t \in Tasks, NEW n
  PROVE  Cardinality(Entries(Append(q, t), n))
           = Cardinality(Entries(q, n)) + (IF NameOf[t] = n THEN 1 ELSE 0)
<1>1. /\ Len(Append(q, t)) = Len(q) + 1 /\ Len(q) \in Nat
      /\ DOMAIN q = 1..Len(q) /\ DOMAIN Append(q, t) = 1..(Len(q) + 1)
      /\ Append(q, t)[Len(q) + 1] = t
      /\ \A i \in 1..Len(q) : Append(q, t)[i] = q[i]
  BY AppendProperties
<1> HIDE DEF Entries
<1>2. IsFiniteSet(Entries(q, n)) /\ Cardinality(Entries(q, n)) \in Nat
  BY EntriesFinite
<1>3. CASE NameOf[t] = n
  <2>1. Entries(Append(q, t), n) = Entries(q, n) \cup {Len(q) + 1}
    BY <1>1, <1>3 DEF Entries
  <2>2. Len(q) + 1 \notin Entries(q, n)
    BY <1>1 DEF Entries
  <2> QED
    BY <1>2, <1>3, <2>1, <2>2, FS_AddElement
<1>4. CASE NameOf[t] # n
  <2>1. Entries(Append(q, t), n) = Entries(q, n)
    BY <1>1, <1>4 DEF Entries
  <2> QED
    BY <1>2, <1>4, <2>1
<1> QED
  BY <1>3, <1>4

(* A removed task is at most one entry less, of its own name. *)
LEMMA EntriesRemove ==
  ASSUME NEW q \in Seq(Tasks), NEW t \in Tasks, NEW n
  PROVE  Cardinality(Entries(RemoveOne(q, t), n))
           >= Cardinality(Entries(q, n)) - (IF NameOf[t] = n THEN 1 ELSE 0)
<1>0. IsFiniteSet(Entries(q, n)) /\ Cardinality(Entries(q, n)) \in Nat
  BY EntriesFinite
<1>1. CASE ~Has(q, t)
  <2>1. RemoveOne(q, t) = q
    BY <1>1 DEF RemoveOne
  <2> QED
    BY <1>0, <2>1
<1>2. CASE Has(q, t)
  <2> DEFINE k == IndexOf(q, t)
             r == RemoveAt(q, k)
  <2>1. k \in 1..Len(q) /\ NameOf[q[k]] = NameOf[t]
    BY <1>2, IndexFound
  <2> HIDE DEF k
  <2>2. /\ r \in Seq(Tasks) /\ Len(r) = Len(q) - 1
        /\ \A i \in 1..Len(q)-1 : r[i] = IF i < k THEN q[i] ELSE q[i+1]
    BY <2>1, RemoveAtShape
  <2>3. RemoveOne(q, t) = r
    BY <1>2 DEF RemoveOne, k
  <2> HIDE DEF r
  <2> DEFINE S == Entries(q, n) \ {k}
             T == Entries(r, n)
             g == [i \in S |-> IF i < k THEN i ELSE i - 1]
  <2>4. /\ IsFiniteSet(S)
        /\ Cardinality(S) = IF k \in Entries(q, n) THEN Cardinality(Entries(q, n)) - 1
                                                   ELSE Cardinality(Entries(q, n))
    BY <1>0, FS_RemoveElement
  <2>5. k \in Entries(q, n) <=> NameOf[t] = n
    BY <2>1 DEF Entries
  <2>6. ASSUME NEW i \in S PROVE g[i] \in T
    <3>1. i \in 1..Len(q) /\ NameOf[q[i]] = n /\ i # k
      BY DEF Entries
    <3>2. CASE i < k
      BY <3>1, <3>2, <2>1, <2>2 DEF Entries
    <3>3. CASE i > k
      <4>1. i - 1 \in 1..Len(q)-1 /\ ~(i - 1 < k) /\ (i - 1) + 1 = i
        BY <3>1, <3>3, <2>1
      <4>2. r[i - 1] = q[i]
        BY <4>1, <2>2
      <4> QED
        BY <3>1, <3>3, <4>1, <4>2, <2>1, <2>2 DEF Entries
    <3> QED
      BY <3>1, <3>2, <3>3, <2>1
  <2>7. \A i, m \in S : g[i] = g[m] => i = m
    BY <2>1, SMTT(30) DEF Entries
  <2>8. g \in [S -> T]
    BY <2>6
  <2>9. IsFiniteSet(T) /\ Cardinality(T) \in Nat
    BY <2>2, EntriesFinite
  <2> HIDE DEF g, S, T
  <2>10. g \in Injection(S, T)
    BY <2>7, <2>8 DEF Injection, IsInjective
  <2>11. Cardinality(S) <= Cardinality(T)
    BY <2>9, <2>10, FS_Injection
  <2> QED
    BY <1>0, <2>3, <2>4, <2>5, <2>9, <2>11 DEF T
<1> QED
  BY <1>1, <1>2

(* A name that has an entry is in the list. *)
LEMMA EntriesHas ==
  ASSUME NEW q \in Seq(Tasks), NEW t \in Tasks, Cardinality(Entries(q, NameOf[t])) > 0
  PROVE  Has(q, t)
<1>1. Entries(q, NameOf[t]) # {}
  <2>1. SUFFICES ASSUME Entries(q, NameOf[t]) = {} PROVE FALSE
    OBVIOUS
  <2>2. Cardinality(Entries(q, NameOf[t])) = 0
    BY <2>1, FS_EmptySet
  <2> QED
    BY <2>2
<1> QED
  BY <1>1 DEF Entries, Has

(* The futures of a name, one by one. *)
LEMMA FuturesAre ==
  ASSUME NEW l \in [Tasks -> Nat], NEW n
  PROVE  \A f : f \in Futures(l, n) <=>
           \E u \in Tasks, k \in Nat : NameOf[u] = n /\ f = <<u, k>> /\ 1 <= k /\ k <= l[u]
<1>1. ASSUME NEW f, f \in Futures(l, n)
      PROVE  \E u \in Tasks, k \in Nat : NameOf[u] = n /\ f = <<u, k>> /\ 1 <= k /\ k <= l[u]
  <2>1. PICK u \in Tasks : NameOf[u] = n /\ f \in {u} \X (1..l[u])
    BY <1>1 DEF Futures
  <2>2. PICK k \in 1..l[u] : f = <<u, k>>
    BY <2>1
  <2>3. k \in Nat /\ 1 <= k /\ k <= l[u]
    BY <2>2
  <2> QED
    BY <2>1, <2>2, <2>3
<1>2. ASSUME NEW f, NEW u \in Tasks, NEW k \in Nat, NameOf[u] = n, f = <<u, k>>, 1 <= k, k <= l[u]
      PROVE  f \in Futures(l, n)
  <2>1. f \in {u} \X (1..l[u])
    BY <1>2
  <2> QED
    BY <1>2, <2>1 DEF Futures
<1> QED
  BY <1>1, <1>2

(* Two states of the futures, m with one more of task t than l: one more of *)
(* its name, and m has finitely many if l has.                              *)
LEMMA FuturesStep ==
  ASSUME NEW l \in [Tasks -> Nat], NEW m \in [Tasks -> Nat], NEW t \in Tasks, NEW n,
         m[t] = l[t] + 1, \A u \in Tasks : u # t => m[u] = l[u],
         IsFiniteSet(Futures(l, n)) \/ IsFiniteSet(Futures(m, n))
  PROVE  /\ IsFiniteSet(Futures(l, n)) /\ Cardinality(Futures(l, n)) \in Nat
         /\ IsFiniteSet(Futures(m, n))
         /\ Cardinality(Futures(m, n)) = Cardinality(Futures(l, n)) + (IF NameOf[t] = n THEN 1 ELSE 0)
<1>1. CASE NameOf[t] = n
  <2> DEFINE new == <<t, m[t]>>
  <2>1. new \notin Futures(l, n)
    <3>1. SUFFICES ASSUME new \in Futures(l, n) PROVE FALSE
      OBVIOUS
    <3>2. PICK u \in Tasks, k \in Nat : new = <<u, k>> /\ k <= l[u]
      BY <3>1, FuturesAre
    <3> QED
      BY <3>2
  <2>2. Futures(l, n) \in SUBSET Futures(m, n)
    <3>1. SUFFICES ASSUME NEW f \in Futures(l, n) PROVE f \in Futures(m, n)
      OBVIOUS
    <3>2. PICK u \in Tasks, k \in Nat : NameOf[u] = n /\ f = <<u, k>> /\ 1 <= k /\ k <= l[u]
      BY FuturesAre
    <3>3. k <= m[u]
      BY <3>2
    <3> QED
      BY <3>2, <3>3, FuturesAre
  <2>3. new \in Futures(m, n)
    <3>1. m[t] \in Nat /\ 1 <= m[t]
      OBVIOUS
    <3> QED
      BY <1>1, <3>1, FuturesAre
  <2>4. ASSUME NEW f \in Futures(m, n), f # new PROVE f \in Futures(l, n)
    <3>1. PICK u \in Tasks, k \in Nat : NameOf[u] = n /\ f = <<u, k>> /\ 1 <= k /\ k <= m[u]
      BY FuturesAre
    <3>2. k <= l[u]
      BY <2>4, <3>1
    <3> QED
      BY <3>1, <3>2, FuturesAre
  <2> HIDE DEF new
  <2>5. Futures(m, n) = Futures(l, n) \cup {new}
    BY <2>2, <2>3, <2>4
  <2>6. IsFiniteSet(Futures(l, n))
    BY <2>2, FS_Subset
  <2>7. Cardinality(Futures(l, n)) \in Nat
    BY <2>6, FS_CardinalityType
  <2>8. /\ IsFiniteSet(Futures(l, n) \cup {new})
        /\ Cardinality(Futures(l, n) \cup {new}) = Cardinality(Futures(l, n)) + 1
    BY <2>1, <2>6, FS_AddElement
  <2> QED
    BY <1>1, <2>5, <2>6, <2>7, <2>8
<1>2. CASE NameOf[t] # n
  <2>1. Futures(m, n) = Futures(l, n)
    BY <1>2 DEF Futures
  <2>2. Cardinality(Futures(l, n)) \in Nat
    BY <2>1, FS_CardinalityType
  <2> QED
    BY <1>2, <2>1, <2>2
<1> QED
  BY <1>1, <1>2

-----------------------------------------------------------------------------
(* Until stopAll is called: the entries of pendingQueue cover what may run. *)
CoverInv == FinitelyMany /\ PendingCoversFutures

(* The facts behind CoverInv for one name, with the counts as numbers. *)
LEMMA CoverOf ==
  ASSUME CoverInv, ~isShutingdown, NEW n \in Names
  PROVE  /\ IsFiniteSet(Futures(live, n)) /\ Cardinality(Futures(live, n)) \in Nat
         /\ IsFiniteSet(Entering(n)) /\ Cardinality(Entering(n)) \in Nat
         /\ Cardinality(Entries(pendingQueue, n)) >= Cardinality(Futures(live, n)) + Cardinality(Entering(n))
<1>1. /\ IsFiniteSet(Futures(live, n)) /\ IsFiniteSet(Entering(n))
      /\ Cardinality(Entries(pendingQueue, n)) >= Cardinality(Futures(live, n)) + Cardinality(Entering(n))
  BY DEF CoverInv, FinitelyMany, PendingCoversFutures
<1> QED
  BY <1>1, FS_CardinalityType

(* No thread takes a future or gets past the locked block. *)
LEMMA EnteringKept ==
  ASSUME \A w \in Workers : wpc'[w] = "enter" <=> wpc[w] = "enter",
         \A w \in Workers : wpc[w] = "enter" => wtask'[w] = wtask[w]
  PROVE  \A n : Entering(n)' = Entering(n)
BY DEF Entering

(* A step that leaves the futures, the list and the entering threads alone. *)
LEMMA CoverKept ==
  ASSUME CoverInv, isShutingdown' = isShutingdown, live' = live, pendingQueue' = pendingQueue,
         \A n : Entering(n)' = Entering(n)
  PROVE  CoverInv'
<1> USE DEF CoverInv, FinitelyMany, PendingCoversFutures
<1> SUFFICES ASSUME ~isShutingdown, NEW n \in Names
             PROVE  /\ IsFiniteSet(Futures(live', n)) /\ IsFiniteSet(Entering(n)')
                    /\ Cardinality(Entries(pendingQueue', n))
                         >= Cardinality(Futures(live', n)) + Cardinality(Entering(n)')
  OBVIOUS
<1> QED
  OBVIOUS

(* An accepted schedule() adds an entry and at most one future. *)
LEMMA EnqueueCovers ==
  ASSUME TypeOK, CoverInv, isShutingdown' = isShutingdown,
         NEW t \in Tasks, NEW rq, Enqueue(t, rq), \A n : Entering(n)' = Entering(n)
  PROVE  CoverInv'
<1>1. CASE Has(rq, t)
  BY <1>1, CoverKept DEF Enqueue
<1>2. CASE ~Has(rq, t)
  <2> SUFFICES ASSUME ~isShutingdown, NEW n \in Names
               PROVE  /\ IsFiniteSet(Futures(live', n)) /\ IsFiniteSet(Entering(n)')
                      /\ Cardinality(Entries(pendingQueue', n))
                           >= Cardinality(Futures(live', n)) + Cardinality(Entering(n)')
    BY DEF CoverInv, FinitelyMany, PendingCoversFutures
  <2>1. /\ pendingQueue \in Seq(Tasks) /\ live \in [Tasks -> Nat]
        /\ pendingQueue' = Append(pendingQueue, t)
        /\ live' = [live EXCEPT ![t] = IF Has(pendingQueue, t) /\ sf[t] = "queued" THEN @ ELSE @ + 1]
    BY <1>2 DEF Enqueue, TypeOK
  <2>2. /\ IsFiniteSet(Futures(live, n)) /\ Cardinality(Futures(live, n)) \in Nat
        /\ IsFiniteSet(Entering(n)) /\ Cardinality(Entering(n)) \in Nat
        /\ Cardinality(Entries(pendingQueue, n)) >= Cardinality(Futures(live, n)) + Cardinality(Entering(n))
    BY CoverOf
  <2>3. /\ Cardinality(Entries(pendingQueue, n)) \in Nat
        /\ Cardinality(Entries(pendingQueue', n))
             = Cardinality(Entries(pendingQueue, n)) + (IF NameOf[t] = n THEN 1 ELSE 0)
    BY <2>1, EntriesFinite, EntriesAppend
  <2>4. CASE live' = live
    BY <2>2, <2>3, <2>4
  <2>5. CASE live' = [live EXCEPT ![t] = @ + 1]
    <3>1. live' \in [Tasks -> Nat] /\ live'[t] = live[t] + 1 /\ \A u \in Tasks : u # t => live'[u] = live[u]
      BY <2>1, <2>5
    <3>2. /\ IsFiniteSet(Futures(live', n))
          /\ Cardinality(Futures(live', n)) = Cardinality(Futures(live, n)) + (IF NameOf[t] = n THEN 1 ELSE 0)
      <4>1. PICK l \in [Tasks -> Nat], m \in [Tasks -> Nat] : l = live /\ m = live'
        BY <2>1, <3>1
      <4>2. m[t] = l[t] + 1 /\ \A u \in Tasks : u # t => m[u] = l[u]
        BY <3>1, <4>1
      <4>3. IsFiniteSet(Futures(l, n))
        BY <2>2, <4>1
      <4>4. /\ IsFiniteSet(Futures(m, n))
            /\ Cardinality(Futures(m, n)) = Cardinality(Futures(l, n)) + (IF NameOf[t] = n THEN 1 ELSE 0)
        BY <4>2, <4>3, FuturesStep
      <4> QED
        BY <4>1, <4>4
    <3> QED
      BY <2>2, <2>3, <3>2
  <2>6. live' = live \/ live' = [live EXCEPT ![t] = @ + 1]
    BY <2>1
  <2> QED
    BY <2>4, <2>5, <2>6
<1> QED
  BY <1>1, <1>2

(* A thread that takes a future is one more that enters for one future less. *)
LEMMA TakeCovers ==
  ASSUME TypeOK, CoverInv, NEW w \in Workers, NEW t \in Tasks, Take(w, t)
  PROVE  CoverInv'
<1>1. /\ live \in [Tasks -> Nat] /\ wpc[w] = "idle" /\ live[t] > 0
      /\ live' = [live EXCEPT ![t] = @ - 1]
      /\ wpc' = [wpc EXCEPT ![w] = "enter"] /\ wtask' = [wtask EXCEPT ![w] = t]
      /\ pendingQueue' = pendingQueue /\ isShutingdown' = isShutingdown
      /\ DOMAIN wpc = Workers /\ DOMAIN wtask = Workers
  BY DEF Take, TypeOK
<1> SUFFICES ASSUME ~isShutingdown, NEW n \in Names
             PROVE  /\ IsFiniteSet(Futures(live', n)) /\ IsFiniteSet(Entering(n)')
                    /\ Cardinality(Entries(pendingQueue', n))
                         >= Cardinality(Futures(live', n)) + Cardinality(Entering(n)')
  BY <1>1 DEF CoverInv, FinitelyMany, PendingCoversFutures
<1>2. /\ IsFiniteSet(Futures(live, n)) /\ Cardinality(Futures(live, n)) \in Nat
      /\ IsFiniteSet(Entering(n)) /\ Cardinality(Entering(n)) \in Nat
      /\ Cardinality(Entries(pendingQueue, n)) >= Cardinality(Futures(live, n)) + Cardinality(Entering(n))
  BY CoverOf
<1>3. live' \in [Tasks -> Nat] /\ live[t] = live'[t] + 1 /\ \A u \in Tasks : u # t => live[u] = live'[u]
  <2>1. live[t] - 1 \in Nat
    BY <1>1
  <2> QED
    BY <1>1, <2>1
<1>4. /\ IsFiniteSet(Futures(live', n)) /\ Cardinality(Futures(live', n)) \in Nat
      /\ Cardinality(Futures(live, n)) = Cardinality(Futures(live', n)) + (IF NameOf[t] = n THEN 1 ELSE 0)
  <2>1. PICK l \in [Tasks -> Nat], m \in [Tasks -> Nat] : l = live' /\ m = live
    BY <1>1, <1>3
  <2>2. m[t] = l[t] + 1 /\ \A u \in Tasks : u # t => m[u] = l[u]
    BY <1>3, <2>1
  <2>3. IsFiniteSet(Futures(m, n))
    BY <1>2, <2>1
  <2>4. /\ IsFiniteSet(Futures(l, n)) /\ Cardinality(Futures(l, n)) \in Nat
        /\ Cardinality(Futures(m, n)) = Cardinality(Futures(l, n)) + (IF NameOf[t] = n THEN 1 ELSE 0)
    BY <2>2, <2>3, FuturesStep
  <2> QED
    BY <2>1, <2>4
<1>5. CASE NameOf[t] = n
  <2>1. w \notin Entering(n) /\ Entering(n)' = Entering(n) \cup {w}
    BY <1>1, <1>5 DEF Entering
  <2>2. IsFiniteSet(Entering(n) \cup {w}) /\ Cardinality(Entering(n) \cup {w}) = Cardinality(Entering(n)) + 1
    BY <1>2, <2>1, FS_AddElement
  <2>3. IsFiniteSet(Entering(n)') /\ Cardinality(Entering(n)') = Cardinality(Entering(n)) + 1
    BY <2>1, <2>2
  <2> HIDE DEF Entering
  <2>4. Cardinality(Futures(live', n)) + Cardinality(Entering(n)') = Cardinality(Futures(live, n)) + Cardinality(Entering(n))
    BY <1>2, <1>4, <1>5, <2>3
  <2> QED
    BY <1>1, <1>2, <1>4, <2>3, <2>4
<1>6. CASE NameOf[t] # n
  <2>1. Entering(n)' = Entering(n)
    BY <1>1, <1>6 DEF Entering
  <2> QED
    BY <1>1, <1>2, <1>4, <1>6, <2>1
<1> QED
  BY <1>5, <1>6

(* A thread that gets past the locked block removes at most one entry, and  *)
(* is one less that enters.                                                 *)
LEMMA EnterCovers ==
  ASSUME TypeOK, CoverInv, NEW w \in Workers, wpc[w] = "enter", isShutingdown' = isShutingdown,
         pendingQueue' = RemoveOne(pendingQueue, wtask[w]), live' = live,
         wpc'[w] # "enter",
         \A v \in Workers : v # w => wpc'[v] = wpc[v] /\ wtask'[v] = wtask[v]
  PROVE  CoverInv'
<1> SUFFICES ASSUME ~isShutingdown, NEW n \in Names
             PROVE  /\ IsFiniteSet(Futures(live', n)) /\ IsFiniteSet(Entering(n)')
                    /\ Cardinality(Entries(pendingQueue', n))
                         >= Cardinality(Futures(live', n)) + Cardinality(Entering(n)')
  BY DEF CoverInv, FinitelyMany, PendingCoversFutures
<1>1. wtask[w] \in Tasks /\ pendingQueue \in Seq(Tasks)
  BY DEF TypeOK
<1>2. /\ IsFiniteSet(Futures(live, n)) /\ Cardinality(Futures(live, n)) \in Nat
      /\ IsFiniteSet(Entering(n)) /\ Cardinality(Entering(n)) \in Nat
      /\ Cardinality(Entries(pendingQueue, n)) >= Cardinality(Futures(live, n)) + Cardinality(Entering(n))
  BY CoverOf
<1>3. Cardinality(Entries(pendingQueue, n)) \in Nat /\ Cardinality(Entries(pendingQueue', n)) \in Nat
  BY <1>1, EntriesFinite, RemoveOneFacts
<1>4. Cardinality(Entries(pendingQueue', n))
        >= Cardinality(Entries(pendingQueue, n)) - (IF NameOf[wtask[w]] = n THEN 1 ELSE 0)
  BY <1>1, EntriesRemove
<1>5. CASE NameOf[wtask[w]] = n
  <2>1. w \in Entering(n) /\ Entering(n)' = Entering(n) \ {w}
    BY <1>5 DEF Entering
  <2>2. IsFiniteSet(Entering(n) \ {w}) /\ Cardinality(Entering(n) \ {w}) = Cardinality(Entering(n)) - 1
    BY <1>2, <2>1, FS_RemoveElement
  <2>3. IsFiniteSet(Entering(n)') /\ Cardinality(Entering(n)') = Cardinality(Entering(n)) - 1
    BY <2>1, <2>2
  <2> QED
    BY <1>2, <1>3, <1>4, <1>5, <2>3
<1>6. CASE NameOf[wtask[w]] # n
  <2>1. Entering(n)' = Entering(n)
    BY <1>6 DEF Entering
  <2> QED
    BY <1>2, <1>3, <1>4, <1>6, <2>1
<1> QED
  BY <1>5, <1>6

(* No step leaves fewer entries of a name than futures and threads for it.  *)
LEMMA CoverStep ==
  ASSUME TypeOK, OwnInv, CoverInv, Next
  PROVE  CoverInv'
<1> SUFFICES ASSUME ~isShutingdown' PROVE CoverInv'
  BY DEF CoverInv, FinitelyMany, PendingCoversFutures
<1>0. ~isShutingdown /\ stopper = "off"
  BY DEF TypeOK, Next, ClientStep, RunStep, StopperStep, InitPool, ScheduleCall, ScheduleLocked,
         ScheduleStopped, Take, RunDuplicate, RunBegin, RunCheck, RunStopped, RunBind, ExecuteEnd,
         RunFinish, RunUnbind, StopAll, StopperLock, StopPending, StopRunning, StopperTest
<1>1. CASE InitPool
  BY <1>1, EnteringKept, CoverKept DEF InitPool
<1>2. ASSUME NEW c \in Clients, NEW t \in Tasks, ScheduleCall(c, t)
      PROVE  CoverInv'
  BY <1>2, EnteringKept, CoverKept DEF ScheduleCall
<1>3. ASSUME NEW c \in Clients, ScheduleLocked(c)
      PROVE  CoverInv'
  <2>1. /\ ctask[c] \in Tasks /\ Enqueue(ctask[c], runningQueue)
        /\ UNCHANGED <<wpc, wtask, isShutingdown>>
    BY <1>3 DEF ScheduleLocked, TypeOK
  <2> QED
    BY <2>1, EnteringKept, EnqueueCovers
<1>4. ASSUME NEW w \in Workers, NEW t \in Tasks, Take(w, t)
      PROVE  CoverInv'
  BY <1>4, TakeCovers
<1>5. ASSUME NEW w \in Workers, RunDuplicate(w) \/ RunBegin(w)
      PROVE  CoverInv'
  BY <1>5, EnterCovers DEF RunDuplicate, RunBegin, TypeOK
<1>6. ASSUME NEW w \in Workers, RunCheck(w) \/ RunBind(w) \/ ExecuteEnd(w) \/ RunUnbind(w)
      PROVE  CoverInv'
  <2>1. UNCHANGED <<live, pendingQueue, isShutingdown>>
    BY <1>6 DEF RunCheck, RunBind, ExecuteEnd, RunUnbind
  <2>2. /\ \A v \in Workers : wpc'[v] = "enter" <=> wpc[v] = "enter"
        /\ \A v \in Workers : wpc[v] = "enter" => wtask'[v] = wtask[v]
    BY <1>6 DEF RunCheck, RunBind, ExecuteEnd, RunUnbind, TypeOK
  <2> QED
    BY <2>1, <2>2, EnteringKept, CoverKept
<1>7. ASSUME NEW w \in Workers, RunFinish(w)
      PROVE  CoverInv'
  <2>1. /\ wtask[w] \in Tasks /\ ~stop[wtask[w]] /\ wpc[w] = "finish"
        /\ wpc' = [wpc EXCEPT ![w] = "unbind"] /\ UNCHANGED <<wtask, isShutingdown>>
    BY <1>0, <1>7 DEF RunFinish, TypeOK, OwnInv, NoStopYet
  <2>2. \A n : Entering(n)' = Entering(n)
    BY <2>1, EnteringKept DEF TypeOK
  <2>3. \/ UNCHANGED <<live, pendingQueue>>
        \/ Enqueue(wtask[w], RemoveOne(runningQueue, wtask[w]))
    BY <1>7, <2>1 DEF RunFinish
  <2> QED
    BY <2>1, <2>2, <2>3, CoverKept, EnqueueCovers
<1>8. /\ ~(\E c \in Clients : ScheduleStopped(c)) /\ ~(\E w \in Workers : RunStopped(w))
      /\ ~(StopAll \/ StopperStep)
  BY <1>0 DEF ScheduleStopped, RunStopped, OwnInv, NoStopYet, StopAll, StopperStep, StopperLock,
              StopPending, StopRunning, StopperTest
<1> QED
  BY <1>1, <1>2, <1>3, <1>4, <1>5, <1>6, <1>7, <1>8 DEF Next, ClientStep, RunStep

(* Nothing is queued at the start. *)
LEMMA CoverInit == Init => CoverInv
<1> SUFFICES ASSUME Init, NEW n \in Names
             PROVE  /\ IsFiniteSet(Futures(live, n)) /\ IsFiniteSet(Entering(n))
                    /\ Cardinality(Entries(pendingQueue, n))
                         >= Cardinality(Futures(live, n)) + Cardinality(Entering(n))
  BY DEF CoverInv, FinitelyMany, PendingCoversFutures
<1>1. Futures(live, n) = {}
  <2>1. live \in [Tasks -> Nat] /\ \A t \in Tasks : live[t] = 0
    BY DEF Init
  <2>2. ASSUME NEW f \in Futures(live, n) PROVE FALSE
    <3>1. PICK u \in Tasks, k \in Nat : 1 <= k /\ k <= live[u]
      BY <2>1, <2>2, FuturesAre
    <3> QED
      BY <2>1, <3>1
  <2> QED
    BY <2>2
<1>2. Entering(n) = {}
  BY DEF Init, Entering
<1>3. Cardinality(Entries(pendingQueue, n)) \in Nat
  BY EmptySeq, EntriesFinite DEF Init
<1> QED
  BY <1>1, <1>2, <1>3, FS_EmptySet

-----------------------------------------------------------------------------
(* Nothing is scheduled at the start. *)
LEMMA InitIInv == Init => IInv
<1> SUFFICES ASSUME Init PROVE IInv
  OBVIOUS
<1>1. TypeOK /\ SweepInBounds
  <2>1. pendingQueue \in Seq(Tasks) /\ runningQueue \in Seq(Tasks)
    BY EmptySeq DEF Init
  <2>2. /\ wpc \in [Workers -> {"idle", "enter", "check", "stopping", "bind", "exec", "finish", "unbind"}]
        /\ cpc \in [Clients -> {"idle", "sched", "onstop"}]
        /\ sf \in [Tasks -> {"null", "queued", "spent"}]
    BY DEF Init
  <2>3. live \in [Tasks -> Nat] /\ si \in Nat /\ calls \in Nat
    BY DEF Init
  <2> QED
    BY <2>1, <2>2, <2>3 DEF Init, TypeOK, SweepInBounds
<1>2. /\ UniqueIn(runningQueue) /\ RunningOwned
      /\ NoStopYet /\ OwnersListed /\ OwnersDiffer
      /\ OwedNotExecuting /\ SfLive /\ NoLostSchedule
  BY DEF Init, UniqueIn, RunningOwned, NoStopYet, OwnersListed, OwnersDiffer,
         OwedNotExecuting, SfLive, NoLostSchedule
<1> QED
  BY <1>1, <1>2, CoverInit DEF IInv, CoverInv

(* The invariant is inductive. *)
LEMMA IInvStep == IInv /\ [Next]_vars => IInv'
<1> SUFFICES ASSUME IInv, [Next]_vars PROVE IInv'
  OBVIOUS
<1>1. CASE Next
  BY <1>1, TypeStep, ListStep, OwnStep, OwedStep, CoverStep DEF IInv, OwnInv, OwedInv, CoverInv
<1>2. CASE UNCHANGED vars
  <2>1. TypeOK' /\ SweepInBounds'
    BY <1>2 DEF vars, IInv, TypeOK, SweepInBounds
  <2>2. UniqueIn(runningQueue)' /\ RunningOwned'
    BY <1>2 DEF vars, IInv, UniqueIn, RunningOwned
  <2>3. NoStopYet' /\ OwnersListed' /\ OwnersDiffer'
    BY <1>2 DEF vars, IInv, NoStopYet, OwnersListed, OwnersDiffer, Has
  <2>4. OwedNotExecuting' /\ SfLive' /\ NoLostSchedule'
    BY <1>2 DEF vars, IInv, OwedNotExecuting, SfLive, NoLostSchedule, Coming
  <2>5. FinitelyMany' /\ PendingCoversFutures'
    BY <1>2 DEF vars, IInv, FinitelyMany, PendingCoversFutures, Entering
  <2> QED
    BY <2>1, <2>2, <2>3, <2>4, <2>5 DEF IInv
<1> QED
  BY <1>1, <1>2

(* The scheduler keeps its invariant. *)
THEOREM Invariance == Spec => []IInv
BY InitIInv, IInvStep, PTL DEF Spec

(* The types of the state, and the loop index of stopAll stays in its list. *)
THEOREM TypeCorrect == Spec => []TypeOK
<1>1. IInv => TypeOK
  BY DEF IInv
<1> QED
  BY <1>1, Invariance, PTL

(* stopAll's backward walks over lists that stop() shortens never run off   *)
(* the end of the list.                                                     *)
THEOREM SweepStaysInBounds == Spec => []SweepInBounds
<1>1. IInv => SweepInBounds
  BY DEF IInv
<1> QED
  BY <1>1, Invariance, PTL

(* Two threads never execute tasks of one name at the same time (before a   *)
(* shutdown), for any number of threads, task objects, names and calls.     *)
THEOREM NameExclusion == Spec => []MutualExclusion
<1>1. IInv => MutualExclusion
  BY DEF IInv, OwnersDiffer, MutualExclusion
<1> QED
  BY <1>1, Invariance, PTL

(* A schedule that was accepted always has a future or a thread that will   *)
(* execute its name (before a shutdown).                                    *)
THEOREM AcceptedIsComing == Spec => []NoLostSchedule
<1>1. IInv => NoLostSchedule
  BY DEF IInv
<1> QED
  BY <1>1, Invariance, PTL

(* Before a shutdown pendingQueue has an entry for every future of a name   *)
(* and for every thread that has taken one and not begun: stopAll, which    *)
(* looks for scheduled tasks nowhere else, finds the name of each.          *)
THEOREM PendingIsListed == Spec => []PendingCoversFutures
<1>1. IInv => PendingCoversFutures
  BY DEF IInv
<1> QED
  BY <1>1, Invariance, PTL

(* No runningQueue entry outlives the thread that put it there, shutdown    *)
(* included.                                                                *)
THEOREM EntriesOwned == Spec => []RunningOwned
<1>1. IInv => RunningOwned
  BY DEF IInv
<1> QED
  BY <1>1, Invariance, PTL

(* The end of a periodic task always schedules it again.                    *)
THEOREM PeriodicReschedules == Spec => PeriodicGoesOn
<1>1. ASSUME IInv, Next,
             NEW w \in Workers, wpc[w] = "finish", wpc'[w] # "finish", wtask[w] \in Periodic, ~isShutingdown
      PROVE  NameOf[wtask[w]] \in owed'
  <2> DEFINE t  == wtask[w]
             rq == RemoveOne(runningQueue, t)
  <2>1. t \in Tasks /\ runningQueue \in Seq(Tasks) /\ ~stop[t]
    BY <1>1 DEF IInv, TypeOK, NoStopYet
  <2>2. ~Has(rq, t)
    BY <1>1, <2>1, RemoveOneFacts DEF IInv
  <2>3. RunFinish(w)
    <3>1. wpc \in [Workers -> {"idle", "enter", "check", "stopping", "bind", "exec", "finish", "unbind"}]
      BY <1>1 DEF IInv, TypeOK
    <3>2. CASE InitPool \/ StopAll \/ StopperStep \/ \E c \in Clients : ClientStep(c)
      BY <1>1, <3>2 DEF InitPool, StopAll, StopperStep, StopperLock, StopPending, StopRunning, StopperTest,
                        ClientStep, ScheduleCall, ScheduleLocked, ScheduleStopped
    <3>3. ASSUME NEW v \in Workers, NEW u \in Tasks, Take(v, u) PROVE FALSE
      BY <1>1, <3>1, <3>3 DEF Take
    <3>4. ASSUME NEW v \in Workers,
                 RunDuplicate(v) \/ RunBegin(v) \/ RunCheck(v) \/ RunStopped(v) \/ RunBind(v) \/ ExecuteEnd(v)
                   \/ RunUnbind(v)
          PROVE  FALSE
      BY <1>1, <3>1, <3>4 DEF RunDuplicate, RunBegin, RunCheck, RunStopped, RunBind, ExecuteEnd, RunUnbind
    <3>5. ASSUME NEW v \in Workers, RunFinish(v) PROVE v = w
      BY <1>1, <3>1, <3>5 DEF RunFinish
    <3> QED
      BY <1>1, <3>2, <3>3, <3>4, <3>5 DEF Next, RunStep
  <2>4. Enqueue(t, rq)
    BY <1>1, <2>1, <2>3 DEF RunFinish
  <2> QED
    BY <2>2, <2>4 DEF Enqueue
<1> DEFINE A == \A w \in Workers :
                  wpc[w] = "finish" /\ wpc'[w] # "finish" /\ wtask[w] \in Periodic /\ ~isShutingdown
                    => NameOf[wtask[w]] \in owed'
<1>2. IInv /\ [Next]_vars => [A]_vars
  BY <1>1
<1>3. Spec => [][A]_vars
  <2> HIDE DEF A
  <2> QED
    BY <1>2, Invariance, PTL DEF Spec
<1> QED
  BY <1>3 DEF PeriodicGoesOn

-----------------------------------------------------------------------------
(* WorkerTask implements Scheduler.                                         *)

(* Threads that execute stay where they are: the running names stay. *)
LEMMA RunningKept ==
  ASSUME \A w \in Workers : wpc'[w] = "exec" <=> wpc[w] = "exec",
         \A w \in Workers : wpc[w] = "exec" => wtask'[w] = wtask[w]
  PROVE  Running' = Running
BY DEF Running

(* The locked part of schedule() accepts, or changes nothing that is seen.  *)
LEMMA EnqueueRefines ==
  ASSUME NEW t \in Tasks, NEW rq, Enqueue(t, rq), Running' = Running, isShutingdown' = isShutingdown,
         isShutingdown \/ Has(rq, t) \/ NameOf[t] \notin Running
  PROVE  ByName!Accept(NameOf[t]) \/ UNCHANGED <<owed, Running, isShutingdown>>
BY DEF Enqueue, ByName!Accept

(* Before a shutdown an executing thread has its name for itself. *)
LEMMA ExecutingAlone ==
  ASSUME IInv, ~isShutingdown, NEW w \in Workers, wpc[w] \in Owning
  PROVE  /\ \A v \in Workers : v # w /\ wpc[v] = "exec" => NameOf[wtask[v]] # NameOf[wtask[w]]
         /\ wpc[w] # "exec" => NameOf[wtask[w]] \notin Running
BY DEF IInv, OwnersDiffer, Running

(* Every step of the scheduler is one that Scheduler allows, or not seen.   *)
LEMMA StepRefines == IInv /\ [Next]_vars => [ByName!Next]_(ByName!vars)
<1> SUFFICES ASSUME IInv, [Next]_vars PROVE [ByName!Next]_(ByName!vars)
  OBVIOUS
<1> DEFINE Stutter == UNCHANGED <<owed, Running, isShutingdown>>
           Seen    == ByName!StopAll \/ \E n \in Names : ByName!Accept(n) \/ ByName!Begin(n) \/ ByName!End(n)
<1>a. SUFFICES Seen \/ Stutter
  BY DEF ByName!Next, ByName!vars
<1>0. /\ wpc \in [Workers -> {"idle", "enter", "check", "stopping", "bind", "exec", "finish", "unbind"}]
      /\ wtask \in [Workers -> Tasks \cup {NoTask}]
      /\ \A t \in Tasks : NameOf[t] \in Names
  BY DEF IInv, TypeOK, Names
<1>1. ASSUME NEW w \in Workers,
             RunDuplicate(w) \/ RunBegin(w) \/ RunCheck(w) \/ RunStopped(w) \/ RunUnbind(w)
      PROVE  Stutter
  <2>1. /\ \A v \in Workers : wpc'[v] = "exec" <=> wpc[v] = "exec"
        /\ \A v \in Workers : wpc[v] = "exec" => wtask'[v] = wtask[v]
        /\ owed' = owed /\ isShutingdown' = isShutingdown
    BY <1>0, <1>1 DEF RunDuplicate, RunBegin, RunCheck, RunStopped, RunUnbind
  <2> QED
    BY <2>1, RunningKept
<1>2. ASSUME NEW w \in Workers, NEW t \in Tasks, Take(w, t)
      PROVE  Stutter
  <2>1. /\ \A v \in Workers : wpc'[v] = "exec" <=> wpc[v] = "exec"
        /\ \A v \in Workers : wpc[v] = "exec" => wtask'[v] = wtask[v]
        /\ owed' = owed /\ isShutingdown' = isShutingdown
    BY <1>0, <1>2 DEF Take
  <2> QED
    BY <2>1, RunningKept
<1>3. ASSUME NEW w \in Workers, RunBind(w)
      PROVE  Seen
  <2> DEFINE n == NameOf[wtask[w]]
  <2>1. /\ wpc[w] = "bind" /\ wpc' = [wpc EXCEPT ![w] = "exec"] /\ wtask' = wtask
        /\ owed' = owed \ {n} /\ isShutingdown' = isShutingdown /\ n \in Names
    BY <1>0, <1>3 DEF RunBind, IInv, TypeOK
  <2>2. Running' = Running \cup {n}
    BY <1>0, <2>1 DEF Running
  <2>3. n \notin Running \/ isShutingdown
    BY <2>1, ExecutingAlone
  <2> QED
    BY <2>1, <2>2, <2>3 DEF ByName!Begin
<1>4. ASSUME NEW w \in Workers, ExecuteEnd(w)
      PROVE  Seen \/ Stutter
  <2> DEFINE n == NameOf[wtask[w]]
  <2>1. /\ wpc[w] = "exec" /\ wpc' = [wpc EXCEPT ![w] = "finish"] /\ wtask' = wtask
        /\ owed' = owed /\ isShutingdown' = isShutingdown /\ n \in Names /\ n \in Running
    BY <1>0, <1>4 DEF ExecuteEnd, IInv, TypeOK, Running
  <2>2. CASE \E v \in Workers : v # w /\ wpc[v] = "exec" /\ NameOf[wtask[v]] = n
    BY <1>0, <2>1, <2>2 DEF Running
  <2>3. CASE ~(\E v \in Workers : v # w /\ wpc[v] = "exec" /\ NameOf[wtask[v]] = n)
    <3>1. Running' = Running \ {n}
      BY <1>0, <2>1, <2>3 DEF Running
    <3> QED
      BY <2>1, <3>1 DEF ByName!End
  <2> QED
    BY <2>2, <2>3
<1>5. ASSUME NEW w \in Workers, RunFinish(w)
      PROVE  Seen \/ Stutter
  <2> DEFINE t  == wtask[w]
             rq == RemoveOne(runningQueue, t)
  <2>1. /\ wpc[w] = "finish" /\ wpc' = [wpc EXCEPT ![w] = "unbind"] /\ wtask' = wtask
        /\ isShutingdown' = isShutingdown /\ t \in Tasks
    BY <1>0, <1>5 DEF RunFinish, IInv, TypeOK
  <2>2. Running' = Running
    BY <1>0, <2>1, RunningKept
  <2>3. owed' = owed \/ Enqueue(t, rq)
    BY <1>5 DEF RunFinish
  <2>4. isShutingdown \/ NameOf[t] \notin Running
    BY <2>1, ExecutingAlone
  <2> HIDE DEF t, rq
  <2>5. CASE Enqueue(t, rq)
    BY <1>0, <2>1, <2>2, <2>4, <2>5, EnqueueRefines
  <2> QED
    BY <2>1, <2>2, <2>3, <2>5
<1>6. ASSUME NEW c \in Clients, ScheduleLocked(c)
      PROVE  Seen \/ Stutter
  <2>1. /\ ctask[c] \in Tasks /\ Enqueue(ctask[c], runningQueue)
        /\ UNCHANGED <<wpc, wtask, isShutingdown>>
    BY <1>6 DEF ScheduleLocked, IInv, TypeOK
  <2>2. Running' = Running
    BY <2>1, RunningKept
  <2>3. isShutingdown \/ Has(runningQueue, ctask[c]) \/ NameOf[ctask[c]] \notin Running
    BY DEF IInv, OwnersListed, Has, Running
  <2> QED
    BY <1>0, <2>1, <2>2, <2>3, EnqueueRefines
<1>7. ASSUME NEW c \in Clients, ScheduleStopped(c) \/ \E t \in Tasks : ScheduleCall(c, t)
      PROVE  Stutter
  BY <1>7, RunningKept DEF ScheduleStopped, ScheduleCall
<1>8. CASE StopAll
  <2>1. ~isShutingdown /\ isShutingdown' = TRUE /\ UNCHANGED <<wpc, wtask, owed>>
    BY <1>8 DEF StopAll, IInv, TypeOK
  <2> QED
    BY <2>1, RunningKept DEF ByName!StopAll
<1>9. CASE InitPool \/ StopperStep \/ UNCHANGED vars
  <2>1. UNCHANGED <<wpc, wtask, owed, isShutingdown>>
    BY <1>9 DEF InitPool, StopperStep, StopperLock, StopPending, StopRunning, StopperTest, vars
  <2> QED
    BY <2>1, RunningKept
<1> HIDE DEF Seen, Stutter
<1> QED
  BY <1>1, <1>2, <1>3, <1>4, <1>5, <1>6, <1>7, <1>8, <1>9 DEF Next, ClientStep, RunStep, Seen

(* By names, the scheduler does what Scheduler says, for any tasks, names,  *)
(* threads and calls: executions of a name do not overlap before a          *)
(* shutdown, and what is accepted is settled by a later execution only.     *)
THEOREM Implementation == Spec => Implements
<1>1. Init => ByName!Init
  BY DEF Init, ByName!Init, Running
<1>2. IInv /\ [Next]_vars => [ByName!Next]_(ByName!vars)
  BY StepRefines
<1> QED
  BY <1>1, <1>2, Invariance, PTL DEF Spec, Implements, ByName!Spec
=============================================================================
