-------------------------- MODULE UserCreateProofs --------------------------
(* Proofs about UID and UserCreate, for any nodes, threads, names and        *)
(* bounds: the numbers of a node go up and its first one is given out once;  *)
(* the threads of UserCreate use the sequence as UID describes it, the id    *)
(* that create returns is that of the user created, and names are registered *)
(* once.                                                                    *)
EXTENDS UserCreate, TLAPS, SequenceTheorems

USE DEF Goto, InNext

-----------------------------------------------------------------------------
(* The sequence, when a failing database call is a load or an insert.        *)

(* No number has been issued at the start. *)
LEMMA InitIInv == Init => IInv
<1> SUFFICES ASSUME Init PROVE IInv
  OBVIOUS
<1>1. issued \in [Nodes -> Seq(Nat)] /\ \A n \in Nodes : DOMAIN issued[n] = {}
  BY EmptySeq DEF Init
<1>2. TypeOK
  BY <1>1 DEF Init, TypeOK
<1>3. LockHeld /\ NoneBefore /\ Loaded /\ Linking /\ Below /\ Updating /\ PerNodeIncreasing
  BY <1>1, EmptySeq DEF Init, LockHeld, NoneBefore, Loaded, Below, Updating, Linking, PerNodeIncreasing
<1> QED
  BY <1>2, <1>3 DEF IInv, Core

(* A call that returns r on its node: the history grows by r at the end.    *)
LEMMA ReturnFacts ==
  ASSUME TypeOK, NEW t \in Threads, NEW r \in Nat \cup {-1}, Return(t, r)
  PROVE  /\ got' \in [Threads -> Nat \cup {-1}]
         /\ lock' \in [Nodes -> Threads \cup {NoThread}]
         /\ pc' = [pc EXCEPT ![t] = "returned"]
         /\ issued' \in [Nodes -> Seq(Nat)]
         /\ \A n \in Nodes : n # NodeOf[t] => issued'[n] = issued[n] /\ lock'[n] = lock[n]
         /\ \/ issued' = issued
            \/ /\ r \in Nat
               /\ issued'[NodeOf[t]] = Append(issued[NodeOf[t]], r)
               /\ DOMAIN issued'[NodeOf[t]] = 1..Len(issued[NodeOf[t]]) + 1
               /\ \A i \in 1..Len(issued[NodeOf[t]]) : issued'[NodeOf[t]][i] = issued[NodeOf[t]][i]
               /\ issued'[NodeOf[t]][Len(issued[NodeOf[t]]) + 1] = r
<1>1. NodeOf[t] \in Nodes /\ issued[NodeOf[t]] \in Seq(Nat)
  BY DEF TypeOK, Nodes
<1>2. CASE r = -1
  BY <1>1, <1>2 DEF Return, TypeOK
<1>3. CASE r # -1
  <2>1. r \in Nat /\ Append(issued[NodeOf[t]], r) \in Seq(Nat)
    BY <1>1, <1>3, AppendProperties
  <2>2. issued' = [issued EXCEPT ![NodeOf[t]] = Append(issued[NodeOf[t]], r)]
    BY <1>3 DEF Return
  <2>3. issued' \in [Nodes -> Seq(Nat)] /\ issued'[NodeOf[t]] = Append(issued[NodeOf[t]], r)
    BY <1>1, <2>1, <2>2 DEF TypeOK
  <2> QED
    BY <1>1, <2>1, <2>2, <2>3, AppendProperties DEF Return, TypeOK
<1> QED
  BY <1>2, <1>3

(* Returning a number above all numbers of the node and below var' keeps    *)
(* the history in order.                                                    *)
LEMMA ReturnOrdered ==
  ASSUME TypeOK, Below, PerNodeIncreasing, NEW t \in Threads, NEW r \in Nat, Return(t, r),
         var \in Nat, var' \in Nat, var <= var', 0 < r, r < var',
         \A i \in DOMAIN issued[NodeOf[t]] : issued[NodeOf[t]][i] < r
  PROVE  Below' /\ PerNodeIncreasing'
<1> DEFINE n == NodeOf[t]
<1>1. n \in Nodes /\ issued[n] \in Seq(Nat)
  BY DEF TypeOK, Nodes
<1>2. /\ issued' \in [Nodes -> Seq(Nat)]
      /\ \A m \in Nodes : m # n => issued'[m] = issued[m]
      /\ \/ issued' = issued
         \/ /\ DOMAIN issued'[n] = 1..Len(issued[n]) + 1
            /\ \A i \in 1..Len(issued[n]) : issued'[n][i] = issued[n][i]
            /\ issued'[n][Len(issued[n]) + 1] = r
  BY ReturnFacts
<1>3. \A m \in Nodes : \A i \in DOMAIN issued[m] : issued[m][i] \in Nat
  BY DEF TypeOK
<1>0. \A i \in DOMAIN issued[n] : issued[n][i] < r
  OBVIOUS
<1> HIDE DEF n
<1>4. CASE issued' = issued
  BY <1>3, <1>4 DEF Below, PerNodeIncreasing
<1>5. CASE /\ DOMAIN issued'[n] = 1..Len(issued[n]) + 1
           /\ \A i \in 1..Len(issued[n]) : issued'[n][i] = issued[n][i]
           /\ issued'[n][Len(issued[n]) + 1] = r
  <2>0. DOMAIN issued[n] = 1..Len(issued[n]) /\ Len(issued[n]) \in Nat
    BY <1>1
  <2>1. ASSUME NEW m \in Nodes, NEW i \in DOMAIN issued'[m]
        PROVE  0 < issued'[m][i] /\ issued'[m][i] < var'
    <3>1. CASE m # n
      BY <1>2, <1>3, <2>1, <3>1 DEF Below
    <3>2. CASE m = n /\ i \in 1..Len(issued[n])
      BY <1>3, <1>5, <2>0, <3>2 DEF Below
    <3>3. CASE m = n /\ i = Len(issued[n]) + 1
      BY <1>5, <3>3
    <3> QED
      BY <1>5, <2>0, <2>1, <3>1, <3>2, <3>3
  <2>2. ASSUME NEW m \in Nodes, NEW i \in DOMAIN issued'[m], NEW k \in DOMAIN issued'[m], i < k
        PROVE  issued'[m][i] < issued'[m][k]
    <3>1. CASE m # n
      BY <1>2, <2>2, <3>1 DEF PerNodeIncreasing
    <3>2. CASE m = n /\ k \in 1..Len(issued[n])
      BY <1>5, <2>0, <2>2, <3>2 DEF PerNodeIncreasing
    <3>3. CASE m = n /\ k = Len(issued[n]) + 1
      <4>1. i \in 1..Len(issued[n])
        BY <1>5, <2>0, <2>2, <3>3
      <4> QED
        BY <1>0, <1>5, <2>0, <3>3, <4>1
    <3> QED
      BY <1>5, <2>0, <3>1, <3>2, <3>3
  <2> QED
    BY <2>1, <2>2 DEF Below, PerNodeIncreasing
<1> QED
  BY <1>2, <1>4, <1>5

-----------------------------------------------------------------------------
(* One step at a time.                                                      *)

(* What holds whatever fails: the types, who holds the lock of a node, and  *)
(* how a document is created under a linkid nobody else has.                *)
LEMMA CoreStep ==
  ASSUME Core, [Next]_vars
  PROVE  Core'
<1>0. /\ \A t \in Threads : NodeOf[t] \in Nodes
      /\ var \in Nat /\ v \in [Threads -> Nat]
  BY DEF Core, TypeOK, Nodes
<1>1. ASSUME NEW t \in Threads, Call(t)
      PROVE  Core'
  <2>1. TypeOK'
    BY <1>0, <1>1 DEF Call, Core, TypeOK
  <2>2. LockHeld'
    BY <1>0, <1>1, ThreadsAssumption DEF Call, Core, TypeOK, LockHeld
  <2>3. NoneBefore' /\ Loaded' /\ Linking'
    BY <1>1 DEF Call, Core, TypeOK, NoneBefore, Loaded, Linking
  <2> QED
    BY <2>1, <2>2, <2>3 DEF Core
<1>2. ASSUME NEW t \in Threads, LoadFound(t)
      PROVE  Core'
  <2>1. TypeOK' /\ LockHeld' /\ NoneBefore'
    BY <1>0, <1>2 DEF LoadFound, Core, TypeOK, LockHeld, NoneBefore
  <2>2. Loaded'
    BY <1>0, <1>2 DEF LoadFound, Core, TypeOK, Loaded
  <2>3. Linking'
    BY <1>2 DEF LoadFound, Core, TypeOK, Linking
  <2> QED
    BY <2>1, <2>2, <2>3 DEF Core
<1>3. ASSUME NEW t \in Threads, LoadNull(t)
      PROVE  Core'
  <2>1. TypeOK' /\ LockHeld' /\ NoneBefore'
    BY <1>0, <1>3 DEF LoadNull, Core, TypeOK, LockHeld, NoneBefore
  <2>2. Loaded'
    BY <1>3 DEF LoadNull, Core, TypeOK, Loaded
  <2>3. Linking'
    BY <1>3 DEF LoadNull, Core, TypeOK, Linking
  <2> QED
    BY <2>1, <2>2, <2>3 DEF Core
<1>4. ASSUME NEW t \in Threads, Insert(t)
      PROVE  Core'
  <2>1. TypeOK' /\ LockHeld' /\ NoneBefore'
    BY <1>4 DEF Insert, Core, TypeOK, LockHeld, NoneBefore, Linking
  <2>2. Loaded'
    BY <1>0, <1>4 DEF Insert, Core, TypeOK, Loaded
  <2>3. CASE UNCHANGED <<var, linkid>>
    <3>1. Linking'
      BY <1>4, <2>3 DEF Insert, Core, TypeOK, Linking
    <3> QED
      BY <2>1, <2>2, <3>1 DEF Core
  <2>4. CASE var = 0 /\ var' = v[t] + 1 /\ linkid' = link[t]
    <3>1. v[t] = 1 /\ link[t] > 0 /\ var' = 2 /\ \A n \in Nodes : issued[n] = << >>
      BY <1>4, <2>4 DEF Insert, Core, Linking, NoneBefore
    <3>2. Linking'
      BY <1>0, <1>4, <2>4, <3>1 DEF Insert, Core, TypeOK, Linking
    <3> QED
      BY <2>1, <2>2, <3>2 DEF Core
  <2> QED
    BY <1>4, <2>3, <2>4 DEF Insert
<1>5. ASSUME NEW t \in Threads, Reload(t)
      PROVE  Core'
  <2>1. CASE Return(t, -1)
    <3>1. issued' = issued /\ pc' = [pc EXCEPT ![t] = "returned"]
      BY <2>1 DEF Return
    <3>2. TypeOK'
      BY <1>5, <2>1, ReturnFacts DEF Reload, Core, TypeOK
    <3>3. LockHeld'
      BY <1>0, <1>5, <2>1 DEF Reload, Return, Core, TypeOK, LockHeld
    <3>4. NoneBefore' /\ Loaded' /\ Linking'
      BY <1>5, <3>1 DEF Reload, Core, TypeOK, NoneBefore, Loaded, Linking
    <3> QED
      BY <3>2, <3>3, <3>4 DEF Core
  <2>2. CASE var # 0 /\ linkid = link[t] /\ Return(t, v[t])
    <3>1. pc' = [pc EXCEPT ![t] = "returned"]
      BY <2>2 DEF Return
    <3>2. TypeOK'
      BY <1>0, <1>5, <2>2, ReturnFacts DEF Reload, Core, TypeOK
    <3>3. LockHeld'
      BY <1>0, <1>5, <2>2 DEF Reload, Return, Core, TypeOK, LockHeld
    <3>4. NoneBefore' /\ Loaded'
      BY <1>5, <2>2, <3>1 DEF Reload, Core, TypeOK, NoneBefore, Loaded
    <3>5. \A u \in Threads : u # t /\ pc[u] \in InNext => NodeOf[u] # NodeOf[t]
      BY <1>5 DEF Reload, Core, LockHeld
    <3>6. \A n \in Nodes : n # NodeOf[t] => issued'[n] = issued[n]
      BY <1>0, <2>2, ReturnFacts DEF Core
    <3>7. Linking'
      BY <1>0, <1>5, <3>1, <3>5, <3>6 DEF Reload, Core, TypeOK, Linking
    <3> QED
      BY <3>2, <3>3, <3>4, <3>7 DEF Core
  <2>3. CASE Goto(t, "load") /\ UNCHANGED <<lock, got, issued>>
    <3>1. TypeOK' /\ LockHeld'
      BY <1>5, <2>3 DEF Reload, Core, TypeOK, LockHeld
    <3>2. NoneBefore' /\ Loaded' /\ Linking'
      BY <1>5, <2>3 DEF Reload, Core, TypeOK, NoneBefore, Loaded, Linking
    <3> QED
      BY <3>1, <3>2 DEF Core
  <2> QED
    BY <1>5, <2>1, <2>2, <2>3 DEF Reload
<1>6. ASSUME NEW t \in Threads, Update(t)
      PROVE  Core'
  <2>1. pc[t] = "update" /\ v[t] \in Nat /\ v[t] > 0 /\ var > 0
    BY <1>6 DEF Update, Core, TypeOK, Loaded
  <2>2. /\ Return(t, v[t]) /\ UNCHANGED <<linkid, v, link, fresh, calls>>
        /\ var' \in Nat \ {1} /\ var' > 0
    BY <1>0, <1>6, <2>1 DEF Update, Core, TypeOK
  <2>3. TypeOK'
    BY <2>1, <2>2, ReturnFacts DEF Core, TypeOK
  <2>4. LockHeld'
    BY <1>0, <2>1, <2>2 DEF Return, Core, TypeOK, LockHeld
  <2>5. \A u \in Threads : u # t /\ pc[u] \in InNext => NodeOf[u] # NodeOf[t]
    BY <2>1 DEF Core, LockHeld
  <2>6. /\ \A n \in Nodes : n # NodeOf[t] => issued'[n] = issued[n]
        /\ pc' = [pc EXCEPT ![t] = "returned"]
    BY <2>1, <2>2, ReturnFacts DEF Core
  <2>7. NoneBefore' /\ Loaded'
    BY <2>2, <2>6 DEF Core, TypeOK, NoneBefore, Loaded
  <2>8. Linking'
    <3>1. var' # 0
      BY <2>2
    <3>2. \A u \in Threads : pc'[u] \in {"insert", "reload"} => u # t /\ pc'[u] = pc[u]
      BY <2>6 DEF Core, TypeOK
    <3>3. \A u \in Threads : pc'[u] = "reload" => issued'[NodeOf[u]] = issued[NodeOf[u]]
      BY <1>0, <2>5, <2>6, <3>2
    <3> QED
      BY <2>2, <3>1, <3>2, <3>3 DEF Core, Linking
  <2> QED
    BY <2>3, <2>4, <2>7, <2>8 DEF Core
<1>7. ASSUME NEW t \in Threads, Consume(t)
      PROVE  Core'
  BY <1>7 DEF Consume, Core, TypeOK, LockHeld, NoneBefore, Loaded, Linking
<1>8. CASE UNCHANGED vars
  BY <1>8 DEF vars, Core, TypeOK, LockHeld, NoneBefore, Loaded, Linking
<1> QED
  BY <1>1, <1>2, <1>3, <1>4, <1>5, <1>6, <1>7, <1>8 DEF Next, Inside

(* The numbers of a node go up, when a failing call is a load or an insert. *)
THEOREM IInvStep ==
  ASSUME "update" \notin FaultKinds, IInv, [Next]_vars
  PROVE  IInv'
<1> DEFINE Goal == Below' /\ Updating' /\ PerNodeIncreasing'
<1> SUFFICES Goal
  BY CoreStep DEF IInv
<1>0. /\ \A t \in Threads : NodeOf[t] \in Nodes
      /\ \A n \in Nodes : \A i \in DOMAIN issued[n] : issued[n][i] \in Nat
      /\ var \in Nat
  BY DEF IInv, Core, TypeOK, Nodes
<1>1. ASSUME NEW t \in Threads, Call(t)
      PROVE  Goal
  BY <1>1 DEF Call, IInv, Core, TypeOK, Below, Updating, PerNodeIncreasing
<1>2. ASSUME NEW t \in Threads, LoadFound(t)
      PROVE  Goal
  <2>1. Below' /\ PerNodeIncreasing'
    BY <1>2 DEF LoadFound, IInv, Below, PerNodeIncreasing
  <2>2. Updating'
    BY <1>0, <1>2 DEF LoadFound, IInv, Core, TypeOK, Below, Updating
  <2> QED
    BY <2>1, <2>2
<1>3. ASSUME NEW t \in Threads, LoadNull(t)
      PROVE  Goal
  BY <1>3 DEF LoadNull, IInv, Core, TypeOK, Below, Updating, PerNodeIncreasing
<1>4. ASSUME NEW t \in Threads, Insert(t)
      PROVE  Goal
  <2>1. CASE UNCHANGED <<var, linkid>>
    BY <1>4, <2>1 DEF Insert, IInv, Core, TypeOK, Below, PerNodeIncreasing, Updating
  <2>2. CASE var = 0 /\ var' = v[t] + 1 /\ linkid' = link[t]
    <3>1. v[t] = 1 /\ var' = 2 /\ \A n \in Nodes : issued[n] = << >>
      BY <1>4, <2>2 DEF Insert, IInv, Core, Linking, NoneBefore
    <3> QED
      BY <1>0, <1>4, <2>2, <3>1 DEF Insert, IInv, Core, TypeOK, Below, PerNodeIncreasing, Updating
  <2> QED
    BY <1>4, <2>1, <2>2 DEF Insert
<1>5. ASSUME NEW t \in Threads, Reload(t)
      PROVE  Goal
  <2>1. CASE Return(t, -1)
    <3>1. issued' = issued /\ pc' = [pc EXCEPT ![t] = "returned"]
      BY <2>1 DEF Return
    <3> QED
      BY <1>5, <3>1 DEF Reload, IInv, Core, TypeOK, Below, PerNodeIncreasing, Updating
  <2>2. CASE var # 0 /\ linkid = link[t] /\ Return(t, v[t])
    <3>1. v[t] = 1 /\ var > 1 /\ issued[NodeOf[t]] = << >> /\ pc' = [pc EXCEPT ![t] = "returned"]
      BY <1>5, <2>2 DEF Reload, Return, IInv, Core, TypeOK, Linking
    <3>2. Below' /\ PerNodeIncreasing'
      BY <1>5, <2>2, <3>1, ReturnOrdered DEF Reload, IInv, Core, TypeOK
    <3>3. \A u \in Threads : u # t /\ pc[u] \in InNext => NodeOf[u] # NodeOf[t]
      BY <1>5 DEF Reload, IInv, Core, LockHeld
    <3>4. \A n \in Nodes : n # NodeOf[t] => issued'[n] = issued[n]
      BY <2>2, <3>1, ReturnFacts DEF IInv, Core
    <3>5. Updating'
      BY <1>0, <1>5, <3>1, <3>3, <3>4 DEF Reload, IInv, Core, TypeOK, Updating
    <3> QED
      BY <3>2, <3>5
  <2>3. CASE Goto(t, "load") /\ UNCHANGED <<lock, got, issued>>
    BY <1>5, <2>3 DEF Reload, IInv, Core, TypeOK, Below, PerNodeIncreasing, Updating
  <2> QED
    BY <1>5, <2>1, <2>2, <2>3 DEF Reload
<1>6. ASSUME NEW t \in Threads, Update(t)
      PROVE  Goal
  <2>1. /\ pc[t] = "update" /\ v[t] \in Nat /\ 0 < v[t] /\ v[t] <= var
        /\ \A i \in DOMAIN issued[NodeOf[t]] : issued[NodeOf[t]][i] < v[t]
    BY <1>6 DEF Update, IInv, Core, TypeOK, Updating
  <2>2. /\ Return(t, v[t]) /\ UNCHANGED <<linkid, v, link, fresh, calls>>
        /\ var' \in Nat \ {1} /\ var <= var' /\ v[t] < var'
    BY <1>0, <1>6, <2>1 DEF Update, IInv, Core, TypeOK
  <2>3. Below' /\ PerNodeIncreasing'
    BY <1>0, <2>1, <2>2, ReturnOrdered DEF IInv, Core
  <2>4. \A u \in Threads : u # t /\ pc[u] \in InNext => NodeOf[u] # NodeOf[t]
    BY <2>1 DEF IInv, Core, LockHeld
  <2>5. /\ \A n \in Nodes : n # NodeOf[t] => issued'[n] = issued[n]
        /\ pc' = [pc EXCEPT ![t] = "returned"]
    BY <2>1, <2>2, ReturnFacts DEF IInv, Core
  <2>6. Updating'
    <3>1. \A u \in Threads : pc'[u] = "update" => u # t /\ pc[u] = "update"
      BY <2>5 DEF IInv, Core, TypeOK
    <3>2. \A u \in Threads : pc'[u] = "update" =>
            issued'[NodeOf[u]] = issued[NodeOf[u]] /\ v'[u] = v[u] /\ v[u] \in Nat
      BY <1>0, <2>2, <2>4, <2>5, <3>1 DEF IInv, Core, TypeOK
    <3> QED
      BY <1>0, <2>2, <3>1, <3>2 DEF IInv, Updating
  <2> QED
    BY <2>3, <2>6
<1>7. ASSUME NEW t \in Threads, Consume(t)
      PROVE  Goal
  BY <1>7 DEF Consume, IInv, Core, TypeOK, Below, Updating, PerNodeIncreasing
<1>8. CASE UNCHANGED vars
  BY <1>8 DEF vars, IInv, Core, TypeOK, Below, Updating, PerNodeIncreasing
<1> HIDE DEF Goal
<1> QED
  BY <1>1, <1>2, <1>3, <1>4, <1>5, <1>6, <1>7, <1>8 DEF Next, Inside

(* While no update fails, every node hands out increasing numbers, whatever *)
(* loads and inserts fail and however the nodes interleave.                 *)
THEOREM NodeOrder ==
  ASSUME "update" \notin FaultKinds
  PROVE  Spec => []PerNodeIncreasing
<1>1. IInv /\ [Next]_vars => IInv'
  BY IInvStep
<1>2. IInv => PerNodeIncreasing
  BY DEF IInv, Core
<1> QED
  BY InitIInv, <1>1, <1>2, PTL DEF Spec

(* The types hold whatever fails, updates included.                         *)
THEOREM TypeCorrect == Spec => []TypeOK
<1>1. Init => Core
  BY InitIInv DEF IInv
<1>2. Core /\ [Next]_vars => Core'
  BY CoreStep
<1>3. Core => TypeOK
  BY DEF Core
<1> QED
  BY <1>1, <1>2, <1>3, PTL DEF Spec

-----------------------------------------------------------------------------
(* Who creates the document.                                                *)

(* A return of a number other than 1 changes nothing about the ones.        *)
LEMMA ReturnNotOne ==
  ASSUME TypeOK, CreatedOnce, NEW t \in Threads, NEW r \in Nat \cup {-1}, r # 1, Return(t, r)
  PROVE  /\ \A n \in Nodes : \A i \in DOMAIN issued'[n] :
              issued'[n][i] = 1 => i \in DOMAIN issued[n] /\ issued[n][i] = 1
         /\ CreatedOnce'
<1>1. NodeOf[t] \in Nodes /\ issued[NodeOf[t]] \in Seq(Nat)
  BY DEF TypeOK, Nodes
<1>2. \A n \in Nodes : \A i \in DOMAIN issued'[n] :
        issued'[n][i] = 1 => i \in DOMAIN issued[n] /\ issued[n][i] = 1
  <2> SUFFICES ASSUME NEW n \in Nodes, NEW i \in DOMAIN issued'[n], issued'[n][i] = 1
               PROVE  i \in DOMAIN issued[n] /\ issued[n][i] = 1
    OBVIOUS
  <2>1. CASE n # NodeOf[t] \/ issued' = issued
    BY <2>1, ReturnFacts
  <2>2. CASE n = NodeOf[t] /\ issued' # issued
    <3>1. /\ DOMAIN issued'[n] = 1..Len(issued[n]) + 1
          /\ \A k \in 1..Len(issued[n]) : issued'[n][k] = issued[n][k]
          /\ issued'[n][Len(issued[n]) + 1] = r
      BY <2>2, ReturnFacts
    <3>2. DOMAIN issued[n] = 1..Len(issued[n]) /\ Len(issued[n]) \in Nat
      BY <1>1, <2>2
    <3>3. i # Len(issued[n]) + 1
      BY <3>1
    <3> QED
      BY <3>1, <3>2, <3>3
  <2> QED
    BY <2>1, <2>2
<1>3. CreatedOnce'
  BY <1>2 DEF CreatedOnce
<1> QED
  BY <1>2, <1>3

LEMMA CreatorStep ==
  ASSUME Core, Creator, CreatedOnce, [Next]_vars
  PROVE  Creator' /\ CreatedOnce'
<1>0. /\ \A t \in Threads : NodeOf[t] \in Nodes
      /\ var \in Nat \ {1} /\ linkid \in Nat /\ link \in [Threads -> Nat] /\ v \in [Threads -> Nat]
      /\ pc \in [Threads -> {"idle", "returned"} \cup InNext]
      /\ TypeOK
  BY DEF Core, TypeOK, Nodes
<1>1. ASSUME NEW t \in Threads, Call(t) \/ Consume(t)
      PROVE  Creator' /\ CreatedOnce'
  BY <1>0, <1>1 DEF Call, Consume, Creator, CreatedOnce
<1>2. ASSUME NEW t \in Threads, LoadFound(t)
      PROVE  Creator' /\ CreatedOnce'
  BY <1>0, <1>2 DEF LoadFound, Creator, CreatedOnce
<1>3. ASSUME NEW t \in Threads, LoadNull(t)
      PROVE  Creator' /\ CreatedOnce'
  <2>1. linkid # fresh /\ link' = [link EXCEPT ![t] = fresh] /\ UNCHANGED <<var, linkid, issued>>
    BY <1>3 DEF LoadNull, Core, TypeOK, Linking
  <2>2. \A u \in Threads : link'[u] = linkid' => link[u] = linkid
    BY <1>0, <2>1
  <2>3. \A u \in Threads : pc'[u] = "update" => v'[u] # 1
    BY <1>0, <1>3 DEF LoadNull, Creator
  <2> QED
    BY <2>1, <2>2, <2>3 DEF Creator, CreatedOnce
<1>4. ASSUME NEW t \in Threads, Insert(t)
      PROVE  Creator' /\ CreatedOnce'
  <2>1. CASE UNCHANGED <<var, linkid>>
    BY <1>0, <1>4, <2>1 DEF Insert, Creator, CreatedOnce
  <2>2. CASE var = 0 /\ linkid' = link[t]
    <3>1. \A n \in Nodes : \A i \in DOMAIN issued'[n] : FALSE
      BY <1>0, <1>4, <2>2 DEF Insert, Core, TypeOK, NoneBefore
    <3>2. link[t] > 0
      BY <1>4 DEF Insert, Core, Linking
    <3> QED
      BY <1>0, <1>4, <2>2, <3>1, <3>2 DEF Insert, Creator, CreatedOnce
  <2> QED
    BY <1>4, <2>1, <2>2 DEF Insert
<1>5. ASSUME NEW t \in Threads, Reload(t)
      PROVE  Creator' /\ CreatedOnce'
  <2>1. UNCHANGED <<var, linkid, v, link>>
    BY <1>5 DEF Reload
  <2>2. CASE Return(t, -1)
    <3>1. \A u \in Threads : pc'[u] = "update" => pc[u] = "update"
      BY <1>0, <2>2 DEF Return
    <3> QED
      BY <1>0, <2>1, <2>2, <3>1, ReturnNotOne DEF Creator
  <2>3. CASE var # 0 /\ linkid = link[t] /\ Return(t, v[t])
    <3>1. v[t] = 1 /\ link[t] > 0 /\ issued[NodeOf[t]] = << >>
      BY <1>5, <2>3 DEF Reload, Core, Linking
    <3>2. \A u \in Threads : link[u] = linkid => u = t
      BY <1>0, <2>3, <3>1 DEF Core, Linking
    <3>3. \A n \in Nodes : \A i \in DOMAIN issued[n] : issued[n][i] = 1 => n = NodeOf[t]
      BY <2>3 DEF Creator
    <3>4. \A n \in Nodes : n # NodeOf[t] => issued'[n] = issued[n]
      BY <1>0, <2>3, ReturnFacts
    <3>5. issued'[NodeOf[t]] = <<1>> \/ issued' = issued
      BY <1>0, <2>3, <3>1 DEF Return, TypeOK
    <3>6. \A n \in Nodes : \A i \in DOMAIN issued'[n] : issued'[n][i] = 1 => n = NodeOf[t] /\ i = 1
      <4>1. \A i \in DOMAIN issued'[NodeOf[t]] : i = 1
        BY <3>1, <3>5
      <4> QED
        BY <3>3, <3>4, <4>1
    <3>7. \A u \in Threads : pc'[u] = "update" => pc[u] = "update"
      BY <1>0, <2>3 DEF Return
    <3> QED
      BY <2>1, <3>2, <3>6, <3>7 DEF Creator, CreatedOnce
  <2>4. CASE Goto(t, "load") /\ UNCHANGED <<lock, got, issued>>
    BY <1>0, <2>1, <2>4 DEF Creator, CreatedOnce
  <2> QED
    BY <1>5, <2>2, <2>3, <2>4 DEF Reload
<1>6. ASSUME NEW t \in Threads, Update(t)
      PROVE  Creator' /\ CreatedOnce'
  <2>1. v[t] \in Nat /\ v[t] # 1
    BY <1>0, <1>6 DEF Update, Creator
  <2>2. Return(t, v[t]) /\ UNCHANGED <<linkid, v, link>> /\ linkid # 0
    <3>1. var > 0
      BY <1>6 DEF Update, Core, Loaded
    <3> QED
      BY <1>0, <1>6, <3>1 DEF Update, Creator
  <2>3. \A u \in Threads : pc'[u] = "update" => pc[u] = "update"
    BY <1>0, <2>2 DEF Return
  <2> QED
    BY <1>0, <2>1, <2>2, <2>3, ReturnNotOne DEF Creator
<1>7. CASE UNCHANGED vars
  BY <1>7 DEF vars, Creator, CreatedOnce
<1> QED
  BY <1>1, <1>2, <1>3, <1>4, <1>5, <1>6, <1>7 DEF Next, Inside

(* However many nodes try to create the document at the same time, one call *)
(* on one node gets number 1, whatever database calls fail, updates too.    *)
THEOREM FirstOnce == Spec => []CreatedOnce
<1>1. Init => Core /\ Creator /\ CreatedOnce
  BY InitIInv, EmptySeq DEF IInv, Init, Creator, CreatedOnce
<1>2. Core /\ Creator /\ CreatedOnce /\ [Next]_vars => Core' /\ Creator' /\ CreatedOnce'
  BY CoreStep, CreatorStep
<1> QED
  BY <1>1, <1>2, PTL DEF Spec

(* With a single node the numbers are unique.                               *)
THEOREM OneNodeUnique ==
  ASSUME "update" \notin FaultKinds, \A m, n \in Nodes : m = n
  PROVE  Spec => []UniqueSequence
<1>1. IInv /\ [Next]_vars => IInv'
  BY IInvStep
<1>2. IInv => UniqueSequence
  <2> SUFFICES ASSUME IInv, NEW n \in Nodes, NEW i \in DOMAIN issued[n], NEW k \in DOMAIN issued[n],
                      issued[n][i] = issued[n][k]
               PROVE  i = k
    BY DEF UniqueSequence
  <2>1. i \in Nat /\ k \in Nat /\ issued[n][i] \in Nat
    BY DEF IInv, Core, TypeOK
  <2> QED
    BY <2>1 DEF IInv, Core, PerNodeIncreasing
<1> QED
  BY InitIInv, <1>1, <1>2, PTL DEF Spec

-----------------------------------------------------------------------------
(* The creation of users                                                    *)
USE DEF UGoto, GivenId

uvars == <<vars, userVars>>

(* Every step of a creation is a step of the sequence, or leaves it alone:  *)
(* UserCreate implements UID.                                               *)
LEMMA StepMaps ==
  ASSUME [UNext]_uvars
  PROVE  [Next]_vars
<1>1. ASSUME NEW t \in Threads, NEW n \in Names, Register(t, n) \/ Add(t, n) \/ CreateGiven(t, n)
      PROVE  UNCHANGED vars
  BY <1>1 DEF Register, Add, Try, CreateGiven
<1>2. ASSUME NEW i \in DOMAIN users, Lock(i) \/ Unlock(i)
      PROVE  UNCHANGED vars
  BY <1>2 DEF Lock, Unlock
<1>3. ASSUME NEW t \in Threads, CallNext(t) \/ InNextStep(t) \/ NextReturned(t)
      PROVE  Next
  BY <1>3 DEF CallNext, InNextStep, NextReturned, Next
<1>4. ASSUME NEW t \in Threads, Exists(t) \/ Store(t)
      PROVE  UNCHANGED vars
  BY <1>4 DEF Exists, Store
<1> QED
  BY <1>1, <1>2, <1>3, <1>4 DEF UNext, uvars

THEOREM CreateImplementsUID == USpec => Spec
<1>1. UInit => Init
  BY DEF UInit
<1>2. [UNext]_uvars => [Next]_vars
  BY StepMaps
<1> QED
  BY <1>1, <1>2, PTL DEF USpec, Spec, uvars

-----------------------------------------------------------------------------
(* What one step of next() does to the numbers issued.                      *)
LEMMA NextStepFacts ==
  ASSUME IInv, IInv', NEW t \in Threads, Inside(t)
  PROVE  /\ \A u \in Threads \ {t} : pc'[u] = pc[u] /\ got'[u] = got[u]
         /\ pc'[t] # "idle"
         /\ \A n \in Nodes, i \in Nat : Issued(n, i) => Issued(n, i)'
         /\ pc'[t] = "returned" /\ got'[t] # -1 =>
              /\ got'[t] \in Nat \ {0}
              /\ Issued(NodeOf[t], got[t])'
              /\ ~Issued(NodeOf[t], got'[t])
<1>0. /\ TypeOK /\ NodeOf[t] \in Nodes /\ issued[NodeOf[t]] \in Seq(Nat)
      /\ v[t] \in Nat
  BY DEF IInv, Core, TypeOK, Nodes
<1>1. CASE LoadFound(t) \/ LoadNull(t) \/ Insert(t)
  BY <1>0, <1>1 DEF LoadFound, LoadNull, Insert, TypeOK, Issued
<1>2. CASE UNCHANGED <<lock, got, issued>> /\ Goto(t, "load")
  BY <1>0, <1>2 DEF TypeOK, Issued
<1>3. ASSUME NEW r \in Nat \cup {-1}, Return(t, r)
      PROVE  /\ \A u \in Threads \ {t} : pc'[u] = pc[u] /\ got'[u] = got[u]
             /\ pc'[t] # "idle"
             /\ \A n \in Nodes, i \in Nat : Issued(n, i) => Issued(n, i)'
             /\ pc'[t] = "returned" /\ got'[t] # -1 =>
                  /\ got'[t] \in Nat \ {0}
                  /\ Issued(NodeOf[t], got[t])'
                  /\ ~Issued(NodeOf[t], got'[t])
  <2>1. /\ pc' = [pc EXCEPT ![t] = "returned"] /\ got' = [got EXCEPT ![t] = r] /\ got'[t] = r
        /\ \A n \in Nodes : n # NodeOf[t] => issued'[n] = issued[n]
    BY <1>0, <1>3, ReturnFacts DEF Return, TypeOK
  <2>2. CASE r = -1
    BY <1>0, <1>3, <2>1, <2>2 DEF Return, TypeOK, Issued
  <2>3. CASE r # -1
    <3> DEFINE n == NodeOf[t]
               len == Len(issued[n])
    <3>1. issued'[n] = Append(issued[n], r) /\ r \in Nat
      BY <1>0, <1>3, <2>3 DEF Return, TypeOK
    <3>2. /\ DOMAIN issued[n] = 1..len /\ len \in Nat
          /\ DOMAIN issued'[n] = 1..len + 1
          /\ \A i \in 1..len : issued'[n][i] = issued[n][i]
          /\ issued'[n][len + 1] = r
      BY <1>0, <3>1, AppendProperties
    <3> HIDE DEF n, len
    <3>3. n \in Nodes
      BY <1>0 DEF n
    <3>4. r # 0
      BY <3>2, <3>3 DEF IInv, Core, Below
    <3>5. \A i \in 1..len : issued[n][i] < r
      <4>1. PerNodeIncreasing'
        BY DEF IInv, Core
      <4>2. \A i \in 1..len : i \in 1..len + 1 /\ len + 1 \in 1..len + 1 /\ i < len + 1
        BY <3>2
      <4> QED
        BY <3>2, <3>3, <4>1, <4>2 DEF PerNodeIncreasing
    <3>6. ~Issued(n, r)
      BY <3>1, <3>2, <3>5 DEF Issued
    <3>7. Issued(n, r)'
      BY <3>2 DEF Issued
    <3>8. \A i \in Nat : Issued(n, i) => Issued(n, i)'
      BY <3>2 DEF Issued
    <3>9. \A m \in Nodes, i \in Nat : Issued(m, i) => Issued(m, i)'
      BY <2>1, <3>8 DEF Issued, n
    <3>10. /\ got'[t] = r /\ r \in Nat \ {0}
           /\ Issued(NodeOf[t], r)' /\ ~Issued(NodeOf[t], r)
      BY <2>1, <3>1, <3>4, <3>6, <3>7 DEF n
    <3>11. /\ \A u \in Threads \ {t} : pc'[u] = pc[u] /\ got'[u] = got[u]
           /\ pc'[t] # "idle"
      BY <1>0, <2>1 DEF TypeOK
    <3> QED
      BY <3>9, <3>10, <3>11
  <2> QED
    BY <2>2, <2>3
<1>4. CASE Reload(t)
  <2>1. \/ Return(t, -1)
        \/ Return(t, v[t])
        \/ UNCHANGED <<lock, got, issued>> /\ Goto(t, "load")
    BY <1>4 DEF Reload
  <2> QED
    BY <1>0, <1>2, <1>3, <2>1
<1>5. CASE Update(t)
  <2>1. Return(t, v[t])
    BY <1>5 DEF Update
  <2> QED
    BY <1>0, <1>3, <2>1
<1> QED
  BY <1>1, <1>4, <1>5 DEF Inside

-----------------------------------------------------------------------------
(* The ids.                                                                 *)

LEMMA TypeFacts ==
  ASSUME UTypeOK
  PROVE  /\ \A t \in Threads : NodeOf[t] \in Nodes /\ id[t] \in Nat \cup {-1}
         /\ \A c \in created : c[1][1] \in Threads /\ c[2] \in Nat \cup {-1}
BY DEF UTypeOK, ThreadTypes, Creations, Nodes

(* A step that gives no thread an id, and neither stores nor returns one.   *)
LEMMA NoNewId ==
  ASSUME IdInv, UTypeOK', UNCHANGED <<users, created>>,
         \A u \in Threads, i \in Nat : Holds(u, i)' => Holds(u, i),
         \A u \in Threads : upc'[u] = "store" /\ id'[u] # -1 =>
            id'[u] \notin DOMAIN users \/ (upc[u] = "store" /\ id'[u] = id[u]),
         \A n \in Nodes, i \in Nat : Issued(n, i) => Issued(n, i)'
  PROVE  HeldIsIssued' /\ HeldOnce' /\ UsedUp' /\ StoreIsNew' /\ ReturnedIsStored'
<1>1. \A i \in Nat : GivenTwice(i) => GivenTwice(i)'
  BY DEF GivenTwice
<1>2. /\ \A t \in Threads : NodeOf[t] \in Nodes /\ id[t] \in Nat \cup {-1} /\ id'[t] \in Nat \cup {-1}
      /\ \A c \in created : c[1][1] \in Threads /\ c[2] \in Nat \cup {-1}
  BY TypeFacts DEF IdInv, UTypeOK, ThreadTypes
<1>3. HeldIsIssued'
  BY <1>2 DEF IdInv, HeldIsIssued
<1>4. HeldOnce'
  BY DEF IdInv, HeldOnce
<1>5. UsedUp'
  BY <1>2 DEF IdInv, UsedUp
<1>6. StoreIsNew'
  BY <1>1, <1>2 DEF IdInv, StoreIsNew
<1>7. ReturnedIsStored'
  BY <1>1, <1>2 DEF IdInv, ReturnedIsStored
<1> QED
  BY <1>3, <1>4, <1>5, <1>6, <1>7

LEMMA NextStepIds ==
  ASSUME IInv, IInv', IdInv, NEW t \in Threads, InNextStep(t)
  PROVE  IdInv'
<1>1. /\ \A u \in Threads \ {t} : pc'[u] = pc[u] /\ got'[u] = got[u]
      /\ pc'[t] # "idle"
      /\ \A n \in Nodes, i \in Nat : Issued(n, i) => Issued(n, i)'
      /\ pc'[t] = "returned" /\ got'[t] # -1 =>
           /\ got'[t] \in Nat \ {0}
           /\ Issued(NodeOf[t], got[t])'
           /\ ~Issued(NodeOf[t], got'[t])
  BY NextStepFacts DEF InNextStep
<1>2. upc[t] = "next" /\ UNCHANGED userVars
  BY DEF InNextStep
<1>3. UTypeOK' /\ InStep' /\ GivenIsZero'
  BY <1>1, <1>2 DEF userVars, IdInv, UTypeOK, ThreadTypes, InStep, GivenIsZero
<1>4. /\ \A u \in Threads : NodeOf[u] \in Nodes
      /\ \A c \in created : c[1][1] \in Threads /\ c[2] \in Nat \cup {-1}
  BY TypeFacts DEF IdInv
<1>5. \A i \in Nat : GivenTwice(i) => GivenTwice(i)'
  BY <1>1 DEF GivenTwice
<1>6. ASSUME NEW u \in Threads, NEW i \in Nat, Holds(u, i)', ~Holds(u, i)
      PROVE  u = t /\ i = got'[t] /\ i # 0 /\ Issued(NodeOf[t], i)' /\ ~Issued(NodeOf[t], i)
  BY <1>1, <1>2, <1>6 DEF Holds, userVars
<1>7. HeldIsIssued'
  BY <1>1, <1>2, <1>4, <1>6 DEF IdInv, HeldIsIssued, userVars
<1>8. HeldOnce'
  BY <1>6 DEF IdInv, HeldOnce, HeldIsIssued
<1>9. UsedUp'
  BY <1>1, <1>2, <1>4, <1>6 DEF IdInv, UsedUp, userVars
<1>10. StoreIsNew'
  BY <1>2, <1>5 DEF IdInv, StoreIsNew, UTypeOK, ThreadTypes, userVars
<1>11. ReturnedIsStored'
  BY <1>2, <1>4, <1>5 DEF IdInv, ReturnedIsStored, userVars
<1> QED
  BY <1>3, <1>7, <1>8, <1>9, <1>10, <1>11 DEF IdInv

LEMMA CreateGivenIds ==
  ASSUME IdInv, NEW t \in Threads, NEW n \in Names, CreateGiven(t, n)
  PROVE  IdInv'
<1>1. /\ UNCHANGED <<vars, users, created>> /\ upc[t] = "out"
      /\ upc' = [upc EXCEPT ![t] = "given"] /\ id' = [id EXCEPT ![t] = 0]
  BY DEF CreateGiven, Enter
<1>2. UTypeOK' /\ InStep' /\ GivenIsZero'
  BY <1>1 DEF CreateGiven, Enter, vars, IdInv, UTypeOK, ThreadTypes, InStep, GivenIsZero
<1>3. /\ \A u \in Threads, k \in Nat : Holds(u, k)' => Holds(u, k)
      /\ \A u \in Threads : upc'[u] = "store" => upc[u] = "store" /\ id'[u] = id[u]
      /\ \A m \in Nodes, k \in Nat : Issued(m, k) => Issued(m, k)'
  BY <1>1 DEF vars, IdInv, UTypeOK, ThreadTypes, Holds, Issued
<1> QED
  BY <1>1, <1>2, <1>3, NoNewId DEF IdInv

LEMMA StoreIds ==
  ASSUME "store" \notin FaultKinds, IdInv, NEW t \in Threads, Store(t)
  PROVE  IdInv'
<1> DEFINE i == id[t]
           new == <<Creation(t), i>>
<1>1. /\ upc[t] \in {"store", "given"} /\ i \in Nat \cup {-1}
      /\ upc' = [upc EXCEPT ![t] = "out"] /\ created' = created \cup {new}
      /\ UNCHANGED <<issued, pc, got, id, name, begun>>
      /\ upc \in [Threads -> {"out", "call", "next", "exists", "store", "given"}]
      /\ upc[t] = "given" => i = 0
  BY DEF Store, vars, IdInv, UTypeOK, ThreadTypes, GivenIsZero
<1>2. /\ i \in DOMAIN users'
      /\ \A k \in DOMAIN users : k \in DOMAIN users' /\ users'[k] = users[k]
      /\ \A k \in DOMAIN users' : k \in DOMAIN users \/ k = i
      /\ i \notin DOMAIN users => users'[i] = Creation(t)
      /\ users' = [k \in DOMAIN users' |-> users'[k]]
  BY DEF Store, IdInv, UTypeOK, ThreadTypes
<1>3. new[1] = Creation(t) /\ new[2] = i /\ new[1][1] = t
  BY DEF Creation
<1>4. UTypeOK'
  <2>1. new \in Creations \X (Nat \cup {-1})
    BY <1>1 DEF IdInv, UTypeOK, ThreadTypes, Creation, Creations
  <2> QED
    BY <1>1, <1>2, <2>1 DEF IdInv, UTypeOK, ThreadTypes
<1> HIDE DEF new
<1>5. InStep' /\ GivenIsZero'
  BY <1>1 DEF IdInv, InStep, GivenIsZero
<1>6. /\ \A u \in Threads, k \in Nat : Holds(u, k)' <=> u # t /\ Holds(u, k)
      /\ i \notin {-1, 0} => Holds(t, i)
  BY <1>1 DEF Holds
<1>7. /\ \A n \in Nodes, k \in Nat : Issued(n, k)' <=> Issued(n, k)
      /\ \A k \in Nat : GivenTwice(k)' <=> GivenTwice(k)
  BY <1>1 DEF Issued, GivenTwice
<1>8. /\ \A u \in Threads : NodeOf[u] \in Nodes /\ id[u] \in Nat \cup {-1}
      /\ \A c \in created : c[1][1] \in Threads /\ c[2] \in Nat \cup {-1}
  BY TypeFacts DEF IdInv
<1>9. HeldIsIssued'
  BY <1>1, <1>6, <1>7, <1>8 DEF IdInv, HeldIsIssued
<1>10. HeldOnce'
  BY <1>6 DEF IdInv, HeldOnce
<1>11. UsedUp'
  <2>1. ASSUME NEW c \in created, c[2] \notin {-1, 0}
        PROVE  /\ Issued(NodeOf[c[1][1]], c[2])'
               /\ \A u \in Threads : Holds(u, c[2])' => NodeOf[u] # NodeOf[c[1][1]]
    BY <1>6, <1>7, <1>8, <2>1 DEF IdInv, UsedUp
  <2>2. ASSUME i \notin {-1, 0}
        PROVE  /\ Issued(NodeOf[t], i)'
               /\ \A u \in Threads : Holds(u, i)' => NodeOf[u] # NodeOf[t]
    BY <1>1, <1>6, <1>7, <1>8, <2>2 DEF IdInv, HeldIsIssued, HeldOnce
  <2> QED
    BY <1>1, <1>3, <2>1, <2>2 DEF UsedUp
<1>12. StoreIsNew'
  <2>1. ASSUME NEW u \in Threads, upc'[u] = "store", id[u] # -1, id[u] \in DOMAIN users'
        PROVE  GivenTwice(id[u])
    <3>1. upc[u] = "store" /\ u # t
      BY <1>1, <2>1
    <3>2. CASE id[u] \in DOMAIN users
      BY <2>1, <3>1, <3>2 DEF IdInv, StoreIsNew
    <3>3. CASE id[u] = i
      <4>1. Holds(u, i) /\ i \in Nat /\ i # 0
        BY <1>1, <2>1, <3>1, <3>3 DEF Holds, IdInv, HeldIsIssued
      <4>2. Holds(t, i) /\ NodeOf[u] # NodeOf[t]
        BY <1>6, <3>1, <4>1 DEF IdInv, HeldOnce
      <4> QED
        BY <1>8, <3>3, <4>1, <4>2 DEF IdInv, HeldIsIssued, GivenTwice
    <3> QED
      BY <1>2, <2>1, <3>2, <3>3
  <2> QED
    BY <1>1, <1>7, <1>8, <2>1 DEF StoreIsNew
<1>13. ReturnedIsStored'
  <2>1. ASSUME NEW c \in created, c[2] \notin {-1, 0}, ~GivenTwice(c[2])'
        PROVE  c[2] \in DOMAIN users' /\ users'[c[2]] = c[1]
    BY <1>2, <1>7, <1>8, <2>1 DEF IdInv, ReturnedIsStored
  <2>2. ASSUME i \notin {-1, 0}, ~GivenTwice(i)'
        PROVE  i \in DOMAIN users' /\ users'[i] = Creation(t)
    BY <1>1, <1>2, <1>7, <2>2 DEF IdInv, StoreIsNew
  <2> QED
    BY <1>1, <1>3, <2>1, <2>2 DEF ReturnedIsStored
<1> QED
  BY <1>4, <1>5, <1>9, <1>10, <1>11, <1>12, <1>13 DEF IdInv

LEMMA IdStep ==
  ASSUME {"exists", "store"} \cap FaultKinds = {}, IInv, IInv', IdInv, [UNext]_uvars
  PROVE  IdInv'
<1>0. \A t \in Threads : NodeOf[t] \in Nodes /\ got[t] \in Nat \cup {-1}
  BY DEF IInv, Core, TypeOK, Nodes
<1>1. ASSUME NEW t \in Threads, NEW n \in Names, Register(t, n) \/ Add(t, n)
      PROVE  IdInv'
  <2>1. UTypeOK' /\ InStep' /\ GivenIsZero' /\ UNCHANGED <<users, created>>
    BY <1>1 DEF Register, Add, Try, Enter, vars, IdInv, UTypeOK, ThreadTypes, InStep, GivenIsZero
  <2>2. /\ \A u \in Threads, i \in Nat : Holds(u, i)' => Holds(u, i)
        /\ \A u \in Threads : upc'[u] = "store" => upc[u] = "store" /\ id'[u] = id[u]
    BY <1>1 DEF Register, Add, Try, Enter, vars, IdInv, UTypeOK, ThreadTypes, Holds
  <2>3. \A m \in Nodes, i \in Nat : Issued(m, i) => Issued(m, i)'
    BY <1>1 DEF Register, Add, Try, Enter, vars, IdInv, UTypeOK, ThreadTypes, Issued
  <2> QED
    BY <2>1, <2>2, <2>3, NoNewId DEF IdInv
<1>2. ASSUME NEW t \in Threads, CallNext(t)
      PROVE  IdInv'
  <2>1. UTypeOK' /\ InStep' /\ GivenIsZero' /\ UNCHANGED <<users, created>>
    BY <1>2 DEF CallNext, Call, IdInv, IInv, Core, TypeOK, UTypeOK, ThreadTypes, InStep, GivenIsZero
  <2>2. /\ \A u \in Threads, i \in Nat : Holds(u, i)' => Holds(u, i)
        /\ \A u \in Threads : upc'[u] = "store" => upc[u] = "store" /\ id'[u] = id[u]
    BY <1>2 DEF CallNext, Call, IdInv, IInv, Core, TypeOK, UTypeOK, ThreadTypes, Holds
  <2>3. \A m \in Nodes, i \in Nat : Issued(m, i) => Issued(m, i)'
    BY <1>2 DEF CallNext, Call, IdInv, UTypeOK, ThreadTypes, Issued
  <2> QED
    BY <2>1, <2>2, <2>3, NoNewId DEF IdInv
<1>3. ASSUME NEW t \in Threads, NextReturned(t)
      PROVE  IdInv'
  <2>1. UTypeOK' /\ InStep' /\ GivenIsZero' /\ UNCHANGED <<users, created>>
    BY <1>0, <1>3 DEF NextReturned, Consume, IdInv, IInv, Core, TypeOK, UTypeOK, ThreadTypes, InStep, GivenIsZero
  <2>2. /\ \A u \in Threads, i \in Nat : Holds(u, i)' => Holds(u, i)
        /\ \A u \in Threads : upc'[u] = "store" => upc[u] = "store" /\ id'[u] = id[u]
    BY <1>3 DEF NextReturned, Consume, IdInv, IInv, Core, TypeOK, UTypeOK, ThreadTypes, Holds
  <2>3. \A m \in Nodes, i \in Nat : Issued(m, i) => Issued(m, i)'
    BY <1>3 DEF NextReturned, Consume, IdInv, UTypeOK, ThreadTypes, Issued
  <2> QED
    BY <2>1, <2>2, <2>3, NoNewId DEF IdInv
<1>4. ASSUME NEW t \in Threads, Exists(t)
      PROVE  IdInv'
  <2>1. UTypeOK' /\ InStep' /\ GivenIsZero' /\ UNCHANGED <<users, created>>
    BY <1>4 DEF Exists, vars, IdInv, UTypeOK, ThreadTypes, InStep, GivenIsZero
  <2>2. /\ \A u \in Threads, i \in Nat : Holds(u, i)' => Holds(u, i)
        /\ \A u \in Threads : upc'[u] = "store" =>
             id'[u] = id[u] /\ (upc[u] = "store" \/ id[u] \notin DOMAIN users)
    BY <1>4 DEF Exists, vars, IdInv, UTypeOK, ThreadTypes, Holds
  <2>3. \A m \in Nodes, i \in Nat : Issued(m, i) => Issued(m, i)'
    BY <1>4 DEF Exists, vars, IdInv, UTypeOK, ThreadTypes, Issued
  <2> QED
    BY <2>1, <2>2, <2>3, NoNewId DEF IdInv
<1>5. CASE UNCHANGED uvars
  BY <1>5 DEF uvars, vars, userVars, IdInv, UTypeOK, ThreadTypes, InStep, GivenIsZero, HeldIsIssued, HeldOnce, UsedUp,
              StoreIsNew, ReturnedIsStored, Holds, Issued, GivenTwice
<1>6. ASSUME NEW k \in DOMAIN users, Lock(k) \/ Unlock(k)
      PROVE  IdInv'
  BY <1>6 DEF Lock, Unlock, vars, IdInv, UTypeOK, ThreadTypes, InStep, GivenIsZero, HeldIsIssued, HeldOnce,
              UsedUp, StoreIsNew, ReturnedIsStored, Holds, Issued, GivenTwice
<1> QED
  BY <1>1, <1>2, <1>3, <1>4, <1>5, <1>6, NextStepIds, CreateGivenIds, StoreIds DEF UNext

LEMMA InitIdInv == UInit => IdInv
<1> SUFFICES ASSUME UInit PROVE IdInv
  OBVIOUS
<1>1. UTypeOK
  BY DEF UInit, UTypeOK, ThreadTypes
<1>2. InStep /\ GivenIsZero /\ (\A t \in Threads, i \in Nat : ~Holds(t, i))
  BY DEF UInit, Init, InStep, GivenIsZero, Holds
<1>3. HeldIsIssued /\ HeldOnce /\ UsedUp /\ StoreIsNew /\ ReturnedIsStored
  BY <1>2 DEF UInit, HeldIsIssued, HeldOnce, UsedUp, StoreIsNew, ReturnedIsStored
<1> QED
  BY <1>1, <1>2, <1>3 DEF IdInv

(* The user under the id that create returned is the one that was created,  *)
(* unless two nodes were given that number: for any nodes and threads, with *)
(* loads and inserts of the sequence that fail, as long as no update of the *)
(* sequence and no query or insert of a user does.                          *)
THEOREM CreatedIsStored ==
  ASSUME {"update", "exists", "store"} \cap FaultKinds = {}
  PROVE  USpec => []ReturnedIsStored
<1>1. UInit => IInv /\ IdInv
  BY InitIInv, InitIdInv DEF UInit
<1>2. IInv /\ IdInv /\ [UNext]_uvars => IInv' /\ IdInv'
  BY StepMaps, IInvStep, IdStep
<1>3. IdInv => ReturnedIsStored
  BY DEF IdInv
<1> QED
  BY <1>1, <1>2, <1>3, PTL DEF USpec, uvars

-----------------------------------------------------------------------------
(* The names.                                                               *)

(* A step that stores no user, reveals none and begins no registration.     *)
LEMMA NoNewName ==
  ASSUME NameInv, ThreadTypes', GivenIsZero', UNCHANGED <<users, crossed>>,
         hidden' \subseteq concealed', concealed \subseteq concealed',
         \A t \in Threads : Registering(t)' => Registering(t) /\ name'[t] = name[t]
  PROVE  NameInv'
BY DEF NameInv, NamesApart, Named, ThreadTypes

LEMMA TryNames ==
  ASSUME "exists" \notin FaultKinds, NameInv, NEW t \in Threads, NEW n \in Names, NEW taken \in BOOLEAN,
         Try(t, n, taken), ~taken => ~NameTaken(n)
  PROVE  NameInv'
<1>1. /\ upc[t] = "out" /\ UNCHANGED <<users, id, hidden, concealed>> /\ name' = [name EXCEPT ![t] = n]
      /\ upc' = [upc EXCEPT ![t] = "out"] \/ (~NameTaken(n) /\ upc' = [upc EXCEPT ![t] = "call"])
      /\ \A m \in Names : m \in crossed => m \in crossed'
      /\ n \notin crossed' => \A u \in Threads : upc[u] # "out" => name[u] # n
  BY DEF Try, Enter
<1>2. ThreadTypes /\ ThreadTypes' /\ GivenIsZero'
  BY <1>1 DEF NameInv, ThreadTypes, GivenIsZero
<1>3. NamesApart'
  BY <1>1 DEF NameInv, NamesApart, Named
<1>4. ASSUME NEW u \in Threads, Registering(u)', name'[u] \notin crossed'
      PROVE  /\ \A i \in DOMAIN users : Named(i, name'[u]) => i \in concealed \cup {GivenId}
             /\ \A w \in Threads \ {u} : Registering(w)' => name'[w] # name'[u]
  <2>1. CASE u = t
    <3>1. ~NameTaken(n) /\ name'[t] = n
      BY <1>1, <1>2, <1>4, <2>1 DEF Registering, ThreadTypes
    <3>2. \A i \in DOMAIN users : Named(i, n) => i \in concealed
      BY <3>1 DEF NameTaken, NameInv
    <3> QED
      BY <1>1, <1>2, <1>4, <2>1, <3>1, <3>2 DEF Registering, ThreadTypes
  <2>2. CASE u # t
    <3>1. Registering(u) /\ name'[u] = name[u] /\ name[u] \notin crossed /\ name[u] \in Names
      BY <1>1, <1>2, <1>4, <2>2 DEF Registering, ThreadTypes
    <3>2. name'[t] # name[u]
      BY <1>1, <1>2, <1>4, <3>1 DEF Registering, ThreadTypes
    <3> QED
      BY <1>1, <1>2, <2>2, <3>1, <3>2 DEF Registering, ThreadTypes, NameInv
  <2> QED
    BY <2>1, <2>2
<1>5. \A u \in Threads, i \in DOMAIN users : Named(i, name[u])' <=> Named(i, name'[u])
  BY <1>1 DEF Named
<1> QED
  BY <1>1, <1>2, <1>3, <1>4, <1>5 DEF NameInv

LEMMA StoreNames ==
  ASSUME NameInv, NEW t \in Threads, Store(t)
  PROVE  NameInv'
<1>1. /\ upc[t] \in {"store", "given"} /\ UNCHANGED <<crossed, concealed, hidden, name, id>>
      /\ upc' = [upc EXCEPT ![t] = "out"]
      /\ \A k \in DOMAIN users' : users'[k] = IF k \in DOMAIN users THEN users[k] ELSE Creation(t)
      /\ \A k \in DOMAIN users' : k \in DOMAIN users \/ k = id[t]
      /\ ThreadTypes
  BY DEF Store, NameInv, ThreadTypes
<1>2. ThreadTypes' /\ GivenIsZero' /\ \A u \in Threads : Registering(u)' => u # t /\ Registering(u)
  BY <1>1 DEF NameInv, ThreadTypes, GivenIsZero, Registering
<1>3. \A k \in DOMAIN users', n \in Names :
        Named(k, n)' => \/ k \in DOMAIN users /\ Named(k, n)
                        \/ k \notin DOMAIN users /\ k = id[t] /\ n = name[t]
  BY <1>1 DEF Named, Creation
<1>4. upc[t] = "given" => id[t] = GivenId
  BY DEF NameInv, GivenIsZero
<1>5. upc[t] = "store" => Registering(t)
  BY DEF Registering
<1>6. \A k \in DOMAIN users', n \in Names \ crossed :
        Named(k, n)' /\ k \notin concealed \cup {GivenId} =>
          \/ k \in DOMAIN users /\ Named(k, n)
          \/ /\ k = id[t] /\ n = name[t] /\ Registering(t)
             /\ \A i \in DOMAIN users : Named(i, n) => i \in concealed \cup {GivenId}
  BY <1>1, <1>3, <1>4, <1>5 DEF NameInv
<1>7. NamesApart'
  BY <1>1, <1>6 DEF NameInv, NamesApart
<1>8. ASSUME NEW u \in Threads, Registering(u)', name[u] \notin crossed
      PROVE  /\ \A i \in DOMAIN users' : Named(i, name[u])' => i \in concealed \cup {GivenId}
             /\ \A w \in Threads \ {u} : Registering(w)' => name[w] # name[u]
  <2>1. u # t /\ Registering(u) /\ name[u] \in Names \ crossed
    BY <1>1, <1>2, <1>8 DEF ThreadTypes
  <2>2. Registering(t) => name[t] # name[u]
    BY <2>1 DEF NameInv
  <2> QED
    BY <1>1, <1>2, <1>6, <2>1, <2>2 DEF NameInv
<1>9. \A u \in Threads : Named(id[t], name[u])' <=> users'[id[t]][3] = name[u]
  BY <1>1 DEF Named
<1> QED
  BY <1>1, <1>2, <1>7, <1>8 DEF NameInv, Named

LEMMA NameStep ==
  ASSUME "exists" \notin FaultKinds, NameInv, [UNext]_uvars
  PROVE  NameInv'
<1>0. ThreadTypes /\ GivenIsZero
  BY DEF NameInv
<1>1. ASSUME NEW t \in Threads, NEW n \in Names, Register(t, n) \/ Add(t, n)
      PROVE  NameInv'
  <2>1. CASE Register(t, n)
    BY <2>1, TryNames DEF Register, NameTaken
  <2>2. CASE Add(t, n)
    BY <2>2, TryNames DEF Add, NameTaken
  <2> QED
    BY <1>1, <2>1, <2>2
<1>2. ASSUME NEW t \in Threads, NEW n \in Names, CreateGiven(t, n)
      PROVE  NameInv'
  <2>1. /\ upc[t] = "out" /\ upc' = [upc EXCEPT ![t] = "given"]
        /\ name' = [name EXCEPT ![t] = n] /\ id' = [id EXCEPT ![t] = GivenId]
        /\ UNCHANGED <<users, crossed, hidden, concealed>>
    BY <1>2 DEF CreateGiven, Enter
  <2>2. ThreadTypes' /\ GivenIsZero'
    BY <1>0, <2>1 DEF ThreadTypes, GivenIsZero
  <2>3. \A u \in Threads : Registering(u)' => Registering(u) /\ name'[u] = name[u]
    BY <1>0, <2>1 DEF ThreadTypes, Registering
  <2> QED
    BY <2>1, <2>2, <2>3, NoNewName DEF NameInv
<1>3. ASSUME NEW t \in Threads, CallNext(t) \/ InNextStep(t) \/ NextReturned(t) \/ Exists(t)
      PROVE  NameInv'
  <2>1. /\ UNCHANGED <<users, name, crossed, hidden, concealed>>
        /\ \/ UNCHANGED <<upc, id>>
           \/ /\ Registering(t)
              /\ \E l \in {"next", "exists", "call", "store"} : upc' = [upc EXCEPT ![t] = l]
              /\ id' = id \/ id' = [id EXCEPT ![t] = got[t]]
    BY <1>3 DEF CallNext, InNextStep, NextReturned, Exists, UGoto, userVars, Registering
  <2>2. ThreadTypes' /\ \A u \in Threads : Registering(u)' => Registering(u) /\ name'[u] = name[u]
    BY <1>0, <2>1 DEF ThreadTypes, Registering
  <2>3. GivenIsZero'
    BY <1>0, <2>1 DEF ThreadTypes, GivenIsZero
  <2> QED
    BY <2>1, <2>2, <2>3, NoNewName DEF NameInv
<1>4. ASSUME NEW i \in DOMAIN users, Lock(i) \/ Unlock(i)
      PROVE  NameInv'
  <2>1. UNCHANGED <<users, crossed, upc, name, id>> /\ concealed \subseteq concealed' /\ hidden' \subseteq concealed'
    BY <1>4 DEF Lock, Unlock, NameInv
  <2> QED
    BY <1>0, <2>1, NoNewName DEF ThreadTypes, GivenIsZero, Registering
<1>5. CASE UNCHANGED uvars
  BY <1>0, <1>5, NoNewName DEF uvars, userVars, NameInv, ThreadTypes, GivenIsZero, Registering
<1> QED
  BY <1>1, <1>2, <1>3, <1>4, <1>5, StoreNames DEF UNext

(* The users of one name come from registrations that overlapped, unless    *)
(* one of them has been locked or is the administrator with the given id:   *)
(* whatever the sequence does and whether users can be stored or not, as    *)
(* long as no query fails.                                                  *)
THEOREM OneUserOfAName ==
  ASSUME "exists" \notin FaultKinds
  PROVE  USpec => []NamesApart
<1>1. UInit => NameInv
  <2> SUFFICES ASSUME UInit PROVE NameInv
    OBVIOUS
  <2>1. ThreadTypes /\ DOMAIN id = Threads /\ \A t \in Threads : upc[t] = "out"
    BY DEF UInit, ThreadTypes
  <2>2. /\ DOMAIN users = SeedIds /\ concealed = hidden
        /\ \A k \in SeedIds : \E n \in Names : users[k] = <<Seed, 0, n>>
    BY DEF UInit
  <2>3. \A i, j \in SeedIds : users[i][3] = users[j][3] => users[i] = users[j]
    BY <2>2
  <2>4. NamesApart
    BY <2>2, <2>3 DEF UInit, NamesApart, Named
  <2> QED
    BY <2>1, <2>2, <2>4 DEF NameInv, GivenIsZero, Registering
<1>2. NameInv /\ [UNext]_uvars => NameInv'
  BY NameStep
<1>3. NameInv => NamesApart
  BY DEF NameInv
<1> QED
  BY <1>1, <1>2, <1>3, PTL DEF USpec, uvars
=============================================================================
